# Verification of the dual egress gateway

The gateway accepts HTTP proxy connections on two listeners and sends each of
them out through one node of a shared pool.  The pool comes from subscriptions
that are refreshed periodically; nodes are probed, marked unavailable when a
dial fails, drained when a refresh drops them, and operators get alerts.  This
directory holds TLA+ models of that machinery, the TLC configurations that check
them, and TLAPS proofs.

## 1. Inventory

| component | state | operations | who else touches the state |
|---|---|---|---|
| Node registry, `internal/pool/registry.go` | per node: health, removed, probing, next probe, active count, dialer, sources; the routing order | `Apply`, `RoutingSnapshot`, `Acquire`, `ProbeDue`, `MarkFailure`, `MarkSuccess`, `NodeLease.Close` | every session, the refresh, every probe |
| Outbound engine, `internal/proxycore/engine.go` | outbounds and their tags, closed | `Build`, `nodeDialer.Close`, `Close` | the registry (under its lock), shutdown (without it) |
| Selector, `internal/pool/selector.go` | cursor, reservations, tickets, waiting results | `Begin`, `Next`, `Commit`, `Abort` | all connections of one listener |
| Proxy connections, `internal/httpproxy` | per connection: the selected lease, under `session.mu`; the map and count of sessions | CONNECT, forwarded requests, `dial`, `release`, `Shutdown` | `http.Transport` goroutines that outlive their request |
| Refresh and probe work, `internal/app/app.go` | `refreshMu`, last refresh | `Refresh`, `probeDue`, `backgroundLoop` | start-up goroutine, tickers, admin API |
| Subscription manager, `internal/subscription/manager.go`, `seed.go` | nodes and expiry per source, last snapshot and errors | `Refresh`, `LoadSeed`, `Snapshot` | `App.Refresh`, the alert worker |
| Alert worker, `internal/alert/monitor.go`, `App.alertLoop` | what was reported | `Evaluate`, `EvaluateExpiry` | samples manager and registry under `refreshMu`, sends without it |
| Lifecycle, `App.Run`, `listenAll`, `shutdown` | listeners, done channels | start, drain, close | everything above |
| Parsing, `internal/subscription/parse.go` | none | `Parse` | the manager, the seed |
| Configuration, admin API, `inspect`, `redact` | none, or read-only | validation, rendering; `POST /refresh` calls `App.Refresh` | - |

How they interact: a connection takes a `RoutingSnapshot`, walks it in the
selector's order, and for each candidate calls `Acquire`, dials, and reports the
result with `MarkSuccess`/`MarkFailure`.  The lease that worked stays selected
until the connection ends.  Each of those calls takes `registry.mu` for itself,
so refreshes, probes and other connections run between any two of them.  A
refresh publishes the manager's snapshot, applies it to the registry (building
outbounds under `registry.mu`) and probes what is due, all under `refreshMu`.

What is hard here:

* a node may be dropped, kept alive by one connection, wanted again, and dropped
  again, with leases of each period still open, and all bookkeeping goes by node
  id;
* one `probing` flag serves both half-open dials and probes;
* a snapshot is stale by the time a candidate of it is acquired;
* `Apply` may fail, or the engine be closed, after some outbounds were built;
* attempts of the selector finish in another order than they began, over
  candidate lists that change between them;
* a dial may outlive its request and even its connection;
* one source of several fails, and manager and registry may disagree afterwards;
* alerts are sent from a sample that may be out of date, to a service that may
  fail;
* a document may be one of five formats, with nodes that are skipped and nodes
  that condemn it, and the same node arrives in several formats;
* tunnels are hijacked from `net/http`, whose `Shutdown` knows nothing of them;
* `Run` waits for loops that wait for a lock which requests to the admin API
  hold.

`PROJECT.json` lists these as hazards, each with its line and the properties
that cover it.  What makes each component correct:

* registry: the active count is the number of open leases; a leased outbound
  exists; the gate is held by one lease; nothing is leaked and nothing drains
  for ever;
* selector: concurrent attempts start at different places, every eligible node
  is offered once, results retire in order and no success is forgotten;
* connections: no lease without somebody who will close it, no second half-open
  attempt, a connection keeps its outbound, an attempt returns;
* subscriptions: a source that fails, or answers with something that may not be
  taken, keeps its last good nodes, and the registry has exactly those, one per
  outbound;
* server and lifecycle: the count of connections is right, a tunnel that is half
  closed goes on, `Shutdown` returns with nobody connected, the engine is closed last,
  and `Run` returns;
* alerts: no more messages than failures, and a failure that lasts is reported.

## 2. Modules

| module | what it is |
|---|---|
| `LeasePool` | what the registry promises: an abstract pool that lends outbounds |
| `Registry` | registry and engine; implements `LeasePool` |
| `RegistryProofs`, `LeasePoolProofs` | inductive invariant and theorems; the refinement |
| `Selector`, `MCSelector`, `SelectorProofs` | the selector, its instance, its theorems |
| `Gateway`, `MCGateway`, `GatewayProofs` | sessions, refresh and probe work composed with `Registry` (EXTENDS), instances, theorems |
| `Parse` | parsing of subscription documents, as operators |
| `Subscriptions`, `MCSubscriptions`, `SubscriptionsProofs` | manager and `App.Refresh`, composed with `Parse` (EXTENDS); documents of every format; theorems, also on the identity of nodes |
| `Alerts`, `AlertsProofs` | alert worker and monitor, theorems |
| `ServerLife` | what a proxy server promises the application |
| `Proxy`, `ProxyProofs` | one proxy server, its connections and tunnels, `Shutdown`; implements `ServerLife`; theorems and the refinement |
| `Lifecycle`, `LifecycleProofs` | `App.Run` composed with two servers (INSTANCE `ServerLife`) and the users of `refreshMu`, theorems |

**Registry.**  An operation under `registry.mu` is one action.  `Apply` is split
(`ApplyBegin`, `ApplyBuild` per missing node, `ApplyFails`/`ApplyFinish`) because
`EngineClose` does not take `registry.mu` and can come in between; while `apply`
is `"building"` no other registry action is enabled.  The boolean fields of a
`nodeState` are sets of ids.  Time is the set `due` of nodes whose next probe has
come.  `ProbeDue` takes all due nodes in one step, as the code does.  `LeaseClose`
is `NodeLease.Close` with `release`, including the deletion of a drained node and
the closing of its dialer.

**Selector.**  `Begin`, `AttemptNext`/`AttemptNextExhausted`, `Commit` and
`Abort`; `finish` records a result and retires the finished tickets at the head,
moving the cursor to the largest committed target and setting the reservation
back when the head catches up, as the loop in the code does.

**Gateway.**  A session's dial is the control state `dial`: `"choosing"` between
candidates, `"dialing"` through an acquired lease, `"failed"` between
`MarkFailure` and the lease's `Close`, `"pinnedDial"` through the selected lease,
`"spawned"` for a transport goroutine that has not reached `session.mu` yet.
`session.mu` is held in all of them but `"none"` and `"spawned"`.  The selector
is replaced by what `Selector!OfferedInOrder` shows of it (each eligible
candidate at most once), in any order.  `late` is a history variable: the
sessions whose dial entered `session.dial` after their release (finding 2), which
is the one way a lease gets to nobody (`LeasesHaveOwners`).  `refresh` is the holder of `refreshMu`,
`probe[n]` where the goroutine probing `n` is.  The engine stays open in this
module: it is closed at shutdown only, which is not part of it.

**LeasePool.**  A pool without counts, flags and draining: `Replace` a snapshot,
`Grant` leases, `Return` one.  Its state is the registry's `order`, `dialer`,
`holds`, `via` and `gated`; an outbound lasts exactly while its node is routable
or lent.  `Registry!ImplementsLeasePool` is the refinement.

**Parse.**  `Parse` takes the first format that recognizes the body: sing-box
JSON, Clash YAML, Webshare records, URIs in base64, URIs.  Each format has what
condemns a document (an unsupported protocol, VLESS options that cannot be
honoured, one bad Webshare record), what is merely skipped (ignored types, a node
without port or credential, a line that is no URI) and how a node is
normalized.  `stableMapID` is the identity: the options without their name.
Option maps are functions on keys; decoding bytes is not modelled.  Three
normalizations differ between formats: a Reality URI without `sid` gets an empty
`short_id` (parse.go:547), a Clash node without one gets none (377-378); an
`https` URI gets its host as `server_name` (520), a Clash node with `tls` does
not; and a VLESS node with Reality but without uTLS gets the Chrome fingerprint
from sing-box JSON (285), and none from another format.  Such a node, listed both ways, stays two
nodes; the documents of `MCSubscriptions` list nodes both ways, and give each
with the options its format fills in.

**Subscriptions.**  One step per fetched source: an error, a document that Parse
takes nothing from, or one it takes nodes from; then `Publish`, then one of
`NothingToApply`, `Apply`, `ApplyFails`, then the probe round.  The seed file is
the choice of initial state.  The registry is represented by the snapshot last applied, which
`Registry!OrderAndDraining` and `ApplyFinish` justify.  `MCSubscriptions` gives
each document together with the outbounds it offers, written down by hand in
sing-box form; `lastGood` remembers those, and `applied` what they were when an
`Apply` last succeeded, so the properties compare the whole path from the body
to the registry with them.

**Alerts.**  The worker's round is `Sample`, one step per delivery of a source
alert, the step for the node count, one step per expiry message, `RoundEnds`.
Refreshes, health changes and the passing of time happen between any two.

**Proxy.**  A connection goes from `Accept` through `ConnContext` (`Track`),
requests and perhaps `Hijack` to its release, by `ConnState` (`CloseConn`) or by
the deferred call of a tunnel's handler (`EndTunnel`, `Release`, `Forget`).
Each end of a tunnel is open, half closed or closed.  `cancelled` has the
connections whose request context is done: `net/http` reads ahead while a handler
runs and cancels the context when it finds the client's end, also when the client
only half-closed (`ContextDone`).  After `Hijack` it reads no longer, so a tunnel
is cancelled from its first moment or never; the watcher of a CONNECT then ends
both copies (`DeadlineEnds`), a protocol upgrade has no watcher.  `Shutdown` is
`CallShutdown`, `Drained` (`http.Server.Shutdown` returns), the polling of the
count, and the forced close of what is in the sessions map.  `net/http` is
external and modelled from its documented behaviour.

**Lifecycle.**  Two `ServerLife` instances, since `Proxy!ImplementsServerLife`
shows that a server behaves so, the admin server, and four goroutines (start-up
refresh, background loop, alert loop, admin refresh) that want `refreshMu`.
What they do while they hold it is the subject of the other modules.

Definitions that precede the one they resemble (`DroppedIgnoringLeases` before
`Dropped`, `finishRetiringOne` before `finish`, ...) are wrong variants.  Nothing
uses them; they record plausible mistakes, and substituting one makes TLC
report the property `PROJECT.json` names with it.

## 3. Runs

| run | bounds | shows |
|---|---|---|
| `registry` (`Registry.cfg`) | 2 nodes, 2 dialers, 3 leases | lease counts, leased outbounds, the gate, draining and outbounds stay consistent through all interleavings; `DrainingEnds`: a dropped node stops draining once leases close; `ImplementsLeasePool` |
| `selector` (`MCSelector.cfg`) | 3 attempts at a time, 4 tickets, lists of 0, 2 and 3 nodes | distinct starts that spread over a list, ticket accounting, order of offers, commit position, no success forgotten |
| `gateway` (`MCGateway.cfg`) | 2 connections, 2 nodes | connections, prober and refreshes compete for nodes that are dropped and wanted again |
| `gateway_live` | 1 connection, 2 nodes | attempts return, sessions are released, a node marked unavailable is tried again |
| `gateway_lockout`, `gateway_leak` | 1 connection, 1 node | findings 1 and 2 |
| `subscriptions` (`MCSubscriptions.cfg`) | 2 sources, 25 documents, node limit 4, 1 expiry time | last known good nodes in the manager, those of the last successful `Apply` in the registry, one node for equal normalized options |
| `alerts` | 1 source, 2 times, 2 episodes | repeats bounded, failures and low pool reported |
| `alerts_expiry`, `alerts_silent` | 1 source, 2 and 1 times, 2 episodes | findings 3 and 4 |
| `proxy` (`Proxy.cfg`) | 2 connections at a time | count, half-closed tunnels, `ServerLife`, `Shutdown` returns, tunnels are forgotten |
| `lifecycle` (`Lifecycle.cfg`) | none | engine closed last, `Run` returns |

Why the bounds suffice.  `Registry`: the count matters at 0, 1 and more, three
leases allow two on one node and one on another, or a gated one beside two
plain ones.  A lease or dialer that is finished stands for a new one, so
histories are unbounded.  Two dialers for two nodes means that a node removed
and re-added cannot get a third while both are in use; the proofs have no such
bound.  `Selector`: `MaxTickets` is the only counter bound; four tickets with
three open at a time include results waiting behind an unfinished one, a reset
of the reservation, and an attempt begun after it.  `Gateway`: a refresh
never applies an empty snapshot, so a node is dropped only where there is a
second one, and it drains only under a connection's lease (probes end before the
next refresh), so another connection can meet a draining node only with two of
each.  More is beyond TLC, and is what the proofs are for.  `Subscriptions`: two sources that share nodes give every
combination of good and failed sources; the documents include each format, each
reason to reject and to skip, ports at and beyond both ends, and a list at and
one over the limit, which is 512 in the code and 4 here.  `Proxy`: a connection
that ended stands for a new one; two are needed so that one can be accepted,
hijacked or released while `Shutdown` deals with the other.  `Alerts`: the code treats sources
independently; `MaxEpisodes` bounds how often a source or the pool goes bad, and
two is one more than the first.

Deadlock is checked in all runs but the selector's, where reaching
`MaxTickets` ends the run, and those of `Proxy` and `Lifecycle`, where the
program ends.  Symmetry is used for safety only, over sets whose
members the modules never distinguish.

### Fairness

* `RegistryFairSpec`: leases are closed in the end (strong fairness, since
  `Close` competes for `registry.mu`, and a Go mutex does not starve a waiter),
  and an `Apply` returns.  The first is an assumption on the holders; for
  attempts, probes and released sessions `gateway_live` discharges it, for
  connections it is the client's decision.
* `GatewayFairSpec`: goroutines that hold or wait for a lock proceed, and dials of
  an attempt and probes have timeouts (strong fairness for what competes with an
  Apply for `registry.mu`; weak fairness is enough for probes, whose round holds
  `refreshMu` and so keeps Apply away).  The probe ticker fires and its loop gets
  `refreshMu` in the end (strong fairness, a Go mutex), and time passes a node's
  next probe.  Nothing is assumed of clients, tunnels,
  transport goroutines that have not started dialing, or the dial through the
  selected lease, which has no timeout (hence the exception in
  `SessionsReleased`).
* `AlertsFairSpec`: tickers fire, refreshes return, and a message that is tried
  again and again is accepted at some time.  The last is an assumption on the
  service.
* `ProxyFairSpec`: `Serve` and `Shutdown` go on when they can, the drain period
  ends, and a tunnel's goroutines notice that a source has ended.  The last
  assumes that `io.Copy` is not stuck in a write to a peer that never reads, which
  nothing in the code bounds before the forced close.  Nothing is
  assumed of clients, upstreams or requests: a request may hold `session.mu`,
  which `release` waits for, as long as its upstream is silent.
* `LifecycleFairSpec`: `Run` goes on when it can, a `Shutdown` returns
  (`Proxy!ShutdownReturns`), work under `refreshMu` and deliveries are bounded by
  timeouts, and neither a mutex nor a `select` with two ready cases starves
  anyone.  Nobody need ask `Run` to stop.

### Findings

1. `NoLockout`: the gate of a half-open lease is cleared by the lease's `Close`
   only, and a session keeps the lease as long as its connection lives.  If the
   node is marked unavailable again meanwhile, and no other node is healthy,
   neither a new connection nor the prober tries it, against the design's promise
   of a half-open pass through every node.
2. `ClosedHoldsNoLease`: `session.dial` does not notice that the session was
   released, so a late dial of the transport selects a lease nobody closes.
3. `ExpiryOnce`: the monitor remembers one expiry per source; one that changes and
   changes back is notified twice.
4. `LowReportedAfterRefresh`: `lastRefresh` is not set when `Apply` fails, and the
   worker waits for it, so alerts may never be evaluated.

An observation without a run: `shutdown` drains the HTTP server before it calls
`Shutdown` of the WS server (app.go:283-284), so the WS listener accepts clients
for as long as the HTTP server drains, while the design
(`.internal/specs/2026-09-12-dual-http-egress-gateway-design.md:93`, "stop accepting
connections, allow a configurable drain period, then cancel remaining work") puts
the stop first.  The drain period is shared, so a WS client that came
late may get no time at all; `EngineClosedLast` shows that it is
disconnected before the engine is closed under it.

A second one: the worker compares samples.  A source that recovers and fails
again between two of them is not reported a second time (monitor.go:68), while
the alert design (`.internal/specs/2026-09-12-alert-notifications-design.md:18`)
has a successful refresh rearm the source "so a later failure alerts again".
`AlertsPerEpisode` is therefore an upper bound, and `FailureReported` speaks of
failures that nobody was told of.

A third: a CONNECT client that half-closes after its dial succeeded and before
`Hijack` gets a tunnel whose context is done, and the watcher (connect.go:71-78)
cuts off the upstream's answer.  The plan
(`.internal/plans/2026-09-12-dual-http-egress-gateway.md:278`) says "Bidirectional
tunnel copy handles half-close and shutdown without goroutine leaks."; the tests
half-close only once the tunnel is up (server_test.go:291, 359).
`HalfCloseSurvives` excepts exactly the tunnels that began with their context done.

A fourth: "duplicate nodes across sources collapse to one node while retaining
source membership" (`.internal/specs/2026-09-12-dual-http-egress-gateway-design.md:55`)
holds of nodes whose options normalize alike.  The three differences between
formats named in section 2 leave two nodes, each with its own health and share of
the rotation; `PoolIsLastGood` says what the code does.

## 4. Proofs

Every invariant and every action property of the passing runs, and both
refinements, are theorems.  They hold for every value of the constants that
satisfies the module's assumption: `RegistryAssumption` (the nil dialer and the id
of no node are no dialer and no node; finitely many leases), `SelectorAssumption`
(a candidate list has no duplicates), `GatewayAssumption` (a session and a probe
name the lease they hold), `ProxyAssumption` (finitely many connections),
`AlertsAssumption` and `SubscriptionsAssumption` (the zero time is no time a
source can name), `ParseAssumption` (the node limit is a number).  The counter bounds
(`MaxTickets`, `MaxEpisodes`) are constants too, so the theorems hold for each
of them.  Each inductive invariant below was checked by TLC before it was proved.

**RegistryInv.**  None of the properties is inductive alone.  The count of a node
can be kept correct by `LeaseClose` only if an open lease is on a node that
exists (`LeaseNodes`); deleting a node is harmless only if its count is the
number of its leases; a lease's outbound stays alive only if the lease's dialer
is the node's dialer and no two nodes, and no dialer just built, share one
(`DialersDistinct`); the gate is released correctly only if a gated lease implies
`probing` and conversely.  `RegistryInv` conjoins these with the flags' domain
(`FlagsInNodes`) and the state of an Apply in progress (`BuiltInv`).  There is
one lemma per action; counting rests on `CountOneMore` and `CountOneLess`.

**LeasePool.**  Besides `RegistryInv` the refinement needs `NoTrace`: a node
outside the map has no dialer, a closed lease no node, and only open leases are
gated.  Then `ApplyFinish` is `Replace`, because the dropped nodes are exactly
the unwanted ones without borrowers; `Acquire` and `ProbeDue` are `Grant`, because
a node that is not `probing` has no gated lease; `LeaseClose` is `Return`,
because the last lease of a draining node is the only borrower; and the other
steps change nothing the pool sees.

**GatewayInv** is `RegistryInv` and `LocalInv`, which ties `dial`, `pinned`,
`probe` and `refresh` to the leases.  Each gateway action is shown to be a
registry step or to leave the registry alone, given `LocalInv` (`EveryStepOK`);
so `GatewaySpec => RegistrySpec`, and the registry's invariants, and the lease
pool, carry over instead of being proved again.
`OneHalfOpenAttempt`, `PinnedOutboundStays` and `NoLeaseOnRemoved` follow.
`LeasesHaveOwners` needs that an open lease is somebody's (`OwnersInv`) and that
a released session has a lease only if its dial was late (`LateInv`).

**SelectorInv** adds to the properties that open attempts start below the next
reservation (`StartsReserved`), so that the next one is distinct; that the
reservation equals the cursor when all tickets are retired (`RetiredAtCursor`);
and that starts and tickets are handed out in step (`StartsFollowTickets`).  A
reset would break the last, but it needs every ticket retired, and
`TicketsAccounted` then leaves no attempt in progress.  The starts in use
therefore lie as close together as the outstanding tickets, and numbers less than
n apart differ modulo n (`ModDiffers`): that is the part of `DistinctStarts` about
spreading.  `CommitStartsBehindNode` is arithmetic on top of `OfferedInOrder`: the
place of a node at offset k from `start % n` and the place where the committed
target begins are compared with `DivMod`, `ModUnique` and `ModAdd`.
`SuccessesKept` says what retiring amounts to: a committed target moves the
cursor or waits until it does.  One more theorem says that attempts that do not
overlap are a plain round robin (`SelectorOneByOne`, for one attempt at a time;
with two that overlap a commit may come too late to move the cursor, as it
should).

**ProxyInv.**  `ActiveCounted` needs to know, for each state of a connection,
whether its session is in the map and whether it may have a client (`MapInv`),
else a release could count below zero and the forced close could miss a client;
`HalfCloseSurvives` needs that a copy of a tunnel that is not cancelled has
returned only for a reason that stays (`CopyInv`).  The refinement of `ServerLife` needs `ServeInv`: nobody is
accepted once `Shutdown` has begun, nobody is untracked once `Serve` has
returned, which it has when the polling begins, and after the forced close no
client is left.

**LifecycleInv.**  `EngineClosedLast` needs that `shutdown` gets to the engine
behind three stopped servers (`OrderInv`) and that a stopped server stays so
(`StoppedInv`).  `Lifecycle` uses each server through the actions of
`ServerLife` only, and `ProxyImplementsServerLife` shows that a server behaves so.

**AlertsInv.**  A message under way, or a failure not reported yet, belongs to an
episode nobody was told of (`SourceInv`).  For the node count the sample may be
stale in the other direction as well, and rearm the alert although the pool is
low again: then the pool is in a new period (`LowInv`).  `AlertsExpiryIsNews` is
what the code guarantees where finding 3 refutes `ExpiryOnce`: a source is not
notified of the same expiry twice in a row.

**SubscriptionsInv.**  A source has an update only from a document with nodes, and
only during a refresh (`UpdatesInv`); the snapshot is the merge of the lists, and
the registry has the snapshot once `Apply` has taken it (`PoolInv`); what was
offered then stays the registry's content through Applies that fail
(`AppliedInv`).  That gives
type correctness and `SubscriptionsNeverEmptied` for whatever documents arrive.
`LastKnownGood` and `PoolIsLastGood` compare with what documents really offer, so
they have the hypothesis `ReadAsOffered`: `Parse` takes from each document exactly
what it offers.  TLC evaluates it, through these properties, on the 25 documents
of `MCSubscriptions`, one for each way through `Parse`.  `NamesDoNotCount` and
`OptionsCount` are about `stableMapID` on all option maps: maps that differ in
names only have the same identity, and normalized ones (the port is called
`server_port`) that differ in anything else have not.

Only model-checked:

* liveness (`DrainingEnds`, `DialReturns`, `SessionsReleased`, `TriedAgain`,
  `FailureReported`, `LowReported`, `ShutdownReturns`, `TunnelForgotten`,
  `RunReturns`): fairness and ENABLED are out of the prover's reach;
* that `Parse` reads documents as they are meant, which would need induction over
  the lists it filters.

## 5. Not modelled

* Decoding of bytes: JSON, YAML, base64 and URL syntax, letter case and white
  space.  The models start from decoded documents.
* Configuration, inspection, redaction, `/status` and `/healthz`: read-only or
  before anything runs.
* Payload: headers, authentication, the bytes of a tunnel, TLS, sing-box.  A dial,
  a fetch, a probe and a delivery have an outcome.
* The start-up of the fixed-egress command.  Its sessions are those of `Gateway`
  with one node.

## 6. Plan

Done: all components that keep state are modelled, and all their safety properties
are proved.  Left:

1. the per-format lemmas about `Parse` that need no induction: what condemns a
   document in each format;
2. whether each failure of a source is reported (the second observation above)
   as a property with a run of its own.
