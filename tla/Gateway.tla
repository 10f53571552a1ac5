------------------------------ MODULE Gateway -------------------------------
(***************************************************************************)
(* Client connections of the proxy listeners (internal/httpproxy) and the  *)
(* refresh and probe work of the application (internal/app) running        *)
(* against one registry.                                                   *)
(*                                                                         *)
(* A registry call is one step; between two calls of a goroutine the       *)
(* others run.  session.mu is held from the start of session.dial to its   *)
(* return, refreshMu from the start of a refresh or probe round to its     *)
(* end.                                                                    *)
(*                                                                         *)
(* Abstractions:                                                           *)
(*  - the selector is replaced by what Selector!OfferedInOrder promises:   *)
(*    each eligible candidate of the snapshot is offered at most once.     *)
(*    The order does not matter here, so both listeners are covered;       *)
(*  - a session runs one dial at a time.  CONNECT dials in the handler,    *)
(*    under the request context; a forwarded request dials in a goroutine  *)
(*    of its http.Transport, which outlives the request;                   *)
(*  - an upstream dial or a probe may succeed or fail at any time;         *)
(*  - a session, and a probed node, names the lease it holds: a session    *)
(*    has at most one lease at a time, and a node at most one probe.       *)
(***************************************************************************)
EXTENDS Registry

CONSTANT Sessions     \* client connections open at a time

ASSUME GatewayAssumption ==
    /\ Sessions \subseteq Leases
    /\ Nodes \subseteq Leases
    /\ Sessions \cap Nodes = {}

VARIABLES
    conn,       \* "open", "tunnel" (hijacked), "gone" (client left, request
                \* context cancelled) or "closed" (not accepted, or released)
    dial,       \* where the session's dial is
    forwarded,  \* sessions whose dial under way serves a forwarded request
    todo,       \* candidates the attempt has not been offered yet
    halfOpen,   \* those of todo that the snapshot offers half-open
    pinned,     \* sessions whose `selected' is set
    late,       \* history: sessions whose dial entered session.dial when they
                \* had been released, and may select, or has selected, a lease
    probe,      \* state of the probe of each node
    refresh     \* holder of refreshMu: "idle", "applying", "applied" or "probing"

sessionVars == <<conn, dial, forwarded, todo, halfOpen, pinned, late>>
workVars == <<probe, refresh>>
gatewayVars == <<registryVars, sessionVars, workVars>>

GatewayInit ==
    /\ RegistryInit
    /\ conn = [s \in Sessions |-> "closed"]
    /\ dial = [s \in Sessions |-> "none"]
    /\ forwarded = {}
    /\ todo = [s \in Sessions |-> {}]
    /\ halfOpen = [s \in Sessions |-> {}]
    /\ pinned = {}
    /\ late = {}
    /\ probe = [n \in Nodes |-> "none"]
    /\ refresh = "idle"

-----------------------------------------------------------------------------
(* Connections *)

\* ConnContext: an accepted connection gets a session.  An old session can
\* be forgotten once nothing of it runs.
Accept(s) ==
    /\ conn[s] = "closed"
    /\ dial[s] = "none"
    /\ s \notin pinned
    /\ conn' = [conn EXCEPT ![s] = "open"]
    /\ UNCHANGED <<registryVars, dial, forwarded, todo, halfOpen, pinned, late, workVars>>

\* session.dial locks session.mu.  A session with a selected lease dials
\* through it; otherwise the dial takes a routing snapshot and begins an
\* attempt.
EnterDial(s) ==
    /\ IF s \in pinned
         THEN /\ dial' = [dial EXCEPT ![s] = "pinnedDial"]
              /\ UNCHANGED <<todo, halfOpen>>
         ELSE /\ Unlocked
              /\ dial' = [dial EXCEPT ![s] = "choosing"]
              /\ todo' = [todo EXCEPT ![s] = Eligible]
              /\ halfOpen' = [halfOpen EXCEPT ![s] = HalfOpen]
    /\ UNCHANGED <<registryVars, conn, pinned, workVars>>

\* handleConnect dials in the handler.
Connect(s) ==
    /\ conn[s] = "open"
    /\ dial[s] = "none"
    /\ UNCHANGED <<forwarded, late>>
    /\ EnterDial(s)

\* handleForward: the transport starts a goroutine to dial.
Forward(s) ==
    /\ conn[s] = "open"
    /\ dial[s] = "none"
    /\ dial' = [dial EXCEPT ![s] = "spawned"]
    /\ forwarded' = forwarded \cup {s}
    /\ UNCHANGED <<registryVars, conn, todo, halfOpen, pinned, late, workVars>>

\* The goroutine reaches session.dial, which does not look at whether the
\* session has been released.
ForwardDial(s) ==
    /\ dial[s] = "spawned"
    /\ late' = IF conn[s] = "closed" THEN late \cup {s} ELSE late
    /\ UNCHANGED forwarded
    /\ EnterDial(s)

\* Next returns a candidate and Acquire grants it.
TryCandidate(s) ==
    /\ dial[s] = "choosing"
    /\ \E n \in todo[s] :
          /\ todo' = [todo EXCEPT ![s] = @ \ {n}]
          /\ halfOpen' = [halfOpen EXCEPT ![s] = @ \ {n}]
          /\ Acquire(s, n, n \in halfOpen[s])
    /\ dial' = [dial EXCEPT ![s] = "dialing"]
    /\ UNCHANGED <<conn, forwarded, pinned, late, workVars>>

\* Acquire refuses: the node was removed, became unhealthy, or another
\* half-open dial or probe has it.
SkipCandidateRetrying(s) ==
    /\ dial[s] = "choosing"
    /\ Unlocked
    /\ \E n \in todo[s] : ~CanAcquire(n, n \in halfOpen[s])
    /\ UNCHANGED gatewayVars
SkipCandidate(s) ==
    /\ dial[s] = "choosing"
    /\ Unlocked
    /\ \E n \in todo[s] :
          /\ ~CanAcquire(n, n \in halfOpen[s])
          /\ todo' = [todo EXCEPT ![s] = @ \ {n}]
          /\ halfOpen' = [halfOpen EXCEPT ![s] = @ \ {n}]
    /\ UNCHANGED <<registryVars, conn, dial, forwarded, pinned, late, workVars>>

\* No candidate is left: Abort, and the request is answered with 502.
AllFailed(s) ==
    /\ dial[s] = "choosing"
    /\ todo[s] = {}
    /\ dial' = [dial EXCEPT ![s] = "none"]
    /\ forwarded' = forwarded \ {s}
    /\ late' = late \ {s}
    /\ UNCHANGED <<registryVars, conn, todo, halfOpen, pinned, workVars>>

\* The upstream connection is made: MarkSuccess, Commit, the session keeps
\* the lease.  A CONNECT connection is hijacked.
DialSucceeds(s) ==
    /\ dial[s] = "dialing"
    /\ MarkSuccess(holds[s])
    /\ dial' = [dial EXCEPT ![s] = "none"]
    /\ todo' = [todo EXCEPT ![s] = {}]
    /\ halfOpen' = [halfOpen EXCEPT ![s] = {}]
    /\ pinned' = pinned \cup {s}
    /\ conn' = IF conn[s] = "open" /\ s \notin forwarded
                 THEN [conn EXCEPT ![s] = "tunnel"] ELSE conn
    /\ forwarded' = forwarded \ {s}
    /\ UNCHANGED <<late, workVars>>

\* The dial fails (the node refuses or cannot reach the target, DialTimeout
\* passes, or the client of a CONNECT leaves and its context ends): the node
\* is marked.
DialFailsUnlocked(s) ==
    /\ dial[s] = "dialing"
    /\ healthy' = healthy \ {holds[s]}
    /\ due' = due \ {holds[s]}
    /\ dial' = [dial EXCEPT ![s] = "failed"]
    /\ UNCHANGED <<probing, poolVars, applyVars, engineVars, leaseVars,
                   conn, forwarded, todo, halfOpen, pinned, late, workVars>>
DialFails(s) ==
    /\ dial[s] = "dialing"
    /\ MarkFailure(holds[s])
    /\ dial' = [dial EXCEPT ![s] = "failed"]
    /\ UNCHANGED <<conn, forwarded, todo, halfOpen, pinned, late, workVars>>

\* lease.Close after a failed dial; the attempt goes on.
CloseFailedLease(s) ==
    /\ dial[s] = "failed"
    /\ LeaseClose(s)
    /\ dial' = [dial EXCEPT ![s] = "choosing"]
    /\ UNCHANGED <<conn, forwarded, todo, halfOpen, pinned, late, workVars>>

\* A dial through the selected lease: success leaves the registry alone.
PinnedDialSucceeds(s) ==
    /\ dial[s] = "pinnedDial"
    /\ dial' = [dial EXCEPT ![s] = "none"]
    /\ conn' = IF conn[s] = "open" /\ s \notin forwarded
                 THEN [conn EXCEPT ![s] = "tunnel"] ELSE conn
    /\ forwarded' = forwarded \ {s}
    /\ UNCHANGED <<registryVars, todo, halfOpen, pinned, late, workVars>>

PinnedDialFails(s) ==
    /\ dial[s] = "pinnedDial"
    /\ MarkFailure(holds[s])
    /\ dial' = [dial EXCEPT ![s] = "none"]
    /\ forwarded' = forwarded \ {s}
    /\ UNCHANGED <<conn, todo, halfOpen, pinned, late, workVars>>

\* handleUpgrade: the upstream switches protocols, the connection is hijacked.
Upgrade(s) ==
    /\ conn[s] = "open"
    /\ dial[s] = "none"
    /\ s \in pinned
    /\ conn' = [conn EXCEPT ![s] = "tunnel"]
    /\ UNCHANGED <<registryVars, dial, forwarded, todo, halfOpen, pinned, late, workVars>>

\* The client leaves, or the server times the idle connection out.
Disconnect(s) ==
    /\ conn[s] = "open"
    /\ conn' = [conn EXCEPT ![s] = "gone"]
    /\ UNCHANGED <<registryVars, dial, forwarded, todo, halfOpen, pinned, late, workVars>>

\* Both directions of the tunnel are done.
TunnelEnds(s) ==
    /\ conn[s] = "tunnel"
    /\ conn' = [conn EXCEPT ![s] = "gone"]
    /\ UNCHANGED <<registryVars, dial, forwarded, todo, halfOpen, pinned, late, workVars>>

\* The handler has returned and session.release runs: it waits for
\* session.mu and closes the selected lease.
ReleaseKeepingLease(s) ==
    /\ conn[s] = "gone"
    /\ dial[s] \in {"none", "spawned"}
    /\ conn' = [conn EXCEPT ![s] = "closed"]
    /\ UNCHANGED <<registryVars, dial, forwarded, todo, halfOpen, pinned, late, workVars>>
ReleaseSelectedOnly(s) ==
    /\ conn[s] = "gone"
    /\ dial[s] \in {"none", "spawned"}
    /\ s \in pinned
    /\ LeaseClose(s)
    /\ pinned' = pinned \ {s}
    /\ conn' = [conn EXCEPT ![s] = "closed"]
    /\ UNCHANGED <<dial, forwarded, todo, halfOpen, late, workVars>>
Release(s) ==
    /\ conn[s] = "gone"
    /\ dial[s] \in {"none", "spawned"}
    /\ IF s \in pinned THEN LeaseClose(s) ELSE UNCHANGED registryVars
    /\ pinned' = pinned \ {s}
    /\ conn' = [conn EXCEPT ![s] = "closed"]
    /\ UNCHANGED <<dial, forwarded, todo, halfOpen, late, workVars>>

-----------------------------------------------------------------------------
(* Refresh and probe rounds, under refreshMu *)

\* App.Refresh got a snapshot with nodes and applies it.
RefreshApply(snapshot) ==
    /\ refresh = "idle"
    /\ snapshot # NoSnapshot
    /\ ApplyBegin(snapshot)
    /\ refresh' = "applying"
    /\ UNCHANGED <<sessionVars, probe>>

RefreshBuild(n) == ApplyBuild(n) /\ UNCHANGED <<sessionVars, workVars>>

\* Apply fails: Refresh returns without probing.
RefreshFailsKeepingLock == ApplyFails /\ UNCHANGED <<sessionVars, workVars>>
RefreshFails ==
    /\ ApplyFails
    /\ refresh' = "idle"
    /\ UNCHANGED <<sessionVars, probe>>

RefreshApplied ==
    /\ ApplyFinish
    /\ refresh' = "applied"
    /\ UNCHANGED <<sessionVars, probe>>

\* probeDue leases the due nodes and starts a goroutine for each: after an
\* Apply, or on a tick of the probe ticker.
StartProbes ==
    /\ refresh \in {"idle", "applied"}
    /\ ProbeDue([n \in Nodes |-> n])
    /\ probe' = [n \in Nodes |-> IF n \in DueNodes THEN "running" ELSE probe[n]]
    /\ refresh' = "probing"
    /\ UNCHANGED sessionVars

\* A probe ends within its timeout and marks its node; then it closes its
\* lease.
ProbeMarks(n) ==
    /\ probe[n] = "running"
    /\ MarkSuccess(n) \/ MarkFailure(n)
    /\ probe' = [probe EXCEPT ![n] = "marked"]
    /\ UNCHANGED <<sessionVars, refresh>>

ProbeCloses(n) ==
    /\ probe[n] = "marked"
    /\ LeaseClose(n)
    /\ probe' = [probe EXCEPT ![n] = "none"]
    /\ UNCHANGED <<sessionVars, refresh>>

\* wait.Wait returns.
ProbesDone ==
    /\ refresh = "probing"
    /\ \A n \in Nodes : probe[n] = "none"
    /\ refresh' = "idle"
    /\ UNCHANGED <<registryVars, sessionVars, probe>>

IntervalElapses(n) ==
    ProbeIntervalElapses(n) /\ UNCHANGED <<sessionVars, workVars>>

-----------------------------------------------------------------------------
SessionNext(s) ==
    \/ Accept(s) \/ Connect(s) \/ Forward(s) \/ ForwardDial(s)
    \/ TryCandidate(s) \/ SkipCandidate(s) \/ AllFailed(s)
    \/ DialSucceeds(s) \/ DialFails(s) \/ CloseFailedLease(s)
    \/ PinnedDialSucceeds(s) \/ PinnedDialFails(s)
    \/ Upgrade(s) \/ Disconnect(s) \/ TunnelEnds(s) \/ Release(s)

WorkNext ==
    \/ \E snapshot \in Snapshots : RefreshApply(snapshot)
    \/ \E n \in Nodes : \/ RefreshBuild(n) \/ ProbeMarks(n) \/ ProbeCloses(n)
                        \/ IntervalElapses(n)
    \/ RefreshFails \/ RefreshApplied \/ StartProbes \/ ProbesDone

GatewayNext == (\E s \in Sessions : SessionNext(s)) \/ WorkNext

GatewaySpec == GatewayInit /\ [][GatewayNext]_gatewayVars

\* The goroutines that owe a next step: an attempt's dial, a probe, and the
\* refresh or probe round that holds refreshMu.
AttemptStep(s) == \/ TryCandidate(s) \/ SkipCandidate(s) \/ AllFailed(s)
                  \/ DialSucceeds(s) \/ DialFails(s) \/ CloseFailedLease(s)
ProbeStep(n) == ProbeMarks(n) \/ ProbeCloses(n)
RoundStep == \/ (\E n \in Nodes : RefreshBuild(n)) \/ RefreshFails \/ RefreshApplied
             \/ (refresh = "applied" /\ StartProbes)
             \/ ProbesDone

\* Go's mutexes and scheduler do not starve a goroutine, and probes and the
\* dials of an attempt have timeouts; no Apply can come between the steps of
\* a probe, whose round holds refreshMu.  Clients and upstreams owe nothing:
\* tunnels and idle connections may stay for ever, and so may a dial through
\* the selected lease, which has no timeout.
GatewayFairSpec ==
    /\ GatewaySpec
    /\ \A s \in Sessions : SF_gatewayVars(AttemptStep(s)) /\ SF_gatewayVars(Release(s))
    /\ \A n \in Nodes : WF_gatewayVars(ProbeStep(n))
    /\ WF_gatewayVars(RoundStep)
    /\ SF_gatewayVars(StartProbes)
    /\ \A n \in Nodes : WF_gatewayVars(IntervalElapses(n))

-----------------------------------------------------------------------------
(* Properties *)

\* Every variable of the sessions and of the work has its type, and refreshMu
\* is held for an Apply exactly while registry.mu is.
GatewayTypeOK ==
    /\ conn \in [Sessions -> {"open", "tunnel", "gone", "closed"}]
    /\ dial \in [Sessions -> {"none", "spawned", "choosing", "dialing",
                              "failed", "pinnedDial"}]
    /\ forwarded \subseteq Sessions /\ pinned \subseteq Sessions /\ late \subseteq Sessions
    /\ todo \in [Sessions -> SUBSET Nodes] /\ halfOpen \in [Sessions -> SUBSET Nodes]
    /\ probe \in [Nodes -> {"none", "running", "marked"}]
    /\ refresh \in {"idle", "applying", "applied", "probing"}
    /\ refresh = "applying" <=> ~Unlocked

\* Every open lease is one that somebody will close: a dial that goes on, a
\* connection that is still to be released, or a probe.  No path through dial,
\* release and probeDue loses a lease or closes one that is still used, with
\* one exception: what a dial selects that came after its session's release.
LeasesHaveOwners ==
    LET dials == {s \in Sessions : dial[s] \in {"dialing", "failed"}}
        connections == {s \in pinned : conn[s] # "closed"}
        probes == {n \in Nodes : probe[n] # "none"}
        abandoned == {s \in pinned \cap late : conn[s] = "closed"}
    IN  open = dials \cup connections \cup probes \cup abandoned

\* "Only one half-open attempt per node runs concurrently": the dials and
\* probes of a node through a gated lease, at any time.
OneHalfOpenAttempt ==
    \A n \in Nodes :
        Cardinality({s \in Sessions : /\ dial[s] \in {"dialing", "failed"}
                                      /\ holds[s] = n /\ s \in gated}
                    \cup {m \in {n} : probe[m] # "none"}) <= 1

\* A connection that has its node keeps that node's outbound until it is
\* released, though refreshes remove and re-add nodes meanwhile.
PinnedOutboundStays ==
    \A s \in pinned : /\ s \in open
                      /\ holds[s] \in nodes
                      /\ via[s] = dialer[holds[s]] /\ via[s] \in live

\* No connection and no probe starts on a node that the last refresh dropped,
\* however old the snapshot the dial works from.
NoLeaseOnRemoved ==
    [][\A l \in open' \ open : holds'[l] \in order]_gatewayVars

\* An attempt to find a node ends, whatever nodes, refreshes and probes do.
DialReturns ==
    \A s \in Sessions :
        dial[s] \in {"choosing", "dialing", "failed"} ~> dial[s] = "none"

\* The session of a client that left is released in the end, unless a dial
\* through its selected lease keeps session.mu.
SessionsReleased ==
    \A s \in Sessions :
        conn[s] = "gone" ~> conn[s] = "closed" \/ dial[s] = "pinnedDial"

\* A node that a dial or probe marked unavailable - a dial whose client left
\* included - is tried again, by a probe or a dial, or dropped, unless a
\* connection that got it half-open still has it.  Failing dials through a
\* selected lease count: each MarkFailure postpones the probe, so they can
\* keep it away for ever.
TriedAgain ==
    \A n \in Nodes :
        n \in order \ healthy ~>
            \/ n \in healthy \/ n \notin order
            \/ probe[n] = "running"
            \/ \E s \in Sessions :
                  holds[s] = n /\ ( \/ dial[s] \in {"dialing", "pinnedDial"}
                                   \/ s \in pinned \cap gated )

\* Half-open pass (design, "Shared Node Health"): when all nodes are marked
\* unavailable, and no dial, probe or refresh is under way, a connection
\* attempt finds a node to try.
NoLockout ==
    LET quiet == /\ \A s \in Sessions : dial[s] = "none"
                 /\ refresh = "idle"
    IN  quiet /\ order # {} /\ healthy = {} => HalfOpen # {}

\* "active connections keep their already-built outbound until they close":
\* a connection that is closed and has no dial under way holds no lease.
ClosedHoldsNoLease ==
    \A s \in Sessions : conn[s] = "closed" /\ dial[s] = "none" => s \notin open
=============================================================================
