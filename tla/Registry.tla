------------------------------ MODULE Registry ------------------------------
(***************************************************************************)
(* The shared node registry (internal/pool/registry.go) together with the  *)
(* engine that builds its dialers (internal/proxycore/engine.go).          *)
(*                                                                         *)
(* registry.mu serialises the registry's operations, so each of them is    *)
(* one action.  Apply is the exception: it holds registry.mu while it      *)
(* calls the engine once per missing node, and the engine can be closed    *)
(* between two of those calls, so Apply is a begin step, one step per      *)
(* Build and a finishing or failing step, and `apply' says who holds       *)
(* registry.mu between them.                                               *)
(*                                                                         *)
(* Data abstracted away:                                                   *)
(*  - the fields of a nodeState are sets of node ids (the ids for which    *)
(*    the flag is true) and functions on node ids; an id outside `nodes'   *)
(*    has no nodeState and is in none of the sets;                         *)
(*  - a snapshot maps a node to the sources it came from; a node without a *)
(*    source is not in it.  Dialer options and latency are left out;       *)
(*  - nextProbe is the fact whether it has passed (`due'); lastFailure is  *)
(*    left out, as only log lines and the status break-down read it;       *)
(*  - order is a sorted slice without duplicates, hence a set;             *)
(*  - a *NodeLease is a member of Leases; a closed one is garbage, is      *)
(*    reset, and may stand for a new lease.  A Dialer is a member of       *)
(*    Dialers; one that nothing refers to may stand for a new dialer.      *)
(***************************************************************************)
EXTENDS Naturals, FiniteSets

CONSTANTS
    Nodes,       \* stable node ids
    Sources,     \* subscription source ids
    Dialers,     \* dialer objects, one per sing-box outbound
    Leases,      \* *NodeLease objects: bounds the leases open at a time
    NoDialer,    \* the nil Dialer
    NoNode       \* the id of a lease that is not open

ASSUME RegistryAssumption ==
    /\ IsFiniteSet(Leases)
    /\ NoDialer \notin Dialers
    /\ NoNode \notin Nodes

VARIABLES
    nodes,       \* keys of registry.nodes
    order,       \* registry.order
    healthy, removed, probing,   \* flags of nodeState
    due,         \* nextProbe is not after now
    active,      \* nodeState.active
    dialer,      \* nodeState.dialer
    sourceIDs,   \* nodeState.spec.SourceIDs
    apply,       \* "building" while Apply holds registry.mu
    wanted,      \* Apply's snapshot
    built,       \* Apply's dialers built so far
    builtBy,     \* ids in engine.builtBy
    live,        \* dialers whose outbound exists in the box
    engineClosed,
    open,        \* leases whose once has not fired
    gated,       \* leases with gated = true
    holds,       \* NodeLease.ID
    via          \* NodeLease.Dialer

flagVars   == <<healthy, probing, due>>
poolVars   == <<nodes, order, removed, active, dialer, sourceIDs>>
applyVars  == <<apply, wanted, built>>
engineVars == <<builtBy, live, engineClosed>>
leaseVars  == <<open, gated, holds, via>>
registryVars == <<flagVars, poolVars, applyVars, engineVars, leaseVars>>

Snapshots == [Nodes -> SUBSET Sources]
NoSnapshot == [n \in Nodes |-> {}]
NothingBuilt == [n \in Nodes |-> NoDialer]

\* The keys of Apply's maps `wanted' and `built', and the ids still to build.
Wanted  == {n \in Nodes : wanted[n] # {}}
Built   == {n \in Nodes : built[n] # NoDialer}
Missing == Wanted \ (nodes \cup Built)

\* The open leases on node n.
LeasesOn(n) == {l \in open : holds[l] = n}

\* A Dialer object that nothing refers to.
Fresh == Dialers \ ( live \cup {dialer[n] : n \in nodes}
                          \cup {built[n] : n \in Nodes}
                          \cup {via[l] : l \in open} )

-----------------------------------------------------------------------------
(* Engine *)

\* NewEngine: an empty box.
EngineInit ==
    /\ builtBy = {}
    /\ live = {}
    /\ engineClosed = FALSE

\* Build when it succeeds: the outbound is created and its tag recorded.
EngineBuild(n, d) ==
    /\ ~engineClosed
    /\ n \notin builtBy
    /\ builtBy' = builtBy \cup {n}
    /\ live' = live \cup {d}
    /\ UNCHANGED engineClosed

\* nodeDialer.Close for each of the dialers D of the ids ns: the outbound and
\* the tag go, unless the engine is closed already.
DialersClose(ns, D) ==
    /\ builtBy' = IF engineClosed THEN builtBy ELSE builtBy \ ns
    /\ live' = IF engineClosed THEN live ELSE live \ D
    /\ UNCHANGED engineClosed

\* Engine.Close takes engine.mu only, so it may fall between two Builds.
EngineClose ==
    /\ ~engineClosed
    /\ engineClosed' = TRUE
    /\ builtBy' = {}
    /\ live' = {}
    /\ UNCHANGED <<flagVars, poolVars, applyVars, leaseVars>>

-----------------------------------------------------------------------------
(* Registry *)

NewRegistry ==
    /\ nodes = {} /\ order = {}
    /\ healthy = {} /\ removed = {} /\ probing = {} /\ due = {}
    /\ active = [n \in Nodes |-> 0]
    /\ dialer = NothingBuilt
    /\ sourceIDs = NoSnapshot
    /\ apply = "idle" /\ wanted = NoSnapshot /\ built = NothingBuilt
    /\ open = {} /\ gated = {}
    /\ holds = [l \in Leases |-> NoNode]
    /\ via = [l \in Leases |-> NoDialer]

\* registry.mu is free.
Unlocked == apply = "idle"

ApplyBegin(snapshot) ==
    /\ Unlocked
    /\ apply' = "building"
    /\ wanted' = snapshot
    /\ UNCHANGED <<flagVars, poolVars, built, engineVars, leaseVars>>

\* What Apply accepts from the factory: a new dialer, never nil.
DialersBuiltOrNil == Fresh \cup {NoDialer}
DialersBuilt == Fresh

ApplyBuild(n) ==
    /\ apply = "building"
    /\ n \in Missing
    /\ \E d \in DialersBuilt :
         /\ EngineBuild(n, d)
         /\ built' = [built EXCEPT ![n] = d]
    /\ UNCHANGED <<flagVars, poolVars, apply, wanted, leaseVars>>

ApplyFailsLeakingBuilt ==
    /\ apply = "building"
    /\ Missing # {}
    /\ apply' = "idle" /\ wanted' = NoSnapshot /\ built' = NothingBuilt
    /\ UNCHANGED <<flagVars, poolVars, engineVars, leaseVars>>

\* Build of a missing node fails (engine closed, unusable options, outbound
\* not created, tag in use): the dialers built so far are closed again.
ApplyFails ==
    /\ apply = "building"
    /\ Missing # {}
    /\ DialersClose(Built, {built[n] : n \in Built})
    /\ apply' = "idle" /\ wanted' = NoSnapshot /\ built' = NothingBuilt
    /\ UNCHANGED <<flagVars, poolVars, leaseVars>>

\* Nodes Apply removes for good: unwanted, not draining yet, no lease open.
DroppedIgnoringLeases == nodes \ (Wanted \cup removed)
Dropped == {n \in nodes \ (Wanted \cup removed) : active[n] = 0}

\* Nodes that drain once Apply is done: a wanted one is revived.
DrainingForgettingRevival == (removed \cup (nodes \ Wanted)) \ Dropped
Draining == ((removed \ Wanted) \cup (nodes \ Wanted)) \ Dropped

\* Every missing node is built.  Wanted nodes are kept, a draining one among
\* them is revived; an unwanted one is dropped or starts draining; the new
\* ones join unhealthy and due.
ApplyFinish ==
    /\ apply = "building"
    /\ Missing = {}
    /\ nodes' = (nodes \ Dropped) \cup Built
    /\ removed' = Draining
    /\ healthy' = healthy \ Dropped
    /\ probing' = probing \ Dropped
    /\ due' = (due \ Dropped) \cup Built
    /\ dialer' = [n \in Nodes |-> IF n \in Built THEN built[n]
                                  ELSE IF n \in Dropped THEN NoDialer
                                  ELSE dialer[n]]
    /\ sourceIDs' = [n \in Nodes |-> IF n \in Wanted THEN wanted[n]
                                     ELSE IF n \in Dropped THEN {}
                                     ELSE sourceIDs[n]]
    /\ order' = Wanted
    /\ DialersClose(Dropped, {dialer[n] : n \in Dropped})
    /\ apply' = "idle" /\ wanted' = NoSnapshot /\ built' = NothingBuilt
    /\ UNCHANGED <<active, leaseVars>>

MarkFailure(n) ==
    /\ Unlocked
    /\ healthy' = healthy \ {n}
    /\ due' = due \ {n}
    /\ UNCHANGED <<probing, poolVars, applyVars, engineVars, leaseVars>>

\* Ignored for a node that is gone or draining.
MarkSuccess(n) ==
    /\ Unlocked
    /\ IF n \in nodes \ removed
         THEN /\ healthy' = healthy \cup {n}
              /\ due' = due \ {n}
         ELSE UNCHANGED <<healthy, due>>
    /\ UNCHANGED <<probing, poolVars, applyVars, engineVars, leaseVars>>

\* RoutingSnapshot: the candidates, and which of them are eligible and which
\* half-open.
Pool == {n \in order : n \in nodes \ removed}
HalfOpen == IF Pool \cap healthy = {} THEN Pool \ probing ELSE {}
Eligible == (Pool \cap healthy) \cup HalfOpen

CanAcquireDraining(n, allowUnhealthy) ==
    /\ n \in nodes
    /\ n \notin healthy => allowUnhealthy /\ n \notin probing
CanAcquireProbed(n, allowUnhealthy) ==
    /\ n \in nodes \ removed
    /\ n \notin healthy => allowUnhealthy
CanAcquire(n, allowUnhealthy) ==
    /\ n \in nodes \ removed
    /\ n \notin healthy => allowUnhealthy /\ n \notin probing

\* A lease on an unhealthy node is gated: it holds the node's probing flag.
Acquire(l, n, allowUnhealthy) ==
    /\ Unlocked
    /\ l \notin open
    /\ CanAcquire(n, allowUnhealthy)
    /\ active' = [active EXCEPT ![n] = @ + 1]
    /\ probing' = IF n \in healthy THEN probing ELSE probing \cup {n}
    /\ gated' = IF n \in healthy THEN gated \ {l} ELSE gated \cup {l}
    /\ open' = open \cup {l}
    /\ holds' = [holds EXCEPT ![l] = n]
    /\ via' = [via EXCEPT ![l] = dialer[n]]
    /\ UNCHANGED <<healthy, due, nodes, order, removed, dialer,
                   sourceIDs, applyVars, engineVars>>

\* The nodes ProbeDue leases, one gated lease each; leaseOf names the lease
\* objects it creates.
DueNodes == {n \in order : n \in nodes \ removed /\ n \notin probing /\ n \in due}

ProbeDue(leaseOf) ==
    LET new == {leaseOf[n] : n \in DueNodes}
        nodeOf(l) == CHOOSE n \in DueNodes : leaseOf[n] = l
    IN  /\ Unlocked
        /\ new \cap open = {}
        /\ probing' = probing \cup DueNodes
        /\ active' = [n \in Nodes |-> IF n \in DueNodes THEN active[n] + 1
                                                        ELSE active[n]]
        /\ open' = open \cup new
        /\ gated' = gated \cup new
        /\ holds' = [l \in Leases |-> IF l \in new THEN nodeOf(l) ELSE holds[l]]
        /\ via' = [l \in Leases |-> IF l \in new THEN dialer[nodeOf(l)] ELSE via[l]]
        /\ UNCHANGED <<healthy, due, nodes, order, removed, dialer,
                       sourceIDs, applyVars, engineVars>>

\* release leaves the registry without the node when its last lease closes
\* while it is draining.
CountedBeforeDecrement(n) == n \in removed /\ active[n] = 0
AnyLeaseOfDraining(n) == n \in removed
LastLeaseOfDraining(n) == n \in removed /\ active[n] <= 1

\* release decrements active.
ReleaseLeaves(n) == active[n]
ReleaseCount(n) == IF active[n] > 0 THEN active[n] - 1 ELSE active[n]

\* The probing flag that the release of lease l clears.
ClearsAnyGate(l) == {holds[l]}
ClearsNoGate(l) == {}
ClearsGate(l) == IF l \in gated THEN {holds[l]} ELSE {}

\* NodeLease.Close and release.  The first Close of a lease releases it
\* (sync.Once); another one does nothing, so it is no step.
LeaseClose(l) ==
    LET n == holds[l]
        gone == IF LastLeaseOfDraining(n) THEN {n} ELSE {}
    IN  /\ Unlocked
        /\ l \in open
        /\ open' = open \ {l}
        /\ gated' = gated \ {l}
        /\ holds' = [holds EXCEPT ![l] = NoNode]
        /\ via' = [via EXCEPT ![l] = NoDialer]
        /\ active' = [active EXCEPT ![n] = ReleaseCount(n)]
        /\ probing' = probing \ (ClearsGate(l) \cup gone)
        /\ nodes' = nodes \ gone
        /\ removed' = removed \ gone
        /\ healthy' = healthy \ gone
        /\ due' = due \ gone
        /\ dialer' = [m \in Nodes |-> IF m \in gone THEN NoDialer ELSE dialer[m]]
        /\ sourceIDs' = [m \in Nodes |-> IF m \in gone THEN {} ELSE sourceIDs[m]]
        /\ DialersClose(gone, {dialer[m] : m \in gone})
        /\ UNCHANGED <<order, applyVars>>

\* Time passes nextProbe of node n.
ProbeIntervalElapses(n) ==
    /\ n \in nodes
    /\ due' = due \cup {n}
    /\ UNCHANGED <<healthy, probing, poolVars, applyVars, engineVars,
                   leaseVars>>

-----------------------------------------------------------------------------
RegistryInit == NewRegistry /\ EngineInit

\* Distinct lease objects for the nodes ProbeDue leases.
LeaseChoices ==
    {f \in [Nodes -> Leases] :
        \A m, n \in DueNodes : m # n => f[m] # f[n]}

RegistryNext ==
    \/ \E snapshot \in Snapshots : ApplyBegin(snapshot)
    \/ \E n \in Nodes : ApplyBuild(n)
    \/ ApplyFails
    \/ ApplyFinish
    \/ \E n \in Nodes : MarkFailure(n)
    \/ \E n \in Nodes : MarkSuccess(n)
    \/ \E l \in Leases, n \in Nodes, allow \in BOOLEAN : Acquire(l, n, allow)
    \/ \E leaseOf \in LeaseChoices : ProbeDue(leaseOf)
    \/ \E l \in Leases : LeaseClose(l)
    \/ \E n \in Nodes : ProbeIntervalElapses(n)
    \/ EngineClose

RegistrySpec == RegistryInit /\ [][RegistryNext]_registryVars

\* Holders of leases close them in the end, and an Apply returns.  Closing
\* waits for registry.mu, which is handed out without starvation: strong
\* fairness.
RegistryFairness ==
    /\ \A l \in Leases : SF_registryVars(LeaseClose(l))
    /\ WF_registryVars((\E n \in Nodes : ApplyBuild(n)) \/ ApplyFails \/ ApplyFinish)

RegistryFairSpec == RegistrySpec /\ RegistryFairness

-----------------------------------------------------------------------------
(* Properties *)

\* Every variable has its type.
TypeOK ==
    /\ nodes \in SUBSET Nodes /\ order \in SUBSET Nodes
    /\ healthy \in SUBSET Nodes /\ removed \in SUBSET Nodes
    /\ probing \in SUBSET Nodes /\ due \in SUBSET Nodes
    /\ active \in [Nodes -> Nat]
    /\ dialer \in [Nodes -> Dialers \cup {NoDialer}]
    /\ sourceIDs \in Snapshots
    /\ apply \in {"idle", "building"}
    /\ wanted \in Snapshots
    /\ built \in [Nodes -> Dialers \cup {NoDialer}]
    /\ builtBy \in SUBSET Nodes /\ live \in SUBSET Dialers
    /\ engineClosed \in BOOLEAN
    /\ open \in SUBSET Leases /\ gated \in SUBSET Leases
    /\ holds \in [Leases -> Nodes \cup {NoNode}]
    /\ via \in [Leases -> Dialers \cup {NoDialer}]

\* nodeState.active is exactly the number of leases open on the node, so a
\* draining node is deleted by its last Close and by no earlier one, whatever
\* refreshes, probes and half-open dials came in between.
LeaseAccounting == \A n \in Nodes : active[n] = Cardinality(LeasesOn(n))

\* The dialer of an open lease is the dialer the registry still has for that
\* node, and its outbound still exists while the engine runs: removing,
\* reviving or re-adding a node never closes or replaces an outbound that a
\* connection uses, and release and the Mark calls of a lease, which go by id,
\* never reach another incarnation of the node.
LeasedDialerIsLive ==
    \A l \in open : /\ holds[l] \in nodes
                    /\ via[l] = dialer[holds[l]]
                    /\ ~engineClosed => via[l] \in live

\* A node's probing flag is set exactly while one gated lease on it is open,
\* and there is never a second one: the flag is neither lost early (two
\* half-open dials or probes at once) nor left behind (never probed again).
ProbingIsOneGatedLease ==
    \A n \in Nodes :
        /\ n \in probing <=> LeasesOn(n) \cap gated # {}
        /\ \A l1, l2 \in LeasesOn(n) \cap gated : l1 = l2

\* registry.order lists exactly the nodes that are not draining, and every
\* draining node has a lease open whose Close will delete it.
OrderAndDraining ==
    /\ order = nodes \ removed
    /\ \A n \in removed : n \in nodes /\ active[n] > 0

\* While the engine runs its outbounds are those of the registry's nodes and
\* of the Apply in progress, one each, and its tags are their ids: a failed
\* Apply, a removal and a drain leak no outbound, and Build is never asked
\* for a tag in use ("outbound already exists").
NoOutboundLeaked ==
    ~engineClosed =>
        /\ builtBy = nodes \cup Built
        /\ live = {dialer[n] : n \in nodes} \cup {built[n] : n \in Built}
        /\ Missing \cap builtBy = {}

\* A node that a refresh removed does not drain forever: once its leases are
\* closed it is deleted, or a later refresh revived it.
DrainingEnds == \A n \in Nodes : n \in removed ~> n \notin removed

\* The promise, in terms of this module's state.
Abstract == INSTANCE LeasePool WITH
    routable <- order, outbound <- dialer, lent <- holds, through <- via, gate <- gated

\* Counts, flags and draining implement LeasePool: an outbound lasts exactly
\* as long as its node is in the last snapshot or leased, a lease keeps the
\* outbound it was granted, and one lease at a time holds a node's gate.
ImplementsLeasePool == Abstract!PoolSpec
=============================================================================
