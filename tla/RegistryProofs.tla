--------------------------- MODULE RegistryProofs ---------------------------
(***************************************************************************)
(* Proofs that the registry's safety properties hold for any number of     *)
(* nodes, dialers and leases.                                              *)
(*                                                                         *)
(* None of the properties is inductive alone: that a draining node has a   *)
(* lease needs the accounting, the accounting needs that a lease's node is *)
(* still in the map, and that in turn needs that only nodes without leases *)
(* are dropped.  RegistryInv conjoins them with three facts about the      *)
(* representation: flags belong to nodes of the map, dialers built by an   *)
(* Apply belong to nodes it is adding, and no two of them are the same.    *)
(***************************************************************************)
EXTENDS Registry, FiniteSetTheorems, TLAPS

FlagsInNodes ==
    /\ healthy \subseteq nodes /\ removed \subseteq nodes
    /\ probing \subseteq nodes /\ due \subseteq nodes

BuiltInv ==
    /\ Built \subseteq Wanted \ nodes
    /\ apply = "idle" => Built = {}

LeaseNodes ==
    \A l \in open : holds[l] \in nodes /\ via[l] = dialer[holds[l]]

DialersDistinct ==
    /\ \A n \in nodes : dialer[n] \in Dialers
    /\ \A m, n \in nodes : m # n => dialer[m] # dialer[n]
    /\ \A m, n \in Built : m # n => built[m] # built[n]
    /\ \A m \in nodes, n \in Built : dialer[m] # built[n]

PoolInv   == FlagsInNodes /\ OrderAndDraining /\ BuiltInv
LeaseInv  == LeaseAccounting /\ LeaseNodes /\ ProbingIsOneGatedLease
EngineInv == DialersDistinct /\ NoOutboundLeaked

RegistryInv == TypeOK /\ PoolInv /\ LeaseInv /\ EngineInv

-----------------------------------------------------------------------------
(* Facts about counting leases *)

\* The leases open on a node form a finite set.
LEMMA LeasesOnFinite ==
  ASSUME TypeOK, NEW n
  PROVE  IsFiniteSet(LeasesOn(n)) /\ Cardinality(LeasesOn(n)) \in Nat
<1>1. LeasesOn(n) \subseteq Leases
  BY DEF TypeOK, LeasesOn
<1>2. IsFiniteSet(LeasesOn(n))
  BY <1>1, FS_Subset, RegistryAssumption
<1> QED BY <1>2, FS_CardinalityType

\* A node whose active count is zero has no lease open.
LEMMA NoActiveNoLease ==
  ASSUME TypeOK, LeaseAccounting, NEW n \in Nodes, active[n] = 0
  PROVE  LeasesOn(n) = {}
<1>1. Cardinality(LeasesOn(n)) = 0
  BY DEF LeaseAccounting
<1> QED BY <1>1, LeasesOnFinite, FS_EmptySet

\* A node with a lease open has a positive active count.
LEMMA LeaseMeansActive ==
  ASSUME TypeOK, LeaseAccounting, NEW n \in Nodes, LeasesOn(n) # {}
  PROVE  active[n] > 0
<1>1. Cardinality(LeasesOn(n)) # 0
  BY LeasesOnFinite, FS_EmptySet
<1>2. active[n] = Cardinality(LeasesOn(n))
  BY DEF LeaseAccounting
<1> QED BY <1>1, <1>2, LeasesOnFinite

\* Adding an open lease raises the node's count by one.
LEMMA CountOneMore ==
  ASSUME NEW S, IsFiniteSet(S), NEW l, l \notin S
  PROVE  Cardinality(S \cup {l}) = Cardinality(S) + 1
BY FS_AddElement

\* Closing an open lease lowers the node's count by one.
LEMMA CountOneLess ==
  ASSUME NEW S, IsFiniteSet(S), NEW l \in S
  PROVE  Cardinality(S \ {l}) = Cardinality(S) - 1
BY FS_RemoveElement

-----------------------------------------------------------------------------
(* The initial state *)

\* The invariant holds of a new registry and engine.
LEMMA InitInv == RegistryInit => RegistryInv
<1> SUFFICES ASSUME RegistryInit PROVE RegistryInv
  OBVIOUS
<1> USE DEF RegistryInit, NewRegistry, EngineInit, NothingBuilt, NoSnapshot
<1>1. TypeOK
  BY DEF TypeOK, Snapshots
<1>2. Built = {} /\ Wanted = {}
  BY DEF Built, Wanted
<1>3. PoolInv
  BY <1>2 DEF PoolInv, FlagsInNodes, OrderAndDraining, BuiltInv
<1>4. \A n \in Nodes : LeasesOn(n) = {}
  BY DEF LeasesOn
<1>5. LeaseAccounting
  BY <1>4, FS_EmptySet DEF LeaseAccounting
<1>6. LeaseNodes /\ ProbingIsOneGatedLease
  BY <1>4 DEF LeaseNodes, ProbingIsOneGatedLease
<1>7. EngineInv
  BY <1>2 DEF EngineInv, DialersDistinct, NoOutboundLeaked, Missing
<1> QED BY <1>1, <1>3, <1>5, <1>6, <1>7 DEF RegistryInv, LeaseInv

-----------------------------------------------------------------------------
(* Steps that leave nodes, leases and dialers alone *)

\* The health flags of a node of the map can change freely.
LEMMA FlagStep ==
  ASSUME RegistryInv,
         healthy' \subseteq nodes, due' \subseteq nodes,
         UNCHANGED <<probing, poolVars, applyVars, engineVars, leaseVars>>
  PROVE  RegistryInv'
<1> USE DEF poolVars, applyVars, engineVars, leaseVars
<1>1. TypeOK'
  BY DEF RegistryInv, TypeOK
<1>2. UNCHANGED <<Built, Wanted, Missing>>
  BY DEF Built, Wanted, Missing
<1>3. PoolInv'
  BY <1>2 DEF RegistryInv, PoolInv, FlagsInNodes, OrderAndDraining, BuiltInv
<1>4. \A n \in Nodes : LeasesOn(n)' = LeasesOn(n)
  BY DEF LeasesOn
<1>5. LeaseInv'
  BY <1>4 DEF RegistryInv, LeaseInv, LeaseAccounting, LeaseNodes,
              ProbingIsOneGatedLease
<1>6. EngineInv'
  BY <1>2 DEF RegistryInv, EngineInv, DialersDistinct, NoOutboundLeaked
<1> QED BY <1>1, <1>3, <1>5, <1>6 DEF RegistryInv

\* MarkFailure preserves the invariant.
LEMMA MarkFailureStep ==
  ASSUME RegistryInv, NEW n \in Nodes, MarkFailure(n)
  PROVE  RegistryInv'
<1>1. healthy' \subseteq nodes /\ due' \subseteq nodes
  BY DEF RegistryInv, PoolInv, FlagsInNodes, MarkFailure
<1> QED BY <1>1, FlagStep DEF MarkFailure

\* MarkSuccess preserves the invariant.
LEMMA MarkSuccessStep ==
  ASSUME RegistryInv, NEW n \in Nodes, MarkSuccess(n)
  PROVE  RegistryInv'
<1>1. healthy' \subseteq nodes /\ due' \subseteq nodes
  BY DEF RegistryInv, PoolInv, FlagsInNodes, MarkSuccess
<1> QED BY <1>1, FlagStep DEF MarkSuccess

\* The passing of nextProbe preserves the invariant.
LEMMA ProbeIntervalElapsesStep ==
  ASSUME RegistryInv, NEW n \in Nodes, ProbeIntervalElapses(n)
  PROVE  RegistryInv'
<1>1. healthy' \subseteq nodes /\ due' \subseteq nodes
  BY DEF RegistryInv, PoolInv, FlagsInNodes, ProbeIntervalElapses
<1> QED BY <1>1, FlagStep DEF ProbeIntervalElapses

\* Engine.Close empties the box; the registry is untouched.
LEMMA EngineCloseStep ==
  ASSUME RegistryInv, EngineClose
  PROVE  RegistryInv'
<1> USE DEF EngineClose, flagVars, poolVars, applyVars, leaseVars
<1>1. TypeOK'
  BY DEF RegistryInv, TypeOK
<1>2. UNCHANGED <<Built, Wanted, Missing>>
  BY DEF Built, Wanted, Missing
<1>3. PoolInv'
  BY <1>2 DEF RegistryInv, PoolInv, FlagsInNodes, OrderAndDraining, BuiltInv
<1>4. \A n \in Nodes : LeasesOn(n)' = LeasesOn(n)
  BY DEF LeasesOn
<1>5. LeaseInv'
  BY <1>4 DEF RegistryInv, LeaseInv, LeaseAccounting, LeaseNodes,
              ProbingIsOneGatedLease
<1>6. EngineInv'
  BY <1>2 DEF RegistryInv, EngineInv, DialersDistinct, NoOutboundLeaked
<1> QED BY <1>1, <1>3, <1>5, <1>6 DEF RegistryInv

-----------------------------------------------------------------------------
(* Apply *)

\* The start of an Apply preserves the invariant.
LEMMA ApplyBeginStep ==
  ASSUME RegistryInv, NEW snapshot \in Snapshots, ApplyBegin(snapshot)
  PROVE  RegistryInv'
<1> USE DEF ApplyBegin, flagVars, poolVars, engineVars, leaseVars
<1>1. TypeOK'
  BY DEF RegistryInv, TypeOK
<1>2. Built = {} /\ Built' = {}
  BY DEF RegistryInv, PoolInv, BuiltInv, Unlocked, Built
<1>3. PoolInv'
  BY <1>2 DEF RegistryInv, PoolInv, FlagsInNodes, OrderAndDraining, BuiltInv
<1>4. \A n \in Nodes : LeasesOn(n)' = LeasesOn(n)
  BY DEF LeasesOn
<1>5. LeaseInv'
  BY <1>4 DEF RegistryInv, LeaseInv, LeaseAccounting, LeaseNodes,
              ProbingIsOneGatedLease
<1>6. EngineInv'
  BY <1>2 DEF RegistryInv, EngineInv, DialersDistinct, NoOutboundLeaked, Missing
<1> QED BY <1>1, <1>3, <1>5, <1>6 DEF RegistryInv

\* A dialer that is built is distinct from those of all nodes, of the other
\* nodes being added, and of the open leases.
LEMMA ApplyBuildStep ==
  ASSUME RegistryInv, NEW n \in Nodes, ApplyBuild(n)
  PROVE  RegistryInv'
<1> USE DEF ApplyBuild, flagVars, poolVars, leaseVars
<1>1. PICK d \in Fresh : EngineBuild(n, d) /\ built' = [built EXCEPT ![n] = d]
  BY DEF DialersBuilt
<1>2. d \in Dialers /\ d # NoDialer
  BY <1>1, RegistryAssumption DEF Fresh
<1>3. TypeOK'
  BY <1>1, <1>2 DEF RegistryInv, TypeOK, EngineBuild
<1>4. n \notin Built /\ Built' = Built \cup {n} /\ Wanted' = Wanted
  BY <1>1, <1>2 DEF RegistryInv, TypeOK, Built, Wanted, Missing
<1>5. PoolInv'
  BY <1>4 DEF RegistryInv, PoolInv, FlagsInNodes, OrderAndDraining, BuiltInv, Missing
<1>6. \A m \in Nodes : LeasesOn(m)' = LeasesOn(m)
  BY DEF LeasesOn
<1>7. LeaseInv'
  BY <1>6 DEF RegistryInv, LeaseInv, LeaseAccounting, LeaseNodes,
              ProbingIsOneGatedLease
<1>8. /\ \A m \in nodes : dialer[m] # d
      /\ \A m \in Built : built[m] # d
      /\ built'[n] = d
      /\ \A m \in Built : built'[m] = built[m]
  BY <1>1, <1>4 DEF Fresh, Built, RegistryInv, TypeOK
<1>9. DialersDistinct'
  BY <1>4, <1>8 DEF RegistryInv, EngineInv, DialersDistinct
<1>10. NoOutboundLeaked'
  <2> SUFFICES ASSUME ~engineClosed'
               PROVE  /\ builtBy' = nodes' \cup Built'
                      /\ live' = {dialer'[m] : m \in nodes'} \cup {built'[m] : m \in Built'}
                      /\ Missing' \cap builtBy' = {}
    BY DEF NoOutboundLeaked
  <2>1. builtBy' = nodes' \cup Built'
    BY <1>1, <1>4 DEF RegistryInv, EngineInv, NoOutboundLeaked, EngineBuild
  <2>2. {built'[m] : m \in Built'} = {built[m] : m \in Built} \cup {d}
    BY <1>4, <1>8
  <2>3. live = {dialer[m] : m \in nodes} \cup {built[m] : m \in Built}
    BY <1>1 DEF RegistryInv, EngineInv, NoOutboundLeaked, EngineBuild
  <2>4. live' = {dialer'[m] : m \in nodes'} \cup {built'[m] : m \in Built'}
    BY <1>1, <2>2, <2>3 DEF EngineBuild
  <2> QED BY <2>1, <2>4 DEF Missing
<1> QED BY <1>3, <1>5, <1>7, <1>9, <1>10 DEF RegistryInv, EngineInv

\* A failed Apply gives back exactly the dialers it built.
LEMMA ApplyFailsStep ==
  ASSUME RegistryInv, ApplyFails
  PROVE  RegistryInv'
<1> USE DEF ApplyFails, flagVars, poolVars, leaseVars
<1>1. TypeOK'
  BY DEF RegistryInv, TypeOK, DialersClose, NoSnapshot, NothingBuilt, Snapshots
<1>2. Built' = {}
  BY DEF Built, NothingBuilt
<1>3. PoolInv'
  BY <1>2 DEF RegistryInv, PoolInv, FlagsInNodes, OrderAndDraining, BuiltInv
<1>4. \A m \in Nodes : LeasesOn(m)' = LeasesOn(m)
  BY DEF LeasesOn
<1>5. LeaseInv'
  BY <1>4 DEF RegistryInv, LeaseInv, LeaseAccounting, LeaseNodes,
              ProbingIsOneGatedLease
<1>6. DialersDistinct'
  BY <1>2 DEF RegistryInv, EngineInv, DialersDistinct
<1>7. NoOutboundLeaked'
  <2> SUFFICES ASSUME ~engineClosed
               PROVE  /\ builtBy' = nodes
                      /\ live' = {dialer[m] : m \in nodes}
    BY <1>2 DEF NoOutboundLeaked, DialersClose, Missing
  <2>1. /\ builtBy = nodes \cup Built
        /\ live = {dialer[m] : m \in nodes} \cup {built[m] : m \in Built}
        /\ Built \cap nodes = {}
        /\ \A m \in nodes, k \in Built : dialer[m] # built[k]
    BY DEF RegistryInv, EngineInv, NoOutboundLeaked, PoolInv, BuiltInv, DialersDistinct
  <2>2. builtBy' = builtBy \ Built /\ live' = live \ {built[m] : m \in Built}
    BY DEF DialersClose
  <2> QED BY <2>1, <2>2
<1> QED BY <1>1, <1>3, <1>5, <1>6, <1>7 DEF RegistryInv, EngineInv

\* Apply drops only nodes without leases, so every lease keeps its node and
\* its dialer; the new nodes are exactly the ids of the dialers built.
LEMMA ApplyFinishStep ==
  ASSUME RegistryInv, ApplyFinish
  PROVE  RegistryInv'
<1> USE DEF ApplyFinish, leaseVars
<1>1. /\ Wanted \subseteq Nodes /\ Built \subseteq Nodes /\ Dropped \subseteq nodes
      /\ nodes \subseteq Nodes /\ Dropped \cap Wanted = {}
      /\ Built \subseteq Wanted \ nodes /\ Wanted \subseteq nodes \cup Built
      /\ Draining = (nodes \ Wanted) \ Dropped
  BY DEF RegistryInv, TypeOK, PoolInv, BuiltInv, FlagsInNodes, Wanted, Built,
         Dropped, Draining, Missing
<1>2. Built' = {} /\ Missing' = {}
  BY DEF Built, Missing, Wanted, NothingBuilt, NoSnapshot
<1>3. TypeOK'
  <2>1. dialer' \in [Nodes -> Dialers \cup {NoDialer}]
    BY DEF RegistryInv, TypeOK
  <2>2. sourceIDs' \in Snapshots
    BY DEF RegistryInv, TypeOK, Snapshots
  <2>3. builtBy' \in SUBSET Nodes /\ live' \in SUBSET Dialers /\ engineClosed' \in BOOLEAN
    BY DEF RegistryInv, TypeOK, DialersClose
  <2>4. wanted' \in Snapshots /\ built' \in [Nodes -> Dialers \cup {NoDialer}]
    BY DEF NoSnapshot, NothingBuilt, Snapshots
  <2> QED BY <1>1, <2>1, <2>2, <2>3, <2>4 DEF RegistryInv, TypeOK
<1>4. \A n \in Dropped : LeasesOn(n) = {}
  BY <1>1, NoActiveNoLease DEF RegistryInv, LeaseInv, Dropped
<1>5. \A n \in Nodes : LeasesOn(n)' = LeasesOn(n)
  BY DEF LeasesOn
<1>6. \A n \in (nodes \ Wanted) \ Dropped : active[n] > 0
  BY <1>1 DEF RegistryInv, TypeOK, PoolInv, OrderAndDraining, Dropped
<1>7. PoolInv'
  BY <1>1, <1>2, <1>6 DEF RegistryInv, PoolInv, FlagsInNodes, OrderAndDraining, BuiltInv
<1>8. LeaseAccounting'
  BY <1>5 DEF RegistryInv, LeaseInv, LeaseAccounting
<1>9. LeaseNodes'
  BY <1>1, <1>4 DEF RegistryInv, LeaseInv, LeaseNodes, LeasesOn
<1>10. ProbingIsOneGatedLease'
  BY <1>1, <1>4, <1>5 DEF RegistryInv, LeaseInv, ProbingIsOneGatedLease
<1>11. /\ \A n \in Built : dialer'[n] = built[n] /\ built[n] \in Dialers
       /\ \A n \in nodes \ Dropped : dialer'[n] = dialer[n]
  BY <1>1 DEF RegistryInv, TypeOK, Built
<1>12. DialersDistinct'
  BY <1>1, <1>2, <1>11 DEF RegistryInv, EngineInv, DialersDistinct
<1>13. NoOutboundLeaked'
  <2> SUFFICES ASSUME ~engineClosed
               PROVE  /\ builtBy' = nodes'
                      /\ live' = {dialer'[n] : n \in nodes'}
    BY <1>2 DEF NoOutboundLeaked, DialersClose
  <2>1. /\ builtBy' = builtBy \ Dropped
        /\ live' = live \ {dialer[n] : n \in Dropped}
        /\ builtBy = nodes \cup Built
        /\ live = {dialer[n] : n \in nodes} \cup {built[n] : n \in Built}
    BY DEF RegistryInv, EngineInv, NoOutboundLeaked, DialersClose
  <2>2. builtBy' = nodes'
    BY <1>1, <2>1
  <2>3. live' = {dialer[n] : n \in nodes \ Dropped} \cup {built[n] : n \in Built}
    BY <1>1, <2>1 DEF RegistryInv, EngineInv, DialersDistinct
  <2>4. {dialer'[n] : n \in nodes'} =
          {dialer[n] : n \in nodes \ Dropped} \cup {built[n] : n \in Built}
    BY <1>11
  <2> QED BY <2>2, <2>3, <2>4
<1> QED BY <1>3, <1>7, <1>8, <1>9, <1>10, <1>12, <1>13
        DEF RegistryInv, LeaseInv, EngineInv

-----------------------------------------------------------------------------
(* Leases *)

\* A new lease is on a node of the map, with that node's dialer; on an
\* unhealthy node it is the only gated one, since probing was clear.
LEMMA AcquireStep ==
  ASSUME RegistryInv, NEW l \in Leases, NEW n \in Nodes, NEW allow \in BOOLEAN,
         Acquire(l, n, allow)
  PROVE  RegistryInv'
<1> USE DEF Acquire, CanAcquire, applyVars, engineVars
<1>1. TypeOK'
  BY DEF RegistryInv, TypeOK
<1>2. UNCHANGED <<Built, Wanted, Missing>>
  BY DEF Built, Wanted, Missing
<1>3. active'[n] = active[n] + 1 /\ \A m \in Nodes \ {n} : active'[m] = active[m]
  BY DEF RegistryInv, TypeOK
<1>4. PoolInv'
  BY <1>2, <1>3 DEF RegistryInv, TypeOK, PoolInv, FlagsInNodes, OrderAndDraining, BuiltInv
<1>5. /\ LeasesOn(n)' = LeasesOn(n) \cup {l}
      /\ l \notin LeasesOn(n)
      /\ \A m \in Nodes \ {n} : LeasesOn(m)' = LeasesOn(m)
  BY DEF RegistryInv, TypeOK, LeasesOn
<1>6. LeaseAccounting'
  <2>1. Cardinality(LeasesOn(n)') = Cardinality(LeasesOn(n)) + 1
    BY <1>5, LeasesOnFinite, CountOneMore DEF RegistryInv
  <2> QED BY <1>3, <1>5, <2>1 DEF RegistryInv, LeaseInv, LeaseAccounting
<1>7. LeaseNodes'
  BY DEF RegistryInv, TypeOK, LeaseInv, LeaseNodes
<1>8. ProbingIsOneGatedLease'
  <2>1. CASE n \in healthy
    BY <1>5, <2>1 DEF RegistryInv, LeaseInv, ProbingIsOneGatedLease, LeasesOn
  <2>2. CASE n \notin healthy
    BY <1>5, <2>2 DEF RegistryInv, LeaseInv, ProbingIsOneGatedLease, LeasesOn
  <2> QED BY <2>1, <2>2
<1>9. EngineInv'
  BY <1>2 DEF RegistryInv, EngineInv, DialersDistinct, NoOutboundLeaked
<1> QED BY <1>1, <1>4, <1>6, <1>7, <1>8, <1>9 DEF RegistryInv, LeaseInv

\* ProbeDue gives each due node one lease, the only gated one on it.
LEMMA ProbeDueStep ==
  ASSUME RegistryInv, NEW leaseOf \in LeaseChoices, ProbeDue(leaseOf)
  PROVE  RegistryInv'
<1> DEFINE new == {leaseOf[n] : n \in DueNodes}
           nodeOf(l) == CHOOSE n \in DueNodes : leaseOf[n] = l
<1> USE DEF applyVars, engineVars
<1>1. DueNodes \subseteq nodes \ (removed \cup probing) /\ nodes \subseteq Nodes
      /\ new \subseteq Leases /\ new \cap open = {}
  BY DEF RegistryInv, TypeOK, DueNodes, LeaseChoices, ProbeDue
<1>2. \A n \in DueNodes : nodeOf(leaseOf[n]) = n /\ leaseOf[n] \in new
  BY <1>1 DEF LeaseChoices
<1>3. \A l \in new : nodeOf(l) \in DueNodes /\ leaseOf[nodeOf(l)] = l
  BY <1>2
<1>4. /\ open' = open \cup new /\ gated' = gated \cup new
      /\ \A l \in Leases : /\ holds'[l] = IF l \in new THEN nodeOf(l) ELSE holds[l]
                           /\ via'[l] = IF l \in new THEN dialer[nodeOf(l)] ELSE via[l]
      /\ \A n \in Nodes : active'[n] = IF n \in DueNodes THEN active[n] + 1 ELSE active[n]
      /\ probing' = probing \cup DueNodes
      /\ UNCHANGED <<nodes, removed, order, healthy, due, dialer, built,
                     wanted, apply, builtBy, live, engineClosed>>
  BY DEF ProbeDue
<1>5. TypeOK'
  <2>1. holds' \in [Leases -> Nodes \cup {NoNode}] /\ via' \in [Leases -> Dialers \cup {NoDialer}]
    <3>1. /\ holds' = [l \in Leases |-> IF l \in new THEN nodeOf(l) ELSE holds[l]]
          /\ via' = [l \in Leases |-> IF l \in new THEN dialer[nodeOf(l)] ELSE via[l]]
      BY DEF ProbeDue
    <3> HIDE DEF new, nodeOf
    <3> QED BY <1>1, <1>3, <3>1 DEF RegistryInv, TypeOK
  <2>2. active' \in [Nodes -> Nat]
    BY DEF ProbeDue, RegistryInv, TypeOK
  <2> QED BY <1>1, <1>4, <2>1, <2>2 DEF RegistryInv, TypeOK, ProbeDue
<1> HIDE DEF new, nodeOf
<1>6. UNCHANGED <<Built, Wanted, Missing>>
  BY <1>4 DEF Built, Wanted, Missing
<1>7. PoolInv'
  BY <1>1, <1>4, <1>6 DEF RegistryInv, PoolInv, FlagsInNodes, OrderAndDraining, BuiltInv
<1>8. \A n \in DueNodes : LeasesOn(n)' = LeasesOn(n) \cup {leaseOf[n]}
                          /\ leaseOf[n] \notin LeasesOn(n)
  BY <1>1, <1>2, <1>3, <1>4 DEF LeasesOn, RegistryInv, TypeOK
<1>9. \A n \in Nodes \ DueNodes : LeasesOn(n)' = LeasesOn(n)
  BY <1>1, <1>3, <1>4 DEF LeasesOn, RegistryInv, TypeOK
<1>10. LeaseAccounting'
  <2>1. \A n \in DueNodes : Cardinality(LeasesOn(n)') = Cardinality(LeasesOn(n)) + 1
    BY <1>8, LeasesOnFinite, CountOneMore DEF RegistryInv
  <2> QED BY <1>4, <1>9, <2>1 DEF RegistryInv, LeaseInv, LeaseAccounting
<1>11. LeaseNodes'
  BY <1>1, <1>3, <1>4 DEF RegistryInv, TypeOK, LeaseInv, LeaseNodes
<1>12. ProbingIsOneGatedLease'
  <2> SUFFICES ASSUME NEW n \in Nodes
               PROVE  /\ n \in probing' <=> LeasesOn(n)' \cap gated' # {}
                      /\ \A l1, l2 \in LeasesOn(n)' \cap gated' : l1 = l2
    BY DEF ProbingIsOneGatedLease
  <2>1. CASE n \in DueNodes
    <3>1. LeasesOn(n) \cap gated = {}
      BY <1>1, <2>1 DEF RegistryInv, LeaseInv, ProbingIsOneGatedLease
    <3>2. LeasesOn(n) \cap new = {}
      BY <1>1 DEF LeasesOn
    <3>3. LeasesOn(n)' \cap gated' = {leaseOf[n]}
      BY <1>2, <1>4, <1>8, <2>1, <3>1, <3>2
    <3> QED BY <1>4, <2>1, <3>3
  <2>2. CASE n \notin DueNodes
    <3>1. LeasesOn(n)' \cap gated' = LeasesOn(n) \cap gated
      BY <1>1, <1>4, <1>9, <2>2 DEF LeasesOn
    <3> QED BY <1>4, <2>2, <3>1 DEF RegistryInv, LeaseInv, ProbingIsOneGatedLease
  <2> QED BY <2>1, <2>2
<1>13. EngineInv'
  BY <1>4, <1>6 DEF RegistryInv, EngineInv, DialersDistinct, NoOutboundLeaked
<1> QED BY <1>5, <1>7, <1>10, <1>11, <1>12, <1>13 DEF RegistryInv, LeaseInv

\* Closing a lease lowers its node's count; the node goes exactly when it is
\* draining and this was the last lease, so the other leases keep theirs.
LEMMA LeaseCloseStep ==
  ASSUME RegistryInv, NEW l \in Leases, LeaseClose(l)
  PROVE  RegistryInv'
<1>0. l \in open /\ holds[l] \in nodes /\ nodes \subseteq Nodes
  BY DEF LeaseClose, RegistryInv, TypeOK, LeaseInv, LeaseNodes
<1>n. PICK n \in Nodes : n = holds[l]
  BY <1>0
<1> DEFINE gone == IF LastLeaseOfDraining(n) THEN {n} ELSE {}
<1> USE DEF applyVars
<1>1. l \in open /\ n \in nodes /\ n \in Nodes /\ nodes \subseteq Nodes /\ l \in LeasesOn(n)
  BY <1>0, <1>n DEF LeasesOn
<1>2. active[n] > 0 /\ active[n] \in Nat
  BY <1>1, LeaseMeansActive DEF RegistryInv, TypeOK, LeaseInv
<1>3. /\ open' = open \ {l} /\ via' = [via EXCEPT ![l] = NoDialer]
      /\ active' = [active EXCEPT ![n] = active[n] - 1]
      /\ probing' = probing \ (ClearsGate(l) \cup gone)
      /\ nodes' = nodes \ gone /\ removed' = removed \ gone
      /\ healthy' = healthy \ gone /\ due' = due \ gone
      /\ dialer' = [m \in Nodes |-> IF m \in gone THEN NoDialer ELSE dialer[m]]
      /\ sourceIDs' = [m \in Nodes |-> IF m \in gone THEN {} ELSE sourceIDs[m]]
      /\ DialersClose(gone, {dialer[m] : m \in gone})
      /\ gated' = gated \ {l} /\ holds' = [holds EXCEPT ![l] = NoNode]
      /\ UNCHANGED <<order, apply, wanted, built>>
  BY <1>2, <1>n DEF LeaseClose, ReleaseCount
<1>4. /\ gone \subseteq removed /\ gone \subseteq nodes
      /\ n \in removed /\ active[n] = 1 <=> n \in gone
      /\ \A m \in gone : m = n /\ active[m] = 1
  BY <1>1, <1>2 DEF LastLeaseOfDraining, RegistryInv, PoolInv, FlagsInNodes
<1> HIDE DEF gone
<1>5. TypeOK'
  BY <1>1, <1>2, <1>3 DEF RegistryInv, TypeOK, DialersClose, Snapshots
<1>6. Built' = Built /\ Wanted' = Wanted
  BY <1>3 DEF Built, Wanted
<1>7. active'[n] = active[n] - 1 /\ \A m \in Nodes \ {n} : active'[m] = active[m]
  BY <1>1, <1>3 DEF RegistryInv, TypeOK
<1>8. OrderAndDraining'
  <2>1. \A m \in removed' : m \in nodes' /\ active'[m] > 0
    BY <1>2, <1>3, <1>4, <1>7
       DEF RegistryInv, TypeOK, PoolInv, FlagsInNodes, OrderAndDraining
  <2> QED BY <1>3, <1>4, <2>1 DEF RegistryInv, PoolInv, OrderAndDraining
<1>9. PoolInv'
  BY <1>3, <1>6, <1>8 DEF RegistryInv, PoolInv, FlagsInNodes, BuiltInv
<1>10. /\ LeasesOn(n)' = LeasesOn(n) \ {l}
       /\ \A m \in Nodes \ {n} : LeasesOn(m)' = LeasesOn(m)
  BY <1>n, <1>3 DEF LeasesOn
<1>11. LeaseAccounting'
  <2>1. Cardinality(LeasesOn(n)') = Cardinality(LeasesOn(n)) - 1
    BY <1>1, <1>10, LeasesOnFinite, CountOneLess DEF RegistryInv
  <2> QED BY <1>7, <1>10, <2>1 DEF RegistryInv, LeaseInv, LeaseAccounting
<1>12. \A m \in gone : LeasesOn(m)' = {}
  <2> SUFFICES ASSUME NEW m \in gone PROVE LeasesOn(m)' = {}
    OBVIOUS
  <2>1. m \in Nodes /\ active'[m] = 0
    BY <1>1, <1>4, <1>7
  <2>2. Cardinality(LeasesOn(m)') = 0
    BY <1>11, <2>1 DEF LeaseAccounting
  <2>3. IsFiniteSet(LeasesOn(m)')
    <3>1. m = n /\ LeasesOn(m)' \subseteq LeasesOn(m)
      BY <1>4, <1>10
    <3> QED BY <3>1, LeasesOnFinite, FS_Subset DEF RegistryInv
  <2> QED BY <2>2, <2>3, FS_EmptySet
<1>13. LeaseNodes'
  BY <1>1, <1>3, <1>12 DEF RegistryInv, TypeOK, LeaseInv, LeaseNodes, LeasesOn
<1>14. ProbingIsOneGatedLease'
  <2> SUFFICES ASSUME NEW m \in Nodes
               PROVE  /\ m \in probing' <=> LeasesOn(m)' \cap gated' # {}
                      /\ \A l1, l2 \in LeasesOn(m)' \cap gated' : l1 = l2
    BY DEF ProbingIsOneGatedLease
  <2>1. CASE m \in gone
    BY <1>3, <1>12, <2>1
  <2>2. CASE m \notin gone /\ m = n
    <3>1. CASE l \in gated
      <4>1. LeasesOn(m)' \cap gated' = {}
        BY <1>1, <1>3, <1>10, <2>2, <3>1 DEF RegistryInv, LeaseInv, ProbingIsOneGatedLease
      <4>2. m \notin probing'
        BY <1>n, <1>3, <2>2, <3>1 DEF ClearsGate
      <4> QED BY <4>1, <4>2
    <3>2. CASE l \notin gated
      <4>1. LeasesOn(m)' \cap gated' = LeasesOn(m) \cap gated
        BY <1>3, <1>10, <2>2, <3>2
      <4>2. m \in probing' <=> m \in probing
        BY <1>3, <2>2, <3>2 DEF ClearsGate
      <4> QED BY <4>1, <4>2 DEF RegistryInv, LeaseInv, ProbingIsOneGatedLease
    <3> QED BY <3>1, <3>2
  <2>3. CASE m \notin gone /\ m # n
    <3>1. LeasesOn(m)' \cap gated' = LeasesOn(m) \cap gated
      BY <1>n, <1>3, <1>10, <2>3 DEF LeasesOn
    <3>2. m \in probing' <=> m \in probing
      BY <1>n, <1>3, <2>3 DEF ClearsGate
    <3> QED BY <3>1, <3>2 DEF RegistryInv, LeaseInv, ProbingIsOneGatedLease
  <2> QED BY <2>1, <2>2, <2>3
<1>15. \A m \in nodes' : dialer'[m] = dialer[m]
  BY <1>1, <1>3
<1>16. DialersDistinct'
  BY <1>3, <1>6, <1>15 DEF RegistryInv, EngineInv, DialersDistinct
<1>17. NoOutboundLeaked'
  <2> SUFFICES ASSUME ~engineClosed
               PROVE  /\ builtBy' = nodes' \cup Built'
                      /\ live' = {dialer'[m] : m \in nodes'} \cup {built'[m] : m \in Built'}
    BY <1>3 DEF NoOutboundLeaked, DialersClose, Missing
  <2>1. /\ builtBy' = builtBy \ gone
        /\ live' = live \ {dialer[m] : m \in gone}
        /\ builtBy = nodes \cup Built
        /\ live = {dialer[m] : m \in nodes} \cup {built[m] : m \in Built}
        /\ Built \cap nodes = {}
    BY <1>3 DEF RegistryInv, EngineInv, NoOutboundLeaked, DialersClose, PoolInv, BuiltInv
  <2>2. builtBy' = nodes' \cup Built'
    BY <1>3, <1>4, <1>6, <2>1
  <2>3. live' = {dialer[m] : m \in nodes'} \cup {built[m] : m \in Built}
    BY <1>3, <1>4, <2>1 DEF RegistryInv, EngineInv, DialersDistinct
  <2> QED BY <1>3, <1>6, <1>15, <2>2, <2>3
<1> QED BY <1>5, <1>9, <1>11, <1>13, <1>14, <1>16, <1>17
        DEF RegistryInv, LeaseInv, EngineInv

-----------------------------------------------------------------------------
(* Theorems *)

\* A step of any operation, or a stutter, preserves the invariant.
LEMMA NextInv == RegistryInv /\ [RegistryNext]_registryVars => RegistryInv'
<1> SUFFICES ASSUME RegistryInv, [RegistryNext]_registryVars PROVE RegistryInv'
  OBVIOUS
<1>1. ASSUME NEW snapshot \in Snapshots, ApplyBegin(snapshot) PROVE RegistryInv'
  BY <1>1, ApplyBeginStep
<1>2. ASSUME NEW n \in Nodes, ApplyBuild(n) PROVE RegistryInv'
  BY <1>2, ApplyBuildStep
<1>3. CASE ApplyFails
  BY <1>3, ApplyFailsStep
<1>4. CASE ApplyFinish
  BY <1>4, ApplyFinishStep
<1>5. ASSUME NEW n \in Nodes, MarkFailure(n) PROVE RegistryInv'
  BY <1>5, MarkFailureStep
<1>6. ASSUME NEW n \in Nodes, MarkSuccess(n) PROVE RegistryInv'
  BY <1>6, MarkSuccessStep
<1>7. ASSUME NEW l \in Leases, NEW n \in Nodes, NEW allow \in BOOLEAN,
             Acquire(l, n, allow)
      PROVE  RegistryInv'
  BY <1>7, AcquireStep
<1>8. ASSUME NEW leaseOf \in LeaseChoices, ProbeDue(leaseOf) PROVE RegistryInv'
  BY <1>8, ProbeDueStep
<1>9. ASSUME NEW l \in Leases, LeaseClose(l) PROVE RegistryInv'
  BY <1>9, LeaseCloseStep
<1>10. ASSUME NEW n \in Nodes, ProbeIntervalElapses(n) PROVE RegistryInv'
  BY <1>10, ProbeIntervalElapsesStep
<1>11. CASE EngineClose
  BY <1>11, EngineCloseStep
<1>12. CASE UNCHANGED registryVars
  <2>1. UNCHANGED <<probing, poolVars, applyVars, engineVars, leaseVars>>
        /\ UNCHANGED <<healthy, due>>
    BY <1>12 DEF registryVars, flagVars
  <2>2. healthy' \subseteq nodes /\ due' \subseteq nodes
    BY <2>1 DEF RegistryInv, PoolInv, FlagsInNodes
  <2> QED BY <2>1, <2>2, FlagStep
<1> QED BY <1>1, <1>2, <1>3, <1>4, <1>5, <1>6, <1>7, <1>8, <1>9, <1>10, <1>11, <1>12
        DEF RegistryNext

\* The inductive invariant holds in every reachable state of the registry,
\* for any finite set of leases and any sets of nodes, sources and dialers.
THEOREM RegistryInvariance == RegistrySpec => []RegistryInv
BY InitInv, NextInv, PTL DEF RegistrySpec

\* Type correctness of the registry (registry.go, engine.go).
THEOREM RegistryTypeOK == RegistrySpec => []TypeOK
<1>1. RegistryInv => TypeOK
  BY DEF RegistryInv
<1> QED BY <1>1, RegistryInvariance, PTL

\* nodeState.active always equals the number of leases open on the node.
THEOREM RegistryLeaseAccounting == RegistrySpec => []LeaseAccounting
<1>1. RegistryInv => LeaseAccounting
  BY DEF RegistryInv, LeaseInv
<1> QED BY <1>1, RegistryInvariance, PTL

\* An open lease's dialer is its node's current dialer and its outbound
\* exists: no Apply, release or probe pulls it away from a connection.
THEOREM RegistryLeasedDialerIsLive == RegistrySpec => []LeasedDialerIsLive
<1>1. RegistryInv => LeasedDialerIsLive
  BY DEF RegistryInv, LeaseInv, LeaseNodes, EngineInv, NoOutboundLeaked,
         LeasedDialerIsLive
<1> QED BY <1>1, RegistryInvariance, PTL

\* The probing flag is held by exactly one gated lease.
THEOREM RegistryProbingGate == RegistrySpec => []ProbingIsOneGatedLease
<1>1. RegistryInv => ProbingIsOneGatedLease
  BY DEF RegistryInv, LeaseInv
<1> QED BY <1>1, RegistryInvariance, PTL

\* registry.order lists the nodes that are not draining, and every draining
\* node has a lease.
THEOREM RegistryOrderAndDraining == RegistrySpec => []OrderAndDraining
<1>1. RegistryInv => OrderAndDraining
  BY DEF RegistryInv, PoolInv
<1> QED BY <1>1, RegistryInvariance, PTL

\* The engine's outbounds are exactly those of the registry's nodes and of
\* the Apply in progress.
THEOREM RegistryNoOutboundLeaked == RegistrySpec => []NoOutboundLeaked
<1>1. RegistryInv => NoOutboundLeaked
  BY DEF RegistryInv, EngineInv
<1> QED BY <1>1, RegistryInvariance, PTL
=============================================================================
