-------------------------- MODULE LeasePoolProofs ---------------------------
(***************************************************************************)
(* Proof that the registry implements LeasePool for any nodes, leases and  *)
(* dialers.  On top of RegistryInv the refinement needs that what is not   *)
(* there leaves no trace in the mapped state: a node outside the map has   *)
(* no dialer, a closed lease has no node, and only open leases hold gates. *)
(***************************************************************************)
EXTENDS RegistryProofs

NoTrace ==
    /\ \A n \in Nodes \ nodes : dialer[n] = NoDialer
    /\ \A l \in Leases \ open : holds[l] = NoNode
    /\ gated \subseteq open

\* The state LeasePool sees.
shared == <<order, dialer, holds, via, gated>>

\* A lease is open exactly if it has a node, so the open leases on a node
\* are its borrowers.
LEMMA OpenLeases ==
  ASSUME RegistryInv, NoTrace
  PROVE  /\ \A l \in Leases : l \in open <=> holds[l] # NoNode
         /\ \A n \in Nodes : Abstract!Borrowers(n) = LeasesOn(n)
<1>1. \A l \in open : l \in Leases /\ holds[l] \in Nodes
  BY DEF RegistryInv, TypeOK, LeaseInv, LeaseNodes
<1>2. \A l \in Leases : l \in open <=> holds[l] # NoNode
  BY <1>1, RegistryAssumption DEF NoTrace
<1>3. \A n \in Nodes : Abstract!Borrowers(n) = LeasesOn(n)
  BY <1>1, <1>2, RegistryAssumption DEF LeasesOn, Abstract!Borrowers
<1> QED BY <1>2, <1>3

-----------------------------------------------------------------------------
(* Each operation as a step of the pool *)

\* A finished Apply replaces the snapshot: kept and leased nodes keep their
\* dialers, the built ones are new, the dropped ones had no lease.
LEMMA ApplyFinishReplaces ==
  ASSUME RegistryInv, NoTrace, ApplyFinish
  PROVE  Abstract!Replace(Wanted) /\ NoTrace'
<1> USE DEF ApplyFinish
<1>1. /\ nodes \subseteq Nodes /\ Built \subseteq Wanted \ nodes
      /\ Wanted \subseteq nodes \cup Built /\ Wanted \subseteq Nodes
      /\ removed \subseteq nodes
  BY DEF RegistryInv, TypeOK, PoolInv, FlagsInNodes, BuiltInv, Missing, Wanted
<1>2. \A n \in Nodes : n \in nodes <=> dialer[n] # NoDialer
  BY RegistryAssumption DEF RegistryInv, EngineInv, DialersDistinct, NoTrace
<1>3. \A n \in Built : built[n] \in Dialers
  BY DEF Built, RegistryInv, TypeOK
<1>4. \A n \in Nodes : Abstract!Borrowers(n) = LeasesOn(n)
  BY OpenLeases
<1>5. \A n \in nodes \ Wanted : n \in Dropped <=> Abstract!Borrowers(n) = {}
  <2> SUFFICES ASSUME NEW n \in nodes \ Wanted
               PROVE  n \in Dropped <=> LeasesOn(n) = {}
    BY <1>1, <1>4
  <2>1. n \in Nodes /\ TypeOK /\ LeaseAccounting
    BY <1>1 DEF RegistryInv, LeaseInv
  <2>2. n \in removed => active[n] > 0
    BY DEF RegistryInv, PoolInv, OrderAndDraining
  <2>3. active[n] = 0 => LeasesOn(n) = {}
    BY <2>1, NoActiveNoLease
  <2>4. LeasesOn(n) = {} => active[n] = 0
    BY <2>1, FS_EmptySet DEF LeaseAccounting
  <2> QED BY <2>1, <2>2, <2>3, <2>4 DEF Dropped, TypeOK
<1>6. \A n \in Nodes \ nodes : Abstract!Borrowers(n) = {}
  BY <1>4 DEF LeasesOn, RegistryInv, LeaseInv, LeaseNodes
<1>7. Dropped \subseteq nodes \ Wanted
  BY DEF Dropped
<1>8. \A n \in Nodes : dialer'[n] = IF n \in Built THEN built[n]
                                    ELSE IF n \in Dropped THEN NoDialer ELSE dialer[n]
  OBVIOUS
<1>9. \A n \in Nodes :
         IF n \in Wanted \/ Abstract!Borrowers(n) # {}
           THEN IF dialer[n] # NoDialer
                  THEN dialer'[n] = dialer[n]
                  ELSE dialer'[n] \in Dialers \ {dialer[m] : m \in Nodes}
           ELSE dialer'[n] = NoDialer
  <2> SUFFICES ASSUME NEW n \in Nodes
               PROVE  IF n \in Wanted \/ Abstract!Borrowers(n) # {}
                        THEN IF dialer[n] # NoDialer
                               THEN dialer'[n] = dialer[n]
                               ELSE dialer'[n] \in Dialers \ {dialer[m] : m \in Nodes}
                        ELSE dialer'[n] = NoDialer
    OBVIOUS
  <2>1. CASE n \in nodes
    BY <2>1, <1>1, <1>2, <1>5, <1>7, <1>8
  <2>2. CASE n \in Built
    <3>1. \A m \in Nodes : dialer[m] # built[n]
      BY <1>2, <1>3, <2>2, RegistryAssumption DEF RegistryInv, EngineInv, DialersDistinct
    <3> QED BY <2>2, <3>1, <1>1, <1>2, <1>3, <1>8
  <2>3. CASE n \notin nodes \cup Built
    BY <2>3, <1>1, <1>2, <1>6, <1>7, <1>8
  <2> QED BY <2>1, <2>2, <2>3
<1>10. \A m, n \in Nodes : m # n => dialer'[m] = NoDialer \/ dialer'[m] # dialer'[n]
  <2> SUFFICES ASSUME NEW m \in Nodes, NEW n \in Nodes, m # n, dialer'[m] # NoDialer
               PROVE  dialer'[m] # dialer'[n]
    OBVIOUS
  <2>1. /\ m \in Built \/ (m \in nodes /\ dialer'[m] = dialer[m])
        /\ n \in Built \/ dialer'[n] = NoDialer \/ (n \in nodes /\ dialer'[n] = dialer[n])
    BY <1>2, <1>8
  <2> QED BY <2>1, <1>8 DEF RegistryInv, EngineInv, DialersDistinct
<1>11. NoTrace'
  BY <1>2, <1>8, <1>1 DEF NoTrace, leaseVars
<1> QED BY <1>9, <1>10, <1>11 DEF Abstract!Replace, leaseVars

\* Acquire grants one lease, with the gate if the node is not healthy.
LEMMA AcquireGrants ==
  ASSUME RegistryInv, NoTrace, NEW l \in Leases, NEW n \in Nodes,
         NEW allow \in BOOLEAN, Acquire(l, n, allow)
  PROVE  Abstract!PoolNext /\ NoTrace'
<1> DEFINE f == [k \in {l} |-> n]
           held == IF n \in healthy THEN {} ELSE {l}
<1>1. /\ l \notin open /\ n \in nodes \ removed
      /\ n \notin healthy => n \notin probing
      /\ gated' = gated \cup held
      /\ open' = open \cup {l} /\ holds' = [holds EXCEPT ![l] = n]
      /\ via' = [via EXCEPT ![l] = dialer[n]]
      /\ UNCHANGED <<order, nodes, dialer>>
  BY DEF Acquire, CanAcquire, NoTrace
<1>2. /\ holds[l] = NoNode
      /\ n \in order
  BY <1>1 DEF NoTrace, RegistryInv, PoolInv, OrderAndDraining
<1>3. ASSUME n \notin healthy PROVE \A k \in gated : holds[k] # n
  <2>1. LeasesOn(n) \cap gated = {}
    BY <1>1, <1>3 DEF RegistryInv, LeaseInv, ProbingIsOneGatedLease
  <2> QED BY <2>1 DEF LeasesOn, NoTrace
<1>4. Abstract!Grant({l}, f, held)
  <2>1. \A j \in held : \A k \in gated \cup held : k # j =>
           f[j] # IF k \in {l} THEN f[k] ELSE holds[k]
    BY <1>1, <1>3 DEF NoTrace
  <2>2. holds' = [k \in Leases |-> IF k \in {l} THEN f[k] ELSE holds[k]]
    BY <1>1 DEF RegistryInv, TypeOK
  <2>3. via' = [k \in Leases |-> IF k \in {l} THEN dialer[f[k]] ELSE via[k]]
    BY <1>1 DEF RegistryInv, TypeOK
  <2> QED BY <1>1, <1>2, <2>1, <2>2, <2>3 DEF Abstract!Grant
<1>5. f \in [{l} -> Nodes] /\ held \in SUBSET {l} /\ {l} \in SUBSET Leases
  OBVIOUS
<1>6. Abstract!PoolNext
  BY <1>4, <1>5 DEF Abstract!PoolNext
<1>7. NoTrace'
  BY <1>1 DEF NoTrace, RegistryInv, TypeOK
<1> QED BY <1>6, <1>7

\* ProbeDue grants a lease with the gate for every node that is due.
LEMMA ProbeDueGrants ==
  ASSUME RegistryInv, NoTrace, NEW leaseOf \in LeaseChoices, ProbeDue(leaseOf)
  PROVE  Abstract!PoolNext /\ NoTrace'
<1> DEFINE new == {leaseOf[n] : n \in DueNodes}
           nodeOf(l) == CHOOSE n \in DueNodes : leaseOf[n] = l
           f == [l \in new |-> nodeOf(l)]
<1>1. /\ DueNodes \subseteq order \ probing /\ DueNodes \subseteq Nodes
      /\ new \subseteq Leases /\ new \cap open = {}
  BY DEF RegistryInv, TypeOK, DueNodes, LeaseChoices, ProbeDue
<1>2. \A l \in new : nodeOf(l) \in DueNodes /\ leaseOf[nodeOf(l)] = l
  OBVIOUS
<1>3. /\ open' = open \cup new /\ gated' = gated \cup new
      /\ holds' = [l \in Leases |-> IF l \in new THEN nodeOf(l) ELSE holds[l]]
      /\ via' = [l \in Leases |-> IF l \in new THEN dialer[nodeOf(l)] ELSE via[l]]
      /\ UNCHANGED <<order, nodes, dialer>>
  BY DEF ProbeDue
<1> HIDE DEF new, nodeOf
<1>4. \A l \in new : f[l] = nodeOf(l)
  OBVIOUS
<1> HIDE DEF f
<1>5. \A n \in DueNodes : \A k \in gated : holds[k] # n
  <2> SUFFICES ASSUME NEW n \in DueNodes PROVE LeasesOn(n) \cap gated = {}
    BY DEF LeasesOn, NoTrace
  <2> QED BY <1>1 DEF RegistryInv, LeaseInv, ProbingIsOneGatedLease
<1>6. \A l \in new : \A k \in gated \cup new : k # l =>
         f[l] # IF k \in new THEN f[k] ELSE holds[k]
  BY <1>2, <1>4, <1>5
<1>7. /\ holds' = [l \in Leases |-> IF l \in new THEN f[l] ELSE holds[l]]
      /\ via' = [l \in Leases |-> IF l \in new THEN dialer[f[l]] ELSE via[l]]
  BY <1>3, <1>4
<1>8. \A l \in new : holds[l] = NoNode /\ f[l] \in order
  BY <1>1, <1>2, <1>4 DEF NoTrace
<1>9. Abstract!Grant(new, f, new)
  BY <1>3, <1>6, <1>7, <1>8 DEF Abstract!Grant
<1>10. f \in [new -> Nodes]
  BY <1>1, <1>2 DEF f
<1>11. Abstract!PoolNext
  BY <1>1, <1>9, <1>10 DEF Abstract!PoolNext
<1>12. NoTrace'
  BY <1>1, <1>3 DEF NoTrace
<1> QED BY <1>11, <1>12

\* Close returns the lease; the dialer goes exactly when the node is draining
\* and nobody else has it.
LEMMA LeaseCloseReturns ==
  ASSUME RegistryInv, NoTrace, NEW l \in Leases, LeaseClose(l)
  PROVE  Abstract!Return(l) /\ NoTrace'
<1>1. l \in open /\ holds[l] \in nodes /\ nodes \subseteq Nodes
  BY DEF LeaseClose, RegistryInv, TypeOK, LeaseInv, LeaseNodes
<1>2. PICK n \in Nodes : n = holds[l]
  BY <1>1
<1>3. Abstract!Borrowers(n) = LeasesOn(n) /\ l \in LeasesOn(n)
  BY <1>1, <1>2, OpenLeases DEF LeasesOn
<1>4. active[n] = Cardinality(LeasesOn(n)) /\ IsFiniteSet(LeasesOn(n))
      /\ Cardinality(LeasesOn(n)) \in Nat
  BY LeasesOnFinite DEF RegistryInv, LeaseInv, LeaseAccounting
<1>5. Cardinality(LeasesOn(n) \ {l}) = active[n] - 1
      /\ IsFiniteSet(LeasesOn(n) \ {l})
  BY <1>3, <1>4, FS_RemoveElement
<1>6. active[n] <= 1 <=> LeasesOn(n) = {l}
  <2>1. Cardinality(LeasesOn(n) \ {l}) \in Nat
    BY <1>5, FS_CardinalityType
  <2>2. Cardinality(LeasesOn(n) \ {l}) = 0 <=> LeasesOn(n) \ {l} = {}
    BY <1>5, FS_EmptySet
  <2> QED BY <1>3, <1>4, <1>5, <2>1, <2>2
<1>7. n \in removed <=> n \notin order
  BY <1>1, <1>2 DEF RegistryInv, PoolInv, OrderAndDraining
<1>8. LastLeaseOfDraining(n) <=> n \notin order /\ Abstract!Borrowers(n) = {l}
  BY <1>3, <1>6, <1>7 DEF LastLeaseOfDraining
<1>9. /\ holds' = [holds EXCEPT ![l] = NoNode] /\ via' = [via EXCEPT ![l] = NoDialer]
      /\ gated' = gated \ {l} /\ open' = open \ {l} /\ UNCHANGED order
      /\ nodes' = nodes \ (IF LastLeaseOfDraining(n) THEN {n} ELSE {})
      /\ dialer' = [m \in Nodes |-> IF m \in (IF LastLeaseOfDraining(n) THEN {n} ELSE {})
                                      THEN NoDialer ELSE dialer[m]]
  BY <1>2 DEF LeaseClose
<1>10. dialer' = IF n \notin order /\ Abstract!Borrowers(n) = {l}
                   THEN [dialer EXCEPT ![n] = NoDialer] ELSE dialer
  BY <1>8, <1>9 DEF RegistryInv, TypeOK
<1>11. Abstract!Return(l)
  BY <1>2, <1>9, <1>10, RegistryAssumption DEF Abstract!Return
<1>12. NoTrace'
  BY <1>9 DEF NoTrace, RegistryInv, TypeOK
<1> QED BY <1>11, <1>12

-----------------------------------------------------------------------------
(* The refinement *)

\* Every step of the registry is a step of the pool or leaves it alone.
LEMMA NextRefines ==
  ASSUME RegistryInv, NoTrace, [RegistryNext]_registryVars
  PROVE  [Abstract!PoolNext]_shared /\ NoTrace'
<1> DEFINE Quiet == UNCHANGED <<nodes, open, shared>>
<1>q. Quiet => UNCHANGED shared /\ NoTrace'
  BY DEF NoTrace, shared
<1> USE DEF flagVars, poolVars, applyVars, engineVars, leaseVars, shared
<1>1. ASSUME NEW snapshot \in Snapshots, ApplyBegin(snapshot) PROVE Quiet
  BY <1>1 DEF ApplyBegin
<1>2. ASSUME NEW n \in Nodes, ApplyBuild(n) PROVE Quiet
  BY <1>2 DEF ApplyBuild
<1>3. CASE ApplyFails
  BY <1>3, <1>q DEF ApplyFails
<1>4. CASE ApplyFinish
  <2>1. Wanted \in SUBSET Nodes
    BY DEF Wanted
  <2> QED BY <1>4, <2>1, ApplyFinishReplaces DEF Abstract!PoolNext
<1>5. ASSUME NEW n \in Nodes, MarkFailure(n) PROVE Quiet
  BY <1>5 DEF MarkFailure
<1>6. ASSUME NEW n \in Nodes, MarkSuccess(n) PROVE Quiet
  BY <1>6 DEF MarkSuccess
<1>7. ASSUME NEW l \in Leases, NEW n \in Nodes, NEW allow \in BOOLEAN,
             Acquire(l, n, allow)
      PROVE  Abstract!PoolNext /\ NoTrace'
  BY <1>7, AcquireGrants
<1>8. ASSUME NEW leaseOf \in LeaseChoices, ProbeDue(leaseOf)
      PROVE  Abstract!PoolNext /\ NoTrace'
  BY <1>8, ProbeDueGrants
<1>9. ASSUME NEW l \in Leases, LeaseClose(l) PROVE Abstract!PoolNext /\ NoTrace'
  BY <1>9, LeaseCloseReturns DEF Abstract!PoolNext
<1>10. ASSUME NEW n \in Nodes, ProbeIntervalElapses(n) PROVE Quiet
  BY <1>10 DEF ProbeIntervalElapses
<1>11. CASE EngineClose
  BY <1>11, <1>q DEF EngineClose
<1>12. CASE UNCHANGED registryVars
  BY <1>12, <1>q DEF registryVars
<1> HIDE DEF Quiet, shared
<1> QED BY <1>q, <1>1, <1>2, <1>3, <1>4, <1>5, <1>6, <1>7, <1>8, <1>9, <1>10, <1>11, <1>12
        DEF RegistryNext

\* The registry implements the lease pool: draining, counting and flags give
\* every user exactly what LeasePool promises.
THEOREM RegistryImplementsLeasePool == RegistrySpec => ImplementsLeasePool
<1>1. RegistryInit => Abstract!PoolInit /\ NoTrace
  BY DEF RegistryInit, NewRegistry, NothingBuilt, Abstract!PoolInit, NoTrace
<1>2. RegistryInv /\ NoTrace /\ [RegistryNext]_registryVars
        => NoTrace' /\ [Abstract!PoolNext]_(Abstract!poolVars)
  BY NextRefines DEF shared, Abstract!poolVars
<1> QED BY <1>1, <1>2, RegistryInvariance, PTL
        DEF RegistrySpec, ImplementsLeasePool, Abstract!PoolSpec
=============================================================================
