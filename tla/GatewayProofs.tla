---------------------------- MODULE GatewayProofs ---------------------------
(***************************************************************************)
(* Proofs about the gateway for any number of nodes, sessions and dialers: *)
(* it uses the registry as the registry's specification allows, so the     *)
(* registry's theorems hold of it, and it loses no lease but by a dial     *)
(* that comes after the release of its session.                            *)
(*                                                                         *)
(* Both are proved by one induction.  That a session's Mark and Close      *)
(* calls name a lease it has needs OwnersInv; that the steps keep          *)
(* OwnersInv needs that an attempt runs only in a session without a        *)
(* selected lease, and the registry's invariant, which in turn needs that  *)
(* the step is a registry step.  LateInv names the only way to a lease of  *)
(* a session that is released already.                                     *)
(***************************************************************************)
EXTENDS Gateway, LeasePoolProofs

\* A session that chooses a node has none selected, and one that dials
\* through its selected lease has one.
DialModes ==
    /\ \A s \in pinned : dial[s] \in {"none", "spawned", "pinnedDial"}
    /\ \A s \in Sessions : dial[s] = "pinnedDial" => s \in pinned

\* A probe's lease is a gated lease on its node.
ProbeLeases ==
    \A n \in Nodes : probe[n] # "none" => n \in gated /\ holds[n] = n

\* A lease is open exactly while a dial runs through it, a session has it
\* selected, or its probe runs.
OwnersInv ==
    open = {s \in Sessions : dial[s] \in {"dialing", "failed"} \/ s \in pinned}
           \cup {n \in Nodes : probe[n] # "none"}

\* A released session has or may get a lease only by a dial that came late.
LateInv ==
    \A s \in Sessions :
        conn[s] = "closed" /\ (s \in pinned \/ dial[s] \in {"choosing", "dialing", "failed"})
            => s \in late

LocalInv ==
    /\ GatewayTypeOK
    /\ OwnersInv
    /\ LateInv
    /\ DialModes
    /\ ProbeLeases
    /\ ~engineClosed

GatewayInv == RegistryInv /\ LocalInv

\* What a gateway step has to be shown to do.
StepOK == [RegistryNext]_registryVars /\ LocalInv'

-----------------------------------------------------------------------------
(* Steps that leave the registry alone *)

\* The lease and engine state that the local invariant reads is unchanged
\* when the registry is.
LEMMA RegistryUnchanged ==
  ASSUME UNCHANGED registryVars
  PROVE  UNCHANGED <<open, gated, holds, via, engineClosed, apply>>
BY DEF registryVars, leaseVars, engineVars, applyVars

\* The lifecycle of a connection other than its release.
LEMMA ConnectionStep ==
  ASSUME GatewayInv, NEW s \in Sessions,
         Accept(s) \/ Upgrade(s) \/ Disconnect(s) \/ TunnelEnds(s)
  PROVE  StepOK
<1>1. UNCHANGED <<registryVars, dial, forwarded, todo, halfOpen, pinned, late, workVars>>
      /\ \E c \in {"open", "tunnel", "gone"} : conn' = [conn EXCEPT ![s] = c]
  BY DEF Accept, Upgrade, Disconnect, TunnelEnds
<1> QED BY <1>1, RegistryUnchanged
        DEF StepOK, GatewayInv, LocalInv, GatewayTypeOK, OwnersInv, LateInv,
            DialModes, ProbeLeases, Unlocked, workVars

\* A dial is started.
LEMMA EnterStep ==
  ASSUME GatewayInv, NEW s \in Sessions,
         Connect(s) \/ Forward(s) \/ ForwardDial(s)
  PROVE  StepOK
<1>1. dial[s] \in {"none", "spawned"} /\ UNCHANGED <<registryVars, conn, pinned, workVars>>
  BY DEF Connect, Forward, ForwardDial, EnterDial
<1>2. UNCHANGED <<open, gated, holds, via, engineClosed, apply, probe, refresh>>
  BY <1>1, RegistryUnchanged DEF workVars
<1>3. /\ Eligible \in SUBSET Nodes /\ HalfOpen \in SUBSET Nodes
  BY DEF Eligible, HalfOpen, Pool, GatewayInv, RegistryInv, TypeOK
<1>4. /\ todo' \in [Sessions -> SUBSET Nodes] /\ halfOpen' \in [Sessions -> SUBSET Nodes]
      /\ forwarded' \subseteq Sessions
  BY <1>3 DEF Connect, Forward, ForwardDial, EnterDial, GatewayInv, LocalInv, GatewayTypeOK
<1>5. \E d \in {"choosing", "pinnedDial", "spawned"} :
         dial' = [dial EXCEPT ![s] = d] /\ (d = "choosing" => s \notin pinned)
                                        /\ (d = "pinnedDial" => s \in pinned)
  BY DEF Connect, Forward, ForwardDial, EnterDial
<1>6. /\ late' = late \/ late' = late \cup {s}
      /\ conn[s] = "closed" => s \in late' \/ dial'[s] = "spawned"
  BY DEF Connect, Forward, ForwardDial, GatewayInv, LocalInv, GatewayTypeOK
<1>7. LateInv'
  BY <1>1, <1>5, <1>6 DEF LateInv, GatewayInv, LocalInv, GatewayTypeOK, DialModes
<1> QED BY <1>1, <1>2, <1>4, <1>5, <1>6, <1>7
        DEF StepOK, GatewayInv, LocalInv, GatewayTypeOK, OwnersInv,
            DialModes, ProbeLeases, Unlocked

\* A dial goes on or ends without a registry call that changes anything.
LEMMA QuietDialStep ==
  ASSUME GatewayInv, NEW s \in Sessions,
         SkipCandidate(s) \/ AllFailed(s) \/ PinnedDialSucceeds(s)
  PROVE  StepOK
<1>1. UNCHANGED <<registryVars, pinned, workVars>>
  BY DEF SkipCandidate, AllFailed, PinnedDialSucceeds
<1>2. UNCHANGED <<open, gated, holds, via, engineClosed, apply, probe, refresh>>
  BY <1>1, RegistryUnchanged DEF workVars
<1>3. /\ todo' \in [Sessions -> SUBSET Nodes] /\ halfOpen' \in [Sessions -> SUBSET Nodes]
      /\ forwarded' \subseteq Sessions
      /\ conn' \in [Sessions -> {"open", "tunnel", "gone", "closed"}]
  BY DEF SkipCandidate, AllFailed, PinnedDialSucceeds, GatewayInv, LocalInv, GatewayTypeOK
<1>4. /\ dial[s] \in {"choosing", "pinnedDial"}
      /\ dial' = dial \/ dial' = [dial EXCEPT ![s] = "none"]
  BY DEF SkipCandidate, AllFailed, PinnedDialSucceeds
<1>5. late' \subseteq Sessions /\ LateInv'
  BY <1>1, <1>4 DEF SkipCandidate, AllFailed, PinnedDialSucceeds, LateInv, DialModes,
                    GatewayInv, LocalInv, GatewayTypeOK
<1> QED BY <1>1, <1>2, <1>3, <1>4, <1>5
        DEF StepOK, GatewayInv, LocalInv, GatewayTypeOK, OwnersInv,
            DialModes, ProbeLeases, Unlocked

\* A probe round ends.
LEMMA ProbesDoneStep ==
  ASSUME GatewayInv, ProbesDone
  PROVE  StepOK
<1>1. UNCHANGED <<registryVars, sessionVars, probe>> /\ refresh = "probing" /\ refresh' = "idle"
  BY DEF ProbesDone
<1> QED BY <1>1, RegistryUnchanged
        DEF StepOK, GatewayInv, LocalInv, GatewayTypeOK, OwnersInv, LateInv,
            DialModes, ProbeLeases, Unlocked, sessionVars

-----------------------------------------------------------------------------
(* Steps that call the registry *)

\* A lease that is open is on a node.
LEMMA OpenHoldsNode ==
  ASSUME GatewayInv, NEW l \in open
  PROVE  holds[l] \in Nodes
BY DEF GatewayInv, RegistryInv, LeaseInv, LeaseNodes, TypeOK

\* The Mark calls change neither leases nor locks.
LEMMA MarkCall ==
  ASSUME NEW n, MarkFailure(n) \/ MarkSuccess(n)
  PROVE  /\ UNCHANGED <<open, gated, holds, via, engineClosed, apply>>
         /\ n \in Nodes => RegistryNext
<1>1. n \in Nodes => RegistryNext
  BY DEF RegistryNext
<1> QED BY <1>1 DEF MarkFailure, MarkSuccess, leaseVars, engineVars, applyVars

\* A session's dial ends or fails and its node is marked.
LEMMA MarkingDialStep ==
  ASSUME GatewayInv, NEW s \in Sessions,
         DialSucceeds(s) \/ DialFails(s) \/ PinnedDialFails(s)
  PROVE  StepOK
<1>1. /\ MarkFailure(holds[s]) \/ MarkSuccess(holds[s])
      /\ UNCHANGED workVars
      /\ dial[s] \in {"dialing", "pinnedDial"}
  BY DEF DialSucceeds, DialFails, PinnedDialFails
<1>2. /\ UNCHANGED <<open, gated, holds, via, engineClosed, apply, probe, refresh>>
      /\ holds[s] \in Nodes => RegistryNext
  BY <1>1, MarkCall DEF workVars
<1>3. s \in open
  BY <1>1 DEF GatewayInv, LocalInv, OwnersInv, DialModes
<1>4. RegistryNext
  BY <1>2, <1>3, OpenHoldsNode
<1>5. /\ todo' \in [Sessions -> SUBSET Nodes] /\ halfOpen' \in [Sessions -> SUBSET Nodes]
      /\ forwarded' \subseteq Sessions
      /\ conn' \in [Sessions -> {"open", "tunnel", "gone", "closed"}]
  BY DEF DialSucceeds, DialFails, PinnedDialFails, GatewayInv, LocalInv, GatewayTypeOK
<1>6. \/ /\ dial[s] = "dialing" /\ dial' = [dial EXCEPT ![s] = "none"]
         /\ pinned' = pinned \cup {s}
      \/ /\ dial[s] = "dialing" /\ dial' = [dial EXCEPT ![s] = "failed"]
         /\ pinned' = pinned
      \/ /\ dial[s] = "pinnedDial" /\ dial' = [dial EXCEPT ![s] = "none"]
         /\ pinned' = pinned
  BY DEF DialSucceeds, DialFails, PinnedDialFails
<1>7. late' = late /\ LateInv'
  BY <1>6 DEF DialSucceeds, DialFails, PinnedDialFails, LateInv, DialModes,
              GatewayInv, LocalInv, GatewayTypeOK
<1> QED BY <1>2, <1>3, <1>4, <1>5, <1>6, <1>7
        DEF StepOK, GatewayInv, LocalInv, GatewayTypeOK, OwnersInv,
            DialModes, ProbeLeases, Unlocked

\* A session acquires a candidate.
LEMMA TryCandidateStep ==
  ASSUME GatewayInv, NEW s \in Sessions, TryCandidate(s)
  PROVE  StepOK
<1>1. PICK n \in todo[s] : /\ todo' = [todo EXCEPT ![s] = @ \ {n}]
                           /\ halfOpen' = [halfOpen EXCEPT ![s] = @ \ {n}]
                           /\ Acquire(s, n, n \in halfOpen[s])
  BY DEF TryCandidate
<1>2. /\ dial[s] = "choosing" /\ dial' = [dial EXCEPT ![s] = "dialing"]
      /\ UNCHANGED <<conn, forwarded, pinned, late, probe, refresh>>
  BY DEF TryCandidate, workVars
<1>3. n \in Nodes /\ s \in Leases /\ s \notin Nodes
  BY GatewayAssumption DEF GatewayInv, LocalInv, GatewayTypeOK
<1>4. RegistryNext
  <2>1. (n \in halfOpen[s]) \in BOOLEAN
    OBVIOUS
  <2> QED BY <1>1, <1>3, <2>1 DEF RegistryNext
<1>5. /\ s \notin open /\ open' = open \cup {s}
      /\ gated' \in {gated \ {s}, gated \cup {s}}
      /\ holds' = [holds EXCEPT ![s] = n]
      /\ UNCHANGED <<engineClosed, apply>>
  BY <1>1 DEF Acquire, engineVars, applyVars
<1>6. ProbeLeases'
  BY <1>2, <1>3, <1>5, GatewayAssumption
     DEF ProbeLeases, GatewayInv, LocalInv, RegistryInv, TypeOK
<1>7. GatewayTypeOK'
  BY <1>1, <1>2, <1>5 DEF GatewayTypeOK, GatewayInv, LocalInv, Unlocked
<1>8. OwnersInv' /\ LateInv' /\ DialModes'
  BY <1>2, <1>5 DEF OwnersInv, LateInv, DialModes, GatewayInv, LocalInv, GatewayTypeOK
<1> QED BY <1>4, <1>5, <1>6, <1>7, <1>8 DEF StepOK, LocalInv, GatewayInv

\* What closing lease l does to the state that the local invariant reads.
LEMMA CloseCall ==
  ASSUME GatewayInv, NEW l \in Leases, LeaseClose(l)
  PROVE  /\ RegistryNext
         /\ l \in open /\ open' = open \ {l}
         /\ gated' = gated \ {l}
         /\ holds' = [holds EXCEPT ![l] = NoNode]
         /\ UNCHANGED <<engineClosed, apply>>
BY DEF RegistryNext, LeaseClose, DialersClose, applyVars

\* The lease of a failed dial is closed.
LEMMA CloseFailedLeaseStep ==
  ASSUME GatewayInv, NEW s \in Sessions, CloseFailedLease(s)
  PROVE  StepOK
<1>1. s \in Leases /\ s \notin Nodes
  BY GatewayAssumption
<1>2. /\ dial[s] = "failed" /\ dial' = [dial EXCEPT ![s] = "choosing"]
      /\ UNCHANGED <<conn, forwarded, todo, halfOpen, pinned, late, probe, refresh>>
      /\ LeaseClose(s)
  BY DEF CloseFailedLease, workVars
<1>3. ProbeLeases'
  BY <1>1, <1>2, CloseCall, GatewayAssumption
     DEF ProbeLeases, GatewayInv, LocalInv, RegistryInv, TypeOK
<1>4. GatewayTypeOK' /\ OwnersInv' /\ LateInv' /\ DialModes'
  BY <1>1, <1>2, CloseCall
     DEF GatewayTypeOK, OwnersInv, LateInv, DialModes, GatewayInv, LocalInv, Unlocked
<1> QED BY <1>1, <1>2, <1>3, <1>4, CloseCall DEF StepOK, LocalInv, GatewayInv

\* A session is released.
LEMMA ReleaseStep ==
  ASSUME GatewayInv, NEW s \in Sessions, Release(s)
  PROVE  StepOK
<1>1. s \in Leases /\ s \notin Nodes
  BY GatewayAssumption
<1>2. /\ dial[s] \in {"none", "spawned"}
      /\ pinned' = pinned \ {s}
      /\ conn' = [conn EXCEPT ![s] = "closed"]
      /\ UNCHANGED <<dial, forwarded, todo, halfOpen, late, probe, refresh>>
  BY DEF Release, workVars
<1>3. CASE s \in pinned
  <2>1. LeaseClose(s)
    BY <1>3 DEF Release
  <2>2. ProbeLeases'
    BY <1>1, <1>2, <2>1, CloseCall, GatewayAssumption
       DEF ProbeLeases, GatewayInv, LocalInv, RegistryInv, TypeOK
  <2>3. GatewayTypeOK' /\ OwnersInv' /\ LateInv' /\ DialModes'
    BY <1>1, <1>2, <2>1, CloseCall
       DEF GatewayTypeOK, OwnersInv, LateInv, DialModes, GatewayInv, LocalInv, Unlocked
  <2> QED BY <1>1, <2>1, <2>2, <2>3, CloseCall DEF StepOK, LocalInv, GatewayInv
<1>4. CASE s \notin pinned
  <2>1. UNCHANGED registryVars /\ pinned' = pinned
    BY <1>2, <1>4 DEF Release
  <2> QED BY <1>2, <2>1, RegistryUnchanged
          DEF StepOK, GatewayInv, LocalInv, GatewayTypeOK, OwnersInv, LateInv,
              DialModes, ProbeLeases, Unlocked
<1> QED BY <1>3, <1>4

-----------------------------------------------------------------------------
(* Refresh and probe rounds *)

\* A refresh begins, builds, fails or finishes an Apply, or time passes.
LEMMA RefreshStep ==
  ASSUME GatewayInv,
         \/ \E snapshot \in Snapshots : RefreshApply(snapshot)
         \/ \E n \in Nodes : RefreshBuild(n) \/ IntervalElapses(n)
         \/ RefreshFails \/ RefreshApplied
  PROVE  StepOK
<1>1. UNCHANGED <<conn, dial, forwarded, todo, halfOpen, pinned, late, probe>>
  BY DEF RefreshApply, RefreshBuild, IntervalElapses, RefreshFails, RefreshApplied,
         sessionVars, workVars
<1>2. RegistryNext
  BY DEF RegistryNext, RefreshApply, RefreshBuild, IntervalElapses, RefreshFails,
         RefreshApplied
<1>3. UNCHANGED <<open, gated, holds, engineClosed>>
  BY DEF RefreshApply, RefreshBuild, IntervalElapses, RefreshFails, RefreshApplied,
         ApplyBegin, ApplyBuild, ProbeIntervalElapses, ApplyFails, ApplyFinish,
         EngineBuild, DialersClose, leaseVars, engineVars
<1>4. /\ refresh' \in {"idle", "applying", "applied", "probing"}
      /\ refresh' = "applying" <=> apply' # "idle"
  <2>1. ASSUME NEW snapshot \in Snapshots, RefreshApply(snapshot)
        PROVE  refresh' = "applying" /\ apply' = "building"
    BY <2>1 DEF RefreshApply, ApplyBegin
  <2>2. ASSUME NEW n \in Nodes, RefreshBuild(n) \/ IntervalElapses(n)
        PROVE  refresh' = refresh /\ apply' = apply
    BY <2>2 DEF RefreshBuild, IntervalElapses, ApplyBuild, ProbeIntervalElapses,
                workVars, applyVars
  <2>3. ASSUME RefreshFails \/ RefreshApplied
        PROVE  refresh' \in {"idle", "applied"} /\ apply' = "idle"
    BY <2>3 DEF RefreshFails, RefreshApplied, ApplyFails, ApplyFinish
  <2>4. /\ refresh \in {"idle", "applying", "applied", "probing"}
        /\ refresh = "applying" <=> apply # "idle"
    BY DEF GatewayInv, LocalInv, GatewayTypeOK, Unlocked
  <2>5. CASE \E snapshot \in Snapshots : RefreshApply(snapshot)
    BY <2>1, <2>5
  <2>6. CASE \E n \in Nodes : RefreshBuild(n) \/ IntervalElapses(n)
    BY <2>2, <2>4, <2>6
  <2>7. CASE RefreshFails \/ RefreshApplied
    BY <2>3, <2>7
  <2> QED BY <2>5, <2>6, <2>7
<1> QED BY <1>1, <1>2, <1>3, <1>4
        DEF StepOK, GatewayInv, LocalInv, GatewayTypeOK, OwnersInv, LateInv,
            DialModes, ProbeLeases, Unlocked

\* What leasing the due nodes, each under its own name, does to the leases.
LEMMA ProbeDueCall ==
  ASSUME GatewayInv, ProbeDue([n \in Nodes |-> n])
  PROVE  /\ RegistryNext
         /\ DueNodes \subseteq Nodes
         /\ open' = open \cup DueNodes
         /\ gated' = gated \cup DueNodes
         /\ holds' = [l \in Leases |-> IF l \in DueNodes THEN l ELSE holds[l]]
         /\ UNCHANGED <<engineClosed, apply>>
<1> DEFINE leaseOf == [n \in Nodes |-> n]
           new == {leaseOf[n] : n \in DueNodes}
           nodeOf(l) == CHOOSE n \in DueNodes : leaseOf[n] = l
<1>1. DueNodes \subseteq Nodes
  BY DEF DueNodes, GatewayInv, RegistryInv, TypeOK
<1>2. leaseOf \in LeaseChoices
  BY <1>1, GatewayAssumption DEF LeaseChoices
<1>3. RegistryNext
  BY <1>2 DEF RegistryNext
<1>4. new = DueNodes
  BY <1>1
<1>5. \A l \in DueNodes : nodeOf(l) = l
  BY <1>1
<1>6. /\ open' = open \cup new
      /\ gated' = gated \cup new
      /\ holds' = [l \in Leases |-> IF l \in new THEN nodeOf(l) ELSE holds[l]]
      /\ UNCHANGED <<engineClosed, apply>>
  BY DEF ProbeDue, engineVars, applyVars
<1> HIDE DEF new, nodeOf
<1>7. holds' = [l \in Leases |-> IF l \in DueNodes THEN l ELSE holds[l]]
  BY <1>4, <1>5, <1>6
<1> QED BY <1>1, <1>3, <1>4, <1>6, <1>7

\* A probe round starts.
LEMMA StartProbesStep ==
  ASSUME GatewayInv, StartProbes
  PROVE  StepOK
<1>1. /\ refresh \in {"idle", "applied"} /\ refresh' = "probing"
      /\ ProbeDue([n \in Nodes |-> n])
      /\ probe' = [n \in Nodes |-> IF n \in DueNodes THEN "running" ELSE probe[n]]
      /\ UNCHANGED <<conn, dial, forwarded, todo, halfOpen, pinned, late>>
  BY DEF StartProbes, sessionVars
<1>2. ProbeLeases'
  BY <1>1, ProbeDueCall, GatewayAssumption DEF ProbeLeases, GatewayInv, LocalInv
<1>3. GatewayTypeOK' /\ DialModes'
  BY <1>1, ProbeDueCall DEF GatewayTypeOK, DialModes, GatewayInv, LocalInv, Unlocked
<1>4. OwnersInv' /\ LateInv'
  BY <1>1, ProbeDueCall DEF OwnersInv, LateInv, GatewayInv, LocalInv, GatewayTypeOK
<1> QED BY <1>1, <1>2, <1>3, <1>4, ProbeDueCall DEF StepOK, LocalInv, GatewayInv

\* A probe marks its node.
LEMMA ProbeMarksStep ==
  ASSUME GatewayInv, NEW n \in Nodes, ProbeMarks(n)
  PROVE  StepOK
<1>1. /\ MarkFailure(n) \/ MarkSuccess(n)
      /\ probe[n] = "running" /\ probe' = [probe EXCEPT ![n] = "marked"]
      /\ UNCHANGED <<conn, dial, forwarded, todo, halfOpen, pinned, late, refresh>>
  BY DEF ProbeMarks, sessionVars
<1> QED BY <1>1, MarkCall
        DEF StepOK, GatewayInv, LocalInv, GatewayTypeOK, OwnersInv, LateInv,
            DialModes, ProbeLeases, Unlocked

\* A probe closes its lease.
LEMMA ProbeClosesStep ==
  ASSUME GatewayInv, NEW n \in Nodes, ProbeCloses(n)
  PROVE  StepOK
<1>1. n \in Leases /\ n \notin Sessions
  BY GatewayAssumption
<1>2. /\ LeaseClose(n) /\ probe[n] = "marked" /\ probe' = [probe EXCEPT ![n] = "none"]
      /\ UNCHANGED <<conn, dial, forwarded, todo, halfOpen, pinned, late, refresh>>
  BY DEF ProbeCloses, sessionVars
<1>3. ProbeLeases'
  BY <1>1, <1>2, CloseCall, GatewayAssumption
     DEF ProbeLeases, GatewayInv, LocalInv, RegistryInv, TypeOK, GatewayTypeOK
<1>4. GatewayTypeOK' /\ OwnersInv' /\ LateInv' /\ DialModes'
  BY <1>1, <1>2, CloseCall
     DEF GatewayTypeOK, OwnersInv, LateInv, DialModes, GatewayInv, LocalInv, Unlocked
<1> QED BY <1>1, <1>2, <1>3, <1>4, CloseCall DEF StepOK, LocalInv, GatewayInv

-----------------------------------------------------------------------------
(* Theorems *)

\* Every step of the gateway is a step of the registry, or leaves it alone,
\* and keeps the local invariant.
LEMMA EveryStepOK ==
  ASSUME GatewayInv, [GatewayNext]_gatewayVars
  PROVE  StepOK
<1>1. ASSUME NEW s \in Sessions, SessionNext(s) PROVE StepOK
  BY <1>1, ConnectionStep, EnterStep, QuietDialStep, MarkingDialStep,
     TryCandidateStep, CloseFailedLeaseStep, ReleaseStep DEF SessionNext
<1>2. CASE WorkNext
  BY <1>2, RefreshStep, StartProbesStep, ProbeMarksStep, ProbeClosesStep,
     ProbesDoneStep DEF WorkNext
<1>3. CASE UNCHANGED gatewayVars
  <2>1. UNCHANGED <<registryVars, conn, dial, forwarded, todo, halfOpen, pinned, late, probe, refresh>>
    BY <1>3 DEF gatewayVars, sessionVars, workVars
  <2> QED BY <2>1, RegistryUnchanged
          DEF StepOK, GatewayInv, LocalInv, GatewayTypeOK, OwnersInv, LateInv,
              DialModes, ProbeLeases, Unlocked
<1> QED BY <1>1, <1>2, <1>3 DEF GatewayNext

\* The gateway starts with an empty registry, no connection and no probe.
LEMMA GatewayInitInv == GatewayInit => GatewayInv
<1> SUFFICES ASSUME GatewayInit PROVE GatewayInv
  OBVIOUS
<1>1. RegistryInv
  BY InitInv DEF GatewayInit
<1>2. /\ open = {} /\ pinned = {} /\ ~engineClosed /\ apply = "idle" /\ refresh = "idle"
      /\ \A s \in Sessions : dial[s] = "none"
      /\ \A n \in Nodes : probe[n] = "none"
  BY DEF GatewayInit, RegistryInit, NewRegistry, EngineInit
<1>3. GatewayTypeOK
  BY <1>2 DEF GatewayInit, GatewayTypeOK, Unlocked
<1> QED BY <1>1, <1>2, <1>3
        DEF GatewayInv, LocalInv, OwnersInv, LateInv, DialModes, ProbeLeases

\* The inductive invariant of the gateway: the registry's invariant together
\* with what the sessions and the probes know about their leases.
THEOREM GatewayInvariance == GatewaySpec => []GatewayInv
<1>1. GatewayInv /\ [GatewayNext]_gatewayVars => GatewayInv'
  BY EveryStepOK, NextInv DEF StepOK, GatewayInv
<1> QED BY <1>1, GatewayInitInv, PTL DEF GatewaySpec

\* Connections, refreshes and probes use the registry as it is meant to be
\* used: every behaviour of the gateway is a behaviour of the registry, so
\* the registry's theorems hold of the running gateway.
THEOREM GatewayImplementsRegistry == GatewaySpec => RegistrySpec
<1>1. GatewayInit => RegistryInit
  BY DEF GatewayInit
<1>2. GatewayInv /\ [GatewayNext]_gatewayVars => [RegistryNext]_registryVars
  BY EveryStepOK DEF StepOK
<1> QED BY <1>1, <1>2, GatewayInvariance, PTL DEF GatewaySpec, RegistrySpec

\* Connections, probes and refreshes therefore share outbounds the way
\* LeasePool says: what a connection was lent lasts as long as it needs it,
\* and one of them at a time tries a node that is not available.
THEOREM GatewayImplementsLeasePool == GatewaySpec => ImplementsLeasePool
BY GatewayImplementsRegistry, RegistryImplementsLeasePool

\* Every variable of the sessions and of the work has its type, and Apply
\* runs exactly under refreshMu.
THEOREM GatewayTypeCorrect == GatewaySpec => []GatewayTypeOK
<1>1. GatewayInv => GatewayTypeOK
  BY DEF GatewayInv, LocalInv
<1> QED BY <1>1, GatewayInvariance, PTL

\* Every open lease has a dial, a connection or a probe that will close it
\* (session.dial, session.release, probeDue), but for what a dial selects that
\* entered session.dial after the release of its session.
THEOREM GatewayLeasesHaveOwners == GatewaySpec => []LeasesHaveOwners
<1>1. GatewayInv => LeasesHaveOwners
  BY DEF GatewayInv, LocalInv, GatewayTypeOK, OwnersInv, LateInv, LeasesHaveOwners
<1> QED BY <1>1, GatewayInvariance, PTL

\* At most one half-open dial or probe of a node runs at a time.
THEOREM GatewayOneHalfOpen == GatewaySpec => []OneHalfOpenAttempt
<1>1. ASSUME GatewayInv PROVE OneHalfOpenAttempt
  <2> SUFFICES ASSUME NEW n \in Nodes
               PROVE  Cardinality({s \in Sessions : /\ dial[s] \in {"dialing", "failed"}
                                                     /\ holds[s] = n /\ s \in gated}
                                  \cup {m \in {n} : probe[m] # "none"}) <= 1
    BY DEF OneHalfOpenAttempt
  <2> DEFINE A == {s \in Sessions : /\ dial[s] \in {"dialing", "failed"}
                                    /\ holds[s] = n /\ s \in gated}
                  \cup {m \in {n} : probe[m] # "none"}
  <2>1. A \subseteq LeasesOn(n) \cap gated
    BY <1>1 DEF GatewayInv, LocalInv, OwnersInv, ProbeLeases, LeasesOn
  <2>2. \A a, b \in A : a = b
    BY <1>1, <2>1 DEF GatewayInv, RegistryInv, LeaseInv, ProbingIsOneGatedLease
  <2> HIDE DEF A
  <2>3. A = {} => Cardinality(A) = 0
    BY FS_EmptySet
  <2>4. ASSUME NEW a \in A PROVE Cardinality(A) = 1
    <3>1. A = {a}
      BY <2>2, <2>4
    <3> QED BY <3>1, FS_Singleton
  <2>5. Cardinality(A) <= 1
    BY <2>3, <2>4
  <2> QED BY <2>5 DEF A
<1> QED BY <1>1, GatewayInvariance, PTL

\* A connection keeps the outbound it was given until it is released.
THEOREM GatewayPinnedOutboundStays == GatewaySpec => []PinnedOutboundStays
<1>1. ASSUME GatewayInv PROVE PinnedOutboundStays
  <2>1. \A s \in pinned : s \in open
    BY <1>1 DEF GatewayInv, LocalInv, OwnersInv, GatewayTypeOK
  <2>2. \A l \in open : holds[l] \in nodes /\ via[l] = dialer[holds[l]]
    BY <1>1 DEF GatewayInv, RegistryInv, LeaseInv, LeaseNodes
  <2>3. \A n \in nodes : dialer[n] \in live
    BY <1>1 DEF GatewayInv, LocalInv, RegistryInv, EngineInv, NoOutboundLeaked
  <2> QED BY <2>1, <2>2, <2>3 DEF PinnedOutboundStays
<1> QED BY <1>1, GatewayInvariance, PTL

\* A session or a probe never gets a lease on a node that the last refresh
\* dropped, however old the snapshot it works from.
THEOREM GatewayNoLeaseOnRemoved == GatewaySpec => NoLeaseOnRemoved
<1>1. ASSUME GatewayInv, [GatewayNext]_gatewayVars, NEW l \in open' \ open
      PROVE  holds'[l] \in order
  <2>1. [RegistryNext]_registryVars
    BY <1>1, EveryStepOK DEF StepOK
  <2>2. open' # open
    BY <1>1
  <2>3. order = nodes \ removed /\ holds \in [Leases -> Nodes \cup {NoNode}]
    BY <1>1 DEF GatewayInv, RegistryInv, PoolInv, OrderAndDraining, TypeOK
  <2>4. \/ \E k \in Leases, n \in Nodes, allow \in BOOLEAN : Acquire(k, n, allow)
        \/ \E leaseOf \in LeaseChoices : ProbeDue(leaseOf)
        \/ \E k \in Leases : LeaseClose(k)
    BY <2>1, <2>2
       DEF RegistryNext, ApplyBegin, ApplyBuild, ApplyFails, ApplyFinish, MarkFailure,
           MarkSuccess, ProbeIntervalElapses, EngineClose, registryVars, leaseVars
  <2>5. ASSUME NEW k \in Leases, NEW n \in Nodes, NEW allow \in BOOLEAN, Acquire(k, n, allow)
        PROVE  holds'[l] \in order
    BY <1>1, <2>3, <2>5 DEF Acquire, CanAcquire
  <2>6. ASSUME NEW leaseOf \in LeaseChoices, ProbeDue(leaseOf)
        PROVE  holds'[l] \in order
    <3> DEFINE new == {leaseOf[n] : n \in DueNodes}
               nodeOf(k) == CHOOSE n \in DueNodes : leaseOf[n] = k
    <3>1. /\ open' = open \cup new
          /\ holds' = [k \in Leases |-> IF k \in new THEN nodeOf(k) ELSE holds[k]]
      BY <2>6 DEF ProbeDue
    <3>2. l \in new
      BY <1>1, <3>1
    <3>3. DueNodes \subseteq order /\ DueNodes \subseteq Nodes
      BY <1>1 DEF DueNodes, GatewayInv, RegistryInv, TypeOK
    <3>4. l \in Leases
      BY <3>2, <3>3 DEF LeaseChoices
    <3>5. nodeOf(l) \in DueNodes
      BY <3>2
    <3> HIDE DEF new, nodeOf
    <3> QED BY <3>1, <3>2, <3>3, <3>4, <3>5
  <2>7. ASSUME NEW k \in Leases, LeaseClose(k) PROVE holds'[l] \in order
    BY <1>1, <2>7 DEF LeaseClose
  <2> QED BY <2>4, <2>5, <2>6, <2>7
<1>2. GatewayInv /\ [GatewayNext]_gatewayVars
        => [\A l \in open' \ open : holds'[l] \in order]_gatewayVars
  BY <1>1
<1> QED BY <1>2, GatewayInvariance, PTL DEF GatewaySpec, NoLeaseOnRemoved
=============================================================================
