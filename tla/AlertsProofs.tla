---------------------------- MODULE AlertsProofs ----------------------------
(***************************************************************************)
(* Proofs about the alert worker for any sources, times and number of      *)
(* episodes: however late a message is delivered, there is at most one per *)
(* episode.                                                                *)
(*                                                                         *)
(* The two properties are not inductive: a message under way, or a failure *)
(* not reported yet, must belong to an episode nobody was told of.  For    *)
(* the node count the sample may be stale in the other direction as well:  *)
(* it rearms the alert although the pool is low again by now.              *)
(***************************************************************************)
EXTENDS Alerts, TLAPS

\* A source that fails and was not reported, or has a message under way, is in
\* an episode without a message.
SourceInv ==
    \A s \in Sources :
        /\ alerts[s] <= episodes[s]
        /\ s \in failing \ alertedSources => alerts[s] < episodes[s]
        /\ step = "sources" /\ s \in toSend => alerts[s] < episodes[s]

\* The same for the pool; and one that got low since the sample showed enough
\* nodes is in a period without a message.
LowInv ==
    /\ lowAlerts <= lowPeriods
    /\ low /\ ~lowNodesAlerted => lowAlerts < lowPeriods
    /\ step = "sources" /\ seen.low /\ ~lowNodesAlerted => lowAlerts < lowPeriods
    /\ step = "sources" /\ ~seen.low /\ low => lowAlerts < lowPeriods

\* An expiry message under way is about a time that is near and is not the last
\* one its source was notified of.
NewsInv ==
    step = "expiry" => \A s \in toSend : /\ seen.expires[s] \in near
                                         /\ expiryAlerted[s] # seen.expires[s]

AlertsInv == AlertsTypeOK /\ SourceInv /\ LowInv /\ NewsInv

\* The invariant holds of a new monitor.
LEMMA AlertsInitInv == AlertsInit => AlertsInv
<1> SUFFICES ASSUME AlertsInit PROVE AlertsInv
  OBVIOUS
<1>1. AlertsTypeOK
  BY DEF AlertsInit, AlertsTypeOK, Expiries, Sampled
<1> QED BY <1>1 DEF AlertsInit, AlertsInv, SourceInv, LowInv, NewsInv

-----------------------------------------------------------------------------
(* What the worker observes *)

\* A refresh opens an episode for each source that begins to fail.
LEMMA PublishInv ==
  ASSUME AlertsInv, NEW errs \in SUBSET Sources, NEW times \in Expiries,
         PublishResults(errs, times), ready' \in BOOLEAN
  PROVE  AlertsInv'
<1> USE DEF PublishResults, monitorVars, sentVars
<1>1. AlertsTypeOK'
  BY DEF AlertsInv, AlertsTypeOK
<1>2. SourceInv'
  <2> SUFFICES ASSUME NEW s \in Sources
               PROVE  /\ alerts[s] <= episodes'[s]
                      /\ s \in errs \ alertedSources => alerts[s] < episodes'[s]
                      /\ step = "sources" /\ s \in toSend => alerts[s] < episodes'[s]
    BY DEF SourceInv
  <2>1. alerts[s] \in Nat /\ episodes[s] \in Nat
    BY DEF AlertsInv, AlertsTypeOK
  <2>2. episodes'[s] = IF s \in errs \ failing THEN episodes[s] + 1 ELSE episodes[s]
    OBVIOUS
  <2>3. /\ alerts[s] <= episodes[s]
        /\ s \in failing \ alertedSources => alerts[s] < episodes[s]
        /\ step = "sources" /\ s \in toSend => alerts[s] < episodes[s]
    BY DEF AlertsInv, SourceInv
  <2> QED BY <2>1, <2>2, <2>3
<1>3. LowInv' /\ NewsInv'
  BY DEF AlertsInv, LowInv, NewsInv
<1> QED BY <1>1, <1>2, <1>3 DEF AlertsInv

\* Probes and dials open a low period; time changes what is near.
LEMMA ObservedInv ==
  ASSUME AlertsInv, HealthChanges \/ \E t \in Times : TimePasses(t)
  PROVE  AlertsInv'
<1> USE DEF monitorVars, sentVars
<1>1. CASE HealthChanges
  <2> USE <1>1 DEF HealthChanges
  <2>1. AlertsTypeOK' /\ SourceInv' /\ NewsInv'
    BY DEF AlertsInv, AlertsTypeOK, SourceInv, NewsInv
  <2>2. LowInv'
    BY DEF AlertsInv, AlertsTypeOK, LowInv
  <2> QED BY <2>1, <2>2 DEF AlertsInv
<1>2. ASSUME NEW t \in Times, TimePasses(t) PROVE AlertsInv'
  BY <1>2 DEF TimePasses, AlertsInv, AlertsTypeOK, SourceInv, LowInv, NewsInv
<1> QED BY <1>1, <1>2

-----------------------------------------------------------------------------
(* The worker *)

\* A sample rearms what is good, and takes up what is bad and not reported.
LEMMA SampleInv ==
  ASSUME AlertsInv, Sample
  PROVE  AlertsInv'
<1> USE DEF Sample, Sampled, Rearmed, NeedsAlert, stateVars, sentVars
<1>1. seen'.failing = failing /\ seen'.low = low /\ seen'.expires = expires
  OBVIOUS
<1>2. AlertsTypeOK'
  BY <1>1 DEF AlertsInv, AlertsTypeOK
<1>3. SourceInv'
  BY DEF AlertsInv, AlertsTypeOK, SourceInv
<1>4. LowInv' /\ NewsInv'
  BY <1>1 DEF AlertsInv, AlertsTypeOK, LowInv, NewsInv
<1> QED BY <1>2, <1>3, <1>4 DEF AlertsInv

\* A message about a source is delivered, or lost and tried in a later round.
LEMMA SourceAlertInv ==
  ASSUME AlertsInv, NEW s \in Sources, SourceAlertDelivered(s) \/ SourceAlertFails(s)
  PROVE  AlertsInv'
<1> USE DEF stateVars, monitorVars, sentVars
<1>1. CASE SourceAlertDelivered(s)
  <2> USE <1>1 DEF SourceAlertDelivered
  <2>1. AlertsTypeOK'
    BY DEF AlertsInv, AlertsTypeOK
  <2>2. SourceInv'
    <3> SUFFICES ASSUME NEW r \in Sources
                 PROVE  /\ alerts'[r] <= episodes[r]
                        /\ r \in failing \ alertedSources' => alerts'[r] < episodes[r]
                        /\ r \in toSend' => alerts'[r] < episodes[r]
      BY DEF SourceInv
    <3>1. alerts[r] \in Nat /\ episodes[r] \in Nat
      BY DEF AlertsInv, AlertsTypeOK
    <3>2. alerts'[r] = IF r = s THEN alerts[r] + 1 ELSE alerts[r]
      BY DEF AlertsInv, AlertsTypeOK
    <3>3. /\ alerts[r] <= episodes[r]
          /\ r \in failing \ alertedSources => alerts[r] < episodes[r]
          /\ r \in toSend => alerts[r] < episodes[r]
      BY DEF AlertsInv, SourceInv
    <3> QED BY <3>1, <3>2, <3>3
  <2>3. LowInv' /\ NewsInv'
    BY DEF AlertsInv, LowInv, NewsInv
  <2> QED BY <2>1, <2>2, <2>3 DEF AlertsInv
<1>2. CASE SourceAlertFails(s)
  BY <1>2 DEF SourceAlertFails, AlertsInv, AlertsTypeOK, SourceInv, LowInv, NewsInv
<1> QED BY <1>1, <1>2

\* Evaluate's second half: a stale sample may rearm the alert of a pool that is
\* low again, but only in a period of its own.
LEMMA LowStepInv ==
  ASSUME AlertsInv, LowNotDue \/ LowAlertDelivered \/ LowAlertFails
  PROVE  AlertsInv'
<1> USE DEF LowStep, LowDue, stateVars
<1>0. LowStep
  BY DEF LowNotDue, LowAlertDelivered, LowAlertFails
<1>1. SourceInv' /\ NewsInv'
  BY <1>0 DEF AlertsInv, SourceInv, NewsInv, ExpiryDue
<1>2. ExpiryDue \subseteq Sources
  BY DEF ExpiryDue
<1>3. CASE LowNotDue
  <2>1. AlertsTypeOK'
    BY <1>2, <1>3 DEF LowNotDue, AlertsInv, AlertsTypeOK
  <2>2. LowInv'
    BY <1>3 DEF LowNotDue, AlertsInv, AlertsTypeOK, LowInv
  <2> QED BY <1>1, <2>1, <2>2 DEF AlertsInv
<1>4. CASE LowAlertDelivered
  <2>1. AlertsTypeOK'
    BY <1>2, <1>4 DEF LowAlertDelivered, AlertsInv, AlertsTypeOK
  <2>2. LowInv'
    BY <1>4 DEF LowAlertDelivered, AlertsInv, AlertsTypeOK, LowInv
  <2> QED BY <1>1, <2>1, <2>2 DEF AlertsInv
<1>5. CASE LowAlertFails
  <2>1. AlertsTypeOK'
    BY <1>2, <1>5 DEF LowAlertFails, AlertsInv, AlertsTypeOK
  <2>2. LowInv'
    BY <1>5 DEF LowAlertFails, AlertsInv, AlertsTypeOK, LowInv
  <2> QED BY <1>1, <2>1, <2>2 DEF AlertsInv
<1> QED BY <1>3, <1>4, <1>5

\* EvaluateExpiry remembers the expiry it reported; nothing else depends on it.
LEMMA ExpiryInv ==
  ASSUME AlertsInv,
         RoundEnds \/ \E s \in Sources : ExpiryAlertDelivered(s) \/ ExpiryAlertFails(s)
  PROVE  AlertsInv'
<1> USE DEF stateVars, monitorVars, sentVars
<1>1. CASE RoundEnds
  BY <1>1 DEF RoundEnds, AlertsInv, AlertsTypeOK, SourceInv, LowInv, NewsInv
<1>2. ASSUME NEW s \in Sources, ExpiryAlertDelivered(s) PROVE AlertsInv'
  <2> USE <1>2 DEF ExpiryAlertDelivered
  <2>1. seen.expires[s] \in Times \cup {Never}
    BY DEF AlertsInv, AlertsTypeOK, Expiries
  <2>2. expiryAlerted' \in Expiries
    BY <2>1 DEF AlertsInv, AlertsTypeOK, Expiries
  <2>3. expiryRepeated' \in BOOLEAN
    OBVIOUS
  <2>4. AlertsTypeOK'
    BY <2>2, <2>3 DEF AlertsInv, AlertsTypeOK
  <2>5. NewsInv'
    BY DEF AlertsInv, AlertsTypeOK, Expiries, NewsInv
  <2> QED BY <2>4, <2>5 DEF AlertsInv, SourceInv, LowInv
<1>3. ASSUME NEW s \in Sources, ExpiryAlertFails(s) PROVE AlertsInv'
  BY <1>3 DEF ExpiryAlertFails, AlertsInv, AlertsTypeOK, SourceInv, LowInv, NewsInv
<1> QED BY <1>1, <1>2, <1>3

-----------------------------------------------------------------------------
(* The theorems *)

\* Every step of the worker and of what it observes preserves the invariant.
LEMMA AlertsNextInv == AlertsInv /\ [AlertsNext]_alertVars => AlertsInv'
<1> SUFFICES ASSUME AlertsInv, [AlertsNext]_alertVars PROVE AlertsInv'
  OBVIOUS
<1>1. CASE RefreshReturns
  <2>1. PICK errs \in SUBSET Sources, times \in Expiries :
           Refreshed(errs, times) \/ RefreshedWithoutApply(errs, times)
    BY <1>1 DEF RefreshReturns
  <2>2. PublishResults(errs, times) /\ ready' \in BOOLEAN
    BY <2>1 DEF Refreshed, RefreshedWithoutApply, AlertsInv, AlertsTypeOK
  <2> QED BY <2>2, PublishInv
<1>2. CASE WorkerNext
  BY <1>2, SampleInv, SourceAlertInv, LowStepInv, ExpiryInv DEF WorkerNext
<1>3. CASE UNCHANGED alertVars
  BY <1>3 DEF alertVars, stateVars, monitorVars, sentVars, AlertsInv, AlertsTypeOK,
              SourceInv, LowInv, NewsInv
<1> QED BY <1>1, <1>2, <1>3, ObservedInv DEF AlertsNext

\* The inductive invariant of the alert worker.
THEOREM AlertsInvariance == AlertsSpec => []AlertsInv
BY AlertsInitInv, AlertsNextInv, PTL DEF AlertsSpec

\* Type correctness, and messages are sent only for sources that the sample
\* shows failing and that were not reported.
THEOREM AlertsTypeCorrect == AlertsSpec => []AlertsTypeOK
<1>1. AlertsInv => AlertsTypeOK
  BY DEF AlertsInv
<1> QED BY <1>1, AlertsInvariance, PTL

\* A source that stays failed is reported at most once, per time it failed.
THEOREM AlertsOncePerEpisode == AlertsSpec => []AlertsPerEpisode
<1>1. AlertsInv => AlertsPerEpisode
  BY DEF AlertsInv, SourceInv, AlertsPerEpisode
<1> QED BY <1>1, AlertsInvariance, PTL

\* A pool with few nodes is reported at most once per low period.
THEOREM AlertsOncePerLowPeriod == AlertsSpec => []LowAlertsPerPeriod
<1>1. AlertsInv => LowAlertsPerPeriod
  BY DEF AlertsInv, LowInv, LowAlertsPerPeriod
<1> QED BY <1>1, AlertsInvariance, PTL

\* What EvaluateExpiry does keep of "once per source/expiry": every message it
\* delivers, however late, is about a known time that is near, and never about
\* the one its source was notified of last.
ExpiryIsNews ==
    [][\A s \in Sources : ExpiryAlertDelivered(s) =>
          /\ seen.expires[s] \in near /\ seen.expires[s] # Never
          /\ seen.expires[s] # expiryAlerted[s]
          /\ expiryAlerted'[s] = seen.expires[s]]_alertVars

\* No source is notified of the same expiry twice in a row.
THEOREM AlertsExpiryIsNews == AlertsSpec => ExpiryIsNews
<1> DEFINE News ==
      \A s \in Sources : ExpiryAlertDelivered(s) =>
          /\ seen.expires[s] \in near /\ seen.expires[s] # Never
          /\ seen.expires[s] # expiryAlerted[s]
          /\ expiryAlerted'[s] = seen.expires[s]
<1>1. AlertsInv => News
  BY AlertsAssumption DEF AlertsInv, NewsInv, AlertsTypeOK, Expiries, ExpiryAlertDelivered
<1> QED BY <1>1, AlertsInvariance, PTL DEF AlertsSpec, ExpiryIsNews
=============================================================================
