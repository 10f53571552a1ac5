------------------------------- MODULE Alerts -------------------------------
(***************************************************************************)
(* The alert worker: App.alertLoop (internal/app/app.go) and the Monitor   *)
(* it drives (internal/alert/monitor.go), with a notification service that *)
(* may fail any delivery.                                                  *)
(*                                                                         *)
(* The worker samples the refresh results and the pool under refreshMu and *)
(* then delivers without it, one message after the other, while refreshes, *)
(* probes and dials go on: what it reports may be stale.  A refresh holds  *)
(* refreshMu from start to end, so for the worker it is one step.          *)
(*                                                                         *)
(* Abstractions: a sample holds what Evaluate and EvaluateExpiry decide    *)
(* on: the sources with an error, the expiry times, and whether            *)
(* stats.Healthy is below the threshold.  Sources are visited in any       *)
(* order.  "Delivered" is what Send reports.                               *)
(***************************************************************************)
EXTENDS Naturals

CONSTANTS
    Sources,      \* source ids
    Times,        \* expiry times
    Never,        \* the zero time
    MaxEpisodes   \* bound: times a source, or the pool, goes bad

ASSUME AlertsAssumption == Never \notin Times /\ MaxEpisodes \in Nat \ {0}

VARIABLES
    failing,      \* keys of SourceErrors in the published snapshot
    expires,      \* ExpiresAt in the published snapshot
    low,          \* stats.Healthy < threshold
    near,         \* times that are past or at most seven days away
    ready,        \* lastRefresh is set
    refreshed,    \* history: a refresh has returned
    alertedSources, lowNodesAlerted, expiryAlerted,   \* Monitor
    step,         \* the worker: "wait", "sources" or "expiry"
    seen,         \* its sample
    toSend,       \* sources the current loop has a message for
    episodes, lowPeriods,    \* history: times a source failed, the pool got low
    alerts, lowAlerts,       \* history: messages delivered
    expirySent, expiryRepeated  \* history: expiry messages, and whether one
                                \* was delivered twice

stateVars == <<failing, expires, low, near, ready, refreshed, episodes, lowPeriods>>
monitorVars == <<alertedSources, lowNodesAlerted, expiryAlerted>>
sentVars == <<alerts, lowAlerts, expirySent, expiryRepeated>>
alertVars == <<stateVars, monitorVars, step, seen, toSend, sentVars>>

Expiries == [Sources -> Times \cup {Never}]
Sampled == [failing |-> failing, low |-> low, expires |-> expires]

\* NewMonitor; no node is healthy yet.
AlertsInit ==
    /\ failing = {} /\ expires \in Expiries
    /\ low = TRUE /\ near = {} /\ ready = FALSE /\ refreshed = FALSE
    /\ alertedSources = {} /\ lowNodesAlerted = FALSE
    /\ expiryAlerted = [s \in Sources |-> Never]
    /\ step = "wait" /\ toSend = {}
    /\ seen = Sampled
    /\ episodes = [s \in Sources |-> 0] /\ alerts = [s \in Sources |-> 0]
    /\ lowPeriods = 1 /\ lowAlerts = 0
    /\ expirySent = {} /\ expiryRepeated = FALSE

-----------------------------------------------------------------------------
(* What the worker observes *)

\* A refresh publishes the sources that failed and the expiries it knows.
PublishResults(errs, times) ==
    /\ \A s \in errs \ failing : episodes[s] < MaxEpisodes
    /\ failing' = errs
    /\ expires' = times
    /\ episodes' = [s \in Sources |-> IF s \in errs \ failing THEN episodes[s] + 1
                                                              ELSE episodes[s]]
    /\ refreshed' = TRUE
    /\ UNCHANGED <<low, near, lowPeriods, monitorVars, step, seen, toSend, sentVars>>

\* Refresh returns after probing the applied pool (or with nothing to apply).
Refreshed(errs, times) == PublishResults(errs, times) /\ ready' = TRUE

\* Apply returns an error: Refresh returns early.
RefreshedWithoutApply(errs, times) == PublishResults(errs, times) /\ UNCHANGED ready

\* Probes and dials change how many nodes are healthy.
HealthChanges ==
    /\ ~low => lowPeriods < MaxEpisodes
    /\ low' = ~low
    /\ lowPeriods' = IF low THEN lowPeriods ELSE lowPeriods + 1
    /\ UNCHANGED <<failing, expires, near, ready, refreshed, episodes, monitorVars,
                   step, seen, toSend, sentVars>>

\* A time comes within seven days.
TimePasses(t) ==
    /\ t \notin near
    /\ near' = near \cup {t}
    /\ UNCHANGED <<failing, expires, low, ready, refreshed, episodes, lowPeriods,
                   monitorVars, step, seen, toSend, sentVars>>

-----------------------------------------------------------------------------
(* The worker *)

\* Evaluate rearms the sources that no longer fail, and has a message for
\* those that fail and were not reported.
RearmedAll == {}
Rearmed == alertedSources \cap failing

NeedsAlertAgain == failing
NeedsAlertOnChange == failing \ (alertedSources \cup seen.failing)
NeedsAlert == failing \ alertedSources

\* The ticker fires; before the first complete refresh nothing happens.
Sample ==
    /\ step = "wait"
    /\ ready
    /\ seen' = Sampled
    /\ alertedSources' = Rearmed
    /\ toSend' = NeedsAlert
    /\ step' = "sources"
    /\ UNCHANGED <<stateVars, lowNodesAlerted, expiryAlerted, sentVars>>

SourceAlertDelivered(s) ==
    /\ step = "sources"
    /\ s \in toSend
    /\ alertedSources' = alertedSources \cup {s}
    /\ toSend' = toSend \ {s}
    /\ alerts' = [alerts EXCEPT ![s] = @ + 1]
    /\ UNCHANGED <<stateVars, lowNodesAlerted, expiryAlerted, step, seen,
                   lowAlerts, expirySent, expiryRepeated>>

SourceAlertFails(s) ==
    /\ step = "sources"
    /\ s \in toSend
    /\ toSend' = toSend \ {s}
    /\ UNCHANGED <<stateVars, monitorVars, step, seen, sentVars>>

\* The messages EvaluateExpiry has: known times that are near and were not
\* the last ones reported.
ExpiryDue == {s \in Sources : /\ seen.expires[s] \in near
                              /\ expiryAlerted[s] # seen.expires[s]}

\* Evaluate goes from the sources to the node count, then EvaluateExpiry
\* starts.
LowStep ==
    /\ step = "sources"
    /\ toSend = {}
    /\ step' = "expiry"
    /\ toSend' = ExpiryDue
    /\ UNCHANGED <<stateVars, alertedSources, expiryAlerted, seen, alerts,
                   expirySent, expiryRepeated>>

LowDueUnlessFailing == seen.low /\ ~lowNodesAlerted /\ seen.failing = {}
LowDue == seen.low /\ ~lowNodesAlerted

\* No message: enough nodes rearm it, few nodes were reported before.
LowNotDue ==
    /\ LowStep
    /\ ~LowDue
    /\ lowNodesAlerted' = (seen.low /\ lowNodesAlerted)
    /\ UNCHANGED lowAlerts

LowAlertForgotten ==
    /\ LowStep
    /\ LowDue
    /\ lowAlerts' = lowAlerts + 1
    /\ UNCHANGED lowNodesAlerted
LowAlertDelivered ==
    /\ LowStep
    /\ LowDue
    /\ lowNodesAlerted' = TRUE
    /\ lowAlerts' = lowAlerts + 1

LowAlertFails == LowStep /\ LowDue /\ UNCHANGED <<lowNodesAlerted, lowAlerts>>

ExpiryAlertDelivered(s) ==
    LET message == <<s, seen.expires[s]>>
    IN  /\ step = "expiry"
        /\ s \in toSend
        /\ expiryAlerted' = [expiryAlerted EXCEPT ![s] = seen.expires[s]]
        /\ toSend' = toSend \ {s}
        /\ expirySent' = expirySent \cup {message}
        /\ expiryRepeated' = (expiryRepeated \/ message \in expirySent)
        /\ UNCHANGED <<stateVars, alertedSources, lowNodesAlerted, step, seen,
                       alerts, lowAlerts>>

ExpiryAlertFails(s) ==
    /\ step = "expiry"
    /\ s \in toSend
    /\ toSend' = toSend \ {s}
    /\ UNCHANGED <<stateVars, monitorVars, step, seen, sentVars>>

RoundEnds ==
    /\ step = "expiry"
    /\ toSend = {}
    /\ step' = "wait"
    /\ UNCHANGED <<stateVars, monitorVars, seen, toSend, sentVars>>

-----------------------------------------------------------------------------
WorkerNext ==
    \/ Sample \/ LowNotDue \/ LowAlertDelivered \/ LowAlertFails \/ RoundEnds
    \/ \E s \in Sources :
          \/ SourceAlertDelivered(s) \/ SourceAlertFails(s)
          \/ ExpiryAlertDelivered(s) \/ ExpiryAlertFails(s)

RefreshReturns ==
    \E errs \in SUBSET Sources, times \in Expiries :
        Refreshed(errs, times) \/ RefreshedWithoutApply(errs, times)

AlertsNext ==
    \/ RefreshReturns
    \/ HealthChanges
    \/ \E t \in Times : TimePasses(t)
    \/ WorkerNext

AlertsSpec == AlertsInit /\ [][AlertsNext]_alertVars

\* The tickers go on, and fetches and deliveries have timeouts.  For the
\* service it is assumed that a message tried again and again is accepted at
\* some time.
AlertsFairSpec ==
    /\ AlertsSpec
    /\ WF_alertVars(WorkerNext)
    /\ WF_alertVars(RefreshReturns)
    /\ SF_alertVars(LowAlertDelivered)
    /\ \A s \in Sources : SF_alertVars(SourceAlertDelivered(s))

-----------------------------------------------------------------------------
(* Properties *)

\* Every variable has its type, and the messages under way are about sources
\* the sample shows failing and not reported.
AlertsTypeOK ==
    /\ failing \subseteq Sources /\ alertedSources \subseteq Sources
    /\ expires \in Expiries /\ expiryAlerted \in Expiries /\ near \subseteq Times
    /\ low \in BOOLEAN /\ ready \in BOOLEAN /\ refreshed \in BOOLEAN
    /\ lowNodesAlerted \in BOOLEAN /\ expiryRepeated \in BOOLEAN
    /\ step \in {"wait", "sources", "expiry"}
    /\ seen \in [failing : SUBSET Sources, low : BOOLEAN, expires : Expiries]
    /\ toSend \subseteq Sources
    /\ step = "sources" => toSend \subseteq seen.failing \ alertedSources
    /\ episodes \in [Sources -> Nat] /\ alerts \in [Sources -> Nat]
    /\ lowPeriods \in Nat /\ lowAlerts \in Nat

\* "A source that stays failed does not generate repeated alerts": at most
\* one message is delivered per time the source went from good to failed,
\* though messages may be delivered long after the sample they come from.
AlertsPerEpisode == \A s \in Sources : alerts[s] <= episodes[s]

\* "It is sent once per low period": the same for the node count.
LowAlertsPerPeriod == lowAlerts <= lowPeriods

\* A source that stays failed is reported in the end, however often delivery
\* fails before.
FailureReported ==
    \A s \in Sources : ready /\ s \in failing ~> s \in alertedSources \/ s \notin failing

\* A pool that stays low is reported in the end.
LowReported == ready /\ low ~> lowNodesAlerted \/ ~low

\* Alert design: renewal is notified "once per source/expiry during this
\* process lifetime" (Monitor.EvaluateExpiry).
ExpiryOnce == ~expiryRepeated

\* Alert design: the worker "samples settled state every 5 seconds after the
\* initial refresh finishes", so a pool that stays low is reported from then
\* on (App.Refresh, App.alertLoop).
LowReportedAfterRefresh == refreshed /\ low ~> lowNodesAlerted \/ ~low
=============================================================================
