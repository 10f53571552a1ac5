-------------------------- MODULE LifecycleProofs ---------------------------
(***************************************************************************)
(* Proofs about the life of the process: refreshMu has one holder and the  *)
(* engine is closed last.                                                  *)
(*                                                                         *)
(* EngineClosedLast is not inductive: it needs that shutdown gets to the   *)
(* engine only behind three servers that have stopped, and that a stopped  *)
(* server stays so.                                                        *)
(***************************************************************************)
EXTENDS Lifecycle, TLAPS

\* A server that has stopped neither accepts nor has a client.
StoppedInv ==
    /\ httpStage = "stopped" => httpServe # "accepting" /\ ~httpClients
    /\ wsStage = "stopped" => wsServe # "accepting" /\ ~wsClients
    /\ adminStage = "stopped" => adminServe # "accepting"

\* The servers that have stopped when shutdown is at a place: those before it.
OrderInv ==
    /\ stopping \in {"ws", "admin", "engine"} \/ engineClosed => httpStage = "stopped"
    /\ stopping \in {"admin", "engine"} \/ engineClosed => wsStage = "stopped"
    /\ stopping = "engine" \/ engineClosed => adminStage = "stopped"

LifecycleInv == LifecycleTypeOK /\ StoppedInv /\ OrderInv

\* The invariant holds of a new application.
LEMMA LifecycleInitInv == LifecycleInit => LifecycleInv
BY DEF LifecycleInit, LifecycleInv, LifecycleTypeOK, StoppedInv, OrderInv, Workers, Loops,
       HTTP!ServerInit, WS!ServerInit

-----------------------------------------------------------------------------
(* Steps of Run *)

\* Run opens, closes and waits; its steps touch a server only through Serve
\* and Shutdown.
LEMMA RunStepInv ==
  ASSUME LifecycleInv, RunStep
  PROVE  LifecycleInv'
<1> USE DEF runVars, stopVars, httpVars, wsVars, adminVars, serverVars
<1>1. CASE Listen
  <2> USE <1>1 DEF Listen, HTTP!CallServe, WS!CallServe
  <2>1. LifecycleTypeOK'
    BY DEF LifecycleInv, LifecycleTypeOK, Workers, Loops
  <2> QED BY <2>1 DEF LifecycleInv, StoppedInv, OrderInv
<1>2. CASE ListenFails
  BY <1>2 DEF ListenFails, LifecycleInv, LifecycleTypeOK, StoppedInv, OrderInv
<1>3. CASE BeginShutdown
  BY <1>3 DEF BeginShutdown, LifecycleInv, LifecycleTypeOK, StoppedInv, OrderInv
<1>4. CASE StopHTTP
  BY <1>4 DEF StopHTTP, HTTP!CallShutdown, LifecycleInv, LifecycleTypeOK, StoppedInv, OrderInv
<1>5. CASE StopWS
  BY <1>5 DEF StopWS, WS!CallShutdown, LifecycleInv, LifecycleTypeOK, StoppedInv, OrderInv
<1>6. CASE StopAdmin
  BY <1>6 DEF StopAdmin, LifecycleInv, LifecycleTypeOK, StoppedInv, OrderInv
<1>7. CASE StopNext
  BY <1>7 DEF StopNext, After, LifecycleInv, LifecycleTypeOK, StoppedInv, OrderInv
<1>8. CASE CloseEngine
  BY <1>8 DEF CloseEngine, LifecycleInv, LifecycleTypeOK, StoppedInv, OrderInv
<1>9. CASE Return
  BY <1>9 DEF Return, LifecycleInv, LifecycleTypeOK, StoppedInv, OrderInv
<1> QED BY <1>1, <1>2, <1>3, <1>4, <1>5, <1>6, <1>7, <1>8, <1>9 DEF RunStep

-----------------------------------------------------------------------------
(* Steps of the servers *)

\* A server stops only when it neither accepts nor has a client, and then
\* nobody comes any more.
LEMMA ServerStepInv ==
  ASSUME LifecycleInv, HTTPStep \/ WSStep \/ AdminServes \/ AdminStopped
  PROVE  LifecycleInv'
<1> USE DEF runVars, stopVars, httpVars, wsVars, adminVars
<1>1. CASE HTTPStep
  <2> USE <1>1 DEF HTTPStep
  <2>1. CASE HTTP!ServeBegins \/ HTTP!ServeReturns
    BY <2>1 DEF HTTP!ServeBegins, HTTP!ServeReturns,
                LifecycleInv, LifecycleTypeOK, StoppedInv, OrderInv
  <2>2. CASE HTTP!ClientComes \/ HTTP!ClientsGo
    BY <2>2 DEF HTTP!ClientComes, HTTP!ClientsGo,
                LifecycleInv, LifecycleTypeOK, StoppedInv, OrderInv
  <2>3. CASE HTTP!ShutdownEnds
    BY <2>3 DEF HTTP!ShutdownEnds, LifecycleInv, LifecycleTypeOK, StoppedInv, OrderInv
  <2> QED BY <2>1, <2>2, <2>3
<1>2. CASE WSStep
  <2> USE <1>2 DEF WSStep
  <2>1. CASE WS!ServeBegins \/ WS!ServeReturns
    BY <2>1 DEF WS!ServeBegins, WS!ServeReturns,
                LifecycleInv, LifecycleTypeOK, StoppedInv, OrderInv
  <2>2. CASE WS!ClientComes \/ WS!ClientsGo
    BY <2>2 DEF WS!ClientComes, WS!ClientsGo,
                LifecycleInv, LifecycleTypeOK, StoppedInv, OrderInv
  <2>3. CASE WS!ShutdownEnds
    BY <2>3 DEF WS!ShutdownEnds, LifecycleInv, LifecycleTypeOK, StoppedInv, OrderInv
  <2> QED BY <2>1, <2>2, <2>3
<1>3. CASE AdminServes
  BY <1>3 DEF AdminServes, LifecycleInv, LifecycleTypeOK, StoppedInv, OrderInv
<1>4. CASE AdminStopped
  BY <1>4 DEF AdminStopped, LifecycleInv, LifecycleTypeOK, StoppedInv, OrderInv
<1> QED BY <1>1, <1>2, <1>3, <1>4

-----------------------------------------------------------------------------
(* Steps of the goroutines *)

\* They change nothing but work.
LEMMA WorkOnly ==
  ASSUME LifecycleInv, UNCHANGED <<runVars, stopVars, serverVars>>,
         work' \in [Workers -> {"none", "select", "wants", "holding", "done"}],
         \A v, w \in Workers : work'[v] = "holding" /\ work'[w] = "holding" => v = w
  PROVE  LifecycleInv'
BY DEF runVars, stopVars, httpVars, wsVars, adminVars, serverVars,
       LifecycleInv, LifecycleTypeOK, StoppedInv, OrderInv

\* refreshMu is taken when nobody holds it.
LEMMA WorkStepInv ==
  ASSUME LifecycleInv,
         AdminRefresh \/ \E w \in Workers : Tick(w) \/ Lock(w) \/ Unlock(w) \/ StopLoop(w)
  PROVE  LifecycleInv'
<1>0. /\ work \in [Workers -> {"none", "select", "wants", "holding", "done"}]
      /\ \A v, w \in Workers : work[v] = "holding" /\ work[w] = "holding" => v = w
  BY DEF LifecycleInv, LifecycleTypeOK
<1>1. CASE AdminRefresh
  BY <1>0, <1>1, WorkOnly DEF AdminRefresh
<1>2. ASSUME NEW w \in Workers, Tick(w) PROVE LifecycleInv'
  BY <1>0, <1>2, WorkOnly DEF Tick
<1>3. ASSUME NEW w \in Workers, Lock(w) PROVE LifecycleInv'
  BY <1>0, <1>3, WorkOnly DEF Lock
<1>4. ASSUME NEW w \in Workers, Unlock(w) PROVE LifecycleInv'
  <2>1. AfterUnlock(w) \in {"none", "select", "done"}
    BY DEF AfterUnlock
  <2> QED BY <1>0, <1>4, <2>1, WorkOnly DEF Unlock
<1>5. ASSUME NEW w \in Workers, StopLoop(w) PROVE LifecycleInv'
  BY <1>0, <1>5, WorkOnly DEF StopLoop
<1> QED BY <1>1, <1>2, <1>3, <1>4, <1>5

\* Being asked to stop and the passing of the drain period disturb nothing.
LEMMA OutsideStepInv ==
  ASSUME LifecycleInv, Ask \/ DrainExpires \/ UNCHANGED lifecycleVars
  PROVE  LifecycleInv'
<1> USE DEF runVars, stopVars, httpVars, wsVars, adminVars, serverVars
<1>1. CASE Ask
  BY <1>1 DEF Ask, LifecycleInv, LifecycleTypeOK, StoppedInv, OrderInv
<1>2. CASE DrainExpires
  BY <1>2 DEF DrainExpires, LifecycleInv, LifecycleTypeOK, StoppedInv, OrderInv
<1>3. CASE UNCHANGED lifecycleVars
  BY <1>3 DEF lifecycleVars, LifecycleInv, LifecycleTypeOK, StoppedInv, OrderInv
<1> QED BY <1>1, <1>2, <1>3

-----------------------------------------------------------------------------
(* The theorems *)

\* The inductive invariant of the process.
THEOREM LifecycleInvariance == LifecycleSpec => []LifecycleInv
<1>1. LifecycleInv /\ [LifecycleNext]_lifecycleVars => LifecycleInv'
  BY RunStepInv, ServerStepInv, WorkStepInv, OutsideStepInv DEF LifecycleNext
<1> QED BY <1>1, LifecycleInitInv, PTL DEF LifecycleSpec

\* Type correctness, and refreshMu has at most one holder.
THEOREM LifecycleTypeCorrect == LifecycleSpec => []LifecycleTypeOK
<1>1. LifecycleInv => LifecycleTypeOK
  BY DEF LifecycleInv
<1> QED BY <1>1, LifecycleInvariance, PTL

\* The engine is closed when no server accepts and no client is connected.
THEOREM LifecycleEngineClosedLast == LifecycleSpec => []EngineClosedLast
<1>1. LifecycleInv => EngineClosedLast
  BY DEF LifecycleInv, StoppedInv, OrderInv, EngineClosedLast
<1> QED BY <1>1, LifecycleInvariance, PTL
=============================================================================
