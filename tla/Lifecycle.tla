----------------------------- MODULE Lifecycle ------------------------------
(***************************************************************************)
(* The life of the process (internal/app): App.Run opens three listeners,  *)
(* starts its goroutines, waits until it is asked to stop or a server      *)
(* fails, shuts the servers down one after the other, closes the engine    *)
(* and waits for its loops, while a start-up or an admin refresh may hold  *)
(* refreshMu.                                                              *)
(*                                                                         *)
(* A proxy server is what ServerLife says of it, which Proxy implements;   *)
(* that its Shutdown ends is Proxy!ShutdownReturns.  The admin server is a *)
(* plain http.Server: its Shutdown gives up when the drain period is over  *)
(* and leaves the request that is under way alone.                         *)
(*                                                                         *)
(* What the goroutines do under refreshMu is the subject of Gateway,       *)
(* Subscriptions and Alerts: here they hold it for a while.                *)
(***************************************************************************)
VARIABLES
    run,        \* where Run is: "new", "serving", "stopping", "waiting", "returned"
    failed,     \* Run's err is not nil
    asked,      \* the context given to Run is done (SIGTERM, interrupt)
    stopping,   \* what shutdown is at: "none", "http", "ws", "admin" or "engine"
    drainOver,  \* ShutdownDrain has passed since shutdown began
    engineClosed,
    httpStage, httpServe, httpClients,     \* the two proxy servers
    wsStage, wsServe, wsClients,
    adminStage, adminServe,                \* the admin server, likewise
    work        \* goroutines that take refreshMu: "none", "select", "wants" (waits
                \* for it), "holding" or "done"

runVars == <<run, failed, asked>>
stopVars == <<stopping, drainOver, engineClosed>>
httpVars == <<httpStage, httpServe, httpClients>>
wsVars == <<wsStage, wsServe, wsClients>>
adminVars == <<adminStage, adminServe>>
serverVars == <<httpVars, wsVars, adminVars>>
lifecycleVars == <<runVars, stopVars, serverVars, work>>

HTTP == INSTANCE ServerLife WITH
    stage <- httpStage, serve <- httpServe, clients <- httpClients
WS == INSTANCE ServerLife WITH
    stage <- wsStage, serve <- wsServe, clients <- wsClients

Loops == {"loop", "alert"}
Workers == Loops \cup {"startup", "admin"}

\* New: nothing is open, nothing runs.
LifecycleInit ==
    /\ run = "new" /\ failed = FALSE /\ asked = FALSE
    /\ stopping = "none" /\ drainOver = FALSE /\ engineClosed = FALSE
    /\ HTTP!ServerInit /\ WS!ServerInit
    /\ adminStage = "serving" /\ adminServe = "none"
    /\ work = [w \in Workers |-> "none"]

\* Run's own context: done when the caller's is, or after cancel().
Cancelled == asked \/ run \in {"stopping", "waiting", "returned"}

-----------------------------------------------------------------------------
(* Run and shutdown *)

\* All listeners are open: the goroutines start.  Without a push URL the
\* alert loop ends at once.
Listen ==
    /\ run = "new"
    /\ run' = "serving"
    /\ HTTP!CallServe /\ WS!CallServe
    /\ adminServe' = "starting"
    /\ \E alert \in {"select", "done"} :
          work' = [work EXCEPT !["startup"] = "wants", !["loop"] = "select",
                               !["alert"] = alert]
    /\ UNCHANGED <<failed, asked, stopVars, adminStage>>

\* listenAll closes the listeners it opened before the one that fails.
ListenFails ==
    /\ run = "new"
    /\ run' = "returned" /\ failed' = TRUE
    /\ UNCHANGED <<asked, stopVars, serverVars, work>>

Ask ==
    /\ ~asked
    /\ asked' = TRUE
    /\ UNCHANGED <<run, failed, stopVars, serverVars, work>>

\* What Run reads from serveErrors: nil after Shutdown, else an error.
Returned == {httpServe, wsServe, adminServe} \cap {"failed", "closed"}

\* The select of Run, then cancel() and the start of shutdown.
BeginShutdown ==
    /\ run = "serving"
    /\ \/ asked /\ failed' = FALSE
       \/ \E result \in Returned : failed' = (result = "failed")
    /\ run' = "stopping"
    /\ stopping' = "http"
    /\ UNCHANGED <<asked, drainOver, engineClosed, serverVars, work>>

DrainExpires ==
    /\ run = "stopping" /\ ~drainOver
    /\ drainOver' = TRUE
    /\ UNCHANGED <<runVars, stopping, engineClosed, serverVars, work>>

\* shutdown calls Shutdown of each server and goes on when it has returned.
StopHTTP ==
    /\ stopping = "http"
    /\ HTTP!CallShutdown
    /\ UNCHANGED <<runVars, stopVars, wsVars, adminVars, work>>
StopWS ==
    /\ stopping = "ws"
    /\ WS!CallShutdown
    /\ UNCHANGED <<runVars, stopVars, httpVars, adminVars, work>>
StopAdmin ==
    /\ stopping = "admin"
    /\ adminStage = "serving"
    /\ adminStage' = "stopping"
    /\ UNCHANGED <<runVars, stopVars, httpVars, wsVars, adminServe, work>>

\* What shutdown turns to next.
AfterForgettingWS ==
    \/ stopping = "http" /\ httpStage = "stopped" /\ stopping' = "admin"
    \/ stopping = "admin" /\ adminStage = "stopped" /\ stopping' = "engine"
After ==
    \/ stopping = "http" /\ httpStage = "stopped" /\ stopping' = "ws"
    \/ stopping = "ws" /\ wsStage = "stopped" /\ stopping' = "admin"
    \/ stopping = "admin" /\ adminStage = "stopped" /\ stopping' = "engine"

StopNext == After /\ UNCHANGED <<runVars, drainOver, engineClosed, serverVars, work>>

CloseEngine ==
    /\ stopping = "engine"
    /\ engineClosed' = TRUE
    /\ stopping' = "none"
    /\ run' = "waiting"
    /\ UNCHANGED <<failed, asked, drainOver, serverVars, work>>

\* loopDone and alertDone are closed.
Return ==
    /\ run = "waiting"
    /\ \A w \in Loops : work[w] = "done"
    /\ run' = "returned"
    /\ UNCHANGED <<failed, asked, stopVars, serverVars, work>>

-----------------------------------------------------------------------------
(* The servers *)

HTTPStep ==
    /\ \/ HTTP!ServeBegins \/ HTTP!ServeReturns \/ HTTP!ClientComes
       \/ HTTP!ClientsGo \/ HTTP!ShutdownEnds
    /\ UNCHANGED <<runVars, stopVars, wsVars, adminVars, work>>

WSStep ==
    /\ \/ WS!ServeBegins \/ WS!ServeReturns \/ WS!ClientComes
       \/ WS!ClientsGo \/ WS!ShutdownEnds
    /\ UNCHANGED <<runVars, stopVars, httpVars, adminVars, work>>

AdminServes ==
    /\ \/ /\ adminServe = "starting"
          /\ adminServe' = IF adminStage = "serving" THEN "accepting" ELSE "closed"
       \/ /\ adminServe = "accepting"
          /\ adminServe' = IF adminStage = "serving" THEN "failed" ELSE "closed"
    /\ UNCHANGED <<runVars, stopVars, httpVars, wsVars, adminStage, work>>

\* http.Server.Shutdown returns: no request is left, or it waits no longer.
AdminStopped ==
    /\ adminStage = "stopping"
    /\ adminServe # "accepting"
    /\ work["admin"] = "none" \/ drainOver
    /\ adminStage' = "stopped"
    /\ UNCHANGED <<runVars, stopVars, httpVars, wsVars, adminServe, work>>

-----------------------------------------------------------------------------
(* The goroutines that share refreshMu *)

\* A ticker fires.  When the context is done as well, select takes either.
Tick(w) ==
    /\ w \in Loops
    /\ work[w] = "select"
    /\ work' = [work EXCEPT ![w] = "wants"]
    /\ UNCHANGED <<runVars, stopVars, serverVars>>

\* POST /refresh.  A connection accepted earlier may bring it after Serve failed
\* or Shutdown began; its context does not end with Run's.
AdminRefresh ==
    /\ adminServe \in {"accepting", "failed"} \/ adminStage = "stopping" \/ drainOver
    /\ work["admin"] = "none"
    /\ work' = [work EXCEPT !["admin"] = "wants"]
    /\ UNCHANGED <<runVars, stopVars, serverVars>>

LockShared(w) ==
    /\ work[w] = "wants"
    /\ work' = [work EXCEPT ![w] = "holding"]
    /\ UNCHANGED <<runVars, stopVars, serverVars>>
Lock(w) ==
    /\ work[w] = "wants"
    /\ \A v \in Workers : work[v] # "holding"
    /\ work' = [work EXCEPT ![w] = "holding"]
    /\ UNCHANGED <<runVars, stopVars, serverVars>>

\* The refresh, probe round or sample is done.  A loop goes back to its
\* select; the alert worker first delivers what it sampled, without refreshMu
\* and for a bounded time.
AfterUnlock(w) == CASE w = "startup" -> "done" [] w = "admin" -> "none" [] OTHER -> "select"

UnlockUnlessCancelled(w) ==
    /\ work[w] = "holding"
    /\ ~(Cancelled /\ w = "startup")
    /\ work' = [work EXCEPT ![w] = AfterUnlock(w)]
    /\ UNCHANGED <<runVars, stopVars, serverVars>>
Unlock(w) ==
    /\ work[w] = "holding"
    /\ work' = [work EXCEPT ![w] = AfterUnlock(w)]
    /\ UNCHANGED <<runVars, stopVars, serverVars>>

StopLoop(w) ==
    /\ w \in Loops
    /\ work[w] = "select"
    /\ Cancelled
    /\ work' = [work EXCEPT ![w] = "done"]
    /\ UNCHANGED <<runVars, stopVars, serverVars>>

-----------------------------------------------------------------------------
RunStep ==
    \/ Listen \/ ListenFails \/ BeginShutdown
    \/ StopHTTP \/ StopWS \/ StopAdmin \/ StopNext \/ CloseEngine
    \/ Return

LifecycleNext ==
    \/ RunStep \/ Ask \/ DrainExpires
    \/ HTTPStep \/ WSStep \/ AdminServes \/ AdminStopped
    \/ AdminRefresh
    \/ \E w \in Workers : Tick(w) \/ Lock(w) \/ Unlock(w) \/ StopLoop(w)

LifecycleSpec == LifecycleInit /\ [][LifecycleNext]_lifecycleVars

\* Run goes on when it can; a Serve called starts; a Shutdown called returns
\* (Proxy!ShutdownReturns); time-outs pass and bound the work under refreshMu
\* and the deliveries; a Go mutex starves nobody, and neither does a select
\* with two cases ready.  Nobody need ask Run to stop, and no server fail.
LifecycleFairSpec ==
    /\ LifecycleSpec
    /\ WF_lifecycleVars(RunStep)
    /\ WF_lifecycleVars(DrainExpires)
    /\ WF_lifecycleVars(HTTPStep /\ (HTTP!ServeBegins \/ HTTP!ShutdownProgress))
    /\ WF_lifecycleVars(WSStep /\ (WS!ServeBegins \/ WS!ShutdownProgress))
    /\ WF_lifecycleVars((adminServe = "starting" \/ adminStage = "stopping") /\ AdminServes)
    /\ WF_lifecycleVars(AdminStopped)
    /\ \A w \in Loops : SF_lifecycleVars(Lock(w)) /\ SF_lifecycleVars(StopLoop(w))
    /\ WF_lifecycleVars(\E w \in Workers : Unlock(w))

-----------------------------------------------------------------------------
(* Properties *)

\* Every variable has its type, and refreshMu at most one holder.
LifecycleTypeOK ==
    /\ run \in {"new", "serving", "stopping", "waiting", "returned"}
    /\ failed \in BOOLEAN /\ asked \in BOOLEAN
    /\ stopping \in {"none", "http", "ws", "admin", "engine"}
    /\ drainOver \in BOOLEAN /\ engineClosed \in BOOLEAN
    /\ {httpStage, wsStage, adminStage} \subseteq {"serving", "stopping", "stopped"}
    /\ {httpServe, wsServe, adminServe}
           \subseteq {"none", "starting", "accepting", "failed", "closed"}
    /\ httpClients \in BOOLEAN /\ wsClients \in BOOLEAN
    /\ work \in [Workers -> {"none", "select", "wants", "holding", "done"}]
    /\ \A v, w \in Workers : work[v] = "holding" /\ work[w] = "holding" => v = w

\* The engine goes last: once it is closed no server accepts, and no client
\* of a proxy is connected - those that came to the WS listener while the HTTP
\* server was still draining included.
EngineClosedLast ==
    engineClosed => /\ ~httpClients /\ ~wsClients
                    /\ {httpServe, wsServe, adminServe} \cap {"accepting"} = {}

\* Once asked to stop, or without one of its servers, Run returns, with an
\* error unless it was asked to, and no listener stays open; though refreshes
\* hold refreshMu, and the loops that Run waits for wait for it.
RunReturns ==
    asked \/ "failed" \in Returned ~>
        /\ run = "returned" /\ (asked \/ failed)
        /\ {httpServe, wsServe, adminServe} \cap {"starting", "accepting"} = {}
=============================================================================
