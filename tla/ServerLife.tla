----------------------------- MODULE ServerLife -----------------------------
(***************************************************************************)
(* What a proxy server promises the application that runs it: Serve        *)
(* accepts clients until it fails or Shutdown begins, and when Shutdown    *)
(* has returned Serve has, too, and no client is connected any more.       *)
(* How long a client may stay after Shutdown began is left open; that it   *)
(* goes in the end is ShutdownProgress.                                    *)
(***************************************************************************)
VARIABLES
    stage,      \* "serving", "stopping" (Shutdown has been called) or "stopped"
    serve,      \* "none", "starting", "accepting", "failed" or "closed"
    clients     \* some client is connected

serverVars == <<stage, serve, clients>>

ServerInit ==
    /\ stage = "serving"
    /\ serve = "none"
    /\ clients = FALSE

\* Serve is called with an open listener, in a goroutine of its own.
CallServe ==
    /\ serve = "none"
    /\ serve' = "starting"
    /\ UNCHANGED <<stage, clients>>

ServeBegins ==
    /\ serve = "starting"
    /\ serve' = IF stage = "serving" THEN "accepting" ELSE "closed"
    /\ UNCHANGED <<stage, clients>>

\* Serve returns: with an error, or because of Shutdown.
ServeReturns ==
    /\ serve = "accepting"
    /\ serve' = IF stage = "serving" THEN "failed" ELSE "closed"
    /\ UNCHANGED <<stage, clients>>

ClientComes ==
    /\ stage = "serving" /\ serve = "accepting" /\ ~clients
    /\ clients' = TRUE
    /\ UNCHANGED <<stage, serve>>

ClientsGo ==
    /\ clients
    /\ clients' = FALSE
    /\ UNCHANGED <<stage, serve>>

CallShutdown ==
    /\ stage = "serving" /\ serve # "none"
    /\ stage' = "stopping"
    /\ UNCHANGED <<serve, clients>>

ShutdownEnds ==
    /\ stage = "stopping"
    /\ serve # "accepting" /\ ~clients
    /\ stage' = "stopped"
    /\ UNCHANGED <<serve, clients>>

ServerNext ==
    \/ CallServe \/ ServeBegins \/ ServeReturns
    \/ ClientComes \/ ClientsGo
    \/ CallShutdown \/ ShutdownEnds

\* What happens by itself once Shutdown has been called.
ShutdownProgress == stage = "stopping" /\ (ServeReturns \/ ClientsGo \/ ShutdownEnds)

ServerSpec == ServerInit /\ [][ServerNext]_serverVars
=============================================================================
