------------------------------- MODULE Proxy --------------------------------
(***************************************************************************)
(* One proxy server (internal/httpproxy): its connections from Accept to   *)
(* release, the tunnels some of them become, and Server.Shutdown, which    *)
(* waits for them, closes them when the drain context ends, and returns.   *)
(*                                                                         *)
(* Abstractions:                                                           *)
(*  - what a request does with nodes and leases is Gateway's subject: here *)
(*    a connection is idle, busy with a request, or a tunnel;              *)
(*  - net/http (external): Shutdown closes the listener, waits until Serve *)
(*    has returned and no connection of its own is left, or the context    *)
(*    ends.  Hijacked connections are not its own.  Serve called after     *)
(*    Shutdown closes its listener and returns.  While a request is served *)
(*    it reads ahead, and the end of what the client sends, or an error,   *)
(*    cancels the context of the connection's requests;                    *)
(*  - bytes are left out: an end of a connection is open, half closed (it  *)
(*    sends no more) or closed;                                            *)
(*  - a time-out is a step that may come at any time after its start.      *)
(***************************************************************************)
EXTENDS Naturals, FiniteSets

CONSTANT Conns      \* client connections open at a time

ASSUME ProxyAssumption == IsFiniteSet(Conns)

VARIABLES
    listener,   \* "none", "open" or "closed"
    serve,      \* "none", "starting", "accepting", "failed" or "closed"
    shutdown,   \* "none" (not called), "drain" (in http.Server.Shutdown), "poll",
                \* "force" or "returned"
    drainOver,  \* the context of Shutdown is done
    conn,       \* "none", "accepted", "idle", "busy", "tunnel", "closing" (by
                \* net/http), "ending" (after a tunnel) or "released"
    client, upstream,   \* the two ends: "open", "halfClosed" or "closed"
    copying,    \* directions the tunnel still copies: "up", "down"
    cancelled,  \* connections whose request context is done
    sessions,   \* keys of Server.sessions
    active      \* Server.active

serveVars == <<listener, serve, shutdown, drainOver>>
endVars == <<client, upstream, copying, cancelled>>
countVars == <<sessions, active>>
proxyVars == <<serveVars, conn, endVars, countVars>>

Ways == {"up", "down"}

ProxyInit ==
    /\ listener = "none" /\ serve = "none"
    /\ shutdown = "none" /\ drainOver = FALSE
    /\ conn = [c \in Conns |-> "none"]
    /\ client = [c \in Conns |-> "closed"]
    /\ upstream = [c \in Conns |-> "closed"]
    /\ copying = [c \in Conns |-> {}]
    /\ cancelled = {}
    /\ sessions = {}
    /\ active = 0

SetConn(c, state) == conn' = [conn EXCEPT ![c] = state]

-----------------------------------------------------------------------------
(* Serve *)

CallServe ==
    /\ serve = "none"
    /\ listener' = "open" /\ serve' = "starting"
    /\ UNCHANGED <<shutdown, drainOver, conn, endVars, countVars>>

ServeBegins ==
    /\ serve = "starting"
    /\ IF shutdown = "none" THEN serve' = "accepting" /\ UNCHANGED listener
                            ELSE serve' = "closed" /\ listener' = "closed"
    /\ UNCHANGED <<shutdown, drainOver, conn, endVars, countVars>>

\* The connection Accept returned to Serve last, until ConnContext was called.
Pending == {c \in Conns : conn[c] = "accepted"}

\* Accept fails: because of Shutdown (ErrServerClosed, made nil), or for good.
ServeReturns ==
    /\ serve = "accepting"
    /\ Pending = {}
    /\ serve' = IF shutdown = "none" THEN "failed" ELSE "closed"
    /\ listener' = "closed"
    /\ UNCHANGED <<shutdown, drainOver, conn, endVars, countVars>>

Accept(c) ==
    /\ conn[c] = "none"
    /\ serve = "accepting" /\ listener = "open"
    /\ Pending = {}
    /\ SetConn(c, "accepted")
    /\ client' = [client EXCEPT ![c] = "open"]
    /\ UNCHANGED <<serveVars, upstream, copying, cancelled, countVars>>

\* ConnContext, called by Serve before it accepts again.
TrackUncounted(c) ==
    /\ conn[c] = "accepted"
    /\ SetConn(c, "idle")
    /\ sessions' = sessions \cup {c}
    /\ UNCHANGED <<serveVars, endVars, active>>
Track(c) ==
    /\ conn[c] = "accepted"
    /\ SetConn(c, "idle")
    /\ sessions' = sessions \cup {c}
    /\ active' = active + 1
    /\ UNCHANGED <<serveVars, endVars>>

-----------------------------------------------------------------------------
(* Connections that net/http has *)

\* Once net/http has read the end there is no further request to read.
Request(c) ==
    /\ conn[c] = "idle" /\ client[c] # "closed"
    /\ c \notin cancelled
    /\ SetConn(c, "busy")
    /\ UNCHANGED <<serveVars, endVars, countVars>>

\* The handler returns and the connection is kept for another request.
KeepAlive(c) ==
    /\ conn[c] = "busy"
    /\ shutdown = "none"
    /\ SetConn(c, "idle")
    /\ UNCHANGED <<serveVars, endVars, countVars>>

\* net/http closes the connection: it is idle (for too long, or Shutdown
\* found it so), its client left, or its last request is done.  ConnState
\* takes the session out of the map, then releases it.
CloseConn(c) ==
    /\ conn[c] \in {"idle", "busy"}
    /\ SetConn(c, "closing")
    /\ client' = [client EXCEPT ![c] = "closed"]
    /\ cancelled' = cancelled \ {c}
    /\ sessions' = sessions \ {c}
    /\ UNCHANGED <<serveVars, upstream, copying, active>>

\* The client half-closes or leaves.
ClientEnds(c) ==
    /\ conn[c] \in {"idle", "busy", "tunnel"}
    /\ \/ client[c] = "open" /\ client' = [client EXCEPT ![c] = "halfClosed"]
       \/ client[c] # "closed" /\ client' = [client EXCEPT ![c] = "closed"]
    /\ UNCHANGED <<serveVars, conn, upstream, copying, cancelled, countVars>>

\* net/http, reading ahead, finds that the client sends no more, whether it
\* left or only half-closed.  It reads ahead no longer after Hijack.
ContextDone(c) ==
    /\ conn[c] = "busy"
    /\ client[c] # "open"
    /\ c \notin cancelled
    /\ cancelled' = cancelled \cup {c}
    /\ UNCHANGED <<serveVars, conn, client, upstream, copying, countVars>>

-----------------------------------------------------------------------------
(* Tunnels *)

\* handleConnect or handleUpgrade has its upstream and hijacks the
\* connection; one goroutine copies each way.  Only the tunnel of a CONNECT
\* watches the context.
Hijack(c) ==
    /\ conn[c] = "busy"
    /\ SetConn(c, "tunnel")
    /\ upstream' = [upstream EXCEPT ![c] = "open"]
    /\ copying' = [copying EXCEPT ![c] = Ways]
    /\ \/ UNCHANGED cancelled
       \/ cancelled' = cancelled \ {c}
    /\ UNCHANGED <<serveVars, client, countVars>>

\* A first write to the client, or of what it had sent already, fails: the
\* deferred function runs without a tunnel.
HijackInVain(c) ==
    /\ conn[c] = "busy"
    /\ SetConn(c, "ending")
    /\ client' = [client EXCEPT ![c] = "closed"]
    /\ cancelled' = cancelled \ {c}
    /\ UNCHANGED <<serveVars, upstream, copying, countVars>>

UpstreamEnds(c) ==
    /\ conn[c] = "tunnel"
    /\ \/ upstream[c] = "open" /\ upstream' = [upstream EXCEPT ![c] = "halfClosed"]
       \/ upstream[c] # "closed" /\ upstream' = [upstream EXCEPT ![c] = "closed"]
    /\ UNCHANGED <<serveVars, conn, client, copying, cancelled, countVars>>

Source(c, way) == IF way = "up" THEN client[c] ELSE upstream[c]
Destination(c, way) == IF way = "up" THEN upstream[c] ELSE client[c]

\* io.Copy returns: its source has no more to read.
CopyReadsEnd(c, way) ==
    /\ way \in copying[c]
    /\ Source(c, way) # "open"
    /\ copying' = [copying EXCEPT ![c] = @ \ {way}]
    /\ UNCHANGED <<serveVars, conn, client, upstream, cancelled, countVars>>

\* Or a write to its destination fails, once there is something to write.
CopyWriteFails(c, way) ==
    /\ way \in copying[c]
    /\ Destination(c, way) = "closed"
    /\ copying' = [copying EXCEPT ![c] = @ \ {way}]
    /\ UNCHANGED <<serveVars, conn, client, upstream, cancelled, countVars>>

\* Or the watcher found the context done and set the deadlines of both ends:
\* reads and writes fail, whatever the ends could still send and receive.
DeadlineEnds(c, way) ==
    /\ conn[c] = "tunnel" /\ c \in cancelled
    /\ way \in copying[c]
    /\ copying' = [copying EXCEPT ![c] = @ \ {way}]
    /\ UNCHANGED <<serveVars, conn, client, upstream, cancelled, countVars>>

\* wait.Wait returns when both copies have.
AnyCopyDone(c) == copying[c] # Ways
CopiesDone(c) == copying[c] = {}

\* The deferred function closes both ends, releases the session and takes
\* it out of the map.
EndTunnel(c) ==
    /\ conn[c] = "tunnel"
    /\ CopiesDone(c)
    /\ SetConn(c, "ending")
    /\ client' = [client EXCEPT ![c] = "closed"]
    /\ upstream' = [upstream EXCEPT ![c] = "closed"]
    /\ copying' = [copying EXCEPT ![c] = {}]
    /\ cancelled' = cancelled \ {c}
    /\ UNCHANGED <<serveVars, countVars>>

ForgetKeepingEntry(c) == conn[c] = "released" /\ UNCHANGED proxyVars
Forget(c) ==
    /\ conn[c] = "released"
    /\ SetConn(c, "none")
    /\ sessions' = sessions \ {c}
    /\ UNCHANGED <<serveVars, endVars, active>>

\* session.release, of a session net/http closed or a tunnel ended.
ReleaseOfClosed(c) ==
    /\ conn[c] \in {"closing", "ending"}
    /\ SetConn(c, IF conn[c] = "closing" THEN "none" ELSE "released")
    /\ active' = IF conn[c] = "closing" THEN active - 1 ELSE active
    /\ UNCHANGED <<serveVars, endVars, sessions>>
Release(c) ==
    /\ conn[c] \in {"closing", "ending"}
    /\ SetConn(c, IF conn[c] = "closing" THEN "none" ELSE "released")
    /\ active' = active - 1
    /\ UNCHANGED <<serveVars, endVars, sessions>>

-----------------------------------------------------------------------------
(* Shutdown *)

\* http.Server.Shutdown closes the listener Serve accepts from.
CallShutdown ==
    /\ shutdown = "none" /\ serve # "none"
    /\ shutdown' = "drain"
    /\ listener' = IF serve = "accepting" THEN "closed" ELSE listener
    /\ UNCHANGED <<serve, drainOver, conn, endVars, countVars>>

\* The drain period, which other servers may have used up before, is over.
DrainExpires ==
    /\ shutdown # "none" /\ shutdown # "returned"
    /\ ~drainOver
    /\ drainOver' = TRUE
    /\ UNCHANGED <<listener, serve, shutdown, conn, endVars, countVars>>

\* It returns, and the polling of ActiveConnections begins.
Drained ==
    /\ shutdown = "drain"
    /\ serve # "accepting"
    /\ drainOver \/ \A c \in Conns : conn[c] \notin {"idle", "busy"}
    /\ shutdown' = "poll"
    /\ UNCHANGED <<listener, serve, drainOver, conn, endVars, countVars>>

PollEnds ==
    /\ shutdown = "poll"
    /\ active = 0
    /\ shutdown' = "returned"
    /\ UNCHANGED <<listener, serve, drainOver, conn, endVars, countVars>>

\* The drain is over: the clients of the sessions in the map are closed.
ClosedByForceNotHijacked == {c \in sessions : conn[c] # "tunnel"}
ClosedByForce == sessions

ForceNever == shutdown = "poll" /\ UNCHANGED proxyVars
ForceClose ==
    /\ shutdown = "poll"
    /\ active > 0 /\ drainOver
    /\ client' = [c \in Conns |-> IF c \in ClosedByForce THEN "closed" ELSE client[c]]
    /\ shutdown' = "force"
    /\ UNCHANGED <<listener, serve, drainOver, conn, upstream, copying, cancelled, countVars>>

\* All are released, or forceDeadline has passed.
ForceEnds ==
    /\ shutdown = "force"
    /\ shutdown' = "returned"
    /\ UNCHANGED <<listener, serve, drainOver, conn, endVars, countVars>>

-----------------------------------------------------------------------------
ConnStep(c) ==
    \/ Accept(c) \/ Track(c) \/ Request(c) \/ KeepAlive(c) \/ CloseConn(c)
    \/ ClientEnds(c) \/ ContextDone(c) \/ UpstreamEnds(c) \/ Hijack(c) \/ HijackInVain(c)
    \/ (\E way \in Ways :
            CopyReadsEnd(c, way) \/ CopyWriteFails(c, way) \/ DeadlineEnds(c, way))
    \/ EndTunnel(c) \/ Release(c) \/ Forget(c)

ShutdownStep == Drained \/ PollEnds \/ ForceClose \/ ForceEnds

ProxyNext ==
    \/ CallServe \/ ServeBegins \/ ServeReturns
    \/ \E c \in Conns : ConnStep(c)
    \/ CallShutdown \/ DrainExpires \/ ShutdownStep

ProxySpec == ProxyInit /\ [][ProxyNext]_proxyVars

\* What a tunnel's goroutines owe: a copy whose source has ended, and the
\* handler with its deferred calls once both copies have.
TunnelStep(c) ==
    \/ \E way \in Ways : CopyReadsEnd(c, way)
    \/ EndTunnel(c) \/ (conn[c] = "ending" /\ Release(c)) \/ Forget(c)

\* Serve, Shutdown and tunnels go on when they can, and the drain ends.
\* Clients and upstreams owe nothing, and neither does a request: it may hold
\* session.mu, which release waits for, as long as its upstream is silent.
ProxyFairSpec ==
    /\ ProxySpec
    /\ WF_proxyVars(shutdown # "none" /\ (ServeBegins \/ ServeReturns))
    /\ WF_proxyVars(ShutdownStep)
    /\ WF_proxyVars(DrainExpires)
    /\ \A c \in Conns : WF_proxyVars(Track(c)) /\ WF_proxyVars(TunnelStep(c))

-----------------------------------------------------------------------------
(* Properties *)

\* Every variable has its type.
ProxyTypeOK ==
    /\ listener \in {"none", "open", "closed"}
    /\ serve \in {"none", "starting", "accepting", "failed", "closed"}
    /\ shutdown \in {"none", "drain", "poll", "force", "returned"}
    /\ drainOver \in BOOLEAN
    /\ conn \in [Conns -> {"none", "accepted", "idle", "busy", "tunnel", "closing",
                           "ending", "released"}]
    /\ client \in [Conns -> {"open", "halfClosed", "closed"}]
    /\ upstream \in [Conns -> {"open", "halfClosed", "closed"}]
    /\ copying \in [Conns -> SUBSET Ways]
    /\ cancelled \in SUBSET Conns
    /\ sessions \in SUBSET Conns
    /\ active \in Nat

\* ActiveConnections counts exactly the sessions that are not released,
\* whether net/http closed their connection or their tunnel ended; and one
\* that is missing from the map, where the forced close would not find it,
\* has its client closed already.
ActiveCounted ==
    LET counted == {c \in Conns : conn[c] \in {"idle", "busy", "tunnel",
                                               "closing", "ending"}}
    IN  /\ active = Cardinality(counted)
        /\ \A c \in counted \ sessions : client[c] = "closed"

\* A client that has sent all it has still gets the rest of the answer, and
\* an upstream likewise: a tunnel ends when neither direction can carry
\* anything more.  The one exception is a CONNECT whose client half-closed, or
\* left, before the tunnel began and had its context cancelled for that: the
\* watcher then cuts off the upstream's answer.
HalfCloseSurvives ==
    [][\A c \in Conns : conn[c] = "tunnel" /\ c \notin cancelled /\ conn'[c] # "tunnel" =>
          \A way \in Ways : Source(c, way) # "open" \/ Destination(c, way) = "closed"]_proxyVars

\* The promise, in terms of this module's state.
Life == INSTANCE ServerLife WITH
    stage <- CASE shutdown = "none" -> "serving"
               [] shutdown = "returned" -> "stopped"
               [] OTHER -> "stopping",
    clients <- \E c \in Conns : client[c] # "closed"

\* When Shutdown has returned nobody is accepted and no client is connected:
\* not a connection accepted while the listener was being closed, not a
\* tunnel net/http knows nothing of, not one whose upstream is silent.
ImplementsServerLife == Life!ServerSpec

\* Shutdown returns, whatever clients and upstreams do: a tunnel that waits
\* for a silent upstream after its client left cannot hold it up.
ShutdownReturns == shutdown = "drain" ~> shutdown = "returned"

\* A tunnel whose two ends are done is released and forgotten.
TunnelForgotten ==
    \A c \in Conns :
        conn[c] = "tunnel" /\ client[c] # "open" /\ upstream[c] # "open"
            ~> conn[c] = "none"
=============================================================================
