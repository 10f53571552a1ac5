---------------------------- MODULE ProxyProofs -----------------------------
(***************************************************************************)
(* Proofs about the proxy server for any number of connections: its count  *)
(* and map of connections, its tunnels, and that it implements ServerLife. *)
(*                                                                         *)
(* ActiveCounted is not inductive: a release in a state that nobody can    *)
(* reach would count below zero, and a session the map lost could have an  *)
(* open client.  ProxyInv says for each state of a connection whether it   *)
(* is in the map and may have a client, what a finished copy has seen, and *)
(* what Serve can still do in each phase of Shutdown.                      *)
(***************************************************************************)
EXTENDS Proxy, FiniteSetTheorems, TLAPS

CountedStates == {"idle", "busy", "tunnel", "closing", "ending"}
Counted == {c \in Conns : conn[c] \in CountedStates}

\* active is the number of sessions that are not released.
CountInv == active = Cardinality(Counted)

\* The map holds the sessions from Track to CloseConn or Forget, and a
\* connection outside these states, or about to leave them, has no client.
MapInv ==
    \A c \in Conns :
        /\ c \in sessions <=> conn[c] \in {"idle", "busy", "tunnel", "ending", "released"}
        /\ conn[c] \in {"none", "closing", "ending", "released"} => client[c] = "closed"

\* A copy of a tunnel whose context is not done has returned for a reason that
\* stays, and no context is cancelled once the tunnel has begun.
CopyInv ==
    \A c \in Conns : conn[c] = "tunnel" /\ c \notin cancelled =>
        \A way \in Ways \ copying[c] : Source(c, way) # "open" \/ Destination(c, way) = "closed"

\* Who can still come: nobody is accepted once Shutdown has begun, nobody is
\* untracked once Serve has returned, which it has when the polling begins, and
\* after the forced close no client is left.
ServeInv ==
    /\ serve = "accepting" /\ listener = "open" => shutdown = "none"
    /\ Pending # {} => serve = "accepting"
    /\ shutdown \in {"poll", "force", "returned"} => serve # "accepting"
    /\ shutdown \in {"force", "returned"} => \A c \in Conns : client[c] = "closed"

ProxyInv == ProxyTypeOK /\ CountInv /\ MapInv /\ CopyInv /\ ServeInv

\* The invariant holds before anything runs.
LEMMA ProxyInitInv == ProxyInit => ProxyInv
<1> SUFFICES ASSUME ProxyInit PROVE ProxyInv
  OBVIOUS
<1> USE DEF ProxyInit
<1>1. Counted = {} /\ Pending = {}
  BY DEF Counted, CountedStates, Pending
<1>2. CountInv
  BY <1>1, FS_EmptySet DEF CountInv
<1> QED BY <1>1, <1>2 DEF ProxyInv, ProxyTypeOK, MapInv, CopyInv, ServeInv

-----------------------------------------------------------------------------
(* The count *)

\* The counted sessions are finitely many, and how a change of one
\* connection's state changes them.
LEMMA CountedFinite == IsFiniteSet(Counted) /\ Cardinality(Counted) \in Nat
BY ProxyAssumption, FS_Subset, FS_CardinalityType DEF Counted

LEMMA CountedAfter ==
  ASSUME ProxyTypeOK, NEW c \in Conns, NEW state, SetConn(c, state)
  PROVE  Counted' = IF state \in CountedStates THEN Counted \cup {c} ELSE Counted \ {c}
BY DEF ProxyTypeOK, SetConn, Counted, CountedStates

\* A step within the counted states, or outside them, leaves the count right.
LEMMA CountKept ==
  ASSUME ProxyInv, NEW c \in Conns, NEW state, SetConn(c, state),
         conn[c] \in CountedStates <=> state \in CountedStates, active' = active
  PROVE  CountInv'
<1>1. Counted' = Counted
  BY CountedAfter DEF ProxyInv, Counted
<1> QED BY <1>1 DEF ProxyInv, CountInv

\* ConnContext counts a session that was not counted.
LEMMA CountUp ==
  ASSUME ProxyInv, NEW c \in Conns, NEW state, SetConn(c, state),
         conn[c] \notin CountedStates, state \in CountedStates, active' = active + 1
  PROVE  CountInv' /\ active' \in Nat
<1>1. Counted' = Counted \cup {c} /\ c \notin Counted
  BY CountedAfter DEF ProxyInv, Counted
<1>2. Cardinality(Counted') = Cardinality(Counted) + 1
  BY <1>1, CountedFinite, FS_AddElement
<1> QED BY <1>2 DEF ProxyInv, CountInv, ProxyTypeOK

\* release takes off one that was, so the count stays a number.
LEMMA CountDown ==
  ASSUME ProxyInv, NEW c \in Conns, NEW state, SetConn(c, state),
         conn[c] \in CountedStates, state \notin CountedStates, active' = active - 1
  PROVE  CountInv' /\ active' \in Nat
<1>1. Counted' = Counted \ {c} /\ c \in Counted
  BY CountedAfter DEF ProxyInv, Counted
<1>2. Cardinality(Counted') = Cardinality(Counted) - 1
  BY <1>1, CountedFinite, FS_RemoveElement
<1>3. Cardinality(Counted) # 0
  BY <1>1, CountedFinite, FS_EmptySet
<1> QED BY <1>2, <1>3, CountedFinite DEF ProxyInv, CountInv

\* Nothing is counted: nobody but a connection not yet tracked has a client.
LEMMA NoneCounted ==
  ASSUME ProxyInv, active = 0, Pending = {}
  PROVE  \A c \in Conns : client[c] = "closed"
<1>1. Counted = {}
  BY CountedFinite, FS_EmptySet DEF ProxyInv, CountInv
<1> QED BY <1>1 DEF ProxyInv, ProxyTypeOK, MapInv, Counted, CountedStates, Pending

-----------------------------------------------------------------------------
(* Serve and Shutdown *)

\* Steps that leave every connection alone: what is left is ServeInv.
LEMMA ConnsAlone ==
  ASSUME ProxyInv, UNCHANGED <<conn, endVars, countVars>>
  PROVE  /\ CountInv' /\ MapInv' /\ CopyInv' /\ Pending' = Pending
         /\ ProxyTypeOK' <=> /\ listener' \in {"none", "open", "closed"}
                             /\ serve' \in {"none", "starting", "accepting", "failed", "closed"}
                             /\ shutdown' \in {"none", "drain", "poll", "force", "returned"}
                             /\ drainOver' \in BOOLEAN
<1> USE DEF endVars, countVars
<1>1. Counted' = Counted /\ Pending' = Pending
  BY DEF Counted, Pending
<1>2. CountInv' /\ MapInv' /\ CopyInv'
  BY <1>1 DEF ProxyInv, CountInv, MapInv, CopyInv, Source, Destination
<1> QED BY <1>1, <1>2 DEF ProxyInv, ProxyTypeOK

\* Serve and the beginning and the end of Shutdown preserve the invariant.
LEMMA ServeStep ==
  ASSUME ProxyInv,
         CallServe \/ ServeBegins \/ ServeReturns \/ CallShutdown \/ DrainExpires
           \/ Drained \/ PollEnds \/ ForceEnds
  PROVE  ProxyInv'
<1>0. UNCHANGED <<conn, endVars, countVars>>
  BY DEF CallServe, ServeBegins, ServeReturns, CallShutdown, DrainExpires, Drained,
         PollEnds, ForceEnds
<1>1. client' = client /\ Pending' = Pending
  BY <1>0, ConnsAlone DEF endVars
<1>2. ProxyTypeOK'
  BY <1>0, ConnsAlone
     DEF ProxyInv, ProxyTypeOK, CallServe, ServeBegins, ServeReturns, CallShutdown,
         DrainExpires, Drained, PollEnds, ForceEnds
<1>3. ServeInv'
  <2>1. CASE CallServe
    BY <1>1, <2>1 DEF CallServe, ProxyInv, ServeInv
  <2>2. CASE ServeBegins
    BY <1>1, <2>2 DEF ServeBegins, ProxyInv, ServeInv
  <2>3. CASE ServeReturns
    BY <1>1, <2>3 DEF ServeReturns, ProxyInv, ServeInv
  <2>4. CASE CallShutdown
    BY <1>1, <2>4 DEF CallShutdown, ProxyInv, ServeInv
  <2>5. CASE DrainExpires
    BY <1>1, <2>5 DEF DrainExpires, ProxyInv, ServeInv
  <2>6. CASE Drained
    BY <1>1, <2>6 DEF Drained, ProxyInv, ServeInv
  <2>7. CASE PollEnds
    <3>1. \A c \in Conns : client[c] = "closed"
      BY <2>7, NoneCounted DEF PollEnds, ProxyInv, ServeInv
    <3> QED BY <1>1, <2>7, <3>1 DEF PollEnds, ProxyInv, ServeInv
  <2>8. CASE ForceEnds
    BY <1>1, <2>8 DEF ForceEnds, ProxyInv, ServeInv
  <2> QED BY <2>1, <2>2, <2>3, <2>4, <2>5, <2>6, <2>7, <2>8
<1> QED BY <1>0, <1>2, <1>3, ConnsAlone DEF ProxyInv

\* The forced close reaches everybody who is still connected: sessions in the
\* map it closes, the others have no client.
LEMMA ForceCloseStep ==
  ASSUME ProxyInv, ForceClose
  PROVE  ProxyInv' /\ \A c \in Conns : client'[c] = "closed"
<1> USE DEF ForceClose, ClosedByForce, countVars
<1>1. Counted' = Counted /\ Pending' = Pending /\ Pending = {}
  BY DEF Counted, Pending, ProxyInv, ServeInv
<1>2. \A c \in Conns : client'[c] = "closed"
  BY <1>1 DEF ProxyInv, ProxyTypeOK, MapInv, Pending
<1>3. ProxyTypeOK'
  BY DEF ProxyInv, ProxyTypeOK
<1>4. CopyInv'
  BY <1>2 DEF ProxyInv, ProxyTypeOK, CopyInv, Source, Destination, Ways
<1>5. CountInv' /\ MapInv'
  BY <1>1, <1>2 DEF ProxyInv, CountInv, MapInv
<1>6. ServeInv'
  BY <1>1, <1>2 DEF ProxyInv, ServeInv
<1> QED BY <1>2, <1>3, <1>4, <1>5, <1>6 DEF ProxyInv

-----------------------------------------------------------------------------
(* Connections *)

\* A step of a connection that neither leaves one untracked nor opens a client
\* cannot disturb ServeInv.
LEMMA ServeKept ==
  ASSUME ProxyInv, UNCHANGED serveVars, Pending' \subseteq Pending,
         \A c \in Conns : client[c] = "closed" => client'[c] = "closed"
  PROVE  ServeInv'
BY DEF ProxyInv, ServeInv, serveVars

\* A step that leaves the states of connections alone keeps the counted ones.
LEMMA CountAlone ==
  ASSUME ProxyInv, UNCHANGED <<conn, active>>
  PROVE  CountInv' /\ Pending' = Pending
<1>1. Counted' = Counted /\ Pending' = Pending
  BY DEF Counted, Pending
<1> QED BY <1>1 DEF ProxyInv, CountInv

\* Accept, and what net/http does with a connection.
LEMMA ServerConnStep ==
  ASSUME ProxyInv, NEW c \in Conns,
         Accept(c) \/ Track(c) \/ Request(c) \/ KeepAlive(c) \/ CloseConn(c)
  PROVE  ProxyInv'
<1> USE DEF serveVars, endVars, countVars
<1>1. CASE Accept(c)
  <2> USE <1>1 DEF Accept
  <2>1. ProxyTypeOK'
    BY DEF ProxyInv, ProxyTypeOK, SetConn
  <2>2. CountInv'
    BY CountKept DEF CountedStates
  <2>3. MapInv'
    BY DEF ProxyInv, ProxyTypeOK, MapInv, SetConn
  <2>4. CopyInv'
    BY DEF ProxyInv, ProxyTypeOK, CopyInv, Source, Destination, SetConn, Ways
  <2>5. ServeInv'
    BY DEF ServeInv, Pending, SetConn, ProxyInv, ProxyTypeOK
  <2> QED BY <2>1, <2>2, <2>3, <2>4, <2>5 DEF ProxyInv
<1>2. CASE Track(c)
  <2> USE <1>2 DEF Track
  <2>1. ProxyTypeOK'
    BY CountUp DEF ProxyInv, ProxyTypeOK, SetConn, CountedStates
  <2>2. CountInv'
    BY CountUp DEF CountedStates
  <2>3. MapInv'
    BY DEF ProxyInv, ProxyTypeOK, MapInv, SetConn
  <2>4. CopyInv'
    BY DEF ProxyInv, ProxyTypeOK, CopyInv, Source, Destination, SetConn, Ways
  <2>5. ServeInv'
    BY ServeKept DEF Pending, SetConn, ProxyInv, ProxyTypeOK
  <2> QED BY <2>1, <2>2, <2>3, <2>4, <2>5 DEF ProxyInv
<1>3. CASE Request(c)
  <2> USE <1>3 DEF Request
  <2>1. ProxyTypeOK'
    BY DEF ProxyInv, ProxyTypeOK, SetConn
  <2>2. CountInv'
    BY CountKept DEF CountedStates
  <2>3. MapInv'
    BY DEF ProxyInv, ProxyTypeOK, MapInv, SetConn
  <2>4. CopyInv'
    BY DEF ProxyInv, ProxyTypeOK, CopyInv, Source, Destination, SetConn, Ways
  <2>5. ServeInv'
    BY ServeKept DEF Pending, SetConn, ProxyInv, ProxyTypeOK
  <2> QED BY <2>1, <2>2, <2>3, <2>4, <2>5 DEF ProxyInv
<1>4. CASE KeepAlive(c)
  <2> USE <1>4 DEF KeepAlive
  <2>1. ProxyTypeOK'
    BY DEF ProxyInv, ProxyTypeOK, SetConn
  <2>2. CountInv'
    BY CountKept DEF CountedStates
  <2>3. MapInv'
    BY DEF ProxyInv, ProxyTypeOK, MapInv, SetConn
  <2>4. CopyInv'
    BY DEF ProxyInv, ProxyTypeOK, CopyInv, Source, Destination, SetConn, Ways
  <2>5. ServeInv'
    BY ServeKept DEF Pending, SetConn, ProxyInv, ProxyTypeOK
  <2> QED BY <2>1, <2>2, <2>3, <2>4, <2>5 DEF ProxyInv
<1>5. CASE CloseConn(c)
  <2> USE <1>5 DEF CloseConn
  <2>1. ProxyTypeOK'
    BY DEF ProxyInv, ProxyTypeOK, SetConn
  <2>2. CountInv'
    BY CountKept DEF CountedStates
  <2>3. MapInv'
    BY DEF ProxyInv, ProxyTypeOK, MapInv, SetConn
  <2>4. CopyInv'
    BY DEF ProxyInv, ProxyTypeOK, CopyInv, Source, Destination, SetConn, Ways
  <2>5. ServeInv'
    BY ServeKept DEF Pending, SetConn, ProxyInv, ProxyTypeOK
  <2> QED BY <2>1, <2>2, <2>3, <2>4, <2>5 DEF ProxyInv
<1> QED BY <1>1, <1>2, <1>3, <1>4, <1>5

\* Hijacking, the end of a tunnel, and releasing and forgetting its session.
LEMMA TunnelConnStep ==
  ASSUME ProxyInv, NEW c \in Conns,
         Hijack(c) \/ HijackInVain(c) \/ EndTunnel(c) \/ Release(c) \/ Forget(c)
  PROVE  ProxyInv'
<1> USE DEF serveVars, endVars, countVars
<1>1. CASE Hijack(c)
  <2> USE <1>1 DEF Hijack
  <2>1. ProxyTypeOK'
    BY DEF ProxyInv, ProxyTypeOK, SetConn, Ways
  <2>2. CountInv'
    BY CountKept DEF CountedStates
  <2>3. MapInv'
    BY DEF ProxyInv, ProxyTypeOK, MapInv, SetConn
  <2>4. CopyInv'
    BY DEF ProxyInv, ProxyTypeOK, CopyInv, Source, Destination, SetConn, Ways
  <2>5. ServeInv'
    BY ServeKept DEF Pending, SetConn, ProxyInv, ProxyTypeOK
  <2> QED BY <2>1, <2>2, <2>3, <2>4, <2>5 DEF ProxyInv
<1>2. CASE HijackInVain(c)
  <2> USE <1>2 DEF HijackInVain
  <2>1. ProxyTypeOK'
    BY DEF ProxyInv, ProxyTypeOK, SetConn
  <2>2. CountInv'
    BY CountKept DEF CountedStates
  <2>3. MapInv'
    BY DEF ProxyInv, ProxyTypeOK, MapInv, SetConn
  <2>4. CopyInv'
    BY DEF ProxyInv, ProxyTypeOK, CopyInv, Source, Destination, SetConn, Ways
  <2>5. ServeInv'
    BY ServeKept DEF Pending, SetConn, ProxyInv, ProxyTypeOK
  <2> QED BY <2>1, <2>2, <2>3, <2>4, <2>5 DEF ProxyInv
<1>3. CASE EndTunnel(c)
  <2> USE <1>3 DEF EndTunnel
  <2>1. ProxyTypeOK'
    BY DEF ProxyInv, ProxyTypeOK, SetConn
  <2>2. CountInv'
    BY CountKept DEF CountedStates
  <2>3. MapInv'
    BY DEF ProxyInv, ProxyTypeOK, MapInv, SetConn
  <2>4. CopyInv'
    BY DEF ProxyInv, ProxyTypeOK, CopyInv, Source, Destination, SetConn, Ways
  <2>5. ServeInv'
    BY ServeKept DEF Pending, SetConn, ProxyInv, ProxyTypeOK
  <2> QED BY <2>1, <2>2, <2>3, <2>4, <2>5 DEF ProxyInv
<1>4. CASE Release(c)
  <2> USE <1>4 DEF Release
  <2>1. ProxyTypeOK'
    BY CountDown DEF ProxyInv, ProxyTypeOK, SetConn, CountedStates
  <2>2. CountInv'
    BY CountDown DEF CountedStates
  <2>3. MapInv'
    BY DEF ProxyInv, ProxyTypeOK, MapInv, SetConn
  <2>4. CopyInv'
    BY DEF ProxyInv, ProxyTypeOK, CopyInv, Source, Destination, SetConn, Ways
  <2>5. ServeInv'
    BY ServeKept DEF Pending, SetConn, ProxyInv, ProxyTypeOK
  <2> QED BY <2>1, <2>2, <2>3, <2>4, <2>5 DEF ProxyInv
<1>5. CASE Forget(c)
  <2> USE <1>5 DEF Forget
  <2>1. ProxyTypeOK'
    BY DEF ProxyInv, ProxyTypeOK, SetConn
  <2>2. CountInv'
    BY CountKept DEF CountedStates
  <2>3. MapInv'
    BY DEF ProxyInv, ProxyTypeOK, MapInv, SetConn
  <2>4. CopyInv'
    BY DEF ProxyInv, ProxyTypeOK, CopyInv, Source, Destination, SetConn, Ways
  <2>5. ServeInv'
    BY ServeKept DEF Pending, SetConn, ProxyInv, ProxyTypeOK
  <2> QED BY <2>1, <2>2, <2>3, <2>4, <2>5 DEF ProxyInv
<1> QED BY <1>1, <1>2, <1>3, <1>4, <1>5

\* The ends of a connection close, and copies stop for it.
LEMMA EndsStep ==
  ASSUME ProxyInv, NEW c \in Conns,
         \/ ClientEnds(c) \/ ContextDone(c) \/ UpstreamEnds(c)
         \/ \E way \in Ways : CopyReadsEnd(c, way) \/ CopyWriteFails(c, way)
                                \/ DeadlineEnds(c, way)
  PROVE  ProxyInv'
<1> USE DEF serveVars, endVars, countVars
<1>0. UNCHANGED <<serveVars, conn, sessions, active>>
  BY DEF ClientEnds, ContextDone, UpstreamEnds, CopyReadsEnd, CopyWriteFails, DeadlineEnds
<1>1. CountInv' /\ Pending' = Pending
  BY <1>0, CountAlone
<1>2. CASE ClientEnds(c)
  <2> USE <1>2 DEF ClientEnds
  <2>1. ProxyTypeOK'
    BY DEF ProxyInv, ProxyTypeOK
  <2>2. MapInv'
    BY DEF ProxyInv, ProxyTypeOK, MapInv
  <2>3. CopyInv'
    BY DEF ProxyInv, ProxyTypeOK, CopyInv, Source, Destination, Ways
  <2>4. ServeInv'
    BY <1>1, ServeKept DEF ProxyInv, ProxyTypeOK
  <2> QED BY <1>1, <2>1, <2>2, <2>3, <2>4 DEF ProxyInv
<1>3. CASE UpstreamEnds(c)
  <2> USE <1>3 DEF UpstreamEnds
  <2>1. ProxyTypeOK' /\ MapInv'
    BY DEF ProxyInv, ProxyTypeOK, MapInv
  <2>2. CopyInv'
    BY DEF ProxyInv, ProxyTypeOK, CopyInv, Source, Destination, Ways
  <2>3. ServeInv'
    BY <1>1, ServeKept
  <2> QED BY <1>1, <2>1, <2>2, <2>3 DEF ProxyInv
<1>4. ASSUME NEW way \in Ways,
             CopyReadsEnd(c, way) \/ CopyWriteFails(c, way) \/ DeadlineEnds(c, way)
      PROVE  ProxyInv'
  <2> USE <1>4 DEF CopyReadsEnd, CopyWriteFails, DeadlineEnds
  <2>1. ProxyTypeOK' /\ MapInv'
    BY DEF ProxyInv, ProxyTypeOK, MapInv
  <2>2. CopyInv'
    BY DEF ProxyInv, ProxyTypeOK, CopyInv, Source, Destination, Ways
  <2>3. ServeInv'
    BY <1>1, ServeKept
  <2> QED BY <1>1, <2>1, <2>2, <2>3 DEF ProxyInv
<1>5. CASE ContextDone(c)
  <2> USE <1>5 DEF ContextDone
  <2>1. ProxyTypeOK' /\ MapInv'
    BY DEF ProxyInv, ProxyTypeOK, MapInv
  <2>2. CopyInv'
    BY DEF ProxyInv, ProxyTypeOK, CopyInv, Source, Destination, Ways
  <2>3. ServeInv'
    BY <1>1, ServeKept
  <2> QED BY <1>1, <2>1, <2>2, <2>3 DEF ProxyInv
<1> QED BY <1>2, <1>3, <1>4, <1>5

-----------------------------------------------------------------------------
(* The theorems *)

\* Every step of the server preserves the invariant.
LEMMA ProxyNextInv == ProxyInv /\ [ProxyNext]_proxyVars => ProxyInv'
<1> SUFFICES ASSUME ProxyInv, [ProxyNext]_proxyVars PROVE ProxyInv'
  OBVIOUS
<1>1. ASSUME NEW c \in Conns, ConnStep(c) PROVE ProxyInv'
  BY <1>1, ServerConnStep, TunnelConnStep, EndsStep DEF ConnStep
<1>2. CASE UNCHANGED proxyVars
  <2>1. UNCHANGED <<conn, endVars, countVars>> /\ UNCHANGED serveVars
    BY <1>2 DEF proxyVars
  <2>2. ServeInv'
    BY <2>1, ConnsAlone DEF ProxyInv, ServeInv, serveVars, endVars
  <2>3. ProxyTypeOK'
    BY <2>1, ConnsAlone DEF ProxyInv, ProxyTypeOK, serveVars
  <2> QED BY <2>1, <2>2, <2>3, ConnsAlone DEF ProxyInv
<1> QED BY <1>1, <1>2, ServeStep, ForceCloseStep DEF ProxyNext, ShutdownStep

\* The inductive invariant of the proxy server, for any number of connections.
THEOREM ProxyInvariance == ProxySpec => []ProxyInv
BY ProxyInitInv, ProxyNextInv, PTL DEF ProxySpec

\* Type correctness; with it, that Server.active never falls below zero.
THEOREM ProxyTypeCorrect == ProxySpec => []ProxyTypeOK
<1>1. ProxyInv => ProxyTypeOK
  BY DEF ProxyInv
<1> QED BY <1>1, ProxyInvariance, PTL

\* ActiveConnections counts exactly the sessions that are not released, and
\* the forced close misses none that still has a client.
THEOREM ProxyActiveCounted == ProxySpec => []ActiveCounted
<1>1. ProxyInv => ActiveCounted
  BY DEF ProxyInv, CountInv, MapInv, Counted, CountedStates, ActiveCounted
<1> QED BY <1>1, ProxyInvariance, PTL

\* A tunnel whose context was not cancelled before it began ends only when
\* neither direction can carry anything more.
THEOREM ProxyHalfCloseSurvives == ProxySpec => HalfCloseSurvives
<1> DEFINE Survives ==
      \A c \in Conns : conn[c] = "tunnel" /\ c \notin cancelled /\ conn'[c] # "tunnel" =>
          \A way \in Ways : Source(c, way) # "open" \/ Destination(c, way) = "closed"
<1>1. ProxyInv /\ [ProxyNext]_proxyVars => [Survives]_proxyVars
  <2> SUFFICES ASSUME ProxyInv, ProxyNext, NEW c \in Conns, conn[c] = "tunnel",
                      c \notin cancelled, conn'[c] # "tunnel", NEW way \in Ways
               PROVE  Source(c, way) # "open" \/ Destination(c, way) = "closed"
    OBVIOUS
  <2>1. conn' # conn
    OBVIOUS
  <2>2. PICK d \in Conns : ConnStep(d)
    BY <2>1 DEF ProxyNext, CallServe, ServeBegins, ServeReturns, CallShutdown,
                DrainExpires, ShutdownStep, Drained, PollEnds, ForceClose, ForceEnds
  <2>3. EndTunnel(c)
    BY <2>2 DEF ConnStep, Accept, Track, Request, KeepAlive, CloseConn, ClientEnds,
                ContextDone, UpstreamEnds, Hijack, HijackInVain, CopyReadsEnd,
                CopyWriteFails, DeadlineEnds, EndTunnel, Release, Forget, SetConn, ProxyInv, ProxyTypeOK
  <2> QED BY <2>3 DEF EndTunnel, CopiesDone, ProxyInv, CopyInv
<1> QED BY <1>1, ProxyInvariance, PTL DEF ProxySpec, HalfCloseSurvives

-----------------------------------------------------------------------------
(* The refinement *)

Connected == \E c \in Conns : client[c] # "closed"

\* A step that leaves Serve and Shutdown alone and opens no client makes the
\* last one leave, or changes nothing the application sees.
LEMMA ClientsOnlyGo ==
  ASSUME UNCHANGED serveVars, \A c \in Conns : client[c] = "closed" => client'[c] = "closed"
  PROVE  Life!ClientsGo \/ UNCHANGED Life!serverVars
<1>1. Connected' => Connected
  BY DEF Connected
<1>2. CASE Connected /\ ~Connected'
  BY <1>2 DEF Life!ClientsGo, Connected, serveVars
<1>3. CASE Connected' <=> Connected
  BY <1>3 DEF Life!serverVars, Connected, serveVars
<1> QED BY <1>1, <1>2, <1>3

\* A connection's step: somebody comes, somebody goes, or nobody notices.
LEMMA ConnStepServes ==
  ASSUME ProxyInv, NEW c \in Conns, ConnStep(c)
  PROVE  Life!ClientComes \/ Life!ClientsGo \/ UNCHANGED Life!serverVars
<1>1. CASE Accept(c)
  <2>1. /\ shutdown = "none" /\ serve = "accepting" /\ UNCHANGED serveVars
        /\ Connected'
    BY <1>1 DEF Accept, Connected, ProxyInv, ProxyTypeOK, ServeInv
  <2>2. CASE Connected
    BY <2>1, <2>2 DEF Life!serverVars, Connected, serveVars
  <2>3. CASE ~Connected
    BY <2>1, <2>3 DEF Life!ClientComes, Connected, serveVars
  <2> QED BY <2>2, <2>3
<1>2. CASE ~Accept(c)
  <2>1. UNCHANGED serveVars /\ \A d \in Conns : client[d] = "closed" => client'[d] = "closed"
    BY <1>2 DEF ConnStep, Track, Request, KeepAlive, CloseConn, ClientEnds, ContextDone,
                UpstreamEnds, Hijack, HijackInVain, CopyReadsEnd, CopyWriteFails,
                DeadlineEnds, EndTunnel, Release, Forget, endVars, ProxyInv, ProxyTypeOK
  <2> QED BY <2>1, ClientsOnlyGo
<1> QED BY <1>1, <1>2

\* The steps of Serve and Shutdown.  Shutdown returns when nobody is connected:
\* because nothing is counted, or after the forced close.
LEMMA ServeStepServes ==
  ASSUME ProxyInv,
         CallServe \/ ServeBegins \/ ServeReturns \/ CallShutdown \/ DrainExpires
           \/ Drained \/ PollEnds \/ ForceEnds
  PROVE  Life!ServerNext \/ UNCHANGED Life!serverVars
<1>0. client' = client
  BY DEF CallServe, ServeBegins, ServeReturns, CallShutdown, DrainExpires, Drained,
         PollEnds, ForceEnds, endVars
<1>1. CASE CallServe
  BY <1>0, <1>1 DEF CallServe, Life!ServerNext, Life!CallServe
<1>2. CASE ServeBegins
  BY <1>0, <1>2 DEF ServeBegins, Life!ServerNext, Life!ServeBegins, ProxyInv, ProxyTypeOK
<1>3. CASE ServeReturns
  BY <1>0, <1>3 DEF ServeReturns, Life!ServerNext, Life!ServeReturns, ProxyInv, ProxyTypeOK
<1>4. CASE CallShutdown
  BY <1>0, <1>4 DEF CallShutdown, Life!ServerNext, Life!CallShutdown
<1>5. CASE DrainExpires
  BY <1>0, <1>5 DEF DrainExpires, Life!serverVars
<1>6. CASE Drained
  BY <1>0, <1>6 DEF Drained, Life!serverVars
<1>7. CASE PollEnds \/ ForceEnds
  <2>1. /\ shutdown \in {"poll", "force"} /\ shutdown' = "returned" /\ serve # "accepting"
        /\ UNCHANGED serve
    BY <1>7 DEF PollEnds, ForceEnds, ProxyInv, ServeInv
  <2>2. ~Connected
    BY <1>7, <2>1, NoneCounted DEF PollEnds, ForceEnds, Connected, ProxyInv, ServeInv
  <2> QED BY <1>0, <2>1, <2>2 DEF Connected, Life!ServerNext, Life!ShutdownEnds
<1> QED BY <1>1, <1>2, <1>3, <1>4, <1>5, <1>6, <1>7

\* The forced close makes everybody go while Shutdown is under way.
LEMMA ForceCloseServes ==
  ASSUME ProxyInv, ForceClose
  PROVE  Life!ClientsGo \/ UNCHANGED Life!serverVars
<1>1. ~Connected' /\ shutdown = "poll" /\ shutdown' = "force" /\ UNCHANGED serve
  BY ForceCloseStep DEF ForceClose, Connected
<1>2. CASE Connected
  BY <1>1, <1>2 DEF Connected, Life!ClientsGo
<1>3. CASE ~Connected
  BY <1>1, <1>3 DEF Connected, Life!serverVars
<1> QED BY <1>2, <1>3

\* Every behaviour of the proxy server is one ServerLife allows: when Shutdown
\* has returned, Serve has and no client is connected, for any number of
\* connections, tunnels and clients that come while the listener is closed.
THEOREM ProxyImplementsServerLife == ProxySpec => ImplementsServerLife
<1>1. ProxyInit => Life!ServerInit
  BY DEF ProxyInit, Life!ServerInit
<1>2. ProxyInv /\ [ProxyNext]_proxyVars => [Life!ServerNext]_(Life!serverVars)
  <2> SUFFICES ASSUME ProxyInv, [ProxyNext]_proxyVars
               PROVE  Life!ServerNext \/ UNCHANGED Life!serverVars
    OBVIOUS
  <2>1. ASSUME NEW c \in Conns, ConnStep(c)
        PROVE  Life!ServerNext \/ UNCHANGED Life!serverVars
    BY <2>1, ConnStepServes DEF Life!ServerNext
  <2>2. CASE UNCHANGED proxyVars
    BY <2>2 DEF proxyVars, serveVars, endVars, Life!serverVars
  <2>3. CASE ForceClose
    BY <2>3, ForceCloseServes DEF Life!ServerNext
  <2> QED BY <2>1, <2>2, <2>3, ServeStepServes DEF ProxyNext, ShutdownStep
<1> QED BY <1>1, <1>2, ProxyInvariance, PTL DEF ProxySpec, ImplementsServerLife, Life!ServerSpec
=============================================================================
