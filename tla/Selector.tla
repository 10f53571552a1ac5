------------------------------ MODULE Selector ------------------------------
(***************************************************************************)
(* The round-robin selector of one listener (internal/pool/selector.go):   *)
(* concurrent connection attempts reserve distinct starting points, and    *)
(* their results are retired in ticket order.                              *)
(*                                                                         *)
(* selector.mu makes Begin and finish atomic; an Attempt belongs to one    *)
(* goroutine.  A reservationResult is its target, 0 when not committed     *)
(* (a committed target is at least 1).  A finished Attempt answers every   *)
(* call with an early return, so its fields are reset and the member of    *)
(* Attempts may stand for a new one.                                       *)
(***************************************************************************)
EXTENDS Integers, Sequences

CONSTANTS
    Attempts,         \* bounds the attempts in progress at a time
    CandidateLists,   \* lists of candidate ids that RoutingSnapshot returns
    IDs,              \* candidate ids
    MaxTickets        \* bounds the number of attempts that reserve

ASSUME SelectorAssumption ==
    /\ CandidateLists \subseteq Seq(IDs)
    /\ \A c \in CandidateLists :
          \A i, j \in 1..Len(c) : i # j => c[i] # c[j]
    /\ MaxTickets \in Nat

VARIABLES
    cursor, reservationNext, nextTicket, retireTicket,
    results,          \* ticket -> target, for finished tickets not yet retired
    phase,            \* "idle" (not begun, or finished), "unreserved" or "open"
    candidates,       \* Attempt.candidates: the ids, in order
    eligible,         \* the ids of candidates with Eligible set
    offset, startAbsolute, ticket,
    returned          \* Attempt.returned: id -> offset

selectorVars == <<cursor, reservationNext, nextTicket, retireTicket, results>>
attemptVars == <<phase, candidates, eligible, offset, startAbsolute, ticket,
                 returned>>
vars == <<selectorVars, attemptVars>>

NoIDs == [i \in {} |-> 0]

\* Attempt.start, and the id at an offset from it, counted round the list.
Start(a) == startAbsolute[a] % Len(candidates[a])
At(a, k) == candidates[a][((Start(a) + k) % Len(candidates[a])) + 1]

NewSelector ==
    /\ cursor = 0 /\ reservationNext = 0
    /\ nextTicket = 0 /\ retireTicket = 0
    /\ results = NoIDs
    /\ phase = [a \in Attempts |-> "idle"]
    /\ candidates = [a \in Attempts |-> <<>>]
    /\ eligible = [a \in Attempts |-> {}]
    /\ offset = [a \in Attempts |-> 0]
    /\ startAbsolute = [a \in Attempts |-> 0]
    /\ ticket = [a \in Attempts |-> 0]
    /\ returned = [a \in Attempts |-> NoIDs]

\* The start and the ticket that Begin reserves.
ReserveAtCursor == reservationNext' = reservationNext
Reserve == reservationNext' = reservationNext + 1

\* Without candidates an attempt reserves nothing.
Begin(a, list, usable) ==
    /\ phase[a] # "open"
    /\ candidates' = [candidates EXCEPT ![a] = list]
    /\ eligible' = [eligible EXCEPT ![a] = usable]
    /\ offset' = [offset EXCEPT ![a] = 0]
    /\ returned' = [returned EXCEPT ![a] = NoIDs]
    /\ \/ /\ list = <<>>
          /\ phase' = [phase EXCEPT ![a] = "unreserved"]
          /\ UNCHANGED <<selectorVars, startAbsolute, ticket>>
       \/ /\ list # <<>>
          /\ nextTicket < MaxTickets
          /\ phase' = [phase EXCEPT ![a] = "open"]
          /\ ticket' = [ticket EXCEPT ![a] = nextTicket]
          /\ nextTicket' = nextTicket + 1
          /\ startAbsolute' = [startAbsolute EXCEPT ![a] = reservationNext]
          /\ Reserve
          /\ UNCHANGED <<cursor, retireTicket, results>>

\* Next skips to the first eligible candidate at or after offset.
NextOffsetRestarting(a) ==
    {k \in 0..(Len(candidates[a]) - 1) : At(a, k) \in eligible[a]}
NextOffset(a) ==
    {k \in offset[a]..(Len(candidates[a]) - 1) :
        /\ At(a, k) \in eligible[a]
        /\ \A j \in offset[a]..(k - 1) : At(a, j) \notin eligible[a]}

AttemptNext(a) ==
    /\ phase[a] = "open"
    /\ \E k \in NextOffset(a) :
          /\ offset' = [offset EXCEPT ![a] = k + 1]
          /\ returned' = [returned EXCEPT ![a] =
                 [id \in DOMAIN @ \cup {At(a, k)} |->
                      IF id = At(a, k) THEN k ELSE @[id]]]
    /\ UNCHANGED <<selectorVars, phase, candidates, eligible, startAbsolute, ticket>>

\* Next returns false: it has walked to the end of the list.
AttemptNextExhausted(a) ==
    /\ phase[a] = "open"
    /\ \A k \in offset[a]..(Len(candidates[a]) - 1) : At(a, k) \notin eligible[a]
    /\ offset' = [offset EXCEPT ![a] = Len(candidates[a])]
    /\ UNCHANGED <<selectorVars, phase, candidates, eligible, startAbsolute,
                   ticket, returned>>

\* The target that commits a node returned at offset k.
TargetBackwards(a, k) == startAbsolute[a] - (k + 1)
TargetAtNode(a, k) == startAbsolute[a] + k
Target(a, k) == startAbsolute[a] + k + 1

\* The cursor after retiring the results R: the largest target, if larger.
CursorFollowsLast(R, c) == \/ R = {} /\ c = cursor
                           \/ c \in R /\ c # 0
                           \/ R = {0} /\ c = cursor
CursorAfter(R, c) ==
    /\ c \in R \cup {cursor}
    /\ c >= cursor
    /\ \A target \in R : c >= target

\* When the last outstanding ticket is retired reservations restart at the
\* cursor.
NeverReset(r, c) == reservationNext' = reservationNext
ResetReservations(r, c) ==
    reservationNext' = IF r = nextTicket THEN c ELSE reservationNext

\* finish: store the result, then retire tickets up to the first that has
\* none yet.
finishRetiringOne(t0, target) ==
    /\ IF t0 = retireTicket
         THEN /\ retireTicket' = retireTicket + 1
              /\ CursorAfter({target}, cursor')
              /\ ResetReservations(retireTicket', cursor')
              /\ UNCHANGED results
         ELSE /\ results' = [t \in DOMAIN results \cup {t0} |->
                               IF t = t0 THEN target ELSE results[t]]
              /\ UNCHANGED <<retireTicket, cursor, reservationNext>>
    /\ UNCHANGED nextTicket

finish(t0, target) ==
    LET res == [t \in DOMAIN results \cup {t0} |->
                   IF t = t0 THEN target ELSE results[t]]
    IN  \E r \in retireTicket..nextTicket :
          LET retired == retireTicket..(r - 1)
          IN  /\ retired \subseteq DOMAIN res
              /\ r \notin DOMAIN res
              /\ retireTicket' = r
              /\ results' = [t \in DOMAIN res \ retired |-> res[t]]
              /\ CursorAfter({res[t] : t \in retired}, cursor')
              /\ ResetReservations(r, cursor')
              /\ UNCHANGED nextTicket

\* attempt.finished is set.
Finished(a) ==
    /\ phase' = [phase EXCEPT ![a] = "idle"]
    /\ candidates' = [candidates EXCEPT ![a] = <<>>]
    /\ eligible' = [eligible EXCEPT ![a] = {}]
    /\ offset' = [offset EXCEPT ![a] = 0]
    /\ startAbsolute' = [startAbsolute EXCEPT ![a] = 0]
    /\ ticket' = [ticket EXCEPT ![a] = 0]
    /\ returned' = [returned EXCEPT ![a] = NoIDs]

Commit(a, id) ==
    /\ phase[a] = "open"
    /\ id \in DOMAIN returned[a]
    /\ finish(ticket[a], Target(a, returned[a][id]))
    /\ Finished(a)

Abort(a) ==
    /\ phase[a] = "open"
    /\ finish(ticket[a], 0)
    /\ Finished(a)

SelectorNext ==
    \E a \in Attempts :
        \/ \E list \in CandidateLists :
              \E usable \in SUBSET {list[i] : i \in 1..Len(list)} :
                 Begin(a, list, usable)
        \/ AttemptNext(a)
        \/ AttemptNextExhausted(a)
        \/ \E id \in IDs : Commit(a, id)
        \/ Abort(a)

SelectorSpec == NewSelector /\ [][SelectorNext]_vars

-----------------------------------------------------------------------------
(* Properties *)

Open == {a \in Attempts : phase[a] = "open"}

\* Every variable has its type.
SelectorTypeOK ==
    /\ cursor \in Nat /\ reservationNext \in Nat
    /\ nextTicket \in 0..MaxTickets /\ retireTicket \in 0..MaxTickets
    /\ DOMAIN results \subseteq Nat
    /\ \A t \in DOMAIN results : results[t] \in Nat
    /\ phase \in [Attempts -> {"idle", "unreserved", "open"}]
    /\ candidates \in [Attempts -> CandidateLists \cup {<<>>}]
    /\ eligible \in [Attempts -> SUBSET IDs]
    /\ offset \in [Attempts -> Nat]
    /\ startAbsolute \in [Attempts -> Nat]
    /\ ticket \in [Attempts -> Nat]
    /\ DOMAIN returned = Attempts
    /\ \A a \in Attempts : /\ DOMAIN returned[a] \subseteq IDs
                           /\ \A id \in DOMAIN returned[a] : returned[a][id] \in Nat

\* Attempts in progress have reserved different starts: however results are
\* retired, no reset of reservationNext hands out a start that is taken.  And
\* while no more tickets are outstanding than a list has candidates, attempts
\* on lists of that length begin at different places: concurrent connections
\* spread over the pool.
DistinctStarts ==
    \A a, b \in Open : a # b =>
        /\ startAbsolute[a] # startAbsolute[b]
        /\ ticket[a] # ticket[b]
        /\ LET n == Len(candidates[a])
           IN  Len(candidates[b]) = n /\ nextTicket - retireTicket <= n =>
                   Start(a) # Start(b)

\* Every ticket that is not retired belongs to one attempt in progress or has
\* its result stored, never both, and the one to retire next has none: results
\* wait for an attempt that can still finish, and none is lost or retired twice.
TicketsAccounted ==
    /\ retireTicket <= nextTicket
    /\ retireTicket \notin DOMAIN results
    /\ DOMAIN results \cup {ticket[a] : a \in Open} = retireTicket..(nextTicket - 1)
    /\ DOMAIN results \cap {ticket[a] : a \in Open} = {}

\* With no attempt in progress the next start is the committed cursor, so
\* attempts that failed leave the rotation where the last success put it.
QuiescentAtCursor ==
    Open = {} => reservationNext = cursor /\ DOMAIN results = {}

\* An attempt has been offered exactly the eligible candidates it walked past,
\* each at its place: none twice, none skipped, none that was not eligible.
OfferedInOrder ==
    \A a \in Open :
        /\ offset[a] <= Len(candidates[a])
        /\ DOMAIN returned[a] =
              {At(a, k) : k \in 0..(offset[a] - 1)} \cap eligible[a]
        /\ \A id \in DOMAIN returned[a] : /\ returned[a][id] < offset[a]
                                          /\ At(a, returned[a][id]) = id

\* Committing a node moves the cursor to the node behind it: a later attempt
\* that starts at the target, on the same list, is offered the next one first.
CommitStartsBehindNode ==
    \A a \in Open : \A id \in DOMAIN returned[a] :
        LET n == Len(candidates[a])
            target == Target(a, returned[a][id])
        IN  \A i \in 1..n : candidates[a][i] = id =>
                candidates[a][(target % n) + 1] = candidates[a][(i % n) + 1]

\* No success is forgotten, in whatever order attempts finish: a committed target
\* moves the cursor to it or behind it, or waits among the results for older
\* tickets, and goes on waiting until the cursor has reached it.
SuccessesKept ==
    [][/\ \A a \in Open : \A id \in DOMAIN returned[a] : Commit(a, id) =>
             LET target == Target(a, returned[a][id])
             IN  \/ cursor' >= target
                 \/ ticket[a] \in DOMAIN results' /\ results'[ticket[a]] = target
       /\ \A t \in DOMAIN results :
             \/ cursor' >= results[t]
             \/ t \in DOMAIN results' /\ results'[t] = results[t]]_vars
=============================================================================
