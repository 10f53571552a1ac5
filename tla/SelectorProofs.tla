--------------------------- MODULE SelectorProofs ---------------------------
(***************************************************************************)
(* Proofs about the selector for any number of attempts, candidates and    *)
(* tickets.                                                                *)
(*                                                                         *)
(* DistinctStarts is not inductive: a reset of reservationNext could hand  *)
(* out a start twice.  It cannot, because a reset needs every ticket       *)
(* retired and TicketsAccounted then leaves no attempt in progress.        *)
(* Between two resets starts and tickets are handed out in step, so the    *)
(* starts in use lie as close together as the outstanding tickets.         *)
(***************************************************************************)
EXTENDS Selector, SequenceTheorems, TLAPS

OpenTickets == {ticket[a] : a \in Open}

\* Attempts in progress have starts and tickets of their own.
DistinctInv ==
    \A a, b \in Open : a # b => /\ startAbsolute[a] # startAbsolute[b]
                                /\ ticket[a] # ticket[b]

\* Starts and tickets go in step.
StartsFollowTickets ==
    \A a \in Open : startAbsolute[a] + nextTicket = reservationNext + ticket[a]

\* A start in use is below the next one to be reserved.
StartsReserved == \A a \in Open : startAbsolute[a] < reservationNext

\* With every ticket retired the next start is the cursor.
RetiredAtCursor == retireTicket = nextTicket => reservationNext = cursor

SelectorInv ==
    /\ SelectorTypeOK /\ TicketsAccounted /\ DistinctInv
    /\ StartsReserved /\ StartsFollowTickets /\ RetiredAtCursor /\ OfferedInOrder

\* The invariant holds of a new selector.
LEMMA SelectorInitInv == NewSelector => SelectorInv
<1> SUFFICES ASSUME NewSelector PROVE SelectorInv
  OBVIOUS
<1> USE DEF NewSelector, NoIDs
<1>1. Open = {}
  BY DEF Open
<1>2. SelectorTypeOK
  BY SelectorAssumption DEF SelectorTypeOK
<1>3. TicketsAccounted
  BY <1>1 DEF TicketsAccounted
<1> QED BY <1>1, <1>2, <1>3
        DEF SelectorInv, DistinctInv, StartsReserved, StartsFollowTickets,
            RetiredAtCursor, OfferedInOrder

\* The ids of a candidate list.
LEMMA ListIDs ==
  ASSUME NEW list \in CandidateLists, NEW usable \in SUBSET {list[i] : i \in 1..Len(list)}
  PROVE  usable \subseteq IDs /\ Len(list) \in Nat
BY SelectorAssumption

\* An attempt's list is a sequence of ids.
LEMMA CandidatesType ==
  ASSUME SelectorTypeOK, NEW a \in Attempts
  PROVE  candidates[a] \in Seq(IDs) /\ Len(candidates[a]) \in Nat
<1>1. candidates[a] \in CandidateLists \cup {<<>>}
  BY DEF SelectorTypeOK
<1>2. candidates[a] \in Seq(IDs)
  BY <1>1, SelectorAssumption, EmptySeq
<1> QED BY <1>2

\* Begin takes the ticket and the start behind all that are in use.
LEMMA BeginStep ==
  ASSUME SelectorInv, NEW a \in Attempts, NEW list \in CandidateLists,
         NEW usable \in SUBSET {list[i] : i \in 1..Len(list)},
         Begin(a, list, usable)
  PROVE  SelectorInv'
<1> USE DEF Begin
<1>1. a \notin Open
  BY DEF Open
<1>2. /\ returned'[a] = NoIDs /\ DOMAIN NoIDs = {}
      /\ \A b \in Attempts \ {a} : returned'[b] = returned[b]
      /\ candidates'[a] = list /\ offset'[a] = 0
  <2>1. a \in DOMAIN candidates /\ a \in DOMAIN offset
    BY DEF SelectorInv, SelectorTypeOK
  <2>2. DOMAIN returned = Attempts
    BY DEF SelectorInv, SelectorTypeOK
  <2> QED BY <2>1, <2>2 DEF NoIDs
<1>3. CASE list = <<>>
  <2> USE <1>3 DEF selectorVars
  <2>1. SelectorTypeOK'
    BY <1>2, ListIDs DEF SelectorInv, SelectorTypeOK
  <2>2. Open' = Open
    BY <1>1 DEF SelectorInv, SelectorTypeOK, Open
  <2>3. \A b \in Open : \A k \in Nat : At(b, k)' = At(b, k)
    BY <1>1 DEF At, Start, Open, SelectorInv, SelectorTypeOK
  <2>4. TicketsAccounted' /\ DistinctInv' /\ StartsReserved' /\ RetiredAtCursor'
    BY <2>2 DEF SelectorInv, TicketsAccounted, DistinctInv, StartsReserved, RetiredAtCursor
  <2>5. StartsFollowTickets'
    <3>1. /\ startAbsolute' = startAbsolute /\ ticket' = ticket
          /\ nextTicket' = nextTicket /\ reservationNext' = reservationNext
      OBVIOUS
    <3> HIDE DEF Begin
    <3> QED BY <2>2, <3>1 DEF SelectorInv, StartsFollowTickets
  <2>6. OfferedInOrder'
    BY <1>1, <1>2, <2>2, <2>3 DEF SelectorInv, SelectorTypeOK, OfferedInOrder, Open
  <2> QED BY <2>1, <2>4, <2>5, <2>6 DEF SelectorInv
<1>4. CASE list # <<>>
  <2> USE <1>4 DEF Reserve
  <2>1. SelectorTypeOK'
    <3>1. usable \subseteq IDs
      BY ListIDs
    <3>2. DOMAIN returned' = Attempts
      BY DEF SelectorInv, SelectorTypeOK
    <3>3. nextTicket' \in 0..MaxTickets
      BY SelectorAssumption DEF SelectorInv, SelectorTypeOK
    <3>4. \A b \in Attempts : /\ DOMAIN returned'[b] \subseteq IDs
                              /\ \A id \in DOMAIN returned'[b] : returned'[b][id] \in Nat
      BY <1>2 DEF SelectorInv, SelectorTypeOK
    <3> HIDE DEF NoIDs
    <3>5. /\ cursor' \in Nat /\ reservationNext' \in Nat /\ retireTicket' \in 0..MaxTickets
          /\ DOMAIN results' \subseteq Nat
          /\ \A t \in DOMAIN results' : results'[t] \in Nat
      BY DEF SelectorInv, SelectorTypeOK
    <3>6. phase' \in [Attempts -> {"idle", "unreserved", "open"}]
      BY DEF SelectorInv, SelectorTypeOK
    <3>7. candidates' \in [Attempts -> CandidateLists \cup {<<>>}]
      BY DEF SelectorInv, SelectorTypeOK
    <3>8. eligible' \in [Attempts -> SUBSET IDs]
      <4>1. eligible \in [Attempts -> SUBSET IDs] /\ eligible' = [eligible EXCEPT ![a] = usable]
        BY DEF SelectorInv, SelectorTypeOK
      <4> QED BY <3>1, <4>1
    <3>9. /\ offset' \in [Attempts -> Nat]
          /\ startAbsolute' \in [Attempts -> Nat]
          /\ ticket' \in [Attempts -> Nat]
      <4>1. nextTicket \in Nat /\ reservationNext \in Nat
        BY SelectorAssumption DEF SelectorInv, SelectorTypeOK
      <4>2. /\ offset \in [Attempts -> Nat] /\ startAbsolute \in [Attempts -> Nat]
            /\ ticket \in [Attempts -> Nat]
        BY DEF SelectorInv, SelectorTypeOK
      <4>3. /\ offset' = [offset EXCEPT ![a] = 0]
            /\ startAbsolute' = [startAbsolute EXCEPT ![a] = reservationNext]
            /\ ticket' = [ticket EXCEPT ![a] = nextTicket]
        OBVIOUS
      <4> HIDE DEF Begin
      <4> QED BY <4>1, <4>2, <4>3
    <3> QED BY <3>2, <3>3, <3>4, <3>5, <3>6, <3>7, <3>8, <3>9 DEF SelectorTypeOK
  <2>2. Open' = Open \cup {a}
    BY <1>1 DEF SelectorInv, SelectorTypeOK, Open
  <2>3. /\ ticket'[a] = nextTicket /\ startAbsolute'[a] = reservationNext
        /\ \A b \in Open : ticket'[b] = ticket[b] /\ startAbsolute'[b] = startAbsolute[b]
    BY <1>1 DEF SelectorInv, SelectorTypeOK, Open
  <2>4. OpenTickets' = OpenTickets \cup {nextTicket}
    BY <2>2, <2>3 DEF OpenTickets
  <2>5. TicketsAccounted'
    <3>1. /\ DOMAIN results \cup OpenTickets = retireTicket..(nextTicket - 1)
          /\ DOMAIN results \cap OpenTickets = {}
          /\ retireTicket <= nextTicket /\ retireTicket \notin DOMAIN results
          /\ retireTicket \in Nat /\ nextTicket \in Nat
      BY DEF SelectorInv, SelectorTypeOK, TicketsAccounted, OpenTickets
    <3>2. nextTicket \notin DOMAIN results
      BY <3>1
    <3>3. retireTicket..(nextTicket' - 1) = (retireTicket..(nextTicket - 1)) \cup {nextTicket}
      BY <3>1
    <3>4. /\ DOMAIN results' \cup OpenTickets' = retireTicket'..(nextTicket' - 1)
          /\ DOMAIN results' \cap OpenTickets' = {}
          /\ retireTicket' <= nextTicket' /\ retireTicket' \notin DOMAIN results'
      BY <2>4, <3>1, <3>2, <3>3
    <3> QED BY <3>4 DEF TicketsAccounted, OpenTickets
  <2>6. \A b \in Open : ticket[b] < nextTicket
    <3>1. \A b \in Open : ticket[b] \in retireTicket..(nextTicket - 1)
      BY DEF SelectorInv, TicketsAccounted
    <3> QED BY <3>1 DEF SelectorInv, SelectorTypeOK
  <2>7. DistinctInv' /\ StartsReserved' /\ StartsFollowTickets'
    <3>1. /\ reservationNext \in Nat /\ nextTicket \in Nat
          /\ reservationNext' = reservationNext + 1
          /\ \A b \in Open : startAbsolute[b] \in Nat /\ startAbsolute[b] < reservationNext
      BY DEF SelectorInv, SelectorTypeOK, StartsReserved, Open
    <3>2. StartsReserved'
      BY <2>2, <2>3, <3>1 DEF StartsReserved
    <3>3. DistinctInv'
      BY <1>1, <2>2, <2>3, <2>6, <3>1 DEF SelectorInv, DistinctInv
    <3>4. StartsFollowTickets'
      <4>1. \A b \in Open : ticket[b] \in Nat
        BY DEF Open, SelectorInv, SelectorTypeOK
      <4>2. \A b \in Open : startAbsolute[b] + nextTicket = reservationNext + ticket[b]
        BY DEF SelectorInv, StartsFollowTickets
      <4>3. nextTicket' = nextTicket + 1
        OBVIOUS
      <4> HIDE <1>4 DEF Begin, Reserve
      <4> SUFFICES ASSUME NEW b \in Open'
                   PROVE  startAbsolute'[b] + nextTicket' = reservationNext' + ticket'[b]
        BY DEF StartsFollowTickets
      <4>4. CASE b = a
        BY <2>3, <3>1, <4>3, <4>4
      <4>5. CASE b \in Open
        BY <2>3, <3>1, <4>1, <4>2, <4>3, <4>5
      <4> QED BY <2>2, <4>4, <4>5
    <3> QED BY <3>2, <3>3, <3>4
  <2>8. RetiredAtCursor'
    BY DEF SelectorInv, SelectorTypeOK, TicketsAccounted, RetiredAtCursor
  <2>9. \A b \in Open : \A k \in Nat : At(b, k)' = At(b, k)
    BY <1>1 DEF At, Start, Open, SelectorInv, SelectorTypeOK
  <2>10. OfferedInOrder'
    <3> SUFFICES ASSUME NEW b \in Open'
                 PROVE  /\ offset'[b] <= Len(candidates'[b])
                        /\ DOMAIN returned'[b] =
                              {At(b, k)' : k \in 0..(offset'[b] - 1)} \cap eligible'[b]
                        /\ \A id \in DOMAIN returned'[b] :
                              returned'[b][id] < offset'[b] /\ At(b, returned[b][id])' = id
      BY DEF OfferedInOrder
    <3>1. CASE b = a
      BY <1>2, <3>1, ListIDs
    <3>2. CASE b # a
      BY <1>2, <2>2, <2>9, <3>2 DEF SelectorInv, SelectorTypeOK, OfferedInOrder, Open
    <3> QED BY <3>1, <3>2
  <2> QED BY <2>1, <2>5, <2>7, <2>8, <2>10 DEF SelectorInv
<1> QED BY <1>3, <1>4

\* Next moves the offset behind the candidate it returns.
LEMMA AttemptNextStep ==
  ASSUME SelectorInv, NEW a \in Attempts, AttemptNext(a)
  PROVE  SelectorInv'
<1> USE DEF AttemptNext, selectorVars
<1>1. PICK k \in NextOffset(a) :
        /\ offset' = [offset EXCEPT ![a] = k + 1]
        /\ returned' = [returned EXCEPT ![a] =
               [id \in DOMAIN returned[a] \cup {At(a, k)} |->
                    IF id = At(a, k) THEN k ELSE returned[a][id]]]
  OBVIOUS
<1>2. /\ k \in Nat /\ offset[a] \in Nat /\ offset[a] <= k /\ k < Len(candidates[a])
      /\ At(a, k) \in eligible[a] /\ At(a, k) \in IDs
      /\ \A j \in offset[a]..(k - 1) : At(a, j) \notin eligible[a]
      /\ Len(candidates[a]) \in Nat
  <2>1. offset[a] \in Nat /\ eligible[a] \subseteq IDs
    BY DEF SelectorInv, SelectorTypeOK
  <2>2. Len(candidates[a]) \in Nat
    BY CandidatesType DEF SelectorInv
  <2> QED BY <2>1, <2>2 DEF NextOffset
<1>3. /\ DOMAIN returned' = Attempts /\ offset' \in [Attempts -> Nat]
      /\ DOMAIN returned'[a] = DOMAIN returned[a] \cup {At(a, k)}
      /\ \A id \in DOMAIN returned'[a] :
            returned'[a][id] = IF id = At(a, k) THEN k ELSE returned[a][id]
      /\ offset'[a] = k + 1
      /\ \A b \in Attempts \ {a} : returned'[b] = returned[b] /\ offset'[b] = offset[b]
  <2> DEFINE new == [id \in DOMAIN returned[a] \cup {At(a, k)} |->
                        IF id = At(a, k) THEN k ELSE returned[a][id]]
  <2>1. DOMAIN returned = Attempts /\ returned' = [returned EXCEPT ![a] = new]
    BY <1>1 DEF SelectorInv, SelectorTypeOK
  <2>2. /\ DOMAIN new = DOMAIN returned[a] \cup {At(a, k)}
        /\ \A id \in DOMAIN new : new[id] = IF id = At(a, k) THEN k ELSE returned[a][id]
    OBVIOUS
  <2> HIDE DEF new
  <2>3. /\ DOMAIN returned' = Attempts /\ returned'[a] = new
        /\ \A b \in Attempts \ {a} : returned'[b] = returned[b]
    BY <2>1
  <2>4. /\ offset' \in [Attempts -> Nat] /\ offset'[a] = k + 1
        /\ \A b \in Attempts \ {a} : offset'[b] = offset[b]
    BY <1>1, <1>2 DEF SelectorInv, SelectorTypeOK
  <2> QED BY <2>2, <2>3, <2>4
<1>4. SelectorTypeOK'
  <2>1. \A b \in Attempts : /\ DOMAIN returned'[b] \subseteq IDs
                            /\ \A id \in DOMAIN returned'[b] : returned'[b][id] \in Nat
    <3> SUFFICES ASSUME NEW b \in Attempts
                 PROVE  /\ DOMAIN returned'[b] \subseteq IDs
                        /\ \A id \in DOMAIN returned'[b] : returned'[b][id] \in Nat
      OBVIOUS
    <3>1. /\ DOMAIN returned[b] \subseteq IDs
          /\ \A id \in DOMAIN returned[b] : returned[b][id] \in Nat
      BY DEF SelectorInv, SelectorTypeOK
    <3> QED BY <1>2, <1>3, <3>1
  <2> QED BY <1>3, <2>1 DEF SelectorInv, SelectorTypeOK
<1>5. Open' = Open /\ a \in Open
  BY DEF Open
<1>6. TicketsAccounted' /\ DistinctInv' /\ StartsReserved' /\ StartsFollowTickets' /\ RetiredAtCursor'
  BY <1>5 DEF SelectorInv, TicketsAccounted, DistinctInv, StartsReserved, StartsFollowTickets, RetiredAtCursor
<1>7. UNCHANGED <<candidates, startAbsolute, eligible>>
  OBVIOUS
<1>8. OfferedInOrder'
  <2> HIDE DEF AttemptNext
  <2> SUFFICES ASSUME NEW b \in Open'
               PROVE  /\ offset'[b] <= Len(candidates'[b])
                      /\ DOMAIN returned'[b] =
                            {At(b, j) : j \in 0..(offset'[b] - 1)} \cap eligible'[b]
                      /\ \A id \in DOMAIN returned'[b] :
                            returned'[b][id] < offset'[b] /\ At(b, returned'[b][id]) = id
    BY <1>7 DEF OfferedInOrder, At, Start
  <2>1. CASE b = a
    <3>1. /\ DOMAIN returned[a] = {At(a, j) : j \in 0..(offset[a] - 1)} \cap eligible[a]
          /\ \A id \in DOMAIN returned[a] : /\ returned[a][id] < offset[a]
                                            /\ returned[a][id] \in Nat
                                            /\ At(a, returned[a][id]) = id
      BY <1>5 DEF SelectorInv, SelectorTypeOK, OfferedInOrder
    <3>2. 0..k = (0..(offset[a] - 1)) \cup (offset[a]..(k - 1)) \cup {k}
      BY <1>2
    <3>3. {At(a, j) : j \in 0..k} \cap eligible[a]
            = ({At(a, j) : j \in 0..(offset[a] - 1)} \cap eligible[a]) \cup {At(a, k)}
      BY <1>2, <3>2
    <3>4. DOMAIN returned'[a] = {At(a, j) : j \in 0..(offset'[a] - 1)} \cap eligible[a]
      <4>1. offset'[a] - 1 = k
        BY <1>2, <1>3
      <4> QED BY <1>3, <3>1, <3>3, <4>1
    <3>5. \A id \in DOMAIN returned'[a] :
             returned'[a][id] < offset'[a] /\ At(a, returned'[a][id]) = id
      <4> SUFFICES ASSUME NEW id \in DOMAIN returned'[a]
                   PROVE  returned'[a][id] < offset'[a] /\ At(a, returned'[a][id]) = id
        OBVIOUS
      <4>1. CASE id = At(a, k)
        <5>1. returned'[a][id] = k
          BY <1>3, <4>1
        <5>2. k < offset'[a]
          BY <1>2, <1>3
        <5> QED BY <4>1, <5>1, <5>2
      <4>2. CASE id # At(a, k)
        <5>1. id \in DOMAIN returned[a] /\ returned'[a][id] = returned[a][id]
          BY <1>3, <4>2
        <5> HIDE DEF At
        <5> QED BY <1>2, <1>3, <3>1, <5>1
      <4> QED BY <4>1, <4>2
    <3>6. offset'[a] <= Len(candidates[a])
      BY <1>2, <1>3
    <3> QED BY <1>7, <2>1, <3>4, <3>5, <3>6
  <2>2. CASE b # a
    BY <1>3, <1>5, <1>7, <2>2 DEF SelectorInv, OfferedInOrder, Open
  <2> QED BY <2>1, <2>2
<1> QED BY <1>4, <1>6, <1>8 DEF SelectorInv

\* At the end of the list every eligible candidate has been returned.
LEMMA AttemptNextExhaustedStep ==
  ASSUME SelectorInv, NEW a \in Attempts, AttemptNextExhausted(a)
  PROVE  SelectorInv'
<1> USE DEF AttemptNextExhausted, selectorVars
<1>1. Len(candidates[a]) \in Nat /\ offset[a] \in Nat
  BY CandidatesType DEF SelectorInv, SelectorTypeOK
<1>2. /\ offset'[a] = Len(candidates[a])
      /\ \A b \in Attempts \ {a} : offset'[b] = offset[b]
      /\ offset' \in [Attempts -> Nat]
  BY <1>1 DEF SelectorInv, SelectorTypeOK
<1>3. SelectorTypeOK'
  BY <1>2 DEF SelectorInv, SelectorTypeOK
<1>4. Open' = Open /\ a \in Open
  BY DEF Open
<1>5. TicketsAccounted' /\ DistinctInv' /\ StartsReserved' /\ StartsFollowTickets' /\ RetiredAtCursor'
  BY <1>4 DEF SelectorInv, TicketsAccounted, DistinctInv, StartsReserved, StartsFollowTickets, RetiredAtCursor
<1>7. OfferedInOrder'
  <2> SUFFICES ASSUME NEW b \in Open'
               PROVE  /\ offset'[b] <= Len(candidates'[b])
                      /\ DOMAIN returned'[b] =
                            {At(b, j) : j \in 0..(offset'[b] - 1)} \cap eligible'[b]
                      /\ \A id \in DOMAIN returned'[b] :
                            returned'[b][id] < offset'[b] /\ At(b, returned'[b][id]) = id
    BY DEF OfferedInOrder, At, Start
  <2>1. CASE b = a
    <3> DEFINE n == Len(candidates[a])
    <3>1. /\ DOMAIN returned[a] = {At(a, j) : j \in 0..(offset[a] - 1)} \cap eligible[a]
          /\ \A id \in DOMAIN returned[a] : /\ returned[a][id] < offset[a]
                                            /\ returned[a][id] \in Nat
                                            /\ At(a, returned[a][id]) = id
          /\ offset[a] <= n
      BY <1>4 DEF SelectorInv, SelectorTypeOK, OfferedInOrder
    <3>2. 0..(n - 1) = (0..(offset[a] - 1)) \cup (offset[a]..(n - 1))
      BY <1>1, <3>1
    <3>3. {At(a, j) : j \in 0..(n - 1)} \cap eligible[a]
            = {At(a, j) : j \in 0..(offset[a] - 1)} \cap eligible[a]
      BY <3>2
    <3> QED BY <1>1, <1>2, <2>1, <3>1, <3>3
  <2>2. CASE b # a
    BY <1>2, <1>4, <2>2 DEF SelectorInv, OfferedInOrder, Open
  <2> QED BY <2>1, <2>2
<1> QED BY <1>3, <1>5, <1>7 DEF SelectorInv

-----------------------------------------------------------------------------
(* Retiring *)

\* finish retires a prefix of the outstanding tickets; those that remain are
\* stored or belong to the attempts that are still open.
LEMMA FinishStep ==
  ASSUME SelectorInv, NEW a \in Attempts, phase[a] = "open",
         NEW target \in Nat, finish(ticket[a], target), Finished(a)
  PROVE  SelectorInv' /\ cursor' >= cursor
<1> DEFINE t0 == ticket[a]
           res == [t \in DOMAIN results \cup {t0} |-> IF t = t0 THEN target ELSE results[t]]
<1>1. PICK r \in retireTicket..nextTicket :
        /\ retireTicket..(r - 1) \subseteq DOMAIN res
        /\ r \notin DOMAIN res
        /\ retireTicket' = r
        /\ results' = [t \in DOMAIN res \ (retireTicket..(r - 1)) |-> res[t]]
        /\ CursorAfter({res[t] : t \in retireTicket..(r - 1)}, cursor')
        /\ ResetReservations(r, cursor')
        /\ nextTicket' = nextTicket
  BY DEF finish
<1>2. /\ cursor \in Nat /\ reservationNext \in Nat
      /\ nextTicket \in Nat /\ retireTicket \in Nat /\ r \in Nat
      /\ nextTicket <= MaxTickets /\ r <= nextTicket /\ retireTicket <= r
      /\ r \in 0..MaxTickets /\ nextTicket \in 0..MaxTickets
  BY SelectorAssumption DEF SelectorInv, SelectorTypeOK
<1>3. /\ DOMAIN res = DOMAIN results \cup {t0}
      /\ \A t \in DOMAIN res : res[t] \in Nat
      /\ DOMAIN res \subseteq Nat
  BY DEF SelectorInv, SelectorTypeOK
<1>4. a \in Open /\ Open' = Open \ {a}
  BY DEF SelectorInv, SelectorTypeOK, Open, Finished
<1>5. \A b \in Open' : /\ ticket'[b] = ticket[b] /\ startAbsolute'[b] = startAbsolute[b]
                       /\ offset'[b] = offset[b] /\ returned'[b] = returned[b]
                       /\ candidates'[b] = candidates[b] /\ eligible'[b] = eligible[b]
  BY <1>4 DEF SelectorInv, SelectorTypeOK, Open, Finished
<1>6. /\ DOMAIN results' = DOMAIN res \ (retireTicket..(r - 1))
      /\ \A t \in DOMAIN results' : results'[t] = res[t]
  BY <1>1
<1> HIDE DEF res
<1>7. cursor' \in Nat /\ cursor' >= cursor
  BY <1>1, <1>2, <1>3 DEF CursorAfter
<1>8. reservationNext' \in Nat
      /\ (r = nextTicket => reservationNext' = cursor')
      /\ (r # nextTicket => reservationNext' = reservationNext)
  BY <1>1, <1>2, <1>7 DEF ResetReservations
<1>9. SelectorTypeOK'
  <2>1. DOMAIN NoIDs = {}
    BY DEF NoIDs
  <2>2. /\ phase' \in [Attempts -> {"idle", "unreserved", "open"}]
        /\ candidates' \in [Attempts -> CandidateLists \cup {<<>>}]
        /\ eligible' \in [Attempts -> SUBSET IDs]
        /\ offset' \in [Attempts -> Nat]
        /\ startAbsolute' \in [Attempts -> Nat]
        /\ ticket' \in [Attempts -> Nat]
    BY DEF SelectorInv, SelectorTypeOK, Finished
  <2>3. /\ DOMAIN returned' = Attempts
        /\ returned'[a] = NoIDs
        /\ \A b \in Attempts \ {a} : returned'[b] = returned[b]
    BY DEF SelectorInv, SelectorTypeOK, Finished
  <2>4. \A b \in Attempts : /\ DOMAIN returned'[b] \subseteq IDs
                            /\ \A id \in DOMAIN returned'[b] : returned'[b][id] \in Nat
    BY <2>1, <2>3 DEF SelectorInv, SelectorTypeOK
  <2>5. DOMAIN results' \subseteq Nat /\ \A t \in DOMAIN results' : results'[t] \in Nat
    BY <1>3, <1>6
  <2> QED BY <1>1, <1>2, <1>7, <1>8, <2>2, <2>3, <2>4, <2>5 DEF SelectorTypeOK
<1>10. /\ OpenTickets = OpenTickets' \cup {t0}
       /\ t0 \notin OpenTickets'
  <2>1. OpenTickets' = {ticket[b] : b \in Open \ {a}}
    BY <1>4, <1>5 DEF OpenTickets
  <2>2. \A b \in Open \ {a} : ticket[b] # ticket[a]
    BY <1>4 DEF SelectorInv, DistinctInv
  <2> QED BY <1>4, <2>1, <2>2 DEF OpenTickets
<1>11. /\ DOMAIN results \cup OpenTickets = retireTicket..(nextTicket - 1)
       /\ DOMAIN results \cap OpenTickets = {}
  BY DEF SelectorInv, TicketsAccounted, OpenTickets
<1> HIDE DEF t0
<1>12. DOMAIN res \cup OpenTickets' = retireTicket..(nextTicket - 1)
       /\ DOMAIN res \cap OpenTickets' = {}
  BY <1>3, <1>10, <1>11
<1>13. DOMAIN results' \cup OpenTickets' = r..(nextTicket - 1)
  <2>1. (retireTicket..(nextTicket - 1)) \ (retireTicket..(r - 1)) = r..(nextTicket - 1)
    BY <1>2
  <2> QED BY <1>1, <1>6, <1>12, <2>1
<1>14. TicketsAccounted'
  <2>1. DOMAIN results' \cap OpenTickets' = {} /\ r \notin DOMAIN results'
    BY <1>1, <1>6, <1>12
  <2> QED BY <1>1, <1>2, <1>13, <2>1 DEF TicketsAccounted, OpenTickets
<1>15. DistinctInv'
  BY <1>4, <1>5 DEF SelectorInv, DistinctInv
<1>16. StartsReserved' /\ StartsFollowTickets'
  <2>1. CASE r = nextTicket
    <3>1. r..(nextTicket - 1) = {}
      BY <1>2, <2>1
    <3>2. Open' = {}
      BY <1>13, <3>1 DEF OpenTickets
    <3> QED BY <3>2 DEF StartsReserved, StartsFollowTickets
  <2>2. CASE r # nextTicket
    BY <1>1, <1>4, <1>5, <1>8, <2>2 DEF SelectorInv, StartsReserved, StartsFollowTickets
  <2> QED BY <2>1, <2>2
<1>17. RetiredAtCursor'
  BY <1>1, <1>8 DEF RetiredAtCursor
<1>18. OfferedInOrder'
  <2> SUFFICES ASSUME NEW b \in Open'
               PROVE  /\ offset'[b] <= Len(candidates'[b])
                      /\ DOMAIN returned'[b] =
                            {At(b, j) : j \in 0..(offset'[b] - 1)} \cap eligible'[b]
                      /\ \A id \in DOMAIN returned'[b] :
                            returned'[b][id] < offset'[b] /\ At(b, returned'[b][id]) = id
    BY <1>5 DEF OfferedInOrder, At, Start
  <2> QED BY <1>4, <1>5 DEF SelectorInv, OfferedInOrder
<1> QED BY <1>7, <1>9, <1>14, <1>15, <1>16, <1>17, <1>18 DEF SelectorInv

\* The target of a commit is a natural number.
LEMMA TargetType ==
  ASSUME SelectorInv, NEW a \in Attempts, NEW id \in DOMAIN returned[a]
  PROVE  Target(a, returned[a][id]) \in Nat
BY DEF SelectorInv, SelectorTypeOK, Target

\* Every step preserves the invariant and moves the cursor forward, if at all.
LEMMA SelectorNextInv ==
  SelectorInv /\ [SelectorNext]_vars => SelectorInv' /\ cursor' >= cursor
<1> SUFFICES ASSUME SelectorInv, [SelectorNext]_vars
             PROVE  SelectorInv' /\ cursor' >= cursor
  OBVIOUS
<1>0. cursor \in Nat
  BY DEF SelectorInv, SelectorTypeOK
<1>1. ASSUME NEW a \in Attempts, NEW list \in CandidateLists,
             NEW usable \in SUBSET {list[i] : i \in 1..Len(list)},
             Begin(a, list, usable)
      PROVE  SelectorInv' /\ cursor' >= cursor
  <2>1. cursor' = cursor
    BY <1>1 DEF Begin, selectorVars
  <2> QED BY <1>0, <1>1, <2>1, BeginStep
<1>2. ASSUME NEW a \in Attempts, AttemptNext(a)
      PROVE  SelectorInv' /\ cursor' >= cursor
  <2>1. cursor' = cursor
    BY <1>2 DEF AttemptNext, selectorVars
  <2> QED BY <1>0, <1>2, <2>1, AttemptNextStep
<1>3. ASSUME NEW a \in Attempts, AttemptNextExhausted(a)
      PROVE  SelectorInv' /\ cursor' >= cursor
  <2>1. cursor' = cursor
    BY <1>3 DEF AttemptNextExhausted, selectorVars
  <2> QED BY <1>0, <1>3, <2>1, AttemptNextExhaustedStep
<1>4. ASSUME NEW a \in Attempts, NEW id \in IDs, Commit(a, id)
      PROVE  SelectorInv' /\ cursor' >= cursor
  <2>1. id \in DOMAIN returned[a] /\ phase[a] = "open"
        /\ finish(ticket[a], Target(a, returned[a][id])) /\ Finished(a)
    BY <1>4 DEF Commit
  <2> QED BY <2>1, TargetType, FinishStep
<1>5. ASSUME NEW a \in Attempts, Abort(a)
      PROVE  SelectorInv' /\ cursor' >= cursor
  <2>1. phase[a] = "open" /\ finish(ticket[a], 0) /\ Finished(a)
    BY <1>5 DEF Abort
  <2> QED BY <2>1, FinishStep
<1>6. CASE UNCHANGED vars
  <2> USE <1>6 DEF vars, selectorVars, attemptVars
  <2>1. Open' = Open
    BY DEF Open
  <2>2. SelectorTypeOK'
    BY DEF SelectorInv, SelectorTypeOK
  <2>3. TicketsAccounted' /\ DistinctInv' /\ StartsReserved' /\ StartsFollowTickets' /\ RetiredAtCursor'
    BY <2>1 DEF SelectorInv, TicketsAccounted, DistinctInv, StartsReserved,
                StartsFollowTickets, RetiredAtCursor
  <2>4. OfferedInOrder'
    BY <2>1 DEF SelectorInv, OfferedInOrder, At, Start
  <2> QED BY <1>0, <2>2, <2>3, <2>4 DEF SelectorInv
<1> QED BY <1>1, <1>2, <1>3, <1>4, <1>5, <1>6 DEF SelectorNext

\* The inductive invariant of the selector, for any number of attempts.
THEOREM SelectorInvariance == SelectorSpec => []SelectorInv
<1>1. SelectorInv /\ [SelectorNext]_vars => SelectorInv'
  BY SelectorNextInv
<1> QED BY <1>1, SelectorInitInv, PTL DEF SelectorSpec

\* Type correctness of the selector (selector.go).
THEOREM SelectorTypeCorrect == SelectorSpec => []SelectorTypeOK
<1>1. SelectorInv => SelectorTypeOK
  BY DEF SelectorInv
<1> QED BY <1>1, SelectorInvariance, PTL

\* No ticket is lost or retired twice.
THEOREM SelectorTicketsAccounted == SelectorSpec => []TicketsAccounted
<1>1. SelectorInv => TicketsAccounted
  BY DEF SelectorInv
<1> QED BY <1>1, SelectorInvariance, PTL

\* With no attempt in progress every ticket is retired.
LEMMA AllRetired == SelectorInv => QuiescentAtCursor
<1> SUFFICES ASSUME SelectorInv, Open = {}
             PROVE  reservationNext = cursor /\ DOMAIN results = {}
  BY DEF QuiescentAtCursor
<1>1. /\ DOMAIN results = retireTicket..(nextTicket - 1)
      /\ retireTicket \notin DOMAIN results /\ retireTicket <= nextTicket
      /\ retireTicket \in Int /\ nextTicket \in Int
  <2>1. {ticket[a] : a \in Open} = {}
    OBVIOUS
  <2>2. retireTicket \in Int /\ nextTicket \in Int
    BY DEF SelectorInv, SelectorTypeOK
  <2> QED BY <2>1, <2>2 DEF SelectorInv, TicketsAccounted
<1>2. retireTicket = nextTicket
  BY <1>1
<1> QED BY <1>1, <1>2 DEF SelectorInv, RetiredAtCursor

\* With no attempt in progress the next start is the committed cursor.
THEOREM SelectorQuiescentAtCursor == SelectorSpec => []QuiescentAtCursor
BY AllRetired, SelectorInvariance, PTL

\* An attempt is offered the eligible candidates it walks past, each once.
THEOREM SelectorOfferedInOrder == SelectorSpec => []OfferedInOrder
<1>1. SelectorInv => OfferedInOrder
  BY DEF SelectorInv
<1> QED BY <1>1, SelectorInvariance, PTL


-----------------------------------------------------------------------------
(* Round the list *)

\* Division with remainder.
LEMMA DivMod ==
  ASSUME NEW x \in Nat, NEW n \in Nat \ {0}
  PROVE  /\ x % n \in 0..(n - 1) /\ x \div n \in Nat
         /\ x = n * (x \div n) + (x % n)
BY SMT

\* The remainder of a sum whose remainder is known.
LEMMA ModUnique ==
  ASSUME NEW n \in Nat \ {0}, NEW q \in Int, NEW r \in 0..(n - 1)
  PROVE  (n * q + r) % n = r
BY SMT

\* A remainder may be taken before adding.
LEMMA ModAdd ==
  ASSUME NEW x \in Nat, NEW y \in Nat, NEW n \in Nat \ {0}
  PROVE  ((x % n) + y) % n = (x + y) % n
<1> DEFINE z == (x % n) + y
           r == z % n
           q == (x \div n) + (z \div n)
<1>1. x % n \in Nat /\ x \div n \in Nat /\ x = n * (x \div n) + (x % n)
  BY DivMod
<1>2. z \in Nat
  BY <1>1
<1>3. r \in 0..(n - 1) /\ z \div n \in Nat /\ z = n * (z \div n) + r
  BY <1>2, DivMod
<1>4. q \in Int
  BY <1>1, <1>3
<1>5. x + y = n * q + r
  <2> HIDE DEF r
  <2>1. x + y = n * (x \div n) + z
    BY <1>1
  <2>2. n * q = n * (x \div n) + n * (z \div n)
    BY <1>1, <1>3
  <2> QED BY <1>1, <1>3, <2>1, <2>2
<1>6. (n * q + r) % n = r
  BY <1>3, <1>4, ModUnique
<1> QED BY <1>5, <1>6

\* Numbers less than a round apart have different remainders.
LEMMA ModDiffers ==
  ASSUME NEW n \in Nat \ {0}, NEW x \in Nat, NEW y \in Nat, x < y, y - x < n
  PROVE  x % n # y % n
<1> SUFFICES ASSUME x % n = y % n PROVE FALSE
  OBVIOUS
<1> DEFINE p == x \div n
           q == y \div n
           r == x % n
<1>1. /\ p \in Nat /\ q \in Nat /\ r \in Nat
      /\ x = n * p + r /\ y = n * q + r
  <2>1. p \in Nat /\ r \in 0..(n - 1) /\ x = n * p + r
    BY DivMod
  <2>2. q \in Nat /\ y = n * q + (y % n)
    BY DivMod
  <2> QED BY <2>1, <2>2
<1> HIDE DEF p, q, r
<1>2. y - x = n * (q - p)
  BY <1>1
<1>3. CASE q <= p
  <2>1. n * (q - p) <= 0
    BY <1>1, <1>3
  <2> QED BY <1>2, <2>1
<1>4. CASE q > p
  <2>1. n * (q - p) >= n
    BY <1>1, <1>4
  <2> QED BY <1>2, <2>1
<1> QED BY <1>1, <1>3, <1>4

\* Where a node returned at offset k stands in the list, and that a start at its
\* target is the place behind it.
LEMMA BehindNode ==
  ASSUME NEW start \in Nat, NEW k \in Nat, NEW n \in Nat \ {0}
  PROVE  LET place == (((start % n) + k) % n) + 1
         IN  place \in 1..n /\ (start + k + 1) % n = place % n
<1> DEFINE p == ((start % n) + k) % n
<1>1. start % n \in Nat /\ (start % n) + k \in Nat
  BY DivMod
<1>2. p \in 0..(n - 1)
  BY <1>1, DivMod
<1>3. p = (start + k) % n
  BY ModAdd
<1>4. (((start + k) % n) + 1) % n = (start + k + 1) % n
  <2>1. start + k \in Nat /\ 1 \in Nat
    OBVIOUS
  <2> QED BY <2>1, ModAdd
<1> QED BY <1>2, <1>3, <1>4

\* A commit makes the rotation go on behind the node that was used: whatever
\* list, start and number of skipped candidates, and also round its end.
THEOREM SelectorCommitStartsBehindNode == SelectorSpec => []CommitStartsBehindNode
<1>1. SelectorInv => CommitStartsBehindNode
  <2> SUFFICES ASSUME SelectorInv, NEW a \in Open, NEW id \in DOMAIN returned[a],
                      NEW i \in 1..Len(candidates[a]), candidates[a][i] = id
               PROVE  candidates[a][(Target(a, returned[a][id]) % Len(candidates[a])) + 1]
                        = candidates[a][(i % Len(candidates[a])) + 1]
    BY DEF CommitStartsBehindNode
  <2> DEFINE n == Len(candidates[a])
             k == returned[a][id]
             place == (((startAbsolute[a] % n) + k) % n) + 1
  <2>1. a \in Attempts /\ startAbsolute[a] \in Nat /\ k \in Nat
    BY DEF Open, SelectorInv, SelectorTypeOK
  <2>2. n \in Nat \ {0}
    BY <2>1, CandidatesType DEF SelectorInv
  <2>3. candidates[a][place] = id
    BY DEF SelectorInv, OfferedInOrder, At, Start
  <2>4. place \in 1..n /\ (startAbsolute[a] + k + 1) % n = place % n
    BY <2>1, <2>2, BehindNode
  <2>5. i = place
    <3>1. candidates[a] \in CandidateLists
      BY <2>1, <2>2 DEF SelectorInv, SelectorTypeOK
    <3> HIDE DEF place
    <3> QED BY <2>3, <2>4, <3>1, SelectorAssumption
  <2> HIDE DEF n, k, place
  <2> QED BY <2>4, <2>5 DEF Target, n, k
<1> QED BY <1>1, SelectorInvariance, PTL

\* Attempts in progress never share a start or a ticket, and begin at different
\* candidates while the outstanding tickets are no more than those.
THEOREM SelectorDistinctStarts == SelectorSpec => []DistinctStarts
<1>1. SelectorInv => DistinctStarts
  <2> SUFFICES ASSUME SelectorInv, NEW a \in Open, NEW b \in Open, a # b
               PROVE  /\ startAbsolute[a] # startAbsolute[b]
                      /\ ticket[a] # ticket[b]
                      /\ /\ Len(candidates[b]) = Len(candidates[a])
                         /\ nextTicket - retireTicket <= Len(candidates[a])
                         => Start(a) # Start(b)
    BY DEF DistinctStarts
  <2>1. startAbsolute[a] # startAbsolute[b] /\ ticket[a] # ticket[b]
    BY DEF SelectorInv, DistinctInv
  <2>2. ASSUME NEW n, n = Len(candidates[a]), n = Len(candidates[b]),
               nextTicket - retireTicket <= n
        PROVE  startAbsolute[a] % n # startAbsolute[b] % n
    <3>1. /\ startAbsolute[a] \in Nat /\ startAbsolute[b] \in Nat /\ n \in Nat
          /\ nextTicket \in Nat /\ retireTicket \in Nat /\ reservationNext \in Nat
      BY <2>2, CandidatesType DEF Open, SelectorInv, SelectorTypeOK
    <3>2. /\ ticket[a] \in retireTicket..(nextTicket - 1)
          /\ ticket[b] \in retireTicket..(nextTicket - 1)
      BY DEF SelectorInv, TicketsAccounted
    <3>3. /\ startAbsolute[a] + nextTicket = reservationNext + ticket[a]
          /\ startAbsolute[b] + nextTicket = reservationNext + ticket[b]
      BY DEF SelectorInv, StartsFollowTickets
    <3>4. /\ n \in Nat \ {0}
          /\ startAbsolute[a] - startAbsolute[b] < n
          /\ startAbsolute[b] - startAbsolute[a] < n
      <4>1. /\ ticket[a] \in Int /\ retireTicket <= ticket[a] /\ ticket[a] < nextTicket
            /\ ticket[b] \in Int /\ retireTicket <= ticket[b] /\ ticket[b] < nextTicket
        BY <3>1, <3>2
      <4>2. nextTicket - retireTicket <= n
        BY <2>2
      <4>3. n \in Nat \ {0}
        BY <3>1, <4>1, <4>2
      <4>4. startAbsolute[a] - startAbsolute[b] = ticket[a] - ticket[b]
        BY <3>1, <3>3, <4>1
      <4>5. ticket[a] - ticket[b] < n /\ ticket[b] - ticket[a] < n
        BY <3>1, <4>1, <4>2
      <4> QED BY <3>1, <4>1, <4>3, <4>4, <4>5
    <3>5. CASE startAbsolute[a] < startAbsolute[b]
      BY <3>1, <3>4, <3>5, ModDiffers
    <3>6. CASE startAbsolute[b] < startAbsolute[a]
      BY <3>1, <3>4, <3>6, ModDiffers
    <3> QED BY <2>1, <3>1, <3>5, <3>6
  <2> QED BY <2>1, <2>2 DEF Start
<1> QED BY <1>1, SelectorInvariance, PTL

-----------------------------------------------------------------------------
(* Successes are not forgotten *)

\* What finish does with each result, the new one and those that wait.
LEMMA FinishKeeps ==
  ASSUME SelectorInv, NEW a \in Open, NEW target \in Nat, finish(ticket[a], target)
  PROVE  /\ \/ cursor' >= target
            \/ ticket[a] \in DOMAIN results' /\ results'[ticket[a]] = target
         /\ \A t \in DOMAIN results :
               \/ cursor' >= results[t]
               \/ t \in DOMAIN results' /\ results'[t] = results[t]
<1> DEFINE t0 == ticket[a]
           res == [t \in DOMAIN results \cup {t0} |-> IF t = t0 THEN target ELSE results[t]]
<1>1. PICK r \in retireTicket..nextTicket :
        /\ results' = [t \in DOMAIN res \ (retireTicket..(r - 1)) |-> res[t]]
        /\ CursorAfter({res[t] : t \in retireTicket..(r - 1)}, cursor')
  BY DEF finish
<1>2. /\ DOMAIN res = DOMAIN results \cup {t0} /\ res[t0] = target
      /\ t0 \notin DOMAIN results
      /\ \A t \in DOMAIN results : res[t] = results[t]
  BY DEF SelectorInv, TicketsAccounted
<1> HIDE DEF res
<1>3. ASSUME NEW t \in DOMAIN res
      PROVE  cursor' >= res[t] \/ (t \in DOMAIN results' /\ results'[t] = res[t])
  <2>1. CASE t \in retireTicket..(r - 1)
    <3>1. res[t] \in {res[u] : u \in retireTicket..(r - 1)}
      BY <2>1
    <3> QED BY <1>1, <3>1 DEF CursorAfter
  <2>2. CASE t \notin retireTicket..(r - 1)
    BY <1>1, <1>3, <2>2
  <2> QED BY <2>1, <2>2
<1> QED BY <1>2, <1>3

\* No success of a connection is lost, in whatever order attempts finish: with
\* QuiescentAtCursor, the first attempt after a busy time starts behind every
\* node that was used in it.
THEOREM SelectorSuccessesKept == SelectorSpec => SuccessesKept
<1> DEFINE Kept ==
      /\ \A a \in Open : \A id \in DOMAIN returned[a] : Commit(a, id) =>
            LET target == Target(a, returned[a][id])
            IN  \/ cursor' >= target
                \/ ticket[a] \in DOMAIN results' /\ results'[ticket[a]] = target
      /\ \A t \in DOMAIN results :
            \/ cursor' >= results[t]
            \/ t \in DOMAIN results' /\ results'[t] = results[t]
<1>1. SelectorInv /\ [SelectorNext]_vars => [Kept]_vars
  <2> SUFFICES ASSUME SelectorInv, SelectorNext PROVE Kept
    OBVIOUS
  <2>1. ASSUME NEW a \in Open, NEW id \in DOMAIN returned[a], Commit(a, id)
        PROVE  LET target == Target(a, returned[a][id])
               IN  \/ cursor' >= target
                   \/ ticket[a] \in DOMAIN results' /\ results'[ticket[a]] = target
    BY <2>1, TargetType, FinishKeeps DEF Commit, Open
  <2>2. ASSUME NEW t \in DOMAIN results
        PROVE  cursor' >= results[t] \/ (t \in DOMAIN results' /\ results'[t] = results[t])
    <3>1. PICK a \in Attempts :
             \/ \E list \in CandidateLists :
                   \E usable \in SUBSET {list[i] : i \in 1..Len(list)} : Begin(a, list, usable)
             \/ AttemptNext(a) \/ AttemptNextExhausted(a)
             \/ \E id \in IDs : Commit(a, id)
             \/ Abort(a)
      BY DEF SelectorNext
    <3>2. ASSUME NEW id \in IDs, Commit(a, id)
          PROVE  cursor' >= results[t] \/ (t \in DOMAIN results' /\ results'[t] = results[t])
      <4>1. /\ a \in Open /\ id \in DOMAIN returned[a]
            /\ finish(ticket[a], Target(a, returned[a][id]))
        BY <3>2 DEF Commit, Open
      <4>2. Target(a, returned[a][id]) \in Nat
        BY <4>1, TargetType
      <4> QED BY <4>1, <4>2, FinishKeeps
    <3>3. CASE Abort(a)
      <4>1. a \in Open /\ 0 \in Nat /\ finish(ticket[a], 0)
        BY <3>3 DEF Abort, Open
      <4> QED BY <4>1, FinishKeeps
    <3>4. CASE results' = results
      BY <3>4
    <3> QED BY <3>1, <3>2, <3>3, <3>4
            DEF Begin, AttemptNext, AttemptNextExhausted, selectorVars
  <2> QED BY <2>1, <2>2
<1> QED BY <1>1, SelectorInvariance, PTL DEF SelectorSpec, SuccessesKept

-----------------------------------------------------------------------------
(* Attempts that do not overlap *)

\* An attempt starts at the cursor, a commit puts the cursor behind the node it
\* used, and an abort leaves it.
OneByOne ==
    [][\A a \in Attempts :
          /\ a \in Open' \ Open => startAbsolute'[a] = cursor
          /\ \A id \in DOMAIN returned[a] :
                Commit(a, id) => cursor' = Target(a, returned[a][id])
          /\ Abort(a) => cursor' = cursor]_vars

\* No result waits and the attempt in progress started at the cursor.
AloneInv == DOMAIN results = {} /\ \A a \in Open : startAbsolute[a] = cursor

\* The only attempt in progress has the only outstanding ticket, and its target
\* becomes the cursor unless that is ahead of it.
LEMMA FinishAlone ==
  ASSUME SelectorInv, AloneInv, NEW a \in Open, Open = {a}, NEW target \in Nat,
         finish(ticket[a], target)
  PROVE  cursor' = IF target > cursor THEN target ELSE cursor
<1> DEFINE res == [t \in DOMAIN results \cup {ticket[a]} |->
                      IF t = ticket[a] THEN target ELSE results[t]]
<1>1. PICK r \in retireTicket..nextTicket :
        /\ retireTicket..(r - 1) \subseteq DOMAIN res
        /\ r \notin DOMAIN res
        /\ CursorAfter({res[t] : t \in retireTicket..(r - 1)}, cursor')
  BY DEF finish
<1>2. DOMAIN res = {ticket[a]} /\ res[ticket[a]] = target
  BY DEF AloneInv
<1>3. /\ cursor \in Nat /\ nextTicket \in Nat /\ retireTicket \in Nat
      /\ retireTicket <= nextTicket
      /\ retireTicket..(nextTicket - 1) = {ticket[a]}
  BY DEF SelectorInv, SelectorTypeOK, TicketsAccounted, AloneInv
<1> HIDE DEF res
<1>4. retireTicket = ticket[a]
  <2>1. retireTicket # nextTicket
    BY <1>3
  <2>2. retireTicket \in retireTicket..(nextTicket - 1)
    BY <1>3, <2>1
  <2> QED BY <1>3, <2>2
<1>5. retireTicket..(r - 1) = {ticket[a]}
  <2>1. r # retireTicket /\ r \in Nat /\ r >= retireTicket
    BY <1>1, <1>2, <1>3, <1>4
  <2>2. retireTicket \in retireTicket..(r - 1)
    BY <1>3, <2>1
  <2> QED BY <1>1, <1>2, <1>4, <2>2
<1>6. CursorAfter({target}, cursor')
  <2>1. {res[t] : t \in retireTicket..(r - 1)} = {target}
    BY <1>2, <1>5
  <2> QED BY <1>1, <2>1
<1> QED BY <1>3, <1>6 DEF CursorAfter

\* A step of attempts that come one at a time.
LEMMA AloneStep ==
  ASSUME SelectorInv, AloneInv, [SelectorNext]_vars, \A a, b \in Attempts : a = b
  PROVE  /\ AloneInv'
         /\ \A a \in Attempts :
               /\ a \in Open' \ Open => startAbsolute'[a] = cursor
               /\ \A id \in DOMAIN returned[a] :
                     Commit(a, id) => cursor' = Target(a, returned[a][id])
               /\ Abort(a) => cursor' = cursor
<1>1. \A a \in Open : Open = {a}
  BY DEF Open
<1>2. Open = {} => reservationNext = cursor
  BY AllRetired DEF QuiescentAtCursor
<1>3. \A a \in Attempts : \A id \in DOMAIN returned[a] :
         Commit(a, id) => cursor' = Target(a, returned[a][id])
  <2> SUFFICES ASSUME NEW a \in Attempts, NEW id \in DOMAIN returned[a], Commit(a, id)
               PROVE  cursor' = Target(a, returned[a][id])
    OBVIOUS
  <2>1. a \in Open /\ finish(ticket[a], Target(a, returned[a][id]))
    BY DEF Commit, Open
  <2>2. Target(a, returned[a][id]) \in Nat
    BY TargetType
  <2>3. Target(a, returned[a][id]) > cursor
    <3>1. startAbsolute[a] = cursor /\ cursor \in Nat /\ returned[a][id] \in Nat
      BY <2>1 DEF AloneInv, SelectorInv, SelectorTypeOK
    <3> QED BY <3>1 DEF Target
  <2> QED BY <1>1, <2>1, <2>2, <2>3, FinishAlone
<1>4. \A a \in Attempts : Abort(a) => cursor' = cursor
  <2> SUFFICES ASSUME NEW a \in Attempts, Abort(a) PROVE cursor' = cursor
    OBVIOUS
  <2>1. a \in Open /\ finish(ticket[a], 0)
    BY DEF Abort, Open
  <2>2. ~(0 > cursor)
    BY DEF SelectorInv, SelectorTypeOK
  <2> QED BY <1>1, <2>1, <2>2, FinishAlone
<1>5. /\ AloneInv'
      /\ \A a \in Open' \ Open : startAbsolute'[a] = cursor
  <2>1. SelectorInv'
    BY SelectorNextInv
  <2>2. CASE Open' = {}
    <3>1. DOMAIN results' = {}
      <4>1. QuiescentAtCursor'
        BY <2>1, AllRetired, PTL
      <4> QED BY <2>2, <4>1 DEF QuiescentAtCursor
    <3> QED BY <2>2, <3>1 DEF AloneInv
  <2>3. CASE UNCHANGED vars
    BY <2>3 DEF vars, selectorVars, attemptVars, AloneInv, Open
  <2>4. ASSUME NEW a \in Attempts, NEW list \in CandidateLists,
               NEW usable \in SUBSET {list[i] : i \in 1..Len(list)}, Begin(a, list, usable)
        PROVE  AloneInv' /\ \A b \in Open' \ Open : startAbsolute'[b] = cursor
    <3>1. Open = {} /\ cursor' = cursor /\ results' = results
      BY <1>1, <2>4 DEF Begin, Open, selectorVars
    <3>2. CASE list = <<>>
      <4>1. Open' = {}
        BY <2>4, <3>1, <3>2 DEF Begin, Open, SelectorInv, SelectorTypeOK
      <4> QED BY <2>2, <4>1
    <3>3. CASE list # <<>>
      <4>1. startAbsolute'[a] = reservationNext
        BY <2>4, <3>3 DEF Begin, SelectorInv, SelectorTypeOK
      <4>2. \A b \in Open' : b = a
        BY DEF Open
      <4> QED BY <1>2, <3>1, <4>1, <4>2 DEF AloneInv
    <3> QED BY <3>2, <3>3
  <2>5. ASSUME NEW a \in Attempts, AttemptNext(a) \/ AttemptNextExhausted(a)
        PROVE  AloneInv' /\ \A b \in Open' \ Open : startAbsolute'[b] = cursor
    BY <2>5 DEF AttemptNext, AttemptNextExhausted, selectorVars, AloneInv, Open
  <2>6. ASSUME NEW a \in Attempts, Finished(a)
        PROVE  Open' = {}
    <3>1. phase'[a] = "idle"
      BY <2>6 DEF Finished, SelectorInv, SelectorTypeOK
    <3> QED BY <3>1 DEF Open
  <2> QED BY <2>2, <2>3, <2>4, <2>5, <2>6 DEF SelectorNext, Commit, Abort
<1> QED BY <1>3, <1>4, <1>5

\* When connections come one at a time the selector is the round robin it
\* stands for: each starts behind the node the last success used, with
\* CommitStartsBehindNode, and failures do not move the rotation.
THEOREM SelectorOneByOne ==
  ASSUME \A a, b \in Attempts : a = b
  PROVE  SelectorSpec => OneByOne
<1> DEFINE Rotates == \A a \in Attempts :
               /\ a \in Open' \ Open => startAbsolute'[a] = cursor
               /\ \A id \in DOMAIN returned[a] :
                     Commit(a, id) => cursor' = Target(a, returned[a][id])
               /\ Abort(a) => cursor' = cursor
<1>1. NewSelector => AloneInv
  BY DEF NewSelector, NoIDs, AloneInv, Open
<1>2. SelectorInv /\ AloneInv /\ [SelectorNext]_vars => AloneInv' /\ [Rotates]_vars
  BY AloneStep
<1> QED BY <1>1, <1>2, SelectorInvariance, PTL DEF SelectorSpec, OneByOne
=============================================================================
