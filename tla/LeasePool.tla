----------------------------- MODULE LeasePool ------------------------------
(***************************************************************************)
(* What the node registry promises its users: a pool of nodes that lends   *)
(* out their outbounds.  A node may be given to new users while it is      *)
(* routable, its outbound lasts as long as it is routable or lent to       *)
(* somebody, a user keeps the outbound it was lent, and one user at a time *)
(* holds the gate of a node (tries it although it is not available).       *)
(*                                                                         *)
(* There are no counts, no flags and no draining here: those are how       *)
(* Registry keeps the promise.                                             *)
(***************************************************************************)
CONSTANTS
    Nodes, Leases, Dialers,
    NoDialer,    \* no outbound
    NoNode       \* the node of a lease that is not open

VARIABLES
    routable,    \* nodes of the last snapshot applied
    outbound,    \* the outbound of each node
    lent,        \* the node of each lease
    through,     \* the outbound of each lease
    gate         \* leases that hold the gate of their node

poolVars == <<routable, outbound, lent, through, gate>>

Borrowers(n) == {l \in Leases : lent[l] = n}

PoolInit ==
    /\ routable = {}
    /\ outbound = [n \in Nodes |-> NoDialer]
    /\ lent = [l \in Leases |-> NoNode]
    /\ through = [l \in Leases |-> NoDialer]
    /\ gate = {}

\* A snapshot is applied: a node that stays, or is still lent, keeps its
\* outbound; a new one gets an outbound that nobody has; the others lose it.
Replace(new) ==
    /\ routable' = new
    /\ \A n \in Nodes :
          IF n \in new \/ Borrowers(n) # {}
            THEN IF outbound[n] # NoDialer
                   THEN outbound'[n] = outbound[n]
                   ELSE outbound'[n] \in Dialers \ {outbound[m] : m \in Nodes}
            ELSE outbound'[n] = NoDialer
    /\ \A m, n \in Nodes : m # n => outbound'[m] = NoDialer \/ outbound'[m] # outbound'[n]
    /\ UNCHANGED <<lent, through, gate>>

\* Leases are granted, to each l in new the node f[l].  Those in held hold
\* the gate, which must be free.
Grant(new, f, held) ==
    /\ \A l \in new : lent[l] = NoNode /\ f[l] \in routable
    /\ \A l \in held : \A k \in gate \cup held : k # l =>
          f[l] # IF k \in new THEN f[k] ELSE lent[k]
    /\ lent' = [l \in Leases |-> IF l \in new THEN f[l] ELSE lent[l]]
    /\ through' = [l \in Leases |-> IF l \in new THEN outbound[f[l]] ELSE through[l]]
    /\ gate' = gate \cup held
    /\ UNCHANGED <<routable, outbound>>

\* A lease is given back.  The outbound goes with the last lease of a node
\* that is no longer routable.
Return(l) ==
    LET n == lent[l]
    IN  /\ n # NoNode
        /\ lent' = [lent EXCEPT ![l] = NoNode]
        /\ through' = [through EXCEPT ![l] = NoDialer]
        /\ gate' = gate \ {l}
        /\ outbound' = IF n \notin routable /\ Borrowers(n) = {l}
                         THEN [outbound EXCEPT ![n] = NoDialer]
                         ELSE outbound
        /\ UNCHANGED routable

PoolNext ==
    \/ \E new \in SUBSET Nodes : Replace(new)
    \/ \E new \in SUBSET Leases : \E f \in [new -> Nodes] : \E held \in SUBSET new :
          Grant(new, f, held)
    \/ \E l \in Leases : Return(l)

PoolSpec == PoolInit /\ [][PoolNext]_poolVars
=============================================================================
