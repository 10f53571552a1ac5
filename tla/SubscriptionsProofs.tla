------------------------- MODULE SubscriptionsProofs ------------------------
(***************************************************************************)
(* Proofs about the subscription manager for any sources, documents and    *)
(* expiry times, and about the identity of nodes.                          *)
(*                                                                         *)
(* What the manager does with a document depends on Parse.  The theorems   *)
(* on its lists are stated for documents that Parse reads as offered,      *)
(* which MCSubscriptions lets TLC check on one document of each kind; the  *)
(* type and the node limit need no such condition.                         *)
(***************************************************************************)
EXTENDS Subscriptions, FunctionTheorems, FiniteSetTheorems, TLAPS

\* Parse takes from each document exactly the outbounds it offers.
ReadAsOffered == \A a \in DOMAIN Answers : NodesOf[a] = Answers[a].offers

\* A source has an entry in updates only for a document that had nodes, and
\* only while a refresh is under way.
UpdatesInv ==
    /\ \A s \in DOMAIN updates : updates[s] # {}
    /\ phase \notin {"fetching", "publish"} => updates = NoEntries

\* What was last offered is what the refresh under way will publish.
GoodInv == lastGood = ListsUpdated

\* The registry has the merge of what was on offer at the last successful Apply,
\* which is still on offer when that Apply was the refresh's last word.
AppliedInv ==
    /\ applied = [s \in Sources |-> applied[s]]
    /\ pool = mergeSources(applied)
    /\ phase = "probe" => applied = lastGood
    /\ phase = "idle" /\ lastRefresh /\ ~applyFailed => applied = lastGood

\* The snapshot is the merge of the lists, and one that is empty always was.
PoolInv ==
    /\ lastNodes = mergeSources(bySource)
    /\ lastNodes = NoEntries => pool = NoEntries

SubscriptionsInv == SubscriptionsTypeOK /\ UpdatesInv /\ PoolInv

-----------------------------------------------------------------------------
(* Maps and merging *)

\* A function without arguments is the empty map.
LEMMA EmptyMap ==
  /\ DOMAIN NoEntries = {}
  /\ \A S : \A f \in [S -> SUBSET Sources] : f = NoEntries <=> S = {}
BY DEF NoEntries

\* The merge has the nodes that are listed, each with the sources listing it,
\* and is empty only if no source lists anything.
LEMMA MergeSources ==
  ASSUME NEW lists
  PROVE  /\ mergeSources(lists) \in [Listed(lists) -> SUBSET Sources]
         /\ DOMAIN mergeSources(lists) = Listed(lists)
         /\ \A n \in Listed(lists) :
               mergeSources(lists)[n] = {s \in Sources : n \in lists[s]}
         /\ mergeSources(lists) = NoEntries <=> \A s \in Sources : lists[s] = {}
<1>1. /\ mergeSources(lists) \in [Listed(lists) -> SUBSET Sources]
      /\ DOMAIN mergeSources(lists) = Listed(lists)
      /\ \A n \in Listed(lists) :
            mergeSources(lists)[n] = {s \in Sources : n \in lists[s]}
  BY DEF mergeSources
<1>2. mergeSources(lists) = NoEntries <=> Listed(lists) = {}
  BY <1>1, EmptyMap
<1>3. Listed(lists) = {} <=> \A s \in Sources : lists[s] = {}
  BY DEF Listed
<1> QED BY <1>1, <1>2, <1>3

\* The lists a refresh publishes, and what is listed in lists of known nodes.
LEMMA ListsType ==
  ASSUME SubscriptionsTypeOK
  PROVE  /\ ListsUpdated \in [Sources -> SUBSET AllNodes]
         /\ ExpiriesUpdated \in [Sources -> Times \cup {Never}]
BY DEF SubscriptionsTypeOK, ListsUpdated, ExpiriesUpdated

LEMMA MergeType ==
  ASSUME NEW lists \in [Sources -> SUBSET AllNodes]
  PROVE  /\ DOMAIN mergeSources(lists) \subseteq AllNodes
         /\ \A n \in DOMAIN mergeSources(lists) : mergeSources(lists)[n] \subseteq Sources
<1>1. Listed(lists) \subseteq AllNodes
  BY DEF Listed
<1> QED BY <1>1, MergeSources

\* An answer's nodes are known nodes.
LEMMA AnswerNodes ==
  /\ \A a \in DOMAIN Answers : NodesOf[a] \subseteq AllNodes
  /\ \A answer \in Readings : answer.nodes \subseteq AllNodes
BY DEF AllNodes, Readings

-----------------------------------------------------------------------------
(* The invariant *)

\* NewManager and LoadSeed establish it.
LEMMA SubscriptionsInitInv == SubscriptionsInit => SubscriptionsInv
<1> SUFFICES ASSUME SubscriptionsInit PROVE SubscriptionsInv
  OBVIOUS
<1>1. /\ bySource \in [Sources -> SUBSET AllNodes]
      /\ DOMAIN lastGood = Sources /\ DOMAIN applied = Sources
  BY AnswerNodes DEF SubscriptionsInit
<1>2. SubscriptionsTypeOK
  <2>1. /\ DOMAIN lastNodes \subseteq AllNodes
        /\ \A n \in DOMAIN lastNodes : lastNodes[n] \subseteq Sources
    <3>1. lastNodes = mergeSources(bySource)
      BY DEF SubscriptionsInit
    <3> QED BY <1>1, <3>1, MergeType
  <2>2. DOMAIN updates = {} /\ DOMAIN expiries = {} /\ DOMAIN pool = {}
    BY EmptyMap DEF SubscriptionsInit
  <2> QED BY <1>1, <2>1, <2>2 DEF SubscriptionsInit, SubscriptionsTypeOK
<1>3. UpdatesInv /\ PoolInv
  BY EmptyMap DEF SubscriptionsInit, UpdatesInv, PoolInv
<1> QED BY <1>2, <1>3 DEF SubscriptionsInv

\* Fetching fills the refresh's own maps; what was published stays.
LEMMA FetchInv ==
  ASSUME SubscriptionsInv, NEW s \in Sources,
         \/ FetchFails(s)
         \/ \E answer \in Readings, t \in Times \cup {Never} :
               FetchUnusable(s, answer, t) \/ FetchNodes(s, answer, t)
  PROVE  SubscriptionsInv'
<1> USE DEF Fetched, managerVars, appVars
<1>0. DOMAIN lastGood' = DOMAIN lastGood
  BY DEF FetchFails, FetchUnusable, FetchNodes, Remember
<1>1. CASE FetchFails(s)
  <2> USE <1>1 DEF FetchFails
  <2>1. SubscriptionsTypeOK'
    BY <1>0 DEF SubscriptionsInv, SubscriptionsTypeOK
  <2> QED BY <2>1 DEF SubscriptionsInv, UpdatesInv, PoolInv
<1>2. ASSUME NEW answer \in Readings, NEW t \in Times \cup {Never}, FetchUnusable(s, answer, t)
      PROVE  SubscriptionsInv'
  <2> USE <1>2 DEF FetchUnusable
  <2>1. /\ DOMAIN expiries' \subseteq Sources
        /\ \A r \in DOMAIN expiries' : expiries'[r] \in Times \cup {Never}
    BY DEF Set, SubscriptionsInv, SubscriptionsTypeOK
  <2>2. SubscriptionsTypeOK'
    BY <1>0, <2>1 DEF SubscriptionsInv, SubscriptionsTypeOK
  <2> QED BY <2>2 DEF SubscriptionsInv, UpdatesInv, PoolInv
<1>3. ASSUME NEW answer \in Readings, NEW t \in Times \cup {Never}, FetchNodes(s, answer, t)
      PROVE  SubscriptionsInv'
  <2> USE <1>3 DEF FetchNodes
  <2>1. /\ DOMAIN expiries' \subseteq Sources
        /\ \A r \in DOMAIN expiries' : expiries'[r] \in Times \cup {Never}
    BY DEF Set, SubscriptionsInv, SubscriptionsTypeOK
  <2>2. /\ DOMAIN updates' \subseteq Sources
        /\ \A r \in DOMAIN updates' : updates'[r] \subseteq AllNodes /\ updates'[r] # {}
    BY AnswerNodes DEF Set, SubscriptionsInv, SubscriptionsTypeOK, UpdatesInv
  <2>3. SubscriptionsTypeOK'
    BY <1>0, <2>1, <2>2 DEF SubscriptionsInv, SubscriptionsTypeOK
  <2> QED BY <2>2, <2>3 DEF SubscriptionsInv, UpdatesInv, PoolInv
<1> QED BY <1>1, <1>2, <1>3

\* Publishing never empties a list, so a registry that has nodes never meets an
\* empty snapshot.
LEMMA PublishInv ==
  ASSUME SubscriptionsInv, Publish
  PROVE  SubscriptionsInv'
<1> USE DEF Publish, appVars
<1>1. ListsUpdated \in [Sources -> SUBSET AllNodes]
      /\ ExpiriesUpdated \in [Sources -> Times \cup {Never}]
  BY ListsType DEF SubscriptionsInv
<1>2. SubscriptionsTypeOK'
  BY <1>1, MergeType, EmptyMap DEF SubscriptionsInv, SubscriptionsTypeOK
<1>3. lastNodes' = NoEntries => lastNodes = NoEntries
  <2> SUFFICES ASSUME mergeSources(ListsUpdated) = NoEntries, NEW s \in Sources
               PROVE  bySource[s] = {}
    BY MergeSources DEF SubscriptionsInv, PoolInv
  <2>1. ListsUpdated[s] = {}
    BY MergeSources
  <2> QED BY <2>1 DEF ListsUpdated, SubscriptionsInv, UpdatesInv
<1>4. PoolInv'
  BY <1>3 DEF SubscriptionsInv, PoolInv
<1>5. UpdatesInv'
  BY EmptyMap DEF UpdatesInv
<1> QED BY <1>2, <1>4, <1>5 DEF SubscriptionsInv

\* The rest of App.Refresh.
LEMMA RefreshInv ==
  ASSUME SubscriptionsInv,
         RefreshStart \/ NothingToApply \/ Apply \/ ApplyFails \/ Probed
  PROVE  SubscriptionsInv'
<1> USE DEF managerVars, appVars, localVars
<1>1. CASE RefreshStart
  BY <1>1 DEF RefreshStart, SubscriptionsInv, SubscriptionsTypeOK, UpdatesInv, PoolInv
<1>2. CASE NothingToApply
  BY <1>2 DEF NothingToApply, SubscriptionsInv, SubscriptionsTypeOK, UpdatesInv, PoolInv
<1>3. CASE Apply
  BY <1>3 DEF Apply, SubscriptionsInv, SubscriptionsTypeOK, UpdatesInv, PoolInv
<1>4. CASE ApplyFails
  BY <1>4 DEF ApplyFails, SubscriptionsInv, SubscriptionsTypeOK, UpdatesInv, PoolInv
<1>5. CASE Probed
  BY <1>5 DEF Probed, SubscriptionsInv, SubscriptionsTypeOK, UpdatesInv, PoolInv
<1> QED BY <1>1, <1>2, <1>3, <1>4, <1>5

\* Every step of a refresh preserves the invariant.
LEMMA SubscriptionsNextInv ==
  SubscriptionsInv /\ [SubscriptionsNext]_subscriptionVars => SubscriptionsInv'
<1> SUFFICES ASSUME SubscriptionsInv, [SubscriptionsNext]_subscriptionVars
             PROVE  SubscriptionsInv'
  OBVIOUS
<1>1. CASE UNCHANGED subscriptionVars
  BY <1>1 DEF subscriptionVars, managerVars, localVars, appVars, SubscriptionsInv,
              SubscriptionsTypeOK, UpdatesInv, PoolInv
<1> QED BY <1>1, FetchInv, PublishInv, RefreshInv DEF SubscriptionsNext

\* The inductive invariant of the manager, whatever Parse does.
THEOREM SubscriptionsInvariance == SubscriptionsSpec => []SubscriptionsInv
BY SubscriptionsInitInv, SubscriptionsNextInv, PTL DEF SubscriptionsSpec

\* Type correctness of the manager (manager.go) and of what App.Refresh keeps.
THEOREM SubscriptionsTypeCorrect == SubscriptionsSpec => []SubscriptionsTypeOK
<1>1. SubscriptionsInv => SubscriptionsTypeOK
  BY DEF SubscriptionsInv
<1> QED BY <1>1, SubscriptionsInvariance, PTL

-----------------------------------------------------------------------------
(* Last known good *)

\* If Parse reads documents as offered, what was last offered is what the lists
\* and the refresh under way say.
LEMMA GoodInit ==
  ASSUME ReadAsOffered, SubscriptionsInit
  PROVE  GoodInv
<1>1. PICK seeded \in SUBSET Sources :
        \E seed \in [seeded -> {a \in DOMAIN Answers : NodesOf[a] # {}}] :
          /\ bySource = [s \in Sources |-> IF s \in seeded THEN NodesOf[seed[s]] ELSE {}]
          /\ lastGood = [s \in Sources |-> IF s \in seeded THEN Answers[seed[s]].offers
                                                            ELSE {}]
  BY DEF SubscriptionsInit
<1>2. lastGood = bySource /\ bySource = [s \in Sources |-> bySource[s]]
  BY <1>1 DEF ReadAsOffered
<1>3. ListsUpdated = [s \in Sources |-> bySource[s]]
  BY EmptyMap DEF SubscriptionsInit, ListsUpdated
<1> QED BY <1>2, <1>3 DEF GoodInv

\* A fetch that brings nodes is remembered as what it offers, one that does not
\* leaves both sides alone; Publish moves the lists from one place to another.
LEMMA GoodStep ==
  ASSUME ReadAsOffered, SubscriptionsInv, GoodInv, [SubscriptionsNext]_subscriptionVars
  PROVE  GoodInv'
<1>0. lastGood = [s \in Sources |-> IF s \in DOMAIN updates THEN updates[s] ELSE bySource[s]]
  BY DEF GoodInv, ListsUpdated
<1>1. ASSUME NEW s \in Sources, FetchFails(s) PROVE GoodInv'
  BY <1>0, <1>1 DEF FetchFails, Fetched, managerVars, GoodInv, ListsUpdated
<1>2. ASSUME NEW s \in Sources, NEW answer \in Readings, NEW t, FetchUnusable(s, answer, t)
      PROVE  GoodInv'
  <2>1. lastGood' = lastGood /\ UNCHANGED <<updates, bySource>>
    BY <1>2 DEF ReadAsOffered, Readings, FetchUnusable, Fetched, Remember, managerVars
  <2> QED BY <1>0, <2>1 DEF GoodInv, ListsUpdated
<1>3. ASSUME NEW s \in Sources, NEW answer \in Readings, NEW t, FetchNodes(s, answer, t)
      PROVE  GoodInv'
  <2>1. /\ lastGood' = [lastGood EXCEPT ![s] = answer.nodes]
        /\ updates' = Set(updates, s, answer.nodes) /\ bySource' = bySource
    <3>1. answer.offers = answer.nodes
      BY <1>3 DEF ReadAsOffered, Readings
    <3> QED BY <1>3, <3>1 DEF FetchNodes, Fetched, Remember, managerVars
  <2>2. \A r \in Sources :
           lastGood'[r] = IF r \in DOMAIN updates' THEN updates'[r] ELSE bySource'[r]
    BY <1>0, <2>1 DEF Set
  <2>3. lastGood' = [r \in Sources |-> lastGood'[r]]
    BY <1>0, <2>1
  <2> QED BY <2>2, <2>3 DEF GoodInv, ListsUpdated
<1>4. CASE Publish
  <2>1. lastGood' = lastGood /\ bySource' = ListsUpdated /\ DOMAIN updates' = {}
    BY <1>4, EmptyMap DEF Publish
  <2> QED BY <1>0, <2>1 DEF GoodInv, ListsUpdated
<1>5. CASE RefreshStart \/ NothingToApply \/ Apply \/ ApplyFails \/ Probed
           \/ UNCHANGED subscriptionVars
  <2>1. UNCHANGED <<lastGood, bySource, updates>>
    BY <1>5 DEF RefreshStart, NothingToApply, Apply, ApplyFails, Probed, subscriptionVars,
                managerVars, localVars
  <2> QED BY <1>0, <2>1 DEF GoodInv, ListsUpdated
<1> QED BY <1>1, <1>2, <1>3, <1>4, <1>5 DEF SubscriptionsNext

\* Outside a refresh the lists are what was last offered.
LEMMA GoodOutsideRefresh ==
  ASSUME SubscriptionsInv, GoodInv, phase \in {"idle", "apply", "probe"}
  PROVE  bySource = lastGood
<1>1. DOMAIN updates = {}
  BY EmptyMap DEF SubscriptionsInv, UpdatesInv
<1> QED BY <1>1 DEF GoodInv, ListsUpdated, SubscriptionsInv, SubscriptionsTypeOK

\* Apply hands over what was last offered, and an empty snapshot is left alone
\* only by a registry that is empty, too.
LEMMA AppliedStep ==
  ASSUME ReadAsOffered, SubscriptionsInv, GoodInv, AppliedInv,
         [SubscriptionsNext]_subscriptionVars
  PROVE  AppliedInv'
<1>0. lastGood = [s \in Sources |-> lastGood[s]]
  BY DEF GoodInv, ListsUpdated
<1>1. CASE Apply
  <2>1. bySource = lastGood
    BY <1>1, GoodOutsideRefresh DEF Apply
  <2>2. pool' = mergeSources(lastGood) /\ applied' = lastGood /\ lastGood' = lastGood
    BY <1>1, <2>1 DEF Apply, SubscriptionsInv, PoolInv
  <2> QED BY <1>0, <1>1, <2>2 DEF Apply, AppliedInv
<1>2. CASE NothingToApply
  <2>1. UNCHANGED <<applied, pool, lastGood>>
    BY <1>2 DEF NothingToApply
  <2>2. bySource = lastGood
    BY <1>2, GoodOutsideRefresh DEF NothingToApply
  <2>3. mergeSources(lastGood) = NoEntries /\ mergeSources(applied) = NoEntries
    BY <1>2, <2>2 DEF NothingToApply, SubscriptionsInv, PoolInv, AppliedInv
  <2>4. \A s \in Sources : applied[s] = {} /\ lastGood[s] = {}
    BY <2>3, MergeSources
  <2>5. applied = lastGood
    BY <1>0, <2>4 DEF AppliedInv
  <2> QED BY <2>1, <2>5 DEF AppliedInv
<1>3. CASE Probed
  BY <1>3 DEF Probed, AppliedInv
<1>4. CASE UNCHANGED subscriptionVars
  BY <1>4 DEF subscriptionVars, appVars, AppliedInv
<1>5. CASE ApplyFails
  BY <1>5 DEF ApplyFails, AppliedInv
<1>6. CASE RefreshStart \/ Publish
  BY <1>6 DEF RefreshStart, Publish, appVars, AppliedInv
<1>7. ASSUME NEW s \in Sources, Fetched(s) PROVE AppliedInv'
  BY <1>7 DEF Fetched, appVars, AppliedInv
<1> QED BY <1>1, <1>2, <1>3, <1>4, <1>5, <1>6, <1>7
        DEF SubscriptionsNext, FetchFails, FetchUnusable, FetchNodes

\* With documents that Parse reads as offered the invariants hold together.
THEOREM SubscriptionsGoodInvariance ==
  ASSUME ReadAsOffered
  PROVE  SubscriptionsSpec => [](SubscriptionsInv /\ GoodInv /\ AppliedInv)
<1>1. SubscriptionsInit => GoodInv /\ AppliedInv
  <2>1. ASSUME SubscriptionsInit PROVE AppliedInv
    <3>1. applied = [s \in Sources |-> {}] /\ pool = NoEntries
      BY <2>1 DEF SubscriptionsInit
    <3>2. mergeSources(applied) = NoEntries
      BY <3>1, MergeSources
    <3> QED BY <2>1, <3>1, <3>2 DEF SubscriptionsInit, AppliedInv
  <2> QED BY <2>1, GoodInit
<1>2. SubscriptionsInv /\ GoodInv /\ AppliedInv /\ [SubscriptionsNext]_subscriptionVars
        => GoodInv' /\ AppliedInv'
  BY GoodStep, AppliedStep
<1> QED BY <1>1, <1>2, SubscriptionsInvariance, PTL DEF SubscriptionsSpec

\* Outside a refresh the manager holds, for every source, the outbounds it last
\* offered, through any sequence of failed and partly failed refreshes.
THEOREM SubscriptionsLastKnownGood ==
  ASSUME ReadAsOffered
  PROVE  SubscriptionsSpec => []LastKnownGood
<1>1. SubscriptionsInv /\ GoodInv => LastKnownGood
  BY GoodOutsideRefresh DEF LastKnownGood
<1> QED BY <1>1, SubscriptionsGoodInvariance, PTL

\* The registry works from exactly the outbounds that were on offer when an Apply
\* last succeeded, each with all the sources that offered it, and after a refresh
\* whose Apply succeeded these are the ones last offered.
THEOREM SubscriptionsPoolIsLastGood ==
  ASSUME ReadAsOffered
  PROVE  SubscriptionsSpec => []PoolIsLastGood
<1>1. AppliedInv => PoolIsLastGood
  <2> SUFFICES ASSUME AppliedInv PROVE PoolIsLastGood
    OBVIOUS
  <2>1. DOMAIN pool = Listed(applied)
        /\ \A n \in Listed(applied) : pool[n] = {s \in Sources : n \in applied[s]}
    BY MergeSources DEF AppliedInv
  <2> QED BY <2>1 DEF AppliedInv, PoolIsLastGood, Listed
<1> QED BY <1>1, SubscriptionsGoodInvariance, PTL

\* Whatever documents arrive, and however Parse reads them, a source that has
\* nodes keeps some, and a registry that has nodes is never emptied.
THEOREM SubscriptionsNeverEmptied ==
  SubscriptionsSpec => [][/\ \A s \in Sources : bySource[s] # {} => bySource'[s] # {}
                          /\ pool # NoEntries => pool' # NoEntries]_subscriptionVars
<1> DEFINE Kept == /\ \A s \in Sources : bySource[s] # {} => bySource'[s] # {}
                   /\ pool # NoEntries => pool' # NoEntries
<1>1. SubscriptionsInv /\ [SubscriptionsNext]_subscriptionVars => [Kept]_subscriptionVars
  <2> SUFFICES ASSUME SubscriptionsInv, SubscriptionsNext PROVE Kept
    OBVIOUS
  <2>1. CASE Publish
    <3>1. bySource' = ListsUpdated /\ pool' = pool
      BY <2>1 DEF Publish, appVars
    <3> QED BY <3>1 DEF ListsUpdated, SubscriptionsInv, UpdatesInv
  <2>2. CASE Apply
    BY <2>2 DEF Apply, managerVars
  <2>3. CASE ~Publish /\ ~Apply
    <3>1. UNCHANGED <<bySource, pool>>
      BY <2>3 DEF SubscriptionsNext, RefreshStart, NothingToApply, ApplyFails, Probed,
                  FetchFails, FetchUnusable, FetchNodes, Fetched, managerVars, appVars
    <3> QED BY <3>1
  <2> QED BY <2>1, <2>2, <2>3
<1> QED BY <1>1, SubscriptionsInvariance, PTL DEF SubscriptionsSpec

-----------------------------------------------------------------------------
(* The identity of a node *)

Names == {"tag", "name"}

\* Two option maps say the same but for the names.
SameButNames(o, p) ==
    /\ DOMAIN o \ Names = DOMAIN p \ Names
    /\ \A key \in DOMAIN o \ Names : o[key] = p[key]

\* The map an id stands for, key by key.
LEMMA StableMap ==
  ASSUME NEW o
  PROVE  /\ DOMAIN stableMapID(o) = (DOMAIN o \ (Names \cup {"port"}))
                \cup (IF "port" \in DOMAIN o THEN {"server_port"} ELSE {})
         /\ \A key \in DOMAIN stableMapID(o) :
               stableMapID(o)[key] = IF key = "server_port" /\ "port" \in DOMAIN o
                                     THEN o["port"] ELSE o[key]
         /\ stableMapID(o) = [key \in DOMAIN stableMapID(o) |-> stableMapID(o)[key]]
<1> DEFINE port == IF "port" \in DOMAIN o THEN {"server_port"} ELSE {}
           keys == port \cup (DOMAIN o \ {"tag", "name", "port"})
<1>1. stableMapID(o) = [key \in keys |-> o[IF key \in port THEN "port" ELSE key]]
  BY DEF stableMapID, Has
<1>2. keys = (DOMAIN o \ (Names \cup {"port"})) \cup port
  BY DEF Names
<1> QED BY <1>1, <1>2

\* Renaming a node does not make it another one.
THEOREM NamesDoNotCount ==
  ASSUME NEW o, NEW p, SameButNames(o, p)
  PROVE  stableMapID(o) = stableMapID(p)
<1>1. "port" \in DOMAIN o <=> "port" \in DOMAIN p
  BY DEF SameButNames, Names
<1>2. DOMAIN stableMapID(o) = DOMAIN stableMapID(p)
  BY <1>1, StableMap DEF SameButNames, Names
<1>3. ASSUME NEW key \in DOMAIN stableMapID(o)
      PROVE  stableMapID(o)[key] = stableMapID(p)[key]
  <2>1. CASE key = "server_port" /\ "port" \in DOMAIN o
    <3>1. stableMapID(o)[key] = o["port"] /\ stableMapID(p)[key] = p["port"]
      BY <1>1, <1>2, <2>1, StableMap
    <3> QED BY <2>1, <3>1 DEF SameButNames, Names
  <2>2. CASE ~(key = "server_port" /\ "port" \in DOMAIN o)
    <3>1. stableMapID(o)[key] = o[key] /\ stableMapID(p)[key] = p[key]
      BY <1>1, <1>2, <2>2, StableMap
    <3>2. key \in DOMAIN o \ Names
      <4>1. key \in (DOMAIN o \ (Names \cup {"port"}))
                     \cup (IF "port" \in DOMAIN o THEN {"server_port"} ELSE {})
        BY StableMap
      <4> QED BY <2>2, <4>1
    <3> QED BY <3>1, <3>2 DEF SameButNames
  <2> QED BY <2>1, <2>2
<1>4. /\ stableMapID(o) = [key \in DOMAIN stableMapID(o) |-> stableMapID(o)[key]]
      /\ stableMapID(p) = [key \in DOMAIN stableMapID(p) |-> stableMapID(p)[key]]
  BY StableMap
<1>5. [key \in DOMAIN stableMapID(o) |-> stableMapID(o)[key]]
         = [key \in DOMAIN stableMapID(p) |-> stableMapID(p)[key]]
  BY <1>2, <1>3
<1> QED BY <1>4, <1>5

\* Options that differ in anything else are different nodes, once the port goes
\* by the name server_port, as it does after normalizing: collapsing duplicates
\* never drops an outbound.
THEOREM OptionsCount ==
  ASSUME NEW o, NEW p, "port" \notin DOMAIN o, "port" \notin DOMAIN p,
         stableMapID(o) = stableMapID(p)
  PROVE  SameButNames(o, p)
<1>1. DOMAIN o \ Names = DOMAIN stableMapID(o) /\ DOMAIN p \ Names = DOMAIN stableMapID(p)
  BY StableMap
<1>2. \A key \in DOMAIN o \ Names : stableMapID(o)[key] = o[key]
  BY <1>1, StableMap
<1>3. \A key \in DOMAIN p \ Names : stableMapID(p)[key] = p[key]
  BY <1>1, StableMap
<1> QED BY <1>1, <1>2, <1>3 DEF SameButNames
=============================================================================
