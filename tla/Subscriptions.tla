---------------------------- MODULE Subscriptions ---------------------------
(***************************************************************************)
(* The subscription manager (internal/subscription/manager.go, seed.go)    *)
(* and the refresh that feeds its snapshot to the registry (App.Refresh,   *)
(* internal/app/app.go).                                                   *)
(*                                                                         *)
(* App.Refresh holds refreshMu from its start to its end, whoever calls it *)
(* (start-up, the refresh ticker, the admin API), so one refresh runs at a *)
(* time.  Fetching is one step per source; any of them can fail.           *)
(*                                                                         *)
(* Abstractions:                                                           *)
(*  - a source answers with one of a set of documents or not at all; Parse *)
(*    says what a document is taken for;                                   *)
(*  - a node is its id, which Parse takes from its options: equal ids mean *)
(*    equal options but for the name;                                      *)
(*  - sources are fetched in any order;                                    *)
(*  - the registry is the snapshot of its last successful Apply, which     *)
(*    Registry shows `order' and `sourceIDs' to be.                        *)
(***************************************************************************)
EXTENDS Parse

CONSTANTS
    Sources,     \* configured source ids
    Answers,     \* by name, documents a source may return: the body, and the
                 \* outbounds it offers ({}: it must not be taken)
    Times,       \* expiry times that responses carry
    Never        \* the zero time: no expiry known

ASSUME SubscriptionsAssumption == Never \notin Times

VARIABLES
    bySource,    \* manager.bySource: {} for a source without an entry
    expiresAt,   \* manager.expiresAt (and last.ExpiresAt, the same map)
    lastNodes,   \* manager.last.Nodes: the sources of each node
    lastErrors,  \* keys of manager.last.SourceErrors
    phase,       \* where the refresh is: "idle", "fetching", "publish",
                 \* "apply" or "probe"
    pending,     \* sources the refresh has not fetched yet
    updates, expiries, sourceErrors,   \* locals of Manager.Refresh
    pool,        \* the snapshot the registry works from
    lastRefresh, \* application.lastRefresh is set
    lastGood,    \* history: what each source last offered
    applied,     \* history: lastGood when an Apply last succeeded
    applyFailed  \* history: the last Apply returned an error

managerVars == <<bySource, expiresAt, lastNodes, lastErrors>>
localVars == <<pending, updates, expiries, sourceErrors>>
appVars == <<pool, lastRefresh, applied, applyFailed>>
subscriptionVars == <<managerVars, localVars, appVars, phase, lastGood>>

\* The empty map, and m with m[k] set to v.
NoEntries == [k \in {} |-> {}]
Set(m, k, v) == [x \in DOMAIN m \cup {k} |-> IF x = k THEN v ELSE m[x]]

\* The ids Parse finds in each answer; none if it rejects it.
NodesOf == [a \in DOMAIN Answers |-> ParsedIDs(Answers[a].body)]
AllNodes == UNION {NodesOf[a] : a \in DOMAIN Answers}
\* What sets two answers apart: the nodes taken and the outbounds offered.
Readings == {[nodes |-> NodesOf[a], offers |-> Answers[a].offers] : a \in DOMAIN Answers}

Listed(lists) == UNION {lists[s] : s \in Sources}

\* mergeSources: a node that several sources list appears once, with all of
\* them.
mergeFirstSource(lists) ==
    [n \in Listed(lists) |-> {CHOOSE s \in Sources : n \in lists[s]}]
mergeSources(lists) == [n \in Listed(lists) |-> {s \in Sources : n \in lists[s]}]

-----------------------------------------------------------------------------
\* NewManager, and LoadSeed when a seed file gives some sources nodes.
SubscriptionsInit ==
    /\ \E seeded \in SUBSET Sources :
         \E seed \in [seeded -> {a \in DOMAIN Answers : NodesOf[a] # {}}] :
            /\ bySource = [s \in Sources |-> IF s \in seeded THEN NodesOf[seed[s]] ELSE {}]
            /\ lastGood = [s \in Sources |-> IF s \in seeded THEN Answers[seed[s]].offers
                                                              ELSE {}]
    /\ expiresAt \in [Sources -> Times \cup {Never}]
    /\ \A s \in Sources : bySource[s] = {} => expiresAt[s] = Never
    /\ lastNodes = mergeSources(bySource)
    /\ lastErrors = {}
    /\ phase = "idle"
    /\ pending = {} /\ updates = NoEntries /\ expiries = NoEntries
    /\ sourceErrors = {}
    /\ pool = NoEntries /\ lastRefresh = FALSE
    /\ applied = [s \in Sources |-> {}] /\ applyFailed = FALSE

\* App.Refresh takes refreshMu and Manager.Refresh starts.
RefreshStart ==
    /\ phase = "idle"
    /\ phase' = IF Sources = {} THEN "publish" ELSE "fetching"
    /\ pending' = Sources
    /\ UNCHANGED <<managerVars, updates, expiries, sourceErrors, appVars, lastGood>>

\* One source is done; after the last one the results are published.
Fetched(s) ==
    /\ phase = "fetching"
    /\ s \in pending
    /\ pending' = pending \ {s}
    /\ phase' = IF pending = {s} THEN "publish" ELSE "fetching"
    /\ UNCHANGED <<managerVars, appVars>>

\* The fetch fails (network, status, size limit, cancelled context).
FetchFails(s) ==
    /\ Fetched(s)
    /\ sourceErrors' = sourceErrors \cup {s}
    /\ UNCHANGED <<updates, expiries, lastGood>>

\* What the history remembers of an answer.
Remember(s, answer) ==
    lastGood' = IF answer.offers = {} THEN lastGood
                ELSE [lastGood EXCEPT ![s] = answer.offers]

\* A body arrives that Parse rejects or that holds no node: its expiry counts.
FetchUnusable(s, answer, t) ==
    /\ Fetched(s)
    /\ answer.nodes = {}
    /\ expiries' = Set(expiries, s, t)
    /\ sourceErrors' = sourceErrors \cup {s}
    /\ Remember(s, answer)
    /\ UNCHANGED updates

FetchNodes(s, answer, t) ==
    /\ Fetched(s)
    /\ answer.nodes # {}
    /\ expiries' = Set(expiries, s, t)
    /\ updates' = Set(updates, s, answer.nodes)
    /\ Remember(s, answer)
    /\ UNCHANGED sourceErrors

\* The node lists and the expiries after a refresh: a source without an entry
\* in the refresh's maps keeps what it had.
ListsReplaced == [s \in Sources |-> IF s \in DOMAIN updates THEN updates[s] ELSE {}]
ListsUpdated == [s \in Sources |-> IF s \in DOMAIN updates THEN updates[s]
                                                            ELSE bySource[s]]
ExpiriesReplaced == expiries
ExpiriesUpdated == [s \in Sources |-> IF s \in DOMAIN expiries THEN expiries[s]
                                                                ELSE expiresAt[s]]

\* Under manager.mu: expiries and lists are taken over and merged.
Publish ==
    /\ phase = "publish"
    /\ expiresAt' = ExpiriesUpdated
    /\ bySource' = ListsUpdated
    /\ lastNodes' = mergeSources(ListsUpdated)
    /\ lastErrors' = sourceErrors
    /\ phase' = "apply"
    /\ updates' = NoEntries /\ expiries' = NoEntries /\ sourceErrors' = {}
    /\ UNCHANGED <<pending, appVars, lastGood>>

\* An empty snapshot is not applied.
NothingToApply ==
    /\ phase = "apply"
    /\ lastNodes = NoEntries
    /\ phase' = "idle"
    /\ lastRefresh' = TRUE
    /\ UNCHANGED <<managerVars, localVars, pool, applied, applyFailed, lastGood>>

\* registry.Apply takes the snapshot.
Apply ==
    /\ phase = "apply"
    /\ lastNodes # NoEntries
    /\ pool' = lastNodes
    /\ applied' = lastGood /\ applyFailed' = FALSE
    /\ phase' = "probe"
    /\ UNCHANGED <<managerVars, localVars, lastRefresh, lastGood>>

\* A node cannot be built: the registry stays as it was and Refresh returns.
ApplyFails ==
    /\ phase = "apply"
    /\ lastNodes # NoEntries
    /\ applyFailed' = TRUE
    /\ phase' = "idle"
    /\ UNCHANGED <<managerVars, localVars, pool, lastRefresh, applied, lastGood>>

\* probeDue returns.
Probed ==
    /\ phase = "probe"
    /\ phase' = "idle"
    /\ lastRefresh' = TRUE
    /\ UNCHANGED <<managerVars, localVars, pool, applied, applyFailed, lastGood>>

SubscriptionsNext ==
    \/ RefreshStart \/ Publish \/ NothingToApply \/ Apply \/ ApplyFails \/ Probed
    \/ \E s \in Sources :
          \/ FetchFails(s)
          \/ \E answer \in Readings, t \in Times \cup {Never} :
                FetchUnusable(s, answer, t) \/ FetchNodes(s, answer, t)

SubscriptionsSpec == SubscriptionsInit /\ [][SubscriptionsNext]_subscriptionVars

-----------------------------------------------------------------------------
(* Properties *)

\* Every variable has its type.
SubscriptionsTypeOK ==
    /\ bySource \in [Sources -> SUBSET AllNodes]
    /\ DOMAIN lastGood = Sources /\ DOMAIN applied = Sources
    /\ DOMAIN updates \subseteq Sources
    /\ \A s \in DOMAIN updates : updates[s] \subseteq AllNodes
    /\ expiresAt \in [Sources -> Times \cup {Never}]
    /\ DOMAIN expiries \subseteq Sources
    /\ \A s \in DOMAIN expiries : expiries[s] \in Times \cup {Never}
    /\ DOMAIN lastNodes \subseteq AllNodes /\ DOMAIN pool \subseteq AllNodes
    /\ \A n \in DOMAIN lastNodes : lastNodes[n] \subseteq Sources
    /\ \A n \in DOMAIN pool : pool[n] \subseteq Sources
    /\ lastErrors \subseteq Sources /\ sourceErrors \subseteq Sources
    /\ pending \subseteq Sources
    /\ phase \in {"idle", "fetching", "publish", "apply", "probe"}
    /\ lastRefresh \in BOOLEAN /\ applyFailed \in BOOLEAN

\* Outside a refresh the manager holds, for every source, the outbounds it
\* last offered in a document that may be taken, through any sequence of
\* failed and partly failed refreshes: a document with one unsupported or
\* malformed node that condemns it, or too many, changes nothing.
LastKnownGood == phase \in {"idle", "apply", "probe"} => bySource = lastGood

\* The registry works from exactly the outbounds that the sources had offered
\* when an Apply last succeeded, and outside a refresh whose Apply failed these
\* are the outbounds they last offered.  An outbound that several sources offer
\* with the same normalized options, in whatever formats and under whatever
\* names, is one node with all of them; where the formats fill in options
\* differently it is a node for each ("duplicate nodes across sources collapse
\* to one node while retaining source membership" holds up to that).
PoolIsLastGood ==
    /\ DOMAIN pool = UNION {applied[s] : s \in Sources}
    /\ \A n \in DOMAIN pool : pool[n] = {s \in Sources : n \in applied[s]}
    /\ phase = "idle" /\ lastRefresh /\ ~applyFailed => applied = lastGood
=============================================================================
