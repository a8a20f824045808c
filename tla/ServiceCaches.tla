---------------------------- MODULE ServiceCaches ----------------------------
(***************************************************************************)
(* A service that answers from a Redis cache in front of its tables: a     *)
(* query reads one key at a time, and leaves goroutines, loops or          *)
(* pipelines behind that write the cache one command at a time, while the  *)
(* next queries are asked.  Queries change nothing but through what they   *)
(* leave behind, so that one of them is followed at a time; the writes of  *)
(* any number of them run concurrently.                                    *)
(*                                                                         *)
(* Each service has a Redis of its own, and some of its data share no key  *)
(* with the rest: one store, a group of data that do, is considered at a   *)
(* time, and Init chooses it.  Redis survives the service.                 *)
(***************************************************************************)
EXTENDS PermissionCache, SubscriptionCache, AchievementCache, FriendsCache,
        GuildCache, ItemsCache, CatalogCache, PlayerCache, FiniteSets

CONSTANTS
  Stores,       \* the stores considered
  MaxWriters,   \* bound: sequences in execution when a query adds its own
  MaxCrashes,   \* bound: times the service ends and is restarted
  MaxFaults     \* bound: commands Redis answers with an error

ASSUME CachesAssumption ==
  /\ Stores \subseteq
       {"ranks", "subscriptions", "achievements", "user_achievements", "friends",
        "friend_requests", "guild_parts", "items", "catalog_pages", "catalog_items", "users",
        "respects", "club_data", "credits", "currencies"}
  /\ MaxWriters \in Nat
  /\ MaxCrashes \in Nat
  /\ MaxFaults \in Nat

VARIABLES
  store,     \* the store considered
  up,        \* is its service running?
  query,     \* the query that is followed, and its answer
  writes,    \* the command sequences in execution: what is left of each, and
             \* whether it depends on the request that started it
  lost,      \* history: was a sequence cut short, and not repeated since?
  failed,    \* history: the entries whose write Redis answered with an error
  crashes,
  faults

vars == <<cache, store, up, query, writes, lost, failed, crashes, faults>>

Idle == [pc |-> "idle", op |-> "none", wants |-> {}, keys |-> {}, got |-> {},
         rows |-> {}, fill |-> {}, calm |-> FALSE]

Plans(err) ==
  CASE store = "ranks"             -> RankPlans(err)
    [] store = "subscriptions"     -> SubscriptionPlans(err)
    [] store = "achievements"      -> AchievementPlans
    [] store = "user_achievements" -> UserAchievementPlans(err)
    [] store = "friends"           -> FriendsPlans(err)
    [] store = "friend_requests"   -> FriendRequestPlans(err)
    [] store = "guild_parts"       -> GuildPlans(err)
    [] store = "items"             -> ItemsPlans(err)
    [] store = "catalog_pages"     -> CatalogPagePlans(err)
    [] store = "catalog_items"     -> CatalogItemPlans
    [] store = "users"             -> UserPlans
    [] store = "respects"          -> RespectPlans
    [] store = "club_data"         -> ClubDataPlans
    [] store = "credits"           -> CreditsPlans(err)
    [] store = "currencies"        -> CurrencyPlans(err)

\* What main loads without waiting for it.
StartLoad(err) ==
  CASE store = "ranks"         -> PermissionStart(err)
    [] store = "guild_parts"   -> {LoadGuildParts}
    [] store = "items"         -> {LoadBaseItems}
    [] store = "catalog_pages" -> {LoadCatalogPages}
    [] store = "catalog_items" -> LoadCatalogItems
    [] OTHER                   -> {}

Init ==
  /\ store \in Stores
  /\ up = FALSE
  /\ cache = {}
  /\ query = Idle
  /\ writes = {}
  /\ lost = FALSE
  /\ failed = {}
  /\ crashes = 0
  /\ faults = 0

MayFail == faults < MaxFaults
Count(err) == IF err THEN faults + 1 ELSE faults

\* The service starts, its load with it, on whatever Redis holds.
Start ==
  /\ ~up
  /\ up' = TRUE
  /\ \E err \in BOOLEAN :
       /\ err => MayFail
       /\ faults' = Count(err)
       /\ writes' = [bound : {FALSE}, cmds : StartLoad(err)]
       /\ lost' = (lost /\ StartLoad(err) = {})
  /\ UNCHANGED <<cache, store, query, failed, crashes>>

\* What the goroutines of these operations execute uses the context of the
\* request, or is queued on a pipeline that may have been executed before.
RequestBound ==
  {"GetSubscriptionsForUser", "GetSubscription", "GetUserAchievements", "GetFriendsForUser",
   "GetCatalogPageByLayout", "GetUserCurrencies", "GetUserCredits", "loadUserDataById"}

\* The rows come from the table, and are left to be cached.
AskTable(r) ==
  /\ query' = [Idle EXCEPT !.pc = "done", !.op = r.op, !.wants = r.wants, !.got = r.rows,
                           !.calm = r.calm]
  /\ writes' = writes \union [bound : {r.op \in RequestBound}, cmds : r.fill]
  /\ r.fill = {} \/ Cardinality(writes) <= MaxWriters

\* A query with keys left goes on; one that has got nothing asks the table.
Settle(r) ==
  \/ /\ r.keys # {}
     /\ query' = [r EXCEPT !.pc = "reading"]
     /\ UNCHANGED writes
  \/ /\ r.keys = {} /\ r.got # {}
     /\ query' = [r EXCEPT !.pc = "done", !.rows = {}, !.fill = {}]
     /\ UNCHANGED writes
  \/ /\ r.keys = {} /\ r.got = {}
     /\ AskTable(r)

\* A query is asked: what the cache holds now, or an error of Redis, decides
\* what is read.  It is calm if nothing is being written and nothing has
\* disturbed the cache.
Ask ==
  /\ up
  /\ query.pc # "reading"
  /\ \E err \in BOOLEAN :
       /\ err => MayFail
       /\ faults' = Count(err)
       /\ \E p \in Plans(err) :
            Settle([pc |-> "idle", op |-> p.op, wants |-> p.wants, keys |-> p.keys, got |-> {},
                    rows |-> p.rows, fill |-> p.fill,
                    calm |-> ~err /\ writes = {} /\ ~lost /\ failed = {}])
  /\ UNCHANGED <<cache, store, up, lost, failed, crashes>>

\* One of its hashes is read.
Read ==
  /\ \E k \in query.keys :
       Settle([query EXCEPT
                 !.keys = @ \ {k},
                 !.got = @ \union {IF k \in cache THEN k[2] ELSE EmptyElement}])
  /\ UNCHANGED <<cache, store, up, lost, failed, crashes, faults>>

\* Redis answers with an error: the element is left out.
ReadFails ==
  /\ MayFail
  /\ faults' = faults + 1
  /\ \E k \in query.keys : Settle([query EXCEPT !.keys = @ \ {k}, !.calm = FALSE])
  /\ UNCHANGED <<cache, store, up, lost, failed, crashes>>

Executed(c) ==
  IF c = ClearFriends THEN cache \ Family("friends_by_user_id") ELSE cache \union {c}

\* The sequences in execution once the first command of w is dealt with.
Rest(w) ==
  (writes \ {w}) \union
  (IF Tail(w.cmds) = <<>> THEN {} ELSE {[w EXCEPT !.cmds = Tail(w.cmds)]})

\* The next command of a sequence is executed, ...
Write(w) ==
  /\ cache' = Executed(Head(w.cmds))
  /\ writes' = Rest(w)
  /\ UNCHANGED <<store, up, query, lost, failed, crashes, faults>>

\* ... is answered with an error, which at most is logged, ...
WriteFails ==
  /\ MayFail
  /\ faults' = faults + 1
  /\ \E w \in writes : failed' = failed \union {Head(w.cmds)} /\ writes' = Rest(w)
  /\ UNCHANGED <<cache, store, up, query, lost, crashes>>

\* ... or it and those that follow are never executed.
Abandon ==
  /\ \E w \in writes : w.bound /\ writes' = writes \ {w}
  /\ lost' = TRUE
  /\ UNCHANGED <<cache, store, up, query, failed, crashes, faults>>

\* The process ends: the query and the writes are gone, the cache stays.
Crash ==
  /\ up
  /\ crashes < MaxCrashes
  /\ crashes' = crashes + 1
  /\ up' = FALSE
  /\ query' = Idle
  /\ writes' = {}
  /\ lost' = (lost \/ writes # {})
  /\ UNCHANGED <<cache, store, failed, faults>>

Next ==
  \/ Start \/ Ask \/ Read \/ ReadFails \/ WriteFails \/ Abandon \/ Crash
  \/ \E w \in writes : Write(w)

Spec == Init /\ [][Next]_vars

\* What the loads of main write, where main loads everything.
LoadFamilies ==
  [guild_parts |-> {"guild_elements", "guild_elements_by_type"},
   items |-> {"items_base", "items_base_id_by_name"},
   catalog_pages |-> {"catalog_pages", "catalog_pages_by_parent",
                      "catalog_pages_by_page_name", "catalog_pages_by_layout"},
   catalog_items |-> {"catalog_items"}]
LoadEntries(s) == UNION {Entries(family, Rows) : family \in LoadFamilies[s]}

\* The process is restarted, and every sequence of a load gets its turn: a
\* command that is the next of a sequence is executed in the end.
Fairness ==
  /\ WF_vars(Start)
  /\ \A s \in DOMAIN LoadFamilies : \A c \in LoadEntries(s) :
       WF_vars(\E w \in writes : ~w.bound /\ Head(w.cmds) = c /\ Write(w))
FairSpec == Spec /\ Fairness

-----------------------------------------------------------------------------

\* The hash every entry of an index stands for; the names of the ranks are
\* left out, their goroutine is not ordered with the one of the hash.
HashOf ==
  [user_subscription_keys |-> "user_subscription",
   user_subscription_type |-> "user_subscription",
   achievement_keys_set |-> "achievement",
   friends_by_user_id |-> "friend",
   requests_by_user_id |-> "requests",
   guild_elements_by_type |-> "guild_elements",
   items_base_id_by_name |-> "items_base",
   catalog_pages_by_parent |-> "catalog_pages",
   catalog_pages_by_page_name |-> "catalog_pages",
   catalog_pages_by_layout |-> "catalog_pages",
   catalog_items_by_page_id |-> "catalog_items",
   catalog_offers_by_page_id |-> "catalog_items",
   catalog_offers_id_to_item_id |-> "catalog_items",
   club_items |-> "catalog_items"]

Backed(e) == e[1] \in DOMAIN HashOf => <<HashOf[e[1]], e[2]>> \in cache \union failed

\* Wherever the service is interrupted, and whoever reads meanwhile, an index
\* leads to a hash that is there, unless Redis refused that very hash.
IndexBacked == \A e \in cache : Backed(e)

\* The operations that read without asking whether the key is there, those
\* that read a key nobody writes, those that answer "not found" with a
\* structure of zeros, and the one whose index is not ordered with its hash.
Unchecked == {"GetRank", "GetItemByIds", "GetUserHCData"}
Miskeyed == {"GetFriendsForUser", "GetFriendRequestsForUser", "GetCatalogItemsByPage"}
ZeroForUnknown == {"GetAchievementByName", "GetUserCredits"}
UnorderedIndex == {"GetRankByName"}

\* An answer holds an element of zeros only for one of these reasons: no
\* interleaving, crash or restart makes the other operations return one.
EmptyCause ==
  EmptyElement \in query.got =>
    \/ query.op \in Unchecked \union Miskeyed \union UnorderedIndex
    \/ query.op \in ZeroForUnknown /\ query.wants = {}
    \/ failed # {}

\* The operations that never give their rows, whatever the cache holds.
NeverGiven == {"GetMessengerCategories", "GetCatalogItemsByPage"}

\* An answer lacks rows only if the cache was being filled when it was asked
\* for, an earlier fill was cut short, or Redis gave an error: a cache at rest
\* and undisturbed answers completely.
ShortCause ==
  query.pc = "done" /\ query.calm =>
    \/ query.wants \subseteq query.got
    \/ query.op \in NeverGiven \union Unchecked \union Miskeyed

\* permission/data_test.go:45-51 expects no rank for an id that has none; the
\* cache is read without asking whether the rank is there.
NoRankForUnknown ==
  query.op = "GetRank" /\ query.pc = "done" /\ query.wants = {} => query.got = {}

\* Whatever a crash left half filled, the load of the next start completes.
EventuallyWhole ==
  \A s \in DOMAIN LoadFamilies :
    <>[](store = s => LoadEntries(s) \subseteq cache \union failed)
==============================================================================
