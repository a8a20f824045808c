------------------------- MODULE ServiceCachesProofs -------------------------
(***************************************************************************)
(* Proofs about ServiceCaches, for every number of rows, of writers, of    *)
(* crashes and of errors.                                                  *)
(*                                                                         *)
(* CachesInv is inductive.  Its parts: what is left of each sequence of    *)
(* commands still writes hashes before their indexes (WritesOrdered); the  *)
(* families that a store either has whole or not at all are whole, counted *)
(* with what is being written, until something is cut short or refused     *)
(* (AllOrNone); and a query in progress reads keys that are there, or      *)
(* refused, and if it is calm will have been given all it wants            *)
(* (QueryReads).  The lemmas before the steps establish, store by store,   *)
(* that every plan of a query starts that way (Sound).                     *)
(***************************************************************************)
EXTENDS ServiceCaches, SequenceTheorems, TLAPS

-----------------------------------------------------------------------------
(* Entries and the commands that write them *)

Families ==
  {"rank", "rank_id", "user_subscription", "user_subscription_keys", "user_subscription_type",
   "achievement", "achievement_keys_set", "user_achievements", "friend", "friends_by_user_id",
   "requests", "requests_by_user_id", "guild_elements", "guild_elements_by_type", "items_base",
   "items_base_id_by_name", "catalog_pages", "catalog_pages_by_parent", "catalog_pages_by_page_name",
   "catalog_pages_by_layout", "catalog_items", "catalog_items_by_page_id",
   "catalog_offers_by_page_id", "catalog_offers_id_to_item_id", "club_items", "user", "user_by_id",
   "respect", "user_club_data", "user_currency", "user_credits"}
Entry == Families \X Rows
Command == Entry \union {ClearFriends}
Indexes == DOMAIN HashOf
Hashed(e) == <<HashOf[e[1]], e[2]>>

\* A sequence of commands that writes no index before its hash; one of which the
\* beginning may have been executed.
Ordered(cmds) ==
  \A m \in 1..Len(cmds) :
    cmds[m][1] \in Indexes => \E j \in 1..m-1 : cmds[j] = Hashed(cmds[m])
OrderedRest(cmds) ==
  \A m \in 1..Len(cmds) :
    cmds[m][1] \in Indexes =>
      \/ \E j \in 1..m-1 : cmds[j] = Hashed(cmds[m])
      \/ Hashed(cmds[m]) \in cache \union failed

Commands(cmds) == {cmds[m] : m \in 1..Len(cmds)}
FillCommands(fill) == UNION {Commands(cmds) : cmds \in fill}
PendingOf(ws) == FillCommands({w.cmds : w \in ws})
Pending == PendingOf(writes)

\* The entries that these stores have all of, or none.
Group ==
  [s \in {"ranks", "subscriptions", "user_achievements", "guild_parts", "currencies"} |->
     CASE s = "ranks" -> {"rank", "rank_id"}
       [] s = "subscriptions" -> {"user_subscription"}
       [] s = "user_achievements" -> {"user_achievements"}
       [] s = "guild_parts" -> {"guild_elements", "guild_elements_by_type"}
       [] s = "currencies" -> {"user_currency"}]
Grouped == IF store \in DOMAIN Group THEN Group[store] \X Rows ELSE {}
Loaded == {"ranks", "guild_parts"}      \* by main

\* What a query may be asked for, whatever the cache holds, ...
Special == Unchecked \union Miskeyed \union UnorderedIndex
ZeroCause(r) ==
  \/ r.op \in Special
  \/ r.op \in ZeroForUnknown /\ r.wants = {}
WellMade(fill) == \A cmds \in fill : cmds \in Seq(Command) \ {<<>>} /\ Ordered(cmds)
Fills(fill) ==
  /\ WellMade(fill)
  /\ \/ FillCommands(fill) \intersect Grouped = {} \/ Grouped \subseteq FillCommands(fill)
     \/ store = "ranks"
\* ... for the cache as it is, ...
Reads(r) ==
  /\ \A k \in r.keys : k[1] # "friends_by_user_id"
  /\ r.op \notin Special => r.keys \subseteq cache \union failed
  /\ EmptyElement \in r.rows => ZeroCause(r)
  /\ Fills(r.fill)
\* ... and, if nothing disturbs it, what it will have been given in the end.
Excused == NeverGiven \union Unchecked \union Miskeyed
Enough(r) ==
  r.op \notin Excused =>
    IF r.keys = {} THEN r.wants \subseteq r.got
    ELSE r.keys \subseteq cache /\ r.wants \subseteq r.got \union {k[2] : k \in r.keys}

Fields == {"pc", "op", "wants", "keys", "got", "rows", "fill", "calm"}
Sequence == Seq(Command) \ {<<>>}
Writers == [bound : BOOLEAN, cmds : Sequence]
CacheTypes ==
  /\ store \in Stores /\ up \in BOOLEAN /\ lost \in BOOLEAN
  /\ cache \subseteq Entry /\ failed \subseteq Command
  /\ writes \subseteq Writers
  /\ DOMAIN query = Fields /\ query.calm \in BOOLEAN
  /\ ~up => writes = {} /\ query = Idle

WritesOrdered == \A w \in writes : OrderedRest(w.cmds)

\* All or nothing, as long as nothing was cut short or refused.
AllOrNone ==
  ~lost /\ failed = {} =>
    \/ Grouped \subseteq cache \union Pending
    \/ Grouped \intersect (cache \union Pending) = {} /\ (store \in Loaded => ~up)

QueryReads ==
  /\ query.pc = "reading" <=> query.keys # {}
  /\ query.keys # {} => Reads(query)
  /\ EmptyElement \in query.got => ZeroCause(query) \/ failed # {}
  /\ query.calm => Enough(query)

CachesInv == CacheTypes /\ IndexBacked /\ WritesOrdered /\ AllOrNone /\ QueryReads

LEMMA HashTable ==
  /\ Indexes =
       {"user_subscription_keys", "user_subscription_type", "achievement_keys_set",
        "friends_by_user_id", "requests_by_user_id", "guild_elements_by_type",
        "items_base_id_by_name", "catalog_pages_by_parent", "catalog_pages_by_page_name",
        "catalog_pages_by_layout", "catalog_items_by_page_id", "catalog_offers_by_page_id",
        "catalog_offers_id_to_item_id", "club_items"}
  /\ HashOf["user_subscription_keys"] = "user_subscription"
  /\ HashOf["user_subscription_type"] = "user_subscription"
  /\ HashOf["achievement_keys_set"] = "achievement"
  /\ HashOf["friends_by_user_id"] = "friend"
  /\ HashOf["requests_by_user_id"] = "requests"
  /\ HashOf["guild_elements_by_type"] = "guild_elements"
  /\ HashOf["items_base_id_by_name"] = "items_base"
  /\ HashOf["catalog_pages_by_parent"] = "catalog_pages"
  /\ HashOf["catalog_pages_by_page_name"] = "catalog_pages"
  /\ HashOf["catalog_pages_by_layout"] = "catalog_pages"
  /\ HashOf["catalog_items_by_page_id"] = "catalog_items"
  /\ HashOf["catalog_offers_by_page_id"] = "catalog_items"
  /\ HashOf["catalog_offers_id_to_item_id"] = "catalog_items"
  /\ HashOf["club_items"] = "catalog_items"
BY DEF Indexes, HashOf

LEMMA HashesAreNoIndexes ==
  \A x \in Indexes : HashOf[x] \in Families /\ HashOf[x] \notin Indexes /\ HashOf[x] # "clear"
BY HashTable DEF Families

LEMMA CommandTypes ==
  ASSUME NEW e \in Command
  PROVE  /\ e = <<e[1], e[2]>>
         /\ e \in Entry => e[1] \in Families /\ e[2] \in Rows /\ e # ClearFriends
         /\ e[1] \in Indexes => e \in Entry /\ Hashed(e) \in Entry /\ Hashed(e)[1] \notin Indexes
BY HashTable, HashesAreNoIndexes DEF Command, Entry, ClearFriends, Families, Hashed

\* Families of one row, its hash first.
HashFirst(f) ==
  /\ f \in Seq(Families) /\ Len(f) \in Nat \ {0} /\ f[1] \notin Indexes
  /\ \A k \in 1..Len(f) : f[k] \in Indexes => HashOf[f[k]] = f[1]
Of(f) == {f[k] : k \in 1..Len(f)}

\* A sequence, so that it has a length.
LEMMA FunctionIsSeq ==
  ASSUME NEW n \in Nat, NEW s, s \in [1..n -> Command]
  PROVE  s \in Seq(Command) /\ Len(s) = n /\ (n > 0 => s # <<>>)
<1>1. s \in Seq(Command)
  BY SeqDef
<1>2. Len(s) \in Nat /\ DOMAIN s = 1..Len(s) /\ DOMAIN s = 1..n
  BY <1>1, LenProperties
<1>3. Len(s) = n
  BY <1>2
<1> QED
  BY <1>1, <1>3

LEMMA RowFill ==
  ASSUME NEW f, HashFirst(f), NEW i \in Rows
  PROVE  /\ PerRow(f, i) \in Seq(Command) \ {<<>>} /\ Ordered(PerRow(f, i))
         /\ Commands(PerRow(f, i)) = Of(f) \X {i}
<1> DEFINE s == PerRow(f, i)
<1>1. Len(f) \in Nat \ {0} /\ DOMAIN f = 1..Len(f) /\ \A k \in 1..Len(f) : f[k] \in Families
  BY DEF HashFirst
<1>2. s = [k \in 1..Len(f) |-> <<f[k], i>>]
  BY <1>1 DEF PerRow
<1>3. \A k \in 1..Len(f) : <<f[k], i>> \in Command
  BY <1>1 DEF Command, Entry
<1>4. s \in Seq(Command) /\ Len(s) = Len(f) /\ s # <<>>
  BY <1>1, <1>2, <1>3, FunctionIsSeq
<1>5. \A k \in 1..Len(f) : s[k] = <<f[k], i>>
  BY <1>2
<1> HIDE DEF s
<1>6. Ordered(s)
  <2> SUFFICES ASSUME NEW m \in 1..Len(s), s[m][1] \in Indexes
               PROVE  \E j \in 1..m-1 : s[j] = Hashed(s[m])
    BY DEF Ordered
  <2>1. HashOf[f[m]] = f[1] /\ f[m] # f[1] /\ s[m] = <<f[m], i>> /\ s[1] = <<f[1], i>>
    BY <1>1, <1>4, <1>5 DEF HashFirst
  <2>2. 1 \in 1..m-1
    BY <1>1, <1>4, <2>1
  <2> QED
    BY <2>1, <2>2 DEF Hashed
<1>7. Commands(s) = Of(f) \X {i}
  <2>1. \A k \in 1..Len(f) : f[k] \in Of(f)
    BY DEF Of
  <2>2. \A x \in Of(f) : \E k \in 1..Len(f) : x = f[k]
    BY DEF Of
  <2>3. ASSUME NEW c \in Commands(s) PROVE c \in Of(f) \X {i}
    <3>1. PICK k \in 1..Len(f) : c = <<f[k], i>>
      BY <1>4, <1>5 DEF Commands
    <3> QED
      BY <2>1, <3>1
  <2>4. \A x \in Of(f) : <<x, i>> \in Commands(s)
    BY <1>4, <1>5, <2>2 DEF Commands
  <2> QED
    BY <2>3, <2>4
<1> QED
  BY <1>4, <1>6, <1>7 DEF s

LEMMA PipelineFill ==
  ASSUME NEW f, HashFirst(f), Len(f) \in {2, 4}
  PROVE  /\ Pipeline(f) \in Seq(Command) \ {<<>>} /\ Ordered(Pipeline(f))
         /\ Commands(Pipeline(f)) = Of(f) \X Rows
<1> DEFINE s == Pipeline(f)
           size == Len(f)
           column(n) == ((n - 1) % size) + 1
           line(n) == ((n - 1) \div size) + 1
<1>0. NumRows \in Nat \ {0} /\ size \in {2, 4} /\ size * NumRows \in Nat \ {0}
  BY RowsAssumption
<1>1. \A k \in 1..size : f[k] \in Families
  BY DEF HashFirst
<1>2. ASSUME NEW n \in 1..(size * NumRows)
      PROVE  column(n) \in 1..size /\ line(n) \in 1..NumRows /\ n = (line(n) - 1) * size + column(n)
  <2>1. CASE size = 2
    BY <1>0, <2>1
  <2>2. CASE size = 4
    BY <1>0, <2>2
  <2> QED
    BY <1>0, <2>1, <2>2
<1>3. ASSUME NEW k \in 1..size, NEW i \in 1..NumRows
      PROVE  /\ (i - 1) * size + k \in 1..(size * NumRows)
             /\ column((i - 1) * size + k) = k /\ line((i - 1) * size + k) = i
  <2>1. CASE size = 2
    BY <1>0, <2>1
  <2>2. CASE size = 4
    BY <1>0, <2>2
  <2> QED
    BY <1>0, <2>1, <2>2
<1>4. s = [n \in 1..(size * NumRows) |-> <<f[column(n)], line(n)>>]
  BY DEF Pipeline
<1> HIDE DEF s, column, line
<1>5. \A n \in 1..(size * NumRows) : s[n] = <<f[column(n)], line(n)>> /\ s[n] \in Command
  BY <1>1, <1>2, <1>4 DEF Command, Entry, Rows
<1>6. s \in Seq(Command) /\ Len(s) = size * NumRows /\ s # <<>>
  BY <1>0, <1>4, <1>5, FunctionIsSeq
<1>7. Ordered(s)
  <2> SUFFICES ASSUME NEW m \in 1..Len(s), s[m][1] \in Indexes
               PROVE  \E j \in 1..m-1 : s[j] = Hashed(s[m])
    BY DEF Ordered
  <2>1. m \in 1..(size * NumRows) /\ s[m] = <<f[column(m)], line(m)>>
    BY <1>5, <1>6
  <2>2. column(m) \in 1..size /\ line(m) \in 1..NumRows /\ m = (line(m) - 1) * size + column(m)
    BY <1>2, <2>1
  <2>3. HashOf[f[column(m)]] = f[1] /\ column(m) # 1
    BY <2>1, <2>2 DEF HashFirst
  <2> DEFINE j == (line(m) - 1) * size + 1
  <2>4. 1 \in 1..size
    BY <1>0
  <2>5. j \in 1..(size * NumRows) /\ column(j) = 1 /\ line(j) = line(m)
    BY <1>3, <2>2, <2>4
  <2>6. s[j] = <<f[1], line(m)>>
    BY <1>5, <2>5
  <2>7. (line(m) - 1) * size \in Nat
    BY <1>0, <2>2
  <2>8. j \in 1..m-1
    BY <2>2, <2>3, <2>7
  <2> QED
    BY <2>1, <2>3, <2>6, <2>8 DEF Hashed
<1>8. Commands(s) = Of(f) \X Rows
  <2>1. \A k \in 1..size : f[k] \in Of(f)
    BY DEF Of
  <2>2. \A x \in Of(f) : \E k \in 1..size : x = f[k]
    BY DEF Of
  <2>3. ASSUME NEW n \in 1..(size * NumRows) PROVE s[n] \in Of(f) \X Rows
    <3>1. s[n] = <<f[column(n)], line(n)>> /\ f[column(n)] \in Of(f) /\ line(n) \in Rows
      BY <1>2, <1>5, <2>1, <2>3 DEF Rows
    <3> QED
      BY <3>1
  <2>4. ASSUME NEW k \in 1..size, NEW i \in Rows PROVE \E n \in 1..(size * NumRows) : s[n] = <<f[k], i>>
    BY <1>3, <1>5, <2>4 DEF Rows
  <2>5. \A c \in Commands(s) : c \in Of(f) \X Rows
    BY <1>6, <2>3 DEF Commands
  <2>6. ASSUME NEW x \in Of(f), NEW i \in Rows PROVE <<x, i>> \in Commands(s)
    <3>1. PICK k \in 1..size : x = f[k]
      BY <2>2
    <3>2. PICK n \in 1..(size * NumRows) : s[n] = <<x, i>>
      BY <2>4, <3>1
    <3> QED
      BY <1>6, <3>2 DEF Commands
  <2> QED
    BY <2>5, <2>6
<1> QED
  BY <1>6, <1>7, <1>8 DEF s

\* What the fills of the services write.
LEMMA OneCommand ==
  ASSUME NEW c \in Command, c[1] \notin Indexes
  PROVE  <<c>> \in Seq(Command) \ {<<>>} /\ Ordered(<<c>>) /\ Commands(<<c>>) = {c}
BY DEF Ordered, Commands

LEMMA SingleFill ==
  ASSUME NEW family \in Families, family \notin Indexes, NEW rows \in SUBSET Rows
  PROVE  /\ WellMade({<<e>> : e \in Entries(family, rows)})
         /\ FillCommands({<<e>> : e \in Entries(family, rows)}) = {family} \X rows
<1> DEFINE fill == {<<e>> : e \in Entries(family, rows)}
<1>1. \A e \in Entries(family, rows) : \E i \in rows : e = <<family, i>>
  BY DEF Entries
<1>2. \A e \in Entries(family, rows) : e \in Command /\ e[1] = family
  BY <1>1 DEF Command, Entry
<1>3. \A cmds \in fill : \E e \in Entries(family, rows) : cmds = <<e>> /\ Commands(cmds) = {e}
  BY <1>2, OneCommand
<1>4. WellMade(fill)
  BY <1>2, OneCommand DEF WellMade
<1>5. \A e \in Entries(family, rows) : <<e>> \in fill /\ Commands(<<e>>) = {e}
  BY <1>2, OneCommand
<1>6. \A i \in rows : <<family, i>> \in Entries(family, rows)
  BY DEF Entries
<1> HIDE DEF fill
<1>7. ASSUME NEW c \in FillCommands(fill) PROVE c \in {family} \X rows
  BY <1>1, <1>3, <1>7 DEF FillCommands
<1>8. ASSUME NEW i \in rows PROVE <<family, i>> \in FillCommands(fill)
  BY <1>5, <1>6, <1>8 DEF FillCommands
<1>9. FillCommands(fill) = {family} \X rows
  BY <1>7, <1>8
<1> QED
  BY <1>4, <1>9 DEF fill

LEMMA RowsFill ==
  ASSUME NEW f, HashFirst(f)
  PROVE  /\ WellMade({PerRow(f, i) : i \in Rows})
         /\ FillCommands({PerRow(f, i) : i \in Rows}) = Of(f) \X Rows
<1> DEFINE fill == {PerRow(f, i) : i \in Rows}
<1>1. WellMade(fill)
  BY RowFill DEF WellMade
<1>2. \A i \in Rows : PerRow(f, i) \in fill /\ Commands(PerRow(f, i)) = Of(f) \X {i}
  BY RowFill
<1>3. \A cmds \in fill : \E i \in Rows : Commands(cmds) = Of(f) \X {i}
  BY RowFill
<1> HIDE DEF fill
<1>4. ASSUME NEW c \in FillCommands(fill) PROVE c \in Of(f) \X Rows
  BY <1>3, <1>4 DEF FillCommands
<1>5. ASSUME NEW x \in Of(f), NEW i \in Rows PROVE <<x, i>> \in FillCommands(fill)
  BY <1>2, <1>5 DEF FillCommands
<1>6. FillCommands(fill) = Of(f) \X Rows
  BY <1>4, <1>5
<1> QED
  BY <1>1, <1>6 DEF fill

LEMMA PipelinesFill ==
  ASSUME NEW f, HashFirst(f), Len(f) \in {2, 4}
  PROVE  WellMade({Pipeline(f)}) /\ FillCommands({Pipeline(f)}) = Of(f) \X Rows
BY PipelineFill DEF WellMade, FillCommands

LEMMA NoFill == WellMade({}) /\ FillCommands({}) = {}
BY DEF WellMade, FillCommands

LEMMA TwoFills ==
  ASSUME NEW a, NEW b, WellMade(a), WellMade(b)
  PROVE  WellMade(a \union b) /\ FillCommands(a \union b) = FillCommands(a) \union FillCommands(b)
BY DEF WellMade, FillCommands

\* The families of the services, each with its hash first.
LEMMA HashesFirst ==
  /\ HashFirst(SubscriptionFamilies) /\ HashFirst(AchievementFamilies)
  /\ HashFirst(<<"friend", "friends_by_user_id">>) /\ HashFirst(<<"requests", "requests_by_user_id">>)
  /\ HashFirst(<<"guild_elements", "guild_elements_by_type">>)
  /\ HashFirst(<<"items_base", "items_base_id_by_name">>) /\ HashFirst(PageFamilies)
  /\ HashFirst(<<"user", "user_by_id">>)
  /\ \A i \in Rows : HashFirst(ItemFamilies(i))
<1> USE HashTable
<1>1. HashFirst(SubscriptionFamilies) /\ HashFirst(AchievementFamilies)
  BY DEF HashFirst, SubscriptionFamilies, AchievementFamilies, Families
<1>2. HashFirst(<<"friend", "friends_by_user_id">>) /\ HashFirst(<<"requests", "requests_by_user_id">>)
  BY DEF HashFirst, Families
<1>3. /\ HashFirst(<<"guild_elements", "guild_elements_by_type">>)
      /\ HashFirst(<<"items_base", "items_base_id_by_name">>)
  BY DEF HashFirst, Families
<1>4. HashFirst(PageFamilies) /\ HashFirst(<<"user", "user_by_id">>)
  BY DEF HashFirst, PageFamilies, Families
<1>5. /\ HashFirst(<<"catalog_items", "club_items">>)
      /\ HashFirst(<<"catalog_items", "catalog_items_by_page_id", "catalog_offers_by_page_id",
                     "catalog_offers_id_to_item_id">>)
  BY DEF HashFirst, Families
<1>6. \A i \in Rows : HashFirst(ItemFamilies(i))
  BY <1>5 DEF ItemFamilies
<1> QED
  BY <1>1, <1>2, <1>3, <1>4, <1>6

\* The pipeline of the friends clears the set of members first.
LEMMA FriendsPipeline == WellMade({FriendsFill})
<1> DEFINE rest == Pipeline(<<"friend", "friends_by_user_id">>)
           first == <<ClearFriends>>
<1>1. rest \in Seq(Command) /\ Ordered(rest)
  BY HashesFirst, PipelineFill
<1>2. first \in Seq(Command) /\ Len(first) = 1 /\ first[1] = ClearFriends
  BY DEF Command
<1> HIDE DEF rest, first
<1>3. first \o rest \in Seq(Command) /\ Len(first \o rest) = Len(first) + Len(rest)
  BY <1>1, <1>2, ConcatProperties
<1>4. \A m \in 1..Len(first) + Len(rest) :
        (first \o rest)[m] = IF m <= Len(first) THEN first[m] ELSE rest[m - Len(first)]
  BY <1>1, <1>2, ConcatProperties
<1>5. Len(rest) \in Nat /\ Len(first \o rest) = 1 + Len(rest)
  BY <1>1, <1>2, <1>3
<1>6. (first \o rest)[1] = ClearFriends /\ \A m \in 1..Len(rest) : (first \o rest)[m + 1] = rest[m]
  BY <1>2, <1>4, <1>5
<1>7. Ordered(first \o rest)
  <2> SUFFICES ASSUME NEW m \in 1..Len(first \o rest), (first \o rest)[m][1] \in Indexes
               PROVE  \E j \in 1..m-1 : (first \o rest)[j] = Hashed((first \o rest)[m])
    BY DEF Ordered
  <2>1. m # 1
    BY <1>6, HashTable DEF ClearFriends
  <2>2. m - 1 \in 1..Len(rest) /\ (first \o rest)[m] = rest[m - 1]
    BY <1>5, <1>6, <2>1
  <2>3. PICK j \in 1..(m - 1) - 1 : rest[j] = Hashed(rest[m - 1])
    BY <1>1, <2>2 DEF Ordered
  <2>4. j + 1 \in 1..m-1 /\ (first \o rest)[j + 1] = rest[j]
    BY <1>5, <1>6, <2>2, <2>3
  <2> QED
    BY <2>2, <2>3, <2>4
<1>8. first \o rest # <<>>
  BY <1>3, <1>5
<1>9. FriendsFill = first \o rest
  BY DEF FriendsFill, first, rest
<1> QED
  BY <1>3, <1>7, <1>8, <1>9 DEF WellMade

LEMMA CatalogItemsFill == WellMade(LoadCatalogItems)
BY HashesFirst, RowFill DEF WellMade, LoadCatalogItems

\* What the stores with all or nothing are filled with.
LEMMA GroupFills ==
  /\ WellMade(LoadUserSubscriptions)
  /\ {"user_subscription"} \X Rows \subseteq FillCommands(LoadUserSubscriptions)
  /\ WellMade(UserAchievementFill) /\ FillCommands(UserAchievementFill) = {"user_achievements"} \X Rows
  /\ WellMade({LoadGuildParts})
  /\ {"guild_elements", "guild_elements_by_type"} \X Rows \subseteq FillCommands({LoadGuildParts})
  /\ WellMade(CurrencyFill) /\ FillCommands(CurrencyFill) = {"user_currency"} \X Rows
  /\ \A rows \in SUBSET Rows :
       WellMade(RankFill(rows)) /\ FillCommands(RankFill(rows)) = {"rank", "rank_id"} \X rows
<1>1. /\ WellMade(LoadUserSubscriptions)
      /\ {"user_subscription"} \X Rows \subseteq FillCommands(LoadUserSubscriptions)
  <2>1. "user_subscription" \in Of(SubscriptionFamilies)
    BY DEF SubscriptionFamilies, Of
  <2> QED
    BY <2>1, HashesFirst, RowsFill DEF LoadUserSubscriptions
<1>2. WellMade(UserAchievementFill) /\ FillCommands(UserAchievementFill) = {"user_achievements"} \X Rows
  BY SingleFill, HashTable DEF UserAchievementFill, Families
<1>3. /\ WellMade({LoadGuildParts})
      /\ {"guild_elements", "guild_elements_by_type"} \X Rows \subseteq FillCommands({LoadGuildParts})
  <2> DEFINE f == <<"guild_elements", "guild_elements_by_type">>
  <2>1. {"guild_elements", "guild_elements_by_type"} \subseteq Of(f) /\ Len(f) = 2
    BY DEF Of
  <2>2. HashFirst(f)
    BY HashesFirst
  <2>3. LoadGuildParts = Pipeline(f)
    BY DEF LoadGuildParts
  <2> HIDE DEF f
  <2>4. WellMade({Pipeline(f)}) /\ FillCommands({Pipeline(f)}) = Of(f) \X Rows
    BY <2>1, <2>2, PipelinesFill
  <2> QED
    BY <2>1, <2>3, <2>4
<1>4. WellMade(CurrencyFill) /\ FillCommands(CurrencyFill) = {"user_currency"} \X Rows
  BY SingleFill, HashTable DEF CurrencyFill, Families
<1>5. ASSUME NEW rows \in SUBSET Rows
      PROVE  WellMade(RankFill(rows)) /\ FillCommands(RankFill(rows)) = {"rank", "rank_id"} \X rows
  <2> DEFINE a == {<<e>> : e \in Entries("rank", rows)}
             b == {<<e>> : e \in Entries("rank_id", rows)}
  <2>1. WellMade(a) /\ FillCommands(a) = {"rank"} \X rows
    BY SingleFill, HashTable DEF Families
  <2>2. WellMade(b) /\ FillCommands(b) = {"rank_id"} \X rows
    BY SingleFill, HashTable DEF Families
  <2>3. RankFill(rows) = a \union b
    BY DEF RankFill
  <2> HIDE DEF a, b
  <2>4. WellMade(a \union b) /\ FillCommands(a \union b) = FillCommands(a) \union FillCommands(b)
    BY <2>1, <2>2, TwoFills
  <2> QED
    BY <2>1, <2>2, <2>3, <2>4
<1> QED
  BY <1>1, <1>2, <1>3, <1>4, <1>5

-----------------------------------------------------------------------------
(* Plans *)

PlanEnough(p) ==
  p.op \notin Excused =>
    IF p.keys = {} THEN p.wants \subseteq p.rows
    ELSE p.keys \subseteq cache /\ p.wants \subseteq {k[2] : k \in p.keys}
\* Nothing was cut short or refused, and nothing is being written.
Quiet ==
  /\ failed = {}
  /\ Grouped \subseteq cache \/ (Grouped \intersect cache = {} /\ store \notin Loaded)
Sound(p) == Reads(p) /\ (Quiet => PlanEnough(p))

\* What a query finds in the cache.
LEMMA InFamily ==
  ASSUME cache \subseteq Entry, NEW family, NEW e \in Family(family)
  PROVE  e \in cache /\ e = <<family, e[2]>> /\ e[2] \in Rows /\ e[1] = family
BY DEF Family, Entry

LEMMA InGroup ==
  ASSUME cache \subseteq Entry, Quiet, store \in DOMAIN Group, NEW family \in Group[store]
  PROVE  /\ \/ Family(family) = {} /\ store \notin Loaded
            \/ Rows = {k[2] : k \in Family(family)}
         /\ store \in Loaded => \A i \in Rows : <<family, i>> \in cache
<1>1. \A i \in Rows : <<family, i>> \in Grouped
  BY DEF Grouped
<1>2. CASE Grouped \subseteq cache
  <2>1. \A i \in Rows : <<family, i>> \in Family(family)
    BY <1>1, <1>2 DEF Family
  <2>2. ASSUME NEW i \in Rows PROVE i \in {k[2] : k \in Family(family)}
    <3>1. PICK k \in Family(family) : k = <<family, i>>
      BY <2>1
    <3> QED
      BY <3>1
  <2>3. \A i \in {k[2] : k \in Family(family)} : i \in Rows
    BY InFamily
  <2> QED
    BY <1>1, <1>2, <2>2, <2>3
<1>3. CASE Grouped \intersect cache = {} /\ store \notin Loaded
  <2>1. Family(family) = {}
    BY <1>1, <1>3, InFamily
  <2> QED
    BY <1>3, <2>1
<1> QED
  BY <1>2, <1>3 DEF Quiet

LEMMA IndexLeads ==
  ASSUME IndexBacked, NEW index \in Indexes, NEW i, <<index, i>> \in cache
  PROVE  <<HashOf[index], i>> \in cache \union failed
BY DEF IndexBacked, Backed, Indexes

\* A query answered by the table.
LEMMA TablePlan ==
  ASSUME NEW op, NEW wants, NEW rows, NEW fill, Fills(fill),
         EmptyElement \in rows => op \in ZeroForUnknown /\ wants = {},
         wants \subseteq rows \/ op \in Excused
  PROVE  Sound(FromTable(op, wants, rows, fill))
BY DEF FromTable, Plan, Sound, Reads, PlanEnough, ZeroCause

\* A query that finds its keys in the cache, and may ask the table for want of any.
LEMMA CachePlan ==
  ASSUME NEW op, NEW wants, NEW keys, NEW rows, NEW fill, Fills(fill), EmptyElement \notin rows,
         \A k \in keys : k[1] # "friends_by_user_id",
         op \in Special \/ keys \subseteq cache \union failed,
         Quiet => \/ op \in Excused
                  \/ keys = {} /\ wants \subseteq rows
                  \/ keys # {} /\ keys \subseteq cache /\ wants \subseteq {k[2] : k \in keys}
  PROVE  Sound(Plan(op, wants, keys, rows, fill))
BY DEF Plan, Sound, Reads, PlanEnough

SameFields(p, q) ==
  p.op = q.op /\ p.wants = q.wants /\ p.keys = q.keys /\ p.rows = q.rows /\ p.fill = q.fill
LEMMA SoundFields == \A p, q : SameFields(p, q) /\ Sound(q) => Sound(p)
BY DEF SameFields, Sound, Reads, PlanEnough, ZeroCause

LEMMA Ungrouped ==
  ASSUME store \notin DOMAIN Group, NEW fill, WellMade(fill)
  PROVE  Fills(fill)
BY DEF Fills, Grouped

LEMMA NothingFilled == Fills({})
BY NoFill DEF Fills

LEMMA KnownRows == \A i : Known(i) \in SUBSET Rows /\ EmptyElement \notin Known(i)
BY RowsAssumption DEF Known, Rows, EmptyElement
LEMMA RowsAreSome == Rows # {} /\ EmptyElement \notin Rows
BY RowsAssumption DEF Rows, EmptyElement

LEMMA GroupTable ==
  /\ DOMAIN Group = {"ranks", "subscriptions", "user_achievements", "guild_parts", "currencies"}
  /\ Group["ranks"] = {"rank", "rank_id"}
  /\ Group["subscriptions"] = {"user_subscription"}
  /\ Group["user_achievements"] = {"user_achievements"}
  /\ Group["guild_parts"] = {"guild_elements", "guild_elements_by_type"}
  /\ Group["currencies"] = {"user_currency"}
BY DEF Group

\* The fills of the stores that have all or nothing.
LEMMA FillsWhole ==
  /\ store = "ranks" => \A rows \in SUBSET Rows : Fills(RankFill(rows))
  /\ store = "subscriptions" => Fills(LoadUserSubscriptions)
  /\ store = "user_achievements" => Fills(UserAchievementFill)
  /\ store = "guild_parts" => Fills({LoadGuildParts})
  /\ store = "currencies" => Fills(CurrencyFill)
BY GroupFills, GroupTable DEF Fills, Grouped

LEMMA RankPlansSound ==
  ASSUME cache \subseteq Entry, IndexBacked, store = "ranks", NEW err \in BOOLEAN, NEW p \in RankPlans(err)
  PROVE  Sound(p)
<1> USE DEF Special, Excused, Unchecked, Miskeyed, UnorderedIndex, NeverGiven, ZeroForUnknown
<1>1. \A rows \in SUBSET Rows : Fills(RankFill(rows))
  BY FillsWhole
<1>2. Quiet => /\ Family("rank") # {} /\ Rows = {k[2] : k \in Family("rank")}
               /\ \A i \in Rows : <<"rank", i>> \in cache
  BY InGroup, GroupTable, RowsAreSome DEF Loaded
<1>3. Sound(GetAllRanks(err))
  <2> DEFINE keys == IF err THEN {} ELSE Family("rank")
  <2>1. keys \subseteq cache /\ \A k \in keys : k[1] # "friends_by_user_id"
    BY InFamily
  <2>2. Quiet => keys = {} \/ Rows \subseteq {k[2] : k \in keys}
    BY <1>2
  <2> HIDE DEF keys
  <2>3. Sound(Plan("GetAllRanks", Rows, keys, Rows, RankFill(Rows)))
    BY <1>1, <2>1, <2>2, RowsAreSome, CachePlan
  <2> QED
    BY <2>3 DEF GetAllRanks, keys
<1>4. ASSUME NEW i \in Ids PROVE Sound(GetRank(i))
  BY <1>1, KnownRows, CachePlan DEF GetRank
<1>5. ASSUME NEW i \in Ids PROVE Sound(GetRankByName(i, err))
  <2> DEFINE keys == IF ~err /\ <<"rank_id", i>> \in cache THEN {<<"rank", i>>} ELSE {}
  <2>1. \A k \in keys : k[1] # "friends_by_user_id"
    OBVIOUS
  <2>2. Quiet => keys = {} \/ (keys # {} /\ keys \subseteq cache /\ Known(i) \subseteq {k[2] : k \in keys})
    <3>1. ASSUME <<"rank_id", i>> \in cache PROVE i \in Rows
      BY <3>1 DEF Entry
    <3>2. {k[2] : k \in {<<"rank", i>>}} = {i}
      OBVIOUS
    <3> QED
      BY <1>2, <3>1, <3>2 DEF Known
  <2> HIDE DEF keys
  <2>3. Sound(Plan("GetRankByName", Known(i), keys, Known(i), RankFill(Known(i))))
    BY <1>1, <2>1, <2>2, KnownRows, CachePlan
  <2> QED
    BY <2>3 DEF GetRankByName, keys
<1>6. ASSUME NEW i \in Ids PROVE Sound(GetPermission(i, err)) /\ Sound(GetRankLevel(i, err))
  <2>1. Fills(IF err THEN RankFill(Known(i)) ELSE {})
    BY <1>1, KnownRows, NothingFilled
  <2> QED
    BY <2>1, KnownRows, TablePlan DEF GetPermission, GetRankLevel
<1> QED
  BY <1>3, <1>4, <1>5, <1>6 DEF RankPlans

\* All the entries of a family, or the table.
LEMMA FamilyPlan ==
  ASSUME cache \subseteq Entry, store \in DOMAIN Group, NEW family \in Group[store],
         family # "friends_by_user_id", NEW op, NEW i, <<family, i>> \in cache
  PROVE  Sound(FromCache(op, Rows, Family(family)))
<1>1. \A k \in Family(family) : k \in cache /\ k[1] # "friends_by_user_id"
  BY InFamily
<1>2. Family(family) # {}
  BY DEF Family
<1>3. Quiet => Rows = {k[2] : k \in Family(family)}
  BY <1>2, InGroup
<1> QED
  BY <1>1, <1>2, <1>3, NothingFilled, CachePlan DEF FromCache, EmptyElement

\* One hash, known to be there.
LEMMA OneKeyPlan ==
  ASSUME cache \subseteq Entry, NEW op, NEW family, NEW i, family # "friends_by_user_id",
         <<family, i>> \in cache \union failed
  PROVE  /\ Sound(FromCache(op, Known(i), {<<family, i>>}))
         /\ \A rows, fill : EmptyElement \notin rows /\ Fills(fill) =>
              Sound(Plan(op, Known(i), {<<family, i>>}, rows, fill))
<1>1. {k[2] : k \in {<<family, i>>}} = {i} /\ \A k \in {<<family, i>>} : k[1] # "friends_by_user_id"
  OBVIOUS
<1>2. Quiet => {<<family, i>>} \subseteq cache
  BY DEF Quiet
<1>3. Known(i) \subseteq {k[2] : k \in {<<family, i>>}}
  BY <1>1 DEF Known
<1>4. ASSUME NEW rows, NEW fill, EmptyElement \notin rows, Fills(fill)
      PROVE  Sound(Plan(op, Known(i), {<<family, i>>}, rows, fill))
  BY <1>1, <1>2, <1>3, <1>4, CachePlan
<1>5. Sound(FromCache(op, Known(i), {<<family, i>>}))
  BY <1>4, NothingFilled DEF FromCache, EmptyElement
<1> QED
  BY <1>4, <1>5

LEMMA SubscriptionPlansSound ==
  ASSUME cache \subseteq Entry, IndexBacked, store = "subscriptions", NEW err \in BOOLEAN,
         NEW p \in SubscriptionPlans(err)
  PROVE  Sound(p)
<1>1. Fills(LoadUserSubscriptions) /\ store \in DOMAIN Group /\ "user_subscription" \in Group[store]
  BY FillsWhole, GroupTable
<1>2. Sound(FromTable("GetSubscriptionsForUser", Rows, Rows, LoadUserSubscriptions))
  BY <1>1, RowsAreSome, TablePlan
<1>3. Sound(GetSubscriptionsForUser(err))
  BY <1>1, <1>2, FamilyPlan DEF GetSubscriptionsForUser, GetUserSubscriptionsFromCache
<1>4. Sound(GetUserSubscriptionsByType)
  BY NothingFilled, RowsAreSome, TablePlan DEF GetUserSubscriptionsByType
<1>5. ASSUME NEW i \in Ids PROVE Sound(GetSubscription(i, err))
  <2> DEFINE fill == IF i \in Rows THEN LoadUserSubscriptions ELSE {}
  <2>1. Fills(fill)
    BY <1>1, NothingFilled
  <2> HIDE DEF fill
  <2>2. CASE ~err /\ <<"user_subscription_keys", i>> \in cache
    <3>1. <<"user_subscription", i>> \in cache \union failed
      BY <2>2, IndexLeads, HashTable
    <3>2. Sound(Plan("GetSubscription", Known(i), {<<"user_subscription", i>>}, Known(i), fill))
      BY <2>1, <3>1, KnownRows, OneKeyPlan
    <3> QED
      BY <2>2, <3>2 DEF GetSubscription, fill
  <2>3. CASE ~(~err /\ <<"user_subscription_keys", i>> \in cache)
    <3>1. Sound(Plan("GetSubscription", Known(i), {}, Known(i), fill))
      BY <2>1, KnownRows, CachePlan
    <3> QED
      BY <2>3, <3>1 DEF GetSubscription, fill
  <2> QED
    BY <2>2, <2>3
<1> QED
  BY <1>3, <1>4, <1>5 DEF SubscriptionPlans

LEMMA AchievementPlansSound ==
  ASSUME store = "achievements", NEW p \in AchievementPlans
  PROVE  Sound(p)
<1>1. Fills(AchievementFill)
  BY HashesFirst, RowsFill, GroupTable, Ungrouped DEF AchievementFill
<1>2. Sound(GetAchievements)
  BY <1>1, RowsAreSome, CachePlan DEF GetAchievements, CachedLevels
<1>3. Sound(GetInventoryAchievements)
  BY NothingFilled, RowsAreSome, TablePlan DEF GetInventoryAchievements
<1>4. Sound(GetAchievementByName(TRUE))
  <2>1. Sound(FromTable("GetAchievementByName", Rows, Rows, AchievementFill))
    BY <1>1, RowsAreSome, TablePlan
  <2> QED
    BY <2>1 DEF GetAchievementByName
<1>5. Sound(GetAchievementByName(FALSE))
  <2>1. Sound(FromTable("GetAchievementByName", {}, {EmptyElement}, {}))
    BY NothingFilled, TablePlan DEF ZeroForUnknown
  <2> QED
    BY <2>1 DEF GetAchievementByName
<1>6. ASSUME NEW i \in Ids PROVE Sound(GetAchievement(i))
  <2>1. CASE i \in Rows
    <3>1. Sound(FromTable("GetAchievement", Rows, Rows, AchievementFill))
      BY <1>1, RowsAreSome, TablePlan
    <3>2. SameFields(GetAchievement(i), FromTable("GetAchievement", Rows, Rows, AchievementFill))
      <4>1. GetAchievementByName(i \in Rows) =
              [op |-> "GetAchievementByName", wants |-> Rows, keys |-> {}, rows |-> Rows,
               fill |-> AchievementFill]
        BY <2>1 DEF GetAchievementByName, FromTable, Plan
      <4>2. GetAchievement(i) = [GetAchievementByName(i \in Rows) EXCEPT !.op = "GetAchievement",
                                   !.rows = GetAchievementByName(i \in Rows).rows]
        BY <2>1 DEF GetAchievement
      <4> QED
        BY <4>1, <4>2 DEF FromTable, Plan, SameFields
    <3> QED
      BY <3>1, <3>2, SoundFields
  <2>2. CASE i \notin Rows
    <3>1. Sound(FromTable("GetAchievement", {}, {}, {}))
      BY NothingFilled, TablePlan
    <3>2. SameFields(GetAchievement(i), FromTable("GetAchievement", {}, {}, {}))
      <4>1. GetAchievementByName(i \in Rows) =
              [op |-> "GetAchievementByName", wants |-> {}, keys |-> {}, rows |-> {EmptyElement}, fill |-> {}]
        BY <2>2 DEF GetAchievementByName, FromTable, Plan
      <4>2. GetAchievement(i) = [GetAchievementByName(i \in Rows) EXCEPT !.op = "GetAchievement", !.rows = {}]
        BY <2>2 DEF GetAchievement
      <4> QED
        BY <4>1, <4>2 DEF FromTable, Plan, SameFields
    <3> QED
      BY <3>1, <3>2, SoundFields
  <2> QED
    BY <2>1, <2>2
<1> QED
  BY <1>2, <1>3, <1>4, <1>5, <1>6 DEF AchievementPlans

LEMMA UserAchievementPlansSound ==
  ASSUME cache \subseteq Entry, store = "user_achievements",
         NEW err \in BOOLEAN, NEW p \in UserAchievementPlans(err)
  PROVE  Sound(p)
<1>1. Fills(UserAchievementFill) /\ store \in DOMAIN Group /\ "user_achievements" \in Group[store]
  BY FillsWhole, GroupTable
<1>2. Sound(FromTable("GetUserAchievements", Rows, Rows, UserAchievementFill))
  BY <1>1, RowsAreSome, TablePlan
<1> QED
  BY <1>1, <1>2, FamilyPlan DEF UserAchievementPlans, GetUserAchievements

LEMMA FriendsPlansSound ==
  ASSUME NEW err \in BOOLEAN,
         NEW p, \/ store = "friends" /\ p \in FriendsPlans(err)
                \/ store = "friend_requests" /\ p \in FriendRequestPlans(err)
  PROVE  Sound(p)
<1> USE DEF Special, Excused, Unchecked, Miskeyed, UnorderedIndex, NeverGiven, ZeroForUnknown
<1>1. \A set : \A k \in BareKeys(set) : k[1] # "friends_by_user_id"
  BY DEF BareKeys, Entries
<1>2. Fills({FriendsFill}) /\ Fills({RequestsFill})
  <2>1. WellMade({RequestsFill})
    BY HashesFirst, PipelinesFill DEF RequestsFill
  <2> QED
    BY <2>1, FriendsPipeline, GroupTable, Ungrouped
<1>3. Sound(GetFriendsForUser(err))
  BY <1>1, <1>2, RowsAreSome, CachePlan DEF GetFriendsForUser
<1>4. Sound(GetFriendRequestsForUser(err))
  BY <1>1, <1>2, RowsAreSome, CachePlan DEF GetFriendRequestsForUser
<1>5. Sound(GetMessengerCategories)
  BY NothingFilled, TablePlan DEF GetMessengerCategories
<1>6. \A i \in Ids : Sound(GetFriendById(i))
  BY NothingFilled, KnownRows, TablePlan DEF GetFriendById
<1> QED
  BY <1>3, <1>4, <1>5, <1>6 DEF FriendsPlans, FriendRequestPlans

LEMMA GuildPlansSound ==
  ASSUME cache \subseteq Entry, IndexBacked, store = "guild_parts",
         NEW err \in BOOLEAN, NEW p \in GuildPlans(err)
  PROVE  Sound(p)
<1>1. /\ Fills({LoadGuildParts}) /\ store \in DOMAIN Group /\ store \in Loaded
      /\ "guild_elements" \in Group[store] /\ "guild_elements_by_type" \in Group[store]
  BY FillsWhole, GroupTable DEF Loaded
<1>2. Sound(FromTable("GetGuildParts", Rows, Rows, {LoadGuildParts}))
      /\ Sound(FromTable("LoadGuildPartsByType", Rows, Rows, {LoadGuildParts}))
  BY <1>1, RowsAreSome, TablePlan
<1>3. Sound(GetGuildParts(err))
  BY <1>1, <1>2, FamilyPlan DEF GetGuildParts
<1> DEFINE members == Family("guild_elements_by_type")
           keys == Entries("guild_elements", {e[2] : e \in members})
<1>4. ASSUME NEW k \in keys
      PROVE  k \in cache \union failed /\ k[1] # "friends_by_user_id"
  <2>1. PICK e \in members : k = <<"guild_elements", e[2]>>
    BY DEF Entries
  <2>2. <<"guild_elements_by_type", e[2]>> \in cache
    BY InFamily
  <2> QED
    BY <2>1, <2>2, IndexLeads, HashTable
<1>5. ASSUME Quiet PROVE keys # {} /\ keys \subseteq cache /\ Rows \subseteq {k[2] : k \in keys}
  <2>1. ASSUME NEW i \in Rows PROVE <<"guild_elements", i>> \in keys
    <3>1. <<"guild_elements_by_type", i>> \in members
      BY <1>1, <1>5, InGroup DEF Family
    <3>2. PICK e \in members : e = <<"guild_elements_by_type", i>>
      BY <3>1
    <3>3. i \in {e2[2] : e2 \in members}
      BY <3>2
    <3> QED
      BY <3>3 DEF Entries
  <2>2. failed = {}
    BY <1>5 DEF Quiet
  <2> HIDE DEF keys
  <2>3. ASSUME NEW i \in Rows PROVE i \in {k[2] : k \in keys}
    <3>1. PICK k \in keys : k = <<"guild_elements", i>>
      BY <2>1
    <3>2. k[2] = i
      BY <3>1
    <3> QED
      BY <3>2
  <2> QED
    BY <1>4, <2>2, <2>3, RowsAreSome
<1> HIDE DEF keys
<1>6. Sound(FromCache("LoadGuildPartsByType", Rows, keys))
  BY <1>4, <1>5, NothingFilled, CachePlan DEF FromCache, EmptyElement
<1>7. Sound(LoadGuildPartsByType(err))
  BY <1>2, <1>6 DEF LoadGuildPartsByType, keys
<1> QED
  BY <1>3, <1>7 DEF GuildPlans

LEMMA ItemsPlansSound ==
  ASSUME cache \subseteq Entry, IndexBacked, store = "items", NEW err \in BOOLEAN, NEW p \in ItemsPlans(err)
  PROVE  Sound(p)
<1>1. ASSUME NEW op, NEW i \in Ids,
             NEW index \in {"items_base", "items_base_id_by_name"}
      PROVE  Sound(ThroughKey(op, index, i, err))
  <2>1. Sound(FromTable(op, Known(i), Known(i), {}))
    BY NothingFilled, KnownRows, TablePlan
  <2>2. ASSUME <<index, i>> \in cache PROVE <<"items_base", i>> \in cache \union failed
    BY <2>2, IndexLeads, HashTable
  <2>3. ASSUME <<index, i>> \in cache PROVE Sound(FromCache(op, Known(i), {<<"items_base", i>>}))
    BY <2>2, <2>3, OneKeyPlan
  <2> QED
    BY <2>1, <2>3 DEF ThroughKey
<1>2. Sound(GetItemByIds)
  <2>1. \A k \in Entries("items_base", Ids) : k[1] # "friends_by_user_id"
    BY DEF Entries
  <2> QED
    BY <2>1, NothingFilled, CachePlan
       DEF GetItemByIds, FromCache, Special, Excused, Unchecked, EmptyElement
<1>3. Sound(GetItems(err))
  <2>1. <<"items_base", 0>> \notin cache
    BY RowsAreSome DEF Entry, EmptyElement
  <2>2. Fills({LoadBaseItems})
    BY HashesFirst, PipelinesFill, GroupTable, Ungrouped DEF LoadBaseItems
  <2> QED
    BY <2>1, <2>2, RowsAreSome, TablePlan DEF GetItems
<1> QED
  BY <1>1, <1>2, <1>3 DEF ItemsPlans, GetItemById, GetItemByName

LEMMA CatalogPlansSound ==
  ASSUME cache \subseteq Entry, IndexBacked, NEW err \in BOOLEAN,
         NEW p, \/ store = "catalog_pages" /\ p \in CatalogPagePlans(err)
                \/ store = "catalog_items" /\ p \in CatalogItemPlans
  PROVE  Sound(p)
<1>1. ASSUME store = "catalog_pages" PROVE Fills({LoadCatalogPages})
  <2>1. HashFirst(PageFamilies) /\ Len(PageFamilies) = 4
    BY HashesFirst DEF PageFamilies
  <2>2. WellMade({LoadCatalogPages})
    BY <2>1, PipelinesFill DEF LoadCatalogPages
  <2> QED
    BY <1>1, <2>2, GroupTable, Ungrouped
<1>2. ASSUME NEW i \in Ids, NEW index \in {"catalog_pages_by_page_name", "catalog_pages_by_layout"}, NEW op,
             <<index, i>> \in cache
      PROVE  Sound(FromCache(op, Known(i), {<<"catalog_pages", i>>}))
  <2>1. <<"catalog_pages", i>> \in cache \union failed
    BY <1>2, IndexLeads, HashTable
  <2> QED
    BY <2>1, OneKeyPlan
<1>3. \A op : Sound(FromTable(op, {}, {}, {}))
  BY NothingFilled, TablePlan
<1>4. ASSUME NEW i \in Ids, store = "catalog_pages"
      PROVE  Sound(GetCatalogPageByPageId(i)) /\ Sound(GetCatalogPageByName(i, err))
             /\ Sound(GetCatalogPageByLayout(i, err))
  <2>1. Fills(IF i \in Rows THEN {LoadCatalogPages} ELSE {})
    BY <1>1, <1>4, NothingFilled
  <2>2. Sound(FromTable("GetCatalogPageByLayout", Known(i), Known(i),
                      IF i \in Rows THEN {LoadCatalogPages} ELSE {}))
    BY <2>1, KnownRows, TablePlan
  <2> QED
    BY <1>2, <1>3, <2>2 DEF GetCatalogPageByPageId, GetCatalogPageByName, GetCatalogPageByLayout
<1>5. Sound(GetCatalogItemsByPage)
  <2> DEFINE keys == Entries("not_executed", {e[2] : e \in Family("catalog_items_by_page_id")})
  <2>1. \A k \in keys : k[1] # "friends_by_user_id"
    BY DEF Entries
  <2> HIDE DEF keys
  <2>2. Sound(Plan("GetCatalogItemsByPage", Rows \ {NumRows}, keys, {}, {}))
    BY <2>1, NothingFilled, CachePlan DEF Special, Excused, Miskeyed, NeverGiven, EmptyElement
  <2> QED
    BY <2>2 DEF GetCatalogItemsByPage, FromCache, keys
<1> QED
  BY <1>4, <1>5 DEF CatalogPagePlans, CatalogItemPlans

LEMMA PlayerPlansSound ==
  ASSUME cache \subseteq Entry, IndexBacked, NEW err \in BOOLEAN,
         NEW p, \/ store = "users" /\ p \in UserPlans
                \/ store = "respects" /\ p \in RespectPlans
                \/ store = "club_data" /\ p \in ClubDataPlans
                \/ store = "credits" /\ p \in CreditsPlans(err)
                \/ store = "currencies" /\ p \in CurrencyPlans(err)
  PROVE  Sound(p)
<1> USE DEF Special, Excused, Unchecked, Miskeyed, UnorderedIndex, NeverGiven, ZeroForUnknown
<1>1. ASSUME store \notin {"ranks", "subscriptions", "user_achievements", "guild_parts", "currencies"},
             NEW fill, WellMade(fill)
      PROVE  Fills(fill)
  BY <1>1, GroupTable, Ungrouped
<1>2. ASSUME NEW i \in Ids, store = "users" PROVE Sound(LoadUserData(i)) /\ Sound(LoadUserDataById(i))
  <2> DEFINE fill == {PerRow(<<"user", "user_by_id">>, j) : j \in Known(i)}
  <2>1. WellMade(fill)
    BY HashesFirst, KnownRows, RowFill DEF WellMade
  <2>2. Fills(fill)
    BY <1>1, <1>2, <2>1
  <2> HIDE DEF fill
  <2>3. \A op : Sound(FromTable(op, Known(i), Known(i), fill))
    BY <2>2, KnownRows, TablePlan
  <2>4. LoadUserData(i) = FromTable("loadUserData", Known(i), Known(i), fill)
    BY DEF LoadUserData, fill
  <2>5. SameFields(LoadUserDataById(i), FromTable("loadUserDataById", Known(i), Known(i), fill))
    BY <2>4 DEF LoadUserDataById, FromTable, Plan, SameFields
  <2> QED
    BY <2>3, <2>4, <2>5, SoundFields
<1>3. ASSUME NEW i \in Ids, store = "respects" PROVE Sound(LoadUserRespectData(i))
  <2>1. WellMade({<<e>> : e \in Entries("respect", Known(i))})
    BY SingleFill, KnownRows, HashTable DEF Families
  <2>2. Fills({<<e>> : e \in Entries("respect", Known(i))})
    BY <1>1, <1>3, <2>1
  <2> QED
    BY <2>2, KnownRows, TablePlan DEF LoadUserRespectData
<1>4. ASSUME NEW i \in Ids, store = "club_data" PROVE Sound(CacheUserHCData(i)) /\ Sound(GetUserHCData(i))
  <2>1. WellMade({<<e>> : e \in Entries("user_club_data", Known(i))})
    BY SingleFill, KnownRows, HashTable DEF Families
  <2>2. Fills({<<e>> : e \in Entries("user_club_data", Known(i))})
    BY <1>1, <1>4, <2>1
  <2>3. Sound(CacheUserHCData(i))
    BY <2>2, TablePlan DEF CacheUserHCData
  <2>4. Sound(GetUserHCData(i))
    BY NothingFilled, CachePlan DEF GetUserHCData, FromCache, EmptyElement
  <2> QED
    BY <2>3, <2>4
<1>5. ASSUME NEW i \in Ids, store = "credits" PROVE Sound(GetUserCredits(i, err))
  <2> DEFINE rows == IF i \in Rows THEN {i} ELSE {EmptyElement}
             fill == {<<e>> : e \in Entries("user_credits", Known(i))}
  <2>1. WellMade(fill)
    BY SingleFill, KnownRows, HashTable DEF Families
  <2>2. Fills(fill)
    BY <1>1, <1>5, <2>1
  <2> HIDE DEF fill
  <2>3. Known(i) \subseteq rows /\ (EmptyElement \in rows => Known(i) = {})
    BY RowsAreSome DEF Known
  <2> HIDE DEF rows
  <2>4. Sound(FromTable("GetUserCredits", Known(i), rows, fill))
    BY <2>2, <2>3, TablePlan
  <2>5. ASSUME <<"user_credits", i>> \in cache
        PROVE  Sound(FromCache("GetUserCredits", Known(i), {<<"user_credits", i>>}))
    BY <2>5, OneKeyPlan
  <2> QED
    BY <2>4, <2>5 DEF GetUserCredits, rows, fill
<1>6. ASSUME store = "currencies" PROVE Sound(GetUserCurrencies(err))
  <2>1. Fills(CurrencyFill) /\ store \in DOMAIN Group /\ "user_currency" \in Group[store]
    BY <1>6, FillsWhole, GroupTable
  <2>2. Sound(FromTable("GetUserCurrencies", Rows, Rows, CurrencyFill))
    BY <2>1, RowsAreSome, TablePlan
  <2>3. ASSUME Family("user_currency") # {}
        PROVE  Sound(FromCache("GetUserCurrencies", Rows, Family("user_currency")))
    <3>1. PICK e \in Family("user_currency") : TRUE
      BY <2>3
    <3>2. <<"user_currency", e[2]>> \in cache
      BY InFamily
    <3> QED
      BY <2>1, <3>2, FamilyPlan
  <2> QED
    BY <2>2, <2>3 DEF GetUserCurrencies
<1> QED
  BY <1>2, <1>3, <1>4, <1>5, <1>6 DEF UserPlans, RespectPlans, ClubDataPlans, CreditsPlans, CurrencyPlans

LEMMA PlansSound ==
  ASSUME CacheTypes, IndexBacked, NEW err \in BOOLEAN, NEW p \in Plans(err)
  PROVE  Sound(p)
<1>1. cache \subseteq Entry /\ store \in Stores
  BY DEF CacheTypes
<1>2. CASE store = "ranks"
  BY <1>1, <1>2, RankPlansSound DEF Plans
<1>3. CASE store = "subscriptions"
  BY <1>1, <1>3, SubscriptionPlansSound DEF Plans
<1>4. CASE store = "achievements"
  BY <1>4, AchievementPlansSound DEF Plans
<1>5. CASE store = "user_achievements"
  BY <1>1, <1>5, UserAchievementPlansSound DEF Plans
<1>6. CASE store \in {"friends", "friend_requests"}
  BY <1>6, FriendsPlansSound DEF Plans
<1>7. CASE store = "guild_parts"
  BY <1>1, <1>7, GuildPlansSound DEF Plans
<1>8. CASE store = "items"
  BY <1>1, <1>8, ItemsPlansSound DEF Plans
<1>9. CASE store \in {"catalog_pages", "catalog_items"}
  BY <1>1, <1>9, CatalogPlansSound DEF Plans
<1>10. CASE store \in {"users", "respects", "club_data", "credits", "currencies"}
  BY <1>1, <1>10, PlayerPlansSound DEF Plans
<1> QED
  BY <1>1, <1>2, <1>3, <1>4, <1>5, <1>6, <1>7, <1>8, <1>9, <1>10, CachesAssumption

\* What main loads is whole, unless it finds ranks in the cache.
LEMMA StartLoads ==
  ASSUME CacheTypes, NEW err \in BOOLEAN
  PROVE  /\ WellMade(StartLoad(err))
         /\ \/ StartLoad(err) = {} /\ store \notin Loaded
            \/ Grouped \subseteq FillCommands(StartLoad(err))
            \/ store = "ranks" /\ StartLoad(err) = {} /\ \E i \in Rows : <<"rank", i>> \in cache
<1>1. CASE store = "ranks"
  <2>1. WellMade(RankFill(Rows)) /\ FillCommands(RankFill(Rows)) = {"rank", "rank_id"} \X Rows
    BY GroupFills
  <2>2. Grouped = {"rank", "rank_id"} \X Rows
    BY <1>1, GroupTable DEF Grouped
  <2>3. StartLoad(err) = PermissionStart(err)
    BY <1>1 DEF StartLoad
  <2>4. CASE ~err /\ Family("rank") # {}
    <3>1. StartLoad(err) = {}
      BY <2>3, <2>4 DEF PermissionStart, GetAllRanks, Plan
    <3>2. PICK e \in Family("rank") : TRUE
      BY <2>4
    <3>3. cache \subseteq Entry
      BY DEF CacheTypes
    <3>4. e[2] \in Rows /\ <<"rank", e[2]>> \in cache
      BY <3>3, InFamily
    <3> QED
      BY <1>1, <3>1, <3>4, NoFill
  <2>5. CASE err \/ Family("rank") = {}
    <3>1. StartLoad(err) = RankFill(Rows)
      BY <2>3, <2>5 DEF PermissionStart, GetAllRanks, Plan
    <3> QED
      BY <2>1, <2>2, <3>1
  <2> QED
    BY <2>4, <2>5
<1>2. CASE store = "guild_parts"
  <2>1. StartLoad(err) = {LoadGuildParts}
    BY <1>2 DEF StartLoad
  <2>2. Grouped = {"guild_elements", "guild_elements_by_type"} \X Rows
    BY <1>2, GroupTable DEF Grouped
  <2> QED
    BY <2>1, <2>2, GroupFills
<1>3. CASE store \in {"items", "catalog_pages", "catalog_items"}
  <2>1. Grouped = {} 
    BY <1>3, GroupTable DEF Grouped
  <2>2. WellMade({LoadBaseItems})
    BY HashesFirst, PipelinesFill DEF LoadBaseItems
  <2>3. HashFirst(PageFamilies) /\ Len(PageFamilies) = 4
    BY HashesFirst DEF PageFamilies
  <2>4. WellMade({LoadCatalogPages})
    BY <2>3, PipelinesFill DEF LoadCatalogPages
  <2> QED
    BY <1>3, <2>1, <2>2, <2>4, CatalogItemsFill DEF StartLoad
<1>4. CASE store \notin {"ranks", "guild_parts", "items", "catalog_pages", "catalog_items"}
  BY <1>4, NoFill DEF StartLoad, Loaded
<1> QED
  BY <1>1, <1>2, <1>3, <1>4

-----------------------------------------------------------------------------
(* Sequences in execution *)

LEMMA Gathered ==
  ASSUME NEW ws, NEW c
  PROVE  c \in PendingOf(ws) <=> \E w \in ws : c \in Commands(w.cmds)
BY DEF PendingOf, FillCommands

LEMMA NoWrites == PendingOf({}) = {}
BY Gathered

\* A fill is added.
LEMMA WritesAdded ==
  ASSUME NEW fill, WellMade(fill), NEW b \in BOOLEAN, NEW old, old \subseteq Writers,
         NEW new, new = old \union [bound : {b}, cmds : fill]
  PROVE  /\ new \subseteq Writers
         /\ \A w \in new : w \in old \/ Ordered(w.cmds)
         /\ PendingOf(new) = PendingOf(old) \union FillCommands(fill)
<1>1. \A w \in [bound : {b}, cmds : fill] :
        w.bound = b /\ w.cmds \in fill /\ w = [bound |-> w.bound, cmds |-> w.cmds]
  OBVIOUS
<1>2. \A cmds \in fill : cmds \in Sequence /\ Ordered(cmds)
  BY DEF WellMade, Sequence
<1>3. \A cmds \in fill : [bound |-> b, cmds |-> cmds] \in new
  OBVIOUS
<1>4. new \subseteq Writers /\ \A w \in new : w \in old \/ Ordered(w.cmds)
  BY <1>1, <1>2 DEF Writers
<1>5. ASSUME NEW c \in PendingOf(new)
      PROVE  c \in PendingOf(old) \union FillCommands(fill)
  <2>1. PICK w \in new : c \in Commands(w.cmds)
    BY Gathered
  <2>2. CASE w \in old
    BY <2>1, <2>2, Gathered
  <2>3. CASE w \notin old
    BY <1>1, <2>1, <2>3 DEF FillCommands
  <2> QED
    BY <2>2, <2>3
<1>6. ASSUME NEW c \in FillCommands(fill) PROVE c \in PendingOf(new)
  <2>1. PICK cmds \in fill : c \in Commands(cmds)
    BY DEF FillCommands
  <2> DEFINE w == [bound |-> b, cmds |-> cmds]
  <2>2. w \in new /\ c \in Commands(w.cmds)
    BY <1>3, <2>1
  <2> QED
    BY <2>2, Gathered
<1>7. ASSUME NEW c \in PendingOf(old) PROVE c \in PendingOf(new)
  <2>1. PICK w \in old : c \in Commands(w.cmds)
    BY Gathered
  <2> QED
    BY <2>1, Gathered
<1> QED
  BY <1>4, <1>5, <1>6, <1>7

\* The first command of a sequence is dealt with.
LEMMA TailCommands ==
  ASSUME NEW s \in Sequence
  PROVE  /\ Head(s) \in Command /\ Head(s) = s[1] /\ 1 \in 1..Len(s)
         /\ Tail(s) \in Seq(Command) /\ Commands(s) = Commands(Tail(s)) \union {Head(s)}
         /\ Tail(s) = <<>> => Commands(s) = {Head(s)}
<1>1. /\ s \in Seq(Command) /\ s # <<>> /\ Head(s) = s[1] /\ Head(s) \in Command /\ Tail(s) \in Seq(Command)
      /\ Len(Tail(s)) = Len(s) - 1 /\ \A i \in 1..Len(Tail(s)) : Tail(s)[i] = s[i + 1]
  BY HeadTailProperties DEF Sequence
<1>2. Len(s) \in Nat /\ Len(Tail(s)) \in Nat /\ Len(s) = Len(Tail(s)) + 1
  BY <1>1
<1>3. ASSUME NEW m \in 1..Len(s) PROVE s[m] \in Commands(Tail(s)) \union {Head(s)}
  <2>1. CASE m = 1
    BY <1>1, <2>1
  <2>2. CASE m # 1
    <3>1. m - 1 \in 1..Len(Tail(s)) /\ (m - 1) + 1 = m
      BY <1>2, <2>2
    <3>2. Tail(s)[m - 1] = s[m]
      BY <1>1, <3>1
    <3> QED
      BY <3>1, <3>2 DEF Commands
  <2> QED
    BY <2>1, <2>2
<1>4. ASSUME NEW m \in 1..Len(Tail(s)) PROVE Tail(s)[m] \in Commands(s)
  <2>1. m + 1 \in 1..Len(s)
    BY <1>2
  <2> QED
    BY <1>1, <2>1 DEF Commands
<1>5. 1 \in 1..Len(s) /\ Head(s) \in Commands(s)
  BY <1>1, <1>2 DEF Commands
<1>6. Commands(s) = Commands(Tail(s)) \union {Head(s)}
  <2>1. \A c \in Commands(s) : c \in Commands(Tail(s)) \union {Head(s)}
    BY <1>3 DEF Commands
  <2>2. \A c \in Commands(Tail(s)) : c \in Commands(s)
    BY <1>4 DEF Commands
  <2> QED
    BY <1>5, <2>1, <2>2
<1>7. Tail(s) = <<>> => Commands(Tail(s)) = {}
  <2>1. Tail(s) = <<>> => Len(Tail(s)) = 0
    BY <1>1, EmptySeq
  <2> QED
    BY <2>1 DEF Commands
<1> QED
  BY <1>1, <1>5, <1>6, <1>7

LEMMA RestOf ==
  ASSUME writes \subseteq Writers, NEW w \in writes
  PROVE  /\ Rest(w) \subseteq Writers
         /\ \A v \in Rest(w) : v \in writes \/ v.cmds = Tail(w.cmds)
         /\ Head(w.cmds) \in Pending
         /\ PendingOf(Rest(w)) \subseteq Pending
         /\ Pending \subseteq PendingOf(Rest(w)) \union {Head(w.cmds)}
<1> DEFINE shorter == [w EXCEPT !.cmds = Tail(w.cmds)]
<1>1. w.cmds \in Sequence /\ w.bound \in BOOLEAN /\ w = [bound |-> w.bound, cmds |-> w.cmds]
  BY DEF Writers
<1>2. /\ Head(w.cmds) \in Command /\ Tail(w.cmds) \in Seq(Command)
      /\ Commands(w.cmds) = Commands(Tail(w.cmds)) \union {Head(w.cmds)}
      /\ Tail(w.cmds) = <<>> => Commands(w.cmds) = {Head(w.cmds)}
  BY <1>1, TailCommands
<1>3. shorter = [bound |-> w.bound, cmds |-> Tail(w.cmds)]
  <2>1. \A b, c, d : [[bound |-> b, cmds |-> c] EXCEPT !.cmds = d] = [bound |-> b, cmds |-> d]
    OBVIOUS
  <2>2. [[bound |-> w.bound, cmds |-> w.cmds] EXCEPT !.cmds = Tail(w.cmds)]
          = [bound |-> w.bound, cmds |-> Tail(w.cmds)]
    BY <2>1
  <2> QED
    BY <1>1, <2>2
<1>4. shorter.cmds = Tail(w.cmds) /\ (Tail(w.cmds) # <<>> => shorter \in Writers)
  BY <1>1, <1>2, <1>3 DEF Sequence, Writers
<1>5. \A v : v \in Rest(w) <=> (v \in writes /\ v # w) \/ (Tail(w.cmds) # <<>> /\ v = shorter)
  BY DEF Rest
<1> HIDE DEF shorter
<1>6. Rest(w) \subseteq Writers /\ \A v \in Rest(w) : v \in writes \/ v.cmds = Tail(w.cmds)
  BY <1>4, <1>5
<1>7. \A c : c \in Pending <=> \E v \in writes : c \in Commands(v.cmds)
  BY Gathered DEF Pending
<1>8. Head(w.cmds) \in Pending
  BY <1>2, <1>7
<1>9. ASSUME NEW c \in PendingOf(Rest(w)) PROVE c \in Pending
  <2>1. PICK v \in Rest(w) : c \in Commands(v.cmds)
    BY Gathered
  <2> QED
    BY <1>2, <1>6, <1>7, <2>1
<1>10. ASSUME NEW c \in Pending PROVE c \in PendingOf(Rest(w)) \union {Head(w.cmds)}
  <2>1. PICK v \in writes : c \in Commands(v.cmds)
    BY <1>7
  <2>2. CASE v # w
    BY <1>5, <2>1, <2>2, Gathered
  <2>3. CASE v = w /\ c # Head(w.cmds)
    <3>1. shorter \in Rest(w) /\ c \in Commands(shorter.cmds)
      BY <1>2, <1>4, <1>5, <2>1, <2>3
    <3> QED
      BY <3>1, Gathered
  <2> QED
    BY <2>2, <2>3
<1> QED
  BY <1>6, <1>8, <1>9, <1>10

\* What becomes of the order of a sequence as the cache grows: a hash, once
\* there or refused, stays so.
HashesStay == \A h \in cache \union failed : h[1] \notin Indexes => h \in (cache \union failed)'

LEMMA OrderedStays ==
  ASSUME NEW cmds \in Seq(Command), OrderedRest(cmds), HashesStay
  PROVE  OrderedRest(cmds)'
<1> SUFFICES ASSUME NEW m \in 1..Len(cmds), cmds[m][1] \in Indexes
             PROVE  \/ \E j \in 1..m-1 : cmds[j] = Hashed(cmds[m])
                    \/ Hashed(cmds[m]) \in (cache \union failed)'
  BY DEF OrderedRest
<1>1. cmds[m] \in Command
  OBVIOUS
<1>2. Hashed(cmds[m])[1] \notin Indexes
  BY <1>1, CommandTypes
<1> QED
  BY <1>2 DEF OrderedRest, HashesStay

LEMMA OrderedTail ==
  ASSUME NEW cmds \in Sequence, OrderedRest(cmds), HashesStay,
         Head(cmds) = ClearFriends \/ Head(cmds) \in (cache \union failed)'
  PROVE  OrderedRest(Tail(cmds))'
<1> DEFINE rest == Tail(cmds)
<1>1. /\ cmds \in Seq(Command) /\ cmds # <<>> /\ Head(cmds) = cmds[1] /\ rest \in Seq(Command)
      /\ Len(rest) = Len(cmds) - 1 /\ \A i \in 1..Len(rest) : rest[i] = cmds[i + 1]
  BY HeadTailProperties DEF Sequence
<1> HIDE DEF rest
<1>2. ASSUME NEW m \in 1..Len(rest), rest[m][1] \in Indexes
      PROVE  (\E j \in 1..m-1 : rest[j] = Hashed(rest[m])) \/ Hashed(rest[m]) \in (cache \union failed)'
  <2>1. rest[m] \in Command /\ m \in Nat /\ Len(rest) \in Nat /\ Len(cmds) \in Nat
    BY <1>1
  <2>2. Hashed(rest[m]) \in Entry /\ Hashed(rest[m])[1] \notin Indexes
    BY <1>2, <2>1, CommandTypes
  <2>3. m + 1 \in 1..Len(cmds) /\ cmds[m + 1] = rest[m] /\ (m + 1) - 1 = m
    BY <1>1, <2>1
  <2>4. (\E j \in 1..m : cmds[j] = Hashed(rest[m])) \/ Hashed(rest[m]) \in cache \union failed
    BY <1>2, <2>3 DEF OrderedRest
  <2>5. CASE Hashed(rest[m]) \in cache \union failed
    BY <2>2, <2>5 DEF HashesStay
  <2>6. ASSUME NEW j \in 1..m, cmds[j] = Hashed(rest[m])
        PROVE  \/ \E i \in 1..m-1 : rest[i] = Hashed(rest[m])
               \/ Hashed(rest[m]) \in (cache \union failed)'
    <3>1. CASE j = 1
      <4>1. ClearFriends \notin Entry
        BY CommandTypes DEF ClearFriends, Entry, Families
      <4> QED
        BY <1>1, <2>2, <2>6, <3>1, <4>1
    <3>2. CASE j # 1
      <4>1. j - 1 \in 1..m-1 /\ j - 1 \in 1..Len(rest) /\ (j - 1) + 1 = j
        BY <2>1, <3>2
      <4>2. rest[j - 1] = cmds[j]
        BY <1>1, <4>1
      <4> QED
        BY <2>6, <4>1, <4>2
    <3> QED
      BY <3>1, <3>2
  <2> QED
    BY <2>4, <2>5, <2>6
<1>3. OrderedRest(rest)'
  <2>1. OrderedRest(rest)' <=>
          \A m \in 1..Len(rest) :
            rest[m][1] \in Indexes =>
              \/ \E j \in 1..m-1 : rest[j] = Hashed(rest[m])
              \/ Hashed(rest[m]) \in (cache \union failed)'
    BY DEF OrderedRest, rest
  <2> QED
    BY <1>2, <2>1
<1> QED
  BY <1>3 DEF rest

-----------------------------------------------------------------------------
(* Steps *)

LEMMA DomainOfIdle == DOMAIN Idle = Fields
BY DEF Idle, Fields

\* What is known of a query before it is settled.
Answers(r) ==
  r.op \notin Excused =>
    IF r.keys # {} THEN r.keys \subseteq cache /\ r.wants \subseteq r.got \union {k[2] : k \in r.keys}
    ELSE IF r.got # {} THEN r.wants \subseteq r.got
    ELSE r.wants \subseteq r.rows
Settled(r) ==
  /\ DOMAIN r = Fields
  /\ Reads(r)
  /\ EmptyElement \in r.got => ZeroCause(r) \/ failed # {}
  /\ r.calm \in BOOLEAN
  /\ r.calm => Answers(r)

LEMMA Settling ==
  ASSUME NEW r, Settled(r), Settle(r), UNCHANGED <<cache, store, failed>>
  PROVE  DOMAIN query' = Fields /\ query'.calm \in BOOLEAN /\ QueryReads'
<1>1. CASE r.keys # {} /\ query' = [r EXCEPT !.pc = "reading"]
  <2>1. /\ DOMAIN query' = Fields /\ query'.pc = "reading" /\ query'.op = r.op /\ query'.wants = r.wants
        /\ query'.keys = r.keys /\ query'.got = r.got /\ query'.rows = r.rows /\ query'.fill = r.fill
        /\ query'.calm = r.calm
    BY <1>1 DEF Settled, Fields
  <2>2. Reads(query)' /\ (ZeroCause(query)' <=> ZeroCause(r))
    BY <2>1 DEF Settled, Reads, ZeroCause, Fills, Grouped
  <2>3. query'.calm => Enough(query)'
    BY <1>1, <2>1 DEF Settled, Answers, Enough
  <2> QED
    BY <1>1, <2>1, <2>2, <2>3 DEF Settled, QueryReads
<1>2. CASE r.keys = {} /\ r.got # {} /\ query' = [r EXCEPT !.pc = "done", !.rows = {}, !.fill = {}]
  <2>1. /\ DOMAIN query' = Fields /\ query'.pc = "done" /\ query'.op = r.op /\ query'.wants = r.wants
        /\ query'.keys = r.keys /\ query'.got = r.got /\ query'.calm = r.calm
    BY <1>2 DEF Settled, Fields
  <2>2. ZeroCause(query)' <=> ZeroCause(r)
    BY <2>1 DEF ZeroCause
  <2>3. query'.calm => Enough(query)'
    BY <1>2, <2>1 DEF Settled, Answers, Enough
  <2> QED
    BY <1>2, <2>1, <2>2, <2>3 DEF Settled, QueryReads
<1>3. CASE r.keys = {} /\ r.got = {} /\ AskTable(r)
  <2>1. /\ DOMAIN query' = Fields /\ query'.pc = "done" /\ query'.op = r.op /\ query'.wants = r.wants
        /\ query'.keys = {} /\ query'.got = r.rows /\ query'.calm = r.calm
    BY <1>3, DomainOfIdle DEF AskTable, Idle, Fields
  <2>2. ZeroCause(query)' <=> ZeroCause(r)
    BY <2>1 DEF ZeroCause
  <2>3. query'.calm => Enough(query)'
    BY <1>3, <2>1 DEF Settled, Answers, Enough
  <2>4. EmptyElement \in r.rows => ZeroCause(r)
    BY DEF Settled, Reads
  <2> QED
    BY <1>3, <2>1, <2>2, <2>3, <2>4 DEF Settled, QueryReads
<1> QED
  BY <1>1, <1>2, <1>3 DEF Settle

\* What settling a query leaves behind.
LEMMA SettlingWrites ==
  ASSUME CacheTypes, WritesOrdered, AllOrNone, NEW r, Fills(r.fill), Settle(r), up,
         UNCHANGED <<cache, store, up, lost, failed>>
  PROVE  /\ writes' \subseteq Writers
         /\ WritesOrdered' /\ AllOrNone'
<1>1. CASE UNCHANGED writes
  BY <1>1 DEF CacheTypes, WritesOrdered, OrderedRest, AllOrNone, Pending, Grouped
<1>2. CASE AskTable(r)
  <2> DEFINE b == r.op \in RequestBound
  <2>1. b \in BOOLEAN /\ writes' = writes \union [bound : {b}, cmds : r.fill]
    <3>1. writes' = writes \union [bound : {b}, cmds : r.fill]
      BY <1>2, Zenon DEF AskTable
    <3>2. b \in BOOLEAN
      OBVIOUS
    <3> HIDE DEF b
    <3> QED
      BY <3>1, <3>2
  <2> HIDE DEF b
  <2>2. WellMade(r.fill) /\ writes \subseteq Writers
    BY DEF Fills, CacheTypes
  <2>3. /\ writes' \subseteq Writers
        /\ \A w \in writes' : w \in writes \/ Ordered(w.cmds)
        /\ PendingOf(writes') = PendingOf(writes) \union FillCommands(r.fill)
    BY <2>1, <2>2, WritesAdded
  <2>4. WritesOrdered'
    BY <2>3 DEF WritesOrdered, Ordered, OrderedRest
  <2>5. Pending' = Pending \union FillCommands(r.fill) /\ Grouped' = Grouped
    BY <2>3 DEF Pending, Grouped
  <2>6. AllOrNone'
    BY <2>5, GroupTable DEF AllOrNone, Fills, Loaded
  <2> QED
    BY <2>3, <2>4, <2>6
<1> QED
  BY <1>1, <1>2 DEF Settle

LEMMA InitCaches == Init => CachesInv
<1> SUFFICES ASSUME Init PROVE CachesInv
  OBVIOUS
<1>1. CacheTypes
  BY DomainOfIdle DEF Init, CacheTypes, Idle
<1>2. IndexBacked /\ WritesOrdered
  BY DEF Init, IndexBacked, WritesOrdered
<1>3. AllOrNone
  BY NoWrites DEF Init, AllOrNone, Pending
<1>4. QueryReads
  BY DEF Init, Idle, QueryReads
<1> QED
  BY <1>1, <1>2, <1>3, <1>4 DEF CachesInv

LEMMA StartStep ==
  ASSUME CachesInv, Start
  PROVE  CachesInv'
<1>1. PICK err \in BOOLEAN :
        /\ writes' = [bound : {FALSE}, cmds : StartLoad(err)]
        /\ lost' = (lost /\ StartLoad(err) = {})
  BY DEF Start
<1>2. UNCHANGED <<cache, store, query, failed>> /\ ~up /\ up' = TRUE /\ writes = {} /\ query = Idle
  BY DEF Start, CachesInv, CacheTypes
<1>3. CacheTypes /\ IndexBacked /\ AllOrNone /\ QueryReads
  BY DEF CachesInv
<1>4. /\ WellMade(StartLoad(err))
      /\ \/ StartLoad(err) = {} /\ store \notin Loaded
         \/ Grouped \subseteq FillCommands(StartLoad(err))
         \/ store = "ranks" /\ StartLoad(err) = {} /\ \E i \in Rows : <<"rank", i>> \in cache
  BY <1>3, StartLoads
<1> DEFINE load == StartLoad(err)
<1> HIDE DEF load
<1>5. /\ writes' \subseteq Writers /\ \A w \in writes' : Ordered(w.cmds)
      /\ PendingOf(writes') = FillCommands(load)
  <2> DEFINE b == FALSE
  <2>1. WellMade(load) /\ b \in BOOLEAN /\ writes' = writes \union [bound : {b}, cmds : load]
    BY <1>1, <1>2, <1>4 DEF load
  <2>2. writes \subseteq Writers
    BY <1>3 DEF CacheTypes
  <2> HIDE DEF b
  <2>3. /\ writes' \subseteq Writers /\ \A w \in writes' : w \in writes \/ Ordered(w.cmds)
        /\ PendingOf(writes') = PendingOf(writes) \union FillCommands(load)
    BY <2>1, <2>2, WritesAdded
  <2> QED
    BY <1>2, <2>3, NoWrites
<1>6. CacheTypes'
  <2>1. lost' \in BOOLEAN
    BY <1>1, <1>3, Zenon DEF CacheTypes
  <2> QED
    BY <1>2, <1>3, <1>5, <2>1 DEF CacheTypes
<1>7. IndexBacked'
  BY <1>2, <1>3 DEF IndexBacked, Backed
<1>8. WritesOrdered'
  BY <1>5 DEF WritesOrdered, Ordered, OrderedRest
<1>9. AllOrNone'
  <2> SUFFICES ASSUME ~lost', failed = {}
               PROVE  \/ Grouped \subseteq cache \union FillCommands(load)
                      \/ Grouped \intersect (cache \union FillCommands(load)) = {} /\ store \notin Loaded
    BY <1>2, <1>5 DEF AllOrNone, Pending, Grouped
  <2>1. CASE Grouped \subseteq FillCommands(load)
    BY <2>1
  <2>2. CASE load = {}
    <3>1. ~lost /\ Pending = {}
      BY <1>1, <1>2, <2>2, NoWrites DEF Pending, load
    <3>2. Grouped \subseteq cache \/ Grouped \intersect cache = {}
      BY <1>3, <3>1 DEF AllOrNone
    <3>3. FillCommands(load) = {}
      BY <2>2, NoFill
    <3>4. CASE store \notin Loaded
      BY <3>2, <3>3, <3>4
    <3>5. CASE store = "ranks" /\ \E i \in Rows : <<"rank", i>> \in cache
      <4>1. Grouped = {"rank", "rank_id"} \X Rows
        BY <3>5, GroupTable DEF Grouped
      <4>2. PICK i \in Rows : <<"rank", i>> \in cache
        BY <3>5
      <4>3. <<"rank", i>> \in Grouped
        BY <4>1
      <4> QED
        BY <3>2, <4>2, <4>3
    <3> QED
      BY <1>4, <2>1, <3>4, <3>5 DEF load
  <2> QED
    BY <1>4, <2>1, <2>2 DEF load
<1>10. QueryReads'
  BY <1>2, <1>3 DEF QueryReads, Idle
<1> QED
  BY <1>6, <1>7, <1>8, <1>9, <1>10 DEF CachesInv

LEMMA AskStep ==
  ASSUME CachesInv, Ask
  PROVE  CachesInv'
<1>1. CacheTypes /\ IndexBacked /\ WritesOrdered /\ AllOrNone
  BY DEF CachesInv
<1>2. up /\ UNCHANGED <<cache, store, up, lost, failed>>
  BY DEF Ask
<1>0. PICK err \in BOOLEAN : \E p \in Plans(err) :
        Settle([pc |-> "idle", op |-> p.op, wants |-> p.wants, keys |-> p.keys, got |-> {},
                rows |-> p.rows, fill |-> p.fill,
                calm |-> ~err /\ writes = {} /\ ~lost /\ failed = {}])
  BY DEF Ask
<1>3. PICK p \in Plans(err) :
        Settle([pc |-> "idle", op |-> p.op, wants |-> p.wants, keys |-> p.keys, got |-> {},
                rows |-> p.rows, fill |-> p.fill,
                calm |-> ~err /\ writes = {} /\ ~lost /\ failed = {}])
  BY <1>0
<1> DEFINE calm == ~err /\ writes = {} /\ ~lost /\ failed = {}
           r == [pc |-> "idle", op |-> p.op, wants |-> p.wants, keys |-> p.keys, got |-> {},
                 rows |-> p.rows, fill |-> p.fill, calm |-> calm]
<1>4. Sound(p)
  BY <1>1, PlansSound
<1>5. calm \in BOOLEAN
  OBVIOUS
<1>6. calm => Quiet
  <2> SUFFICES ASSUME writes = {}, ~lost, failed = {} PROVE Quiet
    OBVIOUS
  <2>1. Pending = {}
    BY NoWrites DEF Pending
  <2> QED
    BY <1>1, <1>2, <2>1 DEF AllOrNone, Quiet
<1>7. Settle(r)
  BY <1>3
<1> HIDE DEF calm
<1>8. /\ DOMAIN r = Fields /\ r.op = p.op /\ r.wants = p.wants /\ r.keys = p.keys /\ r.got = {}
      /\ r.rows = p.rows /\ r.fill = p.fill /\ r.calm = calm
  BY DEF Fields
<1> HIDE DEF r
<1>9. Reads(r)
  BY <1>4, <1>8 DEF Sound, Reads, ZeroCause
<1>10. calm => Answers(r)
  BY <1>4, <1>6, <1>8 DEF Sound, PlanEnough, Answers
<1>11. Settled(r)
  BY <1>5, <1>8, <1>9, <1>10 DEF Settled
<1>12. DOMAIN query' = Fields /\ query'.calm \in BOOLEAN /\ QueryReads'
  BY <1>2, <1>7, <1>11, Settling
<1>13. writes' \subseteq Writers /\ WritesOrdered' /\ AllOrNone'
  BY <1>1, <1>2, <1>7, <1>9, SettlingWrites DEF Reads
<1>14. CacheTypes'
  BY <1>1, <1>2, <1>12, <1>13 DEF CacheTypes
<1>15. IndexBacked'
  BY <1>1, <1>2 DEF IndexBacked, Backed
<1> QED
  BY <1>12, <1>13, <1>14, <1>15 DEF CachesInv

\* What becomes of the query once its key k is read, or Redis has given an
\* error for it.
WithoutKey(k, r) ==
  /\ DOMAIN r = Fields
  /\ r.op = query.op /\ r.wants = query.wants /\ r.keys = query.keys \ {k}
  /\ r.rows = query.rows /\ r.fill = query.fill
  /\ \/ r.calm = query.calm /\ r.got = query.got \union {IF k \in cache THEN k[2] ELSE EmptyElement}
     \/ r.calm = FALSE /\ r.got = query.got

LEMMA ReadStep ==
  ASSUME CachesInv, Read \/ ReadFails
  PROVE  CachesInv'
<1>1. CacheTypes /\ IndexBacked /\ WritesOrdered /\ AllOrNone /\ QueryReads
  BY DEF CachesInv
<1>2. UNCHANGED <<cache, store, up, lost, failed>>
  BY DEF Read, ReadFails
<1>3. DOMAIN query = Fields /\ query.calm \in BOOLEAN /\ cache \subseteq Entry
  BY <1>1 DEF CacheTypes
<1>4. \E k \in query.keys : \E r : Settle(r) /\ WithoutKey(k, r)
  <2>1. CASE Read
    <3>1. PICK k \in query.keys :
            Settle([query EXCEPT
                 !.keys = @ \ {k},
                 !.got = @ \union {IF k \in cache THEN k[2] ELSE EmptyElement}])
      BY <2>1 DEF Read
    <3> DEFINE got == query.got \union {IF k \in cache THEN k[2] ELSE EmptyElement}
               r == [query EXCEPT !.keys = @ \ {k}, !.got = got]
    <3>2. Settle(r)
      BY <3>1
    <3> HIDE DEF got
    <3>3. /\ DOMAIN r = Fields /\ r.op = query.op /\ r.wants = query.wants /\ r.keys = query.keys \ {k}
          /\ r.rows = query.rows /\ r.fill = query.fill /\ r.calm = query.calm /\ r.got = got
      BY <1>3 DEF Fields
    <3> HIDE DEF r
    <3>4. r.got = query.got \union {IF k \in cache THEN k[2] ELSE EmptyElement}
      BY <3>3 DEF got
    <3>5. WithoutKey(k, r)
      BY <3>3, <3>4 DEF WithoutKey
    <3> QED
      BY <3>2, <3>5
  <2>2. CASE ReadFails
    <3>1. PICK k \in query.keys : Settle([query EXCEPT !.keys = @ \ {k}, !.calm = FALSE])
      BY <2>2 DEF ReadFails
    <3> DEFINE r == [query EXCEPT !.keys = @ \ {k}, !.calm = FALSE]
    <3>2. /\ DOMAIN r = Fields /\ r.op = query.op /\ r.wants = query.wants /\ r.keys = query.keys \ {k}
          /\ r.rows = query.rows /\ r.fill = query.fill /\ r.calm = FALSE /\ r.got = query.got
      BY <1>3 DEF Fields
    <3>3. Settle(r)
      BY <3>1
    <3> HIDE DEF r
    <3>4. WithoutKey(k, r)
      BY <3>2 DEF WithoutKey
    <3> QED
      BY <3>3, <3>4
  <2> QED
    BY <2>1, <2>2
<1>5. PICK k \in query.keys : \E r : Settle(r) /\ WithoutKey(k, r)
  BY <1>4
<1>6. PICK r : Settle(r) /\ WithoutKey(k, r)
  BY <1>5
<1>7. /\ DOMAIN r = Fields /\ r.op = query.op /\ r.wants = query.wants /\ r.keys = query.keys \ {k}
      /\ r.rows = query.rows /\ r.fill = query.fill
      /\ \/ r.calm = query.calm /\ r.got = query.got \union {IF k \in cache THEN k[2] ELSE EmptyElement}
         \/ r.calm = FALSE /\ r.got = query.got
  BY <1>6 DEF WithoutKey
<1>8. /\ Reads(query) /\ (query.calm => Enough(query)) /\ query.keys # {}
      /\ EmptyElement \in query.got => ZeroCause(query) \/ failed # {}
  BY <1>1 DEF QueryReads
<1>9. Reads(r) /\ (ZeroCause(r) <=> ZeroCause(query))
  BY <1>7, <1>8 DEF Reads, ZeroCause
<1>10. EmptyElement \in r.got => ZeroCause(r) \/ failed # {}
  <2> SUFFICES ASSUME EmptyElement \in r.got, EmptyElement \notin query.got
               PROVE  ZeroCause(r) \/ failed # {}
    BY <1>8, <1>9
  <2>1. EmptyElement = IF k \in cache THEN k[2] ELSE EmptyElement
    BY <1>7
  <2>2. k \notin cache
    <3>1. k \in Entry => k[2] \in Rows
      BY DEF Entry
    <3> QED
      BY <1>3, <2>1, <3>1, RowsAreSome
  <2> QED
    BY <1>8, <1>9, <2>2 DEF Reads, ZeroCause
<1>11. r.calm => Answers(r)
  <2> SUFFICES ASSUME r.calm, r.op \notin Excused PROVE Answers(r)
    BY DEF Answers
  <2>1. r.calm = query.calm /\ r.got = query.got \union {IF k \in cache THEN k[2] ELSE EmptyElement}
    BY <1>7
  <2>2. query.keys \subseteq cache /\ query.wants \subseteq query.got \union {l[2] : l \in query.keys}
    BY <1>7, <1>8, <2>1 DEF Enough
  <2>3. r.got = query.got \union {k[2]}
    BY <2>1, <2>2
  <2>4. {l[2] : l \in query.keys} \subseteq {l[2] : l \in r.keys} \union {k[2]}
    BY <1>7
  <2>5. r.wants \subseteq r.got \union {l[2] : l \in r.keys} /\ r.keys \subseteq cache
    BY <1>7, <2>2, <2>3, <2>4
  <2>6. r.keys = {} => r.wants \subseteq r.got
    BY <2>5
  <2>7. r.got # {}
    BY <2>3
  <2> QED
    BY <2>5, <2>6, <2>7 DEF Answers
<1>12. Settled(r)
  BY <1>3, <1>7, <1>9, <1>10, <1>11 DEF Settled
<1>13. DOMAIN query' = Fields /\ query'.calm \in BOOLEAN /\ QueryReads'
  BY <1>2, <1>6, <1>12, Settling
<1>14. up
  BY <1>1, <1>8 DEF CacheTypes, Idle
<1>15. writes' \subseteq Writers /\ WritesOrdered' /\ AllOrNone'
  BY <1>1, <1>2, <1>6, <1>9, <1>14, SettlingWrites DEF Reads
<1>16. CacheTypes'
  BY <1>1, <1>2, <1>13, <1>14, <1>15 DEF CacheTypes
<1>17. IndexBacked'
  BY <1>1, <1>2 DEF IndexBacked, Backed
<1> QED
  BY <1>13, <1>15, <1>16, <1>17 DEF CachesInv

\* A command is executed, or refused; in both cases its sequence goes on.
LEMMA SequenceGoesOn ==
  ASSUME CachesInv, NEW w \in writes, writes' = Rest(w), HashesStay,
         Head(w.cmds) = ClearFriends \/ Head(w.cmds) \in (cache \union failed)'
  PROVE  writes' \subseteq Writers /\ WritesOrdered' /\ up
<1>1. CacheTypes /\ WritesOrdered
  BY DEF CachesInv
<1>2. writes \subseteq Writers /\ up
  BY <1>1 DEF CacheTypes
<1>3. Rest(w) \subseteq Writers /\ \A v \in Rest(w) : v \in writes \/ v.cmds = Tail(w.cmds)
  BY <1>2, RestOf
<1>4. \A v \in writes : v.cmds \in Sequence /\ v.cmds \in Seq(Command) /\ OrderedRest(v.cmds)
  BY <1>1, <1>2 DEF WritesOrdered, Writers, Sequence
<1>5. \A v \in writes : OrderedRest(v.cmds)'
  BY <1>4, OrderedStays
<1>6. OrderedRest(Tail(w.cmds))'
  BY <1>4, OrderedTail
<1>7. WritesOrdered'
  <2> SUFFICES ASSUME NEW v \in Rest(w) PROVE OrderedRest(v.cmds)'
    BY DEF WritesOrdered
  <2>1. CASE v \in writes
    BY <1>5, <2>1
  <2>2. CASE v.cmds = Tail(w.cmds)
    BY <1>6, <2>2 DEF OrderedRest
  <2> QED
    BY <1>3, <2>1, <2>2
<1> QED
  BY <1>2, <1>3, <1>7

LEMMA WriteStep ==
  ASSUME CachesInv, NEW w \in writes, Write(w)
  PROVE  CachesInv'
<1> DEFINE c == Head(w.cmds)
<1>1. CacheTypes /\ IndexBacked /\ WritesOrdered /\ AllOrNone /\ QueryReads
  BY DEF CachesInv
<1>2. /\ cache' = Executed(c) /\ writes' = Rest(w) /\ UNCHANGED <<store, up, query, lost, failed>>
  BY DEF Write
<1>3. w.cmds \in Sequence /\ cache \subseteq Entry /\ writes \subseteq Writers
  BY <1>1 DEF CacheTypes, Writers
<1>4. c \in Command /\ c = w.cmds[1] /\ 1 \in 1..Len(w.cmds)
  BY <1>3, TailCommands
<1>5. c \in Pending /\ PendingOf(writes') \subseteq Pending /\ Pending \subseteq PendingOf(writes') \union {c}
  BY <1>2, <1>3, RestOf
<1>6. c[1] \in Indexes => c \in Entry /\ Hashed(c) \in cache \union failed
  <2>1. OrderedRest(w.cmds)
    BY <1>1 DEF WritesOrdered
  <2>2. ~ \E j \in 1..1-1 : w.cmds[j] = Hashed(w.cmds[1])
    OBVIOUS
  <2> QED
    BY <1>4, <2>1, <2>2, CommandTypes DEF OrderedRest
<1> HIDE DEF c
<1>7. \/ c = ClearFriends /\ cache' = cache \ Family("friends_by_user_id")
      \/ c # ClearFriends /\ c \in Entry /\ cache' = cache \union {c}
  BY <1>2, <1>4 DEF Executed, Command
<1>8. \A e \in cache : e[1] # "friends_by_user_id" => e \in cache'
  BY <1>7 DEF Family
<1>9. HashesStay /\ (c = ClearFriends \/ c \in (cache \union failed)')
  BY <1>2, <1>7, <1>8, HashTable DEF HashesStay
<1>10. writes' \subseteq Writers /\ WritesOrdered' /\ up
  BY <1>2, <1>9, SequenceGoesOn DEF c
<1>11. CacheTypes'
  BY <1>1, <1>2, <1>7, <1>10 DEF CacheTypes
<1>12. IndexBacked'
  <2> SUFFICES ASSUME NEW e \in cache', e[1] \in Indexes PROVE Hashed(e) \in (cache \union failed)'
    BY DEF IndexBacked, Backed, Indexes, Hashed
  <2>1. e \in Command
    BY <1>3, <1>7 DEF Command
  <2>2. Hashed(e)[1] \notin Indexes
    BY <2>1, CommandTypes
  <2>3. Hashed(e) \in cache \union failed
    <3>1. CASE e = c
      BY <1>6, <3>1
    <3>2. CASE e # c
      <4>1. e \in cache
        BY <1>7, <3>2
      <4> QED
        BY <1>1, <4>1 DEF IndexBacked, Backed, Indexes, Hashed
    <3> QED
      BY <3>1, <3>2
  <2> QED
    BY <1>9, <2>2, <2>3 DEF HashesStay
<1>13. AllOrNone'
  <2>1. Grouped' = Grouped /\ Pending' = PendingOf(writes')
    BY <1>2 DEF Grouped, Pending
  <2>2. ASSUME NEW e \in Grouped PROVE e # ClearFriends /\ e[1] # "friends_by_user_id"
    BY GroupTable DEF Grouped, ClearFriends
  <2>3. ASSUME NEW e \in Grouped PROVE e \in cache \union Pending <=> e \in cache' \union PendingOf(writes')
    BY <1>5, <1>7, <1>8, <2>2
  <2>4. \/ Grouped \subseteq cache \union Pending
        \/ Grouped \intersect (cache \union Pending) = {} /\ (store \in Loaded => ~up)
        \/ lost \/ failed # {}
    BY <1>1 DEF AllOrNone
  <2> QED
    BY <1>2, <2>1, <2>3, <2>4 DEF AllOrNone
<1>14. QueryReads'
  <2>1. Reads(query) => Reads(query)'
    BY <1>2, <1>8 DEF Reads, ZeroCause, Fills, Grouped
  <2>2. query.keys # {} => \A k \in query.keys : k[1] # "friends_by_user_id"
    BY <1>1 DEF QueryReads, Reads
  <2>3. Enough(query) => Enough(query)'
    BY <1>2, <1>8, <2>2 DEF Enough
  <2> QED
    BY <1>1, <1>2, <2>1, <2>3 DEF QueryReads, ZeroCause
<1> QED
  BY <1>10, <1>11, <1>12, <1>13, <1>14 DEF CachesInv

LEMMA WriteFailsStep ==
  ASSUME CachesInv, WriteFails
  PROVE  CachesInv'
<1>1. CacheTypes /\ IndexBacked /\ WritesOrdered /\ AllOrNone /\ QueryReads
  BY DEF CachesInv
<1>2. PICK w \in writes : failed' = failed \union {Head(w.cmds)} /\ writes' = Rest(w)
  BY DEF WriteFails
<1>3. UNCHANGED <<cache, store, up, query, lost>>
  BY DEF WriteFails
<1>4. w.cmds \in Sequence
  BY <1>1 DEF CacheTypes, Writers
<1>5. Head(w.cmds) \in Command
  BY <1>4, TailCommands
<1>6. HashesStay
  BY <1>2, <1>3 DEF HashesStay
<1>7. writes' \subseteq Writers /\ WritesOrdered' /\ up
  BY <1>2, <1>6, SequenceGoesOn
<1>8. CacheTypes'
  BY <1>1, <1>2, <1>3, <1>5, <1>7 DEF CacheTypes
<1>9. IndexBacked'
  BY <1>1, <1>2, <1>3 DEF IndexBacked, Backed
<1>10. failed' # {}
  BY <1>2
<1>11. AllOrNone'
  BY <1>10 DEF AllOrNone
<1>12. QueryReads'
  <2>1. Reads(query) => Reads(query)'
    BY <1>2, <1>3 DEF Reads, ZeroCause, Fills, Grouped
  <2> QED
    BY <1>1, <1>3, <1>10, <2>1 DEF QueryReads, Enough
<1> QED
  BY <1>7, <1>8, <1>9, <1>11, <1>12 DEF CachesInv

\* Sequences are cut short, by a request that ends or by the end of the process.
LEMMA CutStep ==
  ASSUME CachesInv, Abandon \/ Crash
  PROVE  CachesInv'
<1>1. CacheTypes /\ IndexBacked /\ WritesOrdered /\ AllOrNone /\ QueryReads
  BY DEF CachesInv
<1>2. UNCHANGED <<cache, store, failed>> /\ writes' \subseteq writes
  BY DEF Abandon, Crash
<1>3. IndexBacked' /\ WritesOrdered'
  BY <1>1, <1>2 DEF IndexBacked, Backed, WritesOrdered, OrderedRest
<1>4. CASE Abandon
  <2>1. lost' /\ lost' \in BOOLEAN /\ UNCHANGED <<up, query>>
    BY <1>4 DEF Abandon
  <2>2. up
    BY <1>1, <1>4 DEF CacheTypes, Abandon
  <2>3. CacheTypes' /\ AllOrNone'
    BY <1>1, <1>2, <2>1, <2>2 DEF CacheTypes, AllOrNone
  <2>4. QueryReads'
    BY <1>1, <1>2, <2>1 DEF QueryReads, Reads, ZeroCause, Fills, Grouped, Enough
  <2> QED
    BY <1>3, <2>3, <2>4 DEF CachesInv
<1>5. CASE Crash
  <2>1. up /\ up' = FALSE /\ query' = Idle /\ writes' = {}
    BY <1>5 DEF Crash
  <2>2. lost' \in BOOLEAN
    BY <1>5, Zenon DEF Crash
  <2>3. ~lost' => ~lost /\ writes = {}
    BY <1>5, Zenon DEF Crash
  <2>4. CacheTypes'
    BY <1>1, <1>2, <2>1, <2>2, DomainOfIdle DEF CacheTypes, Idle
  <2>5. AllOrNone'
    <3> SUFFICES ASSUME ~lost', failed = {}
                 PROVE  Grouped \subseteq cache \/ Grouped \intersect cache = {}
      BY <1>2, <2>1, NoWrites DEF AllOrNone, Pending, Grouped
    <3>1. ~lost /\ Pending = {}
      BY <2>3, NoWrites DEF Pending
    <3> QED
      BY <1>1, <3>1 DEF AllOrNone
  <2>6. QueryReads'
    BY <2>1 DEF QueryReads, Idle
  <2> QED
    BY <1>3, <2>4, <2>5, <2>6 DEF CachesInv
<1> QED
  BY <1>4, <1>5

LEMMA CachesStep == CachesInv /\ [Next]_vars => CachesInv'
<1> SUFFICES ASSUME CachesInv, [Next]_vars PROVE CachesInv'
  OBVIOUS
<1>1. CASE UNCHANGED vars
  BY <1>1 DEF vars, CachesInv, CacheTypes, IndexBacked, Backed, WritesOrdered, OrderedRest, AllOrNone,
       Pending, Grouped, QueryReads, Reads, ZeroCause, Fills, Enough
<1>2. CASE Start
  BY <1>2, StartStep
<1>3. CASE Ask
  BY <1>3, AskStep
<1>4. CASE Read \/ ReadFails
  BY <1>4, ReadStep
<1>5. CASE WriteFails
  BY <1>5, WriteFailsStep
<1>6. CASE Abandon \/ Crash
  BY <1>6, CutStep
<1>7. ASSUME NEW w \in writes, Write(w) PROVE CachesInv'
  BY <1>7, WriteStep
<1> QED
  BY <1>1, <1>2, <1>3, <1>4, <1>5, <1>6, <1>7 DEF Next

LEMMA CachesInvariant == Spec => []CachesInv
BY InitCaches, CachesStep, PTL DEF Spec

-----------------------------------------------------------------------------

\* Whatever the number of rows, of writers, crashes and errors, every entry of
\* an index of a service's cache (addToCache, the pipelines of main, the loops
\* over rows) leads to a hash that is in Redis, or whose write Redis refused.
THEOREM IndexesLeadToHashes == Spec => []IndexBacked
BY CachesInvariant, PTL DEF CachesInv

\* A reader that finds an absent hash and decodes it as a structure of zeros
\* is one of the operations that do not ask first, one whose key nobody writes
\* or the one whose index is not ordered with its hash, asks for what is not
\* there, or follows a refused write: no interleaving of writers, readers and
\* crashes adds another cause.
THEOREM EmptyAnswersHaveACause == Spec => []EmptyCause
<1>1. CachesInv => EmptyCause
  BY DEF CachesInv, QueryReads, ZeroCause, Special, EmptyCause
<1> QED
  BY <1>1, CachesInvariant, PTL

\* A query asked of a cache at rest and undisturbed is answered with every row
\* it should have, but for the operations that never give theirs: a cache that
\* is scanned instead of the table is complete.
THEOREM ShortAnswersHaveACause == Spec => []ShortCause
<1>1. CachesInv => ShortCause
  <2> SUFFICES ASSUME CachesInv, query.pc = "done", query.calm, query.op \notin Excused
               PROVE  query.wants \subseteq query.got
    BY DEF ShortCause, Excused
  <2>1. query.keys = {} /\ Enough(query)
    BY DEF CachesInv, QueryReads
  <2> QED
    BY <2>1 DEF Enough
<1> QED
  BY <1>1, CachesInvariant, PTL
=============================================================================
