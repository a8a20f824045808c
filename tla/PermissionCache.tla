--------------------------- MODULE PermissionCache ---------------------------
(* The ranks of permission/data.go.  Redis is "in error" when err holds.  *)
EXTENDS CachePlans

\* rankFromQueryResult starts two goroutines, which nothing orders.
RankFill(rows) == {<<e>> : e \in Entries("rank", rows) \union Entries("rank_id", rows)}

\* Whatever the scan finds is taken for all there is.
GetAllRanks(err) ==
  Plan("GetAllRanks", Rows, IF err THEN {} ELSE Family("rank"), Rows, RankFill(Rows))

\* The table is asked only when Redis gives an error; an absent rank does not.
GetRank(i) ==
  Plan("GetRank", Known(i), {<<"rank", i>>}, Known(i), RankFill(Known(i)))

GetRankByName(i, err) ==
  Plan("GetRankByName", Known(i),
       IF ~err /\ <<"rank_id", i>> \in cache THEN {<<"rank", i>>} ELSE {},
       Known(i), RankFill(Known(i)))

\* One field, from the hash or from the table: the same value.  The GetRank
\* started on the way fills the cache only if it meets an error itself.
GetPermission(i, err) ==
  FromTable("GetPermission", Known(i), Known(i), IF err THEN RankFill(Known(i)) ELSE {})
GetRankLevel(i, err) ==
  FromTable("GetRankLevel", Known(i), Known(i), IF err THEN RankFill(Known(i)) ELSE {})

RankPlans(err) ==
  {GetAllRanks(err)} \union
  UNION {{GetRank(i), GetRankByName(i, err), GetPermission(i, err), GetRankLevel(i, err)} :
           i \in Ids}

\* main asks for all ranks, which is what loads them.
PermissionStart(err) == IF GetAllRanks(err).keys = {} THEN GetAllRanks(err).fill ELSE {}
==============================================================================
