------------------------------ MODULE ItemsCache ------------------------------
(* The base items of items/data.go.  main starts the load. *)
EXTENDS CachePlans

LoadBaseItems == Pipeline(<<"items_base", "items_base_id_by_name">>)

\* The index is read again after the check; both are single keys.
ThroughKey_Unchecked(op, index, i, err) ==
  IF err THEN FromTable(op, Known(i), Known(i), {})
  ELSE FromCache(op, Known(i), {<<"items_base", i>>})
ThroughKey(op, index, i, err) ==
  IF ~err /\ <<index, i>> \in cache
  THEN FromCache(op, Known(i), {<<"items_base", i>>})
  ELSE FromTable(op, Known(i), Known(i), {})

GetItemById(i, err) == ThroughKey("GetItemById", "items_base", i, err)
GetItemByName(i, err) == ThroughKey("GetItemByName", "items_base_id_by_name", i, err)

\* The list is read from the cache alone, and nothing is checked.
GetItemByIds == FromCache("GetItemByIds", Rows, Entries("items_base", Ids))

\* The marker asked for is item 0, and ids start at 1: the table answers, and
\* the cache is written again, every time.
GetItems(err) ==
  IF ~err /\ <<"items_base", 0>> \in cache
  THEN FromCache("GetItems", Rows, Family("items_base"))
  ELSE FromTable("GetItems", Rows, Rows, {LoadBaseItems})

ItemsPlans(err) ==
  {GetItemByIds, GetItems(err)} \union
  UNION {{GetItemById(i, err), GetItemByName(i, err)} : i \in Ids}
==============================================================================
