----------------------------- MODULE CatalogCache -----------------------------
(* The pages and the items of catalog/data.go: every page has a name, a      *)
(* layout and a parent of its own, the items are those of one page, and the  *)
(* last of them is an offer of the club.  main starts both loads.            *)
EXTENDS CachePlans

PageFamilies ==
  <<"catalog_pages", "catalog_pages_by_parent", "catalog_pages_by_page_name",
    "catalog_pages_by_layout">>
LoadCatalogPages == Pipeline(PageFamilies)

\* A goroutine per item; a club offer is not added to its page.
ItemFamilies(i) ==
  IF i = NumRows
  THEN <<"catalog_items", "club_items">>
  ELSE <<"catalog_items", "catalog_items_by_page_id", "catalog_offers_by_page_id",
         "catalog_offers_id_to_item_id">>
LoadCatalogItems_NoClubOffers == {PerRow(ItemFamilies(i), i) : i \in Rows \ {NumRows}}
LoadCatalogItems == {PerRow(ItemFamilies(i), i) : i \in Rows}

\* The pipeline of the hashes is never executed: each reply is empty.
GetCatalogItemsByPage ==
  FromCache("GetCatalogItemsByPage", Rows \ {NumRows},
            Entries("not_executed", {e[2] : e \in Family("catalog_items_by_page_id")}))

\* The cache is read only if asking for the key was an error; the table is then
\* asked in SQL it refuses, and there is no answer.
GetCatalogPageByPageId(i) == FromTable("GetCatalogPageByPageId", {}, {}, {})

GetCatalogPageByName(i, err) ==
  IF ~err /\ <<"catalog_pages_by_page_name", i>> \in cache
  THEN FromCache("GetCatalogPageByName", Known(i), {<<"catalog_pages", i>>})
  ELSE FromTable("GetCatalogPageByName", {}, {}, {})

GetCatalogPageByLayout(i, err) ==
  IF ~err /\ <<"catalog_pages_by_layout", i>> \in cache
  THEN FromCache("GetCatalogPageByLayout", Known(i), {<<"catalog_pages", i>>})
  ELSE FromTable("GetCatalogPageByLayout", Known(i), Known(i),
                 IF i \in Rows THEN {LoadCatalogPages} ELSE {})

CatalogItemPlans == {GetCatalogItemsByPage}
CatalogPagePlans(err) ==
  UNION {{GetCatalogPageByPageId(i), GetCatalogPageByName(i, err),
          GetCatalogPageByLayout(i, err)} : i \in Ids}
==============================================================================
