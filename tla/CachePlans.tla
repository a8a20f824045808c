----------------------------- MODULE CachePlans -----------------------------
(***************************************************************************)
(* What the services that keep a Redis cache in front of their tables have *)
(* in common: the entries of the cache, and the plan a query follows.      *)
(*                                                                         *)
(* The tables have the rows 1..NumRows and do not change.  An entry of the *)
(* cache is <<family, row>>, family being the prefix of its key; the       *)
(* elements a service numbers from 0 are named by their row, so that the   *)
(* marker "guild_elements:0" is <<"guild_elements", 1>>.  Names are in     *)
(* one-to-one relation with ids: a key made of a name is named by its row. *)
(* A hash that is read but absent gives a structure of zero values, since  *)
(* HGETALL of an absent key is an empty map and no error: EmptyElement.    *)
(***************************************************************************)
EXTENDS Naturals, Sequences

CONSTANT NumRows   \* the rows of a table

ASSUME RowsAssumption == NumRows \in Nat \ {0}

VARIABLE cache     \* the entries that are in Redis

Rows == 1..NumRows
Ids == 1..(NumRows + 1)      \* what a caller may ask for: one id is unknown
Known(i) == Rows \intersect {i}
EmptyElement == 0

Entries(family, rows) == {<<family, i>> : i \in rows}
Family(family) == {e \in cache : e[1] = family}

(***************************************************************************)
(* A plan: the hashes to read one by one (keys), and the rows answered     *)
(* from the table when no key is to be read or none could be, with the     *)
(* command sequences (fill) that then put them in the cache.  wants names  *)
(* the rows a complete answer has.                                         *)
(***************************************************************************)
Plan(op, wants, keys, rows, fill) ==
  [op |-> op, wants |-> wants, keys |-> keys, rows |-> rows, fill |-> fill]

FromCache(op, wants, keys) == Plan(op, wants, keys, {}, {})
FromTable(op, wants, rows, fill) == Plan(op, wants, {}, rows, fill)

\* The commands of one pipeline, or of one loop: for each row in turn a write
\* to each of the families.
Pipeline(families) ==
  [n \in 1..(Len(families) * NumRows) |->
     <<families[((n - 1) % Len(families)) + 1], ((n - 1) \div Len(families)) + 1>>]

\* The commands of the goroutine started for row i.
PerRow(families, i) == [n \in DOMAIN families |-> <<families[n], i>>]
==============================================================================
