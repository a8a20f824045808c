------------------------- MODULE SubscriptionDuration -------------------------
(***************************************************************************)
(* One row of users_subscriptions and its hash in Redis, while calls of    *)
(* AddDuration and SetSubscriptionActive (subscription/data.go) change     *)
(* both.  Each call reads a value from the hash or from the table, writes  *)
(* what it makes of it to the hash and then to the table; a call that      *)
(* finds no hash starts a load, a goroutine that reads the row and writes  *)
(* it to Redis.  Nothing orders the calls and the loads.                   *)
(*                                                                         *)
(* The hash is reached by its index, user_subscription_keys.  An extension *)
(* adds 1; a switch makes the subscription inactive.                       *)
(***************************************************************************)
EXTENDS Naturals, FiniteSets

CONSTANTS
  Extensions,   \* calls of AddDuration, each of which occurs once
  Switches,     \* calls of SetSubscriptionActive(false)
  BaseDuration, \* the duration the subscription had
  NoRow,        \* no value
  MaxCalls,     \* bound: calls that occur
  MaxTroubles   \* bound: errors of Redis or of the database, ends of the process

ASSUME DurationAssumption ==
  /\ IsFiniteSet(Extensions) /\ IsFiniteSet(Switches)
  /\ Extensions \intersect Switches = {}
  /\ {BaseDuration, MaxCalls, MaxTroubles} \subseteq Nat
  /\ NoRow \notin [duration : Nat, active : BOOLEAN]

VARIABLES
  row,       \* the row of the table
  hash,      \* the hash in Redis, or NoRow
  indexed,   \* is the index of the hash written?
  step,      \* step[c]: where call c is
  value,     \* value[c]: the subscription call c has read
  loads,     \* the loads in execution: [by, at, row]
  raced,     \* history: was the table updated while another call or a load
             \* held a value, did a load write while a call held one, or did
             \* a load end between the hash and its index?
  troubles   \* history: how many times a step failed

durationVars == <<row, hash, indexed, step, value, loads, raced, troubles>>

ChangeCalls == Extensions \union Switches
Subscriptions == [duration : Nat, active : BOOLEAN]

DurationInit ==
  /\ row = [duration |-> BaseDuration, active |-> TRUE]
  /\ hash = NoRow
  /\ indexed = FALSE
  /\ step = [c \in ChangeCalls |-> "new"]
  /\ value = [c \in ChangeCalls |-> NoRow]
  /\ loads = {}
  /\ raced = FALSE
  /\ troubles = 0

Goes(c, to) == step' = [step EXCEPT ![c] = to]
Begins(c) == step[c] = "new" /\ Cardinality({d \in ChangeCalls : step[d] # "new"}) < MaxCalls
Forgets(c) == value' = [value EXCEPT ![c] = NoRow]
Trouble == troubles < MaxTroubles /\ troubles' = troubles + 1
LoadOf(c, why) == [by |-> c, why |-> why, at |-> "query", row |-> NoRow]

\* The first command of GetSubscription: is there an index?  If not, or if
\* Redis gives an error, the row is read and a load started.
Look(c) ==
  /\ c \in Extensions /\ Begins(c)
  /\ \/ indexed /\ Goes(c, "hash") /\ UNCHANGED <<value, loads, troubles>>
     \/ /\ (~indexed /\ UNCHANGED troubles) \/ (indexed /\ Trouble)
        /\ value' = [value EXCEPT ![c] = row]
        /\ loads' = loads \union {LoadOf(c, "miss")}
        /\ Goes(c, "extend")
  /\ UNCHANGED <<row, hash, indexed, raced>>

\* Its last one: the hash.
ReadHash(c) ==
  /\ step[c] = "hash"
  /\ value' = [value EXCEPT ![c] = hash]
  /\ Goes(c, "extend")
  /\ UNCHANGED <<row, hash, indexed, loads, raced, troubles>>

\* What the call writes to the hash, all fields of it.
Extended(v) == [v EXCEPT !.duration = @ + 1]
Cached_AsRead(v) == v
Cached(v) == Extended(v)

\* AddDuration asks for the index again: the hash is to be written, or another
\* load is started.
Extend(c) ==
  /\ step[c] = "extend"
  /\ \/ indexed /\ Goes(c, "cache") /\ UNCHANGED <<loads, troubles>>
     \/ /\ (~indexed /\ UNCHANGED troubles) \/ (indexed /\ Trouble)
        /\ loads' = loads \union {LoadOf(c, "write")}
        /\ Goes(c, "update")
  /\ UNCHANGED <<row, hash, indexed, value, raced>>

WriteHash(c) ==
  /\ step[c] = "cache"
  /\ hash' = Cached(value[c])
  /\ Goes(c, "update")
  /\ UNCHANGED <<row, indexed, value, loads, raced, troubles>>

\* The calls that hold a value they have read, or are between their writes.
Holding == {c \in ChangeCalls : step[c] \in {"extend", "cache", "update", "switch"}}
Held(c) == Holding # {c} \/ \E l \in loads : l.at # "query"

\* UPDATE with the absolute value that was read.
Update(c) ==
  /\ step[c] = "update"
  /\ row' = [row EXCEPT !.duration = Extended(value[c]).duration]
  /\ raced' = (raced \/ Held(c))
  /\ Goes(c, "done") /\ Forgets(c)
  /\ UNCHANGED <<hash, indexed, loads, troubles>>

\* SetSubscriptionActive writes one field of the hash if there is an index, ...
Switch(c) ==
  /\ c \in Switches /\ Begins(c)
  /\ \/ indexed /\ hash' = [hash EXCEPT !.active = FALSE] /\ UNCHANGED troubles
     \/ UNCHANGED hash /\ ((~indexed /\ UNCHANGED troubles) \/ (indexed /\ Trouble))
  /\ Goes(c, "switch")
  /\ UNCHANGED <<row, indexed, value, loads, raced>>

\* ... the table, and ends with GetSubscription, which may start a load.
SwitchRow(c) ==
  /\ step[c] = "switch"
  /\ row' = [row EXCEPT !.active = FALSE]
  /\ raced' = (raced \/ Held(c))
  /\ loads' = IF indexed THEN loads ELSE loads \union {LoadOf(c, "miss")}
  /\ Goes(c, "done")
  /\ UNCHANGED <<hash, indexed, value, troubles>>

\* The database refuses the UPDATE: the call gives no subscription.
UpdateFails(c) ==
  /\ step[c] \in {"update", "switch"}
  /\ Trouble
  /\ Goes(c, "failed") /\ Forgets(c)
  /\ UNCHANGED <<row, hash, indexed, loads, raced>>

\* A load reads the row and executes its pipeline, hash first, ...
Load(l) ==
  /\ \/ /\ l.at = "query"
        /\ loads' = (loads \ {l}) \union {[l EXCEPT !.at = "hash", !.row = row]}
        /\ UNCHANGED <<hash, indexed, raced>>
     \/ /\ l.at = "hash"
        /\ hash' = l.row
        /\ loads' = (loads \ {l}) \union {[l EXCEPT !.at = "index", !.row = NoRow]}
        /\ raced' = (raced \/ Holding # {})
        /\ UNCHANGED indexed
     \/ /\ l.at = "index"
        /\ indexed' = TRUE
        /\ loads' = loads \ {l}
        /\ raced' = (raced \/ Holding # {})
        /\ UNCHANGED hash
  /\ UNCHANGED <<row, step, value, troubles>>

\* ... unless the request that started it has been answered: its context ends.
LoadEnds(l) ==
  /\ step[l.by] \in {"done", "failed"}
  /\ loads' = loads \ {l}
  /\ raced' = (raced \/ l.at = "index")
  /\ UNCHANGED <<row, hash, indexed, step, value, troubles>>

\* The process ends: its calls fail, its loads are gone.
DurationCrash ==
  /\ Trouble
  /\ step' = [c \in ChangeCalls |-> IF step[c] \in {"new", "done"} THEN step[c] ELSE "failed"]
  /\ value' = [c \in ChangeCalls |-> NoRow]
  /\ loads' = {}
  /\ UNCHANGED <<row, hash, indexed, raced>>

DurationNext ==
  \/ \E c \in ChangeCalls :
       \/ Look(c) \/ ReadHash(c) \/ Extend(c) \/ WriteHash(c) \/ Update(c)
       \/ Switch(c) \/ SwitchRow(c) \/ UpdateFails(c)
  \/ \E l \in loads : Load(l) \/ LoadEnds(l)
  \/ DurationCrash

DurationSpec == DurationInit /\ [][DurationNext]_durationVars

-----------------------------------------------------------------------------

Extensions_done == {c \in Extensions : step[c] = "done"}
AtRest == loads = {} /\ \A c \in ChangeCalls : step[c] \in {"new", "done", "failed"}

\* An extension that was reported is lost, or the hash departs from the table,
\* only if an UPDATE was made while another call or a load held a value, a load
\* wrote to Redis while a call did, a load was cut short, or a step failed.
DriftCause ==
  AtRest /\ ~raced /\ troubles = 0 =>
    /\ row.duration = BaseDuration + Cardinality(Extensions_done)
    /\ hash \in {NoRow, row}
==============================================================================
