---------------------------- MODULE EventDelivery ----------------------------
(***************************************************************************)
(* What one consumer group of a Redis stream promises to the services that *)
(* share it (api/events): an event the group has taken responsibility for  *)
(* is kept until every handler has been given it, or it is given up for a  *)
(* reason the service can see.  Nothing is said of how many times, by      *)
(* which process or in which order a handler is called.                    *)
(*                                                                         *)
(* RedisStream is shown to implement this specification.                   *)
(***************************************************************************)
EXTENDS Naturals

CONSTANTS
  MaxEvents,  \* how many events are ever published
  Handlers    \* the handlers a service subscribes

VARIABLES
  status,     \* status[e]: none -> kept -> settled | lost, or none -> lost
  relevant,   \* the published events some handler is meant for
  served,     \* <<e, h>>: handler h has been called for event e
  missed      \* <<e, h>>: e was dispatched by a process that lacked h

vars == <<status, relevant, served, missed>>

Events == 1..MaxEvents

Status == {"none", "kept", "settled", "lost"}

TypeOK ==
  /\ status \in [Events -> Status]
  /\ relevant \subseteq Events
  /\ served \subseteq Events \X Handlers
  /\ missed \subseteq Events \X Handlers

Init ==
  /\ status = [e \in Events |-> "none"]
  /\ relevant = {}
  /\ served = {}
  /\ missed = {}

\* An event enters the stream; it is lost at once when no group is there yet.
Publish(e) ==
  /\ status[e] = "none"
  /\ \E s \in {"kept", "lost"} : status' = [status EXCEPT ![e] = s]
  /\ \/ relevant' = relevant
     \/ relevant' = relevant \union {e}
  /\ UNCHANGED <<served, missed>>

\* A handler is called, possibly again, and possibly after another process
\* has settled the event.
Serve(e, h) ==
  /\ status[e] # "none"
  /\ served' = served \union {<<e, h>>}
  /\ UNCHANGED <<status, relevant, missed>>

\* A process dispatches the event while some handlers are not subscribed.
Miss(e, H) ==
  /\ status[e] # "none"
  /\ missed' = missed \union ({e} \X H)
  /\ UNCHANGED <<status, relevant, served>>

\* A set of events is settled: each relevant one has reached every handler.
Settle(E) ==
  /\ \A e \in E : status[e] = "kept"
  /\ \A e \in E \intersect relevant : {e} \X Handlers \subseteq served \union missed
  /\ status' = [e \in Events |-> IF e \in E THEN "settled" ELSE status[e]]
  /\ UNCHANGED <<relevant, served, missed>>

\* A set of events has outlived the stream's length and is given up.
Lose(E) ==
  /\ \A e \in E : status[e] = "kept"
  /\ status' = [e \in Events |-> IF e \in E THEN "lost" ELSE status[e]]
  /\ UNCHANGED <<relevant, served, missed>>

Next ==
  \/ \E e \in Events : Publish(e)
  \/ \E e \in Events, h \in Handlers : Serve(e, h)
  \/ \E e \in Events, H \in SUBSET Handlers : Miss(e, H)
  \/ \E E \in SUBSET Events : Settle(E) \/ Lose(E)

Spec == Init /\ [][Next]_vars

\* The promise itself, as an invariant of the abstract specification: a
\* settled event that some handler is meant for has reached every handler.
SettledWasServed ==
  \A e \in relevant, h \in Handlers :
    status[e] = "settled" => <<e, h>> \in served \union missed
==============================================================================
