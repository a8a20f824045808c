----------------------------- MODULE ServiceStart -----------------------------
(***************************************************************************)
(* The start of a service: main of each, up to the point where it serves.  *)
(* main goes through its steps while goroutines it has started take steps  *)
(* of their own; the service registers itself in one of them, and from     *)
(* then on networking publishes packets for it, whether it is ready or     *)
(* not.  Logins are published by player whoever listens.                   *)
(*                                                                         *)
(* The groups of both streams are created at their end and survive the     *)
(* process.  Of an event only matters whether its handlers are subscribed  *)
(* when it is read; batches are the business of RedisStream, and what main *)
(* loads into the caches that of ServiceCaches.                            *)
(***************************************************************************)
EXTENDS Naturals, Sequences

CONSTANTS
  MaxEvents,       \* bound: events published
  MaxStartFaults   \* bound: refused registrations, and ends from outside

ASSUME StartAssumption == {MaxEvents, MaxStartFaults} \subseteq Nat

VARIABLES
  starting,    \* the service
  position,    \* the next step of its main, or 0 if the process does not run
  spawned,     \* the steps of goroutines that are still to be taken
  executed,    \* the steps this process has taken
  groups,      \* the kinds of events whose group exists
  announced,   \* has networking been told of the service?
  unread,      \* the events the groups have not handed out: [kind, n, when]
  published,   \* how many events there were
  dropped,     \* history: the events that no handler was called for
  overtaken,   \* was the process ended by its registration, for that came first?
  startFaults

startVars == <<starting, position, spawned, executed, groups, announced, unread, published, dropped,
               overtaken, startFaults>>

-----------------------------------------------------------------------------
(* The mains. *)

Do(step) == [step |-> step, go |-> FALSE]
Go(step) == [step |-> step, go |-> TRUE]

\* The client of player is a variable of the package: its group is created before
\* main begins.
PlayerClient == <<Do("login_group")>>

\* What the services that handle packets do alike: NetPub, which the goroutine of
\* the registration reads, is assigned after that one was started.
Connect_HandlersFirst ==
  <<Do("packets"), Do("packet_handlers"), Go("register"), Do("publisher"), Go("net")>>
Connect == <<Go("register"), Do("publisher"), Go("net"), Do("packets")>>

\* Login handlers are subscribed before the client of player listens.
FollowLogins_ListenFirst == <<Go("logins"), Do("login_handlers")>>
FollowLogins == <<Do("login_handlers"), Go("logins")>>

AchievementsMain == PlayerClient \o Connect \o <<Do("packet_handlers")>> \o FollowLogins \o <<Do("serve")>>
FriendsMain == PlayerClient \o Connect \o <<Do("packet_handlers")>> \o FollowLogins \o <<Do("serve")>>
SubscriptionMain == PlayerClient \o Connect \o <<Do("packet_handlers")>> \o FollowLogins \o <<Do("serve")>>
ModtoolMain == PlayerClient \o <<Go("net")>> \o FollowLogins \o <<Do("serve")>>
\* These listen to logins, and subscribe no handler of them.
PermissionMain == PlayerClient \o Connect \o <<Go("logins"), Do("packet_handlers"), Do("serve")>>
CatalogMain == PlayerClient \o <<Go("logins")>> \o Connect \o <<Do("packet_handlers"), Do("serve")>>
GuildsMain == Connect \o <<Do("packet_handlers"), Do("serve")>>
\* player: the loop of the log-in subscribes the handlers when it begins.
PlayerMain ==
  <<Do("publisher"), Go("register"), Go("net"), Do("packets"), Go("packet_handlers"), Do("serve")>>

Mains ==
  [achievements |-> AchievementsMain, friends |-> FriendsMain, subscription |-> SubscriptionMain,
   modtool |-> ModtoolMain, permission |-> PermissionMain, catalog |-> CatalogMain,
   guilds |-> GuildsMain, player |-> PlayerMain]

Main == Mains[starting]
Has(step) == \E k \in 1..Len(Main) : Main[k].step = step

StartInit ==
  /\ starting \in DOMAIN Mains
  /\ position = 0
  /\ spawned = {} /\ executed = {} /\ groups = {}
  /\ announced = FALSE
  /\ unread = {} /\ published = 0 /\ dropped = {}
  /\ overtaken = FALSE
  /\ startFaults = 0

-----------------------------------------------------------------------------
(* The process. *)

HandlersOf(kind) == IF kind = "packet" THEN "packet_handlers" ELSE "login_handlers"
Subscribed(kind) == (IF kind = "packet" THEN "subscribe" ELSE "login_handlers") \in executed
ReaderOf(kind) == IF kind = "packet" THEN "packet_reader" ELSE "logins"

\* Begins, or is restarted.
Begin ==
  /\ position = 0
  /\ position' = 1
  /\ overtaken' = FALSE
  /\ UNCHANGED <<starting, spawned, executed, groups, announced, unread, published, dropped, startFaults>>

\* RegisterRedisHandler waits for the loop of Net.Listen, which subscribes what it
\* is handed; SetRedisSubscriber starts a goroutine that reads.
CanTake(step) == step = "packet_handlers" => "net" \in executed

Starts(step) ==
  CASE step = "packet_handlers" -> {"subscribe"}
    [] step = "packets" -> {"packet_reader"}
    [] OTHER -> {}

\* The groups are created by SetRedisSubscriber, and with the client of player.
Take(step, waiting) ==
  /\ CanTake(step)
  /\ executed' = executed \union {step}
  /\ groups' = groups \union (CASE step = "packets" -> {"packet"}
                                [] step = "login_group" -> {"login"}
                                [] OTHER -> {})
  /\ spawned' = waiting \union Starts(step)

\* The next step of main is taken, or started as a goroutine.
MainStep ==
  /\ position \in 1..Len(Main)
  /\ position' = position + 1
  /\ LET s == Main[position]
     IN IF s.go THEN spawned' = spawned \union {s.step} /\ UNCHANGED <<executed, groups>>
        ELSE Take(s.step, spawned)
  /\ UNCHANGED <<starting, announced, unread, published, dropped, overtaken, startFaults>>

\* A goroutine takes its step.
GoroutineStep ==
  /\ \E step \in spawned \ {"register", "call"} : Take(step, spawned \ {step})
  /\ UNCHANGED <<starting, position, announced, unread, published, dropped, overtaken, startFaults>>

\* The events are read again by the next process, which has to get ready first.
ProcessEnds ==
  /\ position' = 0
  /\ spawned' = {} /\ executed' = {}
  /\ unread' = {[e EXCEPT !.when = "starting"] : e \in unread}
  /\ UNCHANGED <<starting, groups, announced, published, dropped>>

\* The registration reads NetPub; it may be nil still, and the process ends.
Register ==
  /\ "register" \in spawned
  /\ IF "publisher" \in executed
     THEN /\ spawned' = (spawned \ {"register"}) \union {"call"}
          /\ UNCHANGED <<starting, position, executed, groups, announced, unread, published, dropped,
                         overtaken>>
     ELSE ProcessEnds /\ overtaken' = TRUE
  /\ UNCHANGED startFaults

\* RegisterService succeeds, ...
Announce ==
  /\ "call" \in spawned
  /\ spawned' = spawned \ {"call"}
  /\ announced' = TRUE
  /\ UNCHANGED <<starting, position, executed, groups, unread, published, dropped, overtaken, startFaults>>

StartFault == startFaults < MaxStartFaults /\ startFaults' = startFaults + 1

\* ... or fails, and its result, which is missing, is dereferenced.
AnnounceFails ==
  /\ "call" \in spawned
  /\ StartFault
  /\ ProcessEnds
  /\ UNCHANGED overtaken

StartCrash ==
  /\ position > 0
  /\ StartFault
  /\ ProcessEnds
  /\ UNCHANGED overtaken

-----------------------------------------------------------------------------
(* The events. *)

\* What an event meets: no group, one that nobody is ready for, or a process
\* that has subscribed its handlers.
Met(kind) ==
  CASE kind \notin groups -> "early"
    [] Subscribed(kind) -> "ready"
    [] OTHER -> "starting"

\* A login, or a packet for a service that networking knows.
Arrive(kind) ==
  /\ published < MaxEvents
  /\ Has(HandlersOf(kind))
  /\ kind = "packet" => announced
  /\ published' = published + 1
  /\ LET event == [kind |-> kind, n |-> published, when |-> Met(kind)]
     IN IF event.when = "early"
        THEN dropped' = dropped \union {event} /\ UNCHANGED unread
        ELSE unread' = unread \union {event} /\ UNCHANGED dropped
  /\ UNCHANGED <<starting, position, spawned, executed, groups, announced, overtaken, startFaults>>

\* An event is read, and acknowledged whether it has a handler or not.
ReadEvent(e) ==
  /\ ReaderOf(e.kind) \in executed
  /\ unread' = unread \ {e}
  /\ dropped' = IF Subscribed(e.kind) THEN dropped ELSE dropped \union {e}
  /\ UNCHANGED <<starting, position, spawned, executed, groups, announced, published, overtaken, startFaults>>

StartWorks ==
  Begin \/ MainStep \/ GoroutineStep \/ Register \/ Announce \/ (\E e \in unread : ReadEvent(e))

StartNext ==
  \/ StartWorks \/ AnnounceFails \/ StartCrash
  \/ \E kind \in {"packet", "login"} : Arrive(kind)

StartSpec == StartInit /\ [][StartNext]_startVars /\ WF_startVars(StartWorks)

-----------------------------------------------------------------------------

\* No login that is published once a service exists is ever read without its
\* handlers, however main and its goroutines interleave and wherever the process
\* is ended.  A packet is lost only if networking was told of the service before
\* the group was created, or if it was read by a process that is still starting.
DroppedCause ==
  \A e \in dropped : e.when = "early" \/ (e.kind = "packet" /\ e.when = "starting")

\* In the end a service has got through its main, is known to networking and has
\* read its events; or else its registration overtakes its main, and ends it, time
\* after time, which player alone is safe from.
Serves ==
  /\ position > Len(Main) /\ spawned = {} /\ unread = {}
  /\ Has("register") => announced
EventuallyServes == <>[]Serves \/ (starting # "player" /\ []<>overtaken)
==============================================================================
