---------------------------- MODULE ServicesProofs ----------------------------
(***************************************************************************)
(* Proofs about what MCServices checks in one run: how main starts the     *)
(* parts of a service, the changes of a subscription, the requests of a    *)
(* client that the services answer, the times of its club, and the packets *)
(* it is sent.                                                             *)
(***************************************************************************)
EXTENDS ServiceStart, UserRequests, SubscriptionDuration, ClubTimes, ReplyReading,
        SequenceTheorems, FiniteSetTheorems, WellFoundedInduction, TLAPS

-----------------------------------------------------------------------------
(* The start of a service *)

StepNames == {"login_group", "register", "publisher", "net", "packets", "packet_handlers",
              "login_handlers", "logins", "serve"}
MainSteps == [step : StepNames, go : BOOLEAN]
Lacks(main, x) == \A k \in 1..Len(main) : main[k].step # x

\* Where main has both, the handlers of the logins are subscribed before anything
\* reads a login.
LoginsFollowHandlers(main) ==
  \A k \in 1..Len(main) :
    main[k].step = "logins" /\ ~Lacks(main, "login_handlers") =>
      \E j \in 1..k-1 : main[j] = Do("login_handlers")

LEMMA LacksBoth ==
  ASSUME NEW s \in Seq(MainSteps), NEW t \in Seq(MainSteps)
  PROVE  /\ s \o t \in Seq(MainSteps)
         /\ \A x : Lacks(s, x) /\ Lacks(t, x) => Lacks(s \o t, x)
BY ConcatProperties DEF Lacks

LEMMA OneStep ==
  ASSUME NEW x \in StepNames
  PROVE  /\ <<Do(x)>> \in Seq(MainSteps) /\ <<Go(x)>> \in Seq(MainSteps)
         /\ \A y : x # y => Lacks(<<Do(x)>>, y) /\ Lacks(<<Go(x)>>, y)
BY DEF Do, Go, MainSteps, Lacks

LEMMA PartsOfMains ==
  /\ PlayerClient \in Seq(MainSteps) /\ Lacks(PlayerClient, "logins") /\ Lacks(PlayerClient, "login_handlers")
  /\ Connect \in Seq(MainSteps) /\ Lacks(Connect, "logins") /\ Lacks(Connect, "login_handlers")
  /\ FollowLogins \in Seq(MainSteps) /\ Len(FollowLogins) = 2
  /\ FollowLogins[1] = Do("login_handlers") /\ FollowLogins[2] = Go("logins")
BY DEF PlayerClient, Connect, FollowLogins, Do, Go, MainSteps, StepNames, Lacks

\* What is before FollowLogins in a main, it, and what is after it.
Around(main, s, t) ==
  /\ main \in Seq(MainSteps) /\ Len(main) = Len(s) + 2 + Len(t)
  /\ \A k \in 1..Len(s) : main[k] = s[k]
  /\ \A k \in 1..2 : main[Len(s) + k] = FollowLogins[k]
  /\ \A k \in 1..Len(t) : main[Len(s) + 2 + k] = t[k]

LEMMA AroundLogins ==
  ASSUME NEW s \in Seq(MainSteps), NEW t \in Seq(MainSteps)
  PROVE  Around(s \o FollowLogins \o t, s, t)
<1> DEFINE u == s \o FollowLogins
<1>0. FollowLogins \in Seq(MainSteps) /\ Len(FollowLogins) = 2
  BY PartsOfMains
<1>1. u \in Seq(MainSteps) /\ Len(u) = Len(s) + Len(FollowLogins)
  BY <1>0, ConcatProperties
<1>2. \A k \in 1..Len(s) + Len(FollowLogins) : u[k] = IF k <= Len(s) THEN s[k] ELSE FollowLogins[k - Len(s)]
  BY <1>0, ConcatProperties
<1> HIDE DEF u
<1>3. u \o t \in Seq(MainSteps) /\ Len(u \o t) = Len(u) + Len(t)
  BY <1>1, ConcatProperties
<1>4. \A k \in 1..Len(u) + Len(t) : (u \o t)[k] = IF k <= Len(u) THEN u[k] ELSE t[k - Len(u)]
  BY <1>1, ConcatProperties
<1>5. Len(s) \in Nat /\ Len(t) \in Nat
  OBVIOUS
<1>6. Len(u) = Len(s) + 2 /\ Len(u \o t) = Len(s) + 2 + Len(t)
  BY <1>0, <1>1, <1>3, <1>5
<1>7. \A k \in 1..Len(s) : (u \o t)[k] = s[k]
  BY <1>0, <1>1, <1>2, <1>4, <1>5, <1>6
<1>8. \A k \in 1..2 : (u \o t)[Len(s) + k] = FollowLogins[k]
  BY <1>0, <1>1, <1>2, <1>4, <1>5, <1>6
<1>9. \A k \in 1..Len(t) : (u \o t)[Len(s) + 2 + k] = t[k]
  BY <1>1, <1>4, <1>5, <1>6
<1> QED
  BY <1>3, <1>6, <1>7, <1>8, <1>9 DEF u, Around

\* A main that subscribes handlers of logins, ...
LEMMA FollowsLogins ==
  ASSUME NEW s \in Seq(MainSteps), NEW t \in Seq(MainSteps), Lacks(s, "logins"), Lacks(t, "logins")
  PROVE  s \o FollowLogins \o t \in Seq(MainSteps) /\ LoginsFollowHandlers(s \o FollowLogins \o t)
<1> DEFINE main == s \o FollowLogins \o t
<1>1. Around(main, s, t)
  BY AroundLogins
<1> HIDE DEF main
<1>2. Len(s) \in Nat /\ Len(t) \in Nat
  OBVIOUS
<1>3. main[Len(s) + 1] = Do("login_handlers")
  BY <1>1, PartsOfMains DEF Around
<1>4. ASSUME NEW k \in 1..Len(main), main[k].step = "logins"
      PROVE  \E j \in 1..k-1 : main[j] = Do("login_handlers")
  <2>1. k # Len(s) + 1
    BY <1>3, <1>4 DEF Do
  <2>2. ~(k <= Len(s))
    BY <1>1, <1>2, <1>4 DEF Lacks, Around
  <2>3. Len(s) + 1 \in 1..k-1
    BY <2>1, <2>2, <1>1, <1>2 DEF Around
  <2> QED
    BY <2>3, <1>3
<1> QED
  BY <1>1, <1>4 DEF LoginsFollowHandlers, Around, main

\* ... and one that does not.
LEMMA IgnoresLogins ==
  ASSUME NEW main \in Seq(MainSteps), Lacks(main, "login_handlers")
  PROVE  LoginsFollowHandlers(main)
BY DEF LoginsFollowHandlers

LEMMA MainsAreOrdered ==
  ASSUME NEW s \in DOMAIN Mains
  PROVE  Mains[s] \in Seq(MainSteps) /\ LoginsFollowHandlers(Mains[s])
<1>. DEFINE Before == PlayerClient \o Connect \o <<Do("packet_handlers")>>
<1>1. Before \in Seq(MainSteps) /\ Lacks(Before, "logins")
  <2>1. PlayerClient \o Connect \in Seq(MainSteps) /\ Lacks(PlayerClient \o Connect, "logins")
    BY PartsOfMains, LacksBoth
  <2>2. <<Do("packet_handlers")>> \in Seq(MainSteps) /\ Lacks(<<Do("packet_handlers")>>, "logins")
    BY OneStep DEF StepNames
  <2> QED
    BY <2>1, <2>2, LacksBoth
<1>2. <<Do("serve")>> \in Seq(MainSteps) /\ Lacks(<<Do("serve")>>, "logins")
  BY OneStep DEF StepNames
<1>3. CASE s \in {"achievements", "friends", "subscription"}
  <2>1. Mains[s] = Before \o FollowLogins \o <<Do("serve")>>
    <3>1. \/ Mains[s] = AchievementsMain
          \/ Mains[s] = FriendsMain
          \/ Mains[s] = SubscriptionMain
      BY <1>3 DEF Mains
    <3> QED
      BY <3>1, Zenon DEF AchievementsMain, FriendsMain, SubscriptionMain
  <2> QED
    BY <1>1, <1>2, <2>1, FollowsLogins
<1>4. CASE s = "modtool"
  <2> DEFINE Net == PlayerClient \o <<Go("net")>>
  <2>1. <<Go("net")>> \in Seq(MainSteps) /\ Lacks(<<Go("net")>>, "logins")
    BY OneStep DEF StepNames
  <2>2. Net \in Seq(MainSteps) /\ Lacks(Net, "logins")
    BY <2>1, PartsOfMains, LacksBoth
  <2>3. Mains[s] = Net \o FollowLogins \o <<Do("serve")>>
    BY <1>4 DEF Mains, ModtoolMain
  <2> QED
    BY <1>2, <2>2, <2>3, FollowsLogins
<1>5. CASE s = "permission"
  <2>1. PlayerClient \o Connect \in Seq(MainSteps) /\ Lacks(PlayerClient \o Connect, "login_handlers")
    BY PartsOfMains, LacksBoth
  <2> DEFINE Ending == <<Go("logins"), Do("packet_handlers"), Do("serve")>>
  <2>2. Ending \in Seq(MainSteps) /\ Lacks(Ending, "login_handlers")
    BY DEF Do, Go, MainSteps, StepNames, Lacks
  <2>3. Mains[s] = PlayerClient \o Connect \o Ending
    BY <1>5 DEF Mains, PermissionMain
  <2> QED
    BY <2>1, <2>2, <2>3, LacksBoth, IgnoresLogins
<1>6. CASE s = "catalog"
  <2>1. <<Go("logins")>> \in Seq(MainSteps) /\ Lacks(<<Go("logins")>>, "login_handlers")
    BY OneStep DEF StepNames
  <2>2. PlayerClient \o <<Go("logins")>> \in Seq(MainSteps)
        /\ Lacks(PlayerClient \o <<Go("logins")>>, "login_handlers")
    BY <2>1, PartsOfMains, LacksBoth
  <2>3. PlayerClient \o <<Go("logins")>> \o Connect \in Seq(MainSteps)
        /\ Lacks(PlayerClient \o <<Go("logins")>> \o Connect, "login_handlers")
    BY <2>2, PartsOfMains, LacksBoth
  <2> DEFINE Ending == <<Do("packet_handlers"), Do("serve")>>
  <2>4. Ending \in Seq(MainSteps) /\ Lacks(Ending, "login_handlers")
    BY DEF Do, MainSteps, StepNames, Lacks
  <2>5. Mains[s] = PlayerClient \o <<Go("logins")>> \o Connect \o Ending
    BY <1>6 DEF Mains, CatalogMain
  <2> QED
    BY <2>3, <2>4, <2>5, LacksBoth, IgnoresLogins
<1>7. CASE s = "guilds"
  <2> DEFINE Ending == <<Do("packet_handlers"), Do("serve")>>
  <2>1. Ending \in Seq(MainSteps) /\ Lacks(Ending, "login_handlers")
    BY DEF Do, MainSteps, StepNames, Lacks
  <2>2. Mains[s] = Connect \o Ending
    BY <1>7 DEF Mains, GuildsMain
  <2> QED
    BY <2>1, <2>2, PartsOfMains, LacksBoth, IgnoresLogins
<1>8. CASE s = "player"
  <2>1. PlayerMain \in Seq(MainSteps) /\ Lacks(PlayerMain, "login_handlers")
    BY DEF PlayerMain, Do, Go, MainSteps, StepNames, Lacks
  <2>2. Mains[s] = PlayerMain
    BY <1>8 DEF Mains
  <2> QED
    BY <2>1, <2>2, IgnoresLogins
<1> QED
  BY <1>3, <1>4, <1>5, <1>6, <1>7, <1>8 DEF Mains

\* What holds of the steps of main, ...
StartOrder ==
  /\ starting \in DOMAIN Mains /\ position \in Nat
  /\ \A k \in 1..Len(Main) : k < position /\ ~Main[k].go => Main[k].step \in executed
  /\ Has("login_handlers") /\ "logins" \in spawned \union executed => "login_handlers" \in executed

\* ... of the events that wait, and of those that were dropped.
StartEvents ==
  /\ \A e \in unread :
       /\ e.kind \in {"packet", "login"} /\ e.when \in {"ready", "starting"}
       /\ e.when = "ready" => Subscribed(e.kind)
       /\ e.kind = "login" => Has("login_handlers")
  /\ DroppedCause

StartInv == StartOrder /\ StartEvents

LEMMA TakeKeepsOrder ==
  ASSUME NEW part, NEW waiting, Take(part, waiting), starting' = starting, StartOrder,
         waiting \subseteq spawned,
         part = "logins" /\ Has("login_handlers") => "login_handlers" \in executed
  PROVE  /\ executed \subseteq executed'
         /\ part \in executed'
         /\ Has("login_handlers")' /\ "logins" \in (spawned \union executed)' => "login_handlers" \in executed'
<1>1. executed' = executed \union {part} /\ spawned' = waiting \union Starts(part)
  BY DEF Take
<1>2. "logins" \notin Starts(part)
  BY DEF Starts
<1>3. Has("login_handlers")' = Has("login_handlers")
  BY DEF Has, Main
<1> QED
  BY <1>1, <1>2, <1>3 DEF StartOrder

LEMMA StartOrderStep == StartOrder /\ [StartNext]_startVars => StartOrder'
<1> SUFFICES ASSUME StartOrder, [StartNext]_startVars PROVE StartOrder'
  OBVIOUS
<1>0. Main \in Seq(MainSteps) /\ LoginsFollowHandlers(Main)
  BY MainsAreOrdered DEF StartOrder, Main
<1>1. CASE Begin
  BY <1>1 DEF Begin, StartOrder, Has, Main
<1>2. CASE MainStep
  <2> DEFINE s == Main[position]
  <2>1. position \in 1..Len(Main) /\ position' = position + 1 /\ starting' = starting
    BY <1>2 DEF MainStep
  <2>2. s.step = "logins" /\ Has("login_handlers") => "login_handlers" \in executed
    <3> SUFFICES ASSUME s.step = "logins", Has("login_handlers") PROVE "login_handlers" \in executed
      OBVIOUS
    <3>1. PICK j \in 1..position-1 : Main[j] = Do("login_handlers")
      BY <1>0, <2>1 DEF LoginsFollowHandlers, Has, Lacks
    <3>2. j \in 1..Len(Main) /\ j < position /\ ~Main[j].go /\ Main[j].step = "login_handlers"
      BY <1>0, <2>1, <3>1 DEF Do
    <3> QED
      BY <3>2 DEF StartOrder
  <2>3. CASE s.go
    BY <1>2, <2>1, <2>2, <2>3 DEF MainStep, StartOrder, Has, Main
  <2>4. CASE ~s.go
    <3>1. Take(s.step, spawned)
      BY <1>2, <2>4 DEF MainStep
    <3>2. /\ executed \subseteq executed' /\ s.step \in executed'
          /\ Has("login_handlers")' /\ "logins" \in (spawned \union executed)' => "login_handlers" \in executed'
      BY <2>1, <2>2, <3>1, TakeKeepsOrder
    <3>3. ASSUME NEW k \in 1..Len(Main), k < position', ~Main[k].go PROVE Main[k].step \in executed'
      <4>1. k < position \/ k = position
        BY <2>1, <3>3 DEF StartOrder
      <4> QED
        BY <3>2, <3>3, <4>1 DEF StartOrder
    <3> QED
      BY <2>1, <3>2, <3>3 DEF StartOrder, Main
  <2> QED
    BY <2>3, <2>4
<1>3. CASE GoroutineStep
  <2>1. PICK part \in spawned \ {"register", "call"} : Take(part, spawned \ {part})
    BY <1>3 DEF GoroutineStep
  <2>2. /\ executed \subseteq executed'
        /\ Has("login_handlers")' /\ "logins" \in (spawned \union executed)' => "login_handlers" \in executed'
    BY <1>3, <2>1, TakeKeepsOrder DEF GoroutineStep, StartOrder
  <2> QED
    BY <1>3, <2>2 DEF GoroutineStep, StartOrder, Main
<1>4. CASE Register
  <2>1. CASE "publisher" \in executed
    BY <1>4, <2>1 DEF Register, StartOrder, Has, Main
  <2>2. CASE "publisher" \notin executed
    BY <1>0, <1>4, <2>2 DEF Register, ProcessEnds, StartOrder, Has, Main
  <2> QED
    BY <2>1, <2>2
<1>5. CASE Announce
  BY <1>5 DEF Announce, StartOrder, Has, Main
<1>6. CASE AnnounceFails \/ StartCrash
  BY <1>0, <1>6 DEF AnnounceFails, StartCrash, ProcessEnds, StartOrder, Has, Main
<1>7. ASSUME NEW e \in unread, ReadEvent(e) PROVE StartOrder'
  BY <1>7 DEF ReadEvent, StartOrder, Has, Main
<1>8. ASSUME NEW kind \in {"packet", "login"}, Arrive(kind) PROVE StartOrder'
  BY <1>8 DEF Arrive, StartOrder, Has, Main
<1>9. CASE UNCHANGED startVars
  BY <1>9 DEF startVars, StartOrder, Has, Main
<1> QED
  BY <1>1, <1>2, <1>3, <1>4, <1>5, <1>6, <1>7, <1>8, <1>9 DEF StartNext, StartWorks

LEMMA StartEventsStep == StartOrder /\ StartEvents /\ [StartNext]_startVars => StartEvents'
<1> SUFFICES ASSUME StartOrder, StartEvents, [StartNext]_startVars PROVE StartEvents'
  OBVIOUS
\* A step that leaves the events alone, and ends no process.
<1>1. ASSUME executed \subseteq executed', UNCHANGED <<starting, unread, dropped>> PROVE StartEvents'
  BY <1>1 DEF StartEvents, DroppedCause, Subscribed, Has, Main
<1>2. ASSUME ProcessEnds PROVE StartEvents'
  <2>1. ASSUME NEW e \in unread'
        PROVE  e.kind \in {"packet", "login"} /\ e.when = "starting" /\ (e.kind = "login" => Has("login_handlers")')
    <3>1. PICK f \in unread : e = [f EXCEPT !.when = "starting"]
      BY <1>2, <2>1 DEF ProcessEnds
    <3> QED
      BY <1>2, <3>1 DEF ProcessEnds, StartEvents, Has, Main
  <2> QED
    BY <1>2, <2>1 DEF ProcessEnds, StartEvents, DroppedCause
<1>3. CASE Begin
  BY <1>1, <1>3 DEF Begin
<1>4. CASE MainStep
  BY <1>1, <1>4 DEF MainStep, Take
<1>5. CASE GoroutineStep
  BY <1>1, <1>5 DEF GoroutineStep, Take
<1>6. CASE Register
  BY <1>1, <1>2, <1>6 DEF Register
<1>7. CASE Announce
  BY <1>1, <1>7 DEF Announce
<1>8. CASE AnnounceFails \/ StartCrash
  BY <1>2, <1>8 DEF AnnounceFails, StartCrash
<1>9. ASSUME NEW e \in unread, ReadEvent(e) PROVE StartEvents'
  <2>1. ~Subscribed(e.kind) => e.kind = "packet" /\ e.when = "starting"
    BY <1>9 DEF ReadEvent, ReaderOf, Subscribed, StartEvents, StartOrder
  <2>2. /\ unread' \subseteq unread /\ dropped' \subseteq dropped \union {e}
        /\ e \in dropped' => e \in dropped \/ ~Subscribed(e.kind)
        /\ UNCHANGED <<starting, executed>>
    BY <1>9 DEF ReadEvent
  <2> QED
    BY <2>1, <2>2 DEF StartEvents, DroppedCause, Subscribed, Has, Main
<1>10. ASSUME NEW kind \in {"packet", "login"}, Arrive(kind) PROVE StartEvents'
  <2> DEFINE event == [kind |-> kind, n |-> published, when |-> Met(kind)]
  <2>1. /\ Met(kind) \in {"early", "ready", "starting"}
        /\ Met(kind) = "ready" => Subscribed(kind)
    BY DEF Met
  <2>2. Has(HandlersOf(kind)) /\ UNCHANGED <<starting, executed>>
    BY <1>10 DEF Arrive
  <2>3. \/ Met(kind) = "early" /\ dropped' = dropped \union {event} /\ UNCHANGED unread
        \/ Met(kind) # "early" /\ unread' = unread \union {event} /\ UNCHANGED dropped
    BY <1>10 DEF Arrive
  <2>4. kind = "login" => Has("login_handlers")
    BY <2>2 DEF HandlersOf
  <2> QED
    BY <2>1, <2>2, <2>3, <2>4 DEF StartEvents, DroppedCause, Subscribed, Has, Main
<1>11. CASE UNCHANGED startVars
  BY <1>1, <1>11 DEF startVars
<1> QED
  BY <1>3, <1>4, <1>5, <1>6, <1>7, <1>8, <1>9, <1>10, <1>11 DEF StartNext, StartWorks

\* DroppedCause of ServiceStart: for all eight mains, no login that met a group is
\* read without its handlers, and a packet only by a process that is starting.
THEOREM LoginsAreNotDropped == StartSpec => []DroppedCause
<1>1. StartInit => StartInv
  BY DEF StartInit, StartInv, StartOrder, StartEvents, DroppedCause, Has, Main
<1>2. StartInv /\ [StartNext]_startVars => StartInv'
  BY StartOrderStep, StartEventsStep DEF StartInv
<1>3. StartInv => DroppedCause
  BY DEF StartInv, StartEvents
<1> QED
  BY <1>1, <1>2, <1>3, PTL DEF StartSpec

-----------------------------------------------------------------------------
(* Changes of a subscription *)

CallSteps == {"new", "hash", "extend", "cache", "update", "switch", "done", "failed"}
Loads ==
  [by : ChangeCalls, why : {"miss", "write"}, at : {"query", "hash", "index"},
   row : Subscriptions \union {NoRow}]
LoadAt(where) == \E l \in loads : l.at = where

DurationTypes ==
  /\ row \in Subscriptions /\ hash \in Subscriptions \union {NoRow}
  /\ indexed \in BOOLEAN /\ raced \in BOOLEAN /\ troubles \in Nat
  /\ step \in [ChangeCalls -> CallSteps]
  /\ value \in [ChangeCalls -> Subscriptions \union {NoRow}]
  /\ loads \subseteq Loads

\* Whoever holds a value has one: an index that is there leads to a hash.
DurationHolds ==
  /\ indexed \/ LoadAt("index") => hash # NoRow
  /\ \A l \in loads : l.at = "hash" => l.row # NoRow
  /\ \A c \in ChangeCalls :
       /\ step[c] \in {"hash", "extend", "cache", "update"} => c \in Extensions
       /\ step[c] \in {"hash", "cache"} => indexed
       /\ step[c] = "switch" => c \in Switches
       /\ step[c] \in {"extend", "cache", "update"} => value[c] # NoRow

\* As long as nothing has raced or failed: what the only call that holds a value
\* knows of the row, and what is in the hash at each of its steps.  A second call
\* makes no claim, for the first of them to update races.
HashIsRow == hash \in {NoRow, row}
Alone(c) ==
  /\ step[c] \in {"extend", "cache", "update"} => value[c] = row
  /\ step[c] \in {"extend", "cache"} => HashIsRow
  /\ step[c] = "update" => hash \in {NoRow, Extended(row)} \/ LoadAt("index")
  /\ step[c] = "switch" => hash \in {NoRow, [row EXCEPT !.active = FALSE]} \/ LoadAt("index")
Undrifted ==
  ~raced /\ troubles = 0 =>
    /\ row.duration = BaseDuration + Cardinality(Extensions_done)
    /\ \A l \in loads : l.at = "hash" => l.row = row
    /\ hash # NoRow => indexed \/ LoadAt("index")
    /\ Holding = {} => HashIsRow
    /\ \A c \in ChangeCalls : Holding = {c} => Alone(c)

DurationInv == DurationTypes /\ DurationHolds /\ Undrifted

\* What a call makes of the subscription it holds.
LEMMA ChangedSubscription ==
  ASSUME NEW v \in Subscriptions
  PROVE  /\ Extended(v) \in Subscriptions
         /\ Extended(v).duration = v.duration + 1 /\ Extended(v).active = v.active
         /\ [v EXCEPT !.active = FALSE] \in Subscriptions
         /\ [v EXCEPT !.active = FALSE].duration = v.duration
<1>1. PICK d \in Nat, a \in BOOLEAN : v = [duration |-> d, active |-> a]
  BY DEF Subscriptions
<1>2. Extended(v) = [duration |-> d + 1, active |-> a]
  BY <1>1 DEF Extended
<1>3. ASSUME NEW b \in BOOLEAN PROVE [v EXCEPT !.active = b] \in Subscriptions /\ [v EXCEPT !.active = b].duration = d
  BY <1>1 DEF Subscriptions
<1>4. d + 1 \in Nat
  BY <1>1
<1>5. Extended(v) \in Subscriptions /\ Extended(v).duration = d + 1 /\ Extended(v).active = a
  BY <1>2, <1>4 DEF Subscriptions
<1>6. [v EXCEPT !.active = FALSE] \in Subscriptions /\ [v EXCEPT !.active = FALSE].duration = d
  BY <1>3
<1> QED
  BY <1>1, <1>5, <1>6

LEMMA DurationTypesStep ==
  DurationTypes /\ DurationHolds /\ [DurationNext]_durationVars => DurationTypes'
<1> SUFFICES ASSUME DurationTypes, DurationHolds, [DurationNext]_durationVars PROVE DurationTypes'
  OBVIOUS
<1> USE DEF DurationTypes, CallSteps
<1>0. \A v \in Subscriptions : Extended(v) \in Subscriptions /\ [v EXCEPT !.active = FALSE] \in Subscriptions
  BY ChangedSubscription
<1>1. \A c \in ChangeCalls : \A why \in {"miss", "write"} : LoadOf(c, why) \in Loads
  BY DEF LoadOf, Loads
<1>2. Trouble => troubles' \in Nat
  BY DEF Trouble
<1>3. ASSUME NEW c \in ChangeCalls, Look(c) PROVE DurationTypes'
  BY <1>1, <1>2, <1>3 DEF Look, Goes
<1>4. ASSUME NEW c \in ChangeCalls, ReadHash(c) PROVE DurationTypes'
  BY <1>4 DEF ReadHash, Goes
<1>5. ASSUME NEW c \in ChangeCalls, Extend(c) PROVE DurationTypes'
  BY <1>1, <1>2, <1>5 DEF Extend, Goes
<1>6. ASSUME NEW c \in ChangeCalls, WriteHash(c) PROVE DurationTypes'
  <2>1. value[c] \in Subscriptions
    BY <1>6 DEF WriteHash, DurationHolds
  <2> QED
    BY <1>0, <1>6, <2>1 DEF WriteHash, Goes, Cached
<1>7. ASSUME NEW c \in ChangeCalls, Update(c) PROVE DurationTypes'
  <2>1. value[c] \in Subscriptions
    BY <1>7 DEF Update, DurationHolds
  <2>2. row' \in Subscriptions
    BY <1>0, <1>7, <2>1 DEF Update, Subscriptions
  <2>3. raced' \in BOOLEAN
    BY <1>7, Zenon DEF Update
  <2> QED
    BY <1>7, <2>2, <2>3 DEF Update, Goes, Forgets
<1>8. ASSUME NEW c \in ChangeCalls, Switch(c) PROVE DurationTypes'
  <2>1. indexed => hash \in Subscriptions
    BY DEF DurationHolds
  <2>2. hash' \in Subscriptions \union {NoRow}
    BY <1>0, <1>8, <2>1 DEF Switch
  <2> QED
    BY <1>2, <1>8, <2>2 DEF Switch, Goes
<1>9. ASSUME NEW c \in ChangeCalls, SwitchRow(c) PROVE DurationTypes'
  <2>1. raced' \in BOOLEAN
    BY <1>9, Zenon DEF SwitchRow
  <2> QED
    BY <1>0, <1>1, <1>9, <2>1 DEF SwitchRow, Goes
<1>10. ASSUME NEW c \in ChangeCalls, UpdateFails(c) PROVE DurationTypes'
  BY <1>2, <1>10 DEF UpdateFails, Goes, Forgets
<1>11. ASSUME NEW l \in loads, Load(l) PROVE DurationTypes'
  <2>1. l \in Loads /\ (l.at = "hash" => l.row \in Subscriptions)
    BY <1>11 DEF DurationHolds, Loads
  <2>2. [l EXCEPT !.at = "hash", !.row = row] \in Loads /\ [l EXCEPT !.at = "index", !.row = NoRow] \in Loads
    BY <2>1 DEF Loads
  <2>3. raced' \in BOOLEAN
    BY <1>11, Zenon DEF Load
  <2> QED
    BY <1>11, <2>1, <2>2, <2>3 DEF Load
<1>12. ASSUME NEW l \in loads, LoadEnds(l) PROVE DurationTypes'
  <2>1. raced' \in BOOLEAN
    BY <1>12, Zenon DEF LoadEnds
  <2> QED
    BY <1>12, <2>1 DEF LoadEnds
<1>13. CASE DurationCrash
  BY <1>2, <1>13 DEF DurationCrash
<1>14. CASE UNCHANGED durationVars
  BY <1>14 DEF durationVars
<1> QED
  BY <1>3, <1>4, <1>5, <1>6, <1>7, <1>8, <1>9, <1>10, <1>11, <1>12, <1>13, <1>14 DEF DurationNext

LEMMA DurationHoldsStep ==
  DurationTypes /\ DurationHolds /\ [DurationNext]_durationVars => DurationHolds'
<1> SUFFICES ASSUME DurationTypes, DurationHolds, [DurationNext]_durationVars PROVE DurationHolds'
  OBVIOUS
<1> USE DEF DurationTypes, DurationHolds, LoadAt
<1>0. NoRow \notin Subscriptions
  BY DurationAssumption DEF DurationAssumption, Subscriptions
<1>1. \A v \in Subscriptions : Extended(v) \in Subscriptions /\ [v EXCEPT !.active = FALSE] \in Subscriptions
  BY ChangedSubscription
<1>2. \A c, why : LoadOf(c, why).at = "query"
  BY DEF LoadOf
<1>3. ASSUME NEW c \in ChangeCalls, Look(c) PROVE DurationHolds'
  BY <1>0, <1>2, <1>3 DEF Look, Goes
<1>4. ASSUME NEW c \in ChangeCalls, ReadHash(c) PROVE DurationHolds'
  BY <1>4 DEF ReadHash, Goes
<1>5. ASSUME NEW c \in ChangeCalls, Extend(c) PROVE DurationHolds'
  BY <1>2, <1>5 DEF Extend, Goes
<1>6. ASSUME NEW c \in ChangeCalls, WriteHash(c) PROVE DurationHolds'
  <2>1. hash' # NoRow
    BY <1>0, <1>1, <1>6 DEF WriteHash, Cached
  <2> QED
    BY <1>6, <2>1 DEF WriteHash, Goes
<1>7. ASSUME NEW c \in ChangeCalls, Update(c) PROVE DurationHolds'
  BY <1>7 DEF Update, Goes, Forgets
<1>8. ASSUME NEW c \in ChangeCalls, Switch(c) PROVE DurationHolds'
  <2>1. indexed \/ LoadAt("index") => hash' # NoRow
    BY <1>0, <1>1, <1>8 DEF Switch
  <2> QED
    BY <1>8, <2>1 DEF Switch, Goes
<1>9. ASSUME NEW c \in ChangeCalls, SwitchRow(c) PROVE DurationHolds'
  BY <1>2, <1>9 DEF SwitchRow, Goes
<1>10. ASSUME NEW c \in ChangeCalls, UpdateFails(c) PROVE DurationHolds'
  BY <1>10 DEF UpdateFails, Goes, Forgets
<1>11. ASSUME NEW l \in loads, Load(l) PROVE DurationHolds'
  <2>1. l \in Loads
    OBVIOUS
  <2> DEFINE ToHash == [l EXCEPT !.at = "hash", !.row = row]
             ToIndex == [l EXCEPT !.at = "index", !.row = NoRow]
  <2>2. ToHash.at = "hash" /\ ToHash.row = row /\ ToIndex.at = "index"
    BY <2>1 DEF Loads
  <2> HIDE DEF ToHash, ToIndex
  <2>3. CASE l.at = "query"
    <3>1. loads' = (loads \ {l}) \union {ToHash} /\ UNCHANGED <<hash, indexed, step, value>>
      BY <1>11, <2>3 DEF Load, ToHash
    <3> QED
      BY <1>0, <2>2, <3>1
  <2>4. CASE l.at = "hash"
    <3>1. loads' = (loads \ {l}) \union {ToIndex} /\ hash' = l.row /\ UNCHANGED <<indexed, step, value>>
      BY <1>11, <2>4 DEF Load, ToIndex
    <3> QED
      BY <2>2, <2>4, <3>1
  <2>5. CASE l.at = "index"
    <3>1. loads' = loads \ {l} /\ indexed' = TRUE /\ UNCHANGED <<hash, step, value>>
      BY <1>11, <2>5 DEF Load
    <3> QED
      BY <2>5, <3>1
  <2> QED
    BY <2>1, <2>3, <2>4, <2>5 DEF Loads
<1>12. ASSUME NEW l \in loads, LoadEnds(l) PROVE DurationHolds'
  BY <1>12 DEF LoadEnds
<1>13. CASE DurationCrash
  BY <1>13 DEF DurationCrash, CallSteps
<1>14. CASE UNCHANGED durationVars
  BY <1>14 DEF durationVars
<1> QED
  BY <1>3, <1>4, <1>5, <1>6, <1>7, <1>8, <1>9, <1>10, <1>11, <1>12, <1>13, <1>14 DEF DurationNext

\* A step of one call: who holds a value after it, and which extensions are done.
HoldSteps == {"extend", "cache", "update", "switch"}
LEMMA AfterGoes ==
  ASSUME DurationTypes, NEW c \in ChangeCalls, NEW to, Goes(c, to)
  PROVE  /\ step'[c] = to /\ \A d \in ChangeCalls : d # c => step'[d] = step[d]
         /\ to \in HoldSteps => Holding' = Holding \union {c}
         /\ to \notin HoldSteps => Holding' = Holding \ {c}
         /\ to # "done" /\ step[c] # "done" => Extensions_done' = Extensions_done
         /\ to = "done" /\ c \in Extensions => Extensions_done' = Extensions_done \union {c}
         /\ c \notin Extensions => Extensions_done' = Extensions_done
<1>1. step'[c] = to /\ \A d \in ChangeCalls : d # c => step'[d] = step[d]
  BY DEF DurationTypes, Goes
<1> QED
  BY <1>1 DEF Holding, HoldSteps, Extensions_done, ChangeCalls

\* The conclusion of Undrifted.
Quiet ==
  /\ row.duration = BaseDuration + Cardinality(Extensions_done)
  /\ \A l \in loads : l.at = "hash" => l.row = row
  /\ hash # NoRow => indexed \/ LoadAt("index")
  /\ Holding = {} => HashIsRow
  /\ \A c \in ChangeCalls : Holding = {c} => Alone(c)

LEMMA UndriftedStep ==
  DurationTypes /\ DurationHolds /\ Undrifted /\ [DurationNext]_durationVars => Undrifted'
<1> SUFFICES ASSUME DurationTypes, DurationHolds, Undrifted, [DurationNext]_durationVars,
                    ~raced', troubles' = 0
             PROVE  Quiet'
  BY DEF Undrifted, Quiet
<1>0. NoRow \notin Subscriptions
  BY DurationAssumption DEF DurationAssumption, Subscriptions
<1>1. ~raced /\ troubles = 0
  <2>1. ASSUME Trouble PROVE FALSE
    BY <2>1 DEF Trouble, DurationTypes
  <2>2. ASSUME NEW c \in ChangeCalls, Look(c) \/ Extend(c) \/ Switch(c) PROVE ~raced /\ troubles = 0
    BY <2>1, <2>2 DEF Look, Extend, Switch
  <2>3. ASSUME NEW c \in ChangeCalls, ReadHash(c) \/ WriteHash(c) \/ UpdateFails(c) PROVE ~raced /\ troubles = 0
    BY <2>1, <2>3 DEF ReadHash, WriteHash, UpdateFails
  <2>4. ASSUME NEW c \in ChangeCalls, Update(c) \/ SwitchRow(c) PROVE ~raced /\ troubles = 0
    <3>1. ~raced
      BY <2>4, Zenon DEF Update, SwitchRow
    <3> QED
      BY <2>4, <3>1 DEF Update, SwitchRow
  <2>5. ASSUME NEW l \in loads, Load(l) \/ LoadEnds(l) PROVE ~raced /\ troubles = 0
    <3>1. ~raced
      BY <2>5, Zenon DEF Load, LoadEnds
    <3> QED
      BY <2>5, <3>1 DEF Load, LoadEnds
  <2>6. CASE DurationCrash \/ UNCHANGED durationVars
    BY <2>1, <2>6 DEF DurationCrash, durationVars
  <2> QED
    BY <2>2, <2>3, <2>4, <2>5, <2>6 DEF DurationNext
<1>2. Quiet
  BY <1>1 DEF Undrifted, Quiet
<1>3. ~Trouble
  BY <1>1 DEF Trouble
<1>4. \A c, why : LoadOf(c, why).at = "query"
  BY DEF LoadOf
<1>5. ASSUME NEW c \in ChangeCalls, Look(c) PROVE Quiet'
  <2>1. step[c] = "new" /\ c \notin Holding
    BY <1>5 DEF Look, Begins, Holding
  <2>2. CASE indexed /\ Goes(c, "hash") /\ UNCHANGED <<row, hash, indexed, value, loads>>
    <3>1. Holding' = Holding /\ Extensions_done' = Extensions_done
      BY <2>1, <2>2, AfterGoes DEF HoldSteps
    <3>2. \A d \in ChangeCalls : d \in Holding => step'[d] = step[d]
      BY <2>1, <2>2, AfterGoes
    <3> QED
      BY <1>2, <2>2, <3>1, <3>2 DEF Quiet, Alone, HashIsRow, LoadAt
  <2>3. CASE /\ ~indexed /\ Goes(c, "extend") /\ UNCHANGED <<row, hash, indexed>>
             /\ value' = [value EXCEPT ![c] = row] /\ loads' = loads \union {LoadOf(c, "miss")}
    <3>1. Holding' = Holding \union {c} /\ Extensions_done' = Extensions_done /\ step'[c] = "extend"
      BY <2>1, <2>3, AfterGoes DEF HoldSteps
    <3>2. value'[c] = row
      BY <2>3 DEF DurationTypes
    <3>3. \A d \in ChangeCalls : Holding' = {d} => d = c /\ Holding = {}
      BY <2>1, <3>1
    <3> QED
      BY <1>2, <1>4, <2>3, <3>1, <3>2, <3>3 DEF Quiet, Alone, HashIsRow, LoadAt
  <2> QED
    BY <1>3, <1>5, <2>2, <2>3 DEF Look
<1>6. ASSUME NEW c \in ChangeCalls, ReadHash(c) PROVE Quiet'
  <2>1. step[c] = "hash" /\ c \notin Holding /\ indexed /\ hash # NoRow
    BY <1>6 DEF ReadHash, Holding, DurationHolds
  <2>2. Holding' = Holding \union {c} /\ Extensions_done' = Extensions_done /\ step'[c] = "extend"
    BY <1>6, <2>1, AfterGoes DEF ReadHash, HoldSteps
  <2>3. value'[c] = hash
    BY <1>6 DEF ReadHash, DurationTypes
  <2>4. \A d \in ChangeCalls : Holding' = {d} => d = c /\ Holding = {}
    BY <2>1, <2>2
  <2> QED
    BY <1>2, <1>6, <2>1, <2>2, <2>3, <2>4 DEF ReadHash, Quiet, Alone, HashIsRow, LoadAt
<1>7. ASSUME NEW c \in ChangeCalls, Extend(c) PROVE Quiet'
  <2>1. step[c] = "extend" /\ c \in Holding
    BY <1>7 DEF Extend, Holding
  <2>2. CASE indexed /\ Goes(c, "cache") /\ UNCHANGED <<row, hash, indexed, value, loads>>
    <3>1. Holding' = Holding /\ Extensions_done' = Extensions_done /\ step'[c] = "cache"
      BY <2>1, <2>2, AfterGoes DEF HoldSteps
    <3> QED
      BY <1>2, <2>1, <2>2, <3>1 DEF Quiet, Alone, HashIsRow, LoadAt
  <2>3. CASE /\ ~indexed /\ Goes(c, "update") /\ UNCHANGED <<row, hash, indexed, value>>
             /\ loads' = loads \union {LoadOf(c, "write")}
    <3>1. Holding' = Holding /\ Extensions_done' = Extensions_done /\ step'[c] = "update"
      BY <2>1, <2>3, AfterGoes DEF HoldSteps
    <3> QED
      BY <1>2, <1>4, <2>1, <2>3, <3>1 DEF Quiet, Alone, HashIsRow, LoadAt
  <2> QED
    BY <1>3, <1>7, <2>2, <2>3 DEF Extend
<1>8. ASSUME NEW c \in ChangeCalls, WriteHash(c) PROVE Quiet'
  <2>1. step[c] = "cache" /\ c \in Holding /\ indexed
    BY <1>8 DEF WriteHash, Holding, DurationHolds
  <2>2. Holding' = Holding /\ Extensions_done' = Extensions_done /\ step'[c] = "update"
    BY <1>8, <2>1, AfterGoes DEF WriteHash, HoldSteps
  <2>3. hash' = Extended(value[c])
    BY <1>8 DEF WriteHash, Cached
  <2> QED
    BY <1>2, <1>8, <2>1, <2>2, <2>3 DEF WriteHash, Quiet, Alone, LoadAt
<1>9. ASSUME NEW c \in ChangeCalls, Update(c) PROVE Quiet'
  <2>1. Holding = {c} /\ \A l \in loads : l.at = "query"
    BY <1>9 DEF Update, Held
  <2>2. step[c] = "update" /\ c \in Extensions
    BY <1>9 DEF Update, DurationHolds
  <2>3. value[c] = row /\ hash \in {NoRow, Extended(row)}
    BY <1>2, <2>1, <2>2 DEF Quiet, Alone, LoadAt
  <2>4. Extended(row).duration = row.duration + 1 /\ row \in Subscriptions
    BY ChangedSubscription DEF DurationTypes
  <2>5. row' = Extended(row)
    BY <1>9, <2>3, <2>4 DEF Update, Extended, Subscriptions
  <2>6. Holding' = {} /\ Extensions_done' = Extensions_done \union {c}
    BY <1>9, <2>1, <2>2, AfterGoes DEF Update, HoldSteps
  <2>7. c \notin Extensions_done /\ IsFiniteSet(Extensions_done)
    BY <2>2, FS_Subset, DurationAssumption DEF Extensions_done, DurationAssumption
  <2>8. Cardinality(Extensions_done') = Cardinality(Extensions_done) + 1
    BY <2>6, <2>7, FS_AddElement
  <2>9. row.duration \in Nat /\ Cardinality(Extensions_done) \in Nat /\ BaseDuration \in Nat
    BY <2>4, <2>7, FS_CardinalityType, DurationAssumption DEF Subscriptions, DurationAssumption
  <2>10. row'.duration = BaseDuration + Cardinality(Extensions_done')
    BY <1>2, <2>4, <2>5, <2>8, <2>9 DEF Quiet
  <2>11. hash' \in {NoRow, row'} /\ UNCHANGED <<hash, indexed, loads>>
    BY <1>9, <2>3, <2>5 DEF Update
  <2> QED
    BY <1>2, <2>1, <2>6, <2>10, <2>11 DEF Quiet, HashIsRow, LoadAt
<1>10. ASSUME NEW c \in ChangeCalls, Switch(c) PROVE Quiet'
  <2>1. step[c] = "new" /\ c \notin Holding
    BY <1>10 DEF Switch, Begins, Holding
  <2>2. Holding' = Holding \union {c} /\ Extensions_done' = Extensions_done /\ step'[c] = "switch"
    BY <1>10, <2>1, AfterGoes DEF Switch, HoldSteps
  <2>3. \A d \in ChangeCalls : Holding' = {d} => d = c /\ Holding = {}
    BY <2>1, <2>2
  <2>4. CASE indexed /\ hash' = [hash EXCEPT !.active = FALSE]
    <3>1. hash # NoRow
      BY <2>4 DEF DurationHolds
    <3> QED
      BY <1>2, <1>10, <2>2, <2>3, <2>4, <3>1 DEF Switch, Quiet, Alone, HashIsRow, LoadAt
  <2>5. CASE ~indexed /\ UNCHANGED hash
    BY <1>2, <1>10, <2>2, <2>3, <2>5 DEF Switch, Quiet, Alone, HashIsRow, LoadAt
  <2> QED
    BY <1>3, <1>10, <2>4, <2>5 DEF Switch
<1>11. ASSUME NEW c \in ChangeCalls, SwitchRow(c) PROVE Quiet'
  <2>1. Holding = {c} /\ \A l \in loads : l.at = "query"
    BY <1>11 DEF SwitchRow, Held
  <2>2. step[c] = "switch" /\ c \notin Extensions
    BY <1>11, DurationAssumption DEF SwitchRow, DurationHolds, DurationAssumption
  <2>3. hash \in {NoRow, [row EXCEPT !.active = FALSE]}
    BY <1>2, <2>1, <2>2 DEF Quiet, Alone, LoadAt
  <2>4. row' = [row EXCEPT !.active = FALSE] /\ row'.duration = row.duration
    BY <1>11, ChangedSubscription DEF SwitchRow, DurationTypes
  <2>5. Holding' = {} /\ Extensions_done' = Extensions_done
    BY <1>11, <2>1, <2>2, AfterGoes DEF SwitchRow, HoldSteps
  <2>6. UNCHANGED <<hash, indexed>> /\ \A l \in loads' : l.at = "query"
    BY <1>4, <1>11, <2>1 DEF SwitchRow
  <2> QED
    BY <1>2, <2>1, <2>3, <2>4, <2>5, <2>6 DEF Quiet, HashIsRow, LoadAt
<1>12. ASSUME NEW l \in loads, Load(l) PROVE Quiet'
  <2>1. l \in Loads /\ UNCHANGED <<row, step, value>>
    BY <1>12 DEF DurationTypes, Load
  <2>2. Holding' = Holding /\ Extensions_done' = Extensions_done
    BY <2>1 DEF Holding, Extensions_done
  <2> DEFINE ToHash == [l EXCEPT !.at = "hash", !.row = row]
             ToIndex == [l EXCEPT !.at = "index", !.row = NoRow]
  <2>3. ToHash.at = "hash" /\ ToHash.row = row /\ ToIndex.at = "index"
    BY <2>1 DEF Loads
  <2> HIDE DEF ToHash, ToIndex
  <2>4. CASE l.at = "query"
    <3>1. loads' = (loads \ {l}) \union {ToHash} /\ UNCHANGED <<hash, indexed>>
      BY <1>12, <2>4 DEF Load, ToHash
    <3> QED
      BY <1>2, <2>1, <2>2, <2>3, <2>4, <3>1 DEF Quiet, Alone, HashIsRow, LoadAt
  <2>5. CASE l.at = "hash"
    <3>1. loads' = (loads \ {l}) \union {ToIndex} /\ hash' = l.row /\ Holding = {}
      BY <1>12, <2>5 DEF Load, ToIndex
    <3>2. l.row = row
      BY <1>2, <2>5 DEF Quiet
    <3> QED
      BY <1>2, <2>1, <2>2, <2>3, <3>1, <3>2 DEF Quiet, HashIsRow, LoadAt
  <2>6. CASE l.at = "index"
    <3>1. loads' = loads \ {l} /\ indexed' /\ UNCHANGED hash /\ Holding = {}
      BY <1>12, <2>6 DEF Load
    <3> QED
      BY <1>2, <2>1, <2>2, <3>1 DEF Quiet, HashIsRow
  <2> QED
    BY <2>1, <2>4, <2>5, <2>6 DEF Loads
<1>13. ASSUME NEW l \in loads, LoadEnds(l) PROVE Quiet'
  <2>1. l.at # "index" /\ loads' = loads \ {l} /\ UNCHANGED <<row, hash, indexed, step, value>>
    BY <1>13 DEF LoadEnds
  <2>2. Holding' = Holding /\ Extensions_done' = Extensions_done
    BY <2>1 DEF Holding, Extensions_done
  <2> QED
    BY <1>2, <2>1, <2>2 DEF Quiet, Alone, HashIsRow, LoadAt
<1>14. CASE UNCHANGED durationVars
  <2>1. Holding' = Holding /\ Extensions_done' = Extensions_done
    BY <1>14 DEF Holding, Extensions_done, durationVars
  <2> QED
    BY <1>2, <1>14, <2>1 DEF durationVars, Quiet, Alone, HashIsRow, LoadAt
<1>15. ~DurationCrash /\ \A c \in ChangeCalls : ~UpdateFails(c)
  BY <1>3 DEF DurationCrash, UpdateFails
<1> QED
  BY <1>5, <1>6, <1>7, <1>8, <1>9, <1>10, <1>11, <1>12, <1>13, <1>14, <1>15 DEF DurationNext

LEMMA DurationInitInv == DurationInit => DurationInv
<1> SUFFICES ASSUME DurationInit PROVE DurationInv
  OBVIOUS
<1>1. DurationTypes
  BY DurationAssumption DEF DurationInit, DurationTypes, CallSteps, Subscriptions, Loads, DurationAssumption
<1>2. DurationHolds
  BY DEF DurationInit, DurationHolds, LoadAt
<1>3. Extensions_done = {} /\ Holding = {}
  BY DEF DurationInit, Extensions_done, Holding, ChangeCalls
<1>4. Cardinality(Extensions_done) = 0 /\ row.duration = BaseDuration /\ BaseDuration \in Nat
  BY <1>3, FS_EmptySet, DurationAssumption DEF DurationInit, DurationAssumption
<1>5. Undrifted
  BY <1>3, <1>4 DEF DurationInit, Undrifted, HashIsRow
<1> QED
  BY <1>1, <1>2, <1>5 DEF DurationInv

\* AddDuration and SetSubscriptionActive read a subscription, write its hash and
\* then its row, and nothing orders two calls or the loads a miss starts
\* (subscription/data.go).  However many calls there are and whatever they do: at
\* rest, an extension that was reported is missing from the row, or the hash
\* differs from the row, only if an UPDATE was made while another call or a load
\* held a value, a load wrote while a call did or was cut short, or a step failed.
THEOREM SubscriptionDriftHasACause == DurationSpec => []DriftCause
<1>1. DurationInit => DurationInv
  BY DurationInitInv
<1>2. DurationInv /\ [DurationNext]_durationVars => DurationInv'
  BY DurationTypesStep, DurationHoldsStep, UndriftedStep DEF DurationInv
<1>3. DurationInv => DriftCause
  BY DEF DurationInv, DurationTypes, DriftCause, Undrifted, AtRest, Holding, HashIsRow
<1> QED
  BY <1>1, <1>2, <1>3, PTL DEF DurationSpec

-----------------------------------------------------------------------------
(* Requests of a client *)

\* Those that keep the id of a user, as they are told of a login.
IdKeepers == {"subscription", "achievements", "friends"}

\* What holds of a lookup of handler h of this header.
Tame(header, h, l) ==
  /\ l.needs = "row" => l.at = "player" /\ header \in {"UserData", "Friends"}
  /\ l.needs = "id" => l.at \in IdKeepers /\ header # "LOGIN"
  /\ ~(l.without = "panic" /\ h.goroutine)
TameHandler(header, h) ==
  /\ Len(h.stages) \in Nat \ {0}
  /\ \A k \in 1..Len(h.stages) : \A l \in h.stages[k].looks : Tame(header, h, l)

Request == [header : Headers, known : BOOLEAN, settled : BOOLEAN]
AllHandlers == UNION {Handlers[header] : header \in Headers}
RequestsTypes ==
  /\ valid \in BOOLEAN /\ failures \in Nat
  /\ requests \in Seq(Request)
  /\ \A n \in RequestIds : requests[n].header = "LOGIN" => requests[n].known /\ requests[n].settled
  /\ {fresh, pending, batch, taken} \subseteq [Channels -> SUBSET RequestIds]
  /\ running \subseteq [n : RequestIds, handler : AllHandlers, stage : Nat]
  /\ \A p \in running : /\ p.handler \in Handlers[requests[p.n].header]
                        /\ p.stage \in 1..Len(p.handler.stages)

\* Until something fails, only a panic keeps a service from reading.
OnlyPanicsEnd ==
  /\ ready \subseteq up
  /\ failures = 0 => Followed \ ready \subseteq ended

\* Stage k of handler h has given request n what it gives: its packet is sent, or
\* the id kept.  Before, its entry waits on the stream of that service, or the
\* handler is in execution and has not passed the stage.
Given(n, h, k) ==
  LET x == h.stages[k].sends
  IN IF x = "user_id" THEN h.service \in ids ELSE x = "nothing" \/ <<n, x>> \in sent
OnItsWay(n, h, k) == \E j \in 1..k : [n |-> n, handler |-> h, stage |-> j] \in running
Unread(n, c) == n \in fresh[c] \union pending[c] /\ n \notin taken[c] \ batch[c]
StreamOf(n, h) == <<h.service, KindOf(n)>>
Touched(h) == {h.service} \union {l.at : l \in LooksOf(h)}
Undisturbed(h) == h.service \in Followed /\ Touched(h) \intersect ended = {}
Answering ==
  failures = 0 =>
    \A n \in RequestIds : requests[n].settled /\ HasRow(n) =>
      \A h \in Handlers[requests[n].header] : Undisturbed(h) =>
        \A k \in 1..Len(h.stages) :
          Given(n, h, k) \/ OnItsWay(n, h, k) \/ Unread(n, StreamOf(n, h))

\* Once every service has followed the login, they have the id.
IdsAreKept ==
  failures = 0 /\ valid =>
    \A n \in RequestIds : requests[n].settled /\ requests[n].header # "LOGIN" =>
      (IdKeepers \intersect Followed) \ ended \subseteq ids

RequestsInv == RequestsTypes /\ EndedCause /\ OnlyPanicsEnd /\ Answering /\ IdsAreKept

\* The table, service by service.
LEMMA OneStage ==
  ASSUME NEW header, NEW s, NEW g \in BOOLEAN, NEW a,
         NEW h, h = [service |-> s, goroutine |-> g, stages |-> <<a>>],
         \A l \in a.looks : Tame(header, h, l)
  PROVE  TameHandler(header, h)
BY DEF TameHandler

LEMMA TwoStages ==
  ASSUME NEW header, NEW s, NEW g \in BOOLEAN, NEW a, NEW b,
         NEW h, h = [service |-> s, goroutine |-> g, stages |-> <<a, b>>],
         \A l \in a.looks \union b.looks : Tame(header, h, l)
  PROVE  TameHandler(header, h)
BY DEF TameHandler

LEMMA ThreeStages ==
  ASSUME NEW header, NEW s, NEW g \in BOOLEAN, NEW a, NEW b, NEW c,
         NEW h, h = [service |-> s, goroutine |-> g, stages |-> <<a, b, c>>],
         \A l \in a.looks \union b.looks \union c.looks : Tame(header, h, l)
  PROVE  TameHandler(header, h)
BY DEF TameHandler

LEMMA TameTable == \A header \in Headers : \A h \in Handlers[header] : TameHandler(header, h)
<1> SUFFICES ASSUME NEW header \in Headers, NEW h \in Handlers[header] PROVE TameHandler(header, h)
  OBVIOUS
<1> USE DEF Lookup, Tolerated, Dereferenced, Stage, Goroutine, Handler, SetUserId, Tame, IdKeepers
<1>1. CASE h \in PlayerHandlers(header)
  <2>1. CASE header = "UserData"
    BY <1>1, <2>1 DEF TameHandler, PlayerHandlers
  <2>2. CASE header = "Credits"
    BY <1>1, <2>2 DEF TameHandler, PlayerHandlers
  <2>3. CASE header = "LOGIN"
    BY <1>1, <2>3 DEF TameHandler, PlayerHandlers, LoginHandlers
  <2> QED
    BY <1>1, <2>1, <2>2, <2>3 DEF PlayerHandlers
<1>2. CASE h \in PermissionHandlers(header)
  BY <1>2 DEF TameHandler, PermissionHandlers, UserDataHandler
<1>3. CASE h \in SubscriptionHandlers(header)
  <2>1. CASE header = "UserClub"
    BY <1>3, <2>1 DEF TameHandler, SubscriptionHandlers
  <2>2. CASE header = "LOGIN"
    BY <1>3, <2>2 DEF TameHandler, SubscriptionHandlers
  <2> QED
    BY <1>3, <2>1, <2>2 DEF SubscriptionHandlers
<1>4. CASE h \in AchievementHandlers(header)
  <2>1. CASE header = "Achievements"
    BY <1>4, <2>1 DEF TameHandler, AchievementHandlers
  <2>2. CASE header = "LOGIN"
    BY <1>4, <2>2 DEF TameHandler, AchievementHandlers
  <2> QED
    BY <1>4, <2>1, <2>2 DEF AchievementHandlers
<1>5. CASE h \in FriendsHandlers(header)
  <2>1. CASE header = "Friends"
    BY <1>5, <2>1 DEF TameHandler, FriendsHandlers
  <2>2. CASE header = "FriendRequests"
    BY <1>5, <2>2 DEF TameHandler, FriendsHandlers
  <2>3. CASE header = "LOGIN"
    BY <1>5, <2>3 DEF TameHandler, FriendsHandlers
  <2> QED
    BY <1>5, <2>1, <2>2, <2>3 DEF FriendsHandlers
<1>6. CASE h \in CatalogHandlers(header)
  BY <1>6 DEF TameHandler, CatalogHandlers
<1>7. CASE h \in GuildHandlers(header)
  BY <1>7 DEF TameHandler, GuildHandlers
<1>8. CASE h \in ModtoolHandlers(header)
  BY <1>8 DEF TameHandler, ModtoolHandlers
<1> QED
  BY <1>1, <1>2, <1>3, <1>4, <1>5, <1>6, <1>7, <1>8 DEF Handlers

\* Who keeps ids handles the login, and needs nobody else for it.
LEMMA KeepersFollowLogins ==
  ASSUME NEW s \in IdKeepers
  PROVE  /\ SetUserId(s) \in Handlers["LOGIN"] /\ SetUserId(s).service = s
         /\ 1 \in 1..Len(SetUserId(s).stages) /\ SetUserId(s).stages[1].sends = "user_id"
         /\ Touched(SetUserId(s)) = {s}
<1>1. SetUserId(s) \in Handlers["LOGIN"]
  BY DEF IdKeepers, Handlers, Headers, SubscriptionHandlers, AchievementHandlers, FriendsHandlers
<1>2. /\ SetUserId(s).service = s /\ Len(SetUserId(s).stages) = 1
      /\ SetUserId(s).stages[1] = Stage({Lookup(s, "stores")}, "user_id")
  BY DEF SetUserId, Goroutine
<1>3. \A l : l \in LooksOf(SetUserId(s)) <=> l = Lookup(s, "stores")
  BY <1>2 DEF LooksOf, Stage
<1>4. Touched(SetUserId(s)) = {s}
  BY <1>2, <1>3 DEF Touched, Lookup
<1> QED
  BY <1>1, <1>2, <1>4 DEF Stage

\* The stages of a login at player need no other.
LEMMA PlayersLogin == HandlersAt("player", "LOGIN") \subseteq Handlers["LOGIN"] /\ "LOGIN" \notin ClientHeaders
BY DEF HandlersAt, ClientHeaders

\* Requests are published, and never change.
Extends == /\ Len(requests) \in Nat /\ Len(requests)' \in Nat
           /\ RequestIds \subseteq RequestIds'
           /\ \A n \in RequestIds : requests'[n] = requests[n]
Publishes(r) == requests' = Append(requests, r)

LEMMA AfterPublishing ==
  ASSUME requests \in Seq(Request), NEW r \in Request, Publishes(r)
  PROVE  /\ Extends /\ requests' \in Seq(Request)
         /\ RequestIds' = RequestIds \union {Len(requests) + 1}
         /\ Len(requests) + 1 \notin RequestIds
         /\ requests'[Len(requests) + 1] = r
BY DEF Publishes, Extends, RequestIds

LEMMA NothingPublished ==
  ASSUME requests \in Seq(Request), UNCHANGED requests
  PROVE  Extends /\ RequestIds' = RequestIds
BY DEF Extends, RequestIds

\* A stage passed, or dropped; either way no handler appears but the next stage
\* of this one, and the services it ends leave the others as they are.
NextStage(p) == [n |-> p.n, handler |-> p.handler, stage |-> p.stage + 1]
Missed(p, failing) == {l \in p.handler.stages[p.stage].looks : l \in failing \/ ~Found(p, l)}
Ends(p, failing) == Panicked(p, Missed(p, failing))

LEMMA AfterRun ==
  ASSUME RequestsTypes, NEW p \in running, NEW failing, Run(p, failing)
  PROVE  /\ End(Ends(p, failing), (running \ {p}) \union (running' \intersect {NextStage(p)}))
         /\ NextStage(p) \in running' =>
              NextStage(p) \in running \/ p.stage # Len(p.handler.stages)
         /\ ended' = ended \union Ends(p, failing)
         /\ sent \subseteq sent' /\ ids \subseteq ids'
         /\ UNCHANGED <<client, valid, requests, fresh, pending>>
         /\ Missed(p, failing) = {} =>
              /\ Given(p.n, p.handler, p.stage)'
              /\ p.stage # Len(p.handler.stages) => NextStage(p) \in running'
<1> DEFINE stage == p.handler.stages[p.stage]
           gone == Ends(p, failing)
           passes == (\A l \in Missed(p, failing) : l.without = "ok") /\ p.handler.service \notin gone
           last == p.stage = Len(p.handler.stages)
<1>1. p = [n |-> p.n, handler |-> p.handler, stage |-> p.stage] /\ p.stage \in Nat
  BY DEF RequestsTypes
<1>2. [p EXCEPT !.stage = @ + 1] = NextStage(p)
  BY <1>1 DEF NextStage
<1>3. /\ End(gone, (running \ {p}) \union (IF passes /\ ~last THEN {NextStage(p)} ELSE {}))
      /\ ended' = ended \union gone
      /\ sent' = IF passes /\ stage.sends \notin {"nothing", "user_id"}
                 THEN sent \union {<<p.n, stage.sends>>} ELSE sent
      /\ ids' = IF passes /\ stage.sends = "user_id" THEN ids \union {p.handler.service} ELSE ids
      /\ UNCHANGED <<client, valid, requests, fresh, pending>>
  BY <1>2 DEF Run, Ends, Missed
<1>4. NextStage(p) # p
  BY <1>1 DEF NextStage
<1>5. Missed(p, failing) = {} => gone = {}
  BY DEF Ends, Panicked
<1> HIDE DEF gone
<1>6. running' = {q \in (running \ {p}) \union (IF passes /\ ~last THEN {NextStage(p)} ELSE {}) :
                    q.handler.service \notin gone}
  BY <1>3 DEF End
<1>7. NextStage(p).handler = p.handler
  BY DEF NextStage
<1>8. Missed(p, failing) = {} => passes
  BY <1>5
<1> HIDE DEF passes
<1>9. running' = {q \in (running \ {p}) \union (running' \intersect {NextStage(p)}) :
                    q.handler.service \notin gone}
  BY <1>6
<1>10. NextStage(p) \in running' => NextStage(p) \in running \/ p.stage # Len(p.handler.stages)
  BY <1>6
<1>11. Missed(p, failing) = {} => Given(p.n, p.handler, p.stage)'
  BY <1>3, <1>8 DEF Given
<1>12. Missed(p, failing) = {} /\ ~last => NextStage(p) \in running'
  BY <1>5, <1>6, <1>7, <1>8
<1> QED
  BY <1>3, <1>9, <1>10, <1>11, <1>12 DEF End, gone

\* What the parts of the state that a service's processes hold are made of.
Waits == [Channels -> SUBSET RequestIds]
Ready(p) ==
  /\ p \in [n : RequestIds, handler : AllHandlers, stage : Nat]
  /\ p.handler \in Handlers[requests[p.n].header] /\ p.stage \in 1..Len(p.handler.stages)

LEMMA HeaderOf ==
  ASSUME RequestsTypes, NEW n \in RequestIds
  PROVE  requests[n] \in Request /\ requests[n].header \in Headers
<1>1. requests \in Seq(Request)
  BY DEF RequestsTypes
<1>2. requests[n] \in Request
  BY <1>1 DEF RequestIds
<1> QED
  BY <1>2 DEF Request

LEMMA StartedReady ==
  ASSUME RequestsTypes, NEW n \in RequestIds, NEW h \in Handlers[requests[n].header]
  PROVE  Ready(Started(n, h))
<1>1. requests[n].header \in Headers
  BY HeaderOf
<1>2. Len(h.stages) \in Nat \ {0}
  BY <1>1, TameTable DEF TameHandler
<1> QED
  BY <1>1, <1>2 DEF Ready, Started, AllHandlers

LEMMA StillReady ==
  ASSUME RequestsTypes, Extends, NEW p, Ready(p)
  PROVE  Ready(p)'
BY DEF Ready, Extends

LEMMA RequestsTypesStep ==
  RequestsTypes /\ [RequestsNext]_requestVars => RequestsTypes'
<1> SUFFICES ASSUME RequestsTypes, [RequestsNext]_requestVars PROVE RequestsTypes'
  OBVIOUS
<1>1. /\ valid \in BOOLEAN /\ failures \in Nat /\ requests \in Seq(Request)
      /\ fresh \in Waits /\ pending \in Waits /\ batch \in Waits /\ taken \in Waits
      /\ \A p \in running : Ready(p)
      /\ \A n \in RequestIds : requests[n].header = "LOGIN" => requests[n].known /\ requests[n].settled
  BY DEF RequestsTypes, Waits, Ready
<1>2. ASSUME /\ valid' \in BOOLEAN /\ failures' \in Nat /\ requests' \in Seq(Request)
             /\ \A n \in RequestIds' : requests'[n].header = "LOGIN" => requests'[n].known /\ requests'[n].settled
             /\ fresh' \in Waits' /\ pending' \in Waits' /\ batch' \in Waits' /\ taken' \in Waits'
             /\ \A p \in running' : Ready(p)'
      PROVE  RequestsTypes'
  BY <1>2 DEF RequestsTypes, Waits, Ready
<1>3. ASSUME UNCHANGED <<client, requests>>
      PROVE  /\ Waits' = Waits /\ Extends /\ RequestIds' = RequestIds /\ requests' \in Seq(Request)
             /\ \A p : Ready(p) => Ready(p)'
             /\ \A n \in RequestIds' : requests'[n].header = "LOGIN" => requests'[n].known /\ requests'[n].settled
  BY <1>1, <1>3, NothingPublished, StillReady DEF Waits, Channels, Followed
<1>4. ASSUME NEW r \in Request, Publishes(r), UNCHANGED client
      PROVE  /\ Extends /\ requests' \in Seq(Request) /\ Len(requests) + 1 \in RequestIds'
             /\ Waits \subseteq Waits' /\ Channels' = Channels
             /\ \A p : Ready(p) => Ready(p)'
             /\ (r.header = "LOGIN" => r.known /\ r.settled) =>
                  \A n \in RequestIds' : requests'[n].header = "LOGIN" => requests'[n].known /\ requests'[n].settled
  <2>1. /\ Extends /\ requests' \in Seq(Request) /\ RequestIds' = RequestIds \union {Len(requests) + 1}
        /\ requests'[Len(requests) + 1] = r
    BY <1>1, <1>4, AfterPublishing
  <2>2. \A p : Ready(p) => Ready(p)'
    BY <2>1, StillReady
  <2>3. Channels' = Channels /\ RequestIds \subseteq RequestIds'
    BY <1>4, <2>1 DEF Channels, Followed
  <2>4. Waits \subseteq Waits'
    BY <2>3 DEF Waits
  <2> QED
    BY <1>1, <2>1, <2>2, <2>3, <2>4 DEF Extends
<1>5. ASSUME NEW header, NEW kind, Streams(header, kind), Channels' = Channels,
             RequestIds \subseteq RequestIds', Len(requests) + 1 \in RequestIds'
      PROVE  fresh' \in Waits'
  BY <1>1, <1>5 DEF Streams, Waits
<1>6. ASSUME NEW services, NEW others, End(services, others), UNCHANGED <<client, requests>>,
             \A p \in others : Ready(p)
      PROVE  batch' \in Waits' /\ taken' \in Waits' /\ \A p \in running' : Ready(p)'
  BY <1>1, <1>3, <1>6 DEF End, Waits
<1>7. Failure => failures' \in Nat
  BY <1>1 DEF Failure
<1>8. CASE LogIn
  <2> DEFINE r == [header |-> "LOGIN", known |-> TRUE, settled |-> TRUE]
  <2>0. PICK n : n = Len(requests) + 1
    OBVIOUS
  <2>1. r \in Request /\ Publishes(r)
    BY <1>8 DEF LogIn, Request, Publishes, Headers
  <2>2. UNCHANGED <<client, valid, pending, batch, taken, failures>> /\ Streams("LOGIN", "login")
    BY <1>8 DEF LogIn
  <2> HIDE DEF r
  <2>3. /\ Extends /\ requests' \in Seq(Request) /\ n \in RequestIds'
        /\ Waits \subseteq Waits' /\ Channels' = Channels
        /\ \A p : Ready(p) => Ready(p)'
        /\ \A m \in RequestIds' : requests'[m].header = "LOGIN" => requests'[m].known /\ requests'[m].settled
    BY <1>4, <2>0, <2>1, <2>2 DEF r
  <2>4. fresh' \in Waits'
    BY <1>5, <2>0, <2>2, <2>3 DEF Extends
  <2>5. requests'[n].header = "LOGIN"
    BY <1>1, <2>0, <2>1, AfterPublishing DEF r
  <2>6. \A h \in HandlersAt("player", "LOGIN") : Ready(Started(n, h))'
    <3> SUFFICES ASSUME NEW h \in HandlersAt("player", "LOGIN") PROVE Ready(Started(n, h))'
      OBVIOUS
    <3>1. h \in Handlers["LOGIN"] /\ Len(h.stages) \in Nat \ {0}
      BY PlayersLogin, TameTable DEF TameHandler, Headers
    <3> QED
      BY <2>3, <2>5, <3>1 DEF Ready, Started, AllHandlers, Headers
  <2>7. \A p \in running' : Ready(p)'
    BY <1>1, <1>8, <2>0, <2>3, <2>6 DEF LogIn
  <2> QED
    BY <1>1, <1>2, <2>2, <2>3, <2>4, <2>7
<1>9. CASE TicketReplaced
  BY <1>1, <1>2, <1>3, <1>9 DEF TicketReplaced, streamVars
<1>10. ASSUME NEW h \in ClientHeaders, Publish(h) PROVE RequestsTypes'
  <2> DEFINE r == [header |-> h, known |-> LoggedIn, settled |-> Settled]
  <2>1. LoggedIn \in BOOLEAN /\ Settled \in BOOLEAN
    BY DEF LoggedIn, Settled
  <2>2. r \in Request /\ Publishes(r) /\ r.header # "LOGIN"
    BY <1>10, <2>1, PlayersLogin DEF Publish, Request, Publishes, Headers
  <2> HIDE DEF r
  <2>3. /\ Extends /\ requests' \in Seq(Request) /\ Len(requests) + 1 \in RequestIds'
        /\ Waits \subseteq Waits' /\ Channels' = Channels
        /\ \A p : Ready(p) => Ready(p)'
        /\ \A m \in RequestIds' : requests'[m].header = "LOGIN" => requests'[m].known /\ requests'[m].settled
    BY <1>4, <1>10, <2>2 DEF Publish
  <2>4. fresh' \in Waits'
    BY <1>5, <1>10, <2>3 DEF Extends, Publish
  <2> QED
    BY <1>1, <1>2, <1>10, <2>3, <2>4 DEF Publish
<1>11. ASSUME NEW c \in Channels, Listen(c) PROVE RequestsTypes'
  BY <1>1, <1>2, <1>3, <1>11 DEF Listen, Waits
<1>12. ASSUME NEW c \in Channels, Recover(c) PROVE RequestsTypes'
  BY <1>1, <1>2, <1>3, <1>12 DEF Recover, Claimed, Waits
<1>13. ASSUME NEW c \in Channels, Handle(c) PROVE RequestsTypes'
  <2>1. PICK n \in batch[c] :
          /\ batch' = [batch EXCEPT ![c] = @ \ {n}]
          /\ running' = IF c[2] = "packets" /\ c[1] \notin ready THEN running
                        ELSE running \union {Started(n, h) : h \in HandlersAt(c[1], requests[n].header)}
    BY <1>13 DEF Handle
  <2>2. n \in RequestIds
    BY <1>1 DEF Waits
  <2>3. \A h \in HandlersAt(c[1], requests[n].header) : Ready(Started(n, h))
    BY <2>2, StartedReady DEF HandlersAt
  <2>4. \A p \in running' : Ready(p)
    BY <1>1, <2>1, <2>3
  <2>5. batch' \in Waits
    BY <1>1, <2>1 DEF Waits
  <2> QED
    BY <1>1, <1>2, <1>3, <1>13, <2>4, <2>5 DEF Handle
<1>14. ASSUME NEW c \in Channels, Acknowledge(c) PROVE RequestsTypes'
  BY <1>1, <1>2, <1>3, <1>14 DEF Acknowledge, Waits
<1>15. ASSUME NEW p \in running, NEW failing, Run(p, failing), failures' \in Nat PROVE RequestsTypes'
  <2> DEFINE others == (running \ {p}) \union (running' \intersect {NextStage(p)})
  <2>1. /\ End(Ends(p, failing), others) /\ UNCHANGED <<client, valid, requests, fresh, pending>>
        /\ NextStage(p) \in running' => NextStage(p) \in running \/ p.stage # Len(p.handler.stages)
    BY <1>15, AfterRun
  <2>2. p.stage # Len(p.handler.stages) => Ready(NextStage(p))
    BY <1>1 DEF Ready, NextStage, RequestsTypes
  <2>3. \A q \in others : Ready(q)
    BY <1>1, <2>1, <2>2
  <2> HIDE DEF others
  <2>4. batch' \in Waits' /\ taken' \in Waits' /\ \A q \in running' : Ready(q)'
    BY <1>6, <2>1, <2>3
  <2> QED
    BY <1>1, <1>2, <1>3, <1>15, <2>1, <2>4
<1>16. ASSUME NEW p \in running, RunStage(p) PROVE RequestsTypes'
  BY <1>1, <1>15, <1>16 DEF RunStage
<1>17. ASSUME NEW p \in running, RunFails(p) PROVE RequestsTypes'
  BY <1>7, <1>15, <1>17 DEF RunFails
<1>18. ASSUME NEW s, Restart(s) \/ SubscribeHandlers(s) PROVE RequestsTypes'
  BY <1>1, <1>2, <1>3, <1>18 DEF Restart, SubscribeHandlers, streamVars
<1>19. ASSUME NEW s, Crash(s) PROVE RequestsTypes'
  <2>1. End({s}, running) /\ UNCHANGED <<client, valid, requests, fresh, pending>> /\ failures' \in Nat
    BY <1>7, <1>19 DEF Crash
  <2>2. batch' \in Waits' /\ taken' \in Waits' /\ \A q \in running' : Ready(q)'
    BY <1>1, <1>6, <2>1
  <2> QED
    BY <1>1, <1>2, <1>3, <2>1, <2>2
<1>20. CASE UNCHANGED requestVars
  BY <1>1, <1>2, <1>3, <1>20 DEF requestVars
<1>21. \A s \in Followed : {s} \X {"login", "packets"} \subseteq Channels
  BY DEF Channels
<1> QED
  BY <1>8, <1>9, <1>10, <1>11, <1>12, <1>13, <1>14, <1>16, <1>17, <1>18, <1>19, <1>20, <1>21
     DEF RequestsNext, Works

\* A panic ends player only, and if nothing failed for want of a row.
LEMMA PanicsOfPlayer ==
  ASSUME RequestsTypes, NEW p \in running, NEW failing
  PROVE  /\ Ends(p, failing) \subseteq {"player"}
         /\ failing = {} /\ Ends(p, failing) # {} =>
              requests[p.n].header \in {"UserData", "Friends"} /\ ~HasRow(p.n)
<1> SUFFICES ASSUME NEW s \in Ends(p, failing)
             PROVE  /\ s = "player"
                    /\ failing = {} => requests[p.n].header \in {"UserData", "Friends"} /\ ~HasRow(p.n)
  OBVIOUS
<1>1. PICK l \in Missed(p, failing) :
        /\ s \in up
        /\ (l.needs = "row" /\ l.at = s) \/ (l.without = "panic" /\ p.handler.goroutine /\ p.handler.service = s)
  BY DEF Ends, Panicked
<1>2. Tame(requests[p.n].header, p.handler, l)
  <2>1. p.n \in RequestIds /\ p.handler \in Handlers[requests[p.n].header] /\ p.stage \in 1..Len(p.handler.stages)
    BY DEF RequestsTypes
  <2>2. requests[p.n].header \in Headers
    BY <2>1, HeaderOf
  <2> QED
    BY <2>1, <2>2, TameTable DEF TameHandler, Missed
<1>3. l.needs = "row" /\ l.at = s /\ s = "player" /\ requests[p.n].header \in {"UserData", "Friends"}
  BY <1>1, <1>2 DEF Tame
<1>4. failing = {} => ~Found(p, l)
  BY DEF Missed
<1> QED
  BY <1>1, <1>3, <1>4 DEF Found, Reached, HasRow

\* What no step takes back.
LEMMA NothingIsTakenBack ==
  ASSUME RequestsTypes, [RequestsNext]_requestVars
  PROVE  /\ Extends /\ client' = client
         /\ ended \subseteq ended' /\ sent \subseteq sent' /\ ids \subseteq ids'
         /\ failures' = 0 => failures = 0
         /\ valid' => valid
<1>0. requests \in Seq(Request) /\ failures \in Nat
  BY DEF RequestsTypes
<1>1. CASE LogIn
  <2>1. [header |-> "LOGIN", known |-> TRUE, settled |-> TRUE] \in Request
    BY DEF Request, Headers
  <2> QED
    BY <1>0, <1>1, <2>1, AfterPublishing DEF LogIn, Publishes
<1>2. ASSUME NEW h \in ClientHeaders, Publish(h) PROVE Extends
  <2>1. [header |-> h, known |-> LoggedIn, settled |-> Settled] \in Request
    BY DEF Request, Headers, LoggedIn, Settled
  <2> QED
    BY <1>0, <1>2, <2>1, AfterPublishing DEF Publish, Publishes
<1>3. ASSUME NEW p \in running, RunStage(p) \/ RunFails(p)
      PROVE  /\ UNCHANGED <<client, valid, requests>>
             /\ failures' = 0 => failures = 0
             /\ ended \subseteq ended' /\ sent \subseteq sent' /\ ids \subseteq ids'
  <2>1. PICK failing : Run(p, failing)
    BY <1>3 DEF RunStage, RunFails
  <2>2. failures' = 0 => failures = 0
    BY <1>0, <1>3 DEF RunStage, RunFails, Failure
  <2> QED
    BY <2>1, <2>2, AfterRun
<1>4. ASSUME NEW c, Listen(c) \/ Recover(c) \/ Handle(c) \/ Acknowledge(c)
      PROVE  UNCHANGED <<client, valid, requests, ended, sent, ids, failures>>
  BY <1>4 DEF Listen, Recover, Handle, Acknowledge
<1>5. ASSUME NEW s, Restart(s) \/ SubscribeHandlers(s) \/ Crash(s)
      PROVE  /\ UNCHANGED <<client, valid, requests, ended, sent, ids>>
             /\ failures' = 0 => failures = 0
  BY <1>0, <1>5 DEF Restart, SubscribeHandlers, Crash, Failure
<1>6. CASE TicketReplaced \/ UNCHANGED requestVars
  BY <1>0, <1>6, NothingPublished DEF TicketReplaced, requestVars
<1>7. ASSUME NEW h, Publish(h) PROVE UNCHANGED <<client, valid, ended, sent, ids, failures>>
  BY <1>7 DEF Publish
<1> QED
  BY <1>0, <1>1, <1>2, <1>3, <1>4, <1>5, <1>6, <1>7, NothingPublished DEF RequestsNext, Works, LogIn

\* Which steps end services.
LEMMA EndedBy ==
  ASSUME [RequestsNext]_requestVars, RequestsTypes
  PROVE  ended' = ended \/ \E p \in running : \E failing :
           /\ ended' = ended \union Ends(p, failing) /\ UNCHANGED <<valid, requests>>
           /\ failing = {} \/ failures' # 0
<1>1. ASSUME NEW p \in running, RunStage(p)
      PROVE  ended' = ended \union Ends(p, {}) /\ UNCHANGED <<valid, requests>>
  BY <1>1, AfterRun DEF RunStage
<1>2. ASSUME NEW p \in running, RunFails(p)
      PROVE  \E failing : ended' = ended \union Ends(p, failing) /\ UNCHANGED <<valid, requests>> /\ failures' # 0
  <2>1. PICK l : Run(p, {l})
    BY <1>2 DEF RunFails
  <2>2. failures' # 0
    BY <1>2 DEF RunFails, Failure, RequestsTypes
  <2> QED
    BY <2>1, <2>2, AfterRun
<1> QED
  BY <1>1, <1>2 DEF RequestsNext, requestVars, LogIn, TicketReplaced, Publish, Works, Listen, Recover,
       Handle, Acknowledge, Restart, SubscribeHandlers, Crash

LEMMA EndedCauseStep ==
  RequestsTypes /\ EndedCause /\ [RequestsNext]_requestVars => EndedCause'
<1> SUFFICES ASSUME RequestsTypes, EndedCause, [RequestsNext]_requestVars PROVE EndedCause'
  OBVIOUS
<1>1. /\ Extends
      /\ failures' = 0 => failures = 0
      /\ valid' => valid
  BY NothingIsTakenBack
<1>2. \A n \in RequestIds : HasRow(n)' => HasRow(n)
  BY <1>1 DEF HasRow, Extends
<1>3. CASE ended' = ended
  BY <1>1, <1>2, <1>3 DEF EndedCause, Extends
<1>4. ASSUME NEW p \in running, NEW failing, ended' = ended \union Ends(p, failing),
             UNCHANGED <<valid, requests>>, failing = {} \/ failures' # 0
      PROVE  EndedCause'
  <2>1. ended' \subseteq {"player"}
    BY <1>4, PanicsOfPlayer DEF EndedCause
  <2>2. p.n \in RequestIds
    BY DEF RequestsTypes
  <2>3. ASSUME failures' = 0, Ends(p, failing) # {}
        PROVE  requests[p.n].header \in {"UserData", "Friends"} /\ ~HasRow(p.n)
    BY <1>4, <2>3, PanicsOfPlayer
  <2>4. ASSUME failures' = 0, Ends(p, failing) # {}
        PROVE  \E n \in RequestIds' : requests'[n].header \in {"UserData", "Friends"} /\ ~HasRow(n)'
    BY <1>1, <1>2, <2>2, <2>3, <2>4 DEF Extends
  <2>5. ASSUME failures' = 0, Ends(p, failing) = {}, ended' # {}
        PROVE  \E n \in RequestIds' : requests'[n].header \in {"UserData", "Friends"} /\ ~HasRow(n)'
    BY <1>1, <1>2, <1>4, <2>5 DEF Extends, EndedCause
  <2> QED
    BY <2>1, <2>4, <2>5 DEF EndedCause
<1> QED
  BY <1>3, <1>4, EndedBy

LEMMA OnlyPanicsEndStep ==
  RequestsTypes /\ OnlyPanicsEnd /\ [RequestsNext]_requestVars => OnlyPanicsEnd'
<1> SUFFICES ASSUME RequestsTypes, OnlyPanicsEnd, [RequestsNext]_requestVars PROVE OnlyPanicsEnd'
  OBVIOUS
<1>1. /\ client' = client /\ ended \subseteq ended'
      /\ failures' = 0 => failures = 0
  BY NothingIsTakenBack
<1>2. CASE UNCHANGED <<up, ready>>
  BY <1>1, <1>2 DEF OnlyPanicsEnd, Followed
<1>3. ASSUME NEW p \in running, NEW failing, Run(p, failing) PROVE OnlyPanicsEnd'
  <2>1. /\ up' = up \ Ends(p, failing) /\ ready' = ready \ Ends(p, failing)
        /\ ended' = ended \union Ends(p, failing)
    BY <1>3, AfterRun DEF End
  <2> QED
    BY <1>1, <2>1 DEF OnlyPanicsEnd, Followed
<1>4. ASSUME NEW s, Crash(s) PROVE OnlyPanicsEnd'
  BY <1>4 DEF Crash, Failure, End, RequestsTypes, OnlyPanicsEnd
<1>5. ASSUME NEW s, Restart(s) \/ SubscribeHandlers(s) PROVE OnlyPanicsEnd'
  BY <1>1, <1>5 DEF Restart, SubscribeHandlers, OnlyPanicsEnd, Followed
<1> QED
  BY <1>2, <1>3, <1>4, <1>5 DEF RequestsNext, requestVars, LogIn, TicketReplaced, Publish, Works, Listen,
       Recover, Handle, Acknowledge, RunStage, RunFails

\* Nothing is missed by a handler that nobody disturbs, once what it needs is
\* there: whoever is asked is up, and keeps the id.
LEMMA NothingMissed ==
  ASSUME RequestsTypes, OnlyPanicsEnd, IdsAreKept, failures = 0, NEW p \in running,
         requests[p.n].settled, HasRow(p.n), Undisturbed(p.handler)
  PROVE  Missed(p, {}) = {}
<1> SUFFICES ASSUME NEW l \in Missed(p, {}) PROVE FALSE
  OBVIOUS
<1>1. /\ p.n \in RequestIds /\ p.handler \in Handlers[requests[p.n].header]
      /\ p.stage \in 1..Len(p.handler.stages) /\ requests[p.n].header \in Headers
  BY HeaderOf DEF RequestsTypes
<1>2. l \in p.handler.stages[p.stage].looks /\ ~Found(p, l)
  BY DEF Missed
<1>3. Tame(requests[p.n].header, p.handler, l)
  BY <1>1, <1>2, TameTable DEF TameHandler
<1>4. l.at \in Touched(p.handler)
  BY <1>1, <1>2 DEF Touched, LooksOf
<1>5. l.at \in Followed => l.at \in up /\ l.at \notin ended
  BY <1>4 DEF OnlyPanicsEnd, Undisturbed
<1>6. l.needs = "id" => l.at \in ids \/ l.at \notin Followed
  BY <1>1, <1>3, <1>5 DEF Tame, IdsAreKept, HasRow
<1> QED
  BY <1>2, <1>5, <1>6 DEF Found, Reached, HasRow

LEMMA AnsweringStep ==
  RequestsTypes /\ OnlyPanicsEnd /\ Answering /\ IdsAreKept /\ [RequestsNext]_requestVars => Answering'
<1> SUFFICES ASSUME RequestsTypes, OnlyPanicsEnd, Answering, IdsAreKept, [RequestsNext]_requestVars,
                    failures' = 0, NEW n \in RequestIds', requests'[n].settled, HasRow(n)',
                    NEW h \in Handlers[requests'[n].header], Undisturbed(h)', NEW k \in 1..Len(h.stages)
             PROVE  Given(n, h, k)' \/ OnItsWay(n, h, k)' \/ Unread(n, StreamOf(n, h))'
  BY DEF Answering
<1>1. /\ Extends /\ client' = client
      /\ ended \subseteq ended' /\ sent \subseteq sent' /\ ids \subseteq ids'
      /\ failures = 0
      /\ valid' => valid
  BY NothingIsTakenBack
<1>2. Undisturbed(h)
  BY <1>1 DEF Undisturbed, Followed
<1>3. h.service \in Followed /\ h.service \notin ended /\ h.service \notin ended'
  BY <1>1, <1>2 DEF Undisturbed, Touched, Followed
<1>4. PICK s \in Channels : /\ s = StreamOf(n, h)'
                            /\ s = <<h.service, IF requests'[n].header = "LOGIN" THEN "login" ELSE "packets">>
  <2>1. StreamOf(n, h)' = <<h.service, IF requests'[n].header = "LOGIN" THEN "login" ELSE "packets">>
    BY DEF StreamOf, KindOf
  <2>2. <<h.service, IF requests'[n].header = "LOGIN" THEN "login" ELSE "packets">> \in Channels
    BY <1>3 DEF Channels
  <2> QED
    BY <2>1, <2>2
<1>5. SUFFICES Given(n, h, k)' \/ OnItsWay(n, h, k)' \/ Unread(n, s)'
  BY <1>4 DEF Unread
<1>6. Given(n, h, k) => Given(n, h, k)'
  BY <1>1 DEF Given
<1>7. running \subseteq running' /\ OnItsWay(n, h, k) => OnItsWay(n, h, k)'
  BY DEF OnItsWay
<1>8. ASSUME n \in RequestIds
      PROVE  /\ requests'[n] = requests[n] /\ requests[n].settled /\ HasRow(n)
             /\ Given(n, h, k) \/ OnItsWay(n, h, k) \/ Unread(n, s)
  <2>1. requests'[n] = requests[n] /\ HasRow(n)
    BY <1>1, <1>8 DEF Extends, HasRow
  <2>2. s = StreamOf(n, h)
    BY <1>4, <2>1 DEF StreamOf, KindOf
  <2> QED
    BY <1>1, <1>2, <1>8, <2>1, <2>2 DEF Answering
<1>9. /\ Channels' = Channels /\ k \in Nat /\ 1 \in 1..k
      /\ \A x \in {fresh, pending, batch, taken} : x = [c \in Channels |-> x[c]] /\ x \in [Channels -> SUBSET RequestIds]
  BY <1>1 DEF Channels, Followed, RequestsTypes
<1>10. CASE LogIn
  <2>1. CASE n \in RequestIds
    <3>1. Unread(n, s) => Unread(n, s)'
      BY <1>9, <1>10 DEF LogIn, Streams, Unread
    <3> QED
      BY <1>6, <1>7, <1>8, <1>10, <2>1, <3>1 DEF LogIn
  <2>2. CASE n \notin RequestIds
    <3>1. n = Len(requests) + 1 /\ requests'[n].header = "LOGIN" /\ n \notin taken[s]
      BY <1>9, <1>10, <2>2 DEF LogIn, RequestsTypes, RequestIds
    <3>2. h \in Handlers["LOGIN"] /\ h \in HandlersAt(h.service, "LOGIN") /\ h.service \in ServicesOf["LOGIN"]
      BY <3>1 DEF HandlersAt, ServicesOf, Headers
    <3>3. CASE h.service = "player"
      <4>1. Started(n, h) \in running'
        BY <1>3, <1>10, <3>1, <3>2, <3>3 DEF LogIn
      <4> QED
        BY <1>9, <4>1 DEF Started, OnItsWay
    <3>4. CASE h.service # "player"
      <4>1. s = <<h.service, "login">> /\ s # <<"player", "login">>
        BY <1>4, <3>1, <3>4
      <4>2. n \in fresh'[s] /\ taken' = taken
        BY <1>9, <1>10, <3>1, <3>2, <4>1 DEF LogIn, Streams
      <4> QED
        BY <3>1, <4>2 DEF Unread
    <3> QED
      BY <3>3, <3>4
  <2> QED
    BY <2>1, <2>2
<1>11. ASSUME NEW header \in ClientHeaders, Publish(header)
       PROVE  Given(n, h, k)' \/ OnItsWay(n, h, k)' \/ Unread(n, s)'
  <2>1. CASE n \in RequestIds
    <3>1. Unread(n, s) => Unread(n, s)'
      BY <1>9, <1>11 DEF Publish, Streams, Unread
    <3> QED
      BY <1>6, <1>7, <1>8, <1>11, <2>1, <3>1 DEF Publish
  <2>2. CASE n \notin RequestIds
    <3>1. n = Len(requests) + 1 /\ requests'[n].header = header /\ n \notin taken[s]
      BY <1>9, <1>11, <2>2 DEF Publish, RequestsTypes, RequestIds
    <3>2. header # "LOGIN" /\ header \in Headers
      BY PlayersLogin DEF Headers
    <3>3. s = <<h.service, "packets">> /\ s # <<"player", "login">> /\ h.service \in ServicesOf[header]
      BY <1>4, <3>1, <3>2 DEF ServicesOf
    <3>4. n \in fresh'[s] /\ taken' = taken
      BY <1>9, <1>11, <3>1, <3>3 DEF Publish, Streams
    <3> QED
      BY <3>1, <3>4 DEF Unread
  <2> QED
    BY <2>1, <2>2
<1>12. CASE TicketReplaced \/ UNCHANGED requestVars
  BY <1>6, <1>7, <1>8, <1>12 DEF TicketReplaced, requestVars, streamVars, Unread, RequestIds
<1>13. ASSUME NEW c \in Channels, Listen(c) \/ Recover(c) \/ Acknowledge(c)
       PROVE  Given(n, h, k)' \/ OnItsWay(n, h, k)' \/ Unread(n, s)'
  <2>1. Unread(n, s) => Unread(n, s)'
    BY <1>9, <1>13 DEF Listen, Recover, Claimed, Acknowledge, Unread
  <2> QED
    BY <1>6, <1>7, <1>8, <1>13, <2>1 DEF Listen, Recover, Acknowledge, RequestIds
<1>14. ASSUME NEW c \in Channels, Handle(c)
       PROVE  Given(n, h, k)' \/ OnItsWay(n, h, k)' \/ Unread(n, s)'
  <2>1. PICK m \in batch[c] :
          /\ batch' = [batch EXCEPT ![c] = @ \ {m}]
          /\ running' = IF c[2] = "packets" /\ c[1] \notin ready THEN running
                        ELSE running \union {Started(m, g) : g \in HandlersAt(c[1], requests[m].header)}
    BY <1>14 DEF Handle
  <2>2. UNCHANGED <<requests, fresh, pending, taken>> /\ running \subseteq running' /\ n \in RequestIds
    BY <1>14, <2>1 DEF Handle, RequestIds
  <2>3. CASE m = n /\ c = s
    <3>1. c[1] = h.service /\ c[1] \in ready
      BY <1>1, <1>3, <1>4, <2>3 DEF OnlyPanicsEnd
    <3>2. h \in HandlersAt(c[1], requests[m].header)
      BY <1>8, <2>2, <2>3, <3>1 DEF HandlersAt
    <3>3. Started(n, h) \in running'
      BY <2>1, <2>3, <3>1, <3>2
    <3> QED
      BY <1>9, <3>3 DEF Started, OnItsWay
  <2>4. CASE m # n \/ c # s
    <3>1. Unread(n, s) => Unread(n, s)'
      BY <1>9, <2>1, <2>2, <2>4 DEF Unread
    <3> QED
      BY <1>6, <1>7, <1>8, <2>2, <3>1
  <2> QED
    BY <2>3, <2>4
<1>15. ASSUME NEW p \in running, NEW failing, Run(p, failing), failing = {}
       PROVE  Given(n, h, k)' \/ OnItsWay(n, h, k)' \/ Unread(n, s)'
  <2>1. /\ End(Ends(p, failing), (running \ {p}) \union (running' \intersect {NextStage(p)}))
        /\ ended' = ended \union Ends(p, failing)
        /\ UNCHANGED <<requests, fresh, pending>>
        /\ Missed(p, failing) = {} =>
             /\ Given(p.n, p.handler, p.stage)'
             /\ p.stage # Len(p.handler.stages) => NextStage(p) \in running'
    BY <1>15, AfterRun
  <2>2. n \in RequestIds /\ h.service \notin Ends(p, failing)
    BY <1>3, <2>1 DEF RequestIds
  <2>3. CASE Given(n, h, k)
    BY <1>6, <2>3
  <2>4. CASE Unread(n, s)
    <3>1. s[1] = h.service
      BY <1>4
    <3>2. batch'[s] = batch[s] /\ taken'[s] = taken[s]
      BY <1>9, <2>1, <2>2, <3>1 DEF End
    <3> QED
      BY <2>1, <2>4, <3>2 DEF Unread
  <2>5. ASSUME NEW j \in 1..k, [n |-> n, handler |-> h, stage |-> j] \in running
        PROVE  Given(n, h, k)' \/ OnItsWay(n, h, k)' \/ Unread(n, s)'
    <3> DEFINE q == [n |-> n, handler |-> h, stage |-> j]
    <3>1. CASE q # p
      <4>1. q \in running'
        BY <2>1, <2>2, <2>5, <3>1 DEF End
      <4> QED
        BY <4>1 DEF OnItsWay
    <3>2. CASE q = p
      <4>1. p.n = n /\ p.handler = h /\ p.stage = j
        BY <3>2
      <4>2. Missed(p, failing) = {}
        BY <1>1, <1>2, <1>8, <1>15, <2>2, <4>1, NothingMissed
      <4>3. CASE j = k
        BY <2>1, <4>1, <4>2, <4>3
      <4>4. CASE j # k
        <5>1. j + 1 \in 1..k /\ j # Len(h.stages)
          BY <4>4
        <5>2. [n |-> n, handler |-> h, stage |-> j + 1] \in running'
          BY <2>1, <4>1, <4>2, <5>1 DEF NextStage
        <5> QED
          BY <5>1, <5>2 DEF OnItsWay
      <4> QED
        BY <4>3, <4>4
    <3> QED
      BY <3>1, <3>2
  <2> QED
    BY <1>8, <2>2, <2>3, <2>4, <2>5 DEF OnItsWay
<1>16. ASSUME NEW t, Restart(t) \/ SubscribeHandlers(t)
       PROVE  Given(n, h, k)' \/ OnItsWay(n, h, k)' \/ Unread(n, s)'
  BY <1>6, <1>7, <1>8, <1>16 DEF Restart, SubscribeHandlers, streamVars, Unread, RequestIds
<1>17. (\A t : ~Crash(t)) /\ (\A p \in running : ~RunFails(p))
  BY DEF Crash, RunFails, Failure, RequestsTypes
<1>18. \A t \in Followed : {t} \X {"login", "packets"} \subseteq Channels
  BY DEF Channels
<1>19. ASSUME NEW p \in running, RunStage(p)
       PROVE  Given(n, h, k)' \/ OnItsWay(n, h, k)' \/ Unread(n, s)'
  BY <1>15, <1>19 DEF RunStage
<1> QED
  BY <1>10, <1>11, <1>12, <1>13, <1>14, <1>16, <1>17, <1>18, <1>19 DEF RequestsNext, Works

\* Once every service has followed the login, those that keep ids have it.
LEMMA SettledMeansKept ==
  ASSUME RequestsTypes, Answering, failures = 0, valid, Settled,
         NEW s \in IdKeepers, s \in Followed, s \notin ended
  PROVE  s \in ids
<1>1. PICK n \in RequestIds : requests[n].header = "LOGIN"
  BY DEF Settled, LoggedIn
<1>2. requests[n].settled /\ HasRow(n)
  BY <1>1 DEF RequestsTypes, HasRow
<1> DEFINE h == SetUserId(s)
<1>3. /\ h \in Handlers[requests[n].header] /\ h.service = s
      /\ 1 \in 1..Len(h.stages) /\ h.stages[1].sends = "user_id" /\ Touched(h) = {s}
  BY <1>1, KeepersFollowLogins
<1> HIDE DEF h
<1>4. Undisturbed(h)
  BY <1>3 DEF Undisturbed
<1>5. Given(n, h, 1) \/ OnItsWay(n, h, 1) \/ Unread(n, StreamOf(n, h))
  BY <1>2, <1>3, <1>4 DEF Answering
<1>6. ~OnItsWay(n, h, 1)
  BY <1>1 DEF Settled, OnItsWay
<1>7. StreamOf(n, h) = <<s, "login">>
  BY <1>1, <1>3 DEF StreamOf, KindOf
<1>8. ~Unread(n, StreamOf(n, h))
  BY <1>7 DEF Settled, Channels, Unread
<1> QED
  BY <1>3, <1>5, <1>6, <1>8 DEF Given

LEMMA IdsAreKeptStep ==
  RequestsTypes /\ Answering /\ IdsAreKept /\ [RequestsNext]_requestVars => IdsAreKept'
<1> SUFFICES ASSUME RequestsTypes, Answering, IdsAreKept, [RequestsNext]_requestVars, failures' = 0, valid',
                    NEW n \in RequestIds', requests'[n].settled, requests'[n].header # "LOGIN",
                    NEW s \in IdKeepers, s \in Followed, s \notin ended'
             PROVE  s \in ids'
  BY NothingIsTakenBack DEF IdsAreKept, Followed
<1>1. Extends /\ ended \subseteq ended' /\ ids \subseteq ids' /\ failures = 0 /\ valid
  BY NothingIsTakenBack
<1>2. CASE n \in RequestIds
  BY <1>1, <1>2 DEF IdsAreKept, Extends
<1>3. CASE n \notin RequestIds
  <2>1. ~LogIn
    <3>1. ASSUME LogIn PROVE n = Len(requests) + 1 /\ requests'[n].header = "LOGIN"
      BY <1>3, <3>1 DEF LogIn, RequestsTypes, RequestIds
    <3> QED
      BY <3>1
  <2>2. ASSUME UNCHANGED requests PROVE FALSE
    BY <1>3, <2>2 DEF RequestIds
  <2>3. ASSUME NEW p \in running, NEW failing, Run(p, failing) PROVE UNCHANGED requests
    BY <2>3, AfterRun
  <2>4. PICK h \in ClientHeaders : Publish(h)
    BY <2>1, <2>2, <2>3 DEF RequestsNext, requestVars, TicketReplaced, Works, Listen, Recover, Handle,
         Acknowledge, Restart, SubscribeHandlers, Crash, RunStage, RunFails
  <2>5. requests'[n].settled = Settled
    <3>1. requests \in Seq(Request) /\ Publishes([header |-> h, known |-> LoggedIn, settled |-> Settled])
      BY <2>4 DEF Publish, Publishes, RequestsTypes
    <3>2. [header |-> h, known |-> LoggedIn, settled |-> Settled] \in Request
      BY DEF Request, Headers, LoggedIn, Settled
    <3>3. n = Len(requests) + 1 /\ requests'[n] = [header |-> h, known |-> LoggedIn, settled |-> Settled]
      BY <1>3, <3>1, <3>2, AfterPublishing
    <3> QED
      BY <3>3
  <2> QED
    BY <1>1, <2>5, SettledMeansKept
<1> QED
  BY <1>2, <1>3

LEMMA RequestsInitInv == RequestsInit => RequestsInv
<1> SUFFICES ASSUME RequestsInit PROVE RequestsInv
  OBVIOUS
<1>1. requests = <<>> /\ RequestIds = {}
  BY DEF RequestsInit, RequestIds
<1>2. RequestsTypes
  BY <1>1 DEF RequestsInit, RequestsTypes
<1> QED
  BY <1>1, <1>2 DEF RequestsInit, RequestsInv, EndedCause, OnlyPanicsEnd, Answering, IdsAreKept

LEMMA RequestsInvStep == RequestsInv /\ [RequestsNext]_requestVars => RequestsInv'
BY RequestsTypesStep, EndedCauseStep, OnlyPanicsEndStep, AnsweringStep, IdsAreKeptStep DEF RequestsInv

\* A panic in a handler is recovered by safeCall (api/events/redis.go), one in a
\* goroutine that a handler starts is not, and ends the process of its service.
\* Whatever the streams reorder or deliver again, whoever ends and starts again,
\* a panic only ever ends player, and it takes a failed call, or a packet that
\* asks for the row of a ticket that is not in the database (player/data.go).
THEOREM PanicsHaveACause == RequestsSpec => []EndedCause
<1>1. RequestsInv => EndedCause
  BY DEF RequestsInv
<1> QED
  BY <1>1, RequestsInitInv, RequestsInvStep, PTL DEF RequestsSpec

\* A login, and each packet published once every service has followed the login,
\* is answered with all the packets that its handlers send (event.go of each
\* service), unless a service it involves was ended by a panic, a call failed or
\* its ticket is not in the database: the two streams, the batches, claims and
\* goroutines of any number of services lose nothing else.
THEOREM RequestsAreAnswered == RequestsSpec => []Answered
<1>1. RequestsInv => Answered
  <2> SUFFICES ASSUME RequestsInv, NEW n \in RequestIds, requests[n].settled, HasRow(n), Done(n),
                      failures = 0, Involved[requests[n].header] \intersect ended = {},
                      NEW x \in PacketsOf(requests[n].header, Followed)
               PROVE  <<n, x>> \in sent
    BY DEF Answered
  <2>1. requests[n].header \in Headers
    BY HeaderOf DEF RequestsInv
  <2>2. PICK h \in Handlers[requests[n].header] : \E k \in 1..Len(h.stages) :
          h.service \in Followed /\ x = h.stages[k].sends /\ x # "nothing" /\ x # "user_id"
    <3>1. PICK h \in {g \in Handlers[requests[n].header] : g.service \in Followed} :
            x \in {h.stages[k].sends : k \in 1..Len(h.stages)}
      BY DEF PacketsOf
    <3>2. x # "nothing" /\ x # "user_id"
      BY DEF PacketsOf
    <3> QED
      BY <3>1, <3>2
  <2>3. PICK k \in 1..Len(h.stages) :
          h.service \in Followed /\ x = h.stages[k].sends /\ x # "nothing" /\ x # "user_id"
    BY <2>2
  <2>4. Touched(h) \subseteq Involved[requests[n].header]
    BY <2>1 DEF Touched, Involved, ServicesOf
  <2>5. Undisturbed(h)
    BY <2>3, <2>4 DEF Undisturbed
  <2>6. Given(n, h, k) \/ OnItsWay(n, h, k) \/ Unread(n, StreamOf(n, h))
    BY <2>5 DEF RequestsInv, Answering
  <2>7. StreamOf(n, h) \in Channels
    BY <2>3 DEF StreamOf, KindOf, Channels
  <2>8. ~OnItsWay(n, h, k) /\ ~Unread(n, StreamOf(n, h))
    BY <2>7 DEF Done, OnItsWay, Unread
  <2> QED
    BY <2>3, <2>6, <2>8 DEF Given
<1> QED
  BY <1>1, RequestsInitInv, RequestsInvStep, PTL DEF RequestsSpec

-----------------------------------------------------------------------------
(* The times of a club *)

\* Induction over the numbers, as a fact about a set.
LEMMA SetInduction ==
  ASSUME NEW S, 0 \in S, \A n \in Nat : n \in S => n + 1 \in S
  PROVE  \A n \in Nat : n \in S
<1> DEFINE Bad == Nat \ S
           R == OpToRel(<, Nat)
<1>1. IsWellFoundedOn(R, Nat)
  BY NatLessThanWellFounded
<1>2. \A x, y \in Nat : x < y => <<x, y>> \in R
  BY DEF OpToRel
<1> HIDE DEF R
<1>3. SUFFICES ASSUME Bad # {} PROVE FALSE
  OBVIOUS
<1>4. PICK x \in Bad : \A y \in Bad : <<y, x>> \notin R
  <2> HIDE DEF Bad
  <2>1. Bad \subseteq Nat
    BY DEF Bad
  <2> QED BY <1>1, <1>3, <2>1, WFMin
<1>5. x \in Nat /\ x # 0 /\ x - 1 \in Nat /\ x - 1 < x /\ (x - 1) + 1 = x
  OBVIOUS
<1> QED
  BY <1>2, <1>4, <1>5

\* What the loop of SumOf(times) has added up after each of the first n additions.
SumsTo(times, sum, n) ==
  /\ sum \in [0..n -> Int] /\ sum[0] = 0
  /\ \A k \in 1..n : sum[k] = sum[k - 1] + times[k]
Sums(times, sum) == SumsTo(times, sum, Len(times))

LEMMA SumExists ==
  ASSUME NEW times \in Seq(Int)
  PROVE  \E sum : Sums(times, sum)
<1> DEFINE S == {n \in Nat : n <= Len(times) => \E sum : SumsTo(times, sum, n)}
<1>1. 0 \in S
  <2>1. SumsTo(times, [k \in 0..0 |-> 0], 0)
    BY DEF SumsTo
  <2> QED BY <2>1
<1>2. ASSUME NEW n \in Nat, n \in S, n + 1 <= Len(times)
      PROVE  \E sum : SumsTo(times, sum, n + 1)
  <2>1. \E sum : SumsTo(times, sum, n)
    BY <1>2
  <2>2. PICK sum : SumsTo(times, sum, n)
    BY <2>1
  <2> DEFINE more == [k \in 0..(n + 1) |-> IF k = n + 1 THEN sum[n] + times[n + 1] ELSE sum[k]]
  <2>3. times[n + 1] \in Int /\ sum[n] \in Int
    BY <1>2, <2>2 DEF SumsTo
  <2>4. more \in [0..(n + 1) -> Int] /\ more[0] = 0
    BY <2>2, <2>3 DEF SumsTo
  <2>5. \A k \in 1..(n + 1) : more[k] = more[k - 1] + times[k]
    <3> TAKE k \in 1..(n + 1)
    <3>1. k \in 0..(n + 1) /\ k - 1 \in 0..(n + 1) /\ k - 1 # n + 1
      OBVIOUS
    <3>2. more[k - 1] = sum[k - 1]
      BY <3>1
    <3>3. CASE k = n + 1
      BY <3>1, <3>2, <3>3
    <3>4. CASE k # n + 1
      <4>1. k \in 1..n /\ more[k] = sum[k]
        BY <3>1, <3>4
      <4> QED BY <2>2, <3>2, <4>1 DEF SumsTo
    <3> QED BY <3>3, <3>4
  <2> HIDE DEF more
  <2>6. SumsTo(times, more, n + 1)
    BY <2>4, <2>5 DEF SumsTo
  <2> QED BY <2>6
<1>3. \A n \in Nat : n \in S => n + 1 \in S
  <2> TAKE n \in Nat
  <2> HAVE n \in S
  <2>1. CASE n + 1 <= Len(times)
    <3>1. \E sum : SumsTo(times, sum, n + 1)
      BY <1>2, <2>1
    <3> QED BY <3>1
  <2>2. CASE ~(n + 1 <= Len(times))
    BY <2>2
  <2> QED BY <2>1, <2>2
<1>4. \A n \in Nat : n \in S
  <2> HIDE DEF S
  <2> QED BY <1>1, <1>3, SetInduction
<1> QED
  BY <1>4 DEF Sums

LEMMA SumIs ==
  ASSUME NEW times \in Seq(Int)
  PROVE  \E sum : Sums(times, sum) /\ SumOf(times) = sum[Len(times)]
<1> DEFINE Def(sum) == sum = [k \in 0..Len(times) |-> IF k = 0 THEN 0 ELSE sum[k - 1] + times[k]]
           total == CHOOSE sum : Def(sum)
<1>1. PICK s : Sums(times, s)
  BY SumExists
<1>2. Def(s)
  <2>1. \A k \in 0..Len(times) : s[k] = IF k = 0 THEN 0 ELSE s[k - 1] + times[k]
    BY <1>1 DEF Sums, SumsTo
  <2> QED BY <1>1, <2>1 DEF Sums, SumsTo
<1>3. Def(total)
  BY <1>2
<1>4. SumOf(times) = total[Len(times)]
  BY DEF SumOf
<1> HIDE DEF total
<1>a. total = [k \in 0..Len(times) |-> IF k = 0 THEN 0 ELSE total[k - 1] + times[k]]
  BY <1>3
<1> HIDE DEF Def
<1>b. \A k \in 0..Len(times) : total[k] = IF k = 0 THEN 0 ELSE total[k - 1] + times[k]
  BY <1>a
<1>5. /\ DOMAIN total = 0..Len(times) /\ total[0] = 0
      /\ \A k \in 1..Len(times) : total[k] = total[k - 1] + times[k]
  <2>1. Len(times) \in Nat /\ 0 \in 0..Len(times) /\ \A k \in 1..Len(times) : k \in 0..Len(times) /\ k # 0
    OBVIOUS
  <2>2. DOMAIN total = 0..Len(times)
    BY <1>a
  <2> QED BY <1>b, <2>1, <2>2
<1> DEFINE S == {n \in Nat : n <= Len(times) => total[n] \in Int}
<1>6. 0 \in S
  BY <1>5
<1>7. ASSUME NEW n \in Nat, n \in S PROVE n + 1 \in S
  BY <1>5, <1>7
<1>8. \A n \in Nat : n \in S
  <2> HIDE DEF S
  <2> QED BY <1>6, <1>7, SetInduction
<1>9. total \in [0..Len(times) -> Int]
  <2>1. total = [k \in 0..Len(times) |-> total[k]]
    BY <1>a
  <2>2. \A k \in 0..Len(times) : total[k] \in Int
    BY <1>8
  <2> QED BY <2>1, <2>2
<1> QED
  BY <1>4, <1>5, <1>9 DEF Sums, SumsTo

\* A loop that adds no less each time adds up to no less.
LEMMA SumsAreMonotone ==
  ASSUME NEW s \in Seq(Int), NEW t \in Seq(Int), Len(s) = Len(t),
         \A k \in 1..Len(s) : s[k] <= t[k]
  PROVE  SumOf(s) \in Int /\ SumOf(t) \in Int /\ SumOf(s) <= SumOf(t)
<1>1. PICK x : Sums(s, x) /\ SumOf(s) = x[Len(s)]
  BY SumIs
<1>2. PICK y : Sums(t, y) /\ SumOf(t) = y[Len(t)]
  BY SumIs
<1> DEFINE S == {n \in Nat : n <= Len(s) => x[n] <= y[n]}
<1>3. 0 \in S
  BY <1>1, <1>2 DEF Sums, SumsTo
<1>4. ASSUME NEW n \in Nat, n \in S PROVE n + 1 \in S
  <2>1. SUFFICES ASSUME n + 1 <= Len(s) PROVE x[n + 1] <= y[n + 1]
    OBVIOUS
  <2>2. x[n + 1] = x[n] + s[n + 1] /\ y[n + 1] = y[n] + t[n + 1]
    BY <1>1, <1>2, <2>1 DEF Sums, SumsTo
  <2>3. n \in 0..Len(s) /\ n + 1 \in 1..Len(s)
    BY <2>1
  <2>4. x[n] \in Int /\ y[n] \in Int
    BY <1>1, <1>2, <2>3 DEF Sums, SumsTo
  <2>5. s[n + 1] \in Int /\ t[n + 1] \in Int
    BY <2>3
  <2> QED BY SMTT(30), <1>4, <2>1, <2>2, <2>4, <2>5
<1>5. \A n \in Nat : n \in S
  <2> HIDE DEF S
  <2> QED BY <1>3, <1>4, SetInduction
<1> QED
  BY <1>1, <1>2, <1>5 DEF Sums, SumsTo

LEMMA SumsOfNothing ==
  ASSUME NEW s \in Seq(Int), \A k \in 1..Len(s) : s[k] = 0
  PROVE  SumOf(s) = 0
<1>1. PICK x : Sums(s, x) /\ SumOf(s) = x[Len(s)]
  BY SumIs
<1> DEFINE S == {n \in Nat : n <= Len(s) => x[n] = 0}
<1>2. 0 \in S
  BY <1>1 DEF Sums, SumsTo
<1>3. ASSUME NEW n \in Nat, n \in S PROVE n + 1 \in S
  BY <1>1, <1>3 DEF Sums, SumsTo
<1>4. \A n \in Nat : n \in S
  <2> HIDE DEF S
  <2> QED BY <1>2, <1>3, SetInduction
<1> QED
  BY <1>1, <1>4

\* Division by a positive number.
LEMMA DivMod ==
  ASSUME NEW a \in Int, NEW d \in Nat \ {0}
  PROVE  a \div d \in Int /\ a % d \in 0..(d-1) /\ a = d * (a \div d) + (a % d)
  BY SMTT(30)
\* A quotient one larger is of a number larger by d.
LEMMA Grows ==
  ASSUME NEW d \in Nat \ {0}, NEW p \in Int, NEW q \in Int, p + 1 <= q
  PROVE  d * p + d <= d * q
  BY SMTT(30)
LEMMA DivMonotone ==
  ASSUME NEW a \in Int, NEW b \in Int, NEW d \in Nat \ {0}, a <= b
  PROVE  a \div d <= b \div d
<1> DEFINE p == a \div d
           q == b \div d
<1>1. p \in Int /\ a % d \in 0..(d-1) /\ a = d * p + (a % d)
  BY DivMod
<1>2. q \in Int /\ b % d \in 0..(d-1) /\ b = d * q + (b % d)
  BY DivMod
<1> HIDE DEF p, q
<1>3. SUFFICES ASSUME q + 1 <= p PROVE FALSE
  BY <1>1, <1>2 DEF p, q
<1>4. d * q + d <= d * p
  BY <1>1, <1>2, <1>3, Grows
<1> DEFINE x == d * p
           y == d * q
           r == a % d
           t == b % d
<1>5. x \in Int /\ y \in Int /\ r \in 0..(d-1) /\ t \in 0..(d-1) /\ a = x + r /\ b = y + t /\ y + d <= x
  BY <1>1, <1>2, <1>4
<1> HIDE DEF x, y, r, t
<1> QED
  BY <1>5

\* A quotient rounded up, times its divisor, is less than the divisor too much.
LEMMA CeilIs ==
  ASSUME NEW n \in Int, NEW d \in Nat \ {0}
  PROVE  /\ Ceil(n, d) \in Int /\ Ceil(n, d) * d - n \in 0..(d - 1)
         /\ n > 0 => Ceil(n, d) >= 1
<1> DEFINE m == -n
           q == m \div d
           r == m % d
<1>1. m \in Int /\ m = -n
  OBVIOUS
<1>2. q \in Int /\ r \in 0..(d - 1) /\ m = d * q + r
  BY <1>1, DivMod
<1>3. Ceil(n, d) = -q
  BY DEF Ceil
<1> HIDE DEF m, q, r
<1>4. (-q) * d = -(d * q)
  BY <1>2
<1> DEFINE x == d * q
           y == (-q) * d
<1>5. x \in Int /\ y = -x /\ m = x + r
  BY <1>2, <1>4
<1>6. q >= 0 => x >= 0
  BY <1>2
<1> HIDE DEF x
<1>7. y - n = r
  <2> HIDE DEF y
  <2> QED BY <1>1, <1>2, <1>5
<1>8. n > 0 => -q >= 1
  BY <1>1, <1>2, <1>5, <1>6
<1> QED
  BY <1>2, <1>3, <1>7, <1>8

-----------------------------------------------------------------------------

ClubTypes == memberships \in Memberships /\ now \in Nat

LEMMA ClubTypesHold == ClubSpec => []ClubTypes
<1>1. ClubInit => ClubTypes
  BY DEF ClubInit, ClubTypes
<1>2. ClubTypes /\ [Tick]_clubVars => ClubTypes'
  BY DEF ClubTypes, Tick, clubVars
<1> QED
  BY <1>1, <1>2, PTL DEF ClubSpec

\* What the loops add up, and that they are sequences.
LEMMA TimesAre ==
  ASSUME ClubTypes
  PROVE  /\ Len(memberships) \in Nat
         /\ \A k \in 1..Len(memberships) :
              /\ memberships[k].start \in Nat /\ memberships[k].duration \in Nat
              /\ GetRemaining(memberships[k]) \in Int
              /\ GetRemaining(memberships[k]) = memberships[k].start + memberships[k].duration - now
         /\ PastTimes \in Seq(Int) /\ Len(PastTimes) = Len(memberships)
         /\ \A k \in 1..Len(memberships) :
              PastTimes[k] = memberships[k].duration - GetRemaining(memberships[k])
         /\ FlooredTimes \in Seq(Int) /\ Len(FlooredTimes) = Len(memberships)
         /\ \A k \in 1..Len(memberships) :
              FlooredTimes[k] = memberships[k].duration - MinZero(GetRemaining(memberships[k]))
<1>1. memberships \in Seq([start : Nat, duration : Nat, active : BOOLEAN]) /\ now \in Int
  BY ClubAssumption DEF ClubTypes
<1>2. Len(memberships) \in Nat
  BY <1>1
<1>3. \A k \in 1..Len(memberships) : memberships[k] \in [start : Nat, duration : Nat, active : BOOLEAN]
  <2> DEFINE Rows == [start : Nat, duration : Nat, active : BOOLEAN]
  <2>1. memberships \in Seq(Rows)
    BY <1>1
  <2> HIDE DEF Rows
  <2>2. \A k \in 1..Len(memberships) : memberships[k] \in Rows
    BY <2>1
  <2> QED BY <2>2 DEF Rows
<1>4. \A k \in 1..Len(memberships) :
        /\ memberships[k].start \in Nat /\ memberships[k].duration \in Nat
        /\ GetRemaining(memberships[k]) \in Int
        /\ GetRemaining(memberships[k]) = memberships[k].start + memberships[k].duration - now
  BY <1>1, <1>3 DEF GetRemaining
<1>5. \A k \in 1..Len(memberships) :
        /\ memberships[k].duration - GetRemaining(memberships[k]) \in Int
        /\ memberships[k].duration - MinZero(GetRemaining(memberships[k])) \in Int
  BY <1>4 DEF MinZero
<1>6. PastTimes \in Seq(Int) /\ Len(PastTimes) = Len(memberships)
  BY <1>2, <1>5 DEF PastTimes
<1>7. FlooredTimes \in Seq(Int) /\ Len(FlooredTimes) = Len(memberships)
  BY <1>2, <1>5 DEF FlooredTimes
<1> QED
  BY <1>2, <1>4, <1>6, <1>7 DEF PastTimes, FlooredTimes

\* The services count the same time until a subscription expires.
LEMMA SameTimes ==
  ASSUME ClubTypes, ~Expired
  PROVE  PastTime = CalculatePastTime
<1>1. \A k \in 1..Len(memberships) : PastTimes[k] = FlooredTimes[k]
  BY TimesAre DEF Expired, MinZero
<1>2. PastTimes = FlooredTimes
  BY <1>1, TimesAre DEF PastTimes, FlooredTimes
<1> QED
  BY <1>2 DEF PastTime, CalculatePastTime

\* Catalog counts no more than subscription, nor than was paid for.
LEMMA TimesCompare ==
  ASSUME ClubTypes, Begun
  PROVE  /\ PastTime \in Int /\ CalculatePastTime \in Int /\ Paid \in Int
         /\ 0 <= CalculatePastTime /\ CalculatePastTime <= PastTime /\ CalculatePastTime <= Paid
<1> DEFINE paid == [k \in 1..Len(memberships) |-> memberships[k].duration]
           none == [k \in 1..Len(memberships) |-> 0]
<1>1. paid \in Seq(Int) /\ Len(paid) = Len(memberships) /\ none \in Seq(Int) /\ Len(none) = Len(memberships)
  BY TimesAre
<1>2. \A k \in 1..Len(memberships) : paid[k] = memberships[k].duration /\ none[k] = 0
  OBVIOUS
<1>3. Paid = SumOf(paid)
  BY DEF Paid
<1> HIDE DEF paid, none
<1>4. \A k \in 1..Len(memberships) :
        none[k] <= FlooredTimes[k] /\ FlooredTimes[k] <= PastTimes[k] /\ FlooredTimes[k] <= paid[k]
  <2> TAKE k \in 1..Len(memberships)
  <2>1. memberships[k].start <= now
    BY DEF Begun
  <2>2. now \in Nat
    BY DEF ClubTypes
  <2> DEFINE begin == memberships[k].start
             lasts == memberships[k].duration
             left == GetRemaining(memberships[k])
  <2>3. begin \in Nat /\ lasts \in Nat /\ left = begin + lasts - now /\ begin <= now
    BY <2>1, TimesAre
  <2>4. PastTimes[k] = lasts - left /\ FlooredTimes[k] = lasts - (IF left < 0 THEN 0 ELSE left)
    BY TimesAre DEF MinZero
  <2>5. paid[k] = lasts /\ none[k] = 0
    BY <1>2
  <2> HIDE DEF begin, lasts, left
  <2> QED BY <2>2, <2>3, <2>4, <2>5
<1>5. SumOf(none) = 0
  BY <1>1, <1>2, SumsOfNothing
<1>6. SumOf(none) <= SumOf(FlooredTimes) /\ SumOf(FlooredTimes) \in Int
  BY <1>1, <1>4, TimesAre, SumsAreMonotone
<1>7. SumOf(FlooredTimes) <= SumOf(PastTimes) /\ SumOf(PastTimes) \in Int
  BY <1>4, TimesAre, SumsAreMonotone
<1>8. SumOf(FlooredTimes) <= SumOf(paid) /\ SumOf(paid) \in Int
  BY <1>1, <1>4, TimesAre, SumsAreMonotone
<1> QED
  BY <1>3, <1>5, <1>6, <1>7, <1>8 DEF PastTime, CalculatePastTime

\* A gift is never more than a period away.
LEMMA NextGift ==
  ASSUME CalculatePastTime \in Int
  PROVE  DaysTillNextGift \in 0..(GiftPeriod \div Day)
<1>1. Day \in Nat \ {0} /\ GiftPeriod \in Nat \ {0}
  BY ClubAssumption
<1> DEFINE past == CalculatePastTime
           wait == CalculateTotalGifts * GiftPeriod - CalculatePastTime
<1>2. wait \in 0..(GiftPeriod - 1)
  <2>1. wait = Ceil(past, GiftPeriod) * GiftPeriod - past
    BY DEF CalculateTotalGifts
  <2> HIDE DEF past, wait
  <2>2. past \in Int
    BY DEF past
  <2> QED BY <1>1, <2>1, <2>2, CeilIs
<1>3. DaysTillNextGift = wait \div Day
  BY DEF DaysTillNextGift
<1> HIDE DEF wait
<1>4. wait \in Int /\ GiftPeriod \in Int /\ 0 \in Int /\ 0 <= wait /\ wait <= GiftPeriod
  BY <1>1, <1>2
<1>5. 0 \div Day <= wait \div Day /\ wait \div Day <= GiftPeriod \div Day
  BY <1>1, <1>4, DivMonotone
<1>6. wait \div Day \in Int /\ GiftPeriod \div Day \in Int /\ 0 \div Day = 0
  BY <1>1, <1>4, DivMod
<1> QED
  BY <1>3, <1>5, <1>6

\* The subscription that is current has a day and a minute left, as it is told.
LEMMA TimeIsLeft ==
  ASSUME ClubTypes, Valid # {}
  PROVE  SubscriptionTime.days >= 1 /\ SubscriptionTime.minutes >= 1
<1> DEFINE first == CHOOSE k \in Valid : \A l \in Valid : k <= l
           remaining == GetRemaining(memberships[first])
<1>1. \E k \in Valid : \A l \in Valid : k <= l
  <2> DEFINE S == {n \in Nat : \A m \in Valid : m <= n => \E k \in Valid : \A l \in Valid : k <= l}
  <2>1. Valid \subseteq Nat \ {0}
    BY TimesAre DEF Valid
  <2>2. 0 \in S
    BY <2>1
  <2>3. ASSUME NEW n \in Nat, n \in S PROVE n + 1 \in S
    <3>1. SUFFICES ASSUME NEW m \in Valid, m <= n + 1, \A l \in Valid : ~(l <= n)
                   PROVE  \A l \in Valid : m <= l
      BY <2>3
    <3> QED BY <2>1, <3>1
  <2>4. \A n \in Nat : n \in S
    <3> HIDE DEF S
    <3> QED BY <2>2, <2>3, SetInduction
  <2>5. PICK m \in Valid : TRUE
    OBVIOUS
  <2>6. m \in Nat /\ m <= m /\ m \in S
    BY <2>1, <2>4
  <2> QED BY <2>6
<1>2. first \in Valid
  BY <1>1
<1>3. remaining \in Int /\ remaining > 0
  BY <1>2, TimesAre DEF Valid, IsValidSubscription
<1>4. SubscriptionTime = CalculateDaysAndMinutes(remaining)
  BY DEF SubscriptionTime, CurrentSubscription
<1> HIDE DEF remaining, first
<1>5. Minute \in Nat \ {0} /\ Day \in Nat \ {0}
  BY ClubAssumption
<1>6. Ceil(remaining, Minute) \in Int /\ Ceil(remaining, Minute) >= 1
  BY <1>3, <1>5, CeilIs
<1>7. remaining \div Day \in Int
  BY <1>3, <1>5, DivMod
<1> QED
  BY <1>4, <1>6, <1>7 DEF CalculateDaysAndMinutes

\* Subscription and catalog count the same days of a membership until it
\* expires; then catalog counts no more than was paid for, and no gift is more
\* than a period away: whatever the subscriptions are, and however long a
\* minute, a day and a period.
THEOREM ClubTimesAlwaysAgree == ClubSpec => []ClubTimesAgree
<1>1. ClubTypes => ClubTimesAgree
  <2> SUFFICES ASSUME ClubTypes, Begun
               PROVE  /\ ~Expired => PastVipDays = DaysAsHC
                      /\ PastVipDays >= DaysAsHC /\ CalculatePastTime \in 0..Paid
                      /\ DaysTillNextGift \in 0..(GiftPeriod \div Day)
                      /\ Valid # {} => SubscriptionTime.days >= 1 /\ SubscriptionTime.minutes >= 1
    BY DEF ClubTimesAgree
  <2>1. Day \in Nat \ {0}
    BY ClubAssumption
  <2>2. /\ PastTime \in Int /\ CalculatePastTime \in Int /\ Paid \in Int
        /\ 0 <= CalculatePastTime /\ CalculatePastTime <= PastTime /\ CalculatePastTime <= Paid
    BY TimesCompare
  <2>3. PastVipDays = PastTime \div Day
    BY <2>2 DEF PastVipDays, Truncated
  <2>4. CalculatePastTime \div Day <= PastTime \div Day
    BY <2>1, <2>2, DivMonotone
  <2>5. CalculatePastTime \div Day \in Int /\ PastTime \div Day \in Int
    BY <2>1, <2>2, DivMod
  <2>6. ~Expired => PastVipDays = DaysAsHC
    BY <2>3, SameTimes DEF DaysAsHC
  <2>7. PastVipDays >= DaysAsHC
    BY <2>3, <2>4, <2>5 DEF DaysAsHC
  <2>8. CalculatePastTime \in 0..Paid
    BY <2>2
  <2> QED BY <2>2, <2>6, <2>7, <2>8, NextGift, TimeIsLeft
<1> QED
  BY <1>1, ClubTypesHold, PTL

-----------------------------------------------------------------------------
(* Digits of a number *)

\* A quotient and a remainder are the ones there are.
LEMMA DivUnique ==
  ASSUME NEW n \in Int, NEW d \in Nat \ {0}, NEW q \in Int, NEW r \in 0..(d - 1), n = d * q + r
  PROVE  q = n \div d /\ r = n % d
<1> DEFINE p == n \div d
           t == n % d
<1>1. p \in Int /\ t \in 0..(d - 1) /\ n = d * p + t
  BY DivMod
<1> HIDE DEF p, t
<1>2. ASSUME p + 1 <= q PROVE FALSE
  <2>1. d * p + d <= d * q
    BY <1>1, <1>2, Grows
  <2> DEFINE x == d * p
             y == d * q
  <2>2. x \in Int /\ y \in Int /\ x + d <= y /\ n = x + t /\ n = y + r
    BY <1>1, <2>1
  <2> HIDE DEF x, y
  <2> QED BY <1>1, <2>2
<1>3. ASSUME q + 1 <= p PROVE FALSE
  <2>1. d * q + d <= d * p
    BY <1>1, <1>3, Grows
  <2> DEFINE x == d * p
             y == d * q
  <2>2. x \in Int /\ y \in Int /\ y + d <= x /\ n = x + t /\ n = y + r
    BY <1>1, <2>1
  <2> HIDE DEF x, y
  <2> QED BY <1>1, <2>2
<1>4. p = q
  BY <1>1, <1>2, <1>3
<1>5. t = r
  <2> DEFINE x == d * p
  <2>1. x \in Int /\ n = x + t /\ n = x + r
    BY <1>1, <1>4
  <2> HIDE DEF x
  <2> QED BY <1>1, <2>1
<1> QED
  BY <1>4, <1>5 DEF p, t

\* What is below a times b, from what is below a and what is below b.
LEMMA Mixed ==
  ASSUME NEW a \in Nat \ {0}, NEW b \in Nat \ {0}, NEW t \in 0..(b - 1), NEW r \in 0..(a - 1)
  PROVE  a * t + r \in 0..(a * b - 1) /\ a * b \in Nat \ {0}
<1>1. a * t + a <= a * b
  BY Grows
<1>2. a * t \in Nat /\ a * b \in Nat
  OBVIOUS
<1> DEFINE x == a * t
           y == a * b
<1>3. x \in Nat /\ y \in Nat /\ x + a <= y
  BY <1>1, <1>2
<1> HIDE DEF x, y
<1>4. x + r \in 0..(y - 1) /\ y \in Nat \ {0}
  BY <1>3
<1> QED
  BY <1>4 DEF x, y

LEMMA NestedDiv ==
  ASSUME NEW n \in Int, NEW a \in Nat \ {0}, NEW b \in Nat \ {0}
  PROVE  (n \div a) \div b = n \div (a * b)
<1> DEFINE q == n \div a
           r == n % a
           s == q \div b
           t == q % b
<1>1. q \in Int /\ r \in 0..(a - 1) /\ n = a * q + r
  BY DivMod
<1>2. s \in Int /\ t \in 0..(b - 1) /\ q = b * s + t
  BY <1>1, DivMod
<1> HIDE DEF q, r, s, t
<1>3. a * t + r \in 0..(a * b - 1) /\ a * b \in Nat \ {0}
  BY <1>1, <1>2, Mixed
<1>4. n = (a * b) * s + (a * t + r)
  <2>1. a * q = a * (b * s) + a * t
    BY <1>1, <1>2
  <2>2. a * (b * s) = (a * b) * s
    BY <1>2
  <2> QED BY <1>1, <1>2, <2>1, <2>2
<1>5. s = n \div (a * b)
  <2> DEFINE d == a * b
             e == a * t + r
  <2>1. d \in Nat \ {0} /\ e \in 0..(d - 1) /\ n = d * s + e
    BY <1>3, <1>4
  <2> HIDE DEF d, e
  <2>2. s = n \div d
    BY <1>2, <2>1, DivUnique
  <2> QED BY <2>2 DEF d
<1> QED
  BY <1>5 DEF q, s

\* The last digits of a number, and the last of them.
LEMMA LastDigit ==
  ASSUME NEW m \in Int, NEW b \in Nat \ {0}, NEW c \in Nat \ {0}
  PROVE  m % (c * b) = ((m \div b) % c) * b + (m % b)
<1> DEFINE u == m \div b
           v == m % b
           s == u \div c
           t == u % c
<1>1. u \in Int /\ v \in 0..(b - 1) /\ m = b * u + v
  BY DivMod
<1>2. s \in Int /\ t \in 0..(c - 1) /\ u = c * s + t
  BY <1>1, DivMod
<1> HIDE DEF u, v, s, t
<1>3. b * t + v \in 0..(b * c - 1) /\ b * c \in Nat \ {0}
  BY <1>1, <1>2, Mixed
<1>4. m = (b * c) * s + (b * t + v)
  <2>1. b * u = b * (c * s) + b * t
    BY <1>1, <1>2
  <2>2. b * (c * s) = (b * c) * s
    BY <1>2
  <2> QED BY <1>1, <1>2, <2>1, <2>2
<1>5. b * t + v = m % (b * c)
  <2> DEFINE d == b * c
             e == b * t + v
  <2>1. d \in Nat \ {0} /\ e \in 0..(d - 1) /\ m = d * s + e
    BY <1>3, <1>4
  <2> HIDE DEF d, e
  <2>2. e = m % d
    BY <1>2, <2>1, DivUnique
  <2> QED BY <2>2 DEF d, e
<1>6. b * c = c * b /\ b * t = t * b
  BY <1>2
<1> QED
  BY <1>5, <1>6 DEF u, v, t

-----------------------------------------------------------------------------
(* Loops *)

\* A loop of n steps: turn[k] is what the k-th makes of the value before.
Loops(f, n, first, turn) ==
  /\ DOMAIN f = 0..n /\ f = [k \in 0..n |-> f[k]]
  /\ f[0] = first
  /\ \A k \in 1..n : f[k] = turn[k][f[k - 1]]

LEMMA LoopsEnd ==
  ASSUME NEW S, NEW n \in Nat, NEW first \in S, NEW turn \in [1..n -> [S -> S]]
  PROVE  \E f \in [0..n -> S] : Loops(f, n, first, turn)
<1> DEFINE N == {m \in Nat : m <= n => \E f \in [0..m -> S] : Loops(f, m, first, turn)}
<1>1. 0 \in N
  <2>1. [k \in 0..0 |-> first] \in [0..0 -> S] /\ Loops([k \in 0..0 |-> first], 0, first, turn)
    BY DEF Loops
  <2> QED BY <2>1
<1>2. ASSUME NEW m \in Nat, m \in N, m + 1 <= n
      PROVE  \E f \in [0..(m + 1) -> S] : Loops(f, m + 1, first, turn)
  <2>1. \E f \in [0..m -> S] : Loops(f, m, first, turn)
    BY <1>2
  <2>2. PICK f \in [0..m -> S] : Loops(f, m, first, turn)
    BY <2>1
  <2> DEFINE last == turn[m + 1][f[m]]
             g == [k \in 0..(m + 1) |-> IF k = m + 1 THEN last ELSE f[k]]
  <2>3. m + 1 \in 1..n /\ turn[m + 1] \in [S -> S] /\ f[m] \in S /\ last \in S
    BY <1>2, <2>2
  <2>4. g \in [0..(m + 1) -> S]
    <3> HIDE DEF last
    <3> QED BY <2>2, <2>3
  <2>5. g[0] = first
    BY <2>2 DEF Loops
  <2>6. \A k \in 1..(m + 1) : g[k] = turn[k][g[k - 1]]
    <3> TAKE k \in 1..(m + 1)
    <3>1. k \in 0..(m + 1) /\ k - 1 \in 0..(m + 1) /\ k - 1 # m + 1
      OBVIOUS
    <3>2. g[k - 1] = f[k - 1]
      BY <3>1
    <3>3. CASE k = m + 1
      BY <3>1, <3>2, <3>3
    <3>4. CASE k # m + 1
      <4>1. k \in 1..m /\ g[k] = f[k]
        BY <3>1, <3>4
      <4> QED BY <2>2, <3>2, <4>1 DEF Loops
    <3> QED BY <3>3, <3>4
  <2> HIDE DEF g
  <2>7. DOMAIN g = 0..(m + 1) /\ g = [k \in 0..(m + 1) |-> g[k]]
    BY <2>4
  <2>8. Loops(g, m + 1, first, turn)
    BY <2>5, <2>6, <2>7 DEF Loops
  <2> QED BY <2>4, <2>8
<1>3. \A m \in Nat : m \in N => m + 1 \in N
  <2> TAKE m \in Nat
  <2> HAVE m \in N
  <2>1. CASE m + 1 <= n
    BY <1>2, <2>1
  <2>2. CASE ~(m + 1 <= n)
    BY <2>2
  <2> QED BY <2>1, <2>2
<1>4. \A m \in Nat : m \in N
  <2> HIDE DEF N
  <2> QED BY <1>1, <1>3, SetInduction
<1> QED
  BY <1>4

\* Two loops are the same as far as both go, if their steps are.
LEMMA LoopsAgree ==
  ASSUME NEW n \in Nat, NEW m \in Nat, n <= m, NEW first, NEW s, NEW t, NEW f, NEW g,
         Loops(f, n, first, s), Loops(g, m, first, t),
         \A k \in 1..n : s[k] = t[k]
  PROVE  \A k \in 0..n : f[k] = g[k]
<1> DEFINE N == {k \in Nat : k <= n => f[k] = g[k]}
<1>1. 0 \in N
  BY DEF Loops
<1>2. ASSUME NEW k \in Nat, k \in N PROVE k + 1 \in N
  <2>1. SUFFICES ASSUME k + 1 <= n PROVE f[k + 1] = g[k + 1]
    OBVIOUS
  <2>2. k + 1 \in 1..n /\ k + 1 \in 1..m /\ (k + 1) - 1 = k /\ f[k] = g[k]
    BY <1>2, <2>1
  <2>3. f[k + 1] = s[k + 1][f[k]] /\ g[k + 1] = t[k + 1][g[k]]
    BY <2>2 DEF Loops
  <2> QED BY <2>2, <2>3
<1>3. \A k \in Nat : k \in N
  <2> HIDE DEF N
  <2> QED BY <1>1, <1>2, SetInduction
<1> QED
  BY <1>3

-----------------------------------------------------------------------------
(* Numbers in base Base *)

Byte == 0..(Base - 1)
Positive == Nat \ {0}

LEMMA LimitLoops ==
  ASSUME NEW w \in Nat
  PROVE  \E p \in [0..w -> Positive] :
           Loops(p, w, 1, [k \in 1..w |-> [x \in Positive |-> x * Base]]) /\ Limit(w) = p[w]
<1> DEFINE times == [x \in Positive |-> x * Base]
           turn == [k \in 1..w |-> times]
           Eq(p) == p = [k \in 0..w |-> IF k = 0 THEN 1 ELSE p[k - 1] * Base]
           power == CHOOSE p : Eq(p)
<1>1. Base \in Nat /\ Base # 0
  BY BaseAssumption
<1>2. \A x \in Positive : x * Base \in Positive
  BY <1>1 DEF Positive
<1>3. times \in [Positive -> Positive]
  BY <1>2
<1>4. turn \in [1..w -> [Positive -> Positive]] /\ 1 \in Positive
  <2> HIDE DEF times
  <2> QED BY <1>3 DEF Positive
<1>5. PICK f \in [0..w -> Positive] : Loops(f, w, 1, turn)
  <2> HIDE DEF turn
  <2> QED BY <1>4, LoopsEnd
<1>6. \A k \in 1..w : k \in 0..w /\ k - 1 \in 0..w /\ f[k - 1] \in Positive /\ f[k] = f[k - 1] * Base
  <2> TAKE k \in 1..w
  <2>1. k \in 0..w /\ k - 1 \in 0..w /\ f[k - 1] \in Positive
    BY <1>5
  <2>2. turn[k] = times
    OBVIOUS
  <2>3. times[f[k - 1]] = f[k - 1] * Base
    BY <2>1
  <2> HIDE DEF turn, times
  <2>4. f[k] = turn[k][f[k - 1]]
    BY <1>5 DEF Loops
  <2> QED BY <2>1, <2>2, <2>3, <2>4
<1>7. Eq(f)
  <2>1. f = [k \in 0..w |-> f[k]] /\ f[0] = 1
    BY <1>5 DEF Loops
  <2>2. \A k \in 0..w : f[k] = IF k = 0 THEN 1 ELSE f[k - 1] * Base
    BY <1>6, <2>1
  <2> QED BY <2>1, <2>2
<1>8. Eq(power)
  BY <1>7
<1>9. Limit(w) = power[w]
  BY DEF Limit
<1> HIDE DEF power
<1>10. power = [k \in 0..w |-> IF k = 0 THEN 1 ELSE power[k - 1] * Base]
  BY <1>8
<1> HIDE DEF Eq
<1>11. \A k \in 0..w : power[k] = IF k = 0 THEN 1 ELSE power[k - 1] * Base
  BY <1>10
<1> DEFINE N == {k \in Nat : k <= w => power[k] = f[k]}
<1>12. 0 \in N
  BY <1>5, <1>11 DEF Loops
<1>13. ASSUME NEW k \in Nat, k \in N PROVE k + 1 \in N
  <2>1. SUFFICES ASSUME k + 1 <= w PROVE power[k + 1] = f[k + 1]
    OBVIOUS
  <2>2. k + 1 \in 0..w /\ k + 1 # 0 /\ k + 1 \in 1..w /\ (k + 1) - 1 = k /\ power[k] = f[k]
    BY <1>13, <2>1
  <2>3. power[k + 1] = power[k] * Base
    BY <1>11, <2>2
  <2>4. f[k + 1] = f[k] * Base
    BY <1>6, <2>2
  <2> QED BY <2>2, <2>3, <2>4
<1>14. \A k \in Nat : k \in N
  <2> HIDE DEF N
  <2> QED BY <1>12, <1>13, SetInduction
<1>15. Limit(w) = f[w]
  BY <1>9, <1>14
<1> QED
  BY <1>5, <1>15

LEMMA LimitIs ==
  /\ Limit(0) = 1
  /\ \A w \in Nat : Limit(w) \in Positive /\ Limit(w + 1) = Limit(w) * Base
<1>1. Limit(0) = 1
  <2>1. PICK p \in [0..0 -> Positive] :
          Loops(p, 0, 1, [k \in 1..0 |-> [x \in Positive |-> x * Base]]) /\ Limit(0) = p[0]
    BY LimitLoops
  <2> QED BY <2>1 DEF Loops
<1>2. ASSUME NEW w \in Nat PROVE Limit(w) \in Positive /\ Limit(w + 1) = Limit(w) * Base
  <2> DEFINE times == [x \in Positive |-> x * Base]
             s == [k \in 1..w |-> times]
             t == [k \in 1..(w + 1) |-> times]
  <2>1. PICK p \in [0..w -> Positive] : Loops(p, w, 1, s) /\ Limit(w) = p[w]
    BY LimitLoops
  <2>2. w + 1 \in Nat
    OBVIOUS
  <2>3. PICK q \in [0..(w + 1) -> Positive] : Loops(q, w + 1, 1, t) /\ Limit(w + 1) = q[w + 1]
    BY <2>2, LimitLoops
  <2>4. \A k \in 1..w : s[k] = t[k]
    OBVIOUS
  <2>5. \A x \in Positive : times[x] = x * Base
    OBVIOUS
  <2>6. w + 1 \in 1..(w + 1) /\ t[w + 1] = times
    OBVIOUS
  <2> HIDE DEF times, s, t
  <2>7. \A k \in 0..w : p[k] = q[k]
    BY <2>1, <2>2, <2>3, <2>4, LoopsAgree
  <2>8. q[w + 1] = times[q[w]]
    <3>1. q[w + 1] = t[w + 1][q[(w + 1) - 1]]
      BY <2>3, <2>6 DEF Loops
    <3>2. (w + 1) - 1 = w
      OBVIOUS
    <3> QED BY <2>6, <3>1, <3>2
  <2>9. w \in 0..w /\ p[w] \in Positive /\ p[w] = q[w]
    BY <2>1, <2>7
  <2> QED BY <2>1, <2>3, <2>5, <2>8, <2>9
<1> QED
  BY <1>1, <1>2

LEMMA UnsignedIs ==
  ASSUME NEW bytes \in Seq(Byte)
  PROVE  \E f \in [0..Len(bytes) -> Int] :
           /\ f[0] = 0
           /\ \A k \in 1..Len(bytes) : f[k] = f[k - 1] * Base + bytes[k]
           /\ Unsigned(bytes) = f[Len(bytes)]
<1> DEFINE n == Len(bytes)
           turn == [k \in 1..n |-> [x \in Int |-> x * Base + bytes[k]]]
           Eq(p) == p = [k \in 0..n |-> IF k = 0 THEN 0 ELSE p[k - 1] * Base + bytes[k]]
           number == CHOOSE p : Eq(p)
<1>1. Base \in Int /\ n \in Nat /\ \A k \in 1..n : bytes[k] \in Int
  BY BaseAssumption DEF Byte
<1>2. \A x \in Int, k \in 1..n : x * Base + bytes[k] \in Int
  BY <1>1
<1>3. turn \in [1..n -> [Int -> Int]]
  BY <1>2
<1>4. \A k \in 1..n : \A x \in Int : turn[k][x] = x * Base + bytes[k]
  OBVIOUS
<1>5. PICK f \in [0..n -> Int] : Loops(f, n, 0, turn)
  <2> HIDE DEF turn
  <2>1. 0 \in Int
    OBVIOUS
  <2> QED BY <1>1, <1>3, <2>1, LoopsEnd
<1>6. \A k \in 1..n : k \in 0..n /\ k - 1 \in 0..n /\ f[k - 1] \in Int /\ f[k] = f[k - 1] * Base + bytes[k]
  <2> HIDE DEF turn
  <2> TAKE k \in 1..n
  <2>1. k \in 0..n /\ k - 1 \in 0..n /\ f[k - 1] \in Int
    BY <1>1, <1>5
  <2>2. f[k] = turn[k][f[k - 1]]
    BY <1>5 DEF Loops
  <2> QED BY <1>4, <2>1, <2>2
<1> HIDE DEF turn
<1>7. Eq(f)
  <2>1. f = [k \in 0..n |-> f[k]] /\ f[0] = 0
    BY <1>5 DEF Loops
  <2>2. \A k \in 0..n : f[k] = IF k = 0 THEN 0 ELSE f[k - 1] * Base + bytes[k]
    <3> HIDE DEF n
    <3> TAKE k \in 0..n
    <3>1. CASE k = 0
      BY <2>1, <3>1
    <3>2. CASE k # 0
      <4>1. k \in 1..n
        BY <1>1, <3>2
      <4> QED BY <1>6, <3>2, <4>1
    <3> QED BY <3>1, <3>2
  <2> QED BY <2>1, <2>2
<1>8. Eq(number)
  BY <1>7
<1>9. Unsigned(bytes) = number[n]
  BY DEF Unsigned
<1> HIDE DEF number
<1>10. number = [k \in 0..n |-> IF k = 0 THEN 0 ELSE number[k - 1] * Base + bytes[k]]
  BY <1>8
<1> HIDE DEF Eq
<1>11. \A k \in 0..n : number[k] = IF k = 0 THEN 0 ELSE number[k - 1] * Base + bytes[k]
  BY <1>10
<1> DEFINE N == {k \in Nat : k <= n => number[k] = f[k]}
<1> HIDE DEF n
<1>12. 0 \in N
  BY <1>1, <1>5, <1>11 DEF Loops
<1>13. ASSUME NEW k \in Nat, k \in N PROVE k + 1 \in N
  <2>1. SUFFICES ASSUME k + 1 <= n PROVE number[k + 1] = f[k + 1]
    OBVIOUS
  <2>2. k + 1 \in 0..n /\ k + 1 # 0 /\ k + 1 \in 1..n /\ (k + 1) - 1 = k /\ number[k] = f[k]
    BY <1>1, <1>13, <2>1
  <2>3. number[k + 1] = number[k] * Base + bytes[k + 1]
    BY <1>11, <2>2
  <2>4. f[k + 1] = f[k] * Base + bytes[k + 1]
    BY <1>6, <2>2
  <2> QED BY <2>2, <2>3, <2>4
<1>14. \A k \in Nat : k \in N
  <2> HIDE DEF N
  <2> QED BY <1>12, <1>13, SetInduction
<1>15. Unsigned(bytes) = f[n]
  BY <1>1, <1>9, <1>14
<1>16. f[0] = 0
  BY <1>5 DEF Loops
<1> QED
  BY <1>5, <1>6, <1>15, <1>16 DEF n

LEMMA BigEndianIs ==
  ASSUME NEW n \in Int, NEW w \in Nat
  PROVE  /\ BigEndian(n, w) \in Seq(Byte) /\ Len(BigEndian(n, w)) = w
         /\ \A k \in 1..w : BigEndian(n, w)[k] = (n \div Limit(w - k)) % Base
<1>1. Base \in Nat \ {0}
  BY BaseAssumption
<1>2. ASSUME NEW k \in 1..w PROVE (n \div Limit(w - k)) % Base \in Byte
  <2>1. w - k \in Nat
    OBVIOUS
  <2>2. Limit(w - k) \in Nat \ {0}
    BY <2>1, LimitIs DEF Positive
  <2>3. n \div Limit(w - k) \in Int
    <3> DEFINE d == Limit(w - k)
    <3> HIDE DEF d
    <3>1. d \in Nat \ {0}
      BY <2>2 DEF d
    <3> QED BY <3>1, DivMod DEF d
  <2> QED BY <1>1, <2>3, DivMod DEF Byte
<1> QED
  BY <1>2 DEF BigEndian

\* A number that is written with w digits is read back, but for the digits
\* there was no room for; a negative one as its complement.
THEOREM NumbersReadBack ==
  ASSUME NEW n \in Int, NEW w \in Nat
  PROVE  Unsigned(BigEndian(n, w)) = n % Limit(w)
<1> DEFINE bytes == BigEndian(n, w)
<1>1. /\ bytes \in Seq(Byte) /\ Len(bytes) = w
      /\ \A k \in 1..w : bytes[k] = (n \div Limit(w - k)) % Base
  BY BigEndianIs
<1> HIDE DEF bytes
<1>2. PICK f \in [0..w -> Int] :
        /\ f[0] = 0
        /\ \A k \in 1..w : f[k] = f[k - 1] * Base + bytes[k]
        /\ Unsigned(bytes) = f[w]
  BY <1>1, UnsignedIs
<1>3. Base \in Nat \ {0}
  BY BaseAssumption
<1> DEFINE N == {k \in Nat : k <= w => f[k] = (n \div Limit(w - k)) % Limit(k)}
<1>4. 0 \in N
  <2>1. Limit(w) \in Nat \ {0} /\ w - 0 = w
    BY LimitIs DEF Positive
  <2> DEFINE q == n \div Limit(w)
  <2>2. q \in Int
    BY <2>1, DivMod
  <2> HIDE DEF q
  <2>3. q % 1 = 0
    BY <2>2
  <2> QED BY <1>2, <2>1, <2>3, LimitIs DEF q
<1>5. ASSUME NEW k \in Nat, k \in N PROVE k + 1 \in N
  <2>1. SUFFICES ASSUME k + 1 <= w PROVE f[k + 1] = (n \div Limit(w - (k + 1))) % Limit(k + 1)
    OBVIOUS
  <2> DEFINE l == Limit(w - (k + 1))
             m == n \div l
  <2>2. w - (k + 1) \in Nat /\ (w - (k + 1)) + 1 = w - k /\ k + 1 \in 1..w /\ (k + 1) - 1 = k
    BY <2>1
  <2>3. l \in Nat \ {0} /\ Limit(w - k) = l * Base
    BY <2>2, LimitIs DEF Positive
  <2> HIDE DEF l
  <2>4. m \in Int
    BY <2>3, DivMod
  <2>5. n \div Limit(w - k) = m \div Base
    <3>1. m \div Base = n \div (l * Base)
      BY Zenon, <1>3, <2>3, NestedDiv
    <3> QED BY Zenon, <2>3, <3>1
  <2>6. Limit(k) \in Nat \ {0} /\ Limit(k + 1) = Limit(k) * Base
    BY LimitIs DEF Positive
  <2>7. bytes[k + 1] = m % Base
    BY <1>1, <2>2 DEF l
  <2>8. f[k] = (n \div Limit(w - k)) % Limit(k)
    BY <1>5, <2>1
  <2>9. f[k + 1] = f[k] * Base + bytes[k + 1]
    BY <1>2, <2>2
  <2> HIDE DEF m
  <2>10. m % Limit(k + 1) = ((m \div Base) % Limit(k)) * Base + (m % Base)
    <3> DEFINE c == Limit(k)
    <3>1. c \in Nat \ {0}
      BY <2>6
    <3> HIDE DEF c
    <3>2. m % (c * Base) = ((m \div Base) % c) * Base + (m % Base)
      BY <1>3, <2>4, <3>1, LastDigit
    <3> QED BY <2>6, <3>2 DEF c
  <2> QED BY <2>5, <2>7, <2>8, <2>9, <2>10 DEF m, l
<1>6. \A k \in Nat : k \in N
  <2> HIDE DEF N
  <2> QED BY <1>4, <1>5, SetInduction
<1>7. f[w] = (n \div Limit(0)) % Limit(w)
  <2>1. w - w = 0 /\ w <= w
    OBVIOUS
  <2> QED BY <1>6, <2>1
<1>8. n \div Limit(0) = n
  BY LimitIs
<1> QED
  BY <1>2, <1>7, <1>8 DEF bytes

-----------------------------------------------------------------------------
(* Bytes, one after the other *)

LEMMA BytesAssociative ==
  \A s, t, u \in Seq(Byte) : (s \o t) \o u = s \o (t \o u)
BY ConcatAssociative

LEMMA FlattenLoops ==
  ASSUME NEW S, NEW seqs \in Seq(Seq(S))
  PROVE  \E f \in [0..Len(seqs) -> Seq(S)] :
           /\ f[0] = <<>>
           /\ \A k \in 1..Len(seqs) : f[k] = f[k - 1] \o seqs[k]
           /\ FlattenSeq(seqs) = f[Len(seqs)]
<1> DEFINE n == Len(seqs)
           T == Seq(S)
           turn == [k \in 1..n |-> [x \in T |-> x \o seqs[k]]]
           Eq(p) == p = [k \in 1..n |-> IF k = 1 THEN seqs[k] ELSE p[k - 1] \o seqs[k]]
           flatten == CHOOSE p : Eq(p)
<1>1. n \in Nat /\ <<>> \in T
  OBVIOUS
<1>2. \A k \in 1..n : seqs[k] \in T
  <2> HIDE DEF T
  <2>1. seqs \in Seq(T)
    BY DEF T
  <2> QED BY <2>1
<1>3. \A x \in T, y \in T : x \o y \in T
  OBVIOUS
<1>4. <<>> \o seqs[1] = seqs[1] \/ n = 0
  <2>1. CASE n # 0
    <3>1. seqs[1] \in Seq(S)
      BY <1>1, <1>2, <2>1
    <3> QED BY <3>1, ConcatEmptySeq
  <2> QED BY <2>1
<1> HIDE DEF T
<1>5. turn \in [1..n -> [T -> T]]
  BY <1>2, <1>3
<1>6. \A k \in 1..n : \A x \in T : turn[k][x] = x \o seqs[k]
  OBVIOUS
<1> HIDE DEF turn
<1>7. PICK f \in [0..n -> T] : Loops(f, n, <<>>, turn)
  BY <1>1, <1>5, LoopsEnd
<1>8. \A k \in 1..n : k \in 0..n /\ k - 1 \in 0..n /\ f[k - 1] \in T /\ f[k] = f[k - 1] \o seqs[k]
  <2> TAKE k \in 1..n
  <2> HIDE DEF n
  <2>1. k \in 0..n /\ k - 1 \in 0..n
    BY <1>1
  <2>0. f[k - 1] \in T
    BY <1>7, <2>1
  <2>2. f[k] = turn[k][f[k - 1]]
    BY <1>7 DEF Loops
  <2> QED BY <1>6, <2>0, <2>1, <2>2
<1>9. f[0] = <<>>
  BY <1>7 DEF Loops
<1>10. FlattenSeq(seqs) = f[n]
  <2>1. CASE n = 0
    <3>1. seqs = <<>>
      BY <2>1
    <3>2. FlattenSeq(seqs) = seqs
      BY <2>1 DEF FlattenSeq
    <3> QED BY <1>9, <2>1, <3>1, <3>2
  <2>2. CASE n # 0
    <3> DEFINE g == [k \in 1..n |-> f[k]]
    <3>1. \A k \in 1..n : g[k] = f[k]
      OBVIOUS
    <3> HIDE DEF n
    <3>2. \A k \in 1..n : g[k] = IF k = 1 THEN seqs[k] ELSE g[k - 1] \o seqs[k]
      <4> TAKE k \in 1..n
      <4>1. CASE k = 1
        <5>1. 1 \in 1..n /\ 1 - 1 = 0
          BY <1>1, <2>2
        <5>2. f[1] = f[0] \o seqs[1]
          BY <1>8, <5>1
        <5> QED BY <1>4, <1>9, <2>2, <3>1, <4>1, <5>2
      <4>2. CASE k # 1
        <5>1. k - 1 \in 1..n
          BY <1>1, <4>2
        <5> QED BY <1>8, <3>1, <4>2, <5>1
      <4> QED BY <4>1, <4>2
    <3>3. Eq(g)
      BY <3>2
    <3>4. Eq(flatten)
      BY <3>3
    <3>5. FlattenSeq(seqs) = flatten[n]
      BY <2>2 DEF FlattenSeq, n
    <3> HIDE DEF g, flatten
    <3>6. flatten = [k \in 1..n |-> IF k = 1 THEN seqs[k] ELSE flatten[k - 1] \o seqs[k]]
      BY <3>4
    <3> HIDE DEF Eq
    <3>7. \A k \in 1..n : flatten[k] = IF k = 1 THEN seqs[k] ELSE flatten[k - 1] \o seqs[k]
      BY <3>6
    <3> DEFINE N == {k \in Nat : k + 1 <= n => flatten[k + 1] = g[k + 1]}
    <3>8. 0 \in N
      BY <1>1, <2>2, <3>2, <3>7
    <3>9. ASSUME NEW k \in Nat, k \in N PROVE k + 1 \in N
      <4>1. SUFFICES ASSUME (k + 1) + 1 <= n PROVE flatten[(k + 1) + 1] = g[(k + 1) + 1]
        OBVIOUS
      <4>2. (k + 1) + 1 \in 1..n /\ (k + 1) + 1 # 1 /\ ((k + 1) + 1) - 1 = k + 1 /\ k + 1 <= n
        BY <1>1, <4>1
      <4>3. flatten[k + 1] = g[k + 1]
        BY <3>9, <4>2
      <4> QED BY <3>2, <3>7, <4>2, <4>3
    <3>10. \A k \in Nat : k \in N
      <4> HIDE DEF N
      <4> QED BY <3>8, <3>9, SetInduction
    <3>11. n - 1 \in Nat /\ (n - 1) + 1 = n
      BY <1>1, <2>2
    <3>12. flatten[n] = g[n]
      BY <3>10, <3>11
    <3>13. n \in 1..n
      BY <1>1, <2>2
    <3> QED BY <3>1, <3>5, <3>12, <3>13
  <2> QED BY <2>1, <2>2
<1> QED
  BY <1>7, <1>8, <1>9, <1>10 DEF T

\* What is left of a sequence behind its beginning.
LEMMA Cut ==
  ASSUME NEW S, NEW s \in Seq(S), NEW t \in Seq(S)
  PROVE  /\ s \o t \in Seq(S) /\ Len(s \o t) = Len(s) + Len(t)
         /\ SubSeq(s \o t, 1, Len(s)) = s
         /\ From(s \o t, Len(s) + 1) = t
<1>1. s \o t \in Seq(S) /\ Len(s \o t) = Len(s) + Len(t) /\ Len(s) \in Nat /\ Len(t) \in Nat
  BY ConcatProperties
<1>2. \A i \in 1..Len(s) + Len(t) : (s \o t)[i] = IF i <= Len(s) THEN s[i] ELSE t[i - Len(s)]
  BY ConcatProperties
<1> DEFINE u == s \o t
<1>3. \A i \in 1..Len(s) + Len(t) : u[i] \in S
  BY <1>1
<1>4. SubSeq(u, 1, Len(s)) = s
  <2> DEFINE v == SubSeq(u, 1, Len(s))
  <2> HIDE DEF u
  <2>1. \A i \in 1..Len(s) : u[i] \in S
    BY <1>1, <1>3
  <2>2. v \in Seq(S) /\ Len(v) = Len(s) /\ \A i \in 1..Len(s) : v[i] = u[i]
    <3>1. /\ SubSeq(u, 1, Len(s)) \in Seq(S)
          /\ Len(SubSeq(u, 1, Len(s))) = IF 1 <= Len(s) THEN Len(s) - 1 + 1 ELSE 0
          /\ \A i \in 1..Len(s) - 1 + 1 : SubSeq(u, 1, Len(s))[i] = u[1 + i - 1]
      BY <1>1, <2>1, SubSeqProperties
    <3> QED BY <1>1, <3>1
  <2>3. \A i \in 1..Len(s) : v[i] = s[i]
    BY <1>1, <1>2, <2>2 DEF u
  <2> HIDE DEF v
  <2> QED BY <2>2, <2>3, SeqEqual DEF v
<1>5. From(u, Len(s) + 1) = t
  <2> DEFINE m == Len(s) + 1
             n == Len(s) + Len(t)
             v == SubSeq(u, m, n)
  <2>1. From(u, Len(s) + 1) = v
    BY <1>1 DEF From
  <2> HIDE DEF u
  <2>2. \A i \in m..n : u[i] \in S
    BY <1>1, <1>3
  <2>3. v \in Seq(S) /\ Len(v) = Len(t) /\ \A i \in 1..Len(t) : v[i] = u[Len(s) + i]
    <3>1. m \in Int /\ n \in Int
      BY <1>1
    <3> HIDE DEF m, n
    <3>2. /\ SubSeq(u, m, n) \in Seq(S)
          /\ Len(SubSeq(u, m, n)) = IF m <= n THEN n - m + 1 ELSE 0
          /\ \A i \in 1..n - m + 1 : SubSeq(u, m, n)[i] = u[m + i - 1]
      BY <2>2, <3>1, SubSeqProperties
    <3>3. n - m + 1 = Len(t) /\ \A i \in 1..Len(t) : m + i - 1 = Len(s) + i
      BY <1>1 DEF m, n
    <3>4. (IF m <= n THEN n - m + 1 ELSE 0) = Len(t)
      BY <1>1 DEF m, n
    <3> QED BY <3>2, <3>3, <3>4
  <2>4. \A i \in 1..Len(t) : v[i] = t[i]
    <3> TAKE i \in 1..Len(t)
    <3>1. Len(s) + i \in 1..Len(s) + Len(t) /\ ~(Len(s) + i <= Len(s)) /\ (Len(s) + i) - Len(s) = i
      BY <1>1
    <3> QED BY <1>2, <2>3, <3>1 DEF u
  <2> HIDE DEF v
  <2> QED BY <2>1, <2>3, <2>4, SeqEqual
<1> QED
  BY <1>1, <1>4, <1>5


-----------------------------------------------------------------------------
(* Fields, as bytes *)

\* The fields a client reads: numbers, texts and truth values.
Plain == {Num(n) : n \in Int} \union {Str(l) : l \in Nat} \union {Bool(b) : b \in BOOLEAN}
FieldBytes(v) ==
  IF v.kind = "int" THEN IntegerToBytes(v.value)
  ELSE IF v.kind = "string" THEN AppendString(v.value) ELSE <<BoolToByte(v.value)>>

\* s[k] are the bytes behind the first k fields.
Behind(s, bytes, fields) ==
  /\ s \in [0..Len(fields) -> Seq(Byte)]
  /\ s[0] = bytes /\ s[Len(fields)] = <<>>
  /\ \A k \in 1..Len(fields) : s[k - 1] = FieldBytes(fields[k]) \o s[k]
Encodes(bytes, fields) ==
  bytes \in Seq(Byte) /\ fields \in Seq(Plain) /\ \E s : Behind(s, bytes, fields)

LEMMA BytesOfPlain ==
  ASSUME NEW v \in Plain
  PROVE  FieldBytes(v) \in Seq(Byte)
<1>1. Base \in Nat /\ 0 \in Byte /\ 1 \in Byte
  BY BaseAssumption DEF Byte
<1>2. ASSUME NEW n \in Int, v = Num(n) PROVE FieldBytes(v) \in Seq(Byte)
  <2>1. FieldBytes(v) = BigEndian(n, 4)
    BY <1>2 DEF FieldBytes, Num, Value, IntegerToBytes
  <2> QED BY <2>1, BigEndianIs
<1>3. ASSUME NEW l \in Nat, v = Str(l) PROVE FieldBytes(v) \in Seq(Byte)
  <2>1. FieldBytes(v) = BigEndian(l, 2) \o [k \in 1..l |-> 0]
    BY <1>3 DEF FieldBytes, Str, Value, AppendString, ShortToBytes
  <2>2. BigEndian(l, 2) \in Seq(Byte)
    BY BigEndianIs
  <2>3. [k \in 1..l |-> 0] \in Seq(Byte)
    BY <1>1
  <2> QED BY <2>1, <2>2, <2>3, ConcatProperties
<1>4. ASSUME NEW b \in BOOLEAN, v = Bool(b) PROVE FieldBytes(v) \in Seq(Byte)
  <2>1. FieldBytes(v) = <<BoolToByte(b)>>
    BY <1>4 DEF FieldBytes, Bool, Value
  <2>2. BoolToByte(b) \in Byte
    BY <1>1 DEF BoolToByte
  <2> QED BY <2>1, <2>2
<1> QED
  BY <1>2, <1>3, <1>4 DEF Plain

LEMMA EncodesNothing == Encodes(<<>>, <<>>)
<1>1. Behind([k \in 0..0 |-> <<>>], <<>>, <<>>)
  BY DEF Behind
<1> QED
  BY <1>1 DEF Encodes

LEMMA EncodesOne ==
  ASSUME NEW v \in Plain
  PROVE  Encodes(FieldBytes(v), <<v>>)
<1> DEFINE b == FieldBytes(v)
           s == [k \in 0..1 |-> IF k = 0 THEN b ELSE <<>>]
<1>1. b \in Seq(Byte) /\ <<v>> \in Seq(Plain) /\ Len(<<v>>) = 1 /\ <<v>>[1] = v
  BY BytesOfPlain
<1>2. b = b \o <<>>
  BY <1>1, ConcatEmptySeq
<1> HIDE DEF b
<1>3. s \in [0..1 -> Seq(Byte)] /\ s[0] = b /\ s[1] = <<>>
  BY <1>1
<1> HIDE DEF s
<1>4. Behind(s, b, <<v>>)
  BY <1>1, <1>2, <1>3 DEF Behind, b
<1> QED
  BY <1>1, <1>4 DEF Encodes, b

LEMMA EncodesBoth ==
  ASSUME NEW b, NEW f, NEW c, NEW g, Encodes(b, f), Encodes(c, g)
  PROVE  Encodes(b \o c, f \o g)
<1> DEFINE m == Len(f)
           n == Len(g)
<1>1. /\ b \in Seq(Byte) /\ c \in Seq(Byte) /\ f \in Seq(Plain) /\ g \in Seq(Plain)
      /\ m \in Nat /\ n \in Nat
  BY DEF Encodes
<1>2. b \o c \in Seq(Byte)
  BY <1>1, ConcatProperties
<1>3. /\ f \o g \in Seq(Plain) /\ Len(f \o g) = m + n
      /\ \A i \in 1..m + n : (f \o g)[i] = IF i <= m THEN f[i] ELSE g[i - m]
  BY <1>1, ConcatProperties
<1>4. PICK s : Behind(s, b, f)
  BY DEF Encodes
<1>5. PICK t : Behind(t, c, g)
  BY DEF Encodes
<1>6. /\ s \in [0..m -> Seq(Byte)] /\ s[0] = b /\ s[m] = <<>>
      /\ \A k \in 1..m : s[k - 1] = FieldBytes(f[k]) \o s[k]
  BY <1>4 DEF Behind
<1>7. /\ t \in [0..n -> Seq(Byte)] /\ t[0] = c /\ t[n] = <<>>
      /\ \A k \in 1..n : t[k - 1] = FieldBytes(g[k]) \o t[k]
  BY <1>5 DEF Behind
<1> DEFINE h == f \o g
           u == [k \in 0..(m + n) |-> IF k <= m THEN s[k] \o c ELSE t[k - m]]
<1> HIDE DEF m, n, h
<1>8. \A k \in 0..m : k \in 0..(m + n) /\ s[k] \in Seq(Byte) /\ s[k] \o c \in Seq(Byte) /\ u[k] = s[k] \o c
  <2> TAKE k \in 0..m
  <2>1. k \in 0..(m + n) /\ k <= m /\ s[k] \in Seq(Byte)
    BY <1>1, <1>6
  <2> QED BY <1>1, <2>1, ConcatProperties
<1>9. \A k \in 0..n : m + k \in 0..(m + n) /\ t[k] \in Seq(Byte) /\ u[m + k] = t[k]
  <2> TAKE k \in 0..n
  <2>1. m + k \in 0..(m + n) /\ t[k] \in Seq(Byte) /\ (m + k) - m = k
    BY <1>1, <1>7
  <2>2. CASE k = 0
    <3>1. m + k = m /\ m \in 0..m
      BY <1>1, <2>2
    <3>2. <<>> \o c = c
      BY <1>1, ConcatEmptySeq
    <3> QED BY <1>6, <1>7, <1>8, <2>1, <2>2, <3>1, <3>2
  <2>3. CASE k # 0
    <3>1. ~(m + k <= m)
      BY <1>1, <2>3
    <3> QED BY <2>1, <3>1
  <2> QED BY <2>2, <2>3
<1>10. u \in [0..(m + n) -> Seq(Byte)]
  <2>1. \A k \in 0..(m + n) : u[k] \in Seq(Byte)
    <3> TAKE k \in 0..(m + n)
    <3>1. CASE k <= m
      <4>1. k \in 0..m
        BY <1>1, <3>1
      <4> QED BY <1>8, <4>1
    <3>2. CASE ~(k <= m)
      <4>1. k - m \in 0..n /\ m + (k - m) = k
        BY <1>1, <3>2
      <4> QED BY <1>9, <4>1
    <3> QED BY <3>1, <3>2
  <2>2. u = [k \in 0..(m + n) |-> u[k]]
    OBVIOUS
  <2> HIDE DEF u
  <2> QED BY <2>1, <2>2
<1> HIDE DEF u
<1>11. u[0] = b \o c /\ u[m + n] = <<>>
  <2>1. 0 \in 0..m /\ n \in 0..n
    BY <1>1
  <2> QED BY <1>6, <1>7, <1>8, <1>9, <2>1
<1>12. \A k \in 1..m + n : u[k - 1] = FieldBytes(h[k]) \o u[k]
  <2> TAKE k \in 1..m + n
  <2>1. CASE k <= m
    <3>1. k \in 0..m /\ k - 1 \in 0..m /\ k \in 1..m
      BY <1>1, <2>1
    <3>2. h[k] = f[k]
      BY <1>3, <2>1 DEF h
    <3>3. FieldBytes(f[k]) \in Seq(Byte)
      <4>1. k \in 1..Len(f) /\ f \in Seq(Plain)
        BY <1>1, <3>1 DEF m
      <4>2. f[k] \in Plain
        BY <4>1, ElementOfSeq
      <4> QED BY <4>2, BytesOfPlain
    <3>4. (FieldBytes(f[k]) \o s[k]) \o c = FieldBytes(f[k]) \o (s[k] \o c)
      <4> DEFINE x == FieldBytes(f[k])
                 y == s[k]
      <4>1. x \in Seq(Byte) /\ c \in Seq(Byte)
        BY <1>1, <3>3
      <4>2. y \in Seq(Byte)
        BY <1>8, <3>1
      <4> HIDE DEF x, y
      <4>3. (x \o y) \o c = x \o (y \o c)
        BY Zenon, <4>1, <4>2, BytesAssociative
      <4> QED BY <4>3 DEF x, y
    <3> QED BY <1>6, <1>8, <3>1, <3>2, <3>4
  <2>2. CASE ~(k <= m)
    <3>1. k - m \in 1..n /\ k - m \in 0..n /\ (k - m) - 1 \in 0..n /\ m + (k - m) = k /\ m + ((k - m) - 1) = k - 1
      BY <1>1, <2>2
    <3>2. h[k] = g[k - m]
      BY <1>3, <2>2 DEF h
    <3>3. t[(k - m) - 1] = FieldBytes(g[k - m]) \o t[k - m]
      BY <1>7, <3>1
    <3>4. u[k] = t[k - m] /\ u[k - 1] = t[(k - m) - 1]
      BY <1>9, <3>1
    <3> QED BY <3>2, <3>3, <3>4
  <2> QED BY <2>1, <2>2
<1>13. Behind(u, b \o c, h)
  BY <1>3, <1>10, <1>11, <1>12 DEF Behind, h
<1> QED
  BY <1>2, <1>3, <1>13 DEF Encodes, h

LEMMA EncodesAll ==
  ASSUME NEW b \in Seq(Seq(Byte)), NEW f \in Seq(Seq(Plain)), Len(b) = Len(f),
         \A k \in 1..Len(b) : Encodes(b[k], f[k])
  PROVE  Encodes(FlattenSeq(b), FlattenSeq(f))
<1>1. PICK x \in [0..Len(b) -> Seq(Byte)] :
        /\ x[0] = <<>>
        /\ \A k \in 1..Len(b) : x[k] = x[k - 1] \o b[k]
        /\ FlattenSeq(b) = x[Len(b)]
  BY FlattenLoops
<1>2. PICK y \in [0..Len(f) -> Seq(Plain)] :
        /\ y[0] = <<>>
        /\ \A k \in 1..Len(f) : y[k] = y[k - 1] \o f[k]
        /\ FlattenSeq(f) = y[Len(f)]
  BY FlattenLoops
<1> DEFINE n == Len(b)
           N == {k \in Nat : k <= n => Encodes(x[k], y[k])}
<1>3. n \in Nat
  OBVIOUS
<1> HIDE DEF n
<1>4. 0 \in N
  BY <1>1, <1>2, EncodesNothing
<1>5. ASSUME NEW k \in Nat, k \in N PROVE k + 1 \in N
  <2>1. SUFFICES ASSUME k + 1 <= n PROVE Encodes(x[k + 1], y[k + 1])
    OBVIOUS
  <2>2. k + 1 \in 1..n /\ (k + 1) - 1 = k /\ Encodes(x[k], y[k])
    BY <1>3, <1>5, <2>1
  <2>3. x[k + 1] = x[k] \o b[k + 1] /\ y[k + 1] = y[k] \o f[k + 1] /\ Encodes(b[k + 1], f[k + 1])
    BY <1>1, <1>2, <2>2 DEF n
  <2> QED BY <2>2, <2>3, EncodesBoth
<1>6. \A k \in Nat : k \in N
  <2> HIDE DEF N
  <2> QED BY <1>4, <1>5, SetInduction
<1>7. Encodes(x[n], y[n])
  BY <1>3, <1>6
<1> QED
  BY <1>1, <1>2, <1>7 DEF n


-----------------------------------------------------------------------------
(* Values, and what a service makes of them *)

\* What was serialized, with the fields that are read in it; and the values that
\* can be given to appendValue of a service: nothing is lost of those it has no
\* case for, which leaves of the lists of numbers the empty one.
Coded == {s \in [bytes : Seq(Byte), fields : Seq(Plain)] : Encodes(s.bytes, s.fields)}
Values(cases) ==
  Plain \union {Value("[]byte", s) : s \in Coded}
        \union {v \in {Value("Serializeable", s) : s \in Coded} : "Serializeable" \in cases}
        \union {Ints(<<>>)}
Knows(cases) == {"int", "string", "bool", "[]byte"} \subseteq cases /\ "[]int" \notin cases

LEMMA ServicesKnow ==
  /\ Knows(ModtoolCases) /\ Knows(AchievementCases) /\ Knows(SubscriptionCases)
  /\ Knows(PlayerCases) /\ Knows(FriendsCases) /\ Knows(GuildCases)
  /\ Knows(PermissionCases) /\ Knows(CatalogCases)
  /\ "Serializeable" \in FriendsCases /\ "Serializeable" \in PermissionCases
  /\ "Serializeable" \in CatalogCases
BY DEF Knows, ModtoolCases, AchievementCases, SubscriptionCases, PlayerCases, FriendsCases,
       GuildCases, PermissionCases, CatalogCases

LEMMA PlainValues ==
  ASSUME NEW cases
  PROVE  /\ \A n \in Int : Num(n) \in Values(cases)
         /\ \A l \in Nat : Str(l) \in Values(cases)
         /\ \A b \in BOOLEAN : Bool(b) \in Values(cases)
         /\ Ints(<<>>) \in Values(cases)
BY DEF Values, Plain

LEMMA OneValue ==
  ASSUME NEW cases, Knows(cases), NEW v \in Values(cases)
  PROVE  Encodes(AppendValue(cases, v), FieldsOf(v))
<1>1. ASSUME v \in Plain PROVE AppendValue(cases, v) = FieldBytes(v) /\ FieldsOf(v) = <<v>>
  BY <1>1 DEF Plain, Num, Str, Bool, Value, AppendValue, FieldBytes, FieldsOf, Knows
<1>2. ASSUME NEW s \in Coded, v = Value("[]byte", s)
      PROVE  AppendValue(cases, v) = s.bytes /\ FieldsOf(v) = s.fields
  BY <1>2 DEF Value, AppendValue, FieldsOf, Knows
<1>3. ASSUME NEW s \in Coded, v = Value("Serializeable", s), "Serializeable" \in cases
      PROVE  AppendValue(cases, v) = s.bytes /\ FieldsOf(v) = s.fields
  BY <1>3 DEF Value, AppendValue, FieldsOf
<1>4. ASSUME v = Ints(<<>>) PROVE AppendValue(cases, v) = <<>> /\ FieldsOf(v) = <<>>
  BY <1>4 DEF Ints, Value, AppendValue, FieldsOf, Knows
<1>5. CASE v \in Plain
  BY <1>1, <1>5, EncodesOne
<1>6. CASE v = Ints(<<>>)
  BY <1>4, <1>6, EncodesNothing
<1>7. CASE v \notin Plain /\ v # Ints(<<>>)
  <2>1. PICK s \in Coded : AppendValue(cases, v) = s.bytes /\ FieldsOf(v) = s.fields
    BY <1>2, <1>3, <1>7 DEF Values
  <2> QED BY <2>1 DEF Coded
<1> QED
  BY <1>5, <1>6, <1>7

LEMMA ValuesCoded ==
  ASSUME NEW cases, Knows(cases), NEW values \in Seq(Values(cases))
  PROVE  /\ Serialized(cases, values) \in Coded
         /\ Encodes(SerializeValues(cases, values), Fields(values))
<1> DEFINE n == Len(values)
           b == [k \in 1..n |-> AppendValue(cases, values[k])]
           f == [k \in 1..n |-> FieldsOf(values[k])]
<1>1. n \in Nat
  OBVIOUS
<1>2. \A k \in 1..n : values[k] \in Values(cases)
  BY ElementOfSeq
<1>3. \A k \in 1..n : Encodes(AppendValue(cases, values[k]), FieldsOf(values[k]))
  BY <1>2, OneValue
<1>4. \A k \in 1..n : AppendValue(cases, values[k]) \in Seq(Byte) /\ FieldsOf(values[k]) \in Seq(Plain)
  BY <1>3 DEF Encodes
<1>5. b \in Seq(Seq(Byte)) /\ Len(b) = n /\ f \in Seq(Seq(Plain)) /\ Len(f) = n
  <2> HIDE DEF n
  <2> QED BY <1>1, <1>4
<1>6. \A k \in 1..n : b[k] = AppendValue(cases, values[k]) /\ f[k] = FieldsOf(values[k])
  OBVIOUS
<1>7. SerializeValues(cases, values) = FlattenSeq(b) /\ Fields(values) = FlattenSeq(f)
  BY DEF SerializeValues, Fields
<1> HIDE DEF n, b, f
<1>8. Encodes(FlattenSeq(b), FlattenSeq(f))
  BY <1>3, <1>5, <1>6, EncodesAll
<1> QED
  BY <1>7, <1>8 DEF Serialized, Coded, Encodes

LEMMA BytesAreValues ==
  ASSUME NEW cases, Knows(cases), NEW values \in Seq(Values(cases))
  PROVE  /\ Bytes(cases, values) \in Values(cases)
         /\ "Serializeable" \in cases => Object(cases, values) \in Values(cases)
BY ValuesCoded DEF Bytes, Object, Values

LEMMA ListsAreValues ==
  ASSUME NEW cases, Knows(cases), NEW elements \in Seq(Seq(Values(cases)))
  PROVE  SerializeAll(cases, elements) \in Values(cases)
<1> DEFINE V == Values(cases)
           n == Len(elements)
           all == [k \in 1..n |-> Bytes(cases, elements[k])]
<1>1. n \in Nat /\ Num(n) \in V
  BY PlainValues
<1>2. \A k \in 1..n : elements[k] \in Seq(V)
  <2> DEFINE T == Seq(V)
  <2>1. elements \in Seq(T)
    OBVIOUS
  <2> HIDE DEF T
  <2>2. \A k \in 1..n : elements[k] \in T
    BY <2>1, ElementOfSeq
  <2> QED BY <2>2 DEF T
<1>3. \A k \in 1..n : Bytes(cases, elements[k]) \in V
  BY <1>2, BytesAreValues
<1> HIDE DEF V
<1>4. all \in Seq(V)
  BY <1>1, <1>3
<1>5. <<Num(n)>> \in Seq(V)
  BY <1>1
<1>6. <<Num(n)>> \o all \in Seq(V)
  BY <1>4, <1>5, ConcatProperties
<1>7. SerializeAll(cases, elements) = Bytes(cases, <<Num(n)>> \o all)
  BY DEF SerializeAll
<1> HIDE DEF all, n
<1> QED
  BY <1>6, <1>7, BytesAreValues DEF V

\* A packet with its size and header, and the bytes of its fields.
Readable(r) ==
  /\ r.header \in Int
  /\ \E bytes : /\ Encodes(bytes, r.fields)
                /\ r.packet = AddSize(ShortToBytes(r.header) \o bytes)

LEMMA RepliesReadable ==
  ASSUME NEW cases, Knows(cases), NEW header \in Int, NEW values \in Seq(Values(cases))
  PROVE  Readable(Reply(cases, header, values))
BY ValuesCoded DEF Readable, Reply, Compose


-----------------------------------------------------------------------------
(* Reading *)

LEMMA FourAndTwo ==
  ASSUME NEW n \in Int
  PROVE  /\ IntegerToBytes(n) \in Seq(Byte) /\ Len(IntegerToBytes(n)) = 4
         /\ ShortToBytes(n) \in Seq(Byte) /\ Len(ShortToBytes(n)) = 2
BY BigEndianIs DEF IntegerToBytes, ShortToBytes

LEMMA IntsAreRead ==
  ASSUME NEW n \in Int, NEW tail \in Seq(Byte)
  PROVE  ReadInt(IntegerToBytes(n) \o tail) = Taken(n % Limit(4), tail)
<1> DEFINE s == IntegerToBytes(n)
<1>1. s \in Seq(Byte) /\ Len(s) = 4
  BY FourAndTwo
<1>2. Unsigned(s) = n % Limit(4)
  BY NumbersReadBack DEF IntegerToBytes
<1> HIDE DEF s
<1>3. Len(s \o tail) = 4 + Len(tail) /\ SubSeq(s \o tail, 1, 4) = s /\ From(s \o tail, 4 + 1) = tail
  <2>1. /\ Len(s \o tail) = Len(s) + Len(tail)
        /\ SubSeq(s \o tail, 1, Len(s)) = s /\ From(s \o tail, Len(s) + 1) = tail
    BY Zenon, <1>1, Cut
  <2> QED BY Zenon, <1>1, <2>1
<1>4. Len(tail) \in Nat
  OBVIOUS
<1>5. ~(Len(s \o tail) < 4) /\ From(s \o tail, 5) = tail
  BY <1>3, <1>4
<1>6. ReadInt(s \o tail) = Taken(Unsigned(s), tail)
  BY <1>3, <1>5 DEF ReadInt
<1> QED
  BY <1>2, <1>6 DEF s

LEMMA ShortsAreRead ==
  ASSUME NEW n \in Int, NEW tail \in Seq(Byte)
  PROVE  ReadShort(ShortToBytes(n) \o tail) = Taken(Signed(ShortToBytes(n)), tail)
<1> DEFINE s == ShortToBytes(n)
<1>1. s \in Seq(Byte) /\ Len(s) = 2
  BY FourAndTwo
<1> HIDE DEF s
<1>2. Len(s \o tail) = 2 + Len(tail) /\ SubSeq(s \o tail, 1, 2) = s /\ From(s \o tail, 2 + 1) = tail
  <2>1. /\ Len(s \o tail) = Len(s) + Len(tail)
        /\ SubSeq(s \o tail, 1, Len(s)) = s /\ From(s \o tail, Len(s) + 1) = tail
    BY Zenon, <1>1, Cut
  <2> QED BY Zenon, <1>1, <2>1
<1>3. Len(tail) \in Nat
  OBVIOUS
<1>4. ~(Len(s \o tail) < 2) /\ From(s \o tail, 3) = tail
  BY <1>2, <1>3
<1>5. ReadShort(s \o tail) = Taken(Signed(s), tail)
  BY <1>2, <1>4 DEF ReadShort
<1> QED
  BY <1>5 DEF s

\* The length of a text is positive as a signed short.
LEMMA LengthsAreRead ==
  ASSUME NEW l \in Nat, l < Limit(2) \div 2
  PROVE  Signed(ShortToBytes(l)) = l
<1> DEFINE d == Limit(2)
<1>1. d \in Nat \ {0}
  BY LimitIs DEF Positive
<1>2. Unsigned(ShortToBytes(l)) = l % d
  BY NumbersReadBack DEF ShortToBytes
<1>3. Len(ShortToBytes(l)) = 2
  BY FourAndTwo
<1> HIDE DEF d
<1>4. 2 * l < d /\ l < d
  BY <1>1 DEF d
<1>5. l % d = l
  <2>1. l = d * 0 + l /\ l \in 0..(d - 1) /\ 0 \in Int
    BY <1>1, <1>4
  <2> QED BY <1>1, <2>1, DivUnique
<1> QED
  BY <1>2, <1>3, <1>4, <1>5 DEF Signed, d

LEMMA StringsAreRead ==
  ASSUME NEW l \in Nat, l < Limit(2) \div 2, NEW tail \in Seq(Byte)
  PROVE  ReadString(AppendString(l) \o tail) = Taken(l, tail)
<1> DEFINE s == ShortToBytes(l)
           zeros == [k \in 1..l |-> 0]
           after == zeros \o tail
<1>1. s \in Seq(Byte)
  BY FourAndTwo
<1>2. zeros \in Seq(Byte) /\ Len(zeros) = l
  <2>1. 0 \in Byte
    BY BaseAssumption DEF Byte
  <2> QED BY <2>1
<1>3. AppendString(l) = s \o zeros
  BY DEF AppendString
<1>4. Signed(s) = l
  BY LengthsAreRead
<1>5. ReadShort(s \o after) = Taken(Signed(s), after)
  <2>1. after \in Seq(Byte)
    BY <1>2, ConcatProperties
  <2> HIDE DEF after
  <2> QED BY <2>1, ShortsAreRead
<1> HIDE DEF s, zeros
<1>6. after \in Seq(Byte) /\ Len(after) = l + Len(tail) /\ From(after, l + 1) = tail
  BY <1>2, Cut
<1>7. (s \o zeros) \o tail = s \o after
  BY Zenon, <1>1, <1>2, BytesAssociative
<1>8. l \in 0..Len(after)
  <2>1. Len(tail) \in Nat
    OBVIOUS
  <2> QED BY <1>6, <2>1
<1> DEFINE length == ReadShort(s \o after)
<1> HIDE DEF after
<1>9. length.ok /\ length.value = l /\ length.rest = after
  BY <1>4, <1>5 DEF Taken
<1>10. ReadString(s \o after) = Taken(l, tail)
  BY <1>6, <1>8, <1>9 DEF ReadString
<1> QED
  BY <1>3, <1>7, <1>10

LEMMA BoolsAreRead ==
  ASSUME NEW b \in BOOLEAN, NEW tail \in Seq(Byte)
  PROVE  ReadBool(<<BoolToByte(b)>> \o tail) = Taken(b, tail)
<1> DEFINE x == BoolToByte(b)
           u == <<x>> \o tail
<1>1. x \in Byte /\ (x = 1) = b
  BY BaseAssumption DEF BoolToByte, Byte
<1> HIDE DEF x
<1>2. <<x>> \in Seq(Byte) /\ Len(<<x>>) = 1 /\ <<x>>[1] = x
  BY <1>1
<1>3. u \in Seq(Byte) /\ Len(u) = 1 + Len(tail) /\ From(u, 1 + 1) = tail
  BY <1>2, Cut
<1>4. u[1] = x
  BY <1>2, ConcatProperties
<1>5. u # <<>>
  BY <1>3
<1> HIDE DEF u
<1>6. Head(u) = x
  BY <1>4
<1>7. Tail(u) = tail
  BY <1>3, <1>5, TailIsSubSeq DEF From
<1>8. ReadBool(u) = Taken(x = 1, tail)
  BY <1>5, <1>6, <1>7 DEF ReadBool
<1> QED
  BY <1>1, <1>8 DEF u, x


-----------------------------------------------------------------------------
(* Composers: what each gives to appendValue are values. *)

LEMMA LargeNumbers == MaxInt \in Int /\ Limit(4) - 1 \in Int
<1> DEFINE d == Limit(4)
<1>1. d \in Nat
  BY LimitIs DEF Positive
<1> HIDE DEF d
<1>2. d \div 2 - 1 \in Int /\ d - 1 \in Int
  BY <1>1
<1> QED
  BY <1>2 DEF MaxInt, d

LEMMA BoolValues ==
  ASSUME NEW cases, NEW b \in BOOLEAN
  PROVE  Bool(b) \in Values(cases)
BY Zenon, PlainValues

\* A list, each element of which is made of values.
LEMMA ListOfValues ==
  ASSUME NEW cases, Knows(cases), NEW n \in Nat, NEW list,
         list = [k \in 1..n |-> list[k]],
         \A k \in 1..n : list[k] \in Seq(Values(cases))
  PROVE  SerializeAll(cases, list) \in Values(cases)
<1> DEFINE T == Seq(Values(cases))
<1>1. \A k \in 1..n : list[k] \in T
  OBVIOUS
<1> HIDE DEF T
<1>2. list \in Seq(T)
  BY <1>1
<1> QED
  BY <1>2, ListsAreValues DEF T

LEMMA ListsAreSequences ==
  ASSUME NEW S, NEW x \in Lists(S)
  PROVE  x \in Seq(S)
<1>1. x = <<>> \/ (\E a \in S : x = <<a>>) \/ (\E a \in S : \E b \in S : x = <<a, b>>)
  BY DEF Lists
<1>2. CASE x = <<>>
  BY <1>2
<1>3. CASE \E a \in S : x = <<a>>
  BY <1>3
<1>4. CASE \E a \in S : \E b \in S : x = <<a, b>>
  <2>1. PICK a \in S : \E b \in S : x = <<a, b>>
    BY <1>4
  <2>2. PICK b \in S : x = <<a, b>>
    BY <2>1
  <2> QED BY <2>2
<1> QED
  BY <1>1, <1>2, <1>3, <1>4

Gives(cases) == Seq(Values(cases))

\* A packet is readable whatever values its composer gives.
LEMMA GivesReadable ==
  ASSUME NEW cases, Knows(cases), NEW header \in Int, NEW values \in Gives(cases)
  PROVE  Readable(Reply(cases, header, values))
BY RepliesReadable, Zenon DEF Gives

LEMMA LoginReadable ==
  /\ Readable(LoginOKComposer) /\ Readable(UserNoobStatusComposer(1))
  /\ Readable(AvailabilityStatusComposer) /\ Readable(EnableNotificationsComposer)
  /\ Readable(MysteryBoxComposer) /\ Readable(BuildersClubExpiredComposer)
  /\ \A n \in Int : Readable(AchievementScoreComposer(n))
  /\ \A d \in Nat : Readable(UserCreditsComposer(d))
<1> DEFINE G == Gives(PlayerCases)
           yes == Bool(TRUE)
           no == Bool(FALSE)
<1>1. /\ \A n \in Int : Num(n) \in Values(PlayerCases)
      /\ \A l \in Nat : Str(l) \in Values(PlayerCases)
  BY PlainValues
<1>2. yes \in Values(PlayerCases) /\ no \in Values(PlayerCases)
  BY PlainValues
<1> HIDE DEF yes, no
<1>3. <<>> \in G
  BY DEF Gives
<1>4. <<Num(1)>> \in G
  BY <1>1 DEF Gives
<1>5. <<yes, no, yes>> \in G
  BY <1>2 DEF Gives
<1>6. <<yes>> \in G
  BY <1>2 DEF Gives
<1>7. <<Str(0), Str(0)>> \in G
  BY <1>1 DEF Gives
<1>8. <<Num(0), Num(MaxInt), Num(100), Num(0), Num(MaxInt)>> \in G
  BY <1>1, LargeNumbers DEF Gives
<1>9. \A n \in Int : <<Num(n)>> \in G
  BY <1>1 DEF Gives
<1>10. \A d \in Nat : <<Str(d + 2)>> \in G
  BY <1>1 DEF Gives
<1>11. Readable(LoginOKComposer)
  BY <1>3, GivesReadable, ServicesKnow DEF Player, LoginOKComposer
<1>12. Readable(UserNoobStatusComposer(1))
  BY <1>4, GivesReadable, ServicesKnow DEF Player, UserNoobStatusComposer
<1>13. Readable(AvailabilityStatusComposer)
  BY <1>5, GivesReadable, ServicesKnow DEF Player, AvailabilityStatusComposer, yes, no
<1>14. Readable(EnableNotificationsComposer)
  BY <1>6, GivesReadable, ServicesKnow DEF Player, EnableNotificationsComposer, yes
<1>15. Readable(MysteryBoxComposer)
  BY <1>7, GivesReadable, ServicesKnow DEF Player, MysteryBoxComposer
<1>16. Readable(BuildersClubExpiredComposer)
  BY <1>8, GivesReadable, ServicesKnow DEF Player, BuildersClubExpiredComposer
<1>17. \A n \in Int : Readable(AchievementScoreComposer(n))
  BY <1>9, GivesReadable, ServicesKnow DEF Player, AchievementScoreComposer
<1>18. \A d \in Nat : Readable(UserCreditsComposer(d))
  BY <1>10, GivesReadable, ServicesKnow DEF Player, UserCreditsComposer
<1> QED
  BY <1>11, <1>12, <1>13, <1>14, <1>15, <1>16, <1>17, <1>18

LEMMA UserDataReadable ==
  ASSUME NEW name \in Nat, NEW motto \in Nat, NEW respects \in Int
  PROVE  Readable(UserDataComposer(name, motto, respects))
<1> DEFINE V == Values(PlayerCases)
           yes == Bool(TRUE)
           no == Bool(FALSE)
           a == <<Num(1), Str(name), Str(name), Str(1), Str(motto), Str(name), no>>
           b == [k \in 1..3 |-> Num(respects)]
           c == <<no, Str(19), yes, no>>
<1>1. (\A n \in Int : Num(n) \in V) /\ (\A l \in Nat : Str(l) \in V)
  BY PlainValues
<1>2. yes \in V /\ no \in V
  BY PlainValues
<1> HIDE DEF yes, no
<1>3. a \in Seq(V) /\ b \in Seq(V) /\ c \in Seq(V)
  BY <1>1, <1>2
<1>4. UserDataComposer(name, motto, respects) = Player(2725, a \o b \o c)
  BY DEF UserDataComposer, yes, no
<1> HIDE DEF a, b, c
<1>5. a \o b \o c \in Gives(PlayerCases)
  <2>1. a \o b \in Seq(V)
    BY <1>3, ConcatProperties
  <2> QED BY <1>3, <2>1, ConcatProperties DEF Gives
<1> QED
  BY <1>4, <1>5, GivesReadable, ServicesKnow DEF Player

LEMMA UserCurrencyReadable ==
  ASSUME NEW amounts \in Seq(Int)
  PROVE  Readable(UserCurrencyComposer(amounts))
<1> DEFINE V == Values(PlayerCases)
           n == Len(amounts)
           list == [k \in 1..n |-> <<Num(k - 1), Num(amounts[k])>>]
           all == SerializeAll(PlayerCases, list)
<1>1. n \in Nat /\ \A x \in Int : Num(x) \in V
  BY PlainValues
<1>2. \A k \in 1..n : amounts[k] \in Int
  BY ElementOfSeq
<1> HIDE DEF n
<1>3. \A k \in 1..n : list[k] \in Seq(V)
  BY <1>1, <1>2
<1>4. list = [k \in 1..n |-> list[k]]
  OBVIOUS
<1> HIDE DEF list
<1>5. all \in V
  BY <1>1, <1>3, <1>4, ListOfValues, ServicesKnow
<1> HIDE DEF all
<1>6. <<all>> \in Gives(PlayerCases)
  BY <1>5 DEF Gives
<1>7. UserCurrencyComposer(amounts) = Player(2018, <<all>>)
  BY DEF UserCurrencyComposer, all, list, n
<1> QED
  BY <1>6, <1>7, GivesReadable, ServicesKnow DEF Player

\* What is given can be a value itself.
LEMMA BytesAreGiven ==
  ASSUME NEW cases, Knows(cases), NEW values \in Gives(cases)
  PROVE  /\ Bytes(cases, values) \in Values(cases)
         /\ "Serializeable" \in cases => Object(cases, values) \in Values(cases)
BY BytesAreValues, Zenon DEF Gives

EffectRows == [effect : Int, duration : Int, activation : Int, total : Int]

LEMMA EffectValues ==
  ASSUME NEW e \in EffectRows, NEW time \in Int
  PROVE  SerializeUserEffect(e, time) \in Seq(Values(PlayerCases))
<1> DEFINE V == Values(PlayerCases)
           lasts == e.duration > 0
           activated == e.activation >= 0
           left == IF activated THEN e.total - 1 ELSE e.total
           seconds == IF lasts /\ activated THEN time - e.activation + e.duration ELSE 0
           most == Limit(4) - 1
           yes == Bool(TRUE)
           a == <<Num(e.effect), Num(0)>>
           b == IF lasts THEN <<Num(e.duration), Num(left)>> ELSE <<Num(most), Num(0)>>
           c == <<Num(seconds), yes>>
<1>1. e.effect \in Int /\ e.duration \in Int /\ left \in Int /\ seconds \in Int
  BY DEF EffectRows
<1>2. most \in Int
  BY LargeNumbers
<1>3. (\A n \in Int : Num(n) \in V) /\ yes \in V
  BY PlainValues
<1>4. SerializeUserEffect(e, time) = a \o b \o c
  BY DEF SerializeUserEffect
<1> HIDE DEF lasts, left, seconds, most, yes
<1>5. a \in Seq(V) /\ c \in Seq(V)
  BY <1>1, <1>3
<1>6. <<Num(e.duration), Num(left)>> \in Seq(V) /\ <<Num(most), Num(0)>> \in Seq(V)
  BY <1>1, <1>2, <1>3
<1>7. b \in Seq(V)
  BY <1>6
<1> HIDE DEF a, b, c
<1>8. a \o b \in Seq(V)
  BY <1>5, <1>7, ConcatProperties
<1> QED
  BY <1>4, <1>5, <1>8, ConcatProperties

LEMMA UserEffectsReadable ==
  ASSUME NEW effects \in Seq(EffectRows), NEW time \in Int
  PROVE  Readable(UserEffectsComposer(effects, time))
<1> DEFINE V == Values(PlayerCases)
           n == Len(effects)
           list == [k \in 1..n |-> SerializeUserEffect(effects[k], time)]
           all == SerializeAll(PlayerCases, list)
<1>1. n \in Nat /\ \A k \in 1..n : effects[k] \in EffectRows
  BY ElementOfSeq
<1> HIDE DEF n
<1>2. \A k \in 1..n : list[k] \in Seq(V)
  BY <1>1, EffectValues
<1>3. list = [k \in 1..n |-> list[k]]
  OBVIOUS
<1> HIDE DEF list
<1>4. all \in V
  BY <1>1, <1>2, <1>3, ListOfValues, ServicesKnow
<1> HIDE DEF all
<1>5. <<all>> \in Gives(PlayerCases)
  BY <1>4 DEF Gives
<1>6. UserEffectsComposer(effects, time) = Player(340, <<all>>)
  BY DEF UserEffectsComposer, all, list, n
<1> QED
  BY <1>5, <1>6, GivesReadable, ServicesKnow DEF Player

LEMMA MessengerInitReadable ==
  ASSUME NEW infinite \in BOOLEAN, NEW categories \in Seq(Nat)
  PROVE  Readable(MessengerInitComposer(infinite, categories))
<1> DEFINE V == Values(FriendsCases)
           n == Len(categories)
           list == [k \in 1..n |-> SerializeCategory(categories[k])]
           all == SerializeAll(FriendsCases, list)
           most == <<Num(MaxInt), Num(1337), Num(MaxInt)>>
           few == <<Num(200), Num(1337), Num(500)>>
           limits == Bytes(FriendsCases, IF infinite THEN most ELSE few)
           object == Object(FriendsCases, <<limits, all>>)
<1>1. n \in Nat /\ \A k \in 1..n : categories[k] \in Nat
  BY ElementOfSeq
<1>2. (\A x \in Int : Num(x) \in V) /\ (\A l \in Nat : Str(l) \in V)
  BY PlainValues
<1>3. MessengerInitComposer(infinite, categories) = Friends(1605, <<object>>)
  BY DEF MessengerInitComposer
<1> HIDE DEF n
<1>4. \A k \in 1..n : list[k] \in Seq(V)
  BY <1>1, <1>2 DEF SerializeCategory
<1>5. list = [k \in 1..n |-> list[k]]
  OBVIOUS
<1> HIDE DEF list
<1>6. all \in V
  BY <1>1, <1>4, <1>5, ListOfValues, ServicesKnow
<1>7. most \in Gives(FriendsCases) /\ few \in Gives(FriendsCases)
  BY <1>2, LargeNumbers DEF Gives
<1> HIDE DEF all, most, few
<1>8. limits \in V
  <2>1. (IF infinite THEN most ELSE few) \in Gives(FriendsCases)
    BY <1>7
  <2> QED BY <2>1, BytesAreGiven, ServicesKnow
<1> HIDE DEF limits
<1>9. <<limits, all>> \in Gives(FriendsCases)
  BY <1>6, <1>8 DEF Gives
<1>10. object \in V
  BY <1>9, BytesAreGiven, ServicesKnow
<1> HIDE DEF object
<1>11. <<object>> \in Gives(FriendsCases)
  BY <1>10 DEF Gives
<1> DEFINE only == <<object>>
<1> HIDE DEF only
<1>12. Readable(Friends(1605, only))
  BY <1>11, GivesReadable, ServicesKnow DEF Friends, only
<1> QED
  BY <1>3, <1>12 DEF only

Friendships == [id : Int, name : Nat, online : BOOLEAN, look : Nat]

LEMMA FriendValues ==
  ASSUME NEW f \in Friendships
  PROVE  SerializeFriend(f) \in Seq(Values(FriendsCases))
<1> DEFINE V == Values(FriendsCases)
           online == Bool(f.online)
           no == Bool(FALSE)
           look == IF f.online THEN f.look ELSE 0
<1>1. f.id \in Int /\ f.name \in Nat /\ f.online \in BOOLEAN /\ look \in Nat
  BY DEF Friendships
<1>2. (\A n \in Int : Num(n) \in V) /\ (\A l \in Nat : Str(l) \in V) /\ no \in V
  BY PlainValues
<1>3. online \in V
  BY <1>1, BoolValues, Zenon
<1>4. SerializeFriend(f) =
        <<Num(f.id), Str(f.name), Num(1), online, no, Str(look), Num(0), Str(f.name), Str(0), Str(0),
          no, no, no, Num(0)>>
  BY DEF SerializeFriend
<1> HIDE DEF online, no, look
<1> QED
  BY <1>1, <1>2, <1>3, <1>4

LEMMA FriendListReadable ==
  ASSUME NEW pages \in Int, NEW page \in Int, NEW friends \in Seq(Friendships)
  PROVE  Readable(FriendsComposer(pages, page, friends))
<1> DEFINE V == Values(FriendsCases)
           n == Len(friends)
           list == [k \in 1..n |-> SerializeFriend(friends[k])]
           all == SerializeAll(FriendsCases, list)
<1>1. n \in Nat /\ \A k \in 1..n : friends[k] \in Friendships
  BY ElementOfSeq
<1>2. Num(pages) \in V /\ Num(page) \in V
  BY PlainValues
<1> HIDE DEF n
<1>3. \A k \in 1..n : list[k] \in Seq(V)
  BY <1>1, FriendValues
<1>4. list = [k \in 1..n |-> list[k]]
  OBVIOUS
<1> HIDE DEF list
<1>5. all \in V
  BY <1>1, <1>3, <1>4, ListOfValues, ServicesKnow
<1>6. FriendsComposer(pages, page, friends) = Friends(3130, <<Num(pages), Num(page), all>>)
  BY DEF FriendsComposer, all, list, n
<1> HIDE DEF all
<1>7. <<Num(pages), Num(page), all>> \in Gives(FriendsCases)
  BY <1>2, <1>5 DEF Gives
<1> QED
  BY <1>6, <1>7, GivesReadable, ServicesKnow DEF Friends

LEMMA FriendsPagesReadable ==
  ASSUME NEW friends \in Seq(Friendships), NEW size \in Nat \ {0}, NEW r \in FriendsPages(friends, size)
  PROVE  Readable(r)
<1> DEFINE n == Len(friends)
           pages == (n + size - 1) \div size
           last(k) == IF (k + 1) * size < n THEN (k + 1) * size ELSE n
           Page(k) == SubSeq(friends, k * size + 1, last(k))
<1>1. n \in Nat /\ \A i \in 1..n : friends[i] \in Friendships
  BY ElementOfSeq
<1>2. pages \in Int
  <2> HIDE DEF n
  <2>1. n + size - 1 \in Nat
    BY <1>1
  <2> QED BY <2>1, DivMod
<1>3. \A k \in Nat : Page(k) \in Seq(Friendships)
  <2> TAKE k \in Nat
  <2> DEFINE first == k * size + 1
             end == (k + 1) * size
  <2> HIDE DEF n
  <2>1. k * size \in Nat /\ (k + 1) * size \in Nat
    OBVIOUS
  <2>2. first \in Nat \ {0} /\ end \in Nat
    BY <2>1
  <2> HIDE DEF first, end
  <2> DEFINE final == IF end < n THEN end ELSE n
  <2>3. final \in Int /\ final <= n
    BY <1>1, <2>2
  <2> HIDE DEF final
  <2>4. \A i \in first..final : friends[i] \in Friendships
    BY <1>1, <2>2, <2>3
  <2>5. SubSeq(friends, first, final) \in Seq(Friendships)
    BY <2>2, <2>3, <2>4, SubSeqProperties
  <2> QED BY <2>5 DEF first, final, end
<1>4. pages = 0 => r = FriendsComposer(0, 0, <<>>)
  BY DEF FriendsPages
<1>5. pages # 0 => \E k \in 0..pages - 1 : r = FriendsComposer(pages, k, Page(k))
  BY DEF FriendsPages
<1> HIDE DEF pages, Page
<1>6. CASE pages = 0
  <2> DEFINE none == <<>>
  <2>1. none \in Seq(Friendships) /\ 0 \in Int
    OBVIOUS
  <2>2. r = FriendsComposer(0, 0, none)
    BY <1>4, <1>6
  <2> HIDE DEF none
  <2> QED BY <2>1, <2>2, FriendListReadable
<1>7. CASE pages # 0
  <2>1. PICK k \in 0..pages - 1 : r = FriendsComposer(pages, k, Page(k))
    BY <1>5, <1>7
  <2>2. k \in Nat /\ k \in Int
    BY <1>2
  <2>3. Page(k) \in Seq(Friendships)
    BY <1>3, <2>2
  <2> QED BY <1>2, <2>1, <2>2, <2>3, FriendListReadable
<1> QED
  BY <1>6, <1>7

LEMMA FriendRequestsReadable ==
  ASSUME NEW names \in Seq(Nat)
  PROVE  Readable(LoadFriendRequestsComposer(names))
<1> DEFINE V == Values(FriendsCases)
           n == Len(names)
           list == [k \in 1..n |-> <<Num(k), Str(names[k]), Str(1)>>]
           all == SerializeAll(FriendsCases, list)
<1>1. n \in Nat /\ \A k \in 1..n : names[k] \in Nat
  BY ElementOfSeq
<1>2. (\A x \in Int : Num(x) \in V) /\ (\A l \in Nat : Str(l) \in V)
  BY PlainValues
<1> HIDE DEF n
<1>3. \A k \in 1..n : list[k] \in Seq(V)
  BY <1>1, <1>2
<1>4. list = [k \in 1..n |-> list[k]]
  OBVIOUS
<1> HIDE DEF list
<1>5. all \in V
  BY <1>1, <1>3, <1>4, ListOfValues, ServicesKnow
<1>6. LoadFriendRequestsComposer(names) = Friends(280, <<Num(n), all>>)
  BY DEF LoadFriendRequestsComposer, all, list, n
<1> HIDE DEF all
<1>7. <<Num(n), all>> \in Gives(FriendsCases)
  BY <1>1, <1>2, <1>5 DEF Gives
<1> QED
  BY <1>6, <1>7, GivesReadable, ServicesKnow DEF Friends

Shapes == [type : {"base", "color"}, values : Seq(Nat)]

LEMMA PartValues ==
  ASSUME NEW type, NEW l \in Nat
  PROVE  SerializePart(type, l) \in Seq(Values(GuildCases))
<1> DEFINE V == Values(GuildCases)
           a == <<Num(1), Str(l)>>
           b == IF type = "color" THEN <<>> ELSE <<Str(l)>>
<1>1. Num(1) \in V /\ Str(l) \in V
  BY PlainValues
<1>2. a \in Seq(V) /\ b \in Seq(V)
  BY <1>1
<1>3. SerializePart(type, l) = a \o b
  BY DEF SerializePart
<1> HIDE DEF a, b
<1> QED
  BY <1>2, <1>3, ConcatProperties

LEMMA GuildPartsReadable ==
  ASSUME NEW parts \in Seq(Shapes)
  PROVE  Readable(GuildPartsComposer(parts))
<1> DEFINE V == Values(GuildCases)
           n == Len(parts)
           List(k) == [i \in 1..Len(parts[k].values) |-> SerializePart(parts[k].type, parts[k].values[i])]
           all == [k \in 1..n |-> SerializeAll(GuildCases, List(k))]
           body == Bytes(GuildCases, all)
<1>1. n \in Nat /\ \A k \in 1..n : parts[k] \in Shapes
  BY ElementOfSeq
<1>2. GuildPartsComposer(parts) = Reply(GuildCases, 2238, <<body>>)
  BY DEF GuildPartsComposer
<1> HIDE DEF n
<1>3. ASSUME NEW k \in 1..n PROVE SerializeAll(GuildCases, List(k)) \in V
  <2> DEFINE values == parts[k].values
             list == List(k)
             m == Len(values)
  <2>1. values \in Seq(Nat)
    BY <1>1 DEF Shapes
  <2>2. m \in Nat /\ \A i \in 1..m : values[i] \in Nat
    BY <2>1, ElementOfSeq
  <2>3. list = [i \in 1..m |-> SerializePart(parts[k].type, values[i])]
    OBVIOUS
  <2> HIDE DEF values, m, list, List
  <2>4. \A i \in 1..m : list[i] \in Seq(V)
    BY <2>2, <2>3, PartValues
  <2>5. list = [i \in 1..m |-> list[i]]
    BY <2>3
  <2>6. SerializeAll(GuildCases, list) \in V
    BY <2>2, <2>4, <2>5, ListOfValues, ServicesKnow
  <2> QED BY <2>6 DEF list
<1> HIDE DEF List
<1>4. all \in Gives(GuildCases)
  BY <1>1, <1>3 DEF Gives
<1> HIDE DEF all
<1>5. body \in V
  BY <1>4, BytesAreGiven, ServicesKnow
<1> HIDE DEF body
<1>6. <<body>> \in Gives(GuildCases)
  BY <1>5 DEF Gives
<1> QED
  BY <1>2, <1>6, GivesReadable, ServicesKnow

LEMMA LargestOne ==
  ASSUME NEW n \in Nat, NEW S \in SUBSET (1..n), S # {}
  PROVE  \E l \in S : \A m \in S : m <= l
<1> DEFINE N == {k \in Nat : \A T \in SUBSET (1..k) : T # {} => \E l \in T : \A m \in T : m <= l}
<1>1. 0 \in N
  <2>1. 1..0 = {}
    OBVIOUS
  <2> QED BY <2>1
<1>2. ASSUME NEW k \in Nat, k \in N PROVE k + 1 \in N
  <2>1. SUFFICES ASSUME NEW T \in SUBSET (1..k + 1), T # {} PROVE \E l \in T : \A m \in T : m <= l
    OBVIOUS
  <2>2. CASE k + 1 \in T
    BY <2>2
  <2>3. CASE k + 1 \notin T
    <3>1. T \in SUBSET (1..k)
      BY <2>3
    <3> QED BY <1>2, <2>1, <3>1
  <2> QED BY <2>2, <2>3
<1>3. \A k \in Nat : k \in N
  <2> HIDE DEF N
  <2> QED BY <1>1, <1>2, SetInduction
<1> QED
  BY <1>3

TopicRows == [name : Nat, id : Int, action : Nat]

LEMMA CfhTopicsReadable ==
  ASSUME NEW categories \in Seq(Seq(TopicRows))
  PROVE  Readable(CfhTopicsComposer(categories))
<1> DEFINE V == Values(ModtoolCases)
           n == Len(categories)
           List(k) == [i \in 1..Len(categories[k]) |-> SerializeTopic(categories[k][i])]
           all == [k \in 1..n |-> <<Str(1), SerializeAll(ModtoolCases, List(k))>>]
           body == SerializeAll(ModtoolCases, all)
<1>1. n \in Nat /\ \A k \in 1..n : categories[k] \in Seq(TopicRows)
  <2> DEFINE T == Seq(TopicRows)
  <2>1. categories \in Seq(T)
    OBVIOUS
  <2> HIDE DEF T
  <2>2. n \in Nat /\ \A k \in 1..n : categories[k] \in T
    BY <2>1, ElementOfSeq
  <2> QED BY <2>2 DEF T
<1>2. (\A x \in Int : Num(x) \in V) /\ (\A l \in Nat : Str(l) \in V)
  BY PlainValues
<1>3. CfhTopicsComposer(categories) = Reply(ModtoolCases, 325, <<body>>)
  BY DEF CfhTopicsComposer
<1> HIDE DEF n
<1>4. ASSUME NEW k \in 1..n PROVE SerializeAll(ModtoolCases, List(k)) \in V
  <2> DEFINE topics == categories[k]
             list == List(k)
             m == Len(topics)
  <2>1. topics \in Seq(TopicRows)
    BY <1>1
  <2>2. m \in Nat /\ \A i \in 1..m : topics[i] \in TopicRows
    BY <2>1, ElementOfSeq
  <2>3. list = [i \in 1..m |-> SerializeTopic(topics[i])]
    OBVIOUS
  <2> HIDE DEF topics, m, list, List
  <2>4. \A i \in 1..m : list[i] \in Seq(V)
    BY <1>2, <2>2, <2>3 DEF SerializeTopic, TopicRows
  <2>5. list = [i \in 1..m |-> list[i]]
    BY <2>3
  <2>6. SerializeAll(ModtoolCases, list) \in V
    BY <2>2, <2>4, <2>5, ListOfValues, ServicesKnow
  <2> QED BY <2>6 DEF list
<1> HIDE DEF List
<1>5. \A k \in 1..n : all[k] \in Seq(V)
  BY <1>1, <1>2, <1>4
<1>6. all = [k \in 1..n |-> all[k]]
  OBVIOUS
<1> HIDE DEF all
<1>7. body \in V
  BY <1>1, <1>5, <1>6, ListOfValues, ServicesKnow
<1> HIDE DEF body
<1>8. <<body>> \in Gives(ModtoolCases)
  BY <1>7 DEF Gives
<1> QED
  BY <1>3, <1>8, GivesReadable, ServicesKnow

LEMMA InventoryReadable ==
  ASSUME NEW achievements \in Seq(Seq(Int))
  PROVE  Readable(InventoryAchievementsComposer(achievements))
<1> DEFINE V == Values(AchievementCases)
           n == Len(achievements)
           List(k) == [l \in 1..Len(achievements[k]) |-> <<Num(l), Num(achievements[k][l])>>]
           all == [k \in 1..n |-> <<Str(1), SerializeAll(AchievementCases, List(k))>>]
           body == SerializeAll(AchievementCases, all)
<1>1. n \in Nat /\ \A k \in 1..n : achievements[k] \in Seq(Int)
  <2> DEFINE T == Seq(Int)
  <2>1. achievements \in Seq(T)
    OBVIOUS
  <2> HIDE DEF T
  <2>2. n \in Nat /\ \A k \in 1..n : achievements[k] \in T
    BY <2>1, ElementOfSeq
  <2> QED BY <2>2 DEF T
<1>2. (\A x \in Int : Num(x) \in V) /\ (\A l \in Nat : Str(l) \in V)
  BY PlainValues
<1>3. InventoryAchievementsComposer(achievements) = Achievements(2501, <<body>>)
  BY DEF InventoryAchievementsComposer
<1> HIDE DEF n
<1>4. ASSUME NEW k \in 1..n PROVE SerializeAll(AchievementCases, List(k)) \in V
  <2> DEFINE levels == achievements[k]
             list == List(k)
             m == Len(levels)
  <2>1. levels \in Seq(Int)
    BY <1>1
  <2>2. m \in Nat /\ \A i \in 1..m : levels[i] \in Int
    BY <2>1, ElementOfSeq
  <2>3. list = [l \in 1..m |-> <<Num(l), Num(levels[l])>>]
    OBVIOUS
  <2> HIDE DEF levels, m, list, List
  <2>4. \A i \in 1..m : list[i] \in Seq(V)
    BY <1>2, <2>2, <2>3
  <2>5. list = [i \in 1..m |-> list[i]]
    BY <2>3
  <2>6. SerializeAll(AchievementCases, list) \in V
    BY <2>2, <2>4, <2>5, ListOfValues, ServicesKnow
  <2> QED BY <2>6 DEF list
<1> HIDE DEF List
<1>5. \A k \in 1..n : all[k] \in Seq(V)
  BY <1>1, <1>2, <1>4
<1>6. all = [k \in 1..n |-> all[k]]
  OBVIOUS
<1> HIDE DEF all
<1>7. body \in V
  BY <1>1, <1>5, <1>6, ListOfValues, ServicesKnow
<1> HIDE DEF body
<1>8. <<body>> \in Gives(AchievementCases)
  BY <1>7 DEF Gives
<1> QED
  BY <1>3, <1>8, GivesReadable, ServicesKnow DEF Achievements

\* The level reached is a level, or 0.
LEMMA LevelsReached ==
  ASSUME NEW levels \in Seq(Int), NEW progress \in Int
  PROVE  GetLevelForProgress(levels, progress) \in 0..Len(levels)
<1> DEFINE n == Len(levels)
           reached == {l \in 1..n : progress > 0 /\ progress >= levels[l]}
<1>1. n \in Nat /\ DOMAIN levels = 1..n
  BY LenProperties
<1>2. GetLevelForProgress(levels, progress) =
        IF reached = {} THEN 0 ELSE CHOOSE l \in reached : \A m \in reached : m <= l
  BY <1>1 DEF GetLevelForProgress
<1>3. reached \subseteq 1..n
  OBVIOUS
<1> HIDE DEF n, reached
<1>4. CASE reached = {}
  BY <1>1, <1>2, <1>4
<1>5. CASE reached # {}
  <2>1. \E l \in reached : \A m \in reached : m <= l
    BY <1>1, <1>3, <1>5, LargestOne
  <2> DEFINE best == CHOOSE l \in reached : \A m \in reached : m <= l
  <2>2. best \in reached
    BY <2>1
  <2>3. GetLevelForProgress(levels, progress) = best
    BY <1>2, <1>5
  <2> HIDE DEF best
  <2>4. best \in 1..n
    BY <1>3, <2>2
  <2> QED BY <1>1, <2>3, <2>4
<1> QED
  BY <1>4, <1>5 DEF n

LEMMA AchievementValues ==
  ASSUME NEW id \in Int, NEW levels \in Seq(Int), NEW progress \in Int
  PROVE  SerializeAchievement(id, levels, progress) \in Seq(Values(AchievementCases))
<1> DEFINE V == Values(AchievementCases)
           n == Len(levels)
           level == GetLevelForProgress(levels, progress)
           last == level = n
           achieved == level # 0 /\ last
           next == IF last THEN level ELSE level + 1
           needed == IF level = 0 THEN 0 ELSE levels[level]
           more == levels[level + 1]
           byte == BoolToByte(achieved)
           done == Bool(achieved)
           a == <<Num(id), Num(next), Str(4 + 1), Num(needed)>>
           none == [k \in 1..3 |-> Num(-1)]
           some == <<Num(more), Num(1), Num(0)>>
           b == IF last THEN none ELSE some
           c == <<Num(progress), done, Str(1), Str(0), Num(n), Num(byte)>>
<1>1. n \in Nat /\ level \in 0..n /\ \A k \in 1..n : levels[k] \in Int
  BY LevelsReached, ElementOfSeq
<1>2. (\A x \in Int : Num(x) \in V) /\ (\A l \in Nat : Str(l) \in V)
  BY PlainValues
<1>3. achieved \in BOOLEAN
  OBVIOUS
<1>4. byte \in Int
  BY DEF BoolToByte
<1>5. done \in V
  BY <1>3, BoolValues, Zenon
<1>6. SerializeAchievement(id, levels, progress) = a \o b \o c
  BY DEF SerializeAchievement
<1> HIDE DEF n, level, byte, done
<1>7. next \in Int /\ needed \in Int /\ (~last => more \in Int)
  <2>1. ~last => level + 1 \in 1..n
    BY <1>1
  <2>2. level # 0 => level \in 1..n
    BY <1>1
  <2> QED BY <1>1, <2>1, <2>2
<1> HIDE DEF next, needed, more, last
<1>8. a \in Seq(V) /\ c \in Seq(V)
  BY <1>1, <1>2, <1>4, <1>5, <1>7
<1>9. none \in Seq(V)
  BY <1>2
<1>10. ~last => some \in Seq(V)
  BY <1>2, <1>7
<1> HIDE DEF a, none, some, c
<1>11. b \in Seq(V)
  BY <1>9, <1>10
<1> HIDE DEF b
<1>12. a \o b \in Seq(V)
  BY <1>8, <1>11, ConcatProperties
<1> QED
  BY <1>6, <1>8, <1>12, ConcatProperties

LEMMA AchievementsListReadable ==
  ASSUME NEW achievements \in Seq(Seq(Int)), NEW progress \in Int
  PROVE  Readable(AchievementsListComposer(achievements, progress))
<1> DEFINE V == Values(AchievementCases)
           n == Len(achievements)
           list == [k \in 1..n |-> SerializeAchievement(k, achievements[k], progress)]
           all == SerializeAll(AchievementCases, list)
<1>1. n \in Nat /\ \A k \in 1..n : achievements[k] \in Seq(Int)
  <2> DEFINE T == Seq(Int)
  <2>1. achievements \in Seq(T)
    OBVIOUS
  <2> HIDE DEF T
  <2>2. n \in Nat /\ \A k \in 1..n : achievements[k] \in T
    BY <2>1, ElementOfSeq
  <2> QED BY <2>2 DEF T
<1>2. Str(0) \in V
  BY PlainValues
<1> HIDE DEF n
<1>3. \A k \in 1..n : list[k] \in Seq(V)
  <2> TAKE k \in 1..n
  <2> DEFINE levels == achievements[k]
  <2>1. levels \in Seq(Int) /\ k \in Int
    BY <1>1
  <2>2. list[k] = SerializeAchievement(k, levels, progress)
    OBVIOUS
  <2> HIDE DEF levels, list
  <2> QED BY <2>1, <2>2, AchievementValues
<1>4. list = [k \in 1..n |-> list[k]]
  OBVIOUS
<1> HIDE DEF list
<1>5. all \in V
  BY <1>1, <1>3, <1>4, ListOfValues, ServicesKnow
<1>6. AchievementsListComposer(achievements, progress) = Achievements(305, <<all, Str(0)>>)
  BY DEF AchievementsListComposer, all, list, n
<1> HIDE DEF all
<1>7. <<all, Str(0)>> \in Gives(AchievementCases)
  BY <1>2, <1>5 DEF Gives
<1> QED
  BY <1>6, <1>7, GivesReadable, ServicesKnow DEF Achievements

LEMMA UserPermissionsReadable ==
  ASSUME NEW club \in Int, NEW level \in Int, NEW ambassador \in BOOLEAN
  PROVE  Readable(UserPermissionsComposer(club, level, ambassador))
<1> DEFINE V == Values(PermissionCases)
           b == Bool(ambassador)
<1>1. Num(club) \in V /\ Num(level) \in V
  BY PlainValues
<1>2. b \in V
  BY BoolValues, Zenon
<1>3. UserPermissionsComposer(club, level, ambassador) = Permission(411, <<Num(club), Num(level), b>>)
  BY DEF UserPermissionsComposer
<1> HIDE DEF b
<1>4. <<Num(club), Num(level), b>> \in Gives(PermissionCases)
  BY <1>1, <1>2 DEF Gives
<1> QED
  BY <1>3, <1>4, GivesReadable, ServicesKnow DEF Permission

LEMMA UserPerksReadable ==
  ASSUME NEW allowed \in BOOLEAN
  PROVE  Readable(UserPerksComposer(allowed))
<1> DEFINE V == Values(PermissionCases)
           n == Len(PerkNames)
           given(k) == Bool(IF k \in {1, 2, 3, 8, 11} THEN allowed ELSE PerkNames[k] # 0)
           list == [k \in 1..n |-> <<Str(PerkNames[k]), Str(0), given(k)>>]
           all == SerializeAll(PermissionCases, list)
           object == Object(PermissionCases, <<all>>)
<1>1. n \in Nat /\ \A k \in 1..n : PerkNames[k] \in Nat
  <2>1. PerkNames \in Seq(Nat)
    BY DEF PerkNames
  <2> QED BY <2>1, ElementOfSeq
<1>2. \A l \in Nat : Str(l) \in V
  BY PlainValues
<1>3. \A k \in 1..n : given(k) \in V
  <2> TAKE k \in 1..n
  <2>1. (IF k \in {1, 2, 3, 8, 11} THEN allowed ELSE PerkNames[k] # 0) \in BOOLEAN
    OBVIOUS
  <2> QED BY <2>1, BoolValues, Zenon
<1>4. UserPerksComposer(allowed) = Permission(2586, <<object>>)
  BY DEF UserPerksComposer
<1> HIDE DEF n, given
<1>5. \A k \in 1..n : list[k] \in Seq(V)
  BY <1>1, <1>2, <1>3
<1>6. list = [k \in 1..n |-> list[k]]
  OBVIOUS
<1> HIDE DEF list
<1>7. all \in V
  BY <1>1, <1>5, <1>6, ListOfValues, ServicesKnow
<1> HIDE DEF all
<1>8. <<all>> \in Gives(PermissionCases)
  BY <1>7 DEF Gives
<1>9. object \in V
  BY <1>8, BytesAreGiven, ServicesKnow
<1> HIDE DEF object
<1>10. <<object>> \in Gives(PermissionCases)
  BY <1>9 DEF Gives
<1> QED
  BY <1>4, <1>10, GivesReadable, ServicesKnow DEF Permission

LEMMA UserClubReadable ==
  ASSUME NEW type \in Nat, NEW days \in Int, NEW pastDays \in Int, NEW minutes \in Int
  PROVE  Readable(UserClubComposer(type, days, pastDays, minutes))
<1> DEFINE V == Values(SubscriptionCases)
           past == Bool(pastDays > 0)
           yes == Bool(TRUE)
           list == <<Str(type), Num(days), Num(0), Num(0), Num(0), past, yes, Num(0),
                     Num(pastDays), Num(minutes), Num(0)>>
           body == Bytes(SubscriptionCases, list)
<1>1. (\A x \in Int : Num(x) \in V) /\ (\A l \in Nat : Str(l) \in V) /\ yes \in V
  BY PlainValues
<1>2. past \in V
  <2>1. (pastDays > 0) \in BOOLEAN
    OBVIOUS
  <2> QED BY <2>1, BoolValues, Zenon
<1>3. UserClubComposer(type, days, pastDays, minutes) = Reply(SubscriptionCases, 954, <<body>>)
  BY DEF UserClubComposer
<1> HIDE DEF past, yes
<1>4. list \in Gives(SubscriptionCases)
  BY <1>1, <1>2 DEF Gives
<1> HIDE DEF list
<1>5. body \in V
  BY <1>4, BytesAreGiven, ServicesKnow
<1> HIDE DEF body
<1>6. <<body>> \in Gives(SubscriptionCases)
  BY <1>5 DEF Gives
<1> QED
  BY <1>3, <1>6, GivesReadable, ServicesKnow

Badges == [type : {"B"}, extra : Nat]
Wares == Badges \union [type : {"s"}, extra : Nat, amount : Int, limited : BOOLEAN]
ClubGifts == [name : Nat, furniture : Seq(Wares), days : Int, serialized : {TRUE}]

LEMMA FurnitureValues ==
  ASSUME NEW i \in Wares
  PROVE  SerializeFurniture(i) \in Seq(Values(CatalogCases))
<1> DEFINE V == Values(CatalogCases)
           limited == Bool(i.limited)
           a == <<Str(1), Num(1), Str(i.extra), Num(i.amount), limited>>
           b == IF i.limited THEN <<Num(2), Num(1)>> ELSE <<>>
<1>1. (\A x \in Int : Num(x) \in V) /\ (\A l \in Nat : Str(l) \in V)
  BY PlainValues
<1>2. i.extra \in Nat
  BY DEF Wares, Badges
<1>3. CASE i.type = "B"
  <2>1. SerializeFurniture(i) = <<Str(1), Str(i.extra)>>
    BY <1>3 DEF SerializeFurniture
  <2> QED BY <1>1, <1>2, <2>1
<1>4. CASE i.type # "B"
  <2>1. i.amount \in Int /\ i.limited \in BOOLEAN
    BY <1>4 DEF Wares, Badges
  <2>2. limited \in V
    BY <2>1, BoolValues, Zenon
  <2>3. SerializeFurniture(i) = a \o b
    BY <1>4 DEF SerializeFurniture
  <2> HIDE DEF limited
  <2>4. a \in Seq(V) /\ b \in Seq(V)
    BY <1>1, <1>2, <2>1, <2>2
  <2> HIDE DEF a, b
  <2> QED BY <2>3, <2>4, ConcatProperties
<1> QED
  BY <1>3, <1>4

LEMMA OfferValues ==
  ASSUME NEW o \in ClubGifts
  PROVE  SerializeOffer(o) \in Seq(Values(CatalogCases))
<1> DEFINE V == Values(CatalogCases)
           T == Seq(V)
           n == Len(o.furniture)
           some == Bool(o.furniture # <<>>)
           yes == Bool(TRUE)
           no == Bool(FALSE)
           list == [k \in 1..n |-> SerializeFurniture(o.furniture[k])]
           a == <<Num(1), Str(o.name), no, Num(1), Num(1), Num(0), some, Num(n)>>
           b == FlattenSeq(list)
           c == <<Num(0), yes, no, Str(o.name + 4)>>
<1>1. (\A x \in Int : Num(x) \in V) /\ (\A l \in Nat : Str(l) \in V) /\ yes \in V /\ no \in V
  BY PlainValues
<1>2. o.name \in Nat /\ o.furniture \in Seq(Wares) /\ o.serialized
  BY DEF ClubGifts
<1>3. n \in Nat /\ \A k \in 1..n : o.furniture[k] \in Wares
  BY <1>2, ElementOfSeq
<1>4. some \in V
  <2>1. (o.furniture # <<>>) \in BOOLEAN
    OBVIOUS
  <2> QED BY <2>1, BoolValues, Zenon
<1>5. SerializeOffer(o) = a \o b \o c
  BY <1>2 DEF SerializeOffer
<1> HIDE DEF n, some, yes, no
<1>6. a \in T /\ c \in T
  BY <1>1, <1>2, <1>3, <1>4
<1>7. b \in T
  <2>1. \A k \in 1..n : list[k] \in T
    BY <1>3, FurnitureValues
  <2>2. list = [k \in 1..n |-> list[k]]
    OBVIOUS
  <2> HIDE DEF list
  <2>3. list \in Seq(Seq(V)) /\ Len(list) = n
    <3> HIDE DEF T
    <3>1. list \in Seq(T) /\ Len(list) = n
      BY <1>3, <2>1, <2>2
    <3> QED BY <3>1 DEF T
  <2>4. PICK f \in [0..n -> T] : FlattenSeq(list) = f[n]
    BY <2>3, FlattenLoops
  <2> HIDE DEF T
  <2>5. f[n] \in T
    BY <1>3, <2>4
  <2> QED BY <2>4, <2>5
<1> HIDE DEF a, b, c
<1>8. a \o b \in T
  BY <1>6, <1>7, ConcatProperties
<1> QED
  BY <1>5, <1>6, <1>8, ConcatProperties

LEMMA ClubGiftValues ==
  ASSUME NEW o \in ClubGifts, NEW daysAsHC \in Int
  PROVE  ToClubGiftItem(o, daysAsHC) \in Seq(Values(CatalogCases))
<1> DEFINE V == Values(CatalogCases)
           no == Bool(FALSE)
           reached == Bool(o.days <= daysAsHC)
<1>1. o.days \in Int
  BY DEF ClubGifts
<1>2. (\A x \in Int : Num(x) \in V) /\ no \in V
  BY PlainValues
<1>3. reached \in V
  <2>1. (o.days <= daysAsHC) \in BOOLEAN
    OBVIOUS
  <2> QED BY <2>1, BoolValues, Zenon
<1>4. ToClubGiftItem(o, daysAsHC) = <<Num(1), no, Num(o.days), reached>>
  BY DEF ToClubGiftItem
<1> HIDE DEF no, reached
<1> QED
  BY <1>1, <1>2, <1>3, <1>4

LEMMA ClubGiftsReadable ==
  ASSUME NEW days \in Int, NEW gifts \in Int, NEW daysAsHC \in Int, NEW offers \in Seq(ClubGifts)
  PROVE  Readable(ClubGiftsComposer(days, gifts, daysAsHC, offers))
<1> DEFINE V == Values(CatalogCases)
           n == Len(offers)
           list == [k \in 1..n |-> SerializeOffer(offers[k])]
           items == [k \in 1..n |-> ToClubGiftItem(offers[k], daysAsHC)]
           first == SerializeAll(CatalogCases, list)
           second == SerializeAll(CatalogCases, items)
           values == <<Num(days), Num(gifts), first, second>>
           object == Object(CatalogCases, values)
<1>1. n \in Nat /\ \A k \in 1..n : offers[k] \in ClubGifts
  BY ElementOfSeq
<1>2. Num(days) \in V /\ Num(gifts) \in V
  BY PlainValues
<1>3. ClubGiftsComposer(days, gifts, daysAsHC, offers) = Reply(CatalogCases, 619, <<object>>)
  BY DEF ClubGiftsComposer
<1> HIDE DEF n
<1>4. \A k \in 1..n : list[k] \in Seq(V) /\ items[k] \in Seq(V)
  BY <1>1, OfferValues, ClubGiftValues
<1>5. list = [k \in 1..n |-> list[k]] /\ items = [k \in 1..n |-> items[k]]
  OBVIOUS
<1> HIDE DEF list, items
<1>6. first \in V /\ second \in V
  BY <1>1, <1>4, <1>5, ListOfValues, ServicesKnow
<1> HIDE DEF first, second
<1>7. values \in Gives(CatalogCases)
  BY <1>2, <1>6 DEF Gives
<1> HIDE DEF values
<1>8. object \in V
  BY <1>7, BytesAreGiven, ServicesKnow
<1> HIDE DEF object
<1>9. <<object>> \in Gives(CatalogCases)
  BY <1>8 DEF Gives
<1> QED
  BY <1>3, <1>9, GivesReadable, ServicesKnow

LEMMA OffersAreGifts == Offers({TRUE}) \subseteq ClubGifts
<1>1. Lengths \subseteq Nat
  BY ReadingAssumption
<1>2. ASSUME NEW f \in Furniture PROVE f \in Wares
  <2>1. CASE f \in {[type |-> "B", extra |-> e] : e \in Lengths}
    BY <1>1, <2>1 DEF Wares, Badges
  <2>2. CASE f \in [type : {"s"}, extra : Lengths, amount : {1, 2}, limited : BOOLEAN]
    <3>1. /\ f = [type |-> f.type, extra |-> f.extra, amount |-> f.amount, limited |-> f.limited]
          /\ f.type = "s" /\ f.extra \in Lengths /\ f.amount \in {1, 2} /\ f.limited \in BOOLEAN
      BY <2>2
    <3>2. f.extra \in Nat /\ f.amount \in Int
      BY <1>1, <3>1
    <3>3. f \in [type : {"s"}, extra : Nat, amount : Int, limited : BOOLEAN]
      BY <3>1, <3>2
    <3> QED BY <3>3 DEF Wares
  <2> QED BY <2>1, <2>2 DEF Furniture
<1>3. ASSUME NEW x \in {<<>>} \union {<<f>> : f \in Furniture} PROVE x \in Seq(Wares)
  <2>1. CASE x = <<>>
    BY <2>1
  <2>2. CASE \E f \in Furniture : x = <<f>>
    BY <1>2, <2>2
  <2> QED BY <2>1, <2>2
<1> SUFFICES ASSUME NEW o \in Offers({TRUE}) PROVE o \in ClubGifts
  OBVIOUS
<1>4. /\ o = [name |-> o.name, furniture |-> o.furniture, days |-> o.days, serialized |-> o.serialized]
      /\ o.name = 2 /\ o.furniture \in {<<>>} \union {<<f>> : f \in Furniture}
      /\ o.days \in {1, 3} /\ o.serialized \in {TRUE}
  BY DEF Offers
<1> DEFINE T == Seq(Wares)
           B == {TRUE}
<1>5. o.furniture \in T
  BY <1>3, <1>4
<1>6. o.serialized \in B
  BY <1>4
<1>7. o.name \in Nat /\ o.days \in Int
  BY <1>4
<1>8. ClubGifts = [name : Nat, furniture : T, days : Int, serialized : B]
  BY DEF ClubGifts
<1> HIDE DEF T, B
<1> QED
  BY <1>4, <1>5, <1>6, <1>7, <1>8

LEMMA RowsAreGiven == FriendRows \subseteq Friendships /\ Topics \subseteq TopicRows
<1>1. Lengths \subseteq Nat
  BY ReadingAssumption
<1>2. ASSUME NEW x \in FriendRows PROVE x \in Friendships
  <2>1. /\ x = [id |-> x.id, name |-> x.name, online |-> x.online, look |-> x.look]
        /\ x.id = 1 /\ x.name = 1 /\ x.online \in BOOLEAN /\ x.look \in Lengths
    BY DEF FriendRows
  <2>2. x.id \in Int /\ x.name \in Nat /\ x.online \in BOOLEAN /\ x.look \in Nat
    BY <1>1, <2>1
  <2> QED BY <2>1, <2>2 DEF Friendships
<1>3. ASSUME NEW x \in Topics PROVE x \in TopicRows
  <2>1. /\ x = [name |-> x.name, id |-> x.id, action |-> x.action]
        /\ x.name \in Lengths /\ x.id = 1 /\ x.action = 1
    BY DEF Topics
  <2>2. x.name \in Nat /\ x.id \in Int /\ x.action \in Nat
    BY <1>1, <2>1
  <2> QED BY <2>1, <2>2 DEF TopicRows
<1> QED
  BY <1>2, <1>3

LEMMA NoFavoritesReadable ==
  ASSUME NEW max \in Int
  PROVE  Readable(FavoriteRoomsCountComposer(max, <<>>))
<1> DEFINE V == Values(PlayerCases)
           ints == Ints(<<>>)
           none == <<ints>>
           body == Bytes(PlayerCases, none)
<1>1. (\A x \in Int : Num(x) \in V) /\ ints \in V
  BY PlainValues
<1>2. FavoriteRoomsCountComposer(max, <<>>) = Player(151, <<Num(max), Num(0), body>>)
  <2>1. Len(<<>>) = 0
    OBVIOUS
  <2> QED BY <2>1 DEF FavoriteRoomsCountComposer
<1> HIDE DEF ints
<1>3. none \in Gives(PlayerCases)
  BY <1>1 DEF Gives
<1> HIDE DEF none
<1>4. body \in V
  BY <1>3, BytesAreGiven, ServicesKnow
<1> HIDE DEF body
<1>5. <<Num(max), Num(0), body>> \in Gives(PlayerCases)
  BY <1>1, <1>4 DEF Gives
<1> QED
  BY <1>2, <1>5, GivesReadable, ServicesKnow DEF Player

\* Lists of members of a set are sequences over any larger set.
LEMMA ListsAreGiven ==
  ASSUME NEW S, NEW T, S \subseteq T, NEW x \in Lists(S)
  PROVE  x \in Seq(T)
<1>1. x \in Seq(S)
  BY ListsAreSequences
<1>2. \A k \in 1..Len(x) : x[k] \in T
  BY <1>1, ElementOfSeq
<1>3. Len(x) \in Nat /\ x = [k \in 1..Len(x) |-> x[k]]
  BY <1>1
<1> DEFINE n == Len(x)
<1> HIDE DEF n
<1>4. x \in Seq(T)
  BY <1>2, <1>3 DEF n
<1> QED
  BY <1>4

LEMMA LoginRepliesReadable ==
  ASSUME NEW r \in LoginReplies
  PROVE  Readable(r)
<1>1. Lengths \subseteq Nat /\ Numbers \subseteq Int
  BY ReadingAssumption
<1>2. CASE r \in {LoginOKComposer, UserNoobStatusComposer(1), AvailabilityStatusComposer,
                  EnableNotificationsComposer, MysteryBoxComposer, BuildersClubExpiredComposer}
  BY <1>2, LoginReadable
<1>3. CASE r = FavoriteRoomsCountComposer(3, <<>>)
  BY <1>3, NoFavoritesReadable
<1>4. CASE \E n \in Numbers : r = AchievementScoreComposer(n)
  BY <1>1, <1>4, LoginReadable
<1>5. CASE \E name \in Lengths : \E motto \in Lengths : \E n \in Numbers : r = UserDataComposer(name, motto, n)
  BY <1>1, <1>5, UserDataReadable
<1> QED
  BY <1>2, <1>3, <1>4, <1>5 DEF LoginReplies

LEMMA PlayerRepliesReadable ==
  ASSUME NEW r \in PlayerReplies
  PROVE  Readable(r)
<1>1. Lengths \subseteq Nat /\ Numbers \subseteq Int
  BY ReadingAssumption
<1>2. CASE \E d \in 1..3 : r = UserCreditsComposer(d)
  BY <1>2, LoginReadable
<1>3. CASE \E a \in Lists(Numbers) : r = UserCurrencyComposer(a)
  <2>1. PICK a \in Lists(Numbers) : r = UserCurrencyComposer(a)
    BY <1>3
  <2> QED BY <1>1, <2>1, ListsAreGiven, UserCurrencyReadable
<1>4. CASE \E e \in Lists(Effects) : r = UserEffectsComposer(e, 4)
  <2>1. PICK e \in Lists(Effects) : r = UserEffectsComposer(e, 4)
    BY <1>4
  <2>2. Effects \subseteq EffectRows
    BY DEF Effects, EffectRows
  <2> QED BY <2>1, <2>2, ListsAreGiven, UserEffectsReadable
<1> QED
  BY <1>2, <1>3, <1>4 DEF PlayerReplies

LEMMA FriendsRepliesReadable ==
  ASSUME NEW r \in FriendsReplies
  PROVE  Readable(r)
<1>1. Lengths \subseteq Nat /\ Numbers \subseteq Int
  BY ReadingAssumption
<1>2. CASE \E i \in BOOLEAN : \E c \in Lists(Lengths) : r = MessengerInitComposer(i, c)
  <2>1. PICK i \in BOOLEAN : \E c \in Lists(Lengths) : r = MessengerInitComposer(i, c)
    BY <1>2
  <2>2. PICK c \in Lists(Lengths) : r = MessengerInitComposer(i, c)
    BY <2>1
  <2>3. c \in Seq(Nat)
    BY <1>1, ListsAreGiven
  <2> QED BY <2>2, <2>3, MessengerInitReadable, Zenon
<1>3. CASE \E f \in Lists(FriendRows) : r \in FriendsPages(f, 1)
  <2>1. PICK f \in Lists(FriendRows) : r \in FriendsPages(f, 1)
    BY <1>3
  <2>2. FriendRows \subseteq Friendships
    BY RowsAreGiven
  <2>3. f \in Seq(Friendships) /\ 1 \in Nat \ {0}
    BY <2>2, ListsAreGiven
  <2> QED BY <2>1, <2>3, FriendsPagesReadable
<1>4. CASE \E names \in Lists(Lengths) : r = LoadFriendRequestsComposer(names)
  <2>1. PICK names \in Lists(Lengths) : r = LoadFriendRequestsComposer(names)
    BY <1>4
  <2> QED BY <1>1, <2>1, ListsAreGiven, FriendRequestsReadable
<1>5. r \in FriendLists => \E f \in Lists(FriendRows) : r \in FriendsPages(f, 1)
  BY DEF FriendLists
<1> QED
  BY <1>2, <1>3, <1>4, <1>5 DEF FriendsReplies

LEMMA ListRepliesReadable ==
  ASSUME NEW r \in ListReplies
  PROVE  Readable(r)
<1>1. Lengths \subseteq Nat /\ Numbers \subseteq Int
  BY ReadingAssumption
<1>2. CASE \E p \in Parts : r = GuildPartsComposer(p)
  <2>1. PICK p \in Parts : r = GuildPartsComposer(p)
    BY <1>2
  <2>2. PICK v \in Lists(Lengths) : p = <<[type |-> "base", values |-> v], [type |-> "color", values |-> v]>>
    BY DEF Parts
  <2>3. v \in Seq(Nat)
    BY <1>1, ListsAreGiven
  <2>4. p \in Seq(Shapes)
    BY <2>2, <2>3 DEF Shapes
  <2> QED BY <2>1, <2>4, GuildPartsReadable
<1>3. CASE \E c \in Lists(Lists(Topics)) : r = CfhTopicsComposer(c)
  <2>1. PICK c \in Lists(Lists(Topics)) : r = CfhTopicsComposer(c)
    BY <1>3
  <2>2. Topics \subseteq TopicRows
    BY RowsAreGiven
  <2>3. Lists(Topics) \subseteq Seq(TopicRows)
    BY <2>2, ListsAreGiven
  <2>4. c \in Seq(Seq(TopicRows))
    BY <2>3, ListsAreGiven
  <2> QED BY <2>1, <2>4, CfhTopicsReadable
<1>4. LevelLists \subseteq Seq(Int)
  BY DEF LevelLists
<1>5. CASE \E a \in Lists(LevelLists) : r = InventoryAchievementsComposer(a)
  <2>1. PICK a \in Lists(LevelLists) : r = InventoryAchievementsComposer(a)
    BY <1>5
  <2>2. a \in Seq(Seq(Int))
    BY <1>4, ListsAreGiven
  <2> QED BY <2>1, <2>2, InventoryReadable
<1>6. CASE \E a \in Lists(LevelLists) : \E p \in Numbers : r = AchievementsListComposer(a, p)
  <2>1. PICK a \in Lists(LevelLists) : \E p \in Numbers : r = AchievementsListComposer(a, p)
    BY <1>6
  <2>2. PICK p \in Numbers : r = AchievementsListComposer(a, p)
    BY <2>1
  <2>3. a \in Seq(Seq(Int)) /\ p \in Int
    BY <1>1, <1>4, ListsAreGiven
  <2> QED BY <2>2, <2>3, AchievementsListReadable
<1> QED
  BY <1>2, <1>3, <1>5, <1>6 DEF ListReplies

LEMMA RightsRepliesReadable ==
  ASSUME NEW r \in RightsReplies
  PROVE  Readable(r)
<1>1. Lengths \subseteq Nat /\ Numbers \subseteq Int
  BY ReadingAssumption
<1>2. CASE \E c \in {0, 2} : \E l \in Numbers : \E a \in BOOLEAN : r = UserPermissionsComposer(c, l, a)
  <2>1. PICK c \in {0, 2} : \E l \in Numbers : \E a \in BOOLEAN : r = UserPermissionsComposer(c, l, a)
    BY <1>2
  <2>2. PICK l \in Numbers : \E a \in BOOLEAN : r = UserPermissionsComposer(c, l, a)
    BY <2>1
  <2>3. PICK a \in BOOLEAN : r = UserPermissionsComposer(c, l, a)
    BY <2>2
  <2>4. c \in Int /\ l \in Int
    BY <1>1
  <2> QED BY <2>3, <2>4, UserPermissionsReadable, Zenon
<1>3. CASE \E a \in BOOLEAN : r = UserPerksComposer(a)
  BY <1>3, UserPerksReadable, Zenon
<1>4. CASE \E t \in Lengths : \E d \in Numbers : \E m \in Numbers : r = UserClubComposer(t, d, d, m)
  BY <1>1, <1>4, UserClubReadable
<1>5. CASE \E o \in Lists(Offers({TRUE})) : r = ClubGiftsComposer(0, 1, 2, o)
  <2>1. PICK o \in Lists(Offers({TRUE})) : r = ClubGiftsComposer(0, 1, 2, o)
    BY <1>5
  <2>2. Offers({TRUE}) \subseteq ClubGifts
    BY OffersAreGifts
  <2>3. o \in Seq(ClubGifts) /\ 0 \in Int /\ 1 \in Int /\ 2 \in Int
    BY <2>2, ListsAreGiven
  <2> QED BY <2>1, <2>3, ClubGiftsReadable
<1> QED
  BY <1>2, <1>3, <1>4, <1>5 DEF RightsReplies

\* Every reply that is not short of what it has counted can be read.
LEMMA RepliesAreReadable ==
  ASSUME NEW r \in Replies, r \notin Short
  PROVE  Readable(r)
BY LoginRepliesReadable, PlayerRepliesReadable, FriendsRepliesReadable, ListRepliesReadable,
   RightsRepliesReadable DEF Replies

-----------------------------------------------------------------------------
(* A client reads a reply. *)

LEMMA PacketsAreParsed ==
  ASSUME NEW h \in Int, NEW bytes \in Seq(Byte)
  PROVE  ParseMessage(AddSize(ShortToBytes(h) \o bytes)) = Taken(Signed(ShortToBytes(h)), bytes)
<1> DEFINE x == ShortToBytes(h) \o bytes
           size == IntegerToBytes(Len(x))
           packet == size \o x
<1>1. ShortToBytes(h) \in Seq(Byte) /\ Len(ShortToBytes(h)) = 2
  BY FourAndTwo
<1>2. x \in Seq(Byte) /\ Len(x) = 2 + Len(bytes)
  <2> DEFINE s == ShortToBytes(h)
  <2> HIDE DEF s
  <2>1. s \o bytes \in Seq(Byte) /\ Len(s \o bytes) = 2 + Len(bytes)
    BY <1>1, Cut DEF s
  <2> QED BY <2>1 DEF s
<1>3. ReadShort(x) = Taken(Signed(ShortToBytes(h)), bytes)
  BY ShortsAreRead
<1> HIDE DEF x
<1>4. Len(bytes) \in Nat /\ Len(x) \in Int
  BY <1>2
<1>5. size \in Seq(Byte) /\ Len(size) = 4
  BY <1>4, FourAndTwo
<1>6. ReadInt(packet) = Taken(Len(x) % Limit(4), x)
  BY <1>2, <1>4, IntsAreRead
<1>7. AddSize(x) = packet
  BY DEF AddSize
<1> HIDE DEF size
<1>8. Len(packet) = 6 + Len(bytes)
  <2>1. Len(packet) = Len(size) + Len(x)
    BY <1>2, <1>5, Cut
  <2> QED BY <1>2, <1>4, <1>5, <2>1
<1> HIDE DEF packet
<1>9. ReadInt(packet).rest = x
  BY <1>6 DEF Taken
<1>10. ~(Len(packet) < 6)
  BY <1>4, <1>8
<1>11. ParseMessage(packet) = ReadShort(x)
  BY <1>9, <1>10 DEF ParseMessage
<1> QED
  BY <1>3, <1>7, <1>11 DEF x

\* A field is read as what was written, whatever is behind it.
LEMMA FieldsAreRead ==
  ASSUME NEW v \in Plain, NEW tail \in Seq(Byte), v.kind = "string" => v.value < Limit(2) \div 2
  PROVE  /\ v.kind = "int" => ReadInt(FieldBytes(v) \o tail) = Taken(Expected(v), tail)
         /\ v.kind = "string" => ReadString(FieldBytes(v) \o tail) = Taken(Expected(v), tail)
         /\ v.kind = "bool" => ReadBool(FieldBytes(v) \o tail) = Taken(Expected(v), tail)
<1>1. ASSUME NEW n \in Int, v = Num(n)
      PROVE  v.kind = "int" /\ ReadInt(FieldBytes(v) \o tail) = Taken(Expected(v), tail)
  <2>1. v.kind = "int" /\ FieldBytes(v) = IntegerToBytes(n) /\ Expected(v) = n % Limit(4)
    BY <1>1 DEF Num, Value, FieldBytes, Expected
  <2> QED BY <2>1, IntsAreRead
<1>2. ASSUME NEW l \in Nat, v = Str(l)
      PROVE  v.kind = "string" /\ ReadString(FieldBytes(v) \o tail) = Taken(Expected(v), tail)
  <2>1. v.kind = "string" /\ FieldBytes(v) = AppendString(l) /\ Expected(v) = l /\ v.value = l
    BY <1>2 DEF Str, Value, FieldBytes, Expected
  <2> QED BY <2>1, StringsAreRead
<1>3. ASSUME NEW b \in BOOLEAN, v = Bool(b)
      PROVE  v.kind = "bool" /\ ReadBool(FieldBytes(v) \o tail) = Taken(Expected(v), tail)
  <2>1. v.kind = "bool" /\ FieldBytes(v) = <<BoolToByte(b)>> /\ Expected(v) = b
    BY <1>3 DEF Bool, Value, FieldBytes, Expected
  <2> QED BY <2>1, BoolsAreRead
<1> QED
  BY <1>1, <1>2, <1>3 DEF Plain

\* What is not read yet are the bytes behind the fields that are.
ReadingInv ==
  /\ reply \in Replies
  /\ ~LongString /\ reply \notin Short =>
       /\ read = "right"
       /\ \/ at = -1 /\ rest = reply.packet
          \/ \E bytes : \E s : /\ Behind(s, bytes, reply.fields)
                               /\ at \in 0..Len(reply.fields) /\ rest = s[at]

LEMMA HeaderRead ==
  ASSUME ReadingInv, ReadHeader
  PROVE  ReadingInv'
<1>1. at = -1 /\ Continues(ParseMessage(rest), Signed(ShortToBytes(reply.header)))
  BY DEF ReadHeader
<1>2. reply' = reply /\ LongString' = LongString /\ Short' = Short /\ Replies' = Replies
  BY <1>1 DEF Continues, LongString
<1>3. SUFFICES ASSUME ~LongString, reply \notin Short
      PROVE  /\ read' = "right"
             /\ \E bytes : \E s : /\ Behind(s, bytes, reply.fields)
                                  /\ at' \in 0..Len(reply.fields) /\ rest' = s[at']
  BY <1>2 DEF ReadingInv
<1>4. rest = reply.packet /\ Readable(reply)
  BY <1>1, <1>3, RepliesAreReadable DEF ReadingInv
<1>5. reply.header \in Int
  BY <1>4 DEF Readable
<1>6. PICK bytes : Encodes(bytes, reply.fields) /\ reply.packet = AddSize(ShortToBytes(reply.header) \o bytes)
  BY <1>4 DEF Readable
<1>7. PICK s : Behind(s, bytes, reply.fields)
  BY <1>6 DEF Encodes
<1>8. bytes \in Seq(Byte) /\ s[0] = bytes /\ 0 \in 0..Len(reply.fields)
  BY <1>6, <1>7 DEF Behind, Encodes
<1>9. ParseMessage(rest) = Taken(Signed(ShortToBytes(reply.header)), bytes)
  BY <1>4, <1>5, <1>6, <1>8, PacketsAreParsed
<1>10. at' = 0 /\ read' = "right" /\ rest' = bytes
  BY <1>1, <1>9 DEF Continues, Taken
<1> QED
  BY <1>7, <1>8, <1>10

LEMMA FieldRead ==
  ASSUME ReadingInv, ReadField
  PROVE  ReadingInv'
<1> DEFINE v == reply.fields[at + 1]
           n == Len(reply.fields)
<1>1. /\ at \in 0..n - 1
      /\ \/ v.kind = "int" /\ Continues(ReadInt(rest), Expected(v))
         \/ v.kind = "string" /\ Continues(ReadString(rest), Expected(v))
         \/ v.kind = "bool" /\ Continues(ReadBool(rest), Expected(v))
  BY DEF ReadField
<1>2. reply' = reply /\ LongString' = LongString /\ Short' = Short /\ Replies' = Replies /\ at' = at + 1
  BY <1>1 DEF Continues, LongString
<1>3. SUFFICES ASSUME ~LongString, reply \notin Short
      PROVE  /\ read' = "right"
             /\ \E bytes : \E s : /\ Behind(s, bytes, reply.fields)
                                  /\ at' \in 0..n /\ rest' = s[at']
  BY <1>2 DEF ReadingInv
<1>4. Readable(reply)
  BY <1>3, RepliesAreReadable DEF ReadingInv
<1>5. reply.fields \in Seq(Plain) /\ n \in Nat
  BY <1>4 DEF Readable, Encodes
<1>6. at # -1 /\ at + 1 \in 1..n /\ (at + 1) - 1 = at
  BY <1>1, <1>5
<1>7. PICK bytes : \E s : Behind(s, bytes, reply.fields) /\ rest = s[at]
  BY <1>3, <1>6 DEF ReadingInv
<1>8. PICK s : Behind(s, bytes, reply.fields) /\ rest = s[at]
  BY <1>7
<1> DEFINE tail == s[at + 1]
<1>9. tail \in Seq(Byte) /\ rest = FieldBytes(v) \o tail
  <2>1. /\ s \in [0..n -> Seq(Byte)]
        /\ \A k \in 1..n : s[k - 1] = FieldBytes(reply.fields[k]) \o s[k]
    BY <1>8 DEF Behind
  <2> HIDE DEF n
  <2>2. s[(at + 1) - 1] = FieldBytes(v) \o tail
    BY <1>6, <2>1
  <2>3. at + 1 \in 0..n
    BY <1>5, <1>6
  <2>4. tail \in Seq(Byte)
    BY <2>1, <2>3
  <2> QED BY <1>6, <1>8, <2>2, <2>4
<1>10. v \in Plain
  BY <1>5, <1>6, ElementOfSeq
<1>11. v.kind = "string" => v.value < Limit(2) \div 2
  <2>1. v.kind = "string" => ~(v.value >= Limit(2) \div 2)
    BY <1>3, <1>6 DEF LongString
  <2>2. v.kind = "string" => v.value \in Nat
    <3> HIDE DEF v
    <3> QED BY <1>10 DEF Plain, Num, Str, Bool, Value
  <2>3. Limit(2) \div 2 \in Int
    <3> DEFINE d == Limit(2)
    <3>1. d \in Nat
      BY LimitIs DEF Positive
    <3> HIDE DEF d
    <3>2. d \div 2 \in Int
      BY <3>1
    <3> QED BY <3>2 DEF d
  <2> DEFINE half == Limit(2) \div 2
  <2> HIDE DEF half, v
  <2>4. v.kind = "string" => v.value < half
    BY <2>1, <2>2, <2>3 DEF half
  <2> QED BY <2>4 DEF half
<1>12. \E result : result = Taken(Expected(v), tail) /\ Continues(result, Expected(v))
  <2>1. /\ v.kind = "int" => ReadInt(rest) = Taken(Expected(v), tail)
        /\ v.kind = "string" => ReadString(rest) = Taken(Expected(v), tail)
        /\ v.kind = "bool" => ReadBool(rest) = Taken(Expected(v), tail)
    <3> HIDE DEF v, tail
    <3> QED BY <1>9, <1>10, <1>11, FieldsAreRead
  <2> HIDE DEF v, tail
  <2> QED BY <1>1, <2>1
<1>13. read' = "right" /\ rest' = tail
  <2> HIDE DEF v, tail
  <2> QED BY <1>12 DEF Continues, Taken
<1>14. at' \in 0..n /\ rest' = s[at']
  BY <1>2, <1>5, <1>6, <1>13
<1> QED
  BY <1>8, <1>13, <1>14

\* A client reads in a reply what its composer has put in, up to the last byte,
\* with the readers of packets.go and whatever the lengths and numbers are, unless
\* a string is too long for its length or the reply lacks what it has counted.
THEOREM RepliesAlwaysRead == ReadingSpec => []ReplyRead
<1>1. ReadingInit => ReadingInv
  BY DEF ReadingInit, ReadingInv
<1>2. ReadingInv /\ [ReadingNext]_readingVars => ReadingInv'
  <2>1. ASSUME ReadingInv, UNCHANGED readingVars PROVE ReadingInv'
    BY <2>1 DEF ReadingInv, readingVars, LongString
  <2> QED BY <2>1, HeaderRead, FieldRead DEF ReadingNext
<1>3. ReadingInv => ReplyRead
  <2>1. SUFFICES ASSUME ReadingInv, ~LongString, reply \notin Short, at = Len(reply.fields)
        PROVE  rest = <<>>
    BY DEF ReadingInv, ReplyRead
  <2>2. Readable(reply)
    BY <2>1, RepliesAreReadable DEF ReadingInv
  <2>3. Len(reply.fields) \in Nat
    BY <2>2 DEF Readable, Encodes
  <2>4. PICK bytes : \E s : Behind(s, bytes, reply.fields) /\ rest = s[at]
    BY <2>1, <2>3 DEF ReadingInv
  <2> QED BY <2>1, <2>4 DEF Behind
<1> QED
  BY <1>1, <1>2, <1>3, PTL DEF ReadingSpec
===============================================================================
