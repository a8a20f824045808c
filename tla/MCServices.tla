------------------------------ MODULE MCServices ------------------------------
(* Behaviours of one part of the services at a time: the topic of a behaviour is
   fixed by its initial state, and the state of the others does not change. *)
EXTENDS ServiceStart, UserRequests, SubscriptionDuration, ReplyReading, ClubTimes

VARIABLE topic   \* "start", "requests", "duration", "replies" or "times"
serviceVars == <<topic, startVars, requestVars, durationVars, readingVars, clubVars>>

Client(h, s, p, f) == [headers |-> h, services |-> s, packets |-> p, failures |-> f]
\* With the services its headers involve.
Whole(h, p, f) == Client(h, UNION {Involved[x] : x \in h}, p, f)
MCClients ==
  {Client({}, {"modtool", "subscription", "achievements"}, 0, 0),
   Client({"UserData"}, {"player"}, 2, 1), Whole({"UserData"}, 1, 1), Whole({"Friends"}, 1, 0),
   Whole({"UserClub"}, 2, 1), Whole({"ClubGifts"}, 1, 1), Whole({"UserClub", "ClubGifts"}, 2, 0),
   Whole({"FriendRequests"}, 1, 1), Whole({"Achievements"}, 1, 1), Whole({"Credits"}, 1, 1),
   Whole({"GuildParts"}, 1, 1)}
MCMemberships ==
  LET Subs == [start : {0, 3}, duration : {5, 26}, active : BOOLEAN]
  IN {<<>>} \union {<<s>> : s \in Subs} \union {<<s, t>> : s, t \in Subs}

\* The parts that a behaviour is not about do not leave this state.
RestingClient == CHOOSE c \in MCClients : c.packets = 0
StartedInit ==
  /\ starting = "modtool" /\ position = Len(ModtoolMain) + 1
  /\ spawned = {} /\ executed = {ModtoolMain[k].step : k \in 1..Len(ModtoolMain)}
  /\ groups = {"login"} /\ announced = FALSE /\ overtaken = FALSE /\ startFaults = 0
  /\ unread = {} /\ published = 0 /\ dropped = {}

Init ==
  /\ topic \in {"start", "requests", "duration", "replies", "times"}
  /\ IF topic = "start" THEN StartInit ELSE StartedInit
  /\ RequestsInit /\ (topic # "requests" => client = RestingClient)
  /\ DurationInit
  /\ now = 0 /\ at = -1 /\ read = "right"
  /\ IF topic = "replies" THEN reply \in Replies ELSE reply = LoginOKComposer
  /\ rest = reply.packet
  /\ IF topic = "times" THEN memberships \in MCMemberships ELSE memberships = <<>>

Next ==
  \/ topic = "start" /\ StartNext
       /\ UNCHANGED <<topic, requestVars, durationVars, readingVars, clubVars>>
  \/ topic = "requests" /\ RequestsNext /\ UNCHANGED <<topic, startVars, durationVars, readingVars, clubVars>>
  \/ topic = "duration" /\ DurationNext /\ UNCHANGED <<topic, startVars, requestVars, readingVars, clubVars>>
  \/ topic = "replies" /\ ReadingNext /\ UNCHANGED <<topic, startVars, requestVars, durationVars, clubVars>>
  \/ topic = "times" /\ Tick /\ UNCHANGED <<topic, startVars, requestVars, durationVars, readingVars>>

Of(work) == topic = "requests" /\ work /\ UNCHANGED <<topic, startVars, durationVars, readingVars, clubVars>>
OfStart == topic = "start" /\ StartWorks /\ UNCHANGED <<topic, requestVars, durationVars, readingVars, clubVars>>
Fairness ==
  WF_serviceVars(Of(Works("player"))) /\ WF_serviceVars(Of(OthersWork)) /\ WF_serviceVars(OfStart)

Spec == Init /\ [][Next]_serviceVars /\ Fairness
==============================================================================
