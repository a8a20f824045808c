----------------------------- MODULE RequestTable -----------------------------
(***************************************************************************)
(* What the services do on a packet of a client or on the login event: the *)
(* handlers that event.go of each service registers, as the lookups each   *)
(* makes, in stages, and the packets it sends.                             *)
(*                                                                         *)
(* A lookup is made "at" a service, through an RPC unless it is the        *)
(* handler's own.  It needs "id", the id of the user under its ticket in   *)
(* Redis of that service, "row", the row of users with the ticket, or no   *)
(* more than the "stores" behind that service.  When it gives an error the *)
(* handler returns, goes on, or dereferences nil.  One that starts a       *)
(* goroutine is over at once, and its entry of the stream acknowledged.    *)
(* Handlers that do no more than fill a cache are left to ServiceCaches.   *)
(***************************************************************************)
EXTENDS Naturals, Sequences

Lookup(at, needs) == [at |-> at, needs |-> needs, without |-> "dropped"]
Tolerated(at, needs) == [at |-> at, needs |-> needs, without |-> "ok"]
Dereferenced(at, needs) == [at |-> at, needs |-> needs, without |-> "panic"]
Stage(looks, sends) == [looks |-> looks, sends |-> sends]
Goroutine(s, stages) == [service |-> s, goroutine |-> TRUE, stages |-> stages]
Handler(s, stages) == [service |-> s, goroutine |-> FALSE, stages |-> stages]

\* setUserId: the id is the first thing the other handlers of a service need.
SetUserId(s) == Goroutine(s, <<Stage({Lookup(s, "stores")}, "user_id")>>)

\* player follows its logins on the local bus: one goroutine calls the handlers
\* in turn.  "Statuses" are the packets between, each sent whatever its lookup
\* gives; the id that player keeps too is read by nobody.
LoginHandlers ==
  Goroutine("player",
    <<Stage({}, "LoginOK"), Stage({Tolerated("player", "stores")}, "Statuses"),
      Stage({Lookup("configuration", "stores"), Tolerated("player", "stores")}, "FavoriteRooms")>>)

\* player: loadUserData and loadUserRespectData look for the row.
PlayerHandlers(header) ==
  CASE header = "UserData" -> {Handler("player", <<Stage({Lookup("player", "row")}, "UserData")>>)}
    [] header = "Credits" ->
         {Goroutine("player", <<Stage({Lookup("player", "stores")}, "Credits")>>),
          Goroutine("player", <<Stage({Tolerated("player", "stores")}, "Currencies")>>)}
    [] header = "LOGIN" -> {LoginHandlers}
    [] OTHER -> {}

\* permission asks player for the rank, and dereferences what it is given.  Its
\* handler of the login, sendUserPermissions, is never subscribed: nobody calls
\* RegisterLoginHandlers there.
UserDataHandler_Goroutine(stages) == Goroutine("permission", stages)
UserDataHandler(stages) == Handler("permission", stages)
PermissionHandlers(header) ==
  IF header = "UserData"
  THEN {UserDataHandler(<<Stage({Dereferenced("player", "row")}, "nothing"),
                          Stage({Lookup("permission", "stores")}, "Perks")>>)}
  ELSE {}

SubscriptionHandlers_NoLogin(header) ==
  IF header = "UserClub"
  THEN {Goroutine("subscription", <<Stage({Lookup("subscription", "id")}, "UserClub")>>)} ELSE {}
SubscriptionHandlers(header) ==
  CASE header = "UserClub" ->
         {Goroutine("subscription", <<Stage({Lookup("subscription", "id")}, "UserClub")>>)}
    [] header = "LOGIN" -> {SetUserId("subscription")}
    [] OTHER -> {}

AchievementHandlers(header) ==
  CASE header = "Achievements" ->
         {Goroutine("achievements", <<Stage({Lookup("achievements", "id")}, "Achievements")>>)}
    [] header = "LOGIN" ->
         {SetUserId("achievements"),
          Handler("achievements", <<Stage({Lookup("achievements", "stores")}, "Inventory")>>)}
    [] OTHER -> {}

\* friends: the rank of the user is asked of player, that rank's permission of
\* permission; the key under which the login has stored it is another one.
FriendsHandlers(header) ==
  CASE header = "Friends" ->
         {Goroutine("friends",
            <<Stage({Tolerated("player", "row"), Tolerated("permission", "stores"),
                     Tolerated("friends", "id")}, "MessengerInit"),
              Stage({Lookup("friends", "id")}, "Friends")>>)}
    [] header = "FriendRequests" ->
         {Goroutine("friends", <<Stage({Lookup("friends", "id")}, "FriendRequests")>>)}
    [] header = "LOGIN" ->
         {SetUserId("friends"),
          Goroutine("friends", <<Stage({Tolerated("permission", "stores")}, "nothing")>>)}
    [] OTHER -> {}

\* catalog waits for three answers, and each error drops the handler.
CatalogHandlers(header) ==
  IF header = "ClubGifts"
  THEN {Goroutine("catalog", <<Stage({Lookup("subscription", "id"), Lookup("player", "stores"),
                                      Lookup("catalog", "stores")}, "ClubGifts")>>)}
  ELSE {}

GuildHandlers(header) ==
  IF header = "GuildParts"
  THEN {Goroutine("guilds", <<Stage({Tolerated("guilds", "stores")}, "GuildParts")>>)} ELSE {}

ModtoolHandlers(header) ==
  IF header = "LOGIN" THEN {Handler("modtool", <<Stage({Lookup("modtool", "stores")}, "CfhTopics")>>)}
  ELSE {}

ClientHeaders == {"UserData", "Credits", "UserClub", "Achievements", "Friends", "FriendRequests",
                  "ClubGifts", "GuildParts"}
Headers == ClientHeaders \union {"LOGIN"}

Handlers ==
  [h \in Headers |->
     UNION {PlayerHandlers(h), PermissionHandlers(h), SubscriptionHandlers(h), AchievementHandlers(h),
            FriendsHandlers(h), CatalogHandlers(h), GuildHandlers(h), ModtoolHandlers(h)}]

HandlersAt(s, header) == {h \in Handlers[header] : h.service = s}
ServicesOf == [header \in Headers |-> {h.service : h \in Handlers[header]}]
LooksOf(h) == UNION {h.stages[k].looks : k \in 1..Len(h.stages)}
\* The packets that a header is answered with by these services.
PacketsOf(header, services) ==
  (UNION {{h.stages[k].sends : k \in 1..Len(h.stages)} :
          h \in {g \in Handlers[header] : g.service \in services}}) \ {"nothing", "user_id"}
\* The services a header involves, those that are asked included.
Involved ==
  [header \in Headers |->
     ServicesOf[header] \union UNION {{l.at : l \in LooksOf(h)} : h \in Handlers[header]}]
Services == UNION {Involved[h] : h \in Headers}
==============================================================================
