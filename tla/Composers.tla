------------------------------- MODULE Composers -------------------------------
(***************************************************************************)
(* The packets that the services send: the composers of each, with the     *)
(* Serialize methods of the values they are given.  A reply is a packet    *)
(* and the fields a client reads in it.                                    *)
(***************************************************************************)
EXTENDS PacketCodec

Reply(cases, header, values) ==
  [packet |-> Compose(cases, header, values), header |-> header, fields |-> Fields(values)]

-----------------------------------------------------------------------------
(* player: at the login, and on requests. *)

Player(header, values) == Reply(PlayerCases, header, values)
LoginOKComposer == Player(2491, <<>>)
UserNoobStatusComposer(isNoob) == Player(3738, <<Num(isNoob)>>)
AvailabilityStatusComposer == Player(2033, <<Bool(TRUE), Bool(FALSE), Bool(TRUE)>>)
EnableNotificationsComposer == Player(3284, <<Bool(TRUE)>>)
AchievementScoreComposer(score) == Player(1968, <<Num(score)>>)
MysteryBoxComposer == Player(2833, <<Str(0), Str(0)>>)
BuildersClubExpiredComposer == Player(1452, <<Num(0), Num(MaxInt), Num(100), Num(0), Num(MaxInt)>>)
\* The rooms are one value, of type []int.
FavoriteRoomsCountComposer(max, rooms) ==
  Player(151, <<Num(max), Num(Len(rooms)), Bytes(PlayerCases, <<Ints(rooms)>>)>>)
UserDataComposer(name, motto, respects) ==
  Player(2725, <<Num(1), Str(name), Str(name), Str(1), Str(motto), Str(name), Bool(FALSE)>>
               \o [k \in 1..3 |-> Num(respects)]
               \o <<Bool(FALSE), Str(19), Bool(TRUE), Bool(FALSE)>>)
UserCreditsComposer(digits) == Player(3475, <<Str(digits + 2)>>)
UserCurrencyComposer(amounts) ==
  Player(2018, <<SerializeAll(PlayerCases,
                   [k \in 1..Len(amounts) |-> <<Num(k - 1), Num(amounts[k])>>])>>)

\* An effect: how long it lasts and, once activated, since when.
SerializeUserEffect(effect, now) ==
  LET lasts == effect.duration > 0
      activated == effect.activation >= 0
  IN <<Num(effect.effect), Num(0)>>
     \o (IF lasts THEN <<Num(effect.duration), Num(IF activated THEN effect.total - 1 ELSE effect.total)>>
         ELSE <<Num(Limit(4) - 1), Num(0)>>)
     \o <<Num(IF lasts /\ activated THEN now - effect.activation + effect.duration ELSE 0), Bool(TRUE)>>
UserEffectsComposer(effects, now) ==
  Player(340, <<SerializeAll(PlayerCases,
                  [k \in 1..Len(effects) |-> SerializeUserEffect(effects[k], now)])>>)

-----------------------------------------------------------------------------
(* friends, guilds and modtool. *)

Friends(header, values) == Reply(FriendsCases, header, values)
SerializeFriend(f) ==
  <<Num(f.id), Str(f.name), Num(1), Bool(f.online), Bool(FALSE), Str(IF f.online THEN f.look ELSE 0),
    Num(0), Str(f.name), Str(0), Str(0), Bool(FALSE), Bool(FALSE), Bool(FALSE), Num(0)>>
SerializeCategory(name) == <<Num(1), Str(name)>>
\* The first three numbers are bytes that were made once.
MessengerInitComposer(infinite, categories) ==
  Friends(1605,
    <<Object(FriendsCases,
        <<Bytes(FriendsCases, IF infinite THEN <<Num(MaxInt), Num(1337), Num(MaxInt)>>
                              ELSE <<Num(200), Num(1337), Num(500)>>),
          SerializeAll(FriendsCases,
            [k \in 1..Len(categories) |-> SerializeCategory(categories[k])])>>)>>)
FriendsComposer(pages, page, friends) ==
  Friends(3130, <<Num(pages), Num(page),
                  SerializeAll(FriendsCases,
                    [k \in 1..Len(friends) |-> SerializeFriend(friends[k])])>>)
\* sendFriendsComposer: the pages of the list, an empty one if it has none.
FriendsPages(friends, size) ==
  LET pages == (Len(friends) + size - 1) \div size
      Page(k) == SubSeq(friends, k * size + 1, IF (k + 1) * size < Len(friends)
                                               THEN (k + 1) * size ELSE Len(friends))
  IN IF pages = 0 THEN {FriendsComposer(0, 0, <<>>)}
     ELSE {FriendsComposer(pages, k, Page(k)) : k \in 0..pages - 1}
\* The number of the requests is written twice.
LoadFriendRequestsComposer(names) ==
  Friends(280, <<Num(Len(names)),
                 SerializeAll(FriendsCases,
                   [k \in 1..Len(names) |-> <<Num(k), Str(names[k]), Str(1)>>])>>)

\* A part of a colour has one value.
SerializePart(type, value) == <<Num(1), Str(value)>> \o IF type = "color" THEN <<>> ELSE <<Str(value)>>
GuildPartsComposer(parts) ==
  Reply(GuildCases, 2238,
        <<Bytes(GuildCases, [k \in 1..Len(parts) |->
            SerializeAll(GuildCases,
              [i \in 1..Len(parts[k].values) |-> SerializePart(parts[k].type, parts[k].values[i])])])>>)

SerializeTopic(t) == <<Str(t.name), Num(t.id), Str(t.action)>>
CfhTopicsComposer(categories) ==
  Reply(ModtoolCases, 325,
        <<SerializeAll(ModtoolCases, [k \in 1..Len(categories) |->
            <<Str(1), SerializeAll(ModtoolCases,
                        [i \in 1..Len(categories[k]) |-> SerializeTopic(categories[k][i])])>>])>>)

-----------------------------------------------------------------------------
(* achievements: levels maps a level to the progress it needs. *)

Achievements(header, values) == Reply(AchievementCases, header, values)
InventoryAchievementsComposer(achievements) ==
  Achievements(2501, <<SerializeAll(AchievementCases, [k \in 1..Len(achievements) |->
    LET levels == achievements[k]
    IN <<Str(1), SerializeAll(AchievementCases,
                   [l \in 1..Len(levels) |-> <<Num(l), Num(levels[l])>>])>>])>>)

\* The highest level the progress suffices for, 0 if there is none.
GetLevelForProgress(levels, progress) ==
  LET reached == {l \in DOMAIN levels : progress > 0 /\ progress >= levels[l]}
  IN IF reached = {} THEN 0 ELSE CHOOSE l \in reached : \A m \in reached : m <= l

\* One achievement in the list; -1 stands for the level there is not.
SerializeAchievement(id, levels, progress) ==
  LET level == GetLevelForProgress(levels, progress)
      last == level = Len(levels)
      achieved == level # 0 /\ last
  IN <<Num(id), Num(IF last THEN level ELSE level + 1), Str(4 + 1),
       Num(IF level = 0 THEN 0 ELSE levels[level])>>
     \o (IF last THEN [k \in 1..3 |-> Num(-1)] ELSE <<Num(levels[level + 1]), Num(1), Num(0)>>)
     \o <<Num(progress), Bool(achieved), Str(1), Str(0), Num(Len(levels)), Num(BoolToByte(achieved))>>
AchievementsListComposer(achievements, progress) ==
  Achievements(305,
    <<SerializeAll(AchievementCases,
        [k \in 1..Len(achievements) |-> SerializeAchievement(k, achievements[k], progress)]),
      Str(0)>>)

-----------------------------------------------------------------------------
(* permission, subscription and catalog. *)

Permission(header, values) == Reply(PermissionCases, header, values)
UserPermissionsComposer(club, level, ambassador) ==
  Permission(411, <<Num(club), Num(level), Bool(ambassador)>>)
\* Five perks of the rank and ten others; the one of the thumbnail camera has
\* another name in default_perks, and is sent empty.
PerkNames == <<3, 2, 1, 4, 3, 2, 1, 3, 2, 3, 1, 4, 2, 0, 3>>
UserPerksComposer(allowed) ==
  Permission(2586,
    <<Object(PermissionCases, <<SerializeAll(PermissionCases, [k \in 1..Len(PerkNames) |->
        LET name == PerkNames[k]
        IN <<Str(name), Str(0), Bool(IF k \in {1, 2, 3, 8, 11} THEN allowed ELSE name # 0)>>])>>)>>)

UserClubComposer(type, days, pastDays, minutes) ==
  Reply(SubscriptionCases, 954,
        <<Bytes(SubscriptionCases,
            <<Str(type), Num(days), Num(0), Num(0), Num(0), Bool(pastDays > 0), Bool(TRUE), Num(0),
              Num(pastDays), Num(minutes), Num(0)>>)>>)

\* A thing an offer has, of a badge or of furniture: b.extra is its text.
SerializeFurniture(i) ==
  IF i.type = "B" THEN <<Str(1), Str(i.extra)>>
  ELSE <<Str(1), Num(1), Str(i.extra), Num(i.amount), Bool(i.limited)>>
       \o IF i.limited THEN <<Num(2), Num(1)>> ELSE <<>>
\* An offer, serialized when it is loaded, or not at all if items gives an error.
SerializeOffer(o) ==
  LET values == <<Num(1), Str(o.name), Bool(FALSE), Num(1), Num(1), Num(0),
                  Bool(o.furniture # <<>>), Num(Len(o.furniture))>>
                \o FlattenSeq([k \in 1..Len(o.furniture) |-> SerializeFurniture(o.furniture[k])])
                \o <<Num(0), Bool(TRUE), Bool(FALSE), Str(o.name + 4)>>
  IN IF o.serialized THEN values ELSE <<Value("unserialized", Serialized(CatalogCases, values))>>
ToClubGiftItem(o, daysAsHC) == <<Num(1), Bool(FALSE), Num(o.days), Bool(o.days <= daysAsHC)>>
ClubGiftsComposer(days, gifts, daysAsHC, offers) ==
  Reply(CatalogCases, 619,
        <<Object(CatalogCases,
            <<Num(days), Num(gifts),
              SerializeAll(CatalogCases, [k \in 1..Len(offers) |-> SerializeOffer(offers[k])]),
              SerializeAll(CatalogCases,
                [k \in 1..Len(offers) |-> ToClubGiftItem(offers[k], daysAsHC)])>>)>>)
==============================================================================
