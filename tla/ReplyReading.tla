----------------------------- MODULE ReplyReading -----------------------------
(***************************************************************************)
(* A client reads a packet a service has composed: its size and header,    *)
(* then field after field with the readers of packets.go, each by the type *)
(* that was written.                                                       *)
(***************************************************************************)
EXTENDS Composers

CONSTANTS
  Lengths,   \* the lengths of the strings that vary
  Numbers    \* the numbers that vary

ASSUME ReadingAssumption == Lengths \subseteq Nat /\ Numbers \subseteq Int

VARIABLES
  reply,     \* the packet and what it is to be read as
  rest,      \* the bytes not read yet
  at,        \* how many fields are read, or -1 before the header is
  read       \* what reading has come to: "right", "wrong" or "panic"

readingVars == <<reply, rest, at, read>>

Lists(S) == {<<>>} \union {<<x>> : x \in S} \union {<<x, y>> : x, y \in S}
Effects == [effect : {1}, duration : {0, 3}, activation : {-1, 2}, total : {2}]
FriendRows == [id : {1}, name : {1}, online : BOOLEAN, look : Lengths]
Parts == {<<[type |-> "base", values |-> v], [type |-> "color", values |-> v]>> : v \in Lists(Lengths)}
Topics == [name : Lengths, id : {1}, action : {1}]
LevelLists == {<<2>>, <<2, 5>>}
Furniture == {[type |-> "B", extra |-> e] : e \in Lengths}
             \union [type : {"s"}, extra : Lengths, amount : {1, 2}, limited : BOOLEAN]
Offers(serialized) ==
  [name : {2}, furniture : {<<>>} \union {<<f>> : f \in Furniture}, days : {1, 3}, serialized : serialized]

\* Favourite rooms, and offers that could not be serialized: less is written
\* than the numbers before it say.
Short ==
  {FavoriteRoomsCountComposer(3, rooms) : rooms \in Lists(Numbers) \ {<<>>}}
  \union {ClubGiftsComposer(0, 1, 2, <<o>>) : o \in Offers({FALSE})}

LoginReplies ==
  {LoginOKComposer, UserNoobStatusComposer(1), AvailabilityStatusComposer, EnableNotificationsComposer,
   MysteryBoxComposer, BuildersClubExpiredComposer, FavoriteRoomsCountComposer(3, <<>>)}
  \union {AchievementScoreComposer(n) : n \in Numbers}
  \union {UserDataComposer(name, motto, n) : name, motto \in Lengths, n \in Numbers}
PlayerReplies ==
  {UserCreditsComposer(d) : d \in 1..3}
  \union {UserCurrencyComposer(a) : a \in Lists(Numbers)}
  \union {UserEffectsComposer(e, 4) : e \in Lists(Effects)}
FriendLists == UNION {FriendsPages(f, 1) : f \in Lists(FriendRows)}
FriendsReplies ==
  {MessengerInitComposer(i, c) : i \in BOOLEAN, c \in Lists(Lengths)}
  \union FriendLists
  \union {LoadFriendRequestsComposer(names) : names \in Lists(Lengths)}
ListReplies ==
  {GuildPartsComposer(p) : p \in Parts}
  \union {CfhTopicsComposer(c) : c \in Lists(Lists(Topics))}
  \union {InventoryAchievementsComposer(a) : a \in Lists(LevelLists)}
  \union {AchievementsListComposer(a, p) : a \in Lists(LevelLists), p \in Numbers}
RightsReplies ==
  {UserPermissionsComposer(c, l, a) : c \in {0, 2}, l \in Numbers, a \in BOOLEAN}
  \union {UserPerksComposer(a) : a \in BOOLEAN}
  \union {UserClubComposer(t, d, d, m) : t \in Lengths, d, m \in Numbers}
  \union {ClubGiftsComposer(0, 1, 2, o) : o \in Lists(Offers({TRUE}))}

Replies == LoginReplies \union PlayerReplies \union FriendsReplies \union ListReplies
           \union RightsReplies \union Short

ReadingInit ==
  /\ reply \in Replies
  /\ rest = reply.packet
  /\ at = -1
  /\ read = "right"

\* A number comes back as the bytes say: unsigned, without its higher bytes.
Expected(v) == IF v.kind = "int" THEN v.value % Limit(4) ELSE v.value
Continues(result, expected) ==
  /\ at' = at + 1
  /\ read' = IF ~result.ok THEN "panic" ELSE IF result.value = expected THEN "right" ELSE "wrong"
  /\ rest' = IF result.ok THEN result.rest ELSE <<>>
  /\ UNCHANGED reply

ReadHeader ==
  /\ at = -1
  /\ LET header == ParseMessage(rest)
     IN Continues(header, Signed(ShortToBytes(reply.header)))

ReadField ==
  /\ read = "right" /\ at \in 0..Len(reply.fields) - 1
  /\ LET v == reply.fields[at + 1]
     IN \/ v.kind = "int" /\ Continues(ReadInt(rest), Expected(v))
        \/ v.kind = "string" /\ Continues(ReadString(rest), Expected(v))
        \/ v.kind = "bool" /\ Continues(ReadBool(rest), Expected(v))

ReadingNext == ReadHeader \/ ReadField

ReadingSpec == ReadingInit /\ [][ReadingNext]_readingVars

-----------------------------------------------------------------------------

\* A string is readable if its length is positive as a signed short.
LongString == \E k \in 1..Len(reply.fields) :
                reply.fields[k].kind = "string" /\ reply.fields[k].value >= Limit(2) \div 2

\* A client reads in a packet what the service has put in, up to the last byte,
\* whatever the types of the values, unless a string is too long for its length
\* or the packet is one of those that lack what they have counted.
ReplyRead ==
  read # "right" \/ (at = Len(reply.fields) /\ rest # <<>>) => LongString \/ reply \in Short
==============================================================================
