---------------------------- MODULE FriendsCache ----------------------------
(* The friends and the friend requests of one user, in friends/data.go; the *)
(* id of the user is cached by its log-in.                                  *)
EXTENDS CachePlans

ClearFriends == <<"clear", 0>>     \* DEL of the set of friends

\* One pipeline empties the set and writes every friend and its member.
FriendsFill == <<ClearFriends>> \o Pipeline(<<"friend", "friends_by_user_id">>)

\* The members of a set are bare ids, and they are read as if they were keys.
BareKeys(set) == Entries("bare", {e[2] : e \in Family(set)})

GetFriendsForUser(err) ==
  Plan("GetFriendsForUser", Rows,
       IF err THEN {} ELSE BareKeys("friends_by_user_id"), Rows, {FriendsFill})

\* The key asked for is friends:id, the one written friend:id.
GetFriendById(i) == FromTable("GetFriendById", Known(i), Known(i), {})

\* The rows of the table are scanned into values, an error each: the answer is
\* empty, nothing is cached.
GetMessengerCategories == FromTable("GetMessengerCategories", Rows, {}, {})

RequestsFill == Pipeline(<<"requests", "requests_by_user_id">>)
GetFriendRequestsForUser(err) ==
  Plan("GetFriendRequestsForUser", Rows,
       IF err THEN {} ELSE BareKeys("requests_by_user_id"), Rows, {RequestsFill})

FriendsPlans(err) ==
  {GetFriendsForUser(err), GetMessengerCategories} \union {GetFriendById(i) : i \in Ids}
FriendRequestPlans(err) == {GetFriendRequestsForUser(err)}
==============================================================================
