SPECIFICATION FairSpec
CONSTANTS
  NumRows = 2
  Stores = {"ranks", "subscriptions", "achievements", "user_achievements", "friends", "friend_requests", "guild_parts", "items", "catalog_pages", "catalog_items", "users", "respects", "club_data", "credits", "currencies"}
  MaxWriters = 1
  MaxCrashes = 1
  MaxFaults = 1
INVARIANTS
  
  
  ShortCause
PROPERTIES
  EventuallyWhole
CHECK_DEADLOCK FALSE
