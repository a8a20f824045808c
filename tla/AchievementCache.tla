--------------------------- MODULE AchievementCache ---------------------------
(* achievements/data.go: the rows are the levels of one achievement, or the  *)
(* achievements of one user.                                                 *)
EXTENDS CachePlans

\* A goroutine per row writes the hash and then adds it to the set of its name.
AchievementFamilies_IndexFirst == <<"achievement_keys_set", "achievement">>
AchievementFamilies == <<"achievement", "achievement_keys_set">>
AchievementFill == {PerRow(AchievementFamilies, i) : i \in Rows}

\* Reading a cached level scans into a nil pointer, always an error: no level
\* is got from the cache, and the table is asked.
CachedLevels == {}
GetAchievements == Plan("GetAchievements", Rows, CachedLevels, Rows, AchievementFill)

\* The set asked for is "achievement_key_set", the one written
\* "achievement_keys_set".  An unknown name gives an empty achievement.
GetAchievementByName(known) ==
  FromTable("GetAchievementByName", IF known THEN Rows ELSE {},
            IF known THEN Rows ELSE {EmptyElement},
            IF known THEN AchievementFill ELSE {})

\* No cached level can be read either; the name is looked up in the table.
GetAchievement(i) ==
  [GetAchievementByName(i \in Rows) EXCEPT !.op = "GetAchievement",
     !.rows = IF i \in Rows THEN @ ELSE {}]

GetInventoryAchievements ==
  FromTable("GetInventoryAchievements", Rows, Rows, {})

\* One goroutine per row writes, the first row is the marker.
UserAchievementFill == {<<e>> : e \in Entries("user_achievements", Rows)}
GetUserAchievements(err) ==
  IF ~err /\ <<"user_achievements", 1>> \in cache
  THEN FromCache("GetUserAchievements", Rows, Family("user_achievements"))
  ELSE FromTable("GetUserAchievements", Rows, Rows, UserAchievementFill)

AchievementPlans ==
  {GetAchievements, GetInventoryAchievements} \union
  {GetAchievementByName(known) : known \in BOOLEAN} \union {GetAchievement(i) : i \in Ids}
UserAchievementPlans(err) == {GetUserAchievements(err)}
==============================================================================
