----------------------------- MODULE PlayerCache -----------------------------
(* player/data.go: the rows are users, identified by their ticket, or the   *)
(* currencies of one user.                                                  *)
EXTENDS CachePlans

\* The existing entry is used only if asking for it was an error: the table
\* answers every time, and a goroutine writes the cache.
LoadUserData(i) ==
  FromTable("loadUserData", Known(i), Known(i),
            {PerRow(<<"user", "user_by_id">>, j) : j \in Known(i)})
LoadUserDataById(i) == [LoadUserData(i) EXCEPT !.op = "loadUserDataById"]
LoadUserRespectData(i) ==
  FromTable("loadUserRespectData", Known(i), Known(i), {<<e>> : e \in Entries("respect", Known(i))})

\* The log-in writes the club data, whoever reads it does not check for it.
CacheUserHCData(i) ==
  FromTable("cacheUserHCData", {}, {}, {<<e>> : e \in Entries("user_club_data", Known(i))})
GetUserHCData(i) == FromCache("GetUserHCData", Known(i), {<<"user_club_data", i>>})

\* A goroutine per currency writes one field of the hash; the hash exists as
\* soon as it has one of them.
CurrencyFill == {<<e>> : e \in Entries("user_currency", Rows)}
GetUserCurrencies_AnyAnswer(err) ==
  IF err THEN FromTable("GetUserCurrencies", Rows, Rows, CurrencyFill)
  ELSE FromCache("GetUserCurrencies", Rows, Family("user_currency"))
GetUserCurrencies(err) ==
  IF ~err /\ Family("user_currency") # {}
  THEN FromCache("GetUserCurrencies", Rows, Family("user_currency"))
  ELSE FromTable("GetUserCurrencies", Rows, Rows, CurrencyFill)

\* A user who is not in the table has no credits, which is no error.
GetUserCredits(i, err) ==
  IF ~err /\ <<"user_credits", i>> \in cache
  THEN FromCache("GetUserCredits", Known(i), {<<"user_credits", i>>})
  ELSE FromTable("GetUserCredits", Known(i), IF i \in Rows THEN {i} ELSE {EmptyElement},
                 {<<e>> : e \in Entries("user_credits", Known(i))})

UserPlans == UNION {{LoadUserData(i), LoadUserDataById(i)} : i \in Ids}
RespectPlans == {LoadUserRespectData(i) : i \in Ids}
ClubDataPlans == UNION {{CacheUserHCData(i), GetUserHCData(i)} : i \in Ids}
CreditsPlans(err) == {GetUserCredits(i, err) : i \in Ids}
CurrencyPlans(err) == {GetUserCurrencies(err)}
==============================================================================
