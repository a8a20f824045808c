------------------------------ MODULE GuildCache ------------------------------
(* The parts of guild badges, all of one type, in guilds/data.go.  main      *)
(* starts the load and serves requests meanwhile.                            *)
EXTENDS CachePlans

\* One loop writes the hash of each part and then its index; an error is
\* logged and the loop goes on.
LoadGuildParts == Pipeline(<<"guild_elements", "guild_elements_by_type">>)

GetGuildParts(err) ==
  IF ~err /\ <<"guild_elements", 1>> \in cache
  THEN FromCache("GetGuildParts", Rows, Family("guild_elements"))
  ELSE FromTable("GetGuildParts", Rows, Rows, {LoadGuildParts})

\* Only an error sends the request to the table: a set that is empty or half
\* filled is the answer.
LoadGuildPartsByType(err) ==
  IF err
  THEN FromTable("LoadGuildPartsByType", Rows, Rows, {LoadGuildParts})
  ELSE FromCache("LoadGuildPartsByType", Rows,
                 Entries("guild_elements", {e[2] : e \in Family("guild_elements_by_type")}))

GuildPlans(err) == {GetGuildParts(err), LoadGuildPartsByType(err)}
==============================================================================
