----------------------------- MODULE PlayerLogin -----------------------------
(***************************************************************************)
(* The log-in of the player service: LoginPlayer of player/rpc.go, the     *)
(* EventListener of player/event.go and the lookup of player/data.go.      *)
(*                                                                         *)
(* A gRPC handler (a call) sends its ticket to EventListener.Listen and    *)
(* waits on the channel login.  Listen passes the ticket on to             *)
(* Database.Listen, which starts a goroutine that loads the user; what it  *)
(* loaded comes back to Listen, which sends the outcome on login, builds   *)
(* the LOGIN event and starts its publication on Redis and on the local    *)
(* bus.  Calls come from the networking processes: one at a time from      *)
(* each, but there may be several, and one that was restarted has left     *)
(* its last call behind: Login looks neither at its context nor at a       *)
(* timer, so a call whose client has given up goes on waiting.             *)
(*                                                                         *)
(* A definition Name_Variant that precedes Name is a bug somebody could    *)
(* write in its place; the model uses Name alone.                          *)
(***************************************************************************)
EXTENDS Naturals, FiniteSets

CONSTANTS
  Calls,     \* calls of LoginPlayer, each with its ticket
  NoCall,    \* no call
  MaxKills   \* bound: times the process is ended from outside

ASSUME ConstAssumption ==
  /\ IsFiniteSet(Calls)
  /\ NoCall \notin Calls
  /\ MaxKills \in Nat

Sinks == {"redis", "bus"}

VARIABLES
  call,       \* call[k]: where the gRPC handler of call k is
  listen,     \* what EventListener.Listen does, and for the ticket of which call
  load,       \* load[k]: the goroutine that loads the user of call k
  found,      \* found[k]: it found a user of whom Listen has not disposed
  from,       \* from[k]: the call whose outcome k was given
  publishing, \* <<k, s>>: goroutines that publish the event of k to s
  published,  \* history: <<k, s>>: the event of k was published to s
  dropped,    \* history: calls a crash has cut short, or whose XADD failed
  crowd,      \* history: have two calls waited at the same time?
  kills,      \* times the process was ended from outside
  crashes     \* history: times the process has ended at all

vars == <<call, listen, load, found, from, publishing, published, dropped,
          crowd, kills, crashes>>

CallStates == {"new", "asking", "waiting", "answered", "done", "lost"}
LoadStates == {"none", "run", "ready"}
Serving == {"forward", "reply", "event"}
Selecting == [at |-> "select", of |-> NoCall]
MaxCrashes == MaxKills + Cardinality(Calls)

TypeOK ==
  /\ call \in [Calls -> CallStates]
  /\ listen \in {Selecting} \union [at : Serving, of : Calls]
  /\ load \in [Calls -> LoadStates]
  /\ found \in [Calls -> BOOLEAN]
  /\ from \in [Calls -> Calls \union {NoCall}]
  /\ publishing \in SUBSET (Calls \X Sinks)
  /\ published \in SUBSET (Calls \X Sinks)
  /\ dropped \in SUBSET Calls
  /\ crowd \in BOOLEAN
  /\ kills \in 0..MaxKills
  /\ crashes \in 0..MaxCrashes

Init ==
  /\ call = [k \in Calls |-> "new"]
  /\ listen = Selecting
  /\ load = [k \in Calls |-> "none"]
  /\ found = [k \in Calls |-> FALSE]
  /\ from = [k \in Calls |-> NoCall]
  /\ publishing = {}
  /\ published = {}
  /\ dropped = {}
  /\ crowd = FALSE
  /\ kills = 0
  /\ crashes = 0

Waiting == {k \in Calls : call[k] = "waiting"}

\* The calls whose outcome has not been sent on login.
Outstanding ==
  {k \in Calls : load[k] # "none" \/ (listen.of = k /\ listen.at \in {"forward", "reply"})}

\* The loads the end of the process leaves.
Left_Requeued == load
Left == [k \in Calls |-> "none"]

\* The process ends and is started anew.
Restart ==
  /\ call' = [k \in Calls |->
                IF call[k] \in {"asking", "waiting", "answered"} THEN "lost" ELSE call[k]]
  /\ listen' = Selecting
  /\ load' = Left
  /\ publishing' = {}
  /\ dropped' = dropped \union {k \in Calls : load[k] # "none" \/ listen.of = k}
                        \union {k \in Calls : \E s \in Sinks : <<k, s>> \in publishing}
  /\ crashes' = crashes + 1
  /\ found' = [k \in Calls |-> FALSE]
  /\ UNCHANGED <<from, published, crowd>>

-----------------------------------------------------------------------------

\* A request arrives: EventListener.Login is about to send the ticket.
LoginPlayer(k) ==
  /\ call[k] = "new"
  /\ call' = [call EXCEPT ![k] = "asking"]
  /\ UNCHANGED <<listen, load, found, from, publishing, published, dropped>>
  /\ UNCHANGED <<crowd, kills, crashes>>

\* Listen receives the ticket; the caller goes on to receive from login.
TakeTicket(k) ==
  /\ listen = Selecting
  /\ call[k] = "asking"
  /\ call' = [call EXCEPT ![k] = "waiting"]
  /\ listen' = [at |-> "forward", of |-> k]
  /\ crowd' = (crowd \/ Waiting # {})
  /\ UNCHANGED <<load, found, from, publishing, published, dropped, kills, crashes>>

\* Listen once it has passed the ticket on.
Forwarded_KeepsTicket == [listen EXCEPT !.at = "select"]
Forwarded == Selecting

\* AuthTicketEvent meets Database.Listen, which starts a goroutine.
AuthTicketEvent ==
  /\ listen.at = "forward"
  /\ load' = [load EXCEPT ![listen.of] = "run"]
  /\ listen' = Forwarded
  /\ UNCHANGED <<call, found, from, publishing, published, dropped>>
  /\ UNCHANGED <<crowd, kills, crashes>>

\* What becomes of the goroutine when it has found a user, or has not.
Loaded_OnlyFound(b) == IF b THEN "ready" ELSE "none"
Loaded(b) == "ready"

\* loadUserData: the row of the ticket, or nil when there is none or the
\* query fails.  The cache is not read: it is consulted only after an error
\* of Redis, and then without effect.
LoadUserData(k) ==
  /\ load[k] = "run"
  /\ \E b \in BOOLEAN :
       /\ found' = [found EXCEPT ![k] = b]
       /\ load' = [load EXCEPT ![k] = Loaded(b)]
  /\ UNCHANGED <<call, listen, from, publishing, published, dropped>>
  /\ UNCHANGED <<crowd, kills, crashes>>

\* Listen receives what a goroutine has loaded.
TakeData(k) ==
  /\ listen = Selecting
  /\ load[k] = "ready"
  /\ load' = [load EXCEPT ![k] = "none"]
  /\ listen' = [at |-> "reply", of |-> k]
  /\ UNCHANGED <<call, found, from, publishing, published, dropped>>
  /\ UNCHANGED <<crowd, kills, crashes>>

\* resultLoginEvent sends the outcome on login: any caller that waits may
\* be the one to receive it.
Result(j) ==
  /\ listen.at = "reply"
  /\ j \in Waiting
  /\ call' = [call EXCEPT ![j] = "answered"]
  /\ from' = [from EXCEPT ![j] = listen.of]
  /\ listen' = [listen EXCEPT !.at = "event"]
  /\ UNCHANGED <<load, found, publishing, published, dropped, crowd, kills, crashes>>

\* The sinks the event is published to.
PublishTo_RedisOnly == {"redis"}
PublishTo == Sinks

\* Without a user ToMap dereferences nil, which ends the process.
NilUser_EndsLoop ==
  /\ listen' = [listen EXCEPT !.at = "stopped"]
  /\ UNCHANGED <<call, load, found, from, publishing, published, dropped, crowd, crashes>>
NilUser == Restart

\* newLoginEvent, called with what was found; when there is a user, two goroutines are started for the event.
NewLoginEvent ==
  /\ listen.at = "event"
  /\ IF found[listen.of]
     THEN /\ publishing' = publishing \union ({listen.of} \X PublishTo)
          /\ listen' = Selecting
          /\ found' = [found EXCEPT ![listen.of] = FALSE]
          /\ UNCHANGED <<call, load, from, published, dropped, crowd, crashes>>
     ELSE NilUser
  /\ UNCHANGED kills

\* One of these goroutines publishes.  XADD may fail; nobody looks at its error.
Publish(k, s) ==
  /\ <<k, s>> \in publishing
  /\ publishing' = publishing \ {<<k, s>>}
  /\ \/ published' = published \union {<<k, s>>} /\ UNCHANGED dropped
     \/ s = "redis" /\ dropped' = dropped \union {k} /\ UNCHANGED published
  /\ UNCHANGED <<call, listen, load, found, from, crowd, kills, crashes>>

\* The handler returns and its answer is sent.
Return(k) ==
  /\ call[k] = "answered"
  /\ call' = [call EXCEPT ![k] = "done"]
  /\ UNCHANGED <<listen, load, found, from, publishing, published, dropped>>
  /\ UNCHANGED <<crowd, kills, crashes>>

Kill ==
  /\ kills < MaxKills
  /\ kills' = kills + 1
  /\ Restart

Next ==
  \/ \E k \in Calls :
       \/ LoginPlayer(k) \/ TakeTicket(k) \/ LoadUserData(k) \/ TakeData(k)
       \/ Result(k) \/ Return(k)
  \/ AuthTicketEvent \/ NewLoginEvent \/ Kill
  \/ \E k \in Calls, s \in Sinks : Publish(k, s)

Spec == Init /\ [][Next]_vars

\* Every goroutine that can take a step takes one; the requests and the end
\* of the process from outside need not come.
Fairness ==
  /\ \A k \in Calls :
       /\ WF_vars(TakeTicket(k)) /\ WF_vars(LoadUserData(k)) /\ WF_vars(TakeData(k))
       /\ WF_vars(Return(k))
  /\ WF_vars(\E k \in Calls : Result(k))
  /\ WF_vars(AuthTicketEvent) /\ WF_vars(NewLoginEvent)
  /\ \A k \in Calls, s \in Sinks : WF_vars(Publish(k, s))

FairSpec == Spec /\ Fairness

-----------------------------------------------------------------------------
(* Safety *)

\* As many handlers wait on login as outcomes are on their way: Listen never
\* waits for ever to hand one over, with which every later log-in would hang.
Balanced == Cardinality(Waiting) = Cardinality(Outstanding)

\* While log-ins come one at a time, each is given the outcome of its own
\* ticket, also after restarts: no outcome outlives the calls it was for.
OwnOutcomeAlone == ~crowd => \A k \in Calls : from[k] \in {k, NoCall}

(* What the documentation says and the code does not do *)

\* With several networking processes logging players in, as horizontal
\* scaling has it, a log-in is given the outcome of its own ticket.
OwnOutcome == \A k \in Calls : from[k] \in {k, NoCall}

(* Liveness *)

\* A log-in that waits is answered, or fails with the process.
EveryLoginEnds == \A k \in Calls : (call[k] = "waiting") ~> (call[k] \in {"done", "lost"})

\* A user that was found is announced on Redis and on the local bus, unless
\* the process ends first or Redis refuses the entry.
UserIsAnnounced ==
  \A k \in Calls :
    (load[k] = "ready" /\ found[k]) ~> ({k} \X Sinks \subseteq published \/ k \in dropped)

(* Refinement *)

\* What the goroutine of SharedReply for the ticket of k is doing: it is there
\* from when Listen has the ticket until Listen has handed over the outcome.
Work(k) ==
  IF load[k] # "none" THEN load[k]
  ELSE IF listen = [at |-> "forward", of |-> k] THEN "run"
  ELSE IF listen = [at |-> "reply", of |-> k] THEN "ready"
  ELSE "none"

Reply == INSTANCE SharedReply WITH work <- [k \in Calls |-> Work(k)]

\* The log-in is an instance of the request and answer of SharedReply.
ImplementsSharedReply == Reply!Spec
==============================================================================
