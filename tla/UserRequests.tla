----------------------------- MODULE UserRequests -----------------------------
(***************************************************************************)
(* Requests of one client, from the streams its packets and its login are  *)
(* published on to the packets the services answer with.  A packet goes to *)
(* the stream of each service that handles its header, the login to that   *)
(* of each service that follows logins: streams, so services, see them in  *)
(* different orders.  A service reads a stream in batches and runs the     *)
(* handlers of an entry after each other (handleMessages, in               *)
(* api/events/redis.go); an entry is acknowledged with its batch.  The     *)
(* requests are numbered in the order they are published in, which is that *)
(* of the entries of a stream: what is waiting on one is a set of numbers. *)
(*                                                                         *)
(* A panic in a handler is recovered; one in a goroutine ends the process, *)
(* which is restarted and claims what it had not acknowledged.  player     *)
(* panics in a goroutine when the row of a ticket is not found.            *)
(***************************************************************************)
EXTENDS RequestTable, FiniteSets

CONSTANT
  Clients   \* the clients considered: the headers each of them sends, the services
            \* followed on them (others just answer), and two bounds: its packets,
            \* and the failed lookups and ended services

ASSUME RequestsAssumption ==
  Clients \subseteq [headers : SUBSET ClientHeaders, services : SUBSET Services,
                     packets : Nat, failures : Nat]

VARIABLES
  client,    \* the one of Clients that this is
  valid,      \* has its ticket a row of users?
  requests,  \* what is published: [header, known, settled]
  fresh,     \* fresh[c]: the requests on channel c no batch was given
  pending,   \* pending[c]: those given and not acknowledged
  batch,     \* batch[c]: what is left of the batch in execution
  taken,     \* taken[c]: that batch as it was given
  running,   \* the handlers in execution: [n, handler, stage]
  ids,       \* the services with the id of the user in their Redis
  up,        \* the services that run
  ready,     \* those of them that have subscribed their handlers of packets
  sent,      \* the packets sent: <<request, packet>>
  ended,     \* history: services a panic has ended
  failures

requestVars == <<client, valid, requests, fresh, pending, batch, taken, running, ids, up, ready, sent,
                 ended, failures>>
streamVars == <<fresh, pending, batch, taken>>

Followed == client.services
Channels == Followed \X {"login", "packets"}
RequestIds == 1..Len(requests)
LoggedIn == \E n \in RequestIds : requests[n].header = "LOGIN"

NoBatch(c) == taken[c] = {}

RequestsInit ==
  /\ client \in Clients
  /\ valid = TRUE
  /\ requests = <<>>
  /\ fresh = [c \in Channels |-> {}]
  /\ pending = [c \in Channels |-> {}]
  /\ batch = [c \in Channels |-> {}]
  /\ taken = [c \in Channels |-> {}]
  /\ running = {}
  /\ ids = {}
  /\ up = Followed
  /\ ready = Followed
  /\ sent = {}
  /\ ended = {}
  /\ failures = 0

Failure == failures < client.failures /\ failures' = failures + 1

-----------------------------------------------------------------------------
(* The client: external, but for where its packets are published. *)

\* Every service that a header of this client involves has followed the login.
Settled ==
  /\ LoggedIn
  /\ \A c \in Channels : c[2] = "login" => fresh[c] = {} /\ pending[c] = {} /\ NoBatch(c)
  /\ \A p \in running : requests[p.n].header # "LOGIN"

Started(n, h) == [n |-> n, handler |-> h, stage |-> 1]

\* player has no stream of its logins.
Streams(header, kind) ==
  fresh' = [c \in Channels |->
              IF c[2] = kind /\ c[1] \in ServicesOf[header] /\ c # <<"player", "login">>
              THEN fresh[c] \union {Len(requests) + 1} ELSE fresh[c]]

\* player has found the row, and publishes the login, on the streams and on its
\* local bus; its answer is what gives the client its ticket, in the networking
\* service.
LogIn ==
  /\ ~LoggedIn /\ valid
  /\ "player" \in up \/ "player" \notin Followed
  /\ requests' = Append(requests, [header |-> "LOGIN", known |-> TRUE, settled |-> TRUE])
  /\ Streams("LOGIN", "login")
  /\ running' = running \union
       {Started(Len(requests) + 1, h) : h \in {g \in HandlersAt("player", "LOGIN") : "player" \in Followed}}
  /\ UNCHANGED <<client, valid, pending, batch, taken, ids, up, ready, sent, ended, failures>>

\* A packet is published with the ticket its client has then, or none.
Publish(h) ==
  /\ h \in client.headers
  /\ Cardinality({n \in RequestIds : requests[n].header # "LOGIN"}) < client.packets
  /\ requests' = Append(requests, [header |-> h, known |-> LoggedIn, settled |-> Settled])
  /\ Streams(h, "packets")
  /\ UNCHANGED <<client, valid, pending, batch, taken, running, ids, up, ready, sent, ended, failures>>

\* The site gives the user another ticket: the row no longer has this one.
TicketReplaced ==
  /\ valid /\ valid' = FALSE
  /\ UNCHANGED <<client, requests, streamVars, running, ids, up, ready, sent, ended, failures>>

-----------------------------------------------------------------------------
(* A service reads a channel. *)

\* Listen is given what no consumer was, all of it.
Listen(c) ==
  /\ c[1] \in up /\ NoBatch(c) /\ fresh[c] # {}
  /\ batch' = [batch EXCEPT ![c] = fresh[c]]
  /\ taken' = [taken EXCEPT ![c] = fresh[c]]
  /\ pending' = [pending EXCEPT ![c] = @ \union fresh[c]]
  /\ fresh' = [fresh EXCEPT ![c] = {}]
  /\ UNCHANGED <<client, valid, requests, running, ids, up, ready, sent, ended, failures>>

\* Recover claims what a process that has ended had not acknowledged.
Claimed_Nothing(c) == {}
Claimed(c) == pending[c]

Recover(c) ==
  /\ c[1] \in up /\ NoBatch(c) /\ Claimed(c) # {}
  /\ batch' = [batch EXCEPT ![c] = Claimed(c)]
  /\ taken' = [taken EXCEPT ![c] = Claimed(c)]
  /\ UNCHANGED <<client, valid, requests, fresh, pending, running, ids, up, ready, sent, ended, failures>>

KindOf(n) == IF requests[n].header = "LOGIN" THEN "login" ELSE "packets"
Busy(c) ==
  \E p \in running : p.handler.service = c[1] /\ ~p.handler.goroutine /\ KindOf(p.n) = c[2]

\* The handlers of the next entry; those of packets may not be subscribed yet,
\* and then nothing is done for it.
Handle(c) ==
  /\ c[1] \in up /\ ~Busy(c)
  /\ \E n \in batch[c] :
       /\ \A m \in batch[c] : n <= m
       /\ batch' = [batch EXCEPT ![c] = @ \ {n}]
       /\ running' = IF c[2] = "packets" /\ c[1] \notin ready THEN running
                     ELSE running \union {Started(n, h) : h \in HandlersAt(c[1], requests[n].header)}
  /\ UNCHANGED <<client, valid, requests, fresh, pending, taken, ids, up, ready, sent, ended, failures>>

\* XACK of the whole batch.
Acknowledge(c) ==
  /\ c[1] \in up /\ batch[c] = {} /\ ~NoBatch(c) /\ ~Busy(c)
  /\ pending' = [pending EXCEPT ![c] = @ \ taken[c]]
  /\ taken' = [taken EXCEPT ![c] = {}]
  /\ UNCHANGED <<client, valid, requests, fresh, batch, running, ids, up, ready, sent, ended, failures>>

-----------------------------------------------------------------------------
(* A handler. *)

\* What the processes of services leave when they end.
End(services, others) ==
  /\ up' = up \ services /\ ready' = ready \ services
  /\ running' = {p \in others : p.handler.service \notin services}
  /\ batch' = [c \in Channels |-> IF c[1] \in services THEN {} ELSE batch[c]]
  /\ taken' = [c \in Channels |-> IF c[1] \in services THEN {} ELSE taken[c]]

\* A call to a service that does not run gives nothing after ten seconds; one that
\* is not followed answers.
Reached(s) == s \in up \/ s \notin Followed

\* Is lookup l of handler p answered?
Found(p, l) ==
  /\ Reached(l.at)
  /\ CASE l.needs = "row" -> valid /\ requests[p.n].known
       [] l.needs = "id" -> (l.at \in ids \/ l.at \notin Followed) /\ requests[p.n].known
       [] OTHER -> TRUE

\* The services whose processes a stage of p ends when it misses these lookups:
\* player, where loadUserData gives nil and a goroutine dereferences it, and
\* that of p if p is a goroutine and dereferences what it was given.
Panicked(p, missed) ==
  {s \in up : \E l \in missed :
     (l.needs = "row" /\ l.at = s) \/ (l.without = "panic" /\ p.handler.goroutine /\ p.handler.service = s)}

\* A stage: its lookups, one of which Redis, the database or the network may
\* fail, then its packet and the next stage, or the end.
Run(p, failing) ==
  LET stage == p.handler.stages[p.stage]
      missed == {l \in stage.looks : l \in failing \/ ~Found(p, l)}
      gone == Panicked(p, missed)
      passes == (\A l \in missed : l.without = "ok") /\ p.handler.service \notin gone
      last == p.stage = Len(p.handler.stages)
  IN /\ End(gone, (running \ {p}) \union
                   (IF passes /\ ~last THEN {[p EXCEPT !.stage = @ + 1]} ELSE {}))
     /\ ended' = ended \union gone
     /\ sent' = IF passes /\ stage.sends \notin {"nothing", "user_id"}
                THEN sent \union {<<p.n, stage.sends>>} ELSE sent
     /\ ids' = IF passes /\ stage.sends = "user_id" THEN ids \union {p.handler.service} ELSE ids
     /\ UNCHANGED <<client, valid, requests, fresh, pending>>

RunStage(p) == Run(p, {}) /\ UNCHANGED failures
RunFails(p) ==
  /\ Failure
  /\ \E l \in p.handler.stages[p.stage].looks : Found(p, l) /\ Run(p, {l})

Crash(s) ==
  /\ s \in up
  /\ Failure
  /\ End({s}, running)
  /\ UNCHANGED <<client, valid, requests, fresh, pending, ids, sent, ended>>

\* Restarted, a service reads its packets before it subscribes their handlers.
Restart(s) ==
  /\ s \notin up
  /\ up' = up \union {s}
  /\ UNCHANGED <<client, valid, requests, streamVars, running, ids, ready, sent, ended, failures>>

SubscribeHandlers(s) ==
  /\ s \in up \ ready
  /\ ready' = ready \union {s}
  /\ UNCHANGED <<client, valid, requests, streamVars, running, ids, up, sent, ended, failures>>

\* What service s does by itself.
Works(s) ==
  /\ s \in Followed
  /\ \/ \E c \in {s} \X {"login", "packets"} : Listen(c) \/ Recover(c) \/ Handle(c) \/ Acknowledge(c)
     \/ \E p \in {q \in running : q.handler.service = s} : RunStage(p)
     \/ Restart(s) \/ SubscribeHandlers(s)

RequestsNext ==
  \/ LogIn \/ TicketReplaced
  \/ \E h \in ClientHeaders : Publish(h)
  \/ \E s \in Followed : Works(s) \/ Crash(s)
  \/ \E p \in running : RunFails(p)

RequestsSpec == RequestsInit /\ [][RequestsNext]_requestVars

\* A service is restarted, reads its streams, and its handlers come to an end.
\* Only player may do so for ever; of the others it is enough that one goes on.
OthersWork == \E s \in Followed \ {"player"} : Works(s)
RequestsFairness == WF_requestVars(Works("player")) /\ WF_requestVars(OthersWork)

-----------------------------------------------------------------------------

Waiting(s) == \E c \in {s} \X {"login", "packets"} : fresh[c] \union pending[c] # {}
Done(n) ==
  /\ \A c \in Channels : n \notin fresh[c] \union pending[c]
  /\ \A p \in running : p.n # n
HasRow(n) == valid /\ requests[n].known

\* A login, and a packet once every service has followed the login, is answered
\* with all the packets that are due, if no service it involves ended and no
\* lookup failed; only one that overtakes the login, on another stream, may go
\* unanswered.
Answered ==
  \A n \in RequestIds :
    /\ requests[n].settled /\ HasRow(n) /\ Done(n)
    /\ failures = 0 /\ Involved[requests[n].header] \intersect ended = {}
    => \A x \in PacketsOf(requests[n].header, Followed) : <<n, x>> \in sent

\* A panic ends no service but player, and that one because the database failed
\* or on a packet that asks for the row of a ticket that has none.
EndedCause ==
  /\ ended \subseteq {"player"}
  /\ ended # {} /\ failures = 0 =>
       \E n \in RequestIds : requests[n].header \in {"UserData", "Friends"} /\ ~HasRow(n)

\* player claims such a packet again each time it is restarted, and ends again:
\* what is read after it may never be handled.  Every other packet is, in the end.
Poisoned(s) ==
  /\ s = "player"
  /\ \E n \in RequestIds : requests[n].header = "UserData" /\ ~HasRow(n) /\ ~Done(n)
EventuallyHandled == <>[](\A s \in Followed : Waiting(s) => Poisoned(s))
==============================================================================
