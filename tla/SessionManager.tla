--------------------------- MODULE SessionManager ---------------------------
(***************************************************************************)
(* The networking service: web socket connections, their log-in and their  *)
(* sessions (networking/client.go, manager.go, player.go, handlers.go, the *)
(* senders of rpc.go and main.go, and the client half of api/player).      *)
(*                                                                         *)
(* Goroutines: Manager.run, AuthSystem.run, PlayerClient.Listen; a reader  *)
(* and a writer per connection; one per packet handled; one per gRPC       *)
(* request and per Pub/Sub subscription that sends to a session.  All      *)
(* channels but Client.send are unbuffered, so a step of two goroutines    *)
(* that meet on a channel is one action.  A client of the model is one     *)
(* connection: reconnecting is another client.                             *)
(*                                                                         *)
(* A definition Name_Variant that precedes Name is a bug somebody could    *)
(* write in its place; the model uses Name alone.                          *)
(***************************************************************************)
EXTENDS Naturals, FiniteSets

CONSTANTS
  Clients,   \* connections
  Tickets,   \* SSO tickets
  Senders,   \* goroutines that put packets in a connection's channel
  MaxLogins, \* bound: log-in packets, over all connections
  SendCap,   \* capacity of Client.send (8096 in the code)
  NoClient,  \* nil
  NoSso      \* the empty sso of a client that has not logged in

ASSUME ConstAssumption ==
  /\ SendCap \in Nat \ {0}
  /\ MaxLogins \in Nat
  /\ NoClient \notin Clients
  /\ NoSso \notin Tickets

VARIABLES
  conn,      \* conn[c]: new, open or closed
  reader,    \* reader[c]: phase of the goroutine Client.read
  writer,    \* writer[c]: phase of the goroutine Client.write
  clients,   \* Manager.clients: the registered connections
  closed,    \* the connections whose send channel has been closed
  buf,       \* buf[c]: messages waiting in Client.send
  sso,       \* sso[c]: Client.sso
  sessions,  \* Manager.sessions
  pending,   \* AuthSystem.pending
  packets,   \* <<c, s>>: goroutines started for a log-in packet
  requests,  \* <<c, s>>: such goroutines blocked on loginRequest
  rpc,       \* PlayerClient.Listen: what it does, and for which ticket
  auth,      \* AuthSystem.run: the log-in it hands to the manager
  holds,     \* holds[w]: the client sender w sends to, and for which ticket
  asked,     \* history: <<c, s>>: connection c has sent ticket s
  granted,   \* history: tickets the player service has accepted
  late       \* history: clients logged in after their channel was closed

network == <<conn, reader, writer>>
manager == <<clients, closed, sessions, sso>>
login == <<pending, packets, requests, rpc, auth>>
sending == <<buf, holds>>
history == <<asked, granted, late>>
vars == <<network, manager, login, sending, history>>

Goroutine == {"off", "run", "dying", "closing", "gone"}
Idle == [at |-> "idle"]
Rpc == {Idle} \union [at : {"call", "granted"}, sso : Tickets]
Auth == {Idle} \union [at : {"login"}, sso : Tickets, client : Clients]
Held == {Idle} \union [at : {"send"}, sso : Tickets \union {NoSso}, client : Clients]

TypeOK ==
  /\ conn \in [Clients -> {"new", "open", "closed"}]
  /\ reader \in [Clients -> Goroutine]
  /\ writer \in [Clients -> Goroutine]
  /\ clients \in SUBSET Clients
  /\ closed \in SUBSET Clients
  /\ buf \in [Clients -> 0..SendCap]
  /\ sso \in [Clients -> Tickets \union {NoSso}]
  /\ sessions \in [Tickets -> Clients \union {NoClient}]
  /\ pending \in [Tickets -> Clients \union {NoClient}]
  /\ packets \in SUBSET (Clients \X Tickets)
  /\ requests \in SUBSET (Clients \X Tickets)
  /\ rpc \in Rpc
  /\ auth \in Auth
  /\ holds \in [Senders -> Held]
  /\ asked \in SUBSET (Clients \X Tickets)
  /\ granted \in SUBSET Tickets
  /\ late \in SUBSET Clients

Init ==
  /\ conn = [c \in Clients |-> "new"]
  /\ reader = [c \in Clients |-> "off"]
  /\ writer = [c \in Clients |-> "off"]
  /\ clients = {}
  /\ closed = {}
  /\ buf = [c \in Clients |-> 0]
  /\ sso = [c \in Clients |-> NoSso]
  /\ sessions = [s \in Tickets |-> NoClient]
  /\ pending = [s \in Tickets |-> NoClient]
  /\ packets = {}
  /\ requests = {}
  /\ rpc = Idle
  /\ auth = Idle
  /\ holds = [w \in Senders |-> Idle]
  /\ asked = {}
  /\ granted = {}
  /\ late = {}

\* The process ends (a panic no goroutine recovers, or log.Fatalf) and the
\* container runtime starts it anew: nothing is left, its connections are cut.
Restart ==
  /\ conn' = [c \in Clients |-> IF conn[c] = "new" THEN "new" ELSE "closed"]
  /\ reader' = [c \in Clients |-> IF conn[c] = "new" THEN "off" ELSE "gone"]
  /\ writer' = [c \in Clients |-> IF conn[c] = "new" THEN "off" ELSE "gone"]
  /\ clients' = {}
  /\ closed' = {}
  /\ buf' = [c \in Clients |-> 0]
  /\ sso' = [c \in Clients |-> NoSso]
  /\ sessions' = [s \in Tickets |-> NoClient]
  /\ pending' = [s \in Tickets |-> NoClient]
  /\ packets' = {}
  /\ requests' = {}
  /\ rpc' = Idle
  /\ auth' = Idle
  /\ holds' = [w \in Senders |-> Idle]
  /\ UNCHANGED history

-----------------------------------------------------------------------------
(* Connections *)

\* serveWs: the manager takes the registration, then both goroutines start.
Connect(c) ==
  /\ conn[c] = "new"
  /\ conn' = [conn EXCEPT ![c] = "open"]
  /\ clients' = clients \union {c}
  /\ reader' = [reader EXCEPT ![c] = "run"]
  /\ writer' = [writer EXCEPT ![c] = "run"]
  /\ UNCHANGED <<closed, sessions, sso, login, sending, history>>

\* The peer goes away.
Hangup(c) ==
  /\ conn[c] = "open"
  /\ conn' = [conn EXCEPT ![c] = "closed"]
  /\ UNCHANGED <<reader, writer, manager, login, sending, history>>

\* The deferred die of the reader.
AfterReadError_NoDefer == "gone"
AfterReadError == "dying"

\* Client.read: ReadMessage fails.
ReadFails(c) ==
  /\ reader[c] = "run"
  /\ conn[c] = "closed"
  /\ reader' = [reader EXCEPT ![c] = AfterReadError]
  /\ UNCHANGED <<conn, writer, manager, login, sending, history>>

\* Client.write: the message received and the ones that wait with it are
\* written; on a closed connection writing fails, then or after the first.
Write(c) ==
  /\ writer[c] = "run"
  /\ buf[c] > 0
  /\ \/ /\ buf' = [buf EXCEPT ![c] = 0]
        /\ UNCHANGED writer
     \/ /\ conn[c] = "closed"
        /\ \E n \in {0, buf[c] - 1} : buf' = [buf EXCEPT ![c] = n]
        /\ writer' = [writer EXCEPT ![c] = "dying"]
  /\ UNCHANGED <<conn, reader, manager, login, holds, history>>

\* Client.write: the send channel is closed and drained.
WriteEnds(c) ==
  /\ writer[c] = "run"
  /\ buf[c] = 0
  /\ c \in closed
  /\ writer' = [writer EXCEPT ![c] = "dying"]
  /\ UNCHANGED <<conn, reader, manager, login, sending, history>>

\* Does the manager act on the death of c?  Both goroutines report it.
Dies_Unchecked(c) == TRUE
Dies(c) == c \in clients

\* The sessions once that of c is deleted.
SessionsWithout_Kept(c) == sessions
SessionsWithout(c) == [s \in Tickets |-> IF s = sso[c] THEN NoClient ELSE sessions[s]]

\* The channels closed once c's is.
ClosedWith_Open(c) == closed
ClosedWith(c) == closed \union {c}

\* Client.die meets Manager.run on the channel die.
Buried(c) ==
  IF Dies(c)
  THEN /\ clients' = clients \ {c}
       /\ sessions' = SessionsWithout(c)
       /\ closed' = ClosedWith(c)
       /\ UNCHANGED sso
  ELSE UNCHANGED manager

ReaderDies(c) ==
  /\ reader[c] = "dying"
  /\ reader' = [reader EXCEPT ![c] = "closing"]
  /\ Buried(c)
  /\ UNCHANGED <<conn, writer, login, sending, history>>

WriterDies(c) ==
  /\ writer[c] = "dying"
  /\ writer' = [writer EXCEPT ![c] = "closing"]
  /\ Buried(c)
  /\ UNCHANGED <<conn, reader, login, sending, history>>

\* Client.die: conn.Close.
ReaderCloses(c) ==
  /\ reader[c] = "closing"
  /\ reader' = [reader EXCEPT ![c] = "gone"]
  /\ conn' = [conn EXCEPT ![c] = "closed"]
  /\ UNCHANGED <<writer, manager, login, sending, history>>

WriterCloses(c) ==
  /\ writer[c] = "closing"
  /\ writer' = [writer EXCEPT ![c] = "gone"]
  /\ conn' = [conn EXCEPT ![c] = "closed"]
  /\ UNCHANGED <<reader, manager, login, sending, history>>

-----------------------------------------------------------------------------
(* Log-in *)

\* Client.read gets a log-in packet and starts a goroutine for its handler.
\* Bounds: a connection sends a ticket once, and there are MaxLogins packets.
ReadLogin(c, s) ==
  /\ reader[c] = "run"
  /\ <<c, s>> \notin asked
  /\ Cardinality(asked) < MaxLogins
  /\ asked' = asked \union {<<c, s>>}
  /\ packets' = packets \union {<<c, s>>}
  /\ UNCHANGED <<network, manager, pending, requests, rpc, auth, sending>>
  /\ UNCHANGED <<granted, late>>

\* handleLoginEvent up to LoginRequest, which blocks.
HandleLogin(c, s) ==
  /\ <<c, s>> \in packets
  /\ packets' = packets \ {<<c, s>>}
  /\ pending' = [pending EXCEPT ![s] = c]
  /\ requests' = requests \union {<<c, s>>}
  /\ UNCHANGED <<network, manager, rpc, auth, sending, history>>

\* LoginRequest meets PlayerClient.Listen, which calls the player service.
TakeRequest(c, s) ==
  /\ rpc = Idle
  /\ <<c, s>> \in requests
  /\ requests' = requests \ {<<c, s>>}
  /\ rpc' = [at |-> "call", sso |-> s]
  /\ UNCHANGED <<network, manager, pending, packets, auth, sending, history>>

\* A ticket the player service refuses is forgotten.
AfterRefusal_Return == [at |-> "stopped"]
AfterRefusal == Idle

\* sendLoginRequest returns; an error, the timeout of ten seconds among
\* them, is fatal.
Answer ==
  /\ rpc.at = "call"
  /\ \/ /\ rpc' = [rpc EXCEPT !.at = "granted"]
        /\ granted' = granted \union {rpc.sso}
        /\ UNCHANGED <<network, manager, pending, packets, requests, auth, sending>>
        /\ UNCHANGED <<asked, late>>
     \/ /\ rpc' = AfterRefusal
        /\ UNCHANGED <<network, manager, pending, packets, requests, auth, sending, history>>
     \/ Restart

\* The connection the ticket is attributed to.
Claimant_AnyRequest(s) ==
  IF requests = {} THEN pending[s] ELSE (CHOOSE q \in requests : TRUE)[1]
Claimant(s) == pending[s]

\* PlayerClient.Listen meets AuthSystem.run on the channel Login.
Authenticate ==
  /\ rpc.at = "granted"
  /\ auth = Idle
  /\ rpc' = Idle
  /\ auth' = IF Claimant(rpc.sso) = NoClient
             THEN Idle
             ELSE [at |-> "login", sso |-> rpc.sso, client |-> Claimant(rpc.sso)]
  /\ UNCHANGED <<network, manager, pending, packets, requests, sending, history>>

\* AuthSystem.run meets Manager.run on the channel login.
Login ==
  /\ auth # Idle
  /\ auth' = Idle
  /\ sessions' = [sessions EXCEPT ![auth.sso] = auth.client]
  /\ sso' = [sso EXCEPT ![auth.client] = auth.sso]
  /\ late' = IF auth.client \in closed THEN late \union {auth.client} ELSE late
  /\ UNCHANGED <<network, clients, closed, pending, packets, requests, rpc, sending>>
  /\ UNCHANGED <<asked, granted>>

-----------------------------------------------------------------------------
(* Sending *)

\* SendPacket, SendPackets and the Pub/Sub goroutine: the session's client
\* is looked up; without one the packet is dropped.
Lookup(w, s) ==
  /\ holds[w] = Idle
  /\ sessions[s] # NoClient
  /\ holds' = [holds EXCEPT ![w] = [at |-> "send", sso |-> s, client |-> sessions[s]]]
  /\ UNCHANGED <<network, manager, login, buf, history>>

\* Client.read gets a ping: handlePingEvent answers it in a goroutine of its
\* own, whose packet is for no ticket.
ReadPing(w, c) ==
  /\ holds[w] = Idle
  /\ reader[c] = "run"
  /\ holds' = [holds EXCEPT ![w] = [at |-> "send", sso |-> NoSso, client |-> c]]
  /\ UNCHANGED <<network, manager, login, buf, history>>

\* Is there room in the channel of c?
HasRoom_OffByOne(c) == buf[c] <= SendCap
HasRoom(c) == buf[c] < SendCap

\* client.send <- packet: it waits while the channel is full.  SendPackets
\* goes on with the next packet for the client it has looked up once.
Send(w) ==
  LET c == holds[w].client IN
  /\ holds[w] # Idle
  /\ c \notin closed
  /\ HasRoom(c)
  /\ buf' = [buf EXCEPT ![c] = @ + 1]
  /\ \/ holds' = [holds EXCEPT ![w] = Idle]
     \/ holds' = holds /\ holds[w].sso # NoSso
  /\ UNCHANGED <<network, manager, login, history>>

\* A send on a closed channel panics, also when it has been waiting.
SendPanics ==
  /\ \E w \in Senders : holds[w] # Idle /\ holds[w].client \in closed
  /\ Restart

\* The maps sessions and pending are read and written without a lock: the Go
\* runtime may detect it and end the process.
MapRace ==
  /\ \/ Senders # {} /\ (\E c \in Clients : "dying" \in {reader[c], writer[c]})
     \/ Senders # {} /\ auth # Idle
     \/ Cardinality(packets) > 1
     \/ packets # {} /\ rpc.at = "granted" /\ auth = Idle
  /\ Restart

-----------------------------------------------------------------------------

ClientStep(c) ==
  \/ ReadFails(c) \/ Write(c) \/ WriteEnds(c)
  \/ ReaderDies(c) \/ WriterDies(c) \/ ReaderCloses(c) \/ WriterCloses(c)

Next ==
  \/ \E c \in Clients :
       Connect(c) \/ Hangup(c) \/ ClientStep(c)
  \/ \E c \in Clients, s \in Tickets :
       ReadLogin(c, s) \/ HandleLogin(c, s) \/ TakeRequest(c, s)
  \/ Answer \/ Authenticate \/ Login
  \/ \E w \in Senders, s \in Tickets : Lookup(w, s)
  \/ \E w \in Senders, c \in Clients : ReadPing(w, c)
  \/ \E w \in Senders : Send(w)
  \/ SendPanics \/ MapRace

Spec == Init /\ [][Next]_vars

\* Every goroutine that can take a step takes one; the answer of the player
\* service comes, or the timeout.  The peers owe nothing: no fairness for
\* Connect, Hangup, ReadLogin and ReadPing.
Fairness ==
  /\ \A c \in Clients :
       /\ WF_vars(ReadFails(c)) /\ WF_vars(Write(c)) /\ WF_vars(WriteEnds(c))
       /\ WF_vars(ReaderDies(c)) /\ WF_vars(WriterDies(c))
       /\ WF_vars(ReaderCloses(c)) /\ WF_vars(WriterCloses(c))
  /\ \A c \in Clients, s \in Tickets : WF_vars(HandleLogin(c, s)) /\ WF_vars(TakeRequest(c, s))
  /\ WF_vars(Answer) /\ WF_vars(Authenticate) /\ WF_vars(Login)
  /\ \A w \in Senders : WF_vars(Send(w))
  /\ WF_vars(SendPanics)

FairSpec == Spec /\ Fairness

-----------------------------------------------------------------------------
(* Safety *)

\* Both goroutines of a connection report its death, yet the manager closes its
\* channel once: a connection that is served has an open channel exactly while
\* it is registered, and the manager does not act on the death of another.
ClosedOnce ==
  /\ clients \intersect closed = {}
  /\ \A c \in closed : ~Dies(c)
  /\ \A c \in Clients : reader[c] \notin {"off", "gone"} => c \in clients \union closed
  /\ \A c \in Clients : writer[c] \notin {"off", "gone"} => c \in clients \union closed

\* A packet for a ticket is sent only to a connection that presented this
\* ticket, one the player service accepted: with the client looked up before
\* the send, tickets overwritten in pending, connections dying in between.
RoutedToOwner ==
  \A w \in Senders :
    (holds[w] # Idle /\ holds[w].sso # NoSso)
      => <<holds[w].client, holds[w].sso>> \in asked /\ holds[w].sso \in granted

\* A session of a dead connection, on which a send panics, has one of two
\* causes: the log-in was processed after the death, or the connection had
\* logged in with another ticket since.
StaleSessionCause ==
  \A s \in Tickets, c \in closed :
    sessions[s] = c => (c \in late \/ \E z \in Tickets \ {s} : <<c, z>> \in asked)

(* What the documentation says and the code does not do *)

\* The networking service is the authority of the sessions: the only
\* registered connection logged in with a ticket holds its session.
SessionAuthority ==
  \A s \in Tickets, c \in clients :
    (sso[c] = s /\ \A d \in clients \ {c} : sso[d] # s) => sessions[s] = c

(* Liveness *)

\* A connection that is closed is removed from the manager.
DeadIsBuried == \A c \in Clients : (conn[c] = "closed") ~> (c \notin clients)

\* A log-in request does not wait for ever.
RequestIsTaken ==
  \A c \in Clients, s \in Tickets : (<<c, s>> \in requests) ~> (<<c, s>> \notin requests)

\* A sender that waits on a full channel is released, if only by a panic.
FullChannelMoves ==
  \A w \in Senders, c \in Clients :
    (holds[w] # Idle /\ holds[w].client = c /\ buf[c] = SendCap)
      ~> (holds[w] = Idle \/ buf[c] < SendCap)
==============================================================================
