------------------------- MODULE SessionManagerProofs -------------------------
(***************************************************************************)
(* Proofs about SessionManager, for any sets of connections, tickets and   *)
(* senders, any number of log-ins and any capacity of the channels.        *)
(***************************************************************************)
EXTENDS SessionManager, TLAPS

-----------------------------------------------------------------------------
(* Types *)

\* The end of the process leaves every variable its type.
LEMMA RestartType == ASSUME TypeOK, Restart PROVE TypeOK'
<1>1. /\ conn' \in [Clients -> {"new", "open", "closed"}]
      /\ reader' \in [Clients -> Goroutine] /\ writer' \in [Clients -> Goroutine]
  BY DEF TypeOK, Restart, Goroutine
<1>2. /\ clients' \in SUBSET Clients /\ closed' \in SUBSET Clients
      /\ buf' \in [Clients -> 0..SendCap] /\ sso' \in [Clients -> Tickets \union {NoSso}]
      /\ sessions' \in [Tickets -> Clients \union {NoClient}]
      /\ pending' \in [Tickets -> Clients \union {NoClient}]
  BY ConstAssumption DEF ConstAssumption, Restart
<1>3. /\ packets' \in SUBSET (Clients \X Tickets) /\ requests' \in SUBSET (Clients \X Tickets)
      /\ rpc' \in Rpc /\ auth' \in Auth /\ holds' \in [Senders -> Held]
  BY DEF Restart, Rpc, Auth, Held
<1>4. /\ asked' \in SUBSET (Clients \X Tickets) /\ granted' \in SUBSET Tickets /\ late' \in SUBSET Clients
  BY DEF TypeOK, Restart, history
<1> QED
  BY <1>1, <1>2, <1>3, <1>4 DEF TypeOK

LEMMA BuriedType ==
  ASSUME TypeOK, NEW c \in Clients, Buried(c)
  PROVE  /\ clients' \in SUBSET Clients /\ closed' \in SUBSET Clients
         /\ sessions' \in [Tickets -> Clients \union {NoClient}]
         /\ sso' \in [Clients -> Tickets \union {NoSso}]
<1>1. CASE Dies(c)
  BY <1>1 DEF Buried, TypeOK, SessionsWithout, ClosedWith
<1>2. CASE ~Dies(c)
  BY <1>2 DEF Buried, TypeOK, manager
<1> QED
  BY <1>1, <1>2

\* What is at hand when something is.
LEMMA InHand ==
  ASSUME TypeOK
  PROVE  /\ rpc.at \in {"call", "granted"} => rpc.sso \in Tickets
         /\ auth # Idle => auth.sso \in Tickets /\ auth.client \in Clients
         /\ \A w \in Senders : holds[w] # Idle =>
              holds[w].client \in Clients /\ holds[w].sso \in Tickets \union {NoSso}
<1>1. rpc \in Rpc /\ auth \in Auth /\ \A w \in Senders : holds[w] \in Held
  BY DEF TypeOK
<1> QED
  BY <1>1 DEF Rpc, Auth, Held, Idle

LEMMA TypeStep == TypeOK /\ [Next]_vars => TypeOK'
<1> SUFFICES ASSUME TypeOK, [Next]_vars PROVE TypeOK'
  OBVIOUS
<1> USE DEF network, manager, login, sending, history
<1>1. ASSUME NEW c \in Clients, Connect(c) PROVE TypeOK'
  BY <1>1 DEF TypeOK, Connect, Goroutine
<1>2. ASSUME NEW c \in Clients, Hangup(c) PROVE TypeOK'
  BY <1>2 DEF TypeOK, Hangup
<1>3. ASSUME NEW c \in Clients, ClientStep(c) PROVE TypeOK'
  <2>1. CASE ReadFails(c)
    BY <2>1 DEF TypeOK, ReadFails, AfterReadError, Goroutine
  <2>2. CASE Write(c)
    <3>1. buf' \in [Clients -> 0..SendCap]
      BY <2>2, ConstAssumption DEF ConstAssumption, TypeOK, Write
    <3>2. writer' \in [Clients -> Goroutine]
      BY <2>2 DEF TypeOK, Write, Goroutine
    <3> QED
      BY <2>2, <3>1, <3>2 DEF TypeOK, Write
  <2>3. CASE WriteEnds(c)
    BY <2>3 DEF TypeOK, WriteEnds, Goroutine
  <2>4. CASE ReaderDies(c)
    <3>1. reader' \in [Clients -> Goroutine]
      BY <2>4 DEF TypeOK, ReaderDies, Goroutine
    <3> QED
      BY <2>4, <3>1, BuriedType DEF TypeOK, ReaderDies
  <2>5. CASE WriterDies(c)
    <3>1. writer' \in [Clients -> Goroutine]
      BY <2>5 DEF TypeOK, WriterDies, Goroutine
    <3> QED
      BY <2>5, <3>1, BuriedType DEF TypeOK, WriterDies
  <2>6. CASE ReaderCloses(c)
    BY <2>6 DEF TypeOK, ReaderCloses, Goroutine
  <2>7. CASE WriterCloses(c)
    BY <2>7 DEF TypeOK, WriterCloses, Goroutine
  <2> QED
    BY <1>3, <2>1, <2>2, <2>3, <2>4, <2>5, <2>6, <2>7 DEF ClientStep
<1>4. ASSUME NEW c \in Clients, NEW s \in Tickets, ReadLogin(c, s) PROVE TypeOK'
  BY <1>4 DEF TypeOK, ReadLogin
<1>5. ASSUME NEW c \in Clients, NEW s \in Tickets, HandleLogin(c, s) PROVE TypeOK'
  BY <1>5 DEF TypeOK, HandleLogin
<1>6. ASSUME NEW c \in Clients, NEW s \in Tickets, TakeRequest(c, s) PROVE TypeOK'
  <2>1. rpc' \in Rpc
    BY <1>6 DEF TakeRequest, Rpc
  <2> QED
    BY <1>6, <2>1 DEF TypeOK, TakeRequest
<1>7. CASE Answer
  <2>1. CASE Restart
    BY <2>1, RestartType
  <2>2. CASE ~Restart
    <3>1. rpc \in [at : {"call", "granted"}, sso : Tickets]
      BY <1>7 DEF Answer, TypeOK, Rpc, Idle
    <3>2. rpc' \in Rpc /\ granted' \in SUBSET Tickets
      BY <1>7, <2>2, <3>1 DEF Answer, TypeOK, Rpc, AfterRefusal
    <3> QED
      BY <1>7, <2>2, <3>2 DEF TypeOK, Answer
  <2> QED
    BY <2>1, <2>2
<1>8. CASE Authenticate
  <2>1. rpc.sso \in Tickets
    BY <1>8, InHand DEF Authenticate
  <2>2. rpc' \in Rpc /\ auth' \in Auth
    BY <1>8, <2>1 DEF Authenticate, Claimant, TypeOK, Rpc, Auth
  <2> QED
    BY <1>8, <2>2 DEF TypeOK, Authenticate
<1>9. CASE Login
  <2>1. PICK s \in Tickets, c \in Clients : auth.sso = s /\ auth.client = c
    BY <1>9, InHand DEF Login
  <2>2. /\ sessions' = [sessions EXCEPT ![s] = c] /\ sso' = [sso EXCEPT ![c] = s]
        /\ late' = IF c \in closed THEN late \union {c} ELSE late
    BY <1>9, <2>1 DEF Login
  <2>3. auth' \in Auth
    BY <1>9 DEF Login, Auth
  <2>4. /\ sessions' \in [Tickets -> Clients \union {NoClient}]
        /\ sso' \in [Clients -> Tickets \union {NoSso}] /\ late' \in SUBSET Clients
    BY <2>2 DEF TypeOK
  <2> QED
    BY <1>9, <2>3, <2>4 DEF TypeOK, Login
<1>10. ASSUME NEW w \in Senders, NEW s \in Tickets, Lookup(w, s) PROVE TypeOK'
  <2>1. holds' \in [Senders -> Held]
    BY <1>10 DEF Lookup, TypeOK, Held
  <2> QED
    BY <1>10, <2>1 DEF TypeOK, Lookup
<1>11. ASSUME NEW w \in Senders, NEW c \in Clients, ReadPing(w, c) PROVE TypeOK'
  <2>1. holds' \in [Senders -> Held]
    BY <1>11 DEF ReadPing, TypeOK, Held
  <2> QED
    BY <1>11, <2>1 DEF TypeOK, ReadPing
<1>12. ASSUME NEW w \in Senders, Send(w) PROVE TypeOK'
  <2>1. PICK c \in Clients : holds[w].client = c
    BY <1>12, InHand DEF Send
  <2>2. buf[c] < SendCap /\ buf' = [buf EXCEPT ![c] = @ + 1]
    BY <1>12, <2>1 DEF Send, HasRoom
  <2>3. buf' \in [Clients -> 0..SendCap]
    BY <2>2, ConstAssumption DEF ConstAssumption, TypeOK
  <2>4. holds' \in [Senders -> Held]
    BY <1>12 DEF Send, TypeOK, Held
  <2> QED
    BY <1>12, <2>3, <2>4 DEF TypeOK, Send
<1>13. CASE SendPanics \/ MapRace
  BY <1>13, RestartType DEF SendPanics, MapRace
<1>14. CASE UNCHANGED vars
  BY <1>14 DEF TypeOK, vars
<1> QED
  BY <1>1, <1>2, <1>3, <1>4, <1>5, <1>6, <1>7, <1>8, <1>9, <1>10, <1>11, <1>12, <1>13, <1>14 DEF Next

\* TypeOK of SessionManager: in particular no channel holds more than it has
\* room for.
THEOREM TypeCorrect == Spec => []TypeOK
<1>1. Init => TypeOK
  BY ConstAssumption DEF ConstAssumption, Init, TypeOK, Goroutine, Rpc, Auth, Held
<1> QED
  BY <1>1, TypeStep, PTL DEF Spec

-----------------------------------------------------------------------------
(* The channel of a connection is closed once *)

\* What becomes of c when its death is reported.
LEMMA BuriedOnce ==
  ASSUME TypeOK, NEW c \in Clients, Buried(c), c \in clients \union closed
  PROVE  \/ clients' = clients \ {c} /\ closed' = closed \union {c} /\ c \in clients
         \/ clients' = clients /\ closed' = closed /\ c \in closed
BY DEF Buried, Dies, ClosedWith, manager

\* Moreover, a connection that has not been made is neither registered nor closed.
ClosedInv ==
  /\ ClosedOnce
  /\ \A c \in Clients : conn[c] = "new" => c \notin clients \union closed

LEMMA ClosedStep == TypeOK /\ ClosedInv /\ [Next]_vars => ClosedInv'
<1> SUFFICES ASSUME TypeOK, ClosedInv, [Next]_vars PROVE ClosedInv'
  OBVIOUS
<1> USE DEF ClosedInv, ClosedOnce, Dies
<1>1. CASE UNCHANGED <<network, clients, closed>>
  BY <1>1 DEF network
<1>2. CASE Restart
  BY <1>2 DEF TypeOK, Restart
<1>3. ASSUME NEW c \in Clients, Connect(c) PROVE ClosedInv'
  BY <1>3 DEF TypeOK, Connect
<1>4. ASSUME NEW c \in Clients, Hangup(c) PROVE ClosedInv'
  BY <1>4 DEF TypeOK, Hangup, manager
<1>5. ASSUME NEW c \in Clients, ClientStep(c) PROVE ClosedInv'
  <2>1. CASE ReadFails(c) \/ Write(c) \/ WriteEnds(c)
    BY <2>1 DEF TypeOK, ReadFails, AfterReadError, Write, WriteEnds, manager
  <2>2. CASE ReaderDies(c)
    <3>1. /\ reader[c] = "dying" /\ reader' = [reader EXCEPT ![c] = "closing"]
          /\ Buried(c) /\ UNCHANGED <<conn, writer>>
      BY <2>2 DEF ReaderDies
    <3>2. c \in clients \union closed
      BY <3>1
    <3> QED
      BY <3>1, <3>2, BuriedOnce DEF TypeOK
  <2>3. CASE WriterDies(c)
    <3>1. /\ writer[c] = "dying" /\ writer' = [writer EXCEPT ![c] = "closing"]
          /\ Buried(c) /\ UNCHANGED <<conn, reader>>
      BY <2>3 DEF WriterDies
    <3>2. c \in clients \union closed
      BY <3>1
    <3> QED
      BY <3>1, <3>2, BuriedOnce DEF TypeOK
  <2>4. CASE ReaderCloses(c)
    BY <2>4 DEF TypeOK, ReaderCloses, manager
  <2>5. CASE WriterCloses(c)
    BY <2>5 DEF TypeOK, WriterCloses, manager
  <2> QED
    BY <1>5, <2>1, <2>2, <2>3, <2>4, <2>5 DEF ClientStep
<1>6. ASSUME NEW c \in Clients, NEW s \in Tickets,
             ReadLogin(c, s) \/ HandleLogin(c, s) \/ TakeRequest(c, s)
      PROVE  ClosedInv'
  BY <1>1, <1>6 DEF ReadLogin, HandleLogin, TakeRequest, manager
<1>7. CASE Answer \/ Authenticate \/ Login
  BY <1>1, <1>2, <1>7 DEF Answer, Authenticate, Login, manager
<1>8. ASSUME NEW w \in Senders,
             \/ \E s \in Tickets : Lookup(w, s)
             \/ \E c \in Clients : ReadPing(w, c)
             \/ Send(w)
      PROVE  ClosedInv'
  BY <1>1, <1>8 DEF Lookup, ReadPing, Send, manager
<1>9. CASE SendPanics \/ MapRace
  BY <1>2, <1>9 DEF SendPanics, MapRace
<1>10. CASE UNCHANGED vars
  BY <1>1, <1>10 DEF vars, manager
<1> QED
  BY <1>3, <1>4, <1>5, <1>6, <1>7, <1>8, <1>9, <1>10 DEF Next

\* The manager closes the channel of a connection once, whichever of its two
\* goroutines reports its death first: the second closing would panic.
THEOREM ChannelClosedOnce == Spec => []ClosedOnce
<1>1. Init => ClosedInv
  BY DEF Init, ClosedInv, ClosedOnce
<1>2. ClosedInv => ClosedOnce
  BY DEF ClosedInv
<1> QED
  BY <1>1, <1>2, ClosedStep, TypeCorrect, PTL DEF Spec

-----------------------------------------------------------------------------
(* Packets reach the connection their ticket is of *)

\* Ticket s was presented by connection c and accepted.
Owned(c, s) == <<c, s>> \in asked /\ s \in granted

\* What is recorded of a ticket on its way from the packet to the session, and
\* from the session to a sender.
OwnerInv ==
  /\ packets \subseteq asked /\ requests \subseteq asked
  /\ \A s \in Tickets : pending[s] # NoClient => <<pending[s], s>> \in asked
  /\ rpc.at = "granted" => rpc.sso \in granted
  /\ auth # Idle => Owned(auth.client, auth.sso)
  /\ \A s \in Tickets : sessions[s] # NoClient => Owned(sessions[s], s)
  /\ RoutedToOwner

LEMMA OwnerStep == TypeOK /\ OwnerInv /\ [Next]_vars => OwnerInv'
<1> SUFFICES ASSUME TypeOK, OwnerInv, [Next]_vars PROVE OwnerInv'
  OBVIOUS
<1> USE DEF OwnerInv, RoutedToOwner, Owned
<1>1. CASE UNCHANGED <<login, sessions, holds, asked, granted>>
  BY <1>1 DEF login
<1>2. CASE Restart
  BY <1>2 DEF TypeOK, Restart, Idle, history
<1>3. ASSUME NEW c \in Clients, Connect(c) \/ Hangup(c) PROVE OwnerInv'
  BY <1>1, <1>3 DEF Connect, Hangup, sending, history, manager
<1>4. ASSUME NEW c \in Clients, ClientStep(c) PROVE OwnerInv'
  <2>1. CASE ReadFails(c) \/ Write(c) \/ WriteEnds(c) \/ ReaderCloses(c) \/ WriterCloses(c)
    BY <1>1, <2>1 DEF ReadFails, Write, WriteEnds, ReaderCloses, WriterCloses, manager, sending, history
  <2>2. CASE ReaderDies(c) \/ WriterDies(c)
    <3>1. Buried(c) /\ UNCHANGED <<login, sending, history>>
      BY <2>2 DEF ReaderDies, WriterDies
    <3>2. \A s \in Tickets : sessions'[s] \in {sessions[s], NoClient}
      BY <3>1 DEF Buried, SessionsWithout, manager
    <3> QED
      BY <3>1, <3>2 DEF login, sending, history
  <2> QED
    BY <1>4, <2>1, <2>2 DEF ClientStep
<1>5. ASSUME NEW c \in Clients, NEW s \in Tickets, ReadLogin(c, s) PROVE OwnerInv'
  BY <1>5 DEF TypeOK, ReadLogin, manager, sending
<1>6. ASSUME NEW c \in Clients, NEW s \in Tickets, HandleLogin(c, s) PROVE OwnerInv'
  BY <1>6 DEF TypeOK, HandleLogin, manager, sending, history
<1>7. ASSUME NEW c \in Clients, NEW s \in Tickets, TakeRequest(c, s) PROVE OwnerInv'
  BY <1>7 DEF TypeOK, TakeRequest, manager, sending, history
<1>8. CASE Answer
  <2>1. CASE ~Restart
    <3>1. granted \subseteq granted'
      BY <1>8, <2>1 DEF Answer, history
    <3>2. rpc'.at = "granted" => rpc'.sso \in granted'
      <4>1. rpc \in [at : {"call", "granted"}, sso : Tickets]
        BY <1>8 DEF Answer, TypeOK, Rpc, Idle
      <4> QED
        BY <1>8, <2>1, <4>1 DEF Answer, AfterRefusal, Idle
    <3>3. UNCHANGED <<pending, packets, requests, auth, sessions, holds, asked>>
      BY <1>8, <2>1 DEF Answer, manager, sending, history
    <3> QED
      BY <3>1, <3>2, <3>3
  <2> QED
    BY <1>2, <2>1
<1>9. CASE Authenticate
  <2>1. PICK s \in Tickets : rpc.sso = s /\ s \in granted
    BY <1>9, InHand DEF Authenticate
  <2>2. /\ rpc' = Idle /\ UNCHANGED <<pending, packets, requests, sessions, holds, asked, granted>>
        /\ auth' = IF pending[s] = NoClient
                   THEN Idle ELSE [at |-> "login", sso |-> s, client |-> pending[s]]
    BY <1>9, <2>1 DEF Authenticate, Claimant, manager, sending, history
  <2>3. auth' # Idle => Owned(auth'.client, auth'.sso)
    BY <2>1, <2>2
  <2> QED
    BY <2>2, <2>3 DEF Idle
<1>10. CASE Login
  <2>1. PICK s \in Tickets, c \in Clients : auth.sso = s /\ auth.client = c /\ Owned(c, s)
    BY <1>10, InHand DEF Login
  <2>2. /\ auth' = Idle /\ sessions' = [sessions EXCEPT ![s] = c]
        /\ UNCHANGED <<pending, packets, requests, rpc, holds, asked, granted>>
    BY <1>10, <2>1 DEF Login, sending
  <2> QED
    BY <2>1, <2>2 DEF TypeOK
<1>11. ASSUME NEW w \in Senders, NEW s \in Tickets, Lookup(w, s) PROVE OwnerInv'
  BY <1>11 DEF TypeOK, Lookup, manager, login, history
<1>12. ASSUME NEW w \in Senders, NEW c \in Clients, ReadPing(w, c) PROVE OwnerInv'
  BY <1>12 DEF TypeOK, ReadPing, manager, login, history
<1>13. ASSUME NEW w \in Senders, Send(w) PROVE OwnerInv'
  BY <1>13 DEF TypeOK, Send, manager, login, history
<1>14. CASE SendPanics \/ MapRace
  BY <1>2, <1>14 DEF SendPanics, MapRace
<1>15. CASE UNCHANGED vars
  BY <1>1, <1>15 DEF vars, manager, sending, history
<1> QED
  BY <1>3, <1>4, <1>5, <1>6, <1>7, <1>8, <1>9, <1>10, <1>11, <1>12, <1>13, <1>14, <1>15 DEF Next

\* A packet is sent only to a connection that presented the ticket it is for,
\* which the player service accepted, whatever log-ins, deaths and ends of the
\* process come between the lookup of the client and the send.
THEOREM PacketsReachOwner == Spec => []RoutedToOwner
<1>1. Init => OwnerInv
  BY DEF Init, OwnerInv, RoutedToOwner, Idle
<1>2. OwnerInv => RoutedToOwner
  BY DEF OwnerInv
<1> QED
  BY <1>1, <1>2, OwnerStep, TypeCorrect, PTL DEF Spec

-----------------------------------------------------------------------------
(* Sessions of dead connections *)

\* The ticket a client is logged in with was presented by it, and a client with
\* a session is logged in.
StaleInv ==
  /\ \A c \in Clients : sso[c] # NoSso => <<c, sso[c]>> \in asked
  /\ \A s \in Tickets : sessions[s] # NoClient => sso[sessions[s]] # NoSso
  /\ StaleSessionCause

LEMMA StaleStep == TypeOK /\ OwnerInv /\ StaleInv /\ [Next]_vars => StaleInv'
<1> SUFFICES ASSUME TypeOK, OwnerInv, StaleInv, [Next]_vars PROVE StaleInv'
  OBVIOUS
<1> USE DEF StaleInv, StaleSessionCause
<1>1. CASE UNCHANGED <<sso, sessions, closed, late>> /\ asked \subseteq asked'
  BY <1>1
<1>2. CASE Restart
  BY <1>2 DEF TypeOK, Restart
<1>3. ASSUME NEW c \in Clients, Connect(c) \/ Hangup(c) PROVE StaleInv'
  BY <1>1, <1>3 DEF Connect, Hangup, history, manager
<1>4. ASSUME NEW c \in Clients, ClientStep(c) PROVE StaleInv'
  <2>1. CASE ReadFails(c) \/ Write(c) \/ WriteEnds(c) \/ ReaderCloses(c) \/ WriterCloses(c)
    BY <1>1, <2>1 DEF ReadFails, Write, WriteEnds, ReaderCloses, WriterCloses, manager, history
  <2>2. CASE (ReaderDies(c) \/ WriterDies(c)) /\ ~Dies(c)
    BY <1>1, <2>2 DEF ReaderDies, WriterDies, Buried, manager, history
  <2>3. CASE (ReaderDies(c) \/ WriterDies(c)) /\ Dies(c)
    <3>1. /\ sessions' = [s \in Tickets |-> IF s = sso[c] THEN NoClient ELSE sessions[s]]
          /\ closed' = closed \union {c} /\ UNCHANGED <<sso, asked, late>>
      BY <2>3 DEF ReaderDies, WriterDies, Buried, SessionsWithout, ClosedWith, history
    <3>2. ASSUME NEW s \in Tickets, sessions'[s] = c
          PROVE  sso[c] \in Tickets \ {s} /\ <<c, sso[c]>> \in asked
      BY <3>1, <3>2, ConstAssumption DEF ConstAssumption, TypeOK
    <3>3. \A s \in Tickets : sessions'[s] # NoClient => sessions'[s] = sessions[s]
      BY <3>1
    <3>4. ASSUME NEW s \in Tickets, NEW d \in closed', sessions'[s] = d
          PROVE  d \in late' \/ \E z \in Tickets \ {s} : <<d, z>> \in asked'
      <4>1. CASE d = c
        BY <3>1, <3>2, <3>4, <4>1
      <4>2. CASE d # c
        <5>1. d \in closed /\ d # NoClient
          BY <3>1, <4>2, ConstAssumption DEF ConstAssumption, TypeOK
        <5> QED
          BY <3>1, <3>3, <3>4, <5>1
      <4> QED
        BY <4>1, <4>2
    <3> QED
      BY <3>1, <3>3, <3>4
  <2> QED
    BY <1>4, <2>1, <2>2, <2>3 DEF ClientStep
<1>5. ASSUME NEW c \in Clients, NEW s \in Tickets,
             ReadLogin(c, s) \/ HandleLogin(c, s) \/ TakeRequest(c, s)
      PROVE  StaleInv'
  BY <1>1, <1>5 DEF ReadLogin, HandleLogin, TakeRequest, manager, history
<1>6. CASE Answer \/ Authenticate
  BY <1>1, <1>2, <1>6 DEF Answer, Authenticate, manager, history
<1>7. CASE Login
  <2>1. PICK s \in Tickets, c \in Clients : auth.sso = s /\ auth.client = c /\ <<c, s>> \in asked
    BY <1>7, InHand DEF Login, OwnerInv, Owned
  <2>2. /\ sessions' = [sessions EXCEPT ![s] = c] /\ sso' = [sso EXCEPT ![c] = s]
        /\ late' = IF c \in closed THEN late \union {c} ELSE late
        /\ UNCHANGED <<closed, asked>>
    BY <1>7, <2>1 DEF Login
  <2> QED
    BY <2>1, <2>2, ConstAssumption DEF ConstAssumption, TypeOK
<1>8. ASSUME NEW w \in Senders,
             \/ \E s \in Tickets : Lookup(w, s)
             \/ \E c \in Clients : ReadPing(w, c)
             \/ Send(w)
      PROVE  StaleInv'
  BY <1>1, <1>8 DEF Lookup, ReadPing, Send, manager, history
<1>9. CASE SendPanics \/ MapRace
  BY <1>2, <1>9 DEF SendPanics, MapRace
<1>10. CASE UNCHANGED vars
  BY <1>1, <1>10 DEF vars, manager, history
<1> QED
  BY <1>3, <1>4, <1>5, <1>6, <1>7, <1>8, <1>9, <1>10 DEF Next

\* A session outlives its connection for two reasons only, a log-in processed
\* after the death or a second ticket of the same connection: a connection that
\* presents one ticket and is not late leaves no session behind.
THEOREM StaleSessionsExplained == Spec => []StaleSessionCause
<1>1. Init => OwnerInv /\ StaleInv
  BY DEF Init, OwnerInv, RoutedToOwner, Idle, StaleInv, StaleSessionCause
<1>2. StaleInv => StaleSessionCause
  BY DEF StaleInv
<1> QED
  BY <1>1, <1>2, OwnerStep, StaleStep, TypeCorrect, PTL DEF Spec
==============================================================================
