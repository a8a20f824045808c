--------------------------- MODULE PlayerLoginProofs ---------------------------
(***************************************************************************)
(* Proofs about PlayerLogin, for any finite set of calls and any number of *)
(* kills: its types, and that it implements SharedReply.                   *)
(***************************************************************************)
EXTENDS PlayerLogin, FiniteSetTheorems, TLAPS

\* The ticket of a call is on its way: with a goroutine, or with Listen.
Active(k) == load[k] # "none" \/ listen.of = k
Announcing(k) == \E s \in Sinks : <<k, s>> \in publishing

\* A ticket is on its way for a call that was taken, once, and is not given up
\* by then: each crash for want of a user gives up a call of its own, which is
\* why there are at most as many.
LoginInv ==
  /\ \A k \in Calls :
       /\ Active(k) => call[k] \in {"waiting", "answered", "done"} /\ k \notin dropped /\ ~Announcing(k)
       /\ listen.of = k => load[k] = "none"
       /\ k \in dropped \/ Announcing(k) => call[k] \notin {"new", "asking"}
  /\ crashes <= kills + Cardinality(dropped)

TypeInv == TypeOK /\ LoginInv

LEMMA DroppedCount ==
  ASSUME dropped \in SUBSET Calls
  PROVE  /\ IsFiniteSet(dropped) /\ Cardinality(dropped) \in Nat
         /\ Cardinality(Calls) \in Nat /\ Cardinality(dropped) <= Cardinality(Calls)
BY ConstAssumption, FS_Subset, FS_CardinalityType DEF ConstAssumption

\* The end of the process, whatever its cause.
LEMMA RestartStep ==
  ASSUME TypeInv, Restart, kills' \in 0..MaxKills,
         \/ kills' = kills + 1
         \/ kills' = kills /\ listen.of \in Calls
  PROVE  TypeInv'
<1>1. /\ call' = [k \in Calls |-> IF call[k] \in {"asking", "waiting", "answered"} THEN "lost" ELSE call[k]]
      /\ listen' = Selecting /\ load' = [k \in Calls |-> "none"]
      /\ publishing' = {} /\ found' = [k \in Calls |-> FALSE]
      /\ crashes' = crashes + 1 /\ UNCHANGED <<from, published, crowd>>
  BY DEF Restart, Left
<1>2. /\ dropped' \in SUBSET Calls
      /\ \A k \in Calls : k \in dropped' <=> k \in dropped \/ Active(k) \/ Announcing(k)
      /\ dropped \subseteq dropped'
  BY DEF Restart, Active, Announcing, TypeInv, TypeOK
<1>3. LoginInv'
  <2>1. ASSUME NEW k \in Calls
        PROVE  /\ ~Active(k)' /\ ~Announcing(k)'
               /\ k \in dropped' => call'[k] \notin {"new", "asking"}
    BY <1>1, <1>2, ConstAssumption DEF ConstAssumption, Active, Announcing, Selecting, TypeInv, TypeOK, LoginInv
  <2>2. crashes' <= kills' + Cardinality(dropped')
    <3>1. /\ IsFiniteSet(dropped') /\ Cardinality(dropped') \in Nat /\ Cardinality(dropped) \in Nat
          /\ Cardinality(dropped) <= Cardinality(dropped')
      BY <1>2, ConstAssumption, FS_Subset, FS_CardinalityType DEF ConstAssumption, TypeInv, TypeOK
    <3>2. CASE kills' = kills + 1
      BY <1>1, <3>1, <3>2 DEF TypeInv, TypeOK, LoginInv
    <3>3. CASE kills' = kills /\ listen.of \in Calls
      <4>1. listen.of \in dropped' /\ listen.of \notin dropped
        BY <1>2, <3>3 DEF Active, TypeInv, LoginInv
      <4>2. Cardinality(dropped) < Cardinality(dropped')
        BY <1>2, <3>1, <4>1, FS_Subset
      <4> QED
        BY <1>1, <3>1, <3>3, <4>2 DEF TypeInv, TypeOK, LoginInv
    <3> QED
      BY <3>2, <3>3
  <2> QED
    BY <2>1, <2>2 DEF LoginInv, Active
<1>4. TypeOK'
  <2>1. crashes' \in 0..MaxCrashes
    <3>1. /\ crashes' \in Nat /\ crashes' <= kills' + Cardinality(dropped')
          /\ Cardinality(dropped') \in Nat /\ Cardinality(Calls) \in Nat
          /\ Cardinality(dropped') <= Cardinality(Calls)
      BY <1>1, <1>2, <1>3, ConstAssumption, FS_Subset, FS_CardinalityType
         DEF ConstAssumption, TypeInv, TypeOK, LoginInv
    <3> QED
      BY <3>1, ConstAssumption DEF ConstAssumption, MaxCrashes
  <2> QED
    BY <1>1, <1>2, <2>1 DEF TypeInv, TypeOK, Selecting, CallStates, LoadStates
<1> QED
  BY <1>3, <1>4 DEF TypeInv

LEMMA TypeStep == TypeInv /\ [Next]_vars => TypeInv'
<1> SUFFICES ASSUME TypeInv, [Next]_vars PROVE TypeInv'
  OBVIOUS
<1>a. ASSUME listen.at # "select"
      PROVE  listen.of \in Calls /\ load[listen.of] = "none" /\ listen = [at |-> listen.at, of |-> listen.of]
  BY <1>a DEF TypeInv, TypeOK, LoginInv, Selecting, Serving
<1>b. Selecting.of \notin Calls
  BY ConstAssumption DEF ConstAssumption, Selecting
<1> USE DEF Active, Announcing
<1>1. ASSUME NEW k \in Calls, LoginPlayer(k) PROVE TypeInv'
  BY <1>1 DEF TypeInv, TypeOK, LoginInv, LoginPlayer, CallStates
<1>2. ASSUME NEW k \in Calls, TakeTicket(k) PROVE TypeInv'
  <2>1. TypeOK'
    BY <1>2 DEF TypeInv, TypeOK, TakeTicket, CallStates, Serving, Selecting
  <2>2. LoginInv'
    BY <1>2 DEF TypeInv, TypeOK, LoginInv, TakeTicket
  <2> QED
    BY <2>1, <2>2 DEF TypeInv
<1>3. CASE AuthTicketEvent
  <2>1. PICK k \in Calls : listen.of = k /\ load' = [load EXCEPT ![k] = "run"]
    BY <1>3, <1>a DEF AuthTicketEvent
  <2>2. listen' = Selecting /\ UNCHANGED <<call, found, from, publishing, published, dropped, crowd, kills, crashes>>
    BY <1>3 DEF AuthTicketEvent, Forwarded
  <2>3. TypeOK'
    BY <2>1, <2>2 DEF TypeInv, TypeOK, LoadStates
  <2>4. LoginInv'
    BY <2>1, <2>2, <1>b DEF TypeInv, TypeOK, LoginInv
  <2> QED
    BY <2>3, <2>4 DEF TypeInv
<1>4. ASSUME NEW k \in Calls, LoadUserData(k) PROVE TypeInv'
  BY <1>4 DEF TypeInv, TypeOK, LoginInv, LoadUserData, Loaded, LoadStates
<1>5. ASSUME NEW k \in Calls, TakeData(k) PROVE TypeInv'
  BY <1>5 DEF TypeInv, TypeOK, LoginInv, TakeData, LoadStates, Serving, Selecting
<1>6. ASSUME NEW j \in Calls, Result(j) PROVE TypeInv'
  <2>1. PICK k \in Calls : listen.of = k /\ from' = [from EXCEPT ![j] = k]
    BY <1>6, <1>a DEF Result
  <2>2. listen' = [at |-> "event", of |-> k]
    BY <1>6, <1>a, <2>1 DEF Result
  <2>3. /\ call[j] = "waiting" /\ call' = [call EXCEPT ![j] = "answered"]
        /\ UNCHANGED <<load, found, publishing, published, dropped, crowd, kills, crashes>>
    BY <1>6 DEF Result, Waiting
  <2>4. TypeOK'
    BY <2>1, <2>2, <2>3 DEF TypeInv, TypeOK, CallStates, Serving
  <2>5. LoginInv'
    BY <2>1, <2>2, <2>3 DEF TypeInv, TypeOK, LoginInv
  <2> QED
    BY <2>4, <2>5 DEF TypeInv
<1>7. CASE NewLoginEvent
  <2>1. PICK k \in Calls : listen.of = k
    BY <1>7, <1>a DEF NewLoginEvent
  <2>2. CASE found[k]
    <3>1. /\ publishing' = publishing \union ({k} \X Sinks) /\ listen' = Selecting
          /\ found' = [found EXCEPT ![k] = FALSE]
          /\ UNCHANGED <<call, load, from, published, dropped, crowd, kills, crashes>>
      BY <1>7, <2>1, <2>2 DEF NewLoginEvent, PublishTo
    <3>2. TypeOK'
      BY <3>1 DEF TypeInv, TypeOK
    <3>3. \A i \in Calls : i # k => Announcing(i)' = Announcing(i)
      BY <3>1
    <3>4. /\ call[k] \in {"waiting", "answered", "done"} /\ load[k] = "none"
      BY <2>1 DEF TypeInv, LoginInv
    <3>5. LoginInv'
      BY <3>1, <3>3, <3>4, <1>b DEF TypeInv, LoginInv
    <3> QED
      BY <3>2, <3>5 DEF TypeInv
  <2>3. CASE ~found[k]
    <3>1. Restart /\ kills' = kills
      BY <1>7, <2>1, <2>3 DEF NewLoginEvent, NilUser
    <3> QED
      BY <3>1, <2>1, RestartStep DEF TypeInv, TypeOK
  <2> QED
    BY <2>2, <2>3
<1>8. ASSUME NEW k \in Calls, NEW s \in Sinks, Publish(k, s) PROVE TypeInv'
  <2>1. /\ <<k, s>> \in publishing /\ publishing' = publishing \ {<<k, s>>}
        /\ dropped' = dropped \/ dropped' = dropped \union {k}
        /\ UNCHANGED <<call, listen, load, found, from, crowd, kills, crashes>>
    BY <1>8 DEF Publish
  <2>2. published' \in SUBSET (Calls \X Sinks)
    BY <1>8 DEF Publish, TypeInv, TypeOK
  <2>3. TypeOK'
    BY <2>1, <2>2 DEF TypeInv, TypeOK
  <2>4. Announcing(k) /\ \A i \in Calls : Announcing(i)' => Announcing(i)
    BY <2>1
  <2>5. Cardinality(dropped) <= Cardinality(dropped') /\ Cardinality(dropped) \in Nat /\ Cardinality(dropped') \in Nat
    <3>1. IsFiniteSet(dropped') /\ dropped \subseteq dropped'
      BY <2>1, <2>3, ConstAssumption, FS_Subset DEF ConstAssumption, TypeOK
    <3> QED
      BY <3>1, FS_Subset, FS_CardinalityType
  <2>6. crashes' <= kills' + Cardinality(dropped')
    BY <2>1, <2>5 DEF TypeInv, TypeOK, LoginInv
  <2>7. LoginInv'
    BY <2>1, <2>4, <2>6 DEF TypeInv, LoginInv
  <2> QED
    BY <2>3, <2>7 DEF TypeInv
<1>9. ASSUME NEW k \in Calls, Return(k) PROVE TypeInv'
  BY <1>9 DEF TypeInv, TypeOK, LoginInv, Return, CallStates
<1>10. CASE Kill
  BY <1>10, RestartStep, ConstAssumption DEF ConstAssumption, Kill, TypeInv, TypeOK
<1>11. CASE UNCHANGED vars
  BY <1>11 DEF TypeInv, TypeOK, LoginInv, vars
<1> QED
  BY <1>1, <1>2, <1>3, <1>4, <1>5, <1>6, <1>7, <1>8, <1>9, <1>10, <1>11 DEF Next

LEMMA TypeInit == Init => TypeInv
<1> SUFFICES ASSUME Init PROVE TypeInv
  OBVIOUS
<1>1. crowd \in BOOLEAN /\ found \in [Calls -> BOOLEAN]
  BY DEF Init
<1>2. kills \in 0..MaxKills /\ crashes \in 0..MaxCrashes
  BY ConstAssumption, FS_CardinalityType DEF ConstAssumption, Init, MaxCrashes
<1>3. TypeOK
  BY <1>1, <1>2 DEF Init, TypeOK, CallStates, LoadStates
<1>4. Cardinality(dropped) = 0
  BY FS_EmptySet DEF Init
<1>5. LoginInv
  BY <1>4, ConstAssumption DEF ConstAssumption, Init, LoginInv, Active, Announcing, Selecting
<1> QED
  BY <1>3, <1>5 DEF TypeInv

LEMMA TypeInvariant == Spec => []TypeInv
BY TypeInit, TypeStep, PTL DEF Spec

\* TypeOK of PlayerLogin: in particular the process ends no more often than
\* it is killed and there are calls, however log-ins come.
THEOREM TypeCorrect == Spec => []TypeOK
<1>1. TypeInv => TypeOK
  BY DEF TypeInv
<1> QED
  BY <1>1, TypeInvariant, PTL

-----------------------------------------------------------------------------
(* The log-in is a request and answer of SharedReply *)

LEMMA WorkType ==
  ASSUME TypeInv, NEW k \in Calls
  PROVE  /\ Work(k) \in {"none", "run", "ready"}
         /\ Work(k) # "none" <=> load[k] # "none" \/ (listen.of = k /\ listen.at \in {"forward", "reply"})
<1>1. load[k] \in LoadStates /\ (listen = Selecting \/ listen \in [at : Serving, of : Calls])
  BY DEF TypeInv, TypeOK
<1>2. CASE listen = Selecting
  BY <1>1, <1>2, ConstAssumption DEF ConstAssumption, Work, Selecting, LoadStates
<1>3. CASE listen \in [at : Serving, of : Calls]
  BY <1>1, <1>3 DEF Work, LoadStates
<1> QED
  BY <1>1, <1>2, <1>3

LEMMA ReplyInit == Init => Reply!Init
<1>1. Init => \A k \in Calls : Work(k) = "none"
  BY DEF Init, Work, Selecting
<1> QED
  BY <1>1 DEF Init, Reply!Init

\* The end of the process ends the calls of SharedReply with it.
LEMMA ReplyCrash ==
  ASSUME TypeInv, TypeInv', Restart
  PROVE  Reply!Crash
<1>1. \A k \in Calls : Work(k)' = "none"
  BY DEF Restart, Left, Work, Selecting
<1>2. crashes < MaxCrashes
  <2>1. crashes' = crashes + 1 /\ crashes' \in 0..MaxCrashes /\ crashes \in 0..MaxCrashes
    BY DEF Restart, TypeInv, TypeOK
  <2>2. MaxCrashes \in Nat
    BY ConstAssumption, FS_CardinalityType DEF ConstAssumption, MaxCrashes
  <2> QED
    BY <2>1, <2>2
<1>3. [k \in Calls |-> Work(k)]' = [k \in Calls |-> "none"]
  BY <1>1
<1> QED
  BY <1>2, <1>3 DEF Restart, Reply!Crash, Reply!Left

LEMMA ReplyStep == TypeInv /\ TypeInv' /\ [Next]_vars => [Reply!Next]_Reply!vars
<1> SUFFICES ASSUME TypeInv, TypeInv', [Next]_vars PROVE [Reply!Next]_Reply!vars
  OBVIOUS
<1> DEFINE work == [k \in Calls |-> Work(k)]
<1>a. ASSUME listen.at # "select"
      PROVE  listen.of \in Calls /\ load[listen.of] = "none" /\ listen = [at |-> listen.at, of |-> listen.of]
  BY <1>a DEF TypeInv, TypeOK, LoginInv, Selecting, Serving
<1>b. \A k \in Calls : listen = Selecting => Work(k) = load[k]
  BY ConstAssumption DEF ConstAssumption, TypeInv, TypeOK, LoadStates, Work, Selecting
<1>c. \A k \in Calls : listen' = Selecting => Work(k)' = load'[k]
  BY ConstAssumption DEF ConstAssumption, TypeInv, TypeOK, LoadStates, Work, Selecting
<1>d. ASSUME \A k \in Calls : Work(k)' = Work(k), UNCHANGED <<call, from, crowd, crashes>>
      PROVE  [Reply!Next]_Reply!vars
  BY <1>d DEF Reply!vars
<1>1. ASSUME NEW k \in Calls, LoginPlayer(k) PROVE [Reply!Next]_Reply!vars
  <2>1. \A i \in Calls : Work(i)' = Work(i)
    BY <1>1 DEF LoginPlayer, Work
  <2>2. Reply!Ask(k)
    BY <1>1, <2>1 DEF LoginPlayer, Reply!Ask
  <2> QED
    BY <2>2 DEF Reply!Next
<1>2. ASSUME NEW k \in Calls, TakeTicket(k) PROVE [Reply!Next]_Reply!vars
  <2>1. /\ listen = Selecting /\ listen' = [at |-> "forward", of |-> k] /\ UNCHANGED load
        /\ call[k] = "asking" /\ load[k] = "none"
    BY <1>2 DEF TakeTicket, TypeInv, TypeOK, LoginInv, Active
  <2>2. \A i \in Calls : Work(i)' = IF i = k THEN "run" ELSE Work(i)
    BY <2>1, <1>b DEF Work
  <2>3. work' = [work EXCEPT ![k] = "run"]
    BY <2>2
  <2>4. Reply!Take(k)
    BY <1>2, <2>3 DEF TakeTicket, Waiting, Reply!Take, Reply!Waiting
  <2> QED
    BY <2>4 DEF Reply!Next
<1>3. CASE AuthTicketEvent
  <2>1. PICK k \in Calls : listen = [at |-> "forward", of |-> k] /\ load' = [load EXCEPT ![k] = "run"]
    BY <1>3, <1>a DEF AuthTicketEvent
  <2>2. listen' = Selecting /\ UNCHANGED <<call, from, crowd, crashes>>
    BY <1>3 DEF AuthTicketEvent, Forwarded
  <2>3. \A i \in Calls : Work(i)' = Work(i)
    BY <1>c, <2>1, <2>2 DEF Work, TypeInv, TypeOK, LoginInv
  <2> QED
    BY <1>d, <2>2, <2>3
<1>4. ASSUME NEW k \in Calls, LoadUserData(k) PROVE [Reply!Next]_Reply!vars
  <2>1. /\ load[k] = "run" /\ load' = [load EXCEPT ![k] = "ready"]
        /\ UNCHANGED <<call, listen, from, crowd, crashes>>
    BY <1>4 DEF LoadUserData, Loaded
  <2>2. Work(k) = "run" /\ \A i \in Calls : Work(i)' = IF i = k THEN "ready" ELSE Work(i)
    BY <2>1 DEF Work, TypeInv, TypeOK
  <2>3. work' = [work EXCEPT ![k] = "ready"]
    BY <2>2
  <2>4. Reply!Compute(k)
    BY <2>1, <2>2, <2>3 DEF Reply!Compute, Reply!Computed
  <2> QED
    BY <2>4 DEF Reply!Next
<1>5. ASSUME NEW k \in Calls, TakeData(k) PROVE [Reply!Next]_Reply!vars
  <2>1. /\ listen = Selecting /\ load[k] = "ready" /\ load' = [load EXCEPT ![k] = "none"]
        /\ listen' = [at |-> "reply", of |-> k] /\ UNCHANGED <<call, from, crowd, crashes>>
    BY <1>5 DEF TakeData
  <2>2. \A i \in Calls : Work(i)' = Work(i)
    BY <1>b, <2>1 DEF Work, TypeInv, TypeOK, LoadStates
  <2> QED
    BY <1>d, <2>1, <2>2
<1>6. ASSUME NEW j \in Calls, Result(j) PROVE [Reply!Next]_Reply!vars
  <2>1. PICK k \in Calls : listen = [at |-> "reply", of |-> k] /\ load[k] = "none"
    BY <1>6, <1>a DEF Result
  <2>2. /\ call[j] = "waiting" /\ call' = [call EXCEPT ![j] = "answered"]
        /\ from' = [from EXCEPT ![j] = k] /\ listen' = [at |-> "event", of |-> k]
        /\ UNCHANGED <<load, crowd, crashes>>
    BY <1>6, <2>1 DEF Result, Waiting
  <2>3. Work(k) = "ready" /\ \A i \in Calls : Work(i)' = IF i = k THEN "none" ELSE Work(i)
    BY <2>1, <2>2 DEF Work, TypeInv, TypeOK
  <2>4. work' = [work EXCEPT ![k] = "none"]
    BY <2>3
  <2>5. Reply!Reply(k, j)
    BY <2>2, <2>3, <2>4 DEF Reply!Reply, Reply!Receiver, Reply!Waiting, Reply!Replied
  <2> QED
    BY <2>5 DEF Reply!Next
<1>7. CASE NewLoginEvent
  <2>1. PICK k \in Calls : listen = [at |-> "event", of |-> k]
    BY <1>7, <1>a DEF NewLoginEvent
  <2>2. CASE found[k]
    <3>1. listen' = Selecting /\ UNCHANGED <<load, call, from, crowd, crashes>>
      BY <1>7, <2>1, <2>2 DEF NewLoginEvent
    <3>2. \A i \in Calls : Work(i)' = Work(i)
      BY <1>c, <2>1, <3>1 DEF Work, TypeInv, TypeOK, LoadStates
    <3> QED
      BY <1>d, <3>1, <3>2
  <2>3. CASE ~found[k]
    <3>1. Restart
      BY <1>7, <2>1, <2>3 DEF NewLoginEvent, NilUser
    <3> QED
      BY <3>1, ReplyCrash DEF Reply!Next
  <2> QED
    BY <2>2, <2>3
<1>8. ASSUME NEW k \in Calls, NEW s \in Sinks, Publish(k, s) PROVE [Reply!Next]_Reply!vars
  BY <1>8, <1>d DEF Publish, Work
<1>9. ASSUME NEW k \in Calls, Return(k) PROVE [Reply!Next]_Reply!vars
  <2>1. \A i \in Calls : Work(i)' = Work(i)
    BY <1>9 DEF Return, Work
  <2>2. Reply!Return(k)
    BY <1>9, <2>1 DEF Return, Reply!Return
  <2> QED
    BY <2>2 DEF Reply!Next
<1>10. CASE Kill
  BY <1>10, ReplyCrash DEF Kill, Reply!Next
<1>11. CASE UNCHANGED vars
  BY <1>11, <1>d DEF vars, Work
<1> QED
  BY <1>1, <1>2, <1>3, <1>4, <1>5, <1>6, <1>7, <1>8, <1>9, <1>10, <1>11 DEF Next

\* Every log-in of the player service is a request and answer of SharedReply:
\* the ticket's way through Listen, Database.Listen and the goroutine adds no
\* outcome and loses none, except with the process.
THEOREM LoginImplementsReply == Spec => ImplementsSharedReply
BY ReplyInit, ReplyStep, TypeInvariant, PTL DEF Spec, ImplementsSharedReply, Reply!Spec

-----------------------------------------------------------------------------
(* What SharedReply promises *)

\* The log-in meets the specification SharedReplyProofs proves about, so that
\* what is proved there holds of it.
Answers == INSTANCE SharedReplyProofs WITH work <- [k \in Calls |-> Work(k)]

LEMMA LoginAnswers == Spec => Answers!Spec
<1>1. Init => Answers!Init
  BY ReplyInit DEF Reply!Init, Answers!Init
<1>2. TypeInv /\ TypeInv' /\ [Next]_vars => [Answers!Next]_Answers!vars
  BY ReplyStep
     DEF Reply!Next, Reply!vars, Reply!Ask, Reply!Take, Reply!Compute, Reply!Reply, Reply!Return,
         Reply!Crash, Reply!Left, Reply!Computed, Reply!Receiver, Reply!Replied, Reply!Waiting,
         Answers!Next, Answers!vars, Answers!Ask, Answers!Take, Answers!Compute, Answers!Reply, Answers!Return,
         Answers!Crash, Answers!Left, Answers!Computed, Answers!Receiver, Answers!Replied, Answers!Waiting
<1> QED
  BY <1>1, <1>2, TypeInvariant, PTL DEF Spec, Answers!Spec

LEMMA AnswersAssumption == Answers!ConstAssumption
<1>1. Answers!IsFiniteSet(Calls)
  BY ConstAssumption DEF ConstAssumption, Answers!IsFiniteSet, IsFiniteSet
<1>2. MaxCrashes \in Nat
  BY ConstAssumption, FS_CardinalityType DEF ConstAssumption, MaxCrashes
<1> QED
  BY <1>1, <1>2, ConstAssumption DEF ConstAssumption, Answers!ConstAssumption

\* As many handlers wait on login as outcomes are on their way, whatever
\* log-ins come at the same time and however often the process ends: Listen
\* never waits for ever to hand one over.
THEOREM AlwaysBalanced == Spec => []Balanced
<1>1. Answers!Waiting = Waiting
  BY DEF Answers!Waiting, Waiting
<1>2. TypeInv => Answers!Working = Outstanding
  BY WorkType DEF Answers!Working, Outstanding
<1>3. \A S : Answers!Cardinality(S) = Cardinality(S)
  BY DEF Answers!Cardinality, Cardinality, Answers!IsFiniteSet, IsFiniteSet
<1>4. TypeInv /\ Answers!Balanced => Balanced
  BY <1>1, <1>2, <1>3 DEF Answers!Balanced, Balanced
<1> QED
  BY <1>4, LoginAnswers, TypeInvariant, AnswersAssumption, Answers!AlwaysBalanced, PTL

\* While log-ins come one at a time each gets the outcome of its own ticket,
\* through any number of restarts.
THEOREM AloneIsSafe == Spec => []OwnOutcomeAlone
<1>1. Answers!OwnAnswerAlone => OwnOutcomeAlone
  BY DEF Answers!OwnAnswerAlone, OwnOutcomeAlone
<1> QED
  BY <1>1, LoginAnswers, AnswersAssumption, Answers!AloneIsSafe, PTL
==============================================================================
