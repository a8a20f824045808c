-------------------------- MODULE SharedReplyProofs --------------------------
(***************************************************************************)
(* Proofs about SharedReply, for any finite set of calls and any number of *)
(* restarts.                                                               *)
(***************************************************************************)
EXTENDS SharedReply, FiniteSetTheorems, TLAPS

\* Every variable keeps its type, and no goroutine outlives its process.
LEMMA TypeStep == TypeOK /\ [Next]_vars => TypeOK'
<1> SUFFICES ASSUME TypeOK, [Next]_vars PROVE TypeOK'
  OBVIOUS
<1>1. ASSUME NEW k \in Calls, Ask(k) PROVE TypeOK'
  BY <1>1 DEF TypeOK, Ask, CallStates
<1>2. ASSUME NEW k \in Calls, Take(k) PROVE TypeOK'
  <2>1. crowd' \in BOOLEAN
    BY <1>2 DEF TypeOK, Take
  <2> QED
    BY <1>2, <2>1 DEF TypeOK, Take, CallStates, WorkStates
<1>3. ASSUME NEW k \in Calls, Compute(k) PROVE TypeOK'
  BY <1>3 DEF TypeOK, Compute, Computed, WorkStates
<1>4. ASSUME NEW k \in Calls, NEW j \in Calls, Reply(k, j) PROVE TypeOK'
  BY <1>4 DEF TypeOK, Reply, Receiver, Replied, Waiting, CallStates, WorkStates
<1>5. ASSUME NEW k \in Calls, Return(k) PROVE TypeOK'
  BY <1>5 DEF TypeOK, Return, CallStates
<1>6. CASE Crash
  BY <1>6, ConstAssumption DEF ConstAssumption, TypeOK, Crash, Left, CallStates, WorkStates
<1>7. CASE UNCHANGED vars
  BY <1>7 DEF TypeOK, vars
<1> QED
  BY <1>1, <1>2, <1>3, <1>4, <1>5, <1>6, <1>7 DEF Next

\* TypeOK of SharedReply: in particular a goroutine is there only for a
\* request that was taken since the process started.
THEOREM TypeCorrect == Spec => []TypeOK
<1>1. Init => TypeOK
  <2> SUFFICES ASSUME Init PROVE TypeOK
    OBVIOUS
  <2>1. crowd \in BOOLEAN
    BY DEF Init
  <2> QED
    BY <2>1, ConstAssumption DEF ConstAssumption, Init, TypeOK, CallStates, WorkStates
<1> QED
  BY <1>1, TypeStep, PTL DEF Spec

-----------------------------------------------------------------------------
(* As many wait as are going to answer *)

LEMMA FiniteCalls ==
  ASSUME TypeOK
  PROVE  IsFiniteSet(Waiting) /\ IsFiniteSet(Working)
BY ConstAssumption, FS_Subset DEF ConstAssumption, Waiting, Working

LEMMA BalancedStep == TypeOK /\ Balanced /\ [Next]_vars => Balanced'
<1> SUFFICES ASSUME TypeOK, Balanced, [Next]_vars PROVE Balanced'
  OBVIOUS
<1>1. CASE Waiting' = Waiting /\ Working' = Working
  BY <1>1 DEF Balanced
<1>2. ASSUME NEW k \in Calls, Ask(k) PROVE Balanced'
  <2>1. Waiting' = Waiting /\ Working' = Working
    BY <1>2 DEF Ask, Waiting, Working, TypeOK
  <2> QED
    BY <1>1, <2>1
<1>3. ASSUME NEW k \in Calls, Take(k) PROVE Balanced'
  <2>1. work[k] = "none"
    BY <1>3 DEF Take, TypeOK
  <2>2. Waiting' = Waiting \union {k} /\ k \notin Waiting
    BY <1>3 DEF Take, Waiting, TypeOK
  <2>3. Working' = Working \union {k} /\ k \notin Working
    BY <1>3, <2>1 DEF Take, Working, TypeOK
  <2>4. /\ Cardinality(Waiting') = Cardinality(Waiting) + 1
        /\ Cardinality(Working') = Cardinality(Working) + 1
    BY <2>2, <2>3, FiniteCalls, FS_AddElement
  <2> QED
    BY <2>4 DEF Balanced
<1>4. ASSUME NEW k \in Calls, Compute(k) PROVE Balanced'
  <2>1. Waiting' = Waiting /\ Working' = Working
    BY <1>4 DEF Compute, Computed, Waiting, Working, TypeOK
  <2> QED
    BY <1>1, <2>1
<1>5. ASSUME NEW k \in Calls, NEW j \in Calls, Reply(k, j) PROVE Balanced'
  <2>1. Waiting' = Waiting \ {j} /\ j \in Waiting
    BY <1>5 DEF Reply, Receiver, Waiting, TypeOK
  <2>2. Working' = Working \ {k} /\ k \in Working
    BY <1>5 DEF Reply, Replied, Working, TypeOK
  <2>3. /\ Cardinality(Waiting') = Cardinality(Waiting) - 1
        /\ Cardinality(Working') = Cardinality(Working) - 1
    BY <2>1, <2>2, FiniteCalls, FS_RemoveElement
  <2> QED
    BY <2>3 DEF Balanced
<1>6. ASSUME NEW k \in Calls, Return(k) PROVE Balanced'
  <2>1. Waiting' = Waiting /\ Working' = Working
    BY <1>6 DEF Return, Waiting, Working, TypeOK
  <2> QED
    BY <1>1, <2>1
<1>7. CASE Crash
  <2>1. Waiting' = {} /\ Working' = {}
    BY <1>7 DEF Crash, Left, Waiting, Working, TypeOK
  <2> QED
    BY <2>1 DEF Balanced
<1>8. CASE UNCHANGED vars
  BY <1>8 DEF Balanced, Waiting, Working, vars
<1> QED
  BY <1>2, <1>3, <1>4, <1>5, <1>6, <1>7, <1>8 DEF Next

\* No goroutine is left with an answer nobody takes, and no caller waits for
\* an answer nobody is going to give, whatever pairs of calls are mixed up.
THEOREM AlwaysBalanced == Spec => []Balanced
<1>1. Init => Balanced
  <2>1. Init => Waiting = {} /\ Working = {}
    BY DEF Init, Waiting, Working
  <2> QED
    BY <2>1 DEF Balanced
<1> QED
  BY <1>1, BalancedStep, TypeCorrect, PTL DEF Spec

-----------------------------------------------------------------------------
(* Whose answer it is *)

\* An answer that was given has no goroutine any more, and its request is not
\* taken again; while no two calls wait together, the goroutines are those of
\* the call that waits.
AnswerInv ==
  /\ \A j, k \in Calls : from[j] = k => work[k] = "none" /\ call[k] \notin {"new", "asking"}
  /\ AnsweredOnce
  /\ ~crowd =>
       /\ \A k \in Calls : work[k] # "none" => call[k] = "waiting"
       /\ \A j, k \in Waiting : j = k
  /\ OwnAnswerAlone

LEMMA AnswerStep == TypeOK /\ AnswerInv /\ [Next]_vars => AnswerInv'
<1> SUFFICES ASSUME TypeOK, AnswerInv, [Next]_vars PROVE AnswerInv'
  OBVIOUS
<1> USE DEF AnswerInv, AnsweredOnce, OwnAnswerAlone, Waiting
<1>1. ASSUME NEW k \in Calls, Ask(k) PROVE AnswerInv'
  BY <1>1 DEF TypeOK, Ask
<1>2. ASSUME NEW k \in Calls, Take(k) PROVE AnswerInv'
  BY <1>2 DEF TypeOK, Take
<1>3. ASSUME NEW k \in Calls, Compute(k) PROVE AnswerInv'
  BY <1>3 DEF TypeOK, Compute, Computed
<1>4. ASSUME NEW k \in Calls, NEW j \in Calls, Reply(k, j) PROVE AnswerInv'
  <2>1. /\ call' = [call EXCEPT ![j] = "answered"]
        /\ from' = [from EXCEPT ![j] = k]
        /\ work' = [work EXCEPT ![k] = "none"]
        /\ crowd' = crowd
        /\ work[k] # "none" /\ call[j] = "waiting"
    BY <1>4 DEF Reply, Receiver, Replied
  <2>2. call[k] \in {"waiting", "answered", "done"} /\ \A i \in Calls : from[i] # k
    BY <2>1 DEF TypeOK
  <2>3. ~crowd => j = k
    BY <2>1
  <2> QED
    BY <2>1, <2>2, <2>3 DEF TypeOK
<1>5. ASSUME NEW k \in Calls, Return(k) PROVE AnswerInv'
  BY <1>5 DEF TypeOK, Return
<1>6. CASE Crash
  BY <1>6 DEF TypeOK, Crash, Left
<1>7. CASE UNCHANGED vars
  BY <1>7 DEF vars
<1> QED
  BY <1>1, <1>2, <1>3, <1>4, <1>5, <1>6, <1>7 DEF Next

LEMMA AnswerInvariant == Spec => []AnswerInv
<1>1. Init => AnswerInv
  BY ConstAssumption DEF ConstAssumption, Init, AnswerInv, AnsweredOnce, OwnAnswerAlone, Waiting
<1> QED
  BY <1>1, AnswerStep, TypeCorrect, PTL DEF Spec

\* No answer is given to two calls, also when callers are mixed up.
THEOREM AnswersGivenOnce == Spec => []AnsweredOnce
<1>1. AnswerInv => AnsweredOnce
  BY DEF AnswerInv
<1> QED
  BY <1>1, AnswerInvariant, PTL

\* While no two calls wait together, every call gets its own answer, through
\* any number of restarts.
THEOREM AloneIsSafe == Spec => []OwnAnswerAlone
<1>1. AnswerInv => OwnAnswerAlone
  BY DEF AnswerInv
<1> QED
  BY <1>1, AnswerInvariant, PTL
==============================================================================
