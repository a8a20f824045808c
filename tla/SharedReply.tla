----------------------------- MODULE SharedReply -----------------------------
(***************************************************************************)
(* Request and answer over one pair of unbuffered channels, the way the    *)
(* services do it: a caller sends its request on one channel and then      *)
(* receives from the other; a loop receives requests and starts a          *)
(* goroutine for each, which computes the answer and sends it on the       *)
(* second channel.  Nothing ties an answer to the call it is for.          *)
(*                                                                         *)
(* The pairs of subscription/data.go (Listen, with subscription/rpc.go as  *)
(* caller), of the client api/subscription/api.go and of Database.effects  *)
(* in player/data.go have this form; each pair is one instance.            *)
(* PlayerLogin, where the answer takes a longer way, implements it.        *)
(*                                                                         *)
(* A definition Name_Variant that precedes Name is a bug somebody could    *)
(* write in its place; the model uses Name alone.                          *)
(***************************************************************************)
EXTENDS Naturals, FiniteSets

CONSTANTS
  Calls,      \* the calls made: each occurs once
  NoCall,     \* no call
  MaxCrashes  \* bound: times the process ends and is restarted

ASSUME ConstAssumption ==
  /\ IsFiniteSet(Calls)
  /\ NoCall \notin Calls
  /\ MaxCrashes \in Nat

VARIABLES
  call,     \* call[k]: where the goroutine of call k is
  work,     \* work[k]: the goroutine started for the request of call k
  from,     \* from[k]: the call whose answer k was given
  crowd,    \* history: have two calls waited at the same time?
  crashes   \* how many times the process has ended

vars == <<call, work, from, crowd, crashes>>

CallStates == {"new", "asking", "waiting", "answered", "done", "lost"}
WorkStates == {"none", "run", "ready"}

\* A goroutine is there only for a request that was taken since the start.
TypeOK ==
  /\ call \in [Calls -> CallStates]
  /\ work \in [Calls -> WorkStates]
  /\ \A k \in Calls : work[k] # "none" => call[k] \in {"waiting", "answered", "done"}
  /\ from \in [Calls -> Calls \union {NoCall}]
  /\ crowd \in BOOLEAN
  /\ crashes \in 0..MaxCrashes

Init ==
  /\ call = [k \in Calls |-> "new"]
  /\ work = [k \in Calls |-> "none"]
  /\ from = [k \in Calls |-> NoCall]
  /\ crowd = FALSE
  /\ crashes = 0

Waiting == {k \in Calls : call[k] = "waiting"}
Working == {k \in Calls : work[k] # "none"}

\* A gRPC request comes, or a handler runs: the caller is about to send.
Ask(k) ==
  /\ call[k] = "new"
  /\ call' = [call EXCEPT ![k] = "asking"]
  /\ UNCHANGED <<work, from, crowd, crashes>>

\* The request meets the loop, which starts a goroutine for it.
Take(k) ==
  /\ call[k] = "asking"
  /\ call' = [call EXCEPT ![k] = "waiting"]
  /\ work' = [work EXCEPT ![k] = "run"]
  /\ crowd' = (crowd \/ Waiting # {})
  /\ UNCHANGED <<from, crashes>>

\* What becomes of the goroutine once its query has ended, in whatever way.
Computed_Exits == {"ready", "none"}
Computed == {"ready"}

\* The goroutine has its answer: data, or nil for an error or a timeout.
Compute(k) ==
  /\ work[k] = "run"
  /\ \E s \in Computed : work' = [work EXCEPT ![k] = s]
  /\ UNCHANGED <<call, from, crowd, crashes>>

\* Who may receive the answer of call k?  Any caller that waits.
Receiver_AnyCaller(k) == {j \in Calls : call[j] \in {"waiting", "answered"}}
Receiver(k) == Waiting

\* The goroutine once its answer has been received.
Replied_Again == "ready"
Replied == "none"

\* The answer of call k is received by a caller that waits.
Reply(k, j) ==
  /\ work[k] = "ready"
  /\ j \in Receiver(k)
  /\ work' = [work EXCEPT ![k] = Replied]
  /\ call' = [call EXCEPT ![j] = "answered"]
  /\ from' = [from EXCEPT ![j] = k]
  /\ UNCHANGED <<crowd, crashes>>

\* The caller returns the answer to its client.
Return(k) ==
  /\ call[k] = "answered"
  /\ call' = [call EXCEPT ![k] = "done"]
  /\ UNCHANGED <<work, from, crowd, crashes>>

\* The goroutines the end of the process leaves.
Left_Requeued == work
Left == [k \in Calls |-> "none"]

\* The process ends: its calls fail, the goroutines are gone.
Crash ==
  /\ crashes < MaxCrashes
  /\ crashes' = crashes + 1
  /\ call' = [k \in Calls |->
                IF call[k] \in {"asking", "waiting", "answered"} THEN "lost" ELSE call[k]]
  /\ work' = Left
  /\ UNCHANGED <<from, crowd>>

Next ==
  \/ \E k \in Calls : Ask(k) \/ Take(k) \/ Compute(k) \/ Return(k)
  \/ \E k, j \in Calls : Reply(k, j)
  \/ Crash

Spec == Init /\ [][Next]_vars

\* Every goroutine that can take a step takes one.
Fairness ==
  /\ \A k \in Calls : WF_vars(Take(k)) /\ WF_vars(Compute(k)) /\ WF_vars(Return(k))
  /\ \A k \in Calls : WF_vars(\E j \in Calls : Reply(k, j))

FairSpec == Spec /\ Fairness

-----------------------------------------------------------------------------

\* There are as many callers that wait as goroutines that will answer: no
\* goroutine is left with an answer nobody takes, and no caller without one.
Balanced == Cardinality(Waiting) = Cardinality(Working)

\* An answer is given to one call only.
AnsweredOnce ==
  \A j, k \in Calls : (from[j] = from[k] /\ from[j] # NoCall) => j = k

\* As long as the calls come one at a time, each gets the answer of its own
\* request.
OwnAnswerAlone == ~crowd => \A k \in Calls : from[k] \in {k, NoCall}

\* A call that waits gets an answer, or fails with the process.
EveryCallEnds == \A k \in Calls : (call[k] = "waiting") ~> (call[k] \in {"done", "lost"})
==============================================================================
