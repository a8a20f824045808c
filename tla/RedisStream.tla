----------------------------- MODULE RedisStream -----------------------------
(***************************************************************************)
(* One Redis stream read by one consumer group: api/events/redis.go.       *)
(*                                                                         *)
(* Several processes of a service share the group.  Each runs two          *)
(* goroutines, Listen (XREADGROUP of new entries) and RecoverInterval      *)
(* (XPENDING, then XCLAIM, of entries pending too long); both hand what    *)
(* they got to handleMessages, which calls the handlers one by one and     *)
(* acknowledges the whole batch at the end.  Processes crash and are       *)
(* restarted, replies of Redis get lost, and the stream is trimmed.        *)
(*                                                                         *)
(* Entries are numbered in the order of their XADD, so the stream is the   *)
(* interval of numbers that trimming has left.  The owner of a pending     *)
(* entry is not kept: no command the code issues depends on it.            *)
(*                                                                         *)
(* A definition Name_Variant that precedes Name is a bug somebody could    *)
(* write in its place; the model uses Name alone.                          *)
(***************************************************************************)
EXTENDS Naturals, FiniteSets

CONSTANTS
  Procs,         \* the processes of the service (one consumer each)
  NHandlers,     \* handlers a process subscribes, in the order 1, 2, ...
  MaxEvents,     \* bound: entries ever published
  MaxLen,        \* length XADD trims the stream to (2000 in the code)
  RecoverCount,  \* entries one XPENDING reports (200 in the code)
  MaxFaults,     \* bound: crashes, lost replies and failed commands
  SubscribeFirst \* are the handlers subscribed before Listen is started?
                 \* TRUE for player-events (RegisterLoginHandlers comes
                 \* before PlayerClient.Listen), FALSE for networking-events
                 \* (SetRedisSubscriber starts Listen itself)

ASSUME ConstAssumption ==
  /\ NHandlers \in Nat
  /\ MaxEvents \in Nat
  /\ MaxLen \in Nat \ {0}
  /\ RecoverCount \in Nat \ {0}
  /\ MaxFaults \in Nat
  /\ SubscribeFirst \in BOOLEAN

Handlers == 1..NHandlers
Events == 1..MaxEvents
Threads == Procs \X {"listen", "recover"}
Phases == {"idle", "claim", "work"}

VARIABLES
  last,      \* entries published so far: the newest one is number last
  relevant,  \* the entries that parse and whose type has handlers
  group,     \* has the consumer group been created?
  cursor,    \* the newest entry the group has delivered
  pel,       \* the pending entries list of the group
  idle,      \* pending entries whose idle time exceeds the threshold
  up,        \* up[p]: process p runs
  subs,      \* subs[p]: the handlers p has subscribed since it started
  phase,     \* phase[t]: what goroutine t is doing
  batch,     \* batch[t]: the entries t got from XPENDING or will acknowledge
  todo,      \* todo[t]: the entries of the batch not handled yet
  calls,     \* calls[t]: handlers still to call for the entry at hand
  faults,    \* how many faults have happened
  born,      \* history: the end of the stream when the group was created
  acked,     \* history: the acknowledged entries
  lost,      \* history: entries the trimming took from the group
  slow,      \* history: entries that have been idle beyond the threshold
  called,    \* history: <<e, h>>: handler h has returned, or panicked, on e
  missed     \* history: <<e, h>>: e was dispatched by a process without h

redis == <<group, cursor, pel, idle>>
stream == <<last, relevant>>
local == <<phase, batch, todo, calls>>
history == <<born, acked, lost, slow, called, missed>>
vars == <<stream, redis, up, subs, local, faults, history>>

TypeOK ==
  /\ last \in 0..MaxEvents
  /\ relevant \in SUBSET Events
  /\ group \in BOOLEAN
  /\ cursor \in 0..MaxEvents
  /\ pel \in SUBSET Events
  /\ idle \in SUBSET Events
  /\ up \in [Procs -> BOOLEAN]
  /\ subs \in [Procs -> SUBSET Handlers]
  /\ phase \in [Threads -> Phases]
  /\ batch \in [Threads -> SUBSET Events]
  /\ todo \in [Threads -> SUBSET Events]
  /\ calls \in [Threads -> SUBSET Handlers]
  /\ faults \in 0..MaxFaults
  /\ born \in 0..MaxEvents
  /\ acked \in SUBSET Events
  /\ lost \in SUBSET Events
  /\ slow \in SUBSET Events
  /\ called \in SUBSET (Events \X Handlers)
  /\ missed \in SUBSET (Events \X Handlers)

Init ==
  /\ last = 0
  /\ relevant = {}
  /\ group = FALSE
  /\ cursor = 0
  /\ pel = {}
  /\ idle = {}
  /\ up = [p \in Procs |-> FALSE]
  /\ subs = [p \in Procs |-> {}]
  /\ phase = [t \in Threads |-> "idle"]
  /\ batch = [t \in Threads |-> {}]
  /\ todo = [t \in Threads |-> {}]
  /\ calls = [t \in Threads |-> {}]
  /\ faults = 0
  /\ born = 0
  /\ acked = {}
  /\ lost = {}
  /\ slow = {}
  /\ called = {}
  /\ missed = {}

\* The entries XADD has trimmed away.
Trimmed(e) == e + MaxLen <= last

\* The entries XREADGROUP ">" has not delivered yet.
New == {e \in Events : cursor < e /\ e <= last}

Fault ==
  /\ faults < MaxFaults
  /\ faults' = faults + 1

\* The goroutine's loop starts over.
Loop(t) ==
  /\ phase' = [phase EXCEPT ![t] = "idle"]
  /\ batch' = [batch EXCEPT ![t] = {}]
  /\ todo' = [todo EXCEPT ![t] = {}]
  /\ calls' = [calls EXCEPT ![t] = {}]

\* The goroutine enters handleMessages with the entries E.
Enter(t, E) ==
  /\ phase' = [phase EXCEPT ![t] = "work"]
  /\ batch' = [batch EXCEPT ![t] = E]
  /\ todo' = [todo EXCEPT ![t] = E]
  /\ calls' = [calls EXCEPT ![t] = {}]

-----------------------------------------------------------------------------
(* The publisher and the passing of time *)

\* Publish: XADD with MAXLEN.  The entry may be malformed or of a type nobody
\* subscribes to: then it is not relevant.  The trimming shows in Trimmed.
Publish ==
  /\ last < MaxEvents
  /\ last' = last + 1
  /\ \/ relevant' = relevant
     \/ relevant' = relevant \union {last + 1}
  /\ UNCHANGED <<redis, up, subs, local, faults, history>>

\* A pending entry's idle time passes the threshold of Recover.
Age(e) ==
  /\ e \in pel \ idle
  /\ idle' = idle \union {e}
  /\ slow' = slow \union {e}
  /\ UNCHANGED <<stream, group, cursor, pel, up, subs, local, faults>>
  /\ UNCHANGED <<born, acked, lost, called, missed>>

-----------------------------------------------------------------------------
(* Processes *)

\* "$", the position a group is created at.
GroupStart_PastEnd == last + 1
GroupStart == last

\* NewRedisSubscriber: the group is created at "$", the end of the stream, by
\* the first process; the result of the command is not looked at, so the
\* process runs on when the command has failed.
Start(p) ==
  /\ ~up[p]
  /\ up' = [up EXCEPT ![p] = TRUE]
  /\ \/ /\ group' = TRUE
        /\ cursor' = IF group THEN cursor ELSE GroupStart
        /\ born' = IF group THEN born ELSE last
        /\ UNCHANGED faults
     \/ /\ ~group
        /\ Fault
        /\ UNCHANGED <<group, cursor, born>>
  /\ UNCHANGED <<stream, pel, idle, subs, local>>
  /\ UNCHANGED <<acked, lost, slow, called, missed>>

\* Subscribe: one handler after the other.
Subscribe(p, h) ==
  /\ up[p]
  /\ subs[p] = 1..(h - 1)
  /\ subs' = [subs EXCEPT ![p] = @ \union {h}]
  /\ UNCHANGED <<stream, redis, up, local, faults, history>>

\* The process dies: what its goroutines held is gone.
Crash(p) ==
  /\ up[p]
  /\ Fault
  /\ up' = [up EXCEPT ![p] = FALSE]
  /\ subs' = [subs EXCEPT ![p] = {}]
  /\ phase' = [t \in Threads |-> IF t[1] = p THEN "idle" ELSE phase[t]]
  /\ batch' = [t \in Threads |-> IF t[1] = p THEN {} ELSE batch[t]]
  /\ todo' = [t \in Threads |-> IF t[1] = p THEN {} ELSE todo[t]]
  /\ calls' = [t \in Threads |-> IF t[1] = p THEN {} ELSE calls[t]]
  /\ UNCHANGED <<stream, redis, history>>

\* Listen and the RecoverInterval it starts are running.
Listening(p) ==
  /\ up[p]
  /\ SubscribeFirst => subs[p] = Handlers

-----------------------------------------------------------------------------
(* Listen: new entries *)

\* The entries delivered are pending until they are acknowledged.
MakePending_NoAck(E) == pel' = pel
MakePending(E) == pel' = pel \union E

\* The reply of XREADGROUP is an error: Listen continues with its loop.
ReadError_Return(t) ==
  /\ phase' = [phase EXCEPT ![t] = "claim"]
  /\ UNCHANGED <<batch, todo, calls>>
ReadError(t) == UNCHANGED local

\* XREADGROUP ">" delivers every entry after the cursor that trimming has
\* left.  When the reply is lost Listen goes round its loop without them.
XReadGroup(p) ==
  LET t == <<p, "listen">>
      E == {e \in New : ~Trimmed(e)}
  IN
  /\ Listening(p)
  /\ group
  /\ phase[t] = "idle"
  /\ New # {}
  /\ cursor' = last
  /\ MakePending(E)
  /\ lost' = lost \union (New \ E)
  /\ \/ Enter(t, E) /\ UNCHANGED faults
     \/ Fault /\ ReadError(t)
  /\ UNCHANGED <<stream, group, idle, up, subs, born, acked, slow, called, missed>>

-----------------------------------------------------------------------------
(* Recover: entries that have been pending too long *)

\* Of the reported entries, those whose idle time exceeds the threshold.
LongIdle_Any(E) == E
LongIdle_Below(E) == E \ idle
LongIdle(E) == E \intersect idle

\* XPENDING reports the oldest RecoverCount pending entries; Recover keeps
\* those that have been idle beyond the threshold, if any.
XPending(p) ==
  LET t == <<p, "recover">>
      reported == {e \in pel : Cardinality({f \in pel : f < e}) < RecoverCount}
  IN
  /\ Listening(p)
  /\ phase[t] = "idle"
  /\ LongIdle(reported) # {}
  /\ phase' = [phase EXCEPT ![t] = "claim"]
  /\ batch' = [batch EXCEPT ![t] = LongIdle(reported)]
  /\ UNCHANGED <<stream, redis, up, subs, todo, calls, faults, history>>

\* XCLAIM, without MINIDLE, of what XPENDING reported: entries acknowledged
\* since are skipped, trimmed ones are dropped from the list, all the others
\* are delivered again, whoever has got them meanwhile.
XClaim(p) ==
  LET t == <<p, "recover">>
      E == {e \in batch[t] \intersect pel : ~Trimmed(e)}
      G == {e \in batch[t] \intersect pel : Trimmed(e)}
  IN
  /\ phase[t] = "claim"
  /\ pel' = pel \ G
  /\ idle' = idle \ (E \union G)
  /\ lost' = lost \union G
  /\ \/ Enter(t, E) /\ UNCHANGED faults
     \/ Fault /\ Loop(t)
  /\ UNCHANGED <<stream, group, cursor, up, subs, born, acked, slow, called, missed>>

-----------------------------------------------------------------------------
(* handleMessages *)

\* The entries of a batch come, and are handled, in the order of the stream.
IsNext(t, e) ==
  /\ e \in todo[t]
  /\ \A f \in todo[t] : e <= f

\* The next entry: its handlers are copied under the lock.  A malformed
\* entry, and one nobody handles, is passed over.
Dispatch(t, e) ==
  /\ phase[t] = "work"
  /\ calls[t] = {}
  /\ IsNext(t, e)
  /\ IF e \in relevant /\ subs[t[1]] # {}
     THEN /\ calls' = [calls EXCEPT ![t] = subs[t[1]]]
          /\ UNCHANGED todo
     ELSE /\ todo' = [todo EXCEPT ![t] = @ \ {e}]
          /\ UNCHANGED calls
  /\ missed' = IF e \in relevant
               THEN missed \union ({e} \X (Handlers \ subs[t[1]]))
               ELSE missed
  /\ UNCHANGED <<stream, redis, up, subs, phase, batch, faults>>
  /\ UNCHANGED <<born, acked, lost, slow, called>>

\* The handlers that remain once h has returned.
Rest_None(t, h) == {}
Rest(t, h) == calls[t] \ {h}

\* safeCall of the next handler: it returns, or it panics and the panic is
\* swallowed; handleMessages goes on in the same way.
Call(t, e, h) ==
  /\ phase[t] = "work"
  /\ IsNext(t, e)
  /\ h \in calls[t]
  /\ \A k \in calls[t] : h <= k
  /\ called' = called \union {<<e, h>>}
  /\ calls' = [calls EXCEPT ![t] = Rest(t, h)]
  /\ todo' = IF Rest(t, h) = {} THEN [todo EXCEPT ![t] = @ \ {e}] ELSE todo
  /\ UNCHANGED <<stream, redis, up, subs, phase, batch, faults>>
  /\ UNCHANGED <<born, acked, lost, slow, missed>>

\* handleMessages is through with its loop over the batch.
AllHandled_AtOnce(t) == TRUE
AllHandled(t) == todo[t] = {}

\* The entries XACK names.
ToAck_UpToNewest(t) == {e \in pel : \E f \in batch[t] : e <= f}
ToAck(t) == batch[t]

\* XACK of every entry of the batch; an error is only reported, and the
\* entries stay pending.
XAck(t) ==
  /\ phase[t] = "work"
  /\ AllHandled(t)
  /\ \/ /\ pel' = pel \ ToAck(t)
        /\ idle' = idle \ ToAck(t)
        /\ acked' = acked \union (ToAck(t) \intersect pel)
        /\ UNCHANGED faults
     \/ /\ Fault
        /\ UNCHANGED <<pel, idle, acked>>
  /\ Loop(t)
  /\ UNCHANGED <<stream, group, cursor, up, subs, born, lost, slow, called, missed>>

-----------------------------------------------------------------------------

Next ==
  \/ Publish
  \/ \E e \in Events : Age(e)
  \/ \E p \in Procs : Start(p) \/ Crash(p) \/ XReadGroup(p) \/ XPending(p) \/ XClaim(p)
  \/ \E p \in Procs, h \in Handlers : Subscribe(p, h)
  \/ \E t \in Threads, e \in Events : Dispatch(t, e)
  \/ \E t \in Threads, e \in Events, h \in Handlers : Call(t, e, h)
  \/ \E t \in Threads : XAck(t)

Spec == Init /\ [][Next]_vars

\* Time passes, the container runtime restarts a process that died
\* (restart: always), each goroutine that can take a step takes one, and a
\* handler returns.  Nothing obliges the publisher or a fault to happen.
Fairness ==
  /\ \A e \in Events : WF_vars(Age(e))
  /\ \A p \in Procs : WF_vars(Start(p))
  /\ \A p \in Procs : WF_vars(XReadGroup(p)) /\ WF_vars(XPending(p)) /\ WF_vars(XClaim(p))
  /\ \A p \in Procs : WF_vars(\E h \in Handlers : Subscribe(p, h))
  /\ \A t \in Threads : WF_vars(\E e \in Events : Dispatch(t, e))
  /\ \A t \in Threads : WF_vars(\E e \in Events, h \in Handlers : Call(t, e, h))
  /\ \A t \in Threads : WF_vars(XAck(t))

FairSpec == Spec /\ Fairness

-----------------------------------------------------------------------------
(* Safety *)

\* handleMessages acknowledges a batch only after its handlers: whatever is
\* acknowledged, by whichever process and after whatever crashes, claims and
\* redeliveries, every handler has been called for, except those the
\* dispatching process had not subscribed yet.
NoSilentLoss ==
  \A e \in acked \intersect relevant, h \in Handlers :
    <<e, h>> \in called \union missed

\* The events of which the handlers are subscribed before Listen starts (the
\* LOGIN events of the auxiliary services) reach every handler once acknowledged.
EveryHandlerReacts ==
  SubscribeFirst =>
    \A e \in acked \intersect relevant, h \in Handlers : <<e, h>> \in called

\* No entry falls between the group's lists: one published after the group
\* was created is undelivered, or pending, or acknowledged, or was trimmed,
\* and never two of these; nothing acknowledged becomes pending again.
Accounted ==
  /\ group =>
       /\ pel \union acked \union lost = {e \in Events : born < e /\ e <= cursor}
       /\ cursor <= last
  /\ ~group => pel \union acked \union lost = {}
  /\ pel \intersect acked = {}
  /\ pel \intersect lost = {}
  /\ acked \intersect lost = {}

\* Two goroutines, of one process or of two, handle the same entry at the same
\* time only when it has been pending beyond the threshold of Recover: the
\* claim without MINIDLE never takes an entry that was always handled in time.
SharedOnlyAfterIdle ==
  \A t \in Threads, u \in Threads :
    (t # u /\ phase[t] = "work" /\ phase[u] = "work")
      => batch[t] \intersect batch[u] \subseteq slow

(* Liveness *)

\* As long as faults are finite, every entry that is pending, also one whose
\* consumer is gone for good, leaves the pending list.
PendingDrains == \A e \in Events : e \in pel ~> e \notin pel

\* An entry published to an existing group is delivered.
NewIsDelivered == \A e \in Events : (group /\ e <= last) ~> (e <= cursor)

(* Refinement *)

\* What the group has made of each entry.
DeliveryStatus ==
  [e \in Events |->
    CASE e > last -> "none"
      [] e <= last /\ e \in acked -> "settled"
      [] e <= last /\ e \notin acked /\ (e \in lost \/ ~group \/ e <= born) -> "lost"
      [] OTHER -> "kept"]

Delivery == INSTANCE EventDelivery WITH served <- called, status <- DeliveryStatus

\* The group keeps the promise of EventDelivery.
ImplementsDelivery == Delivery!Spec
==============================================================================
