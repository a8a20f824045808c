-------------------------- MODULE RedisStreamProofs --------------------------
(***************************************************************************)
(* Proofs about RedisStream, for any number of processes, handlers,        *)
(* entries and faults, and any length of the stream.                       *)
(*                                                                         *)
(* The invariants are proved one on top of the other: each step lemma      *)
(* names those it takes for granted, and the theorem at the end of each    *)
(* part turns it into a property of the specification.                     *)
(***************************************************************************)
EXTENDS RedisStream, TLAPS

-----------------------------------------------------------------------------
(* Types *)

LEMMA ThreadParts ==
  /\ \A p \in Procs : <<p, "listen">> \in Threads /\ <<p, "recover">> \in Threads
  /\ \A t \in Threads : t[1] \in Procs /\ t[2] \in {"listen", "recover"}
  /\ \A p \in Procs : <<p, "listen">>[1] = p /\ <<p, "recover">>[1] = p
BY DEF Threads

\* The types of what a goroutine holds.
LocalTypes ==
  /\ phase \in [Threads -> Phases]
  /\ batch \in [Threads -> SUBSET Events]
  /\ todo \in [Threads -> SUBSET Events]
  /\ calls \in [Threads -> SUBSET Handlers]

\* A goroutine that starts over, or enters handleMessages, holds sets of entries.
LEMMA LocalTypesKept ==
  ASSUME TypeOK, NEW t \in Threads, NEW E \in SUBSET Events, Loop(t) \/ Enter(t, E)
  PROVE  LocalTypes'
BY DEF TypeOK, LocalTypes, Loop, Enter, Phases

\* Every variable keeps its type under every step of the code.
LEMMA TypeStep == TypeOK /\ [Next]_vars => TypeOK'
<1> SUFFICES ASSUME TypeOK, [Next]_vars PROVE TypeOK'
  OBVIOUS
<1> USE ConstAssumption DEF ConstAssumption
<1>1. CASE Publish
  <2>1. last' \in 0..MaxEvents /\ relevant' \in SUBSET Events
    <3>1. last' \in 0..MaxEvents /\ last + 1 \in Events
      BY <1>1 DEF TypeOK, Publish, Events
    <3> QED
      BY <1>1, <3>1 DEF TypeOK, Publish
  <2> QED
    BY <1>1, <2>1 DEF TypeOK, Publish, redis, local, history
<1>2. ASSUME NEW e \in Events, Age(e) PROVE TypeOK'
  BY <1>2 DEF TypeOK, Age, stream, local
<1>3. ASSUME NEW p \in Procs, Start(p) PROVE TypeOK'
  <2>1. cursor' \in 0..MaxEvents /\ born' \in 0..MaxEvents /\ faults' \in 0..MaxFaults
    BY <1>3 DEF TypeOK, Start, Fault, GroupStart
  <2>2. group' \in BOOLEAN /\ up' \in [Procs -> BOOLEAN]
    BY <1>3 DEF TypeOK, Start
  <2> QED
    BY <1>3, <2>1, <2>2 DEF TypeOK, Start, stream, local
<1>4. ASSUME NEW p \in Procs, Crash(p) PROVE TypeOK'
  BY <1>4 DEF TypeOK, Crash, stream, redis, history, Fault, Phases
<1>5. ASSUME NEW p \in Procs, XReadGroup(p) PROVE TypeOK'
  <2>1. {e \in New : ~Trimmed(e)} \subseteq Events /\ New \subseteq Events
    BY DEF New
  <2>2. /\ pel' \in SUBSET Events
        /\ lost' \in SUBSET Events
        /\ cursor' \in 0..MaxEvents
    BY <1>5, <2>1 DEF TypeOK, XReadGroup, MakePending
  <2>3. faults' \in 0..MaxFaults
    BY <1>5 DEF TypeOK, XReadGroup, Fault
  <2>4. ASSUME ReadError(<<p, "listen">>) PROVE LocalTypes'
    BY <2>4 DEF TypeOK, LocalTypes, ReadError, local
  <2>5. LocalTypes'
    BY <1>5, <2>1, <2>4, LocalTypesKept, ThreadParts DEF XReadGroup
  <2> QED
    BY <1>5, <2>2, <2>3, <2>5 DEF TypeOK, LocalTypes, XReadGroup, stream
<1>6. ASSUME NEW p \in Procs, XPending(p) PROVE TypeOK'
  BY <1>6, ThreadParts DEF TypeOK, XPending, stream, redis, history, LongIdle, Phases
<1>7. ASSUME NEW p \in Procs, XClaim(p) PROVE TypeOK'
  <2>1. batch[<<p, "recover">>] \subseteq Events
    BY ThreadParts DEF TypeOK
  <2>2. pel' \in SUBSET Events /\ idle' \in SUBSET Events /\ lost' \in SUBSET Events
    BY <1>7 DEF TypeOK, XClaim
  <2>3. faults' \in 0..MaxFaults
    BY <1>7 DEF TypeOK, XClaim, Fault
  <2>4. LocalTypes'
    <3> DEFINE t == <<p, "recover">>
               E == {e \in batch[t] \intersect pel : ~Trimmed(e)}
    <3>1. t \in Threads /\ E \in SUBSET Events
      BY <2>1, ThreadParts
    <3>2. Loop(t) \/ Enter(t, E)
      BY <1>7 DEF XClaim
    <3> HIDE DEF t, E
    <3> QED
      BY <3>1, <3>2, LocalTypesKept
  <2> QED
    BY <1>7, <2>2, <2>3, <2>4 DEF TypeOK, LocalTypes, XClaim, stream
<1>8. ASSUME NEW p \in Procs, NEW h \in Handlers, Subscribe(p, h) PROVE TypeOK'
  BY <1>8 DEF TypeOK, Subscribe, stream, redis, local, history
<1>9. ASSUME NEW t \in Threads, NEW e \in Events, Dispatch(t, e) PROVE TypeOK'
  BY <1>9, ThreadParts DEF TypeOK, Dispatch, stream, redis
<1>10. ASSUME NEW t \in Threads, NEW e \in Events, NEW h \in Handlers, Call(t, e, h) PROVE TypeOK'
  BY <1>10 DEF TypeOK, Call, stream, redis, Rest
<1>11. ASSUME NEW t \in Threads, XAck(t) PROVE TypeOK'
  BY <1>11 DEF TypeOK, XAck, stream, Fault, Loop, ToAck, Phases
<1>12. CASE UNCHANGED vars
  BY <1>12 DEF TypeOK, vars, stream, redis, local, history
<1> QED
  BY <1>1, <1>2, <1>3, <1>4, <1>5, <1>6, <1>7, <1>8, <1>9, <1>10, <1>11, <1>12 DEF Next

\* TypeOK of RedisStream: the indices of streams, lists and histories stay in
\* their ranges and the goroutines' batches are sets of entries.
THEOREM TypeCorrect == Spec => []TypeOK
<1>1. Init => TypeOK
  <2> SUFFICES ASSUME Init PROVE TypeOK
    OBVIOUS
  <2>1. group \in BOOLEAN /\ up \in [Procs -> BOOLEAN]
    BY DEF Init
  <2>2. LocalTypes /\ subs \in [Procs -> SUBSET Handlers]
    BY DEF Init, LocalTypes, Phases
  <2> QED
    BY <2>1, <2>2, ConstAssumption DEF ConstAssumption, Init, TypeOK, LocalTypes
<1> QED
  BY <1>1, TypeStep, PTL DEF Spec
-----------------------------------------------------------------------------
(* The lists of the group *)

\* Accounted, and the group never reads before the position it was born at.
AccountedInv ==
  /\ Accounted
  /\ group => born <= cursor

\* No step makes the group forget an entry or hold it twice.
LEMMA AccountedStep == TypeOK /\ AccountedInv /\ [Next]_vars => AccountedInv'
<1> SUFFICES ASSUME TypeOK, AccountedInv, [Next]_vars PROVE AccountedInv'
  OBVIOUS
<1>1. ASSUME UNCHANGED <<group, cursor, born, pel, acked, lost, last>> PROVE AccountedInv'
  BY <1>1 DEF AccountedInv, Accounted
<1>2. CASE Publish
  <2>1. last \in Nat /\ cursor \in Nat /\ last' = last + 1
    BY <1>2, ConstAssumption DEF ConstAssumption, TypeOK, Publish
  <2> QED
    BY <1>2, <2>1 DEF AccountedInv, Accounted, Publish, redis, history
<1>3. ASSUME NEW p \in Procs, Start(p) PROVE AccountedInv'
  <2>1. last \in Nat /\ born \in Nat /\ cursor \in Nat
    BY ConstAssumption DEF ConstAssumption, TypeOK
  <2>2. CASE group
    BY <1>3, <2>2, <1>1 DEF Start, stream
  <2>3. CASE ~group
    BY <1>3, <2>1, <2>3 DEF AccountedInv, Accounted, Start, GroupStart, stream, Events
  <2> QED
    BY <2>2, <2>3
<1>4. ASSUME NEW p \in Procs, XReadGroup(p) PROVE AccountedInv'
  <2> DEFINE E == {e \in New : ~Trimmed(e)}
  <2>1. last \in Nat /\ born \in Nat /\ cursor \in Nat /\ Events \subseteq Nat
    BY ConstAssumption DEF ConstAssumption, TypeOK, Events
  <2>2. /\ group /\ group' /\ cursor' = last /\ last' = last /\ born' = born
        /\ pel' = pel \union E /\ lost' = lost \union (New \ E) /\ acked' = acked
    BY <1>4 DEF XReadGroup, MakePending, stream
  <2>3. /\ pel \union acked \union lost = {e \in Events : born < e /\ e <= cursor}
        /\ born <= cursor /\ cursor <= last
    BY <2>2 DEF AccountedInv, Accounted
  <2>4. pel' \union acked' \union lost' = (pel \union acked \union lost) \union New
    <3>1. E \subseteq New
      OBVIOUS
    <3> HIDE DEF E
    <3> QED
      BY <2>2, <3>1
  <2>5. (pel \union acked \union lost) \union New
          = {e \in Events : born' < e /\ e <= cursor'}
    <3>1. \A e \in Events :
            (born < e /\ e <= cursor) \/ (cursor < e /\ e <= last) <=> (born < e /\ e <= last)
      BY <2>1, <2>3
    <3> QED
      BY <3>1, <2>2, <2>3 DEF New
  <2>6. (pel \union acked \union lost) \intersect New = {}
    <3>1. \A e \in Events : ~(e <= cursor /\ cursor < e)
      BY <2>1
    <3> QED
      BY <3>1, <2>3 DEF New
  <2>7. /\ pel' \intersect acked' = {}
        /\ pel' \intersect lost' = {}
        /\ acked' \intersect lost' = {}
    BY <2>2, <2>6 DEF AccountedInv, Accounted
  <2>8. born' <= cursor' /\ cursor' <= last'
    BY <2>1, <2>2, <2>3
  <2> QED
    BY <2>2, <2>4, <2>5, <2>7, <2>8 DEF AccountedInv, Accounted
<1>5. ASSUME NEW p \in Procs, XClaim(p) PROVE AccountedInv'
  BY <1>5 DEF AccountedInv, Accounted, XClaim, stream
<1>6. ASSUME NEW t \in Threads, XAck(t) PROVE AccountedInv'
  BY <1>6 DEF AccountedInv, Accounted, XAck, stream, ToAck
<1>7. ASSUME NEW e \in Events, Age(e) PROVE AccountedInv'
  BY <1>1, <1>7 DEF Age, stream
<1>8. ASSUME NEW p \in Procs, Crash(p) \/ XPending(p) PROVE AccountedInv'
  BY <1>1, <1>8 DEF Crash, XPending, stream, redis, history
<1>9. ASSUME NEW p \in Procs, NEW h \in Handlers, Subscribe(p, h) PROVE AccountedInv'
  BY <1>1, <1>9 DEF Subscribe, stream, redis, history
<1>10. ASSUME NEW t \in Threads, NEW e \in Events, Dispatch(t, e) PROVE AccountedInv'
  BY <1>1, <1>10 DEF Dispatch, stream, redis
<1>11. ASSUME NEW t \in Threads, NEW e \in Events, NEW h \in Handlers, Call(t, e, h) PROVE AccountedInv'
  BY <1>1, <1>11 DEF Call, stream, redis
<1>12. CASE UNCHANGED vars
  BY <1>1, <1>12 DEF vars, stream, redis, history
<1> QED
  BY <1>2, <1>3, <1>4, <1>5, <1>6, <1>7, <1>8, <1>9, <1>10, <1>11, <1>12 DEF Next

\* An entry published after the group was created is always undelivered,
\* pending, acknowledged or trimmed, and never two of these.
THEOREM EntriesAccounted == Spec => []Accounted
<1>1. Init => AccountedInv
  BY DEF Init, AccountedInv, Accounted
<1>2. AccountedInv => Accounted
  BY DEF AccountedInv
<1> QED
  BY <1>1, <1>2, AccountedStep, TypeCorrect, PTL DEF Spec

-----------------------------------------------------------------------------
(* Who handles what *)

\* What a goroutine holds was delivered; what the recovering goroutine of a
\* process holds has been idle too long; two listening ones share nothing.
BatchInv ==
  /\ idle \subseteq slow
  /\ \A t \in Threads : \A e \in batch[t] : group /\ e <= cursor
  /\ \A t \in Threads : t[2] = "recover" => batch[t] \subseteq slow
  /\ \A t, u \in Threads :
       (t # u /\ t[2] = "listen" /\ u[2] = "listen") => batch[t] \intersect batch[u] = {}

\* Giving up entries, and remembering more slow ones, harms nothing.
LEMMA BatchShrinks ==
  ASSUME BatchInv, idle' \subseteq idle, slow' = slow, group' = group, cursor' = cursor,
         \A t \in Threads : batch'[t] \subseteq batch[t]
  PROVE  BatchInv'
BY DEF BatchInv

\* The batches after Enter and Loop.
LEMMA BatchAfter ==
  ASSUME TypeOK, NEW t \in Threads, NEW E \in SUBSET Events, Loop(t) \/ Enter(t, E)
  PROVE  /\ batch'[t] \in {{}, E}
         /\ \A u \in Threads : u # t => batch'[u] = batch[u]
BY DEF TypeOK, Loop, Enter

LEMMA BatchStep == TypeOK /\ AccountedInv /\ BatchInv /\ [Next]_vars => BatchInv'
<1> SUFFICES ASSUME TypeOK, AccountedInv, BatchInv, [Next]_vars PROVE BatchInv'
  OBVIOUS
<1>1. CASE UNCHANGED <<idle, slow, group, cursor, batch>>
  BY <1>1, BatchShrinks
<1>2. ASSUME NEW e \in Events, Age(e) PROVE BatchInv'
  BY <1>2 DEF BatchInv, Age, local
<1>3. ASSUME NEW p \in Procs, Start(p) PROVE BatchInv'
  BY <1>3 DEF BatchInv, Start, local
<1>4. ASSUME NEW p \in Procs, Crash(p) PROVE BatchInv'
  <2>1. \A t \in Threads : batch'[t] \subseteq batch[t]
    BY <1>4 DEF Crash
  <2> QED
    BY <1>4, <2>1, BatchShrinks DEF Crash, redis, history
<1>5. ASSUME NEW p \in Procs, XReadGroup(p) PROVE BatchInv'
  <2> DEFINE t == <<p, "listen">>
             E == {e \in New : ~Trimmed(e)}
  <2>1. t \in Threads /\ t[2] = "listen" /\ E \in SUBSET Events
    BY DEF Threads, New
  <2>2. group /\ group' /\ cursor' = last /\ cursor <= last /\ idle' = idle /\ slow' = slow
    BY <1>5 DEF XReadGroup, AccountedInv, Accounted
  <2>3. last \in Nat /\ cursor \in Nat /\ Events \subseteq Nat
    BY ConstAssumption DEF ConstAssumption, TypeOK, Events
  <2>4. \A e \in E : cursor < e /\ e <= last
    BY DEF New
  <2>5. Enter(t, E) \/ batch' = batch
    BY <1>5 DEF XReadGroup, ReadError, local
  <2> HIDE DEF t, E
  <2>6. \A u \in Threads : u # t => batch'[u] = batch[u]
    BY <2>1, <2>5, BatchAfter
  <2>7. batch'[t] \in {E, batch[t], {}}
    BY <2>1, <2>5, BatchAfter
  <2>8. \A u \in Threads : \A e \in batch[u] : e \in Nat /\ e <= cursor
    BY <2>3 DEF BatchInv, TypeOK
  <2>9. \A u \in Threads : \A e \in batch'[u] : e <= cursor'
    <3>1. \A u \in Threads : \A e \in batch[u] : e <= cursor'
      BY <2>2, <2>3, <2>8
    <3> QED
      BY <2>1, <2>2, <2>4, <2>6, <2>7, <3>1
  <2>10. \A u \in Threads : batch[u] \intersect E = {}
    <3>1. \A u \in Threads : \A e \in batch[u] : ~(e \in E)
      BY <2>3, <2>4, <2>8
    <3> QED
      BY <3>1
  <2>11. \A u \in Threads : u # t /\ u[2] = "listen" => batch'[t] \intersect batch'[u] = {}
    BY <2>1, <2>6, <2>7, <2>10 DEF BatchInv
  <2> QED
    BY <2>1, <2>2, <2>6, <2>9, <2>11 DEF BatchInv
<1>6. ASSUME NEW p \in Procs, XPending(p) PROVE BatchInv'
  <2> DEFINE t == <<p, "recover">>
  <2>1. t \in Threads /\ t[2] = "recover"
    BY DEF Threads
  <2>2. batch'[t] \subseteq pel \intersect idle /\ \A u \in Threads : u # t => batch'[u] = batch[u]
    BY <1>6, <2>1 DEF XPending, LongIdle, TypeOK
  <2>3. \A e \in pel : group /\ e <= cursor
    BY DEF AccountedInv, Accounted
  <2>4. UNCHANGED <<idle, slow, group, cursor>>
    BY <1>6 DEF XPending, redis, history
  <2> HIDE DEF t
  <2> QED
    BY <2>1, <2>2, <2>3, <2>4 DEF BatchInv
<1>7. ASSUME NEW p \in Procs, XClaim(p) PROVE BatchInv'
  <2> DEFINE t == <<p, "recover">>
             E == {e \in batch[t] \intersect pel : ~Trimmed(e)}
  <2>1. t \in Threads /\ E \in SUBSET Events /\ E \subseteq batch[t]
    BY DEF Threads, TypeOK
  <2>2. Loop(t) \/ Enter(t, E)
    BY <1>7 DEF XClaim
  <2>3. idle' \subseteq idle /\ UNCHANGED <<slow, group, cursor>>
    BY <1>7 DEF XClaim
  <2> HIDE DEF t, E
  <2>4. \A u \in Threads : batch'[u] \subseteq batch[u]
    BY <2>1, <2>2, BatchAfter
  <2> QED
    BY <2>3, <2>4, BatchShrinks
<1>8. ASSUME NEW t \in Threads, XAck(t) PROVE BatchInv'
  <2>1. \A u \in Threads : batch'[u] \subseteq batch[u]
    BY <1>8 DEF XAck, Loop, TypeOK
  <2> QED
    BY <1>8, <2>1, BatchShrinks DEF XAck
<1>9. CASE Publish
  BY <1>1, <1>9 DEF Publish, redis, local, history
<1>10. ASSUME NEW p \in Procs, NEW h \in Handlers, Subscribe(p, h) PROVE BatchInv'
  BY <1>1, <1>10 DEF Subscribe, redis, local, history
<1>11. ASSUME NEW t \in Threads, NEW e \in Events, Dispatch(t, e) PROVE BatchInv'
  BY <1>1, <1>11 DEF Dispatch, redis
<1>12. ASSUME NEW t \in Threads, NEW e \in Events, NEW h \in Handlers, Call(t, e, h) PROVE BatchInv'
  BY <1>1, <1>12 DEF Call, redis
<1>13. CASE UNCHANGED vars
  BY <1>1, <1>13 DEF vars, redis, local, history
<1> QED
  BY <1>2, <1>3, <1>4, <1>5, <1>6, <1>7, <1>8, <1>9, <1>10, <1>11, <1>12, <1>13 DEF Next

\* Two goroutines handle an entry at the same time only when it was pending
\* beyond the threshold: a claim never takes what was handled in time.
THEOREM OnlySlowIsShared == Spec => []SharedOnlyAfterIdle
<1>1. Init => BatchInv
  BY DEF Init, BatchInv
<1>2. BatchInv => SharedOnlyAfterIdle
  BY ThreadParts DEF BatchInv, SharedOnlyAfterIdle
<1>3. Init => AccountedInv
  BY DEF Init, AccountedInv, Accounted
<1> QED
  BY <1>1, <1>2, <1>3, AccountedStep, BatchStep, TypeCorrect, PTL DEF Spec

-----------------------------------------------------------------------------
(* What has been handled *)

\* Handler h has been called for e, or was not subscribed then.
Reached(e, h) == <<e, h>> \in called \union missed

\* The entries a goroutine has dealt with have reached the handlers; of the
\* entry at hand, the handlers still to call are the only ones missing.
WorkOf(t) ==
  /\ todo[t] \subseteq batch[t]
  /\ phase[t] # "work" => todo[t] = {} /\ calls[t] = {}
  /\ phase[t] = "work" =>
       \A e \in (batch[t] \ todo[t]) \intersect relevant, h \in Handlers : Reached(e, h)
  /\ \A e \in todo[t], h \in Handlers \ calls[t] :
       (calls[t] # {} /\ IsNext(t, e)) => Reached(e, h)

HandledInv ==
  /\ \A t \in Threads : WorkOf(t)
  /\ NoSilentLoss

\* What was published later is in no batch and in no list.
LEMMA OnlyPublished ==
  ASSUME TypeOK, AccountedInv, BatchInv
  PROVE  /\ \A e \in acked : e \in Nat /\ e <= last
         /\ \A t \in Threads : \A e \in batch[t] : e \in Nat /\ e <= last
<1>1. last \in Nat /\ cursor \in Nat /\ Events \subseteq Nat
  BY ConstAssumption DEF ConstAssumption, TypeOK, Events
<1>2. ASSUME NEW e \in Events, group, e <= cursor PROVE e \in Nat /\ e <= last
  BY <1>1, <1>2 DEF AccountedInv, Accounted
<1>3. \A e \in acked : e \in Events /\ group /\ e <= cursor
  BY DEF TypeOK, AccountedInv, Accounted
<1>4. \A t \in Threads : \A e \in batch[t] : e \in Events /\ group /\ e <= cursor
  BY DEF TypeOK, BatchInv
<1> QED
  BY <1>2, <1>3, <1>4

\* A step of somebody else takes nothing from what a goroutine has done.
LEMMA WorkKept ==
  ASSUME NEW t \in Threads, WorkOf(t),
         phase'[t] = phase[t], batch'[t] = batch[t], todo'[t] = todo[t], calls'[t] = calls[t],
         called \subseteq called', missed \subseteq missed',
         batch[t] \intersect relevant' \subseteq relevant
  PROVE  WorkOf(t)'
BY DEF WorkOf, Reached, IsNext

\* A goroutine has nothing to account for when it starts over or begins.
LEMMA WorkAfter ==
  ASSUME TypeOK, NEW t \in Threads, NEW E, Loop(t) \/ Enter(t, E)
  PROVE  /\ WorkOf(t)'
         /\ \A u \in Threads : u # t =>
              /\ phase'[u] = phase[u] /\ batch'[u] = batch[u]
              /\ todo'[u] = todo[u] /\ calls'[u] = calls[u]
<1>1. CASE Loop(t)
  BY <1>1 DEF TypeOK, Loop, WorkOf
<1>2. CASE Enter(t, E)
  BY <1>2 DEF TypeOK, Enter, WorkOf
<1> QED
  BY <1>1, <1>2

\* The least of a set of entries is unique.
LEMMA OnlyOneNext ==
  ASSUME TypeOK, NEW t \in Threads, NEW e, NEW f, IsNext(t, e), IsNext(t, f)
  PROVE  e = f
<1>1. e \in Nat /\ f \in Nat
  BY ConstAssumption DEF ConstAssumption, TypeOK, IsNext, Events
<1> QED
  BY <1>1 DEF IsNext

LEMMA HandledStep ==
  TypeOK /\ AccountedInv /\ BatchInv /\ HandledInv /\ [Next]_vars => HandledInv'
<1> SUFFICES ASSUME TypeOK, AccountedInv, BatchInv, HandledInv, [Next]_vars PROVE HandledInv'
  OBVIOUS
<1>1. ASSUME called \subseteq called', missed \subseteq missed', acked' = acked, relevant' = relevant
      PROVE  NoSilentLoss'
  BY <1>1 DEF HandledInv, NoSilentLoss
<1>2. ASSUME UNCHANGED <<relevant, local, acked, called, missed>> PROVE HandledInv'
  BY <1>1, <1>2, WorkKept DEF HandledInv, local
<1>3. CASE Publish
  <2>1. \A e \in relevant' : e \in relevant \/ e = last + 1
    BY <1>3 DEF Publish
  <2>2. last \in Nat
    BY DEF TypeOK
  <2>3. \A t \in Threads : batch[t] \intersect relevant' \subseteq relevant
    BY <2>1, <2>2, OnlyPublished
  <2>4. \A t \in Threads : WorkOf(t)'
    BY <1>3, <2>3, WorkKept DEF HandledInv, Publish, local, history
  <2>5. acked \intersect relevant' \subseteq relevant
    BY <2>1, <2>2, OnlyPublished
  <2> QED
    BY <1>3, <2>4, <2>5 DEF HandledInv, NoSilentLoss, Publish, history
<1>4. ASSUME NEW p \in Procs, Crash(p) PROVE HandledInv'
  <2>1. UNCHANGED <<relevant, acked, called, missed>>
    BY <1>4 DEF Crash, stream, history
  <2>2. ASSUME NEW t \in Threads PROVE WorkOf(t)'
    <3>1. CASE t[1] = p
      BY <1>4, <3>1 DEF Crash, WorkOf
    <3>2. CASE t[1] # p
      BY <1>4, <2>1, <3>2, WorkKept DEF Crash, HandledInv
    <3> QED
      BY <3>1, <3>2
  <2> QED
    BY <1>1, <2>1, <2>2 DEF HandledInv
<1>5. ASSUME NEW t \in Threads, NEW E, Loop(t) \/ Enter(t, E), UNCHANGED <<relevant, called, missed>>
      PROVE  \A u \in Threads : WorkOf(u)'
  BY <1>5, WorkAfter, WorkKept DEF HandledInv
<1>6. ASSUME NEW p \in Procs, XReadGroup(p) PROVE HandledInv'
  <2>1. UNCHANGED <<relevant, acked, called, missed>>
    BY <1>6 DEF XReadGroup, stream
  <2>2. CASE UNCHANGED local
    BY <1>2, <2>1, <2>2
  <2>3. ASSUME NEW E, Enter(<<p, "listen">>, E) PROVE HandledInv'
    BY <1>1, <1>5, <2>1, <2>3, ThreadParts DEF HandledInv
  <2> QED
    BY <1>6, <2>2, <2>3 DEF XReadGroup, ReadError
<1>7. ASSUME NEW p \in Procs, XPending(p) PROVE HandledInv'
  <2> DEFINE t == <<p, "recover">>
  <2>1. UNCHANGED <<relevant, acked, called, missed>>
    BY <1>7 DEF XPending, stream, history
  <2>2. t \in Threads
    BY ThreadParts
  <2>3. /\ todo' = todo /\ calls' = calls /\ phase[t] = "idle" /\ phase'[t] = "claim"
        /\ \A u \in Threads : u # t => phase'[u] = phase[u] /\ batch'[u] = batch[u]
    BY <1>7, <2>2 DEF XPending, TypeOK
  <2> HIDE DEF t
  <2>4. WorkOf(t)'
    BY <2>2, <2>3 DEF WorkOf, HandledInv
  <2>5. \A u \in Threads : u # t => WorkOf(u)'
    BY <2>1, <2>3, WorkKept DEF HandledInv
  <2> QED
    BY <1>1, <2>1, <2>4, <2>5 DEF HandledInv
<1>8. ASSUME NEW p \in Procs, XClaim(p) PROVE HandledInv'
  <2>1. UNCHANGED <<relevant, acked, called, missed>>
    BY <1>8 DEF XClaim, stream
  <2>2. \E E : Loop(<<p, "recover">>) \/ Enter(<<p, "recover">>, E)
    BY <1>8 DEF XClaim
  <2> QED
    BY <1>1, <1>5, <2>1, <2>2, ThreadParts DEF HandledInv
<1>9. ASSUME NEW t \in Threads, NEW e \in Events, Dispatch(t, e) PROVE HandledInv'
  <2>1. /\ UNCHANGED <<relevant, phase, batch, acked, called>>
        /\ missed \subseteq missed'
        /\ \A u \in Threads : u # t => todo'[u] = todo[u] /\ calls'[u] = calls[u]
    BY <1>9 DEF Dispatch, stream, TypeOK
  <2>2. WorkOf(t) /\ phase[t] = "work" /\ calls[t] = {} /\ e \in todo[t] /\ IsNext(t, e)
    BY <1>9 DEF Dispatch, IsNext, HandledInv
  <2>3. e \in relevant => \A h \in Handlers \ subs[t[1]] : <<e, h>> \in missed'
    BY <1>9 DEF Dispatch
  <2>4. ASSUME e \in relevant, subs[t[1]] # {} PROVE WorkOf(t)'
    <3>1. calls'[t] = subs[t[1]] /\ todo'[t] = todo[t]
      BY <1>9, <2>4 DEF Dispatch, TypeOK
    <3>2. \A f \in todo[t] : IsNext(t, f)' => f = e
      BY <2>2, <3>1, OnlyOneNext DEF IsNext
    <3> QED
      BY <2>1, <2>2, <2>3, <2>4, <3>1, <3>2 DEF WorkOf, Reached
  <2>5. ASSUME ~(e \in relevant /\ subs[t[1]] # {}) PROVE WorkOf(t)'
    <3>1. calls'[t] = {} /\ todo'[t] = todo[t] \ {e}
      BY <1>9, <2>2, <2>5 DEF Dispatch, TypeOK
    <3>2. e \in relevant => \A h \in Handlers : Reached(e, h)'
      BY <2>3, <2>5 DEF Reached
    <3> QED
      BY <2>1, <2>2, <3>1, <3>2 DEF WorkOf, Reached
  <2>6. \A u \in Threads : u # t => WorkOf(u)'
    BY <2>1, WorkKept DEF HandledInv
  <2>7. WorkOf(t)'
    BY <2>4, <2>5
  <2> QED
    BY <1>1, <2>1, <2>6, <2>7 DEF HandledInv
<1>10. ASSUME NEW t \in Threads, NEW e \in Events, NEW h \in Handlers, Call(t, e, h) PROVE HandledInv'
  <2>1. /\ UNCHANGED <<relevant, phase, batch, acked, missed>>
        /\ called \subseteq called' /\ <<e, h>> \in called'
        /\ \A u \in Threads : u # t => todo'[u] = todo[u] /\ calls'[u] = calls[u]
    BY <1>10 DEF Call, stream, TypeOK
  <2>2. WorkOf(t) /\ phase[t] = "work" /\ h \in calls[t] /\ e \in todo[t] /\ IsNext(t, e)
    BY <1>10 DEF Call, IsNext, HandledInv
  <2>3. calls'[t] = calls[t] \ {h}
    BY <1>10 DEF Call, Rest, TypeOK
  <2>4. \A g \in Handlers \ calls'[t] : Reached(e, g)'
    BY <2>1, <2>2, <2>3 DEF WorkOf, Reached
  <2>5. ASSUME calls'[t] = {} PROVE WorkOf(t)'
    <3>1. todo'[t] = todo[t] \ {e}
      BY <1>10, <2>3, <2>5 DEF Call, Rest, TypeOK
    <3> QED
      BY <2>1, <2>2, <2>4, <2>5, <3>1 DEF WorkOf, Reached
  <2>6. ASSUME calls'[t] # {} PROVE WorkOf(t)'
    <3>1. todo'[t] = todo[t]
      BY <1>10, <2>3, <2>6 DEF Call, Rest
    <3>2. \A f \in todo[t] : IsNext(t, f)' => f = e
      BY <2>2, <3>1, OnlyOneNext DEF IsNext
    <3> QED
      BY <2>1, <2>2, <2>4, <3>1, <3>2 DEF WorkOf, Reached
  <2>7. \A u \in Threads : u # t => WorkOf(u)'
    BY <2>1, WorkKept DEF HandledInv
  <2>8. WorkOf(t)'
    BY <2>5, <2>6
  <2> QED
    BY <1>1, <2>1, <2>7, <2>8 DEF HandledInv
<1>11. ASSUME NEW t \in Threads, XAck(t) PROVE HandledInv'
  <2>1. phase[t] = "work" /\ todo[t] = {} /\ Loop(t) /\ UNCHANGED <<relevant, called, missed>>
    BY <1>11 DEF XAck, AllHandled, stream
  <2>2. acked' \subseteq acked \union batch[t]
    BY <1>11 DEF XAck, ToAck
  <2>3. \A e \in batch[t] \intersect relevant, h \in Handlers : Reached(e, h)
    BY <2>1 DEF HandledInv, WorkOf
  <2>4. NoSilentLoss'
    BY <2>1, <2>2, <2>3 DEF HandledInv, NoSilentLoss, Reached
  <2> QED
    BY <1>5, <2>1, <2>4 DEF HandledInv
<1>12. ASSUME NEW e \in Events, Age(e) PROVE HandledInv'
  BY <1>2, <1>12 DEF Age, stream
<1>13. ASSUME NEW p \in Procs, Start(p) PROVE HandledInv'
  BY <1>2, <1>13 DEF Start, stream
<1>14. ASSUME NEW p \in Procs, NEW h \in Handlers, Subscribe(p, h) PROVE HandledInv'
  BY <1>2, <1>14 DEF Subscribe, stream, history
<1>15. CASE UNCHANGED vars
  BY <1>2, <1>15 DEF vars, stream, history
<1> QED
  BY <1>3, <1>4, <1>6, <1>7, <1>8, <1>9, <1>10, <1>11, <1>12, <1>13, <1>14, <1>15 DEF Next

\* handleMessages acknowledges nothing that a subscribed handler has not been
\* called for, through crashes, lost replies, claims and redeliveries.
THEOREM NothingLostSilently == Spec => []NoSilentLoss
<1>1. Init => AccountedInv /\ BatchInv /\ HandledInv
  BY DEF Init, AccountedInv, Accounted, BatchInv, HandledInv, WorkOf, NoSilentLoss
<1>2. HandledInv => NoSilentLoss
  BY DEF HandledInv
<1> QED
  BY <1>1, <1>2, AccountedStep, BatchStep, HandledStep, TypeCorrect, PTL DEF Spec

-----------------------------------------------------------------------------
(* Handlers that are subscribed first *)

\* A goroutine that holds entries runs in a process that listens; where the
\* handlers come first, no entry is ever dispatched without one of them.
ReadyInv ==
  /\ \A t \in Threads : phase[t] # "idle" => Listening(t[1])
  /\ SubscribeFirst => missed = {}

LEMMA ReadyStep == TypeOK /\ ReadyInv /\ [Next]_vars => ReadyInv'
<1> SUFFICES ASSUME TypeOK, ReadyInv, [Next]_vars PROVE ReadyInv'
  OBVIOUS
<1>1. ASSUME UNCHANGED <<up, subs, missed>>,
             NEW p \in Procs, Listening(p),
             \A u \in Threads : u[1] # p => phase'[u] = phase[u]
      PROVE  ReadyInv'
  BY <1>1, ThreadParts DEF ReadyInv, Listening
<1>2. CASE UNCHANGED <<up, subs, missed, phase>>
  BY <1>2 DEF ReadyInv, Listening
<1>3. ASSUME NEW p \in Procs, Start(p) PROVE ReadyInv'
  BY <1>3, ThreadParts DEF ReadyInv, Listening, Start, local, TypeOK
<1>4. ASSUME NEW p \in Procs, NEW h \in Handlers, Subscribe(p, h) PROVE ReadyInv'
  <2>1. /\ UNCHANGED <<up, phase, missed>>
        /\ \A q \in Procs : subs'[q] = subs[q] \/ (q = p /\ subs'[q] = subs[q] \union {h})
    BY <1>4 DEF Subscribe, local, history, TypeOK
  <2>2. \A q \in Procs : subs[q] = Handlers => subs'[q] = Handlers
    BY <2>1
  <2> QED
    BY <2>1, <2>2, ThreadParts DEF ReadyInv, Listening
<1>5. ASSUME NEW p \in Procs, Crash(p) PROVE ReadyInv'
  BY <1>5, ThreadParts DEF ReadyInv, Listening, Crash, history, TypeOK
<1>6. ASSUME NEW p \in Procs, XReadGroup(p) PROVE ReadyInv'
  <2>1. \A u \in Threads : u[1] # p => phase'[u] = phase[u]
    BY <1>6, ThreadParts DEF XReadGroup, Enter, ReadError, local, TypeOK
  <2> QED
    BY <1>1, <1>6, <2>1 DEF XReadGroup
<1>7. ASSUME NEW p \in Procs, XPending(p) PROVE ReadyInv'
  <2>1. \A u \in Threads : u[1] # p => phase'[u] = phase[u]
    BY <1>7, ThreadParts DEF XPending, TypeOK
  <2> QED
    BY <1>1, <1>7, <2>1 DEF XPending, history
<1>8. ASSUME NEW p \in Procs, XClaim(p) PROVE ReadyInv'
  <2>1. \A u \in Threads : u[1] # p => phase'[u] = phase[u]
    BY <1>8, ThreadParts DEF XClaim, Enter, Loop, TypeOK
  <2>2. Listening(p)
    BY <1>8, ThreadParts DEF XClaim, ReadyInv
  <2> QED
    BY <1>1, <1>8, <2>1, <2>2 DEF XClaim
<1>9. ASSUME NEW t \in Threads, NEW e \in Events, Dispatch(t, e) PROVE ReadyInv'
  <2>1. SubscribeFirst => subs[t[1]] = Handlers
    BY <1>9 DEF Dispatch, ReadyInv, Listening
  <2>2. SubscribeFirst => missed' = missed
    BY <1>9, <2>1 DEF Dispatch
  <2> QED
    BY <1>9, <2>2 DEF ReadyInv, Listening, Dispatch
<1>10. ASSUME NEW t \in Threads, XAck(t) PROVE ReadyInv'
  BY <1>10 DEF ReadyInv, Listening, XAck, Loop, TypeOK
<1>11. CASE Publish
  BY <1>2, <1>11 DEF Publish, local, history
<1>12. ASSUME NEW e \in Events, Age(e) PROVE ReadyInv'
  BY <1>2, <1>12 DEF Age, local
<1>13. ASSUME NEW t \in Threads, NEW e \in Events, NEW h \in Handlers, Call(t, e, h) PROVE ReadyInv'
  BY <1>2, <1>13 DEF Call
<1>14. CASE UNCHANGED vars
  BY <1>2, <1>14 DEF vars, local, history
<1> QED
  BY <1>3, <1>4, <1>5, <1>6, <1>7, <1>8, <1>9, <1>10, <1>11, <1>12, <1>13, <1>14 DEF Next

\* The handlers subscribed before Listen starts react to every event of the
\* stream that gets acknowledged: the LOGIN handlers of the auxiliary services.
THEOREM EveryHandlerReactsAlways == Spec => []EveryHandlerReacts
<1>1. Init => ReadyInv
  BY DEF Init, ReadyInv
<1>2. NoSilentLoss /\ ReadyInv => EveryHandlerReacts
  BY DEF NoSilentLoss, ReadyInv, EveryHandlerReacts
<1> QED
  BY <1>1, <1>2, ReadyStep, TypeCorrect, NothingLostSilently, PTL DEF Spec

-----------------------------------------------------------------------------
(***************************************************************************)
(* RedisStream implements EventDelivery: every step of the publisher, of   *)
(* Redis and of the processes is a step of the abstract group, or none.    *)
(***************************************************************************)

\* When an entry has which status.
StatusIs(e) ==
  /\ ~(e <= last) => DeliveryStatus[e] = "none"
  /\ e <= last /\ e \in acked => DeliveryStatus[e] = "settled"
  /\ e <= last /\ e \notin acked /\ (e \in lost \/ ~group \/ e <= born)
       => DeliveryStatus[e] = "lost"
  /\ e <= last /\ e \notin acked /\ ~(e \in lost \/ ~group \/ e <= born)
       => DeliveryStatus[e] = "kept"

LEMMA StatusCases ==
  ASSUME TypeOK, NEW e \in Events
  PROVE  StatusIs(e)
<1>1. last \in Nat /\ e \in Nat
  BY ConstAssumption DEF ConstAssumption, TypeOK, Events
<1>2. ~(e <= last) <=> e > last
  BY <1>1
<1> QED
  BY <1>2 DEF StatusIs, DeliveryStatus

LEMMA StatusCasesNext ==
  ASSUME TypeOK', NEW e \in Events
  PROVE  StatusIs(e)'
<1>1. last' \in Nat /\ e \in Nat
  BY ConstAssumption DEF ConstAssumption, TypeOK, Events
<1>2. ~(e <= last') <=> e > last'
  BY <1>1
<1> QED
  BY <1>2 DEF StatusIs, DeliveryStatus

LEMMA StatusFunction ==
  /\ DeliveryStatus = [e \in Events |-> DeliveryStatus[e]]
  /\ DeliveryStatus' = [e \in Events |-> DeliveryStatus'[e]]
BY DEF DeliveryStatus

\* The status changes only with these variables.
LEMMA StatusKept ==
  ASSUME UNCHANGED <<last, group, born, acked, lost>>
  PROVE  DeliveryStatus' = DeliveryStatus
BY DEF DeliveryStatus

\* An entry the group has read past, or will read, is kept until it is
\* acknowledged or trimmed.
LEMMA PendingIsKept ==
  ASSUME TypeOK, AccountedInv, NEW e \in Events, e \in pel \union New, group
  PROVE  e <= last /\ e \notin acked /\ e \notin lost /\ DeliveryStatus[e] = "kept"
<1>1. last \in Nat /\ cursor \in Nat /\ born \in Nat /\ e \in Nat
  BY ConstAssumption DEF ConstAssumption, TypeOK, Events
<1>2. born <= cursor /\ cursor <= last
  BY DEF AccountedInv, Accounted
<1>3. CASE e \in pel
  <2>1. born < e /\ e <= cursor /\ e \notin acked /\ e \notin lost
    BY <1>3 DEF AccountedInv, Accounted
  <2>2. e <= last /\ ~(e <= born)
    BY <1>1, <1>2, <2>1
  <2> QED
    BY <2>1, <2>2, StatusCases DEF StatusIs
<1>4. CASE e \in New
  <2>1. cursor < e /\ e <= last
    BY <1>4 DEF New
  <2>2. ~(e <= cursor) /\ ~(e <= born)
    BY <1>1, <1>2, <2>1
  <2>3. e \notin acked /\ e \notin lost
    BY <2>2 DEF AccountedInv, Accounted
  <2> QED
    BY <2>1, <2>2, <2>3, StatusCases DEF StatusIs
<1> QED
  BY <1>3, <1>4

\* Giving up a set of pending or undelivered entries is a step Lose.
LEMMA LosingIsLose ==
  ASSUME TypeOK, TypeOK', AccountedInv, NEW L \in SUBSET Events,
         group \/ L = {}, L \subseteq pel \union New,
         lost' = lost \union L, UNCHANGED <<last, group, born, acked, relevant, called, missed>>
  PROVE  Delivery!Lose(L)
<1>1. \A e \in L : e <= last /\ e \notin acked /\ DeliveryStatus[e] = "kept"
  BY PendingIsKept
<1>2. \A e \in L : DeliveryStatus'[e] = "lost"
  BY <1>1, StatusCasesNext DEF StatusIs
<1>3. \A e \in Events \ L : DeliveryStatus'[e] = DeliveryStatus[e]
  BY StatusCases, StatusCasesNext DEF StatusIs
<1>4. DeliveryStatus' = [e \in Events |-> IF e \in L THEN "lost" ELSE DeliveryStatus[e]]
  BY <1>2, <1>3, StatusFunction
<1> QED
  BY <1>1, <1>4 DEF Delivery!Lose, Delivery!Events, Events

-----------------------------------------------------------------------------

\* The initial states are initial states of the abstract group.
LEMMA InitRefines == Init => Delivery!Init
<1> SUFFICES ASSUME Init PROVE Delivery!Init
  OBVIOUS
<1>1. \A e \in Events : ~(e <= last) /\ e > last
  BY DEF Init, Events
<1>2. DeliveryStatus = [e \in Events |-> "none"]
  BY <1>1 DEF DeliveryStatus
<1> QED
  BY <1>2 DEF Init, Delivery!Init, Delivery!Events, Events

LEMMA StepRefines ==
  /\ TypeOK /\ TypeOK' /\ AccountedInv /\ AccountedInv' /\ BatchInv /\ HandledInv /\ [Next]_vars
  => [Delivery!Next]_Delivery!vars
<1> SUFFICES ASSUME TypeOK, TypeOK', AccountedInv, AccountedInv', BatchInv, HandledInv, [Next]_vars
             PROVE  Delivery!Next \/ UNCHANGED Delivery!vars
  BY DEF Delivery!vars
<1>1. CASE UNCHANGED <<last, group, born, acked, lost, relevant, called, missed>>
  BY <1>1, StatusKept DEF Delivery!vars
<1>2. CASE Publish
  <2> DEFINE n == last + 1
  <2>1. /\ n \in Events /\ last \in Nat /\ n \in Nat /\ last' = n /\ Events \subseteq Nat
        /\ UNCHANGED <<group, born, acked, lost, called, missed, cursor>>
        /\ relevant' = relevant \/ relevant' = relevant \union {n}
    BY <1>2, ConstAssumption DEF ConstAssumption, Publish, TypeOK, Events, redis, history
  <2>2. DeliveryStatus[n] = "none"
    BY <2>1, StatusCases DEF StatusIs
  <2>3. DeliveryStatus'[n] \in {"kept", "lost"}
    <3>1. n \notin acked'
      <4>1. cursor \in Nat /\ (group => cursor <= last)
        BY ConstAssumption DEF ConstAssumption, TypeOK, AccountedInv, Accounted
      <4>2. \A e \in acked : group /\ e <= cursor
        BY DEF AccountedInv, Accounted
      <4> QED
        BY <2>1, <4>1, <4>2
    <3> QED
      BY <2>1, <3>1, StatusCasesNext DEF StatusIs
  <2>4. \A e \in Events : e # n => DeliveryStatus'[e] = DeliveryStatus[e]
    <3>1. \A e \in Events : e # n => (e <= last <=> e <= last')
      BY <2>1
    <3> QED
      BY <2>1, <3>1, StatusCases, StatusCasesNext DEF StatusIs
  <2>5. DeliveryStatus' = [DeliveryStatus EXCEPT ![n] = DeliveryStatus'[n]]
    BY <2>1, <2>4, StatusFunction
  <2> HIDE DEF n
  <2>6. Delivery!Publish(n)
    BY <2>1, <2>2, <2>3, <2>5 DEF Delivery!Publish
  <2> QED
    BY <2>1, <2>6 DEF Delivery!Next, Delivery!Events, Events
<1>3. ASSUME NEW p \in Procs, Start(p) PROVE Delivery!Next \/ UNCHANGED Delivery!vars
  <2>1. UNCHANGED <<last, acked, lost, relevant, called, missed>>
    BY <1>3 DEF Start, stream
  <2>2. CASE group
    BY <1>1, <1>3, <2>1, <2>2 DEF Start
  <2>3. CASE ~group
    <3>1. acked = {} /\ lost = {} /\ \A e \in Events : e <= last => ~group' \/ e <= born'
      BY <1>3, <2>3 DEF Start, AccountedInv, Accounted
    <3>2. \A e \in Events : DeliveryStatus'[e] = DeliveryStatus[e]
      BY <2>1, <2>3, <3>1, StatusCases, StatusCasesNext DEF StatusIs
    <3>3. DeliveryStatus' = DeliveryStatus
      BY <3>2 DEF DeliveryStatus
    <3> QED
      BY <2>1, <3>3 DEF Delivery!vars
  <2> QED
    BY <2>2, <2>3
<1>4. ASSUME NEW p \in Procs, XReadGroup(p) PROVE Delivery!Next \/ UNCHANGED Delivery!vars
  <2> DEFINE L == New \ {e \in New : ~Trimmed(e)}
  <2>1. L \in SUBSET Events /\ L \subseteq New
    BY DEF New
  <2>2. group /\ lost' = lost \union L
        /\ UNCHANGED <<last, group, born, acked, relevant, called, missed>>
    BY <1>4 DEF XReadGroup, stream
  <2> HIDE DEF L
  <2>3. Delivery!Lose(L)
    BY <2>1, <2>2, LosingIsLose
  <2> QED
    BY <2>1, <2>3 DEF Delivery!Next, Delivery!Events, Events
<1>5. ASSUME NEW p \in Procs, XClaim(p) PROVE Delivery!Next \/ UNCHANGED Delivery!vars
  <2> DEFINE L == {e \in batch[<<p, "recover">>] \intersect pel : Trimmed(e)}
  <2>1. L \in SUBSET Events /\ L \subseteq pel /\ (group \/ L = {})
    BY DEF TypeOK, AccountedInv, Accounted
  <2>2. lost' = lost \union L
        /\ UNCHANGED <<last, group, born, acked, relevant, called, missed>>
    BY <1>5 DEF XClaim, stream
  <2> HIDE DEF L
  <2>3. Delivery!Lose(L)
    BY <2>1, <2>2, LosingIsLose
  <2> QED
    BY <2>1, <2>3 DEF Delivery!Next, Delivery!Events, Events
<1>6. ASSUME NEW t \in Threads, XAck(t) PROVE Delivery!Next \/ UNCHANGED Delivery!vars
  <2> DEFINE A == batch[t] \intersect pel
  <2>1. A \in SUBSET Events /\ (group \/ A = {})
    BY DEF TypeOK, AccountedInv, Accounted
  <2>2. UNCHANGED <<last, group, born, lost, relevant, called, missed>>
    BY <1>6 DEF XAck, stream
  <2>3. CASE acked' = acked
    BY <1>1, <2>2, <2>3
  <2>4. CASE acked' = acked \union A
    <3>1. \A e \in A : e <= last /\ DeliveryStatus[e] = "kept"
      BY <2>1, PendingIsKept
    <3>2. \A e \in A : DeliveryStatus'[e] = "settled"
      BY <2>1, <2>2, <2>4, <3>1, StatusCasesNext DEF StatusIs
    <3>3. \A e \in Events \ A : DeliveryStatus'[e] = DeliveryStatus[e]
      BY <2>2, <2>4, StatusCases, StatusCasesNext DEF StatusIs
    <3>4. DeliveryStatus' = [e \in Events |-> IF e \in A THEN "settled" ELSE DeliveryStatus[e]]
      BY <3>2, <3>3 DEF DeliveryStatus
    <3>5. \A e \in A \intersect relevant, h \in Handlers : <<e, h>> \in called \union missed
      BY <1>6 DEF XAck, AllHandled, HandledInv, WorkOf, Reached
    <3>6. \A e \in A \intersect relevant : {e} \X Handlers \subseteq called \union missed
      BY <3>5
    <3> HIDE DEF A
    <3>7. Delivery!Settle(A)
      BY <2>2, <3>1, <3>4, <3>6 DEF Delivery!Settle, Delivery!Events, Events
    <3> QED
      BY <2>1, <3>7 DEF Delivery!Next, Delivery!Events, Events
  <2> QED
    BY <1>6, <2>3, <2>4 DEF XAck, ToAck
<1>7. ASSUME NEW t \in Threads, NEW e \in Events, Dispatch(t, e)
      PROVE  Delivery!Next \/ UNCHANGED Delivery!vars
  <2>1. UNCHANGED <<last, group, born, acked, lost, relevant, called>>
    BY <1>7 DEF Dispatch, stream, redis
  <2>2. DeliveryStatus' = DeliveryStatus
    BY <2>1, StatusKept
  <2>3. CASE e \notin relevant
    BY <1>1, <1>7, <2>1, <2>3 DEF Dispatch
  <2>4. CASE e \in relevant
    <3>1. missed' = missed \union ({e} \X (Handlers \ subs[t[1]]))
      BY <1>7, <2>4 DEF Dispatch
    <3>2. e <= last
      BY <1>7, OnlyPublished DEF Dispatch, IsNext, HandledInv, WorkOf
    <3>3. DeliveryStatus[e] # "none"
      BY <3>2, StatusCases DEF StatusIs
    <3>4. Delivery!Miss(e, Handlers \ subs[t[1]])
      BY <2>1, <2>2, <3>1, <3>3 DEF Delivery!Miss
    <3> QED
      BY <3>4 DEF Delivery!Next, Delivery!Events, Events
  <2> QED
    BY <2>3, <2>4
<1>8. ASSUME NEW t \in Threads, NEW e \in Events, NEW h \in Handlers, Call(t, e, h)
      PROVE  Delivery!Next \/ UNCHANGED Delivery!vars
  <2>1. UNCHANGED <<last, group, born, acked, lost, relevant, missed>>
        /\ called' = called \union {<<e, h>>}
    BY <1>8 DEF Call, stream, redis
  <2>2. DeliveryStatus' = DeliveryStatus
    BY <2>1, StatusKept
  <2>3. e <= last
    BY <1>8, OnlyPublished DEF Call, IsNext, HandledInv, WorkOf
  <2>4. DeliveryStatus[e] # "none"
    BY <2>3, StatusCases DEF StatusIs
  <2>5. Delivery!Serve(e, h)
    BY <2>1, <2>2, <2>4 DEF Delivery!Serve
  <2> QED
    BY <2>5 DEF Delivery!Next, Delivery!Events, Events
<1>9. ASSUME NEW e \in Events, Age(e) PROVE Delivery!Next \/ UNCHANGED Delivery!vars
  BY <1>1, <1>9 DEF Age, stream
<1>10. ASSUME NEW p \in Procs, Crash(p) \/ XPending(p)
       PROVE  Delivery!Next \/ UNCHANGED Delivery!vars
  BY <1>1, <1>10 DEF Crash, XPending, stream, redis, history
<1>11. ASSUME NEW p \in Procs, NEW h \in Handlers, Subscribe(p, h)
       PROVE  Delivery!Next \/ UNCHANGED Delivery!vars
  BY <1>1, <1>11 DEF Subscribe, stream, redis, history
<1>12. CASE UNCHANGED vars
  BY <1>1, <1>12 DEF vars, stream, redis, history
<1> QED
  BY <1>2, <1>3, <1>4, <1>5, <1>6, <1>7, <1>8, <1>9, <1>10, <1>11, <1>12 DEF Next

\* The consumer group of api/events/redis.go keeps the promise of
\* EventDelivery, whatever the number of processes, handlers and faults.
THEOREM StreamImplementsDelivery == Spec => ImplementsDelivery
<1>1. Init => AccountedInv /\ BatchInv /\ HandledInv
  BY DEF Init, AccountedInv, Accounted, BatchInv, HandledInv, WorkOf, NoSilentLoss
<1> QED
  BY <1>1, InitRefines, StepRefines, AccountedStep, BatchStep, HandledStep, TypeCorrect, PTL
     DEF Spec, ImplementsDelivery, Delivery!Spec
==============================================================================
