------------------------- MODULE EventDeliveryProofs -------------------------
(* The promise of EventDelivery follows from its actions. *)
EXTENDS EventDelivery, TLAPS

DeliveryInv == TypeOK /\ SettledWasServed

LEMMA DeliveryStep == DeliveryInv /\ [Next]_vars => DeliveryInv'
<1> SUFFICES ASSUME DeliveryInv, [Next]_vars PROVE DeliveryInv'
  OBVIOUS
<1> USE DEF DeliveryInv
<1>1. ASSUME NEW e \in Events, Publish(e) PROVE DeliveryInv'
  <2>1. TypeOK'
    BY <1>1 DEF TypeOK, Publish, Status
  <2>2. \A f \in relevant' : status'[f] = "settled" => f \in relevant /\ status[f] = "settled"
    BY <1>1 DEF TypeOK, Publish
  <2> QED
    BY <1>1, <2>1, <2>2 DEF SettledWasServed, Publish
<1>2. ASSUME NEW e \in Events, NEW h \in Handlers, Serve(e, h) PROVE DeliveryInv'
  BY <1>2 DEF TypeOK, SettledWasServed, Serve
<1>3. ASSUME NEW e \in Events, NEW H \in SUBSET Handlers, Miss(e, H) PROVE DeliveryInv'
  BY <1>3 DEF TypeOK, SettledWasServed, Miss
<1>4. ASSUME NEW E \in SUBSET Events, Settle(E) PROVE DeliveryInv'
  <2>1. TypeOK'
    BY <1>4 DEF TypeOK, Settle, Status
  <2>2. \A e \in E \intersect relevant, h \in Handlers : <<e, h>> \in served \union missed
    BY <1>4 DEF Settle
  <2> QED
    BY <1>4, <2>1, <2>2 DEF TypeOK, SettledWasServed, Settle
<1>5. ASSUME NEW E \in SUBSET Events, Lose(E) PROVE DeliveryInv'
  BY <1>5 DEF TypeOK, SettledWasServed, Lose, Status
<1>6. CASE UNCHANGED vars
  BY <1>6 DEF TypeOK, SettledWasServed, vars
<1> QED
  BY <1>1, <1>2, <1>3, <1>4, <1>5, <1>6 DEF Next

\* An event that the abstract group has settled has reached every handler that
\* was there when it was dispatched; with the refinement, what RedisStream
\* does keeps this promise too.
THEOREM PromiseKept == Spec => []SettledWasServed
<1>1. Init => DeliveryInv
  BY DEF Init, DeliveryInv, TypeOK, SettledWasServed, Status
<1>2. DeliveryInv => SettledWasServed
  BY DEF DeliveryInv
<1> QED
  BY <1>1, <1>2, DeliveryStep, PTL DEF Spec
==============================================================================
