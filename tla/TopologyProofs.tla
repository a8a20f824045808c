---------------------------- MODULE TopologyProofs ----------------------------
(***************************************************************************)
(* Proofs about Topology, for any instances and services and any number of *)
(* failures and ended processes.                                           *)
(***************************************************************************)
EXTENDS Topology, TLAPS

LEMMA EventsType ==
  ASSUME NEW E, NEW q \in Seq(E)
  PROVE  /\ <<>> \in Seq(E)
         /\ \A e \in E : Append(q, e) \in Seq(E)
         /\ q # <<>> => Head(q) \in E /\ Tail(q) \in Seq(E)
OBVIOUS

LEMMA CountType ==
  ASSUME NEW S, NEW f \in [S -> Nat], NEW x \in S
  PROVE  /\ [f EXCEPT ![x] = @ + 1] \in [S -> Nat]
         /\ f[x] > 0 => [f EXCEPT ![x] = @ - 1] \in [S -> Nat]
OBVIOUS

LEMMA CountedIsNoted ==
  ASSUME NEW S, NEW f \in [S -> Nat], NEW x \in S, NEW K, \A y \in S : f[y] > 0 <=> y \in K
  PROVE  \A y \in S : [f EXCEPT ![x] = @ + 1][y] > 0 <=> y \in K \union {x}
OBVIOUS

LEMMA NoneType == None \in [ServiceSides -> Nat] /\ \A x \in ServiceSides : None[x] = 0
BY DEF None

LEMMA FaultType == faults \in 0..MaxFaults /\ (Fault \/ UNCHANGED faults) => faults' \in 0..MaxFaults
BY TopologyAssumption DEF TopologyAssumption, Fault

\* The types that the steps of the configuration service and of the instances
\* disturb.
LEMMA ConfigurationTypes == TypeOK /\ ConfigurationNext => TypeOK'
<1> SUFFICES ASSUME TypeOK, ConfigurationNext PROVE TypeOK'
  OBVIOUS
<1> USE DEF TypeOK, networkingVars, ServiceSides
<1>1. ASSUME NEW i \in Instances, AskIn(i) PROVE TypeOK'
  BY <1>1 DEF AskIn, AskNext, Missing, Sides
<1>2. ASSUME NEW i \in Instances, AskOut(i) PROVE TypeOK'
  BY <1>2 DEF AskOut, AskNext, Missing, Sides
<1>3. ASSUME NEW i \in Instances, AskFails(i) PROVE TypeOK'
  BY <1>3, FaultType DEF AskFails, AskNext
<1>4. ASSUME NEW i \in Instances, NEW side \in Sides, Store(i, side) PROVE TypeOK'
  <2>1. <<service[i], side>> \in ServiceSides /\ jobs' \in [Instances -> SUBSET (Sides \union {"publish"})]
    BY <1>4 DEF Store
  <2> QED
    BY <1>4, <2>1 DEF Store
<1>5. ASSUME NEW i \in Instances, Publish(i) PROVE TypeOK'
  <2>1. EventType(i) \in {"REGISTER", "UPDATE", "NOOP"} /\ service[i] \in Services
    BY DEF EventType
  <2>2. events' \in Seq(Event)
    <3>1. [type |-> EventType(i), service |-> service[i]] \in Event /\ events \in Seq(Event)
      BY <2>1 DEF Event
    <3> HIDE DEF TypeOK
    <3> QED
      BY <1>5, <3>1, EventsType DEF Publish
  <2>3. jobs' \in [Instances -> SUBSET (Sides \union {"publish"})] /\ fresh' \in [Instances -> SUBSET Sides]
    BY <1>5 DEF Publish
  <2> QED
    BY <1>5, <2>1, <2>2, <2>3 DEF Publish
<1>6. ASSUME NEW i \in Instances, NEW job \in Sides \union {"publish"}, JobFails(i, job)
      PROVE  TypeOK'
  BY <1>6, FaultType DEF JobFails
<1>7. ASSUME NEW i \in Instances, Return(i) PROVE TypeOK'
  BY <1>7 DEF Return, AskNext
<1>8. ASSUME NEW i \in Instances, InstanceCrash(i) PROVE TypeOK'
  BY <1>8, FaultType DEF InstanceCrash, AskNext
<1>9. CASE ConfigurationCrash
  BY <1>9, FaultType DEF ConfigurationCrash, BootSteps
<1> QED
  BY <1>1, <1>2, <1>3, <1>4, <1>5, <1>6, <1>7, <1>8, <1>9 DEF ConfigurationNext

LEMMA LookUpType ==
  ASSUME looking \in [ServiceSides -> Nat], NEW sides, LookUp(sides)
  PROVE  looking' \in [ServiceSides -> Nat]
BY DEF LookUp

\* The same for the steps of the networking service.
LEMMA NetworkingTypes == TypeOK /\ NetworkingNext => TypeOK'
<1> SUFFICES ASSUME TypeOK, NetworkingNext PROVE TypeOK'
  OBVIOUS
<1> USE DEF TypeOK, KeepConfiguration, configurationVars, BootNext, BootSteps, NoFault
<1>1. CASE StartScan
  BY <1>1 DEF StartScan, Sides
<1>2. ASSUME NEW side \in Sides, Scan(side) PROVE TypeOK'
  BY <1>2, FaultType DEF Scan
<1>3. CASE CreateGroup
  BY <1>3 DEF CreateGroup
<1>4. CASE AskConfigurationFails
  BY <1>4, FaultType DEF AskConfigurationFails
<1>5. CASE HandleTopology
  BY <1>5, LookUpType DEF HandleTopology
<1>6. CASE SubscribeNext
  BY <1>6 DEF SubscribeNext
<1>7. CASE Deliver
  <2>1. Head(events).service \in Services /\ events' \in Seq(Event)
    <3>1. events \in Seq(Event) /\ events # <<>> /\ events' = Tail(events)
      BY <1>7 DEF Deliver, Remaining
    <3>2. Head(events) \in Event /\ Tail(events) \in Seq(Event)
      BY <3>1, EventsType
    <3> QED
      BY <3>1, <3>2 DEF Event
  <2>2. missed' \subseteq Services /\ looking' \in [ServiceSides -> Nat]
    BY <1>7, <2>1, LookUpType DEF Deliver
  <2> QED
    BY <1>7, <2>1, <2>2 DEF Deliver
<1>8. ASSUME NEW x \in ServiceSides, Look(x) PROVE TypeOK'
  <2>1. looking' \in [ServiceSides -> Nat] /\ noting' \in [ServiceSides -> Nat]
    BY <1>8, CountType DEF Look
  <2>2. raced' \subseteq ServiceSides
    BY <1>8 DEF Look
  <2> QED
    BY <1>8, <2>1, <2>2 DEF Look
<1>9. ASSUME NEW x \in ServiceSides, Note(x) PROVE TypeOK'
  <2>1. noting' \in [ServiceSides -> Nat] /\ routes' \in [ServiceSides -> Nat]
    BY <1>9, CountType DEF Note
  <2>2. known' \subseteq ServiceSides /\ \A y \in ServiceSides : routes'[y] > 0 <=> y \in known'
    <3>1. routes' = [routes EXCEPT ![x] = @ + 1] /\ known' = known \union {x}
      BY <1>9 DEF Note, Noted
    <3>2. \A y \in ServiceSides : routes'[y] > 0 <=> y \in known'
      <4>1. routes \in [ServiceSides -> Nat] /\ \A y \in ServiceSides : routes[y] > 0 <=> y \in known
        OBVIOUS
      <4> HIDE DEF TypeOK
      <4> QED
        BY <3>1, <4>1, CountedIsNoted
    <3> QED
      BY <3>1, <3>2
  <2> QED
    BY <1>9, <2>1, <2>2 DEF Note
<1>10. CASE NetworkingCrash
  <2>1. /\ looking' = None /\ noting' = None /\ routes' = None /\ known' = {}
        /\ events' = <<>> /\ boot' = "ask" /\ toScan' = {} /\ topology' = {} /\ handled' = {}
        /\ raced' = {} /\ faults' \in 0..MaxFaults
        /\ UNCHANGED <<service, stored, call, fresh, jobs, refused, announced, missed>>
    BY <1>10, FaultType DEF NetworkingCrash
  <2>2. events' \in Seq(Event)
    BY <2>1, EventsType
  <2>3. \A x \in ServiceSides : routes'[x] > 0 <=> x \in known'
    <3> HIDE DEF TypeOK
    <3> QED
      BY <2>1, NoneType
  <2> QED
    BY <2>1, <2>2, <2>3, NoneType
<1> QED
  BY <1>1, <1>2, <1>3, <1>4, <1>5, <1>6, <1>7, <1>8, <1>9, <1>10 DEF NetworkingNext

LEMMA TypeStep == TypeOK /\ [Next]_vars => TypeOK'
<1>1. TypeOK /\ UNCHANGED vars => TypeOK'
  BY DEF TypeOK, vars, configurationVars, networkingVars
<1> QED
  BY <1>1, ConfigurationTypes, NetworkingTypes DEF Next

\* TypeOK of Topology: in particular a side is known exactly if it was
\* registered since the networking service started.
THEOREM TypeCorrect == Spec => []TypeOK
<1>1. Init => TypeOK
  <2> SUFFICES ASSUME Init PROVE TypeOK
    OBVIOUS
  <2>1. events \in Seq(Event) /\ refused \in [Instances -> BOOLEAN]
    <3>1. refused = [i \in Instances |-> FALSE] /\ events = <<>>
      BY DEF Init
    <3> QED
      BY <3>1, EventsType
  <2>2. \A x \in ServiceSides : routes[x] > 0 <=> x \in known
    <3>1. routes = None /\ known = {}
      BY DEF Init
    <3> QED
      BY <3>1, NoneType
  <2>3. /\ service \in [Instances -> Services]
        /\ call = [i \in Instances |-> "ask in"] /\ fresh = [i \in Instances |-> {}]
        /\ jobs = [i \in Instances |-> {}]
        /\ stored = {} /\ announced = {} /\ boot = "ask" /\ toScan = {} /\ topology = {} /\ handled = {}
        /\ looking = None /\ noting = None /\ routes = None /\ known = {}
        /\ missed = {} /\ raced = {} /\ faults = 0
    BY DEF Init
  <2>4. /\ call \in [Instances -> {"ask in", "ask out", "wait", "registered"}]
        /\ fresh \in [Instances -> SUBSET Sides]
        /\ jobs \in [Instances -> SUBSET (Sides \union {"publish"})]
    BY <2>3
  <2>5. faults \in 0..MaxFaults
    <3>1. faults = 0 /\ MaxFaults \in Nat
      BY TopologyAssumption DEF TopologyAssumption, Init
    <3> QED
      BY <3>1
  <2>6. looking \in [ServiceSides -> Nat] /\ noting \in [ServiceSides -> Nat] /\ routes \in [ServiceSides -> Nat]
    BY <2>3, NoneType
  <2> QED
    BY <2>1, <2>2, <2>3, <2>4, <2>5, <2>6 DEF TypeOK, BootSteps
<1> QED
  BY <1>1, TypeStep, PTL DEF Spec

-----------------------------------------------------------------------------
(* A side that is registered twice *)

\* A goroutine that is about to note a side counts already: the second one is
\* there only if it looked the side up before the first one noted it.
RaceInv == \A x \in ServiceSides : routes[x] + noting[x] > 1 => x \in raced

LEMMA RaceStep == TypeOK /\ RaceInv /\ [Next]_vars => RaceInv'
<1> SUFFICES ASSUME TypeOK, RaceInv, [Next]_vars, NEW x \in ServiceSides, routes'[x] + noting'[x] > 1
             PROVE  x \in raced'
  BY DEF RaceInv
<1>1. /\ routes \in [ServiceSides -> Nat] /\ noting \in [ServiceSides -> Nat]
      /\ \A y \in ServiceSides : routes[y] > 0 <=> y \in known
  BY DEF TypeOK
<1>2. CASE UNCHANGED <<routes, noting>> /\ raced' = raced
  BY <1>2 DEF RaceInv
<1>3. ASSUME NEW y \in ServiceSides, Look(y) PROVE x \in raced'
  <2>1. /\ routes' = routes
        /\ noting' = IF y \notin known THEN [noting EXCEPT ![y] = @ + 1] ELSE noting
        /\ raced' = IF noting[y] > 0 /\ y \notin known THEN raced \union {y} ELSE raced
    BY <1>3 DEF Look, Unknown
  <2>2. CASE x = y /\ y \notin known
    <3>1. routes[x] = 0 /\ noting'[x] = noting[x] + 1
      BY <1>1, <2>1, <2>2
    <3>2. noting[x] > 0
      BY <1>1, <2>1, <3>1
    <3> QED
      BY <2>1, <2>2, <3>2
  <2>3. CASE x # y \/ y \in known
    <3>1. noting'[x] = noting[x]
      BY <1>1, <2>1, <2>3
    <3> QED
      BY <2>1, <3>1 DEF RaceInv
  <2> QED
    BY <2>2, <2>3
<1>4. ASSUME NEW y \in ServiceSides, Note(y) PROVE x \in raced'
  <2>1. /\ routes' = [routes EXCEPT ![y] = @ + 1] /\ noting' = [noting EXCEPT ![y] = @ - 1]
        /\ raced' = raced
    BY <1>4 DEF Note
  <2>2. routes'[x] + noting'[x] = routes[x] + noting[x]
    <3>1. CASE x = y
      <4>1. routes'[x] = routes[x] + 1 /\ noting'[x] = noting[x] - 1
        BY <1>1, <2>1, <3>1
      <4>2. routes[x] \in Nat /\ noting[x] \in Nat
        BY <1>1
      <4> QED
        BY <4>1, <4>2
    <3>2. CASE x # y
      BY <1>1, <2>1, <3>2
    <3> QED
      BY <3>1, <3>2
  <2> QED
    BY <2>1, <2>2 DEF RaceInv
<1>5. CASE NetworkingCrash
  <2>1. routes' = None /\ noting' = None
    BY <1>5 DEF NetworkingCrash
  <2> QED
    BY <2>1, NoneType
<1>6. CASE ConfigurationNext
  BY <1>2, <1>6 DEF ConfigurationNext, AskIn, AskOut, AskFails, Publish, Return, InstanceCrash, Store,
       JobFails, ConfigurationCrash, networkingVars
<1>7. CASE StartScan \/ CreateGroup \/ AskConfigurationFails \/ HandleTopology \/ SubscribeNext
           \/ Deliver \/ \E side \in Sides : Scan(side)
  BY <1>2, <1>7 DEF StartScan, CreateGroup, AskConfigurationFails, HandleTopology, SubscribeNext, Deliver, Scan
<1>8. CASE UNCHANGED vars
  BY <1>2, <1>8 DEF vars, networkingVars
<1> QED
  BY <1>3, <1>4, <1>5, <1>6, <1>7, <1>8 DEF Next, NetworkingNext

\* DoubledOnlyByRace: RegisterIncomingService and RegisterOutgoingService
\* register a side twice only if two goroutines found it unknown together.
THEOREM DoubledByRaceAlone == Spec => []DoubledOnlyByRace
<1>1. Init => RaceInv
  <2>1. Init => routes = None /\ noting = None
    BY DEF Init
  <2> QED
    BY <2>1, NoneType DEF RaceInv
<1>2. TypeOK /\ RaceInv => DoubledOnlyByRace
  <2> SUFFICES ASSUME TypeOK, RaceInv, NEW x \in ServiceSides, routes[x] > 1 PROVE x \in raced
    BY DEF DoubledOnlyByRace
  <2>1. routes[x] \in Nat /\ noting[x] \in Nat
    BY DEF TypeOK
  <2>2. routes[x] + noting[x] > 1
    BY <2>1
  <2> QED
    BY <2>2 DEF RaceInv
<1> QED
  BY <1>1, <1>2, RaceStep, TypeCorrect, PTL DEF Spec

-----------------------------------------------------------------------------
(* A service without routes *)

Publishing(s) == \E i \in Instances : service[i] = s /\ "publish" \in jobs[i] /\ fresh[i] # {}
Storing(s) == \E i \in Instances : service[i] = s /\ "out" \in jobs[i]
Stored(s) == <<s, "out">> \in stored \/ Storing(s)
Queued(s) == \E n \in 1..Len(events) : events[n].service = s /\ events[n].type # "NOOP"
Found(x) == x \in topology \/ looking[x] > 0 \/ noting[x] > 0 \/ x \in known
Covered(s) == \A x \in SidesOf(s) : Found(x)

\* A call that has got as far as its goroutines stores the outgoing side, unless
\* it is refused; its event is published before it returns.
CallInv == \A i \in Instances :
  /\ "publish" \in jobs[i] => call[i] = "wait"
  /\ call[i] = "wait" => refused[i] \/ "out" \in jobs[i] \/ <<service[i], "out">> \in stored
  /\ call[i] = "registered" => <<service[i], "out">> \in stored

\* Whoever stores a side has an event to publish that says so.
AnnouncedInv == \A s \in Services : Stored(s) => s \in announced \/ Publishing(s)

\* Once its group is there, the networking service has found a service, or the
\* event is on its way, or it was lost.
RoutedInv ==
  /\ GroupExists => \A s \in Services :
       Stored(s) => s \in missed \/ Covered(s) \/ Publishing(s) \/ Queued(s)
  /\ boot \in {"subscribe", "up"} => topology = {}

LEMMA CallStep == TypeOK /\ CallInv /\ [Next]_vars => CallInv'
<1> SUFFICES ASSUME TypeOK, CallInv, [Next]_vars PROVE CallInv'
  OBVIOUS
<1>1. ASSUME NEW i \in Instances, AskIn(i) PROVE CallInv'
  BY <1>1 DEF CallInv, TypeOK, AskIn, AskNext, Missing
<1>2. ASSUME NEW i \in Instances, AskOut(i) PROVE CallInv'
  BY <1>2 DEF CallInv, TypeOK, AskOut, AskNext, Missing
<1>3. ASSUME NEW i \in Instances, AskFails(i) PROVE CallInv'
  BY <1>3 DEF CallInv, TypeOK, AskFails, AskNext
<1>4. ASSUME NEW i \in Instances, NEW side \in Sides, Store(i, side) PROVE CallInv'
  BY <1>4 DEF CallInv, TypeOK, Store, Sides
<1>5. ASSUME NEW i \in Instances, Publish(i) PROVE CallInv'
  BY <1>5 DEF CallInv, TypeOK, Publish
<1>6. ASSUME NEW i \in Instances, NEW job \in Sides \union {"publish"}, JobFails(i, job) PROVE CallInv'
  BY <1>6 DEF CallInv, TypeOK, JobFails
<1>7. ASSUME NEW i \in Instances, Return(i) PROVE CallInv'
  BY <1>7 DEF CallInv, TypeOK, Return, AskNext
<1>8. ASSUME NEW i \in Instances, InstanceCrash(i) PROVE CallInv'
  BY <1>8 DEF CallInv, TypeOK, InstanceCrash, AskNext
<1>9. CASE ConfigurationCrash
  BY <1>9 DEF CallInv, TypeOK, ConfigurationCrash
<1>10. CASE NetworkingNext \/ UNCHANGED vars
  <2>1. UNCHANGED <<service, stored, call, jobs, refused>>
    BY <1>10 DEF NetworkingNext, StartScan, Scan, CreateGroup, AskConfigurationFails, HandleTopology,
         SubscribeNext, Deliver, Look, Note, NetworkingCrash, KeepConfiguration, configurationVars, vars
  <2> QED
    BY <2>1 DEF CallInv
<1> QED
  BY <1>1, <1>2, <1>3, <1>4, <1>5, <1>6, <1>7, <1>8, <1>9, <1>10 DEF Next, ConfigurationNext

\* What a step of the configuration service makes of the events that are still
\* to be published: they stay, become announced, or are lost.
LEMMA PublishingStep ==
  ASSUME TypeOK, CallInv, ConfigurationNext, NEW s \in Services
  PROVE  /\ Stored(s)' => Stored(s) \/ Publishing(s)'
         /\ Publishing(s) => Publishing(s)' \/ s \in announced'
         /\ announced \subseteq announced'
         /\ missed \subseteq missed'
         /\ GroupExists /\ Publishing(s) => Publishing(s)' \/ s \in missed' \/ Queued(s)'
<1> USE DEF Stored, Storing, Publishing
<1> DEFINE Goal ==
  /\ Stored(s)' => Stored(s) \/ Publishing(s)'
  /\ Publishing(s) => Publishing(s)' \/ s \in announced'
  /\ announced \subseteq announced'
  /\ missed \subseteq missed'
  /\ GroupExists /\ Publishing(s) => Publishing(s)' \/ s \in missed' \/ Queued(s)'
<1>1. ASSUME NEW i \in Instances, AskIn(i) PROVE Goal
  BY <1>1 DEF CallInv, TypeOK, AskIn, AskNext, Missing
<1>2. ASSUME NEW i \in Instances, AskOut(i) PROVE Goal
  BY <1>2 DEF CallInv, TypeOK, AskOut, AskNext, Missing
<1>3. ASSUME NEW i \in Instances, AskFails(i) PROVE Goal
  BY <1>3 DEF CallInv, TypeOK, AskFails, AskNext
<1>4. ASSUME NEW i \in Instances, NEW side \in Sides, Store(i, side) PROVE Goal
  BY <1>4 DEF TypeOK, Store, Sides
<1>5. ASSUME NEW i \in Instances, Publish(i) PROVE Goal
  <2>1. ASSUME GroupExists, service[i] = s, fresh[i] # {} PROVE Queued(s)'
    <3> DEFINE e == [type |-> EventType(i), service |-> service[i]]
    <3>1. EventType(i) # "NOOP"
      BY <2>1 DEF EventType
    <3>2. events' = Append(events, e) /\ events \in Seq(Event)
      BY <1>5, <2>1 DEF Publish, TypeOK
    <3>3. Len(events) + 1 \in 1..Len(events') /\ events'[Len(events) + 1] = e
      BY <3>2
    <3> QED
      BY <2>1, <3>1, <3>3 DEF Queued
  <2> QED
    BY <1>5, <2>1 DEF TypeOK, Publish
<1>6. ASSUME NEW i \in Instances, NEW job \in Sides \union {"publish"}, JobFails(i, job) PROVE Goal
  BY <1>6 DEF TypeOK, JobFails
<1>7. ASSUME NEW i \in Instances, Return(i) PROVE Goal
  BY <1>7 DEF TypeOK, Return, AskNext
<1>8. ASSUME NEW i \in Instances, InstanceCrash(i) PROVE Goal
  BY <1>8 DEF InstanceCrash, AskNext
<1>9. CASE ConfigurationCrash
  BY <1>9 DEF TypeOK, ConfigurationCrash
<1> QED
  BY <1>1, <1>2, <1>3, <1>4, <1>5, <1>6, <1>7, <1>8, <1>9 DEF ConfigurationNext

LEMMA AnnouncedStep == TypeOK /\ CallInv /\ AnnouncedInv /\ [Next]_vars => AnnouncedInv'
<1> SUFFICES ASSUME TypeOK, CallInv, AnnouncedInv, [Next]_vars, NEW s \in Services, Stored(s)'
             PROVE  (s \in announced \/ Publishing(s))'
  BY DEF AnnouncedInv
<1>1. CASE ConfigurationNext
  BY <1>1, PublishingStep DEF AnnouncedInv
<1>2. CASE NetworkingNext \/ UNCHANGED vars
  <2>1. UNCHANGED <<service, stored, jobs, fresh, announced>>
    BY <1>2 DEF NetworkingNext, StartScan, Scan, CreateGroup, AskConfigurationFails, HandleTopology,
         SubscribeNext, Deliver, Look, Note, NetworkingCrash, KeepConfiguration, configurationVars, vars
  <2> QED
    BY <2>1 DEF AnnouncedInv, Stored, Storing, Publishing
<1> QED
  BY <1>1, <1>2 DEF Next

LEMMA SidesType == \A s \in Services : SidesOf(s) \subseteq ServiceSides
BY DEF SidesOf, ServiceSides

LEMMA LookUpAdds ==
  ASSUME looking \in [ServiceSides -> Nat], NEW sides, LookUp(sides), NEW x \in ServiceSides
  PROVE  (looking[x] > 0 \/ x \in sides) => looking'[x] > 0
BY DEF LookUp

\* The same for the networking service: what it has found stays found, and an
\* event that leaves its queue has been handled, changed nothing, or is lost.
LEMMA CoveredStep ==
  ASSUME TypeOK, NetworkingNext, GroupExists, GroupExists', NEW s \in Services
  PROVE  /\ Covered(s) => Covered(s)'
         /\ Queued(s) => Queued(s)' \/ Covered(s)' \/ s \in missed'
         /\ s \in missed => s \in missed' \/ Covered(s)'
<1> DEFINE Goal ==
  /\ Covered(s) => Covered(s)'
  /\ Queued(s) => Queued(s)' \/ Covered(s)' \/ s \in missed'
  /\ s \in missed => s \in missed' \/ Covered(s)'
<1>1. CASE HandleTopology
  <2>1. UNCHANGED <<noting, known, missed, events>>
    BY <1>1 DEF HandleTopology
  <2>2. ASSUME NEW z \in ServiceSides, Found(z) PROVE Found(z)'
    BY <1>1, <2>1, <2>2, LookUpAdds DEF HandleTopology, Found, TypeOK
  <2> QED
    BY <2>1, <2>2, SidesType DEF Covered, Queued
<1>2. CASE SubscribeNext
  BY <1>2 DEF SubscribeNext, Queued, Covered, Found
<1>3. CASE Deliver
  <2>1. /\ LookUp(IF Head(events).type \in handled THEN SidesOf(Head(events).service) ELSE {})
        /\ events # <<>> /\ events' = Tail(events) /\ UNCHANGED <<topology, noting, known>>
        /\ events \in Seq(Event) /\ looking \in [ServiceSides -> Nat]
    BY <1>3 DEF Deliver, Remaining, TypeOK
  <2>2. PICK e \in Event : e = Head(events)
    BY <2>1, EventsType
  <2>3. /\ e.service \in Services
        /\ e.type \in handled => missed' = missed \ {e.service}
        /\ e.type \notin handled => missed \subseteq missed'
        /\ e.type \notin handled /\ e.type # "NOOP" => e.service \in missed'
    BY <1>3, <2>2 DEF Deliver, Event
  <2>4. ASSUME NEW z \in ServiceSides, Found(z) PROVE Found(z)'
    BY <2>1, <2>4, LookUpAdds DEF Found
  <2>5. ASSUME e.type \in handled PROVE Covered(e.service)'
    <3>1. ASSUME NEW z \in SidesOf(e.service) PROVE looking'[z] > 0
      BY <2>1, <2>2, <2>3, <2>5, <3>1, LookUpAdds, SidesType
    <3> QED
      BY <3>1 DEF Covered, Found
  <2>6. Queued(s) => Queued(s)' \/ (e.service = s /\ e.type # "NOOP")
    <3> SUFFICES ASSUME NEW n \in 1..Len(events), events[n].service = s, events[n].type # "NOOP", n # 1
                 PROVE  Queued(s)'
      BY <2>1, <2>2 DEF Queued
    <3>1. n - 1 \in 1..Len(events') /\ events'[n - 1] = events[n]
      BY <2>1
    <3> QED
      BY <3>1 DEF Queued
  <2>7. e.service = s /\ e.type # "NOOP" => Covered(s)' \/ s \in missed'
    BY <2>3, <2>5
  <2>8. s \in missed => s \in missed' \/ Covered(s)'
    BY <2>3, <2>5
  <2>9. Covered(s) => Covered(s)'
    BY <2>4, SidesType DEF Covered
  <2> QED
    BY <2>6, <2>7, <2>8, <2>9
<1>4. ASSUME NEW x \in ServiceSides, Look(x) PROVE Goal
  <2>1. /\ UNCHANGED <<topology, known, missed, events>>
        /\ looking' = [looking EXCEPT ![x] = @ - 1]
        /\ noting' = IF x \notin known THEN [noting EXCEPT ![x] = @ + 1] ELSE noting
    BY <1>4 DEF Look, Unknown
  <2>2. ASSUME NEW z \in ServiceSides, Found(z) PROVE Found(z)'
    <3>1. looking \in [ServiceSides -> Nat] /\ noting \in [ServiceSides -> Nat]
      BY DEF TypeOK
    <3>2. CASE z # x
      BY <2>1, <2>2, <3>1, <3>2 DEF Found
    <3>3. CASE z = x /\ x \notin known
      BY <2>1, <3>1, <3>3 DEF Found
    <3>4. CASE z = x /\ x \in known
      BY <2>1, <3>4 DEF Found
    <3> QED
      BY <3>2, <3>3, <3>4
  <2> QED
    BY <2>1, <2>2, SidesType DEF Covered, Queued
<1>5. ASSUME NEW x \in ServiceSides, Note(x) PROVE Goal
  <2>1. UNCHANGED <<topology, looking, missed, events>>
        /\ noting' = [noting EXCEPT ![x] = @ - 1] /\ known' = known \union {x}
    BY <1>5 DEF Note, Noted
  <2>2. ASSUME NEW z \in ServiceSides, Found(z) PROVE Found(z)'
    BY <2>1, <2>2 DEF Found, TypeOK
  <2> QED
    BY <2>1, <2>2, SidesType DEF Covered, Queued
<1>6. CASE StartScan \/ CreateGroup \/ AskConfigurationFails \/ NetworkingCrash
           \/ \E side \in Sides : Scan(side)
  BY <1>6 DEF StartScan, CreateGroup, AskConfigurationFails, NetworkingCrash, Scan, GroupExists, BootNext
<1> QED
  BY <1>1, <1>2, <1>3, <1>4, <1>5, <1>6 DEF NetworkingNext

LEMMA RoutedStep == TypeOK /\ CallInv /\ AnnouncedInv /\ RoutedInv /\ [Next]_vars => RoutedInv'
<1> SUFFICES ASSUME TypeOK, CallInv, AnnouncedInv, RoutedInv, [Next]_vars PROVE RoutedInv'
  OBVIOUS
<1>1. CASE ConfigurationNext
  <2>1. /\ UNCHANGED <<topology, looking, noting, known>>
        /\ boot' = boot \/ (boot = "scan" /\ boot' = "deaf")
    BY <1>1 DEF ConfigurationNext, AskIn, AskOut, AskFails, Publish, Return, InstanceCrash, Store, JobFails,
         ConfigurationCrash, networkingVars
  <2>2. ASSUME GroupExists', NEW s \in Services, Stored(s)'
        PROVE  (s \in missed \/ Covered(s) \/ Publishing(s) \/ Queued(s))'
    <3>1. GroupExists /\ (Covered(s)' <=> Covered(s))
      BY <2>1, <2>2 DEF GroupExists, Covered, Found, SidesOf
    <3>2. Queued(s) => Queued(s)'
      <4>1. events' = events \/ \E e \in Event : events' = Append(events, e)
        BY <1>1 DEF ConfigurationNext, AskIn, AskOut, AskFails, Publish, Return, InstanceCrash, Store, JobFails,
             ConfigurationCrash, networkingVars, EventType, Event, TypeOK
      <4>2. events \in Seq(Event)
        BY DEF TypeOK
      <4>3. ASSUME NEW n \in 1..Len(events) PROVE n \in 1..Len(events') /\ events'[n] = events[n]
        BY <4>1, <4>2
      <4> QED
        BY <4>3 DEF Queued
    <3> QED
      BY <1>1, <2>2, <3>1, <3>2, PublishingStep DEF RoutedInv
  <2> QED
    BY <2>1, <2>2 DEF RoutedInv
<1>2. CASE NetworkingNext
  <2>1. UNCHANGED <<service, stored, jobs, fresh>>
    BY <1>2 DEF NetworkingNext, StartScan, Scan, CreateGroup, AskConfigurationFails, HandleTopology,
         SubscribeNext, Deliver, Look, Note, NetworkingCrash, KeepConfiguration, configurationVars
  <2>2. ASSUME NEW s \in Services, GroupExists', Stored(s)'
        PROVE  (s \in missed \/ Covered(s) \/ Publishing(s) \/ Queued(s))'
    <3>1. Stored(s) /\ (Publishing(s)' <=> Publishing(s))
      BY <2>1, <2>2 DEF Stored, Storing, Publishing
    <3>2. CASE GroupExists
      BY <1>2, <2>2, <3>1, <3>2, CoveredStep DEF RoutedInv
    <3>3. CASE ~GroupExists
      <4>1. CreateGroup
        BY <1>2, <2>2, <3>3 DEF NetworkingNext, GroupExists, StartScan, Scan, CreateGroup, AskConfigurationFails,
             HandleTopology, SubscribeNext, Deliver, Look, Note, NetworkingCrash, BootNext
      <4>2. s \in announced => s \in missed' \/ Covered(s)'
        BY <4>1 DEF CreateGroup, Covered, Found
      <4> QED
        BY <3>1, <4>2 DEF AnnouncedInv
    <3> QED
      BY <3>2, <3>3
  <2>3. boot' \in {"subscribe", "up"} => topology' = {}
    BY <1>2 DEF RoutedInv, NetworkingNext, StartScan, Scan, CreateGroup, AskConfigurationFails,
         HandleTopology, SubscribeNext, Deliver, Look, Note, NetworkingCrash, BootNext
  <2> QED
    BY <2>2, <2>3 DEF RoutedInv
<1>3. CASE UNCHANGED vars
  BY <1>3 DEF RoutedInv, vars, configurationVars, networkingVars, GroupExists, Stored, Storing, Covered, Found,
       Publishing, Queued, SidesOf
<1> QED
  BY <1>1, <1>2, <1>3 DEF Next

LEMMA RoutedInvariant == Spec => [](CallInv /\ RoutedInv)
<1>1. Init => CallInv /\ AnnouncedInv /\ RoutedInv
  <2> SUFFICES ASSUME Init PROVE CallInv /\ AnnouncedInv /\ RoutedInv
    OBVIOUS
  <2>1. CallInv
    BY DEF Init, CallInv
  <2>2. \A s \in Services : ~Stored(s)
    BY DEF Init, Stored, Storing
  <2> QED
    BY <2>1, <2>2 DEF Init, AnnouncedInv, RoutedInv
<1> QED
  BY <1>1, CallStep, AnnouncedStep, RoutedStep, TypeCorrect, PTL DEF Spec

\* UnroutedCause: a service that was told it is registered and has no routes
\* has lost an event, whatever fails, ends and is restarted, and however the
\* scan, the group and the publications interleave.
THEOREM UnroutedOnlyIfLost == Spec => []UnroutedCause
<1>1. TypeOK /\ CallInv /\ RoutedInv => UnroutedCause
  <2> SUFFICES ASSUME TypeOK, CallInv, RoutedInv, AtRest, NEW s \in Services, Registered(s), s \notin missed
               PROVE  Routed(s)
    BY DEF UnroutedCause
  <2>1. PICK i \in Instances : service[i] = s /\ call[i] = "registered"
    BY DEF Registered
  <2>2. Stored(s) /\ GroupExists /\ topology = {}
    BY <2>1 DEF CallInv, Stored, AtRest, GroupExists, RoutedInv
  <2>3. ~Publishing(s) /\ ~Queued(s)
    <3>1. ~Publishing(s)
      BY DEF AtRest, CallInv, Publishing
    <3>2. events = <<>> /\ Len(events) = 0
      BY DEF AtRest
    <3> QED
      BY <3>1, <3>2 DEF Queued
  <2>4. Covered(s)
    BY <2>2, <2>3 DEF RoutedInv
  <2>5. \A x \in ServiceSides : looking[x] = 0 /\ noting[x] = 0
    BY NoneType DEF AtRest
  <2> QED
    BY <2>2, <2>4, <2>5, SidesType DEF Covered, Found, Routed
<1> QED
  BY <1>1, RoutedInvariant, TypeCorrect, PTL DEF Spec
==============================================================================
