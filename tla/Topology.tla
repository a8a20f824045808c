------------------------------- MODULE Topology -------------------------------
(***************************************************************************)
(* How the networking service comes to know the services its packets go    *)
(* to.  Instances of services register with the configuration service,     *)
(* which stores the two sides of a service, "in" for the stream it reads   *)
(* and "out" for the Redis it sends through, and publishes an event on a   *)
(* stream; the networking service asks for what is stored when it starts,  *)
(* and then follows the stream from its end.                               *)
(*                                                                         *)
(* A service whose registration fails panics on the missing result and is  *)
(* restarted.  Every process is restarted; Redis and its stream survive.   *)
(***************************************************************************)
EXTENDS Naturals, Sequences, FiniteSets

CONSTANTS
  Instances,    \* the processes that register
  Services,     \* the services they are instances of
  MaxFaults     \* bound: failed calls and ended processes

ASSUME TopologyAssumption == MaxFaults \in Nat

VARIABLES
  \* the configuration service and its callers
  service,    \* service[i]: what i is an instance of
  stored,     \* the sides stored in Redis, as <<service, side>>
  call,       \* call[i]: where the call of RegisterService for i is
  fresh,      \* fresh[i]: the sides that call has found missing
  jobs,       \* jobs[i]: the goroutines it has started and that still run
  refused,    \* refused[i]: has one of them reported an error?
  announced,  \* the services an event of which was published, or was to be
  \* the networking service
  boot,       \* how far its start is
  toScan,     \* the sides GetServices has not scanned yet
  topology,   \* what it has found: <<service, side>>
  handled,    \* the event types it has subscribed a handler for
  events,     \* what its group has not been given yet: [type, service]
  looking,    \* looking[x]: its goroutines that will look side x up
  noting,     \* noting[x]: those that found it unknown and will note it
  known,      \* the sides it knows: IncomingServices and OutgoingServices
  routes,     \* routes[x]: how many times side x was registered
  \* history
  missed,     \* services an event of which was lost
  raced,      \* sides that two goroutines found unknown at the same time
  faults

configurationVars == <<stored, call, fresh, jobs, refused, announced>>
networkingVars == <<boot, toScan, topology, handled, events, looking, noting, known, routes>>
vars == <<service, configurationVars, networkingVars, missed, raced, faults>>

Sides == {"in", "out"}
SidesOf(s) == {s} \X Sides
ServiceSides == Services \X Sides
None == [x \in ServiceSides |-> 0]

\* Where the start of the networking service is: it asks, scans, creates its
\* group, subscribes two handlers, and is up; "deaf" if its question failed.
BootSteps == {"ask", "scan", "group", "subscribe", "up", "deaf"}

Event == [type : {"REGISTER", "UPDATE", "NOOP"}, service : Services]

TypeOK ==
  /\ service \in [Instances -> Services]
  /\ stored \subseteq ServiceSides
  /\ call \in [Instances -> {"ask in", "ask out", "wait", "registered"}]
  /\ fresh \in [Instances -> SUBSET Sides]
  /\ jobs \in [Instances -> SUBSET (Sides \union {"publish"})]
  /\ refused \in [Instances -> BOOLEAN]
  /\ announced \subseteq Services
  /\ boot \in BootSteps
  /\ toScan \subseteq Sides
  /\ topology \subseteq ServiceSides
  /\ handled \subseteq {"REGISTER", "UPDATE"}
  /\ events \in Seq(Event)
  /\ looking \in [ServiceSides -> Nat] /\ noting \in [ServiceSides -> Nat]
  /\ routes \in [ServiceSides -> Nat]
  /\ known \subseteq ServiceSides
  /\ \A x \in ServiceSides : routes[x] > 0 <=> x \in known
  /\ missed \subseteq Services /\ raced \subseteq ServiceSides
  /\ faults \in 0..MaxFaults

Init ==
  /\ service \in [Instances -> Services]
  /\ stored = {}
  /\ call = [i \in Instances |-> "ask in"]
  /\ fresh = [i \in Instances |-> {}]
  /\ jobs = [i \in Instances |-> {}]
  /\ refused = [i \in Instances |-> FALSE]
  /\ announced = {}
  /\ boot = "ask"
  /\ toScan = {}
  /\ topology = {}
  /\ handled = {}
  /\ events = <<>>
  /\ looking = None
  /\ noting = None
  /\ known = {}
  /\ routes = None
  /\ missed = {}
  /\ raced = {}
  /\ faults = 0

Fault == faults < MaxFaults /\ faults' = faults + 1
NoFault == UNCHANGED faults

-----------------------------------------------------------------------------
(* RegisterService, in configuration/rpc.go. *)

Missing(i, side) == IF <<service[i], side>> \in stored THEN {} ELSE {side}
AskNext(i, to) == call' = [call EXCEPT ![i] = to]

\* EXISTS incoming_service: a missing side is stored by a goroutine.
AskIn(i) ==
  /\ call[i] = "ask in"
  /\ AskNext(i, "ask out")
  /\ fresh' = [fresh EXCEPT ![i] = Missing(i, "in")]
  /\ jobs' = [jobs EXCEPT ![i] = @ \union Missing(i, "in")]
  /\ refused' = [refused EXCEPT ![i] = FALSE]
  /\ UNCHANGED <<service, stored, announced, networkingVars, missed, raced, faults>>

\* EXISTS outgoing_service: the same for that side; the event is published by
\* another goroutine, meanwhile.
AskOut(i) ==
  /\ call[i] = "ask out"
  /\ AskNext(i, "wait")
  /\ fresh' = [fresh EXCEPT ![i] = @ \union Missing(i, "out")]
  /\ jobs' = [jobs EXCEPT ![i] = @ \union Missing(i, "out") \union {"publish"}]
  /\ UNCHANGED <<service, stored, refused, announced, networkingVars, missed, raced, faults>>

\* One of these questions fails: the call does, and what it has started runs on.
AskFails(i) ==
  /\ call[i] \in {"ask in", "ask out"}
  /\ Fault
  /\ AskNext(i, "ask in")
  /\ fresh' = [fresh EXCEPT ![i] = {}]
  /\ UNCHANGED <<service, stored, jobs, refused, announced, networkingVars, missed, raced>>

Store(i, side) ==
  /\ side \in jobs[i]
  /\ stored' = stored \union {<<service[i], side>>}
  /\ jobs' = [jobs EXCEPT ![i] = @ \ {side}]
  /\ UNCHANGED <<service, call, fresh, refused, announced, networkingVars, missed, raced, faults>>

\* Both sides new, one of them, none of them.
EventType_ByStore(i) ==
  CASE SidesOf(service[i]) \intersect stored = {} -> "REGISTER"
    [] SidesOf(service[i]) \subseteq stored -> "NOOP"
    [] OTHER -> "UPDATE"
EventType(i) ==
  CASE fresh[i] = Sides -> "REGISTER"
    [] fresh[i] = {} -> "NOOP"
    [] OTHER -> "UPDATE"

\* A group sees what is published once it is there.
GroupExists == boot \in {"group", "subscribe", "up"}

Publish(i) ==
  /\ "publish" \in jobs[i]
  /\ announced' = announced \union {service[i]}
  /\ events' = IF GroupExists
               THEN Append(events, [type |-> EventType(i), service |-> service[i]]) ELSE events
  /\ jobs' = [jobs EXCEPT ![i] = @ \ {"publish"}]
  /\ fresh' = [fresh EXCEPT ![i] = {}]
  /\ UNCHANGED <<service, stored, call, refused, boot, toScan, topology, handled, looking, noting,
                 known, routes, missed, raced, faults>>

\* A goroutine ends in an error, which makes the call one.
JobFails(i, job) ==
  /\ job \in jobs[i]
  /\ Fault
  /\ jobs' = [jobs EXCEPT ![i] = @ \ {job}]
  /\ refused' = [refused EXCEPT ![i] = TRUE]
  /\ LET lost == IF job = "publish" THEN {service[i]} ELSE {}
     IN missed' = missed \union lost /\ announced' = announced \union lost
  /\ UNCHANGED <<service, stored, call, fresh, networkingVars, raced>>

\* The call returns once its goroutines have ended; an instance that got an
\* error ends, is restarted and calls again.
Return(i) ==
  /\ call[i] = "wait" /\ jobs[i] = {}
  /\ AskNext(i, IF refused[i] THEN "ask in" ELSE "registered")
  /\ refused' = [refused EXCEPT ![i] = FALSE]
  /\ fresh' = [fresh EXCEPT ![i] = {}]
  /\ UNCHANGED <<service, stored, jobs, announced, networkingVars, missed, raced, faults>>

\* The instance ends and registers again when it is restarted, ...
InstanceCrash(i) ==
  /\ call[i] = "registered"
  /\ Fault
  /\ AskNext(i, "ask in")
  /\ UNCHANGED <<service, stored, fresh, jobs, refused, announced, networkingVars, missed, raced>>

\* ... or the configuration service ends, and the calls it was in fail, that of
\* the networking service among them.
ConfigurationCrash ==
  /\ Fault
  /\ call' = [i \in Instances |-> IF call[i] = "registered" THEN call[i] ELSE "ask in"]
  /\ jobs' = [i \in Instances |-> {}]
  /\ fresh' = [i \in Instances |-> {}]
  /\ refused' = [i \in Instances |-> FALSE]
  /\ LET lost == {service[i] : i \in {j \in Instances : "publish" \in jobs[j]}}
     IN missed' = missed \union lost /\ announced' = announced \union lost
  /\ boot' = IF boot = "scan" THEN "deaf" ELSE boot
  /\ UNCHANGED <<service, stored, toScan, topology, handled, events, looking, noting, known, routes, raced>>

-----------------------------------------------------------------------------
(* The networking service: main.go, and GetNetworkingConfiguration and       *)
(* GetServices on the side of the configuration service.                     *)

BootNext(to) == boot' = to
KeepConfiguration == UNCHANGED <<service, configurationVars>>

\* GetServices scans both sides at the same time.
StartScan ==
  /\ boot = "ask"
  /\ BootNext("scan")
  /\ toScan' = Sides
  /\ KeepConfiguration
  /\ UNCHANGED <<topology, handled, events, looking, noting, known, routes, missed, raced, faults>>

\* A scan that fails ends without an error; what it has not found is missing.
Scan(side) ==
  /\ boot = "scan" /\ side \in toScan
  /\ toScan' = toScan \ {side}
  /\ \/ NoFault /\ topology' = topology \union {x \in stored : x[2] = side}
     \/ Fault /\ UNCHANGED topology
  /\ KeepConfiguration
  /\ UNCHANGED <<boot, handled, events, looking, noting, known, routes, missed, raced>>

\* The question is answered: the group of the events is created at the end of
\* the stream.  It is never asked again when it fails.
CreateGroup ==
  /\ boot = "scan" /\ toScan = {}
  /\ BootNext("group")
  /\ missed' = {s \in announced : ~(SidesOf(s) \subseteq topology)}
  /\ KeepConfiguration
  /\ UNCHANGED <<toScan, topology, handled, events, looking, noting, known, routes, raced, faults>>

AskConfigurationFails ==
  /\ boot \in {"ask", "scan"}
  /\ Fault
  /\ BootNext("deaf")
  /\ KeepConfiguration
  /\ UNCHANGED <<toScan, topology, handled, events, looking, noting, known, routes, missed, raced>>

\* A goroutine more for each of these sides.
LookUp(sides) == looking' = [x \in ServiceSides |-> looking[x] + (IF x \in sides THEN 1 ELSE 0)]

\* HandleNetworkingTopology registers what was found in two goroutines, ...
HandleTopology ==
  /\ boot = "group"
  /\ BootNext("subscribe")
  /\ LookUp(topology)
  /\ topology' = {}
  /\ KeepConfiguration
  /\ UNCHANGED <<toScan, handled, events, noting, known, routes, missed, raced, faults>>

\* ... and then the two handlers are subscribed.
SubscribeNext ==
  /\ boot = "subscribe"
  /\ handled' = IF handled = {} THEN {"REGISTER"} ELSE {"REGISTER", "UPDATE"}
  /\ BootNext(IF handled = {} THEN "subscribe" ELSE "up")
  /\ KeepConfiguration
  /\ UNCHANGED <<toScan, topology, events, looking, noting, known, routes, missed, raced, faults>>

\* An event without a handler counts as handled.
Remaining_Unhandled == IF Head(events).type \in handled THEN Tail(events) ELSE events
Remaining == Tail(events)

\* The group is given the next event: a goroutine per side for a type that has a
\* handler by now, nothing for one that has none.
Deliver ==
  /\ GroupExists /\ events # <<>>
  /\ events' = Remaining
  /\ LET e == Head(events)
     IN /\ LookUp(IF e.type \in handled THEN SidesOf(e.service) ELSE {})
        /\ missed' = IF e.type \in handled THEN missed \ {e.service}
                     ELSE missed \union (IF e.type = "NOOP" THEN {} ELSE {e.service})
  /\ KeepConfiguration
  /\ UNCHANGED <<boot, toScan, topology, handled, noting, known, routes, raced, faults>>

\* RegisterIncomingService and RegisterOutgoingService look the side up, ...
Noted_Never(x) == known
Noted(x) == known \union {x}

Unknown_Unchecked(x) == TRUE
Unknown(x) == x \notin known

Look(x) ==
  /\ looking[x] > 0
  /\ looking' = [looking EXCEPT ![x] = @ - 1]
  /\ noting' = IF Unknown(x) THEN [noting EXCEPT ![x] = @ + 1] ELSE noting
  /\ raced' = IF noting[x] > 0 /\ x \notin known THEN raced \union {x} ELSE raced
  /\ KeepConfiguration
  /\ UNCHANGED <<boot, toScan, topology, handled, events, known, routes, missed, faults>>

\* ... then note it, and register the handlers of its headers or start the
\* goroutine that receives from its Redis.
Note(x) ==
  /\ noting[x] > 0
  /\ noting' = [noting EXCEPT ![x] = @ - 1]
  /\ known' = Noted(x)
  /\ routes' = [routes EXCEPT ![x] = @ + 1]
  /\ KeepConfiguration
  /\ UNCHANGED <<boot, toScan, topology, handled, events, looking, missed, raced, faults>>

\* The networking service ends; all it knew is gone.
NetworkingCrash ==
  /\ Fault
  /\ BootNext("ask")
  /\ toScan' = {} /\ topology' = {} /\ handled' = {} /\ events' = <<>>
  /\ looking' = None /\ noting' = None /\ known' = {} /\ routes' = None /\ raced' = {}
  /\ KeepConfiguration
  /\ UNCHANGED missed

ConfigurationNext ==
  \/ \E i \in Instances :
       \/ AskIn(i) \/ AskOut(i) \/ AskFails(i) \/ Publish(i) \/ Return(i) \/ InstanceCrash(i)
       \/ \E side \in Sides : Store(i, side)
       \/ \E job \in Sides \union {"publish"} : JobFails(i, job)
  \/ ConfigurationCrash

NetworkingNext ==
  \/ StartScan \/ CreateGroup \/ AskConfigurationFails
  \/ HandleTopology \/ SubscribeNext \/ Deliver \/ NetworkingCrash
  \/ \E side \in Sides : Scan(side)
  \/ \E x \in ServiceSides : Look(x) \/ Note(x)

Next == ConfigurationNext \/ NetworkingNext
Spec == Init /\ [][Next]_vars

\* Every process is restarted, and every goroutine gets its turn.
Fairness ==
  /\ \A i \in Instances :
       /\ WF_vars(AskIn(i)) /\ WF_vars(AskOut(i)) /\ WF_vars(Publish(i)) /\ WF_vars(Return(i))
       /\ \A side \in Sides : WF_vars(Store(i, side))
  /\ WF_vars(StartScan) /\ WF_vars(CreateGroup) /\ WF_vars(HandleTopology)
  /\ WF_vars(SubscribeNext) /\ WF_vars(Deliver)
  /\ \A side \in Sides : WF_vars(Scan(side))
  /\ \A x \in ServiceSides : WF_vars(Look(x)) /\ WF_vars(Note(x))

FairSpec == Spec /\ Fairness

-----------------------------------------------------------------------------

Registered(s) == \E i \in Instances : service[i] = s /\ call[i] = "registered"
Routed(s) == SidesOf(s) \subseteq known
AtRest ==
  /\ boot = "up" /\ events = <<>> /\ looking = None /\ noting = None
  /\ \A i \in Instances : call[i] = "registered"

\* A service that was told it is registered and stays without packets has lost
\* an event: its publication failed, it came before the handlers, or it was
\* published before the group existed by a service the scan did not find.
UnroutedCause ==
  AtRest =>
    \A s \in Services : Registered(s) /\ s \notin missed => Routed(s)

\* The handlers of a service are registered twice, and its packets published
\* twice, only if two goroutines looked it up before either noted it.
DoubledOnlyByRace == \A x \in ServiceSides : routes[x] > 1 => x \in raced

\* In the end every instance is registered and every service is routed, but for
\* events that were lost and a networking service that is deaf: it stays so.
EventuallyRouted ==
  /\ \A i \in Instances : <>[](call[i] = "registered")
  /\ \A s \in Services :
       <>[](Registered(s) => Routed(s) \/ s \in missed \/ boot = "deaf")
==============================================================================
