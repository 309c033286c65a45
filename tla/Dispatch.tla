------------------------------ MODULE Dispatch ------------------------------
(***************************************************************************)
(* The event handler registry of whale_land::Connection: register_handler  *)
(* and drop_handler queue an operation, dispatch moves the queued          *)
(* operations into the handler map and then runs the handler of a packet's *)
(* object while it holds a read guard on that map.                         *)
(*                                                                         *)
(* Each task of the program is a caller of these three functions.  A task  *)
(* that is running a handler is in the middle of a dispatch, and the       *)
(* handler may call any of the three again.  A step goes from one          *)
(* await point (or from one release of a guard) to the next.               *)
(***************************************************************************)
EXTENDS TokioLock

CONSTANTS
    Objects,      \* ObjectIds; BTreeMap::pop_first takes the smallest
    Handlers,     \* the event handlers callers may register
    Unregister,   \* EventHandlerOperation::Unregister
    Dispatchers,  \* the tasks whose own code calls dispatch
    HandlerCalls, \* what the event handlers call: "enqueue", "dispatch"
    Cancellable   \* the tasks whose pending futures may be dropped

ASSUME DispatchAssumption ==
    /\ Objects \subseteq Nat
    /\ None \notin Objects /\ None \notin Handlers
    /\ Unregister # None /\ Unregister \notin Handlers
    /\ Dispatchers \subseteq Tasks
    /\ HandlerCalls \subseteq {"enqueue", "dispatch"}
    /\ Cancellable \subseteq Tasks

VARIABLES
    operations, \* queued_event_handler_operations: object -> operation
    handlers,   \* object_id_to_event_handler: object -> handler
    queueLock,  \* the RwLock around operations
    mapLock,    \* the RwLock around handlers
    pc,         \* where each task is
    pending,    \* the operation a task in "enqueue" is about to queue
    packet,     \* the object of the packet whose handler a task looks up
    serving,    \* the object whose handler the task is running
    fresh       \* history: the handlers registered for that packet's object
                \* at some instant since dispatch was called

vars == <<operations, handlers, queueLock, mapLock, pc, pending, packet,
          serving, fresh>>

Operations == Handlers \cup {Unregister}
Requested == [object : Objects, operation : Operations]

(* The await points at which a task can be suspended inside a call. *)
Awaiting == {"enqueue", "update", "lockmap", "lookup"}
InDispatch == {"update", "lockmap", "apply", "updated", "lookup"}
Locations == {"running"} \cup Awaiting \cup InDispatch

(* Mutant: the operation itself is stored, as if it were a handler. *)
Outcome_KeepsOperation(op) == op

(* What an operation leaves in the map. *)
Outcome(op) == IF op = Unregister THEN None ELSE op

(* The handler of o once the queued operations are applied. *)
Effective(o) ==
    IF operations[o] = None THEN handlers[o] ELSE Outcome(operations[o])

Queued == {o \in Objects : operations[o] # None}

(* new_from_socket_path *)
Init ==
    /\ operations = [o \in Objects |-> None]
    /\ handlers = [o \in Objects |-> None]
    /\ queueLock = Unlocked
    /\ mapLock = Unlocked
    /\ pc = [t \in Tasks |-> "running"]
    /\ pending = [t \in Tasks |-> None]
    /\ packet = [t \in Tasks |-> None]
    /\ serving = [t \in Tasks |-> None]
    /\ fresh = [t \in Tasks |-> {}]

-----------------------------------------------------------------------------
(* register_handler and drop_handler *)

(* The call, up to `queued_event_handler_operations.write().await`. *)
CallEnqueue(t, o, op) ==
    /\ pc[t] = "running"
    /\ serving[t] # None => "enqueue" \in HandlerCalls
    /\ queueLock' = Request(queueLock, t, "write")
    /\ pending' = [pending EXCEPT ![t] = [object |-> o, operation |-> op]]
    /\ pc' = [pc EXCEPT ![t] = "enqueue"]
    /\ UNCHANGED <<operations, handlers, mapLock, packet, serving, fresh>>

(* Mutant: the first operation queued for an object stays (`or_insert`). *)
Enqueue_FirstStays(t) ==
    /\ pc[t] = "enqueue"
    /\ Grantable(queueLock, t)
    /\ LET o == pending[t].object
           op == pending[t].operation
       IN  /\ operations' = [operations EXCEPT ![o] = IF @ = None THEN op ELSE @]
           /\ fresh' = [u \in Tasks |-> IF packet[u] = o
                                        THEN fresh[u] \cup {Outcome(op)}
                                        ELSE fresh[u]]
    /\ queueLock' = Release(Grant(queueLock), t)
    /\ pending' = [pending EXCEPT ![t] = None]
    /\ pc' = [pc EXCEPT ![t] = "running"]
    /\ UNCHANGED <<handlers, mapLock, packet, serving>>

(* The guard is granted, the operation replaces one queued before it for   *)
(* the same object, the guard is dropped on return.                        *)
Enqueue(t) ==
    /\ pc[t] = "enqueue"
    /\ Grantable(queueLock, t)
    /\ LET o == pending[t].object
           op == pending[t].operation
       IN  /\ operations' = [operations EXCEPT ![o] = op]
           /\ fresh' = [u \in Tasks |-> IF packet[u] = o
                                        THEN fresh[u] \cup {Outcome(op)}
                                        ELSE fresh[u]]
    /\ queueLock' = Release(Grant(queueLock), t)
    /\ pending' = [pending EXCEPT ![t] = None]
    /\ pc' = [pc EXCEPT ![t] = "running"]
    /\ UNCHANGED <<handlers, mapLock, packet, serving>>

-----------------------------------------------------------------------------
(* update_event_handler_registrations, called first thing by dispatch *)

(* dispatch is called; up to the await of the queue's write guard. *)
CallDispatch(t, o) ==
    /\ pc[t] = "running"
    /\ IF serving[t] = None THEN t \in Dispatchers
                            ELSE "dispatch" \in HandlerCalls
    /\ queueLock' = Request(queueLock, t, "write")
    /\ packet' = [packet EXCEPT ![t] = o]
    /\ fresh' = [fresh EXCEPT ![t] = {Effective(o)}]
    /\ pc' = [pc EXCEPT ![t] = "update"]
    /\ UNCHANGED <<operations, handlers, mapLock, pending, serving>>

(* The queue guard is held from here on while the map guard is awaited. *)
LockQueue(t) ==
    /\ pc[t] = "update"
    /\ Grantable(queueLock, t)
    /\ queueLock' = Grant(queueLock)
    /\ mapLock' = Request(mapLock, t, "write")
    /\ pc' = [pc EXCEPT ![t] = "lockmap"]
    /\ UNCHANGED <<operations, handlers, pending, packet, serving, fresh>>

LockMap(t) ==
    /\ pc[t] = "lockmap"
    /\ Grantable(mapLock, t)
    /\ mapLock' = Grant(mapLock)
    /\ pc' = [pc EXCEPT ![t] = "apply"]
    /\ UNCHANGED <<operations, handlers, queueLock, pending, packet, serving,
                   fresh>>

(* Mutant: the operation is looked at (`first_key_value`), not popped. *)
Apply_Peeks(t) ==
    /\ pc[t] = "apply"
    /\ \E o \in Queued :
          /\ \A p \in Queued : o <= p
          /\ handlers' = [handlers EXCEPT ![o] = Outcome(operations[o])]
    /\ UNCHANGED <<operations, queueLock, mapLock, pc, pending, packet, serving,
                   fresh>>

(* One turn of the `while let ... pop_first()` loop. *)
Apply(t) ==
    /\ pc[t] = "apply"
    /\ \E o \in Queued :
          /\ \A p \in Queued : o <= p
          /\ operations' = [operations EXCEPT ![o] = None]
          /\ handlers' = [handlers EXCEPT ![o] = Outcome(operations[o])]
    /\ UNCHANGED <<queueLock, mapLock, pc, pending, packet, serving, fresh>>

(* Mutant: `if let` for `while let`, so at most one operation is applied. *)
FinishUpdate_AfterOne(t) ==
    /\ pc[t] = "apply"
    /\ queueLock' = Release(queueLock, t)
    /\ mapLock' = Release(mapLock, t)
    /\ pc' = [pc EXCEPT ![t] = "updated"]
    /\ UNCHANGED <<operations, handlers, pending, packet, serving, fresh>>

(* Mutant: dispatch keeps the write guard of the queue. *)
FinishUpdate_KeepsQueue(t) ==
    /\ pc[t] = "apply"
    /\ Queued = {}
    /\ mapLock' = Release(mapLock, t)
    /\ pc' = [pc EXCEPT ![t] = "updated"]
    /\ UNCHANGED <<operations, handlers, queueLock, pending, packet, serving,
                   fresh>>

(* Mutant: dispatch keeps the write guard of the map. *)
FinishUpdate_KeepsMap(t) ==
    /\ pc[t] = "apply"
    /\ Queued = {}
    /\ queueLock' = Release(queueLock, t)
    /\ pc' = [pc EXCEPT ![t] = "updated"]
    /\ UNCHANGED <<operations, handlers, mapLock, pending, packet, serving,
                   fresh>>

(* The queue is empty; both guards are dropped on return. *)
FinishUpdate(t) ==
    /\ pc[t] = "apply"
    /\ Queued = {}
    /\ queueLock' = Release(queueLock, t)
    /\ mapLock' = Release(mapLock, t)
    /\ pc' = [pc EXCEPT ![t] = "updated"]
    /\ UNCHANGED <<operations, handlers, pending, packet, serving, fresh>>

-----------------------------------------------------------------------------
(* the rest of dispatch *)

(* Up to `object_id_to_event_handler.read().await`. *)
AwaitRead(t) ==
    /\ pc[t] = "updated"
    /\ mapLock' = Request(mapLock, t, "read")
    /\ pc' = [pc EXCEPT ![t] = "lookup"]
    /\ UNCHANGED <<operations, handlers, queueLock, pending, packet, serving,
                   fresh>>

(* Mutant: the read guard is dropped before the handler runs. *)
StartHandler_Unguarded(t) ==
    /\ pc[t] = "lookup"
    /\ Grantable(mapLock, t)
    /\ handlers[packet[t]] # None
    /\ mapLock' = Release(Grant(mapLock), t)
    /\ serving' = [serving EXCEPT ![t] = packet[t]]
    /\ packet' = [packet EXCEPT ![t] = None]
    /\ fresh' = [fresh EXCEPT ![t] = {}]
    /\ pc' = [pc EXCEPT ![t] = "running"]
    /\ UNCHANGED <<operations, handlers, queueLock, pending>>

(* The packet's object has a handler: it runs, under the read guard. *)
StartHandler(t) ==
    /\ pc[t] = "lookup"
    /\ Grantable(mapLock, t)
    /\ handlers[packet[t]] # None
    /\ mapLock' = Grant(mapLock)
    /\ serving' = [serving EXCEPT ![t] = packet[t]]
    /\ packet' = [packet EXCEPT ![t] = None]
    /\ fresh' = [fresh EXCEPT ![t] = {}]
    /\ pc' = [pc EXCEPT ![t] = "running"]
    /\ UNCHANGED <<operations, handlers, queueLock, pending>>

(* It has none: the guard is dropped and dispatch fails, NoEventHandler. *)
NoEventHandler(t) ==
    /\ pc[t] = "lookup"
    /\ Grantable(mapLock, t)
    /\ handlers[packet[t]] = None
    /\ mapLock' = Release(Grant(mapLock), t)
    /\ packet' = [packet EXCEPT ![t] = None]
    /\ fresh' = [fresh EXCEPT ![t] = {}]
    /\ pc' = [pc EXCEPT ![t] = "running"]
    /\ UNCHANGED <<operations, handlers, queueLock, pending, serving>>

(* handle_event returns; dispatch drops the read guard and returns. *)
HandlerReturns(t) ==
    /\ pc[t] = "running"
    /\ serving[t] # None
    /\ mapLock' = Release(mapLock, t)
    /\ serving' = [serving EXCEPT ![t] = None]
    /\ UNCHANGED <<operations, handlers, queueLock, pc, pending, packet, fresh>>

-----------------------------------------------------------------------------
(* The future of a call is dropped at an await point (a timeout, a         *)
(* select!, an aborted task): its request leaves the queue it is in and    *)
(* the guards the call holds are dropped.                                  *)

(* The innermost call of t is dropped; its caller goes on. *)
CancelCall(t) ==
    /\ t \in Cancellable
    /\ pc[t] \in Awaiting
    /\ queueLock' = Release(Withdraw(queueLock, t), t)
    /\ mapLock' = Withdraw(mapLock, t)
    /\ pending' = [pending EXCEPT ![t] = None]
    /\ packet' = [packet EXCEPT ![t] = None]
    /\ fresh' = [fresh EXCEPT ![t] = {}]
    /\ pc' = [pc EXCEPT ![t] = "running"]
    /\ UNCHANGED <<operations, handlers, serving>>

(* The dispatch that runs the handler is dropped with the handler's call. *)
CancelHandler(t) ==
    /\ t \in Cancellable
    /\ pc[t] \in Awaiting
    /\ serving[t] # None
    /\ queueLock' = Release(Withdraw(queueLock, t), t)
    /\ mapLock' = Release(Withdraw(mapLock, t), t)
    /\ pending' = [pending EXCEPT ![t] = None]
    /\ packet' = [packet EXCEPT ![t] = None]
    /\ serving' = [serving EXCEPT ![t] = None]
    /\ fresh' = [fresh EXCEPT ![t] = {}]
    /\ pc' = [pc EXCEPT ![t] = "running"]
    /\ UNCHANGED <<operations, handlers>>

-----------------------------------------------------------------------------
(* The steps of a call that is in progress; one at most is enabled. *)
Progress(t) ==
    \/ Enqueue(t)
    \/ LockQueue(t) \/ LockMap(t) \/ Apply(t) \/ FinishUpdate(t)
    \/ AwaitRead(t) \/ StartHandler(t) \/ NoEventHandler(t)

Call(t) ==
    \E o \in Objects :
       \/ \E op \in Operations : CallEnqueue(t, o, op)
       \/ CallDispatch(t, o)

Next ==
    \E t \in Tasks :
       \/ Call(t) \/ Progress(t) \/ HandlerReturns(t)
       \/ CancelCall(t) \/ CancelHandler(t)

Spec == Init /\ [][Next]_vars

(* The runtime polls a task that can go on, and a handler that is not      *)
(* itself stuck in a call does not go on for ever.                         *)
Fairness ==
    \A t \in Tasks : WF_vars(Progress(t)) /\ SF_vars(HandlerReturns(t))

FairSpec == Spec /\ Fairness

-----------------------------------------------------------------------------
(* Types, and which fields are in use where. *)
TypeOK ==
    /\ operations \in [Objects -> Operations \cup {None}]
    /\ handlers \in [Objects -> Handlers \cup {None}]
    /\ queueLock \in Locks /\ mapLock \in Locks
    /\ pc \in [Tasks -> Locations]
    /\ pending \in [Tasks -> Requested \cup {None}]
    /\ packet \in [Tasks -> Objects \cup {None}]
    /\ serving \in [Tasks -> Objects \cup {None}]
    /\ fresh \in [Tasks -> SUBSET (Handlers \cup {None})]
    /\ \A t \in Tasks : /\ pc[t] = "enqueue" => pending[t] \in Requested
                        /\ pc[t] \in InDispatch <=> packet[t] # None

(* A dispatch finds what was registered for the packet's object at some    *)
(* instant between its call and the lookup: an operation that returned     *)
(* before the call is never missed, however the updates of other tasks     *)
(* interleave (update_event_handler_registrations before the read guard).  *)
LookupIsFresh ==
    \A t \in Tasks : pc[t] = "lookup" => handlers[packet[t]] \in fresh[t]

(* No handler is replaced or removed while it runs, whoever calls          *)
(* register_handler, drop_handler or dispatch meanwhile: its Box lives in  *)
(* the map (dispatch keeps map_guard across handle_event().await).         *)
HandlerPinned ==
    [][\A t \in Tasks : serving[t] # None /\ serving'[t] = serving[t]
                        => handlers'[serving[t]] = handlers[serving[t]]]_vars

(* The guards that are out are those that the program location of their    *)
(* holder says, each waiting request belongs to the call its task is in,   *)
(* and a task that has passed update_event_handler_registrations is not    *)
(* inside a handler: its own read guard would have stopped it.             *)
GuardsMatch ==
    /\ Distinct(queueLock) /\ Distinct(mapLock)
    /\ \A r \in Range(queueLock.waiting) :
          r.mode = "write" /\ pc[r.task] \in {"enqueue", "update"}
    /\ \A r \in Range(mapLock.waiting) :
          pc[r.task] = IF r.mode = "write" THEN "lockmap" ELSE "lookup"
    /\ queueLock.readers = {}
    /\ mapLock.writer # None => mapLock.readers = {}
    /\ \A t \in Tasks :
          /\ queueLock.writer = t <=> pc[t] \in {"lockmap", "apply"}
          /\ mapLock.writer = t <=> pc[t] = "apply"
          /\ t \in mapLock.readers <=> serving[t] # None
          /\ pc[t] \in {"apply", "updated", "lookup"} => serving[t] = None

(* Task t waits for one of the two locks, and u has it. *)
WaitsFor(t, u) ==
    BlockedBy(queueLock, t, u) \/ BlockedBy(mapLock, t, u)

(* Some tasks wait for guards, and each of the guards is held by one of    *)
(* them: none of them ever goes on.                                        *)
WaitCycle ==
    \E S \in SUBSET Tasks :
       /\ S # {}
       /\ \A t \in S : \E u \in S : WaitsFor(t, u)

(* At most one dispatch is in progress. *)
OneDispatch ==
    \A t, u \in Tasks :
       /\ packet[t] # None \/ serving[t] # None
       /\ packet[u] # None \/ serving[u] # None
       => t = u /\ (packet[t] = None \/ serving[t] = None)

(* While at most one dispatch is in progress, its handler and all other    *)
(* tasks may register and drop handlers and never get into such a cycle    *)
(* (the queue is there so that a handler can register while dispatch has   *)
(* its read guard).                                                        *)
NoWaitCycle == OneDispatch => ~ WaitCycle

(* However many tasks dispatch, only a handler that itself calls the       *)
(* registry can close a cycle: it waits while its dispatch has the map.    *)
CycleNeedsHandler ==
    WaitCycle => \E t \in Tasks : serving[t] # None /\ pc[t] \in Awaiting

(* Every call returns (or has its handler started); however many tasks     *)
(* dispatch and whatever handlers call, the wait cycle is the only way in  *)
(* which one never does.                                                   *)
CallsReturnOrCycle ==
    \A t \in Tasks : (pc[t] # "running") ~> (pc[t] = "running" \/ WaitCycle)

(* The registry promised by HandlerTable. *)
Table == INSTANCE HandlerTable WITH
    table <- [o \in Objects |-> Effective(o)],
    wanted <- packet,
    seen <- fresh,
    running <- [t \in Tasks |->
                 IF serving[t] = None THEN None ELSE handlers[serving[t]]]

(* Every behaviour of the locked, queued registry is one of the table: in  *)
(* particular no cancellation and no update loses an operation.            *)
ImplementsTable == Table!Spec

=============================================================================
