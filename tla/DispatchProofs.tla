--------------------------- MODULE DispatchProofs ---------------------------
(***************************************************************************)
(* Theorems about Dispatch, for any number of tasks, objects and handlers, *)
(* any choice of dispatching tasks and any behaviour of the handlers.      *)
(***************************************************************************)
EXTENDS Dispatch, TokioLockProofs

(* What the operations leave in the map is a handler or nothing. *)
LEMMA EffectiveType ==
    ASSUME TypeOK
    PROVE  /\ \A op \in Operations : Outcome(op) \in Handlers \cup {None}
           /\ \A o \in Objects : Effective(o) \in Handlers \cup {None}
           /\ None \notin Operations
BY DispatchAssumption DEF TypeOK, Effective, Outcome, Operations

(* A granted request leaves a lock, with or without the guard's release. *)
LEMMA GrantType ==
    ASSUME NEW lock \in Locks, NEW t \in Tasks, Grantable(lock, t)
    PROVE  Grant(lock) \in Locks /\ Release(Grant(lock), t) \in Locks
BY GrantLock, ReleaseLock

(* TypeOK: every variable of the registry has its type, and a task has a   *)
(* packet exactly while it is in dispatch and an operation to queue while  *)
(* it waits to queue one.                                                  *)
THEOREM TypeCorrect == Spec => []TypeOK
<1>1. Init => TypeOK
  BY UnlockedLock
     DEF Init, TypeOK, Locations, Awaiting, InDispatch
<1>2. TypeOK /\ [Next]_vars => TypeOK'
  <2> SUFFICES ASSUME TypeOK, [Next]_vars
               PROVE  TypeOK'
    OBVIOUS
  <2> USE DEF TypeOK, Locations, Awaiting, InDispatch
  <2>1. ASSUME NEW t \in Tasks, NEW o \in Objects, NEW op \in Operations,
               CallEnqueue(t, o, op)
        PROVE  TypeOK'
    <3>1. queueLock' \in Locks
      BY <2>1, RequestLock DEF CallEnqueue, Modes
    <3>2. QED
      BY <2>1, <3>1 DEF CallEnqueue, Requested
  <2>2. ASSUME NEW t \in Tasks, Enqueue(t)
        PROVE  TypeOK'
    <3>1. queueLock' \in Locks
      BY <2>2, GrantType DEF Enqueue
    <3>2. /\ pending[t].object \in Objects
          /\ pending[t].operation \in Operations
      BY <2>2 DEF Enqueue, Requested
    <3>3. Outcome(pending[t].operation) \in Handlers \cup {None}
      BY <3>2, EffectiveType
    <3>4. QED
      BY <2>2, <3>1, <3>2, <3>3 DEF Enqueue
  <2>3. ASSUME NEW t \in Tasks, NEW o \in Objects, CallDispatch(t, o)
        PROVE  TypeOK'
    <3>1. queueLock' \in Locks
      BY <2>3, RequestLock DEF CallDispatch, Modes
    <3>2. Effective(o) \in Handlers \cup {None}
      BY EffectiveType
    <3>3. QED
      BY <2>3, <3>1, <3>2, DispatchAssumption DEF CallDispatch
  <2>4. ASSUME NEW t \in Tasks, LockQueue(t)
        PROVE  TypeOK'
    <3>1. queueLock' \in Locks /\ mapLock' \in Locks
      BY <2>4, GrantType, RequestLock DEF LockQueue, Modes
    <3>2. QED
      BY <2>4, <3>1 DEF LockQueue
  <2>5. ASSUME NEW t \in Tasks, LockMap(t)
        PROVE  TypeOK'
    <3>1. mapLock' \in Locks
      BY <2>5, GrantType DEF LockMap
    <3>2. QED
      BY <2>5, <3>1 DEF LockMap
  <2>6. ASSUME NEW t \in Tasks, Apply(t)
        PROVE  TypeOK'
    <3>1. PICK o \in Queued :
             /\ operations' = [operations EXCEPT ![o] = None]
             /\ handlers' = [handlers EXCEPT ![o] = Outcome(operations[o])]
      BY <2>6 DEF Apply
    <3>2. o \in Objects /\ operations[o] \in Operations
      BY DEF Queued
    <3>3. Outcome(operations[o]) \in Handlers \cup {None}
      BY <3>2, EffectiveType
    <3>4. QED
      BY <2>6, <3>1, <3>2, <3>3 DEF Apply
  <2>7. ASSUME NEW t \in Tasks, FinishUpdate(t)
        PROVE  TypeOK'
    <3>1. queueLock' \in Locks /\ mapLock' \in Locks
      BY <2>7, ReleaseLock DEF FinishUpdate
    <3>2. QED
      BY <2>7, <3>1 DEF FinishUpdate
  <2>8. ASSUME NEW t \in Tasks, AwaitRead(t)
        PROVE  TypeOK'
    <3>1. mapLock' \in Locks
      BY <2>8, RequestLock DEF AwaitRead, Modes
    <3>2. QED
      BY <2>8, <3>1 DEF AwaitRead
  <2>9. ASSUME NEW t \in Tasks, StartHandler(t)
        PROVE  TypeOK'
    <3>1. mapLock' \in Locks
      BY <2>9, GrantType DEF StartHandler
    <3>2. QED
      BY <2>9, <3>1 DEF StartHandler
  <2>10. ASSUME NEW t \in Tasks, NoEventHandler(t)
         PROVE  TypeOK'
    <3>1. mapLock' \in Locks
      BY <2>10, GrantType DEF NoEventHandler
    <3>2. QED
      BY <2>10, <3>1 DEF NoEventHandler
  <2>11. ASSUME NEW t \in Tasks, HandlerReturns(t)
         PROVE  TypeOK'
    <3>1. mapLock' \in Locks
      BY <2>11, ReleaseLock DEF HandlerReturns
    <3>2. QED
      BY <2>11, <3>1 DEF HandlerReturns
  <2>12. ASSUME NEW t \in Tasks, CancelCall(t)
         PROVE  TypeOK'
    <3>1. queueLock' \in Locks /\ mapLock' \in Locks
      BY <2>12, WithdrawLock, ReleaseLock DEF CancelCall
    <3>2. QED
      BY <2>12, <3>1 DEF CancelCall
  <2>13. ASSUME NEW t \in Tasks, CancelHandler(t)
         PROVE  TypeOK'
    <3>1. queueLock' \in Locks /\ mapLock' \in Locks
      BY <2>13, WithdrawLock, ReleaseLock DEF CancelHandler
    <3>2. QED
      BY <2>13, <3>1 DEF CancelHandler
  <2>14. CASE UNCHANGED vars
    BY <2>14 DEF vars
  <2>15. QED
    BY <2>1, <2>2, <2>3, <2>4, <2>5, <2>6, <2>7, <2>8, <2>9, <2>10, <2>11,
       <2>12, <2>13, <2>14
       DEF Next, Call, Progress
<1>3. QED
  BY <1>1, <1>2, PTL DEF Spec


(* GuardsMatch: the guards that are out and the requests that wait are     *)
(* those that the program locations say.                                   *)
LEMMA GuardsMatchStep ==
    ASSUME TypeOK, GuardsMatch, [Next]_vars
    PROVE  GuardsMatch'
<1> DEFINE Known == /\ queueLock \in Locks /\ Distinct(queueLock)
                    /\ mapLock \in Locks /\ Distinct(mapLock)
                    /\ queueLock.readers = {}
<1>0. Known
  BY DEF TypeOK, GuardsMatch
<1>1. ASSUME NEW t \in Tasks, NEW o \in Objects, NEW op \in Operations,
             CallEnqueue(t, o, op)
      PROVE  GuardsMatch'
  <2>1. \A r \in Range(queueLock.waiting) : r.task # t
    BY NoneAssumption, <1>1 DEF CallEnqueue, TypeOK, GuardsMatch
  <2>2. /\ Distinct(queueLock')
        /\ queueLock'.writer = queueLock.writer
        /\ queueLock'.readers = queueLock.readers
        /\ Range(queueLock'.waiting) = Range(queueLock.waiting)
                                       \cup {[task |-> t, mode |-> "write"]}
    BY <1>0, <1>1, <2>1, RequestLock DEF CallEnqueue, Modes
  <2>3. QED
    BY NoneAssumption, <1>1, <2>1, <2>2 DEF CallEnqueue, TypeOK, GuardsMatch
<1>2. ASSUME NEW t \in Tasks, Enqueue(t)
      PROVE  GuardsMatch'
  <2>1. \A r \in Range(queueLock.waiting) : r.task = t => r.mode = "write"
    BY DEF GuardsMatch
  <2>2. /\ queueLock.writer = None
        /\ Grant(queueLock) \in Locks
        /\ Grant(queueLock).writer = t
        /\ Grant(queueLock).readers = {}
        /\ Distinct(Grant(queueLock))
        /\ Range(Grant(queueLock).waiting)
             = {q \in Range(queueLock.waiting) : q.task # t}
    BY <1>0, <1>2, <2>1, GrantWrite DEF Enqueue
  <2>3. /\ Distinct(queueLock')
        /\ queueLock'.writer = None
        /\ queueLock'.readers = {}
        /\ Range(queueLock'.waiting)
             = {q \in Range(queueLock.waiting) : q.task # t}
    BY <1>2, <2>2, ReleaseLock DEF Enqueue
  <2>4. QED
    BY NoneAssumption, <1>2, <2>2, <2>3 DEF Enqueue, TypeOK, GuardsMatch
<1>3. ASSUME NEW t \in Tasks, NEW o \in Objects, CallDispatch(t, o)
      PROVE  GuardsMatch'
  <2>1. \A r \in Range(queueLock.waiting) : r.task # t
    BY NoneAssumption, <1>3 DEF CallDispatch, TypeOK, GuardsMatch
  <2>2. /\ Distinct(queueLock')
        /\ queueLock'.writer = queueLock.writer
        /\ queueLock'.readers = queueLock.readers
        /\ Range(queueLock'.waiting) = Range(queueLock.waiting)
                                       \cup {[task |-> t, mode |-> "write"]}
    BY <1>0, <1>3, <2>1, RequestLock DEF CallDispatch, Modes
  <2>3. QED
    BY NoneAssumption, <1>3, <2>1, <2>2 DEF CallDispatch, TypeOK, GuardsMatch
<1>4. ASSUME NEW t \in Tasks, LockQueue(t)
      PROVE  GuardsMatch'
  <2>1. /\ \A r \in Range(queueLock.waiting) : r.task = t => r.mode = "write"
        /\ \A r \in Range(mapLock.waiting) : r.task # t
    BY <1>4 DEF LockQueue, GuardsMatch
  <2>2. /\ queueLock.writer = None
        /\ queueLock'.writer = t
        /\ queueLock'.readers = {}
        /\ Distinct(queueLock')
        /\ Range(queueLock'.waiting)
             = {q \in Range(queueLock.waiting) : q.task # t}
    BY <1>0, <1>4, <2>1, GrantWrite DEF LockQueue
  <2>3. /\ Distinct(mapLock')
        /\ mapLock'.writer = mapLock.writer
        /\ mapLock'.readers = mapLock.readers
        /\ Range(mapLock'.waiting) = Range(mapLock.waiting)
                                     \cup {[task |-> t, mode |-> "write"]}
    BY <1>0, <1>4, <2>1, RequestLock DEF LockQueue, Modes
  <2>4. QED
    BY NoneAssumption, <1>4, <2>1, <2>2, <2>3
       DEF LockQueue, TypeOK, GuardsMatch
<1>5. ASSUME NEW t \in Tasks, LockMap(t)
      PROVE  GuardsMatch'
  <2>1. \A r \in Range(mapLock.waiting) : r.task = t => r.mode = "write"
    BY <1>5 DEF LockMap, GuardsMatch
  <2>2. /\ mapLock.writer = None
        /\ mapLock.readers = {}
        /\ mapLock'.writer = t
        /\ mapLock'.readers = {}
        /\ Distinct(mapLock')
        /\ Range(mapLock'.waiting)
             = {q \in Range(mapLock.waiting) : q.task # t}
    BY <1>0, <1>5, <2>1, GrantWrite DEF LockMap
  <2>3. \A u \in Tasks : serving[u] = None
    BY <2>2 DEF GuardsMatch
  <2>4. QED
    BY NoneAssumption, <1>5, <2>2, <2>3 DEF LockMap, TypeOK, GuardsMatch
<1>6. ASSUME NEW t \in Tasks, Apply(t)
      PROVE  GuardsMatch'
  BY NoneAssumption, <1>6 DEF Apply, TypeOK, GuardsMatch
<1>7. ASSUME NEW t \in Tasks, FinishUpdate(t)
      PROVE  GuardsMatch'
  <2>0. queueLock.writer = t /\ mapLock.writer = t /\ mapLock.readers = {}
    BY NoneAssumption, <1>7 DEF FinishUpdate, GuardsMatch
  <2>1. /\ Distinct(queueLock')
        /\ queueLock'.writer = None
        /\ queueLock'.readers = {}
        /\ queueLock'.waiting = queueLock.waiting
    BY <1>0, <1>7, <2>0, ReleaseLock DEF FinishUpdate
  <2>2. /\ Distinct(mapLock')
        /\ mapLock'.writer = None
        /\ mapLock'.readers = {}
        /\ mapLock'.waiting = mapLock.waiting
    BY <1>0, <1>7, <2>0, ReleaseLock DEF FinishUpdate
  <2>3. QED
    BY NoneAssumption, <1>7, <2>1, <2>2 DEF FinishUpdate, TypeOK, GuardsMatch
<1>8. ASSUME NEW t \in Tasks, AwaitRead(t)
      PROVE  GuardsMatch'
  <2>1. \A r \in Range(mapLock.waiting) : r.task # t
    BY NoneAssumption, <1>8 DEF AwaitRead, TypeOK, GuardsMatch
  <2>2. /\ Distinct(mapLock')
        /\ mapLock'.writer = mapLock.writer
        /\ mapLock'.readers = mapLock.readers
        /\ Range(mapLock'.waiting) = Range(mapLock.waiting)
                                     \cup {[task |-> t, mode |-> "read"]}
    BY <1>0, <1>8, <2>1, RequestLock DEF AwaitRead, Modes
  <2>3. QED
    BY NoneAssumption, <1>8, <2>1, <2>2 DEF AwaitRead, TypeOK, GuardsMatch
<1>9. ASSUME NEW t \in Tasks, pc[t] = "lookup", Grantable(mapLock, t)
      PROVE  /\ mapLock.writer = None
             /\ Grant(mapLock) \in Locks
             /\ Grant(mapLock).writer = None
             /\ Grant(mapLock).readers = mapLock.readers \cup {t}
             /\ Distinct(Grant(mapLock))
             /\ Range(Grant(mapLock).waiting)
                  = {q \in Range(mapLock.waiting) : q.task # t}
  <2>1. \A r \in Range(mapLock.waiting) : r.task = t => r.mode = "read"
    <3>1. \A r \in Range(mapLock.waiting) : r.mode \in {"read", "write"}
      BY <1>0, LockFields DEF Requests, Modes
    <3>2. QED
      BY <1>9, <3>1 DEF GuardsMatch
  <2>2. QED
    BY <1>0, <1>9, <2>1, GrantRead
<1>10. ASSUME NEW t \in Tasks, StartHandler(t)
       PROVE  GuardsMatch'
  <2>1. packet[t] # None
    BY <1>10 DEF StartHandler, TypeOK, InDispatch
  <2>2. QED
    BY NoneAssumption, <1>9, <1>10, <2>1 DEF StartHandler, TypeOK, GuardsMatch
<1>11. ASSUME NEW t \in Tasks, NoEventHandler(t)
       PROVE  GuardsMatch'
  <2>1. pc[t] = "lookup" /\ Grantable(mapLock, t) /\ t \notin mapLock.readers
    BY <1>11 DEF NoEventHandler, GuardsMatch
  <2>2. /\ mapLock.writer = None
        /\ Distinct(mapLock')
        /\ mapLock'.writer = None
        /\ mapLock'.readers = mapLock.readers
        /\ Range(mapLock'.waiting)
             = {q \in Range(mapLock.waiting) : q.task # t}
    <3>1. mapLock' = Release(Grant(mapLock), t)
      BY <1>11 DEF NoEventHandler
    <3>2. /\ mapLock.writer = None
          /\ Grant(mapLock) \in Locks
          /\ Grant(mapLock).writer = None
          /\ Grant(mapLock).readers = mapLock.readers \cup {t}
          /\ Distinct(Grant(mapLock))
          /\ Range(Grant(mapLock).waiting)
               = {q \in Range(mapLock.waiting) : q.task # t}
      BY <1>9, <2>1
    <3>3. /\ Distinct(mapLock')
          /\ mapLock'.writer = None
          /\ mapLock'.readers = (mapLock.readers \cup {t}) \ {t}
          /\ mapLock'.waiting = Grant(mapLock).waiting
      BY <3>1, <3>2, ReleaseLock
    <3>4. (mapLock.readers \cup {t}) \ {t} = mapLock.readers
      BY <2>1
    <3>5. QED
      BY <3>2, <3>3, <3>4
  <2>3. QED
    BY NoneAssumption, <1>11, <2>2 DEF NoEventHandler, TypeOK, GuardsMatch
<1>12. ASSUME NEW t \in Tasks, HandlerReturns(t)
       PROVE  GuardsMatch'
  <2>0. mapLock.writer # t
    BY <1>12 DEF HandlerReturns, GuardsMatch
  <2>1. /\ Distinct(mapLock')
        /\ mapLock'.writer = mapLock.writer
        /\ mapLock'.readers = mapLock.readers \ {t}
        /\ mapLock'.waiting = mapLock.waiting
    BY <1>0, <1>12, <2>0, ReleaseLock DEF HandlerReturns
  <2>2. QED
    BY NoneAssumption, <1>12, <2>1 DEF HandlerReturns, TypeOK, GuardsMatch
<1>13. ASSUME NEW lock \in Locks, NEW t \in Tasks, Distinct(lock)
       PROVE  LET new == Release(Withdraw(lock, t), t)
              IN  /\ Distinct(new)
                  /\ new.writer = IF lock.writer = t THEN None ELSE lock.writer
                  /\ new.readers = lock.readers \ {t}
                  /\ Range(new.waiting)
                       = {q \in Range(lock.waiting) : q.task # t}
  <2>1. /\ Withdraw(lock, t) \in Locks
        /\ Withdraw(lock, t).writer = lock.writer
        /\ Withdraw(lock, t).readers = lock.readers
        /\ Distinct(Withdraw(lock, t))
        /\ Range(Withdraw(lock, t).waiting)
             = {q \in Range(lock.waiting) : q.task # t}
    BY <1>0, <1>13, WithdrawLock
  <2>2. QED
    BY <1>0, <2>1, ReleaseLock
<1>14. ASSUME NEW t \in Tasks, CancelCall(t)
       PROVE  GuardsMatch'
  <2>1. /\ Distinct(queueLock')
        /\ queueLock'.writer = IF queueLock.writer = t THEN None
                                                       ELSE queueLock.writer
        /\ queueLock'.readers = {}
        /\ Range(queueLock'.waiting)
             = {q \in Range(queueLock.waiting) : q.task # t}
    BY <1>0, <1>13, <1>14 DEF CancelCall
  <2>2. /\ Distinct(mapLock')
        /\ mapLock'.writer = mapLock.writer
        /\ mapLock'.readers = mapLock.readers
        /\ Range(mapLock'.waiting)
             = {q \in Range(mapLock.waiting) : q.task # t}
    BY <1>0, <1>14, WithdrawLock DEF CancelCall
  <2>3. QED
    BY NoneAssumption, <1>14, <2>1, <2>2
       DEF CancelCall, TypeOK, GuardsMatch, Awaiting
<1>15. ASSUME NEW t \in Tasks, CancelHandler(t)
       PROVE  GuardsMatch'
  <2>1. /\ Distinct(queueLock')
        /\ queueLock'.writer = IF queueLock.writer = t THEN None
                                                       ELSE queueLock.writer
        /\ queueLock'.readers = {}
        /\ Range(queueLock'.waiting)
             = {q \in Range(queueLock.waiting) : q.task # t}
    BY <1>0, <1>13, <1>15 DEF CancelHandler
  <2>2. /\ Distinct(mapLock')
        /\ mapLock'.writer = mapLock.writer
        /\ mapLock'.readers = mapLock.readers \ {t}
        /\ Range(mapLock'.waiting)
             = {q \in Range(mapLock.waiting) : q.task # t}
    <3>1. mapLock.writer # t
      BY <1>15 DEF CancelHandler, GuardsMatch, Awaiting
    <3>2. QED
      BY <1>0, <1>13, <1>15, <3>1 DEF CancelHandler
  <2>3. QED
    BY NoneAssumption, <1>15, <2>1, <2>2
       DEF CancelHandler, TypeOK, GuardsMatch, Awaiting
<1>16. CASE UNCHANGED vars
  BY <1>16 DEF vars, GuardsMatch
<1>17. QED
  BY <1>1, <1>2, <1>3, <1>4, <1>5, <1>6, <1>7, <1>8, <1>10, <1>11, <1>12,
     <1>14, <1>15, <1>16
     DEF Next, Call, Progress

THEOREM GuardsCorrect == Spec => []GuardsMatch
<1>1. Init => GuardsMatch
  BY UnlockedLock, NoneAssumption DEF Init, GuardsMatch
<1>2. TypeOK /\ GuardsMatch /\ [Next]_vars => GuardsMatch'
  BY GuardsMatchStep
<1>3. QED
  BY <1>1, <1>2, TypeCorrect, PTL DEF Spec

-----------------------------------------------------------------------------
(* HandlerPinned: the box of a handler that runs is neither replaced nor   *)
(* dropped.  Only an update changes the map, its write guard is out then,  *)
(* and the read guard of the handler's dispatch is not.                    *)
THEOREM HandlerIsPinned == Spec => HandlerPinned
<1> DEFINE Pinned == \A t \in Tasks :
                        serving[t] # None /\ serving'[t] = serving[t]
                        => handlers'[serving[t]] = handlers[serving[t]]
<1>1. TypeOK /\ GuardsMatch /\ [Next]_vars => [Pinned]_vars
  <2> SUFFICES ASSUME TypeOK, GuardsMatch, Next
               PROVE  Pinned
    OBVIOUS
  <2>1. ASSUME NEW u \in Tasks, Apply(u)
        PROVE  Pinned
    <3>1. mapLock.writer # None
      BY <2>1, NoneAssumption DEF Apply, GuardsMatch
    <3>2. \A t \in Tasks : serving[t] = None
      BY <3>1 DEF GuardsMatch
    <3>3. QED
      BY <3>2
  <2>2. CASE UNCHANGED handlers
    BY <2>2
  <2>3. QED
    BY <2>1, <2>2
       DEF Next, Call, Progress, CallEnqueue, Enqueue, CallDispatch, LockQueue,
           LockMap, FinishUpdate, AwaitRead, StartHandler, NoEventHandler,
           HandlerReturns, CancelCall, CancelHandler
<1>2. QED
  BY <1>1, TypeCorrect, GuardsCorrect, PTL DEF Spec, HandlerPinned

-----------------------------------------------------------------------------
(* A cycle of waiting tasks runs through the read guard of a handler: the  *)
(* one that holds the map for writing waits for nothing, and the one that  *)
(* holds the queue does not wait for the queue.                            *)
LEMMA CycleThroughHandler ==
    ASSUME TypeOK, GuardsMatch
    PROVE  CycleNeedsHandler
<1> SUFFICES ASSUME NEW S \in SUBSET Tasks, S # {},
                    \A t \in S : \E u \in S : WaitsFor(t, u)
             PROVE  \E t \in Tasks : serving[t] # None /\ pc[t] \in Awaiting
  BY Zenon DEF CycleNeedsHandler, WaitCycle
<1>1. ASSUME NEW t \in Tasks, NEW u \in Tasks, WaitsFor(t, u)
      PROVE  /\ pc[t] \in Awaiting
             /\ \/ pc[t] \in {"enqueue", "update"}
                   /\ pc[u] \in {"lockmap", "apply"}
                \/ pc[u] = "apply"
                \/ serving[u] # None
  <2>1. CASE BlockedBy(queueLock, t, u)
    BY <1>1, <2>1 DEF BlockedBy, GuardsMatch, Awaiting
  <2>2. CASE BlockedBy(mapLock, t, u)
    <3>1. \A r \in Range(mapLock.waiting) : pc[r.task] \in {"lockmap", "lookup"}
      BY DEF GuardsMatch
    <3>2. pc[t] \in Awaiting
      BY <2>2, <3>1 DEF BlockedBy, Awaiting
    <3>3. u = mapLock.writer \/ u \in mapLock.readers
      BY <2>2 DEF BlockedBy
    <3>4. QED
      BY <3>2, <3>3 DEF GuardsMatch
  <2>3. QED
    BY <1>1, <2>1, <2>2 DEF WaitsFor
<1>2. \A t \in S : t \in Tasks /\ pc[t] \in Awaiting
  BY <1>1
<1>3. PICK t \in S : TRUE
  OBVIOUS
<1>4. PICK u \in S : WaitsFor(t, u)
  OBVIOUS
<1>5. PICK v \in S : WaitsFor(u, v)
  OBVIOUS
<1>6. CASE serving[u] # None
  BY <1>2, <1>6
<1>7. CASE serving[u] = None
  <2>1. pc[u] # "apply"
    BY <1>2 DEF Awaiting
  <2>2. pc[u] = "lockmap"
    BY <1>1, <1>2, <1>4, <1>7, <2>1
  <2>3. pc[v] = "apply" \/ serving[v] # None
    BY <1>1, <1>2, <1>5, <2>2
  <2>4. QED
    BY <1>2, <2>3 DEF Awaiting
<1>8. QED
  BY <1>6, <1>7

(* CycleNeedsHandler, whoever dispatches and whatever handlers call: tasks *)
(* that register, drop and dispatch never wait for each other in a circle  *)
(* unless a running handler is part of it.                                 *)
THEOREM CycleNeedsAHandler == Spec => []CycleNeedsHandler
BY CycleThroughHandler, TypeCorrect, GuardsCorrect, PTL

(* While one dispatch is in progress, whose handler registers and drops    *)
(* handlers, next to any number of other tasks that do so too, nobody is   *)
(* in a circular wait: the use that the queue of operations is made for.   *)
THEOREM NoCycleWithOneDispatch == Spec => []NoWaitCycle
<1>1. TypeOK /\ GuardsMatch => NoWaitCycle
  <2> SUFFICES ASSUME TypeOK, GuardsMatch, OneDispatch,
                      NEW S \in SUBSET Tasks, S # {},
                      \A t \in S : \E u \in S : WaitsFor(t, u)
               PROVE  FALSE
    BY Zenon DEF NoWaitCycle, WaitCycle
  <2>1. ASSUME NEW t \in Tasks, NEW u \in Tasks, WaitsFor(t, u)
        PROVE  /\ pc[t] \in {"enqueue", "update"}
               /\ pc[u] \in {"lockmap", "apply"}
    <3>1. CASE BlockedBy(queueLock, t, u)
      BY <3>1 DEF BlockedBy, GuardsMatch
    <3>2. ASSUME BlockedBy(mapLock, t, u) PROVE FALSE
      <4>1. pc[t] \in {"lockmap", "lookup"}
        <5>1. \A r \in Range(mapLock.waiting) :
                 pc[r.task] \in {"lockmap", "lookup"}
          BY DEF GuardsMatch
        <5>2. QED
          BY <3>2, <5>1 DEF BlockedBy
      <4>2. pc[u] = "apply" \/ serving[u] # None
        BY <3>2 DEF BlockedBy, GuardsMatch
      <4>3. packet[t] # None /\ (pc[u] = "apply" => packet[u] # None)
        BY <4>1 DEF TypeOK, InDispatch
      <4>4. t = u
        BY <4>2, <4>3 DEF OneDispatch
      <4>5. QED
        BY <4>1, <4>2, <4>3, <4>4 DEF OneDispatch
    <3>3. QED
      BY <2>1, <3>1, <3>2 DEF WaitsFor
  <2>2. PICK t \in S : TRUE
    OBVIOUS
  <2>3. PICK u \in S : WaitsFor(t, u)
    OBVIOUS
  <2>4. PICK v \in S : WaitsFor(u, v)
    OBVIOUS
  <2>5. QED
    BY <2>1, <2>3, <2>4
<1>2. QED
  BY <1>1, TypeCorrect, GuardsCorrect, PTL

-----------------------------------------------------------------------------
(* The strengthening under which LookupIsFresh is inductive: what the map  *)
(* will say once the queue is applied has been registered since the call,  *)
(* and after this task's own update the map says such a thing already.     *)
FreshInv ==
    \A t \in Tasks :
       /\ packet[t] = None => fresh[t] = {}
       /\ \A o \in Objects : packet[t] = o => Effective(o) \in fresh[t]
       /\ pc[t] \in {"updated", "lookup"} => handlers[packet[t]] \in fresh[t]
       /\ serving[t] # None => handlers[serving[t]] # None

(* One turn of the update loop changes no effective handler, and there is  *)
(* no handler running whose entry it could change.                         *)
LEMMA ApplyKeepsEffective ==
    ASSUME TypeOK, GuardsMatch, NEW t \in Tasks, Apply(t)
    PROVE  /\ \A o \in Objects : Effective(o)' = Effective(o)
           /\ \A u \in Tasks : serving[u] = None
           /\ \A o \in Objects :
                 handlers'[o] = handlers[o] \/ handlers'[o] = Effective(o)
<1>1. PICK o \in Queued :
         /\ operations' = [operations EXCEPT ![o] = None]
         /\ handlers' = [handlers EXCEPT ![o] = Outcome(operations[o])]
  BY DEF Apply
<1>2. o \in Objects /\ operations[o] # None
  BY DEF Queued
<1>3. \A p \in Objects : Effective(p)' = Effective(p)
  BY <1>1, <1>2 DEF TypeOK, Effective
<1>4. \A u \in Tasks : serving[u] = None
  BY NoneAssumption DEF Apply, GuardsMatch
<1>5. QED
  BY <1>1, <1>2, <1>3, <1>4 DEF TypeOK, Effective

(* Queueing an operation makes its outcome the object's effective handler. *)
LEMMA EnqueueSetsEffective ==
    ASSUME TypeOK, NEW t \in Tasks, Enqueue(t)
    PROVE  LET o == pending[t].object
               h == Outcome(pending[t].operation)
           IN  /\ o \in Objects
               /\ h \in Handlers \cup {None}
               /\ \A p \in Objects :
                     Effective(p)' = IF p = o THEN h ELSE Effective(p)
               /\ \A u \in Tasks :
                     fresh'[u] = IF packet[u] = o THEN fresh[u] \cup {h}
                                                  ELSE fresh[u]
<1>1. /\ pending[t].object \in Objects
      /\ pending[t].operation \in Operations
  BY DEF TypeOK, Enqueue, Requested
<1>2. pending[t].operation # None
  BY <1>1, EffectiveType
<1>3. Outcome(pending[t].operation) \in Handlers \cup {None}
  BY <1>1, EffectiveType
<1>4. QED
  BY <1>1, <1>2, <1>3 DEF TypeOK, Enqueue, Effective

LEMMA FreshInvStep ==
    ASSUME TypeOK, GuardsMatch, FreshInv, [Next]_vars
    PROVE  FreshInv'
<1> USE DispatchAssumption DEF FreshInv
<1>1. ASSUME NEW t \in Tasks, Enqueue(t)
      PROVE  FreshInv'
  <2> DEFINE o == pending[t].object
             h == Outcome(pending[t].operation)
  <2>1. /\ \A p \in Objects : Effective(p)' = IF p = o THEN h ELSE Effective(p)
        /\ \A u \in Tasks :
              fresh'[u] = IF packet[u] = o THEN fresh[u] \cup {h} ELSE fresh[u]
        /\ o # None
    BY <1>1, EnqueueSetsEffective
  <2>2. /\ UNCHANGED <<handlers, packet, serving>>
        /\ \A u \in Tasks : pc'[u] \in {"updated", "lookup"}
                            => pc[u] \in {"updated", "lookup"}
    BY <1>1 DEF Enqueue, TypeOK
  <2> HIDE DEF o, h
  <2>3. QED
    BY <2>1, <2>2
<1>2. ASSUME NEW t \in Tasks, NEW o \in Objects, CallDispatch(t, o)
      PROVE  FreshInv'
  <2>1. \A p \in Objects : Effective(p)' = Effective(p)
    BY <1>2 DEF CallDispatch, Effective
  <2>2. QED
    BY <1>2, <2>1 DEF CallDispatch, TypeOK
<1>3. ASSUME NEW t \in Tasks, Apply(t)
      PROVE  FreshInv'
  <2>1. UNCHANGED <<pc, packet, serving, fresh>>
    BY <1>3 DEF Apply
  <2>2. /\ \A o \in Objects : Effective(o)' = Effective(o)
        /\ \A u \in Tasks : serving[u] = None
        /\ \A o \in Objects :
              handlers'[o] = handlers[o] \/ handlers'[o] = Effective(o)
    BY <1>3, ApplyKeepsEffective
  <2>3. \A u \in Tasks : pc[u] \in {"updated", "lookup"} => packet[u] \in Objects
    BY DEF TypeOK, InDispatch
  <2>4. \A u \in Tasks : pc[u] \in {"updated", "lookup"}
                         => handlers'[packet[u]] \in fresh[u]
    <3> TAKE u \in Tasks
    <3> HAVE pc[u] \in {"updated", "lookup"}
    <3>1. PICK o \in Objects : packet[u] = o
      BY <2>3
    <3>2. Effective(o) \in fresh[u] /\ handlers[o] \in fresh[u]
      BY <3>1
    <3>3. QED
      BY <2>2, <3>1, <3>2
  <2>5. QED
    <3>1. \A u \in Tasks : packet'[u] = None => fresh'[u] = {}
      BY <2>1
    <3>2. \A u \in Tasks : \A o \in Objects :
             packet'[u] = o => Effective(o)' \in fresh'[u]
      BY <2>1, <2>2
    <3>3. QED
      BY <2>1, <2>2, <2>4, <3>1, <3>2
<1>4. ASSUME NEW t \in Tasks, FinishUpdate(t)
      PROVE  FreshInv'
  <2>1. \A o \in Objects : Effective(o)' = Effective(o) /\ Effective(o) = handlers[o]
    BY <1>4 DEF FinishUpdate, Effective, Queued
  <2>2. packet[t] \in Objects
    BY <1>4 DEF FinishUpdate, TypeOK, InDispatch
  <2>3. handlers[packet[t]] \in fresh[t]
    <3>1. PICK o \in Objects : packet[t] = o
      BY <2>2
    <3>2. Effective(o) \in fresh[t] /\ Effective(o) = handlers[o]
      BY <2>1, <3>1
    <3>3. QED
      BY <3>1, <3>2
  <2>4. /\ UNCHANGED <<handlers, packet, serving, fresh>>
        /\ \A u \in Tasks : pc'[u] \in {"updated", "lookup"}
                            => u = t \/ pc[u] \in {"updated", "lookup"}
    BY <1>4 DEF FinishUpdate, TypeOK
  <2>5. QED
    BY <2>1, <2>3, <2>4
<1>5. ASSUME NEW t \in Tasks, StartHandler(t)
      PROVE  FreshInv'
  <2>1. \A p \in Objects : Effective(p)' = Effective(p)
    BY <1>5 DEF StartHandler, Effective
  <2>2. QED
    BY <1>5, <2>1 DEF StartHandler, TypeOK
<1>6. ASSUME NEW t \in Tasks,
             NoEventHandler(t) \/ CancelCall(t) \/ CancelHandler(t)
      PROVE  FreshInv'
  <2>1. \A p \in Objects : Effective(p)' = Effective(p)
    BY <1>6 DEF NoEventHandler, CancelCall, CancelHandler, Effective
  <2>2. QED
    BY <1>6, <2>1 DEF NoEventHandler, CancelCall, CancelHandler, TypeOK
<1>7. ASSUME NEW t \in Tasks, HandlerReturns(t)
      PROVE  FreshInv'
  <2>1. \A p \in Objects : Effective(p)' = Effective(p)
    BY <1>7 DEF HandlerReturns, Effective
  <2>2. QED
    BY <1>7, <2>1 DEF HandlerReturns, TypeOK
<1>8. ASSUME NEW t \in Tasks, NEW o \in Objects, NEW op \in Operations,
             CallEnqueue(t, o, op) \/ LockQueue(t) \/ LockMap(t) \/ AwaitRead(t)
      PROVE  FreshInv'
  <2>1. \A p \in Objects : Effective(p)' = Effective(p)
    BY <1>8 DEF CallEnqueue, LockQueue, LockMap, AwaitRead, Effective
  <2>2. /\ UNCHANGED <<handlers, packet, serving, fresh>>
        /\ \A u \in Tasks : pc'[u] \in {"updated", "lookup"}
                            => pc[u] \in {"updated", "lookup"}
    BY <1>8 DEF CallEnqueue, LockQueue, LockMap, AwaitRead, TypeOK
  <2>3. QED
    BY <2>1, <2>2 DEF TypeOK
<1>9. CASE UNCHANGED vars
  BY <1>9 DEF vars, Effective
<1>10. QED
  <2>1. ASSUME NEW t \in Tasks, LockQueue(t) \/ LockMap(t) \/ AwaitRead(t)
        PROVE  FreshInv'
    <3>1. packet[t] \in Objects
      BY <2>1 DEF LockQueue, LockMap, AwaitRead, TypeOK, InDispatch
    <3>2. Unregister \in Operations
      BY DEF Operations
    <3>3. QED
      BY <1>8, <2>1, <3>1, <3>2
  <2>2. QED
    BY <1>1, <1>2, <1>3, <1>4, <1>5, <1>6, <1>7, <1>8, <1>9, <2>1
       DEF Next, Call, Progress

LEMMA FreshInvCorrect == Spec => []FreshInv
<1>1. Init => FreshInv
  BY DispatchAssumption DEF Init, FreshInv
<1>2. QED
  BY <1>1, FreshInvStep, TypeCorrect, GuardsCorrect, PTL DEF Spec

(* LookupIsFresh: the handler that dispatch finds was registered for the   *)
(* packet's object at some instant between the call and the lookup.        *)
THEOREM LookupFresh == Spec => []LookupIsFresh
<1>1. FreshInv => LookupIsFresh
  BY DEF FreshInv, LookupIsFresh
<1>2. QED
  BY <1>1, FreshInvCorrect, PTL

-----------------------------------------------------------------------------
(* ImplementsTable: the two locks, the queue of operations and the map     *)
(* together behave as the table of HandlerTable does.                      *)
LEMMA StepImplementsTable ==
    ASSUME TypeOK, GuardsMatch, FreshInv, [Next]_vars
    PROVE  [Table!Next]_(Table!vars)
<1> DEFINE table == [o \in Objects |-> Effective(o)]
           running == [t \in Tasks |-> IF serving[t] = None THEN None
                                       ELSE handlers[serving[t]]]
<1>1. ASSUME NEW t \in Tasks, Enqueue(t)
      PROVE  Table!Next
  <2> DEFINE o == pending[t].object
             h == Outcome(pending[t].operation)
  <2>1. /\ o \in Objects /\ h \in Handlers \cup {None}
        /\ \A p \in Objects : Effective(p)' = IF p = o THEN h ELSE Effective(p)
    BY <1>1, EnqueueSetsEffective
  <2>2. table' = [table EXCEPT ![o] = h]
    BY <2>1
  <2>3. fresh' = [u \in Tasks |-> IF packet[u] = o THEN fresh[u] \cup {h}
                                                   ELSE fresh[u]]
    BY <1>1 DEF Enqueue
  <2>4. UNCHANGED <<packet, running>>
    BY <1>1 DEF Enqueue
  <2>5. Table!Set(o, h)
    BY <2>2, <2>3, <2>4 DEF Table!Set
  <2>6. QED
    BY <2>1, <2>5 DEF Table!Next
<1>2. ASSUME NEW t \in Tasks, NEW o \in Objects, CallDispatch(t, o)
      PROVE  Table!Next
  <2>1. packet[t] = None
    BY <1>2 DEF CallDispatch, TypeOK, InDispatch
  <2>2. UNCHANGED <<table, running>>
    BY <1>2 DEF CallDispatch, Effective
  <2>3. table[o] = Effective(o)
    OBVIOUS
  <2>4. Table!Begin(t, o)
    BY <1>2, <2>1, <2>2, <2>3 DEF CallDispatch, Table!Begin
  <2>5. QED
    BY <2>4 DEF Table!Next
<1>3. ASSUME NEW t \in Tasks, Apply(t)
      PROVE  UNCHANGED Table!vars
  <2>1. table' = table
    BY <1>3, ApplyKeepsEffective
  <2>2. running' = running
    <3>1. \A u \in Tasks : serving[u] = None /\ serving'[u] = None
      BY <1>3, ApplyKeepsEffective DEF Apply
    <3>2. QED
      BY <3>1
  <2>3. QED
    BY <1>3, <2>1, <2>2 DEF Apply, Table!vars
<1>4. ASSUME NEW t \in Tasks, packet[t] # None,
             packet' = [packet EXCEPT ![t] = None],
             fresh' = [fresh EXCEPT ![t] = {}],
             UNCHANGED <<operations, handlers>>
      PROVE  Table!End(t)
  <2>1. table' = table
    BY <1>4 DEF Effective
  <2>2. QED
    BY <1>4, <2>1 DEF Table!End
<1>5. ASSUME NEW t \in Tasks, StartHandler(t)
      PROVE  Table!Next
  <2>1. packet[t] \in Objects /\ serving[t] = None
    BY <1>5 DEF StartHandler, TypeOK, InDispatch, GuardsMatch
  <2>2. Table!End(t)
    BY <1>4, <1>5, <2>1, DispatchAssumption DEF StartHandler
  <2>3. handlers[packet[t]] \in fresh[t] \ {None}
    BY <1>5 DEF StartHandler, FreshInv
  <2>4. running[t] = None
    BY <2>1
  <2>5. running' = [running EXCEPT ![t] = handlers[packet[t]]]
    BY <1>5, <2>1, DispatchAssumption DEF StartHandler, TypeOK
  <2>6. Table!Serve(t)
    BY <2>2, <2>3, <2>4, <2>5 DEF Table!Serve
  <2>7. QED
    BY <2>6 DEF Table!Next
<1>6. ASSUME NEW t \in Tasks, NoEventHandler(t)
      PROVE  Table!Next
  <2>1. packet[t] # None
    BY <1>6 DEF NoEventHandler, TypeOK, InDispatch
  <2>2. Table!End(t)
    BY <1>4, <1>6, <2>1 DEF NoEventHandler
  <2>3. None \in fresh[t] /\ running' = running
    BY <1>6 DEF NoEventHandler, FreshInv
  <2>4. Table!Miss(t)
    BY <2>2, <2>3 DEF Table!Miss
  <2>5. QED
    BY <2>4 DEF Table!Next
<1>7. ASSUME NEW t \in Tasks, serving[t] # None,
             serving' = [serving EXCEPT ![t] = None],
             UNCHANGED <<operations, handlers, packet, fresh>>
      PROVE  Table!Next
  <2>1. running[t] # None
    BY <1>7 DEF FreshInv
  <2>2. running' = [running EXCEPT ![t] = None]
    BY <1>7 DEF TypeOK
  <2>3. table' = table
    BY <1>7 DEF Effective
  <2>4. Table!Return(t)
    BY <1>7, <2>1, <2>2, <2>3 DEF Table!Return
  <2>5. QED
    BY <2>4 DEF Table!Next
<1>8. ASSUME NEW t \in Tasks, packet[t] = None,
             packet' = [packet EXCEPT ![t] = None],
             fresh' = [fresh EXCEPT ![t] = {}]
      PROVE  UNCHANGED <<packet, fresh>>
  BY <1>8 DEF TypeOK, FreshInv
<1>9. ASSUME NEW t \in Tasks, CancelCall(t)
      PROVE  [Table!Next]_(Table!vars)
  <2>1. table' = table /\ running' = running
    BY <1>9 DEF CancelCall, Effective
  <2>2. CASE packet[t] = None
    <3>1. UNCHANGED <<packet, fresh>>
      BY <1>8, <1>9, <2>2 DEF CancelCall
    <3>2. QED
      BY <2>1, <3>1 DEF Table!vars
  <2>3. CASE packet[t] # None
    <3>1. Table!End(t)
      BY <1>4, <1>9, <2>3 DEF CancelCall
    <3>2. Table!Abort(t)
      BY <2>1, <3>1 DEF Table!Abort
    <3>3. QED
      BY <3>2 DEF Table!Next
  <2>4. QED
    BY <2>2, <2>3
<1>10. ASSUME NEW t \in Tasks, CancelHandler(t)
       PROVE  Table!Next
  <2>1. CASE packet[t] = None
    <3>1. UNCHANGED <<packet, fresh>>
      BY <1>8, <1>10, <2>1 DEF CancelHandler
    <3>2. QED
      BY <1>7, <1>10, <3>1 DEF CancelHandler
  <2>2. CASE packet[t] # None
    <3>1. Table!End(t)
      BY <1>4, <1>10, <2>2 DEF CancelHandler
    <3>2. running' = [running EXCEPT ![t] = None]
      BY <1>10 DEF CancelHandler, TypeOK
    <3>3. Table!Abort(t)
      BY <3>1, <3>2 DEF Table!Abort
    <3>4. QED
      BY <3>3 DEF Table!Next
  <2>3. QED
    BY <2>1, <2>2
<1>11. ASSUME NEW t \in Tasks, HandlerReturns(t)
       PROVE  Table!Next
  BY <1>7, <1>11 DEF HandlerReturns
<1>12. ASSUME UNCHANGED <<operations, handlers, packet, serving, fresh>>
       PROVE  UNCHANGED Table!vars
  BY <1>12 DEF Table!vars, Effective
<1>13. QED
  <2>1. ASSUME NEW t \in Tasks, NEW o \in Objects, NEW op \in Operations,
               CallEnqueue(t, o, op)
        PROVE  UNCHANGED Table!vars
    BY <1>12, <2>1 DEF CallEnqueue
  <2>2. ASSUME NEW t \in Tasks,
               LockQueue(t) \/ LockMap(t) \/ FinishUpdate(t) \/ AwaitRead(t)
        PROVE  UNCHANGED Table!vars
    BY <1>12, <2>2 DEF LockQueue, LockMap, FinishUpdate, AwaitRead
  <2>3. CASE UNCHANGED vars
    BY <1>12, <2>3 DEF vars
  <2>4. QED
    BY <1>1, <1>2, <1>3, <1>5, <1>6, <1>9, <1>10, <1>11, <2>1, <2>2, <2>3
       DEF Next, Call, Progress

THEOREM RegistryImplementsTable == Spec => ImplementsTable
<1>1. Init => Table!Init
  BY DEF Init, Table!Init, Effective
<1>2. TypeOK /\ GuardsMatch /\ FreshInv /\ [Next]_vars
      => [Table!Next]_(Table!vars)
  BY StepImplementsTable
<1>3. QED
  BY <1>1, <1>2, TypeCorrect, GuardsCorrect, FreshInvCorrect, PTL
     DEF Spec, ImplementsTable, Table!Spec

=============================================================================
