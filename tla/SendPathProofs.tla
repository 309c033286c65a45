--------------------------- MODULE SendPathProofs ---------------------------
(***************************************************************************)
(* Theorems about ObjectIds and SendPath, for any tasks, requests, buffer  *)
(* of the socket and width of the counter of ids.                          *)
(***************************************************************************)
EXTENDS SendPath, TokioLockProofs, FiniteSetTheorems

-----------------------------------------------------------------------------
(* Object ids by themselves: types, and that ids are unique within a lap.  *)
LEMMA ElementOf ==
    ASSUME NEW S, NEW s \in Seq(S), NEW i \in DOMAIN s PROVE s[i] \in S
OBVIOUS

(* fetch_add keeps the counter in its range. *)
LEMMA WrapRange ==
    ASSUME nextObjectId \in 0 .. Modulus - 1, lap \in Nat, Wrap
    PROVE  nextObjectId' \in 0 .. Modulus - 1 /\ lap' \in Nat
BY IdsAssumption DEF Wrap

(* No id that tasks get is NULL, or needs more bits than the counter has:  *)
(* the loop of get_and_increment_next_object_id returns only what          *)
(* ObjectId::new accepts.                                                  *)
THEOREM IdsTypeCorrect == IdsSpec => []IdsTypeOK
<1>1. IdsInit => IdsTypeOK
  BY IdsAssumption DEF IdsInit, IdsTypeOK
<1>2. IdsTypeOK /\ [IdsNext]_idVars => IdsTypeOK'
  <2> SUFFICES ASSUME IdsTypeOK, [IdsNext]_idVars PROVE IdsTypeOK'
    OBVIOUS
  <2>1. ASSUME NEW t \in Allocators, Ask(t) PROVE IdsTypeOK'
    BY <2>1 DEF Ask, IdsTypeOK
  <2>2. ASSUME NEW t \in Allocators, FetchAdd(t) PROVE IdsTypeOK'
    <3>1. nextObjectId' \in 0 .. Modulus - 1 /\ lap' \in Nat
      BY <2>2, WrapRange DEF FetchAdd, IdsTypeOK
    <3>2. CASE UNCHANGED <<asking, issued>>
      BY <3>1, <3>2 DEF IdsTypeOK
    <3>3. CASE /\ nextObjectId # 0
               /\ asking' = asking \ {t}
               /\ issued' = Append(issued, [id |-> nextObjectId, lap |-> lap])
      <4>1. nextObjectId \in Ids
        BY <3>3, IdsAssumption DEF IdsTypeOK, Ids
      <4>2. issued' \in Seq([id : Ids, lap : Nat])
        BY <3>3, <4>1 DEF IdsTypeOK
      <4> QED BY <3>1, <3>3, <4>2 DEF IdsTypeOK
    <3> QED BY <2>2, <3>2, <3>3 DEF FetchAdd
  <2>3. CASE UNCHANGED idVars
    BY <2>3 DEF idVars, IdsTypeOK
  <2> QED BY <2>1, <2>2, <2>3 DEF IdsNext
<1> QED BY <1>1, <1>2, PTL DEF IdsSpec

-----------------------------------------------------------------------------
(* The inductive invariant: the ids of the lap that the counter is in are  *)
(* behind the counter, those of earlier laps belong to earlier laps.       *)
BehindCounter ==
    \A i \in DOMAIN issued :
       /\ issued[i].lap <= lap
       /\ issued[i].lap = lap => issued[i].id < nextObjectId

(* Between two wraps of the counter get_and_increment_next_object_id gives *)
(* every task ids of its own, in ascending order, for any number of tasks  *)
(* and any width of the counter: fetch_add is one step.                    *)
THEOREM IdsUniqueInLap == IdsSpec => []UniqueInLap
<1> DEFINE IInv == IdsTypeOK /\ BehindCounter /\ UniqueInLap
<1>1. IdsInit => IInv
  BY IdsAssumption DEF IdsInit, IdsTypeOK, BehindCounter, UniqueInLap
<1>2. IInv /\ IdsTypeOK' /\ [IdsNext]_idVars => IInv'
  <2> SUFFICES ASSUME IInv, IdsTypeOK', [IdsNext]_idVars
               PROVE  BehindCounter' /\ UniqueInLap'
    OBVIOUS
  <2>1. ASSUME NEW t \in Allocators, Ask(t) PROVE BehindCounter' /\ UniqueInLap'
    BY <2>1 DEF Ask, BehindCounter, UniqueInLap
  <2>2. ASSUME NEW t \in Allocators, FetchAdd(t)
        PROVE  BehindCounter' /\ UniqueInLap'
    <3> DEFINE n == Len(issued)
    <3>1. /\ nextObjectId \in Nat /\ lap \in Nat
          /\ \/ lap' = lap + 1
             \/ lap' = lap /\ nextObjectId' = nextObjectId + 1
      BY <2>2, IdsAssumption DEF FetchAdd, Wrap, IdsTypeOK
    <3>2. \A i \in DOMAIN issued : issued[i].id \in Nat /\ issued[i].lap \in Nat
      <4> TAKE i \in DOMAIN issued
      <4>1. issued[i] \in [id : Ids, lap : Nat]
        <5>1. issued \in Seq([id : Ids, lap : Nat])
          BY DEF IdsTypeOK
        <5> QED BY <5>1, ElementOf
      <4>2. Ids \subseteq Nat
        BY IdsAssumption DEF Ids
      <4> QED BY <4>1, <4>2
    <3>3. CASE UNCHANGED <<asking, issued>>
      BY <3>1, <3>2, <3>3 DEF BehindCounter, UniqueInLap
    <3>4. CASE issued' = Append(issued, [id |-> nextObjectId, lap |-> lap])
      <4>1. /\ n \in Nat /\ DOMAIN issued = 1 .. n /\ DOMAIN issued' = 1 .. n + 1
            /\ issued'[n + 1] = [id |-> nextObjectId, lap |-> lap]
            /\ \A i \in 1 .. n : issued'[i] = issued[i]
        BY <3>4 DEF IdsTypeOK
      <4>2. BehindCounter'
        BY <3>1, <3>2, <4>1 DEF BehindCounter
      <4>3. UniqueInLap'
        <5> SUFFICES ASSUME NEW i \in DOMAIN issued', NEW j \in DOMAIN issued',
                            i < j, issued'[i].lap = issued'[j].lap
                     PROVE  issued'[i].id < issued'[j].id
          BY DEF UniqueInLap
        <5>1. CASE j = n + 1
          BY <5>1, <3>1, <4>1 DEF BehindCounter
        <5>2. CASE j # n + 1
          BY <5>2, <4>1 DEF UniqueInLap
        <5> QED BY <5>1, <5>2
      <4> QED BY <4>2, <4>3
    <3> QED BY <2>2, <3>3, <3>4 DEF FetchAdd
  <2>3. CASE UNCHANGED idVars
    BY <2>3 DEF idVars, BehindCounter, UniqueInLap
  <2> QED BY <2>1, <2>2, <2>3 DEF IdsNext
<1> QED BY <1>1, <1>2, IdsTypeCorrect, PTL DEF IdsSpec

-----------------------------------------------------------------------------
(* The first Modulus - 1 ids are all there are, each once: from 2 upward,  *)
(* and 1 after the wrap.                                                   *)
InOrder ==
    /\ \A i \in DOMAIN issued :
          i < Modulus => issued[i].id = IF i = Modulus - 1 THEN 1 ELSE i + 1
    /\ Len(issued) < Modulus - 2 => nextObjectId = Len(issued) + 2
    /\ Len(issued) = Modulus - 2 => nextObjectId \in {0, 1}

LEMMA IdsInOrder == IdsSpec => []InOrder
<1>1. IdsInit => InOrder
  BY IdsAssumption DEF IdsInit, InOrder
<1>2. InOrder /\ IdsTypeOK /\ [IdsNext]_idVars => InOrder'
  <2> SUFFICES ASSUME InOrder, IdsTypeOK, [IdsNext]_idVars PROVE InOrder'
    OBVIOUS
  <2> DEFINE n == Len(issued)
  <2>1. ASSUME NEW t \in Allocators, FetchAdd(t) PROVE InOrder'
    <3>1. /\ nextObjectId \in 0 .. Modulus - 1 /\ n \in Nat
          /\ DOMAIN issued = 1 .. n /\ Modulus \in Nat /\ Modulus > 2
      BY IdsAssumption DEF IdsTypeOK
    <3>2. nextObjectId' = IF nextObjectId = Modulus - 1
                          THEN 0 ELSE nextObjectId + 1
      BY <2>1 DEF FetchAdd, Wrap
    <3>3. CASE nextObjectId = 0 /\ UNCHANGED <<asking, issued>>
      BY <3>1, <3>2, <3>3 DEF InOrder
    <3>4. CASE /\ nextObjectId # 0
               /\ issued' = Append(issued, [id |-> nextObjectId, lap |-> lap])
      <4>1. /\ Len(issued') = n + 1 /\ DOMAIN issued' = 1 .. n + 1
            /\ issued'[n + 1].id = nextObjectId
            /\ \A i \in 1 .. n : issued'[i] = issued[i]
        BY <3>4 DEF IdsTypeOK
      <4> QED
        BY <3>1, <3>2, <3>4, <4>1 DEF InOrder
    <3> QED
      BY <2>1, <3>3, <3>4 DEF FetchAdd
  <2>2. ASSUME NEW t \in Allocators, Ask(t) PROVE InOrder'
    BY <2>2 DEF Ask, InOrder
  <2>3. CASE UNCHANGED idVars
    BY <2>3 DEF idVars, InOrder
  <2> QED
    BY <2>1, <2>2, <2>3 DEF IdsNext
<1> QED
  BY <1>1, <1>2, IdsTypeCorrect, PTL DEF IdsSpec

-----------------------------------------------------------------------------
(* The requests.                                                           *)

(* A packet has at least its header. *)
LEMMA SerializedLength ==
    ASSUME NEW p, p.payload \in Seq(Nat)
    PROVE  Len(Serialize(p)) \in Nat \ {0}
<1> DEFINE a == p.id
           b == SizeAndOpcode(Size(p), p.opcode)
           rest == p.payload
<1>1. Serialize(p) = <<a, b>> \o rest
  BY DEF Serialize
<1> HIDE DEF a, b, rest
<1>2. rest \in Seq(Nat)
  BY DEF rest
<1>3. rest \in Seq(Nat \cup {a, b}) /\ <<a, b>> \in Seq(Nat \cup {a, b})
  BY <1>2
<1>4. Len(<<a, b>> \o rest) = 2 + Len(rest) /\ Len(rest) \in Nat
  BY <1>3
<1> QED
  BY <1>1, <1>4

(* What a request is made of. *)
LEMMA CallFields ==
    ASSUME NEW c \in Calls
    PROVE  c # None /\ c.args \in Seq(Nat)
BY SendAssumption

LEMMA PacketLength ==
    ASSUME NEW t \in Tasks, call[t] \in Calls, newId[t] \in Ids \cup {0}
    PROVE  Len(PacketOf(t).words) \in Nat \ {0}
<1> DEFINE args == call[t].args
           id == IF call[t].new THEN <<newId[t]>> ELSE <<>>
           p == [id |-> call[t].object, opcode |-> call[t].opcode,
                 payload |-> args \o id]
<1>1. args \in Seq(Nat)
  BY CallFields
<1>2. id \in Seq(Nat)
  <2>1. newId[t] \in Nat
    BY IdsAssumption DEF Ids
  <2> QED
    BY <2>1
<1> HIDE DEF args, id
<1>3. args \o id \in Seq(Nat)
  BY <1>1, <1>2
<1>4. p.payload \in Seq(Nat)
  BY <1>3
<1>5. PacketOf(t).words = Serialize(p)
  BY Zenon DEF PacketOf, args, id
<1> HIDE DEF p
<1> QED
  BY <1>4, <1>5, SerializedLength

(* The part of TypeOK about one task. *)
TaskOK(t) ==
    /\ pc[t] = "idle" <=> call[t] = None
    /\ pc[t] = "asking" <=> t \in asking
    /\ pc[t] = "writing" <=> sendLock.writer = t
    /\ pc[t] # "writing" => total[t] = 0
    /\ pc[t] = "writing" => total[t] < Len(PacketOf(t).words)

(* Besides the types: requests for send_lock are for writing, and are of   *)
(* the tasks that await it, each one once.                                 *)
QueueOK ==
    /\ Distinct(sendLock)
    /\ sendLock.readers = {}
    /\ \A r \in Range(sendLock.waiting) :
          r.mode = "write" /\ pc[r.task] = "locking"

SendInv == TypeOK /\ QueueOK

(* What a step of t leaves alone is as it should be for the other tasks. *)
LEMMA OtherTasks ==
    ASSUME TypeOK, NEW t \in Tasks, NEW u \in Tasks, u # t,
           pc'[u] = pc[u], call'[u] = call[u], newId'[u] = newId[u],
           total'[u] = total[u], u \in asking' <=> u \in asking,
           sendLock'.writer = u <=> sendLock.writer = u
    PROVE  TaskOK(u)'
<1>1. TaskOK(u)
  BY DEF TypeOK, TaskOK
<1>2. PacketOf(u)' = PacketOf(u)
  BY DEF PacketOf
<1> HIDE DEF PacketOf
<1> QED
  BY <1>1, <1>2 DEF TaskOK

LocalTypes ==
    /\ pc \in [Tasks -> Locations]
    /\ call \in [Tasks -> Calls \cup {None}]
    /\ newId \in [Tasks -> Ids \cup {0}]
    /\ total \in [Tasks -> Nat]

(* Changing the variables of t changes those of t alone. *)
Touches(t) ==
    \A u \in Tasks \ {t} :
       /\ pc'[u] = pc[u] /\ call'[u] = call[u]
       /\ newId'[u] = newId[u] /\ total'[u] = total[u]

(* When a request of t is over, nothing of it is left. *)
LEMMA Returning ==
    ASSUME TypeOK, NEW t \in Tasks, NEW written \in Nat, Return(t, written)
    PROVE  /\ LocalTypes' /\ Touches(t)
           /\ lost' \subseteq Ids
           /\ pc'[t] = "idle" /\ call'[t] = None /\ total'[t] = 0
<1>1. /\ LocalTypes'
      /\ pc'[t] = "idle" /\ call'[t] = None /\ total'[t] = 0
  BY DEF TypeOK, Return, Locations, LocalTypes
<1>2. Touches(t)
  BY DEF TypeOK, Return, Touches
<1>3. lost' \subseteq Ids
  <2>1. newId[t] \in Ids \cup {0} /\ lost \subseteq Ids
    BY DEF TypeOK
  <2> QED
    BY <2>1 DEF Return
<1> QED
  BY <1>1, <1>2, <1>3

(* What is to be shown of a step of t. *)
LEMMA StepOf ==
    ASSUME TypeOK, NEW t \in Tasks,
           Touches(t), LocalTypes', TaskOK(t)', IdsTypeOK',
           sendLock' \in Locks, lost' \subseteq Ids, handles' \subseteq Tasks,
           inFlight' \in 0 .. Capacity, hangup' \in BOOLEAN, torn' \in BOOLEAN,
           made' \in 0 .. MaxCalls,
           \A u \in Tasks \ {t} : /\ u \in asking' <=> u \in asking
                                  /\ sendLock'.writer = u <=> sendLock.writer = u
    PROVE  TypeOK'
<1>1. \A u \in Tasks : TaskOK(u)'
  <2> TAKE u \in Tasks
  <2>1. CASE u = t
    BY <2>1
  <2>2. CASE u # t
    BY <2>2, OtherTasks DEF Touches
  <2> QED
    BY <2>1, <2>2
<1> QED
  BY <1>1 DEF TypeOK, LocalTypes, TaskOK

(* A task that does not await send_lock has no request in its queue. *)
LEMMA NotQueued ==
    ASSUME SendInv, NEW t \in Tasks, pc[t] # "locking"
    PROVE  \A r \in Range(sendLock.waiting) :
              r \in Range(sendLock.waiting) /\ r.task # t
BY DEF SendInv, QueueOK

(* A step of t by which no request but t's own leaves the queue. *)
LEMMA QueueLess ==
    ASSUME SendInv, NEW t \in Tasks, Touches(t), Distinct(sendLock'),
           sendLock'.readers = {},
           \A r \in Range(sendLock'.waiting) :
              r \in Range(sendLock.waiting) /\ r.task # t
    PROVE  QueueOK'
<1>1. sendLock \in Locks
  BY DEF SendInv, TypeOK
<1>2. Range(sendLock.waiting) \subseteq Requests
  BY <1>1, LockFields
<1>3. ASSUME NEW r \in Range(sendLock'.waiting)
      PROVE  r.mode = "write" /\ pc'[r.task] = "locking"
  <2>1. /\ r \in Range(sendLock.waiting) /\ r.task # t
        /\ r.mode = "write" /\ pc[r.task] = "locking"
    BY <1>3 DEF SendInv, QueueOK
  <2>2. r.task \in Tasks
    BY <1>2, <2>1 DEF Requests
  <2> QED
    BY <2>1, <2>2 DEF Touches
<1> QED
  BY <1>3 DEF QueueOK

LEMMA IdsUntouched ==
    ASSUME TypeOK, UNCHANGED idVars
    PROVE  IdsTypeOK' /\ asking' = asking
BY DEF TypeOK, IdsTypeOK, idVars

(* A request ends, with an error or well: its guard is dropped if it had   *)
(* one, and its place in the queue if it had one.                          *)
LEMMA Ending ==
    ASSUME SendInv, NEW t \in Tasks, NEW written \in Nat, Return(t, written),
           pc[t] \in {"ready", "locking", "writing"},
           UNCHANGED <<idVars, handles, made>>,
           inFlight' \in 0 .. Capacity, hangup' \in BOOLEAN, torn' \in BOOLEAN,
           sendLock' \in Locks, Distinct(sendLock'), sendLock'.readers = {},
           sendLock'.writer = IF sendLock.writer = t THEN None
                                                     ELSE sendLock.writer,
           \A r \in Range(sendLock'.waiting) :
              r \in Range(sendLock.waiting) /\ r.task # t
    PROVE  SendInv'
<1>1. TypeOK
  BY DEF SendInv
<1>2. /\ LocalTypes' /\ Touches(t) /\ lost' \subseteq Ids
      /\ pc'[t] = "idle" /\ call'[t] = None /\ total'[t] = 0
  BY <1>1, Returning
<1>3. IdsTypeOK' /\ asking' = asking
  BY <1>1, IdsUntouched
<1>4. t \notin asking' /\ sendLock'.writer # t
  BY <1>1, <1>3, NoneAssumption DEF TypeOK
<1>5. TaskOK(t)'
  BY <1>2, <1>4 DEF TaskOK
<1>6. /\ made' \in 0 .. MaxCalls /\ handles' \subseteq Tasks
  BY <1>1 DEF TypeOK
<1>7. \A u \in Tasks \ {t} : /\ u \in asking' <=> u \in asking
                             /\ sendLock'.writer = u <=> sendLock.writer = u
  BY <1>3, NoneAssumption
<1>8. TypeOK'
  BY <1>1, <1>2, <1>3, <1>5, <1>6, <1>7, StepOf
<1> QED
  BY <1>2, <1>8, QueueLess DEF SendInv

-----------------------------------------------------------------------------
(* The steps, one by one. *)

(* Handles, the compositor, nothing: no request is touched. *)
LEMMA NoRequestStep ==
    ASSUME SendInv,
           UNCHANGED <<idVars, pc, call, newId, total, sendLock, made, lost>>,
           inFlight' \in 0 .. Capacity, hangup' \in BOOLEAN, torn' \in BOOLEAN,
           handles' \subseteq Tasks
    PROVE  SendInv'
<1>1. TypeOK
  BY DEF SendInv
<1>2. IdsTypeOK' /\ asking' = asking
  BY <1>1, IdsUntouched
<1>3. ASSUME NEW t \in Tasks PROVE TaskOK(t)'
  <2>1. TaskOK(t) /\ PacketOf(t)' = PacketOf(t)
    BY <1>1, <1>3 DEF TypeOK, TaskOK, PacketOf
  <2> QED
    BY <1>2, <2>1 DEF TaskOK
<1>4. /\ LocalTypes' /\ sendLock' \in Locks /\ made' \in 0 .. MaxCalls
      /\ lost' \subseteq Ids
  BY <1>1 DEF TypeOK, LocalTypes
<1>5. TypeOK'
  BY <1>2, <1>3, <1>4 DEF TypeOK, LocalTypes, TaskOK
<1>6. QueueOK'
  BY DEF SendInv, QueueOK, Distinct
<1> QED
  BY <1>5, <1>6 DEF SendInv

LEMMA DecideStep ==
    ASSUME SendInv, NEW t \in Tasks, NEW c \in Calls, Decide(t, c)
    PROVE  SendInv'
<1>1. TypeOK /\ sendLock.readers = {} /\ Distinct(sendLock)
  BY DEF SendInv, QueueOK
<1>2. pc[t] = "idle" /\ c # None
  BY CallFields DEF Decide
<1>3. /\ pc'[t] \in {"ready", "asking"} /\ call'[t] = c
      /\ Touches(t) /\ LocalTypes'
      /\ UNCHANGED <<newId, total, sendLock, lost, handles, socketVars>>
  BY <1>1, <1>2 DEF Decide, TypeOK, Touches, LocalTypes, Locations
<1>4. /\ IdsTypeOK' /\ \A u \in Tasks \ {t} : u \in asking' <=> u \in asking
      /\ pc'[t] = "asking" <=> t \in asking'
  <2>1. t \notin asking
    BY <1>1, <1>2 DEF TypeOK
  <2>2. CASE pc' = [pc EXCEPT ![t] = "ready"] /\ UNCHANGED idVars
    BY <1>1, <2>1, <2>2, IdsUntouched DEF TypeOK
  <2>3. CASE /\ t \in Allocators \cap handles
             /\ pc' = [pc EXCEPT ![t] = "asking"] /\ Ask(t)
    <3>1. asking' = asking \cup {t} /\ UNCHANGED <<nextObjectId, issued, lap>>
      BY <2>3 DEF Ask
    <3>2. IdsTypeOK'
      BY <1>1, <2>3, <3>1 DEF TypeOK, IdsTypeOK
    <3> QED
      BY <1>1, <2>3, <3>1, <3>2 DEF TypeOK
  <2> QED
    BY <2>2, <2>3 DEF Decide
<1>5. TaskOK(t)'
  BY <1>1, <1>2, <1>3, <1>4 DEF TaskOK, TypeOK
<1>6. made' \in 0 .. MaxCalls
  BY <1>1, SendAssumption DEF Decide, TypeOK
<1>7. /\ inFlight' \in 0 .. Capacity /\ hangup' \in BOOLEAN
      /\ torn' \in BOOLEAN /\ lost' \subseteq Ids /\ handles' \subseteq Tasks
      /\ sendLock' \in Locks
  BY <1>1, <1>3 DEF TypeOK, socketVars
<1>8. TypeOK'
  BY <1>1, <1>3, <1>4, <1>5, <1>6, <1>7, StepOf
<1>9. QueueOK'
  BY <1>1, <1>2, <1>3, NotQueued, QueueLess
<1> QED
  BY <1>8, <1>9 DEF SendInv

(* fetch_add in the course of a request. *)
LEMMA FetchAddTypes ==
    ASSUME IdsTypeOK, NEW t, FetchAdd(t)
    PROVE  /\ IdsTypeOK'
           /\ \A u : u # t => (u \in asking' <=> u \in asking)
           /\ t \notin asking' => Last(issued').id \in Ids
<1>1. nextObjectId' \in 0 .. Modulus - 1 /\ lap' \in Nat
  BY WrapRange DEF FetchAdd, IdsTypeOK
<1>2. CASE UNCHANGED <<asking, issued>>
  BY <1>1, <1>2 DEF IdsTypeOK, FetchAdd
<1>3. CASE /\ nextObjectId # 0
           /\ asking' = asking \ {t}
           /\ issued' = Append(issued, [id |-> nextObjectId, lap |-> lap])
  <2>1. [id |-> nextObjectId, lap |-> lap] \in [id : Ids, lap : Nat]
    BY <1>3, IdsAssumption DEF IdsTypeOK, Ids
  <2>2. /\ issued' \in Seq([id : Ids, lap : Nat])
        /\ Last(issued') = [id |-> nextObjectId, lap |-> lap]
    BY <1>3, <2>1 DEF IdsTypeOK, Last
  <2>3. Last(issued').id \in Ids
    BY <2>1, <2>2
  <2> QED
    BY <1>1, <1>3, <2>2, <2>3 DEF IdsTypeOK
<1> QED
  BY <1>2, <1>3 DEF FetchAdd

LEMMA AllocateStep ==
    ASSUME SendInv, NEW t \in Tasks, Allocate(t)
    PROVE  SendInv'
<1>1. TypeOK /\ sendLock.readers = {} /\ Distinct(sendLock)
  BY DEF SendInv, QueueOK
<1>2. /\ pc[t] = "asking" /\ FetchAdd(t)
      /\ UNCHANGED <<call, total, sendLock, made, lost, handles, socketVars>>
  BY DEF Allocate
<1>3. /\ IdsTypeOK' /\ \A u : u # t => (u \in asking' <=> u \in asking)
      /\ t \notin asking' => Last(issued').id \in Ids
  BY <1>1, <1>2, FetchAddTypes DEF TypeOK
<1>4. /\ pc'[t] \in {"asking", "ready"}
      /\ pc'[t] = "asking" <=> t \in asking'
      /\ Touches(t) /\ LocalTypes'
  <2>1. CASE t \in asking' /\ UNCHANGED <<pc, newId>>
    BY <1>1, <1>2, <2>1 DEF TypeOK, Touches, LocalTypes
  <2>2. CASE /\ t \notin asking'
             /\ pc' = [pc EXCEPT ![t] = "ready"]
             /\ newId' = [newId EXCEPT ![t] = Last(issued').id]
    BY <1>1, <1>2, <1>3, <2>2 DEF TypeOK, Touches, LocalTypes, Locations
  <2> QED
    BY <2>1, <2>2 DEF Allocate
<1>5. TaskOK(t)'
  BY <1>1, <1>2, <1>4 DEF TaskOK, TypeOK
<1>6. /\ inFlight' \in 0 .. Capacity /\ hangup' \in BOOLEAN
      /\ torn' \in BOOLEAN /\ lost' \subseteq Ids /\ handles' \subseteq Tasks
      /\ sendLock' \in Locks /\ made' \in 0 .. MaxCalls
  BY <1>1, <1>2 DEF TypeOK, socketVars
<1>7. TypeOK'
  BY <1>1, <1>2, <1>3, <1>4, <1>5, <1>6, StepOf
<1>8. QueueOK'
  BY <1>1, <1>2, <1>4, NotQueued, QueueLess
<1> QED
  BY <1>7, <1>8 DEF SendInv

LEMMA CallProxyStep ==
    ASSUME SendInv, NEW t \in Tasks, CallProxy(t)
    PROVE  SendInv'
<1>1. /\ TypeOK /\ sendLock.readers = {} /\ Distinct(sendLock)
      /\ sendLock \in Locks
  BY DEF SendInv, QueueOK, TypeOK
<1>2. /\ pc[t] = "ready"
      /\ UNCHANGED <<idVars, handles, made, socketVars>>
  BY DEF CallProxy
<1>3. /\ inFlight' \in 0 .. Capacity /\ hangup' \in BOOLEAN
      /\ torn' \in BOOLEAN
  BY <1>1, <1>2 DEF TypeOK, socketVars
<1>4. CASE Return(t, 0) /\ UNCHANGED sendLock
  <2>1. sendLock.writer # t
    BY <1>1, <1>2 DEF TypeOK
  <2> QED
    BY <1>1, <1>2, <1>3, <1>4, <2>1, NotQueued, Ending
<1>5. CASE /\ sendLock' = Request(sendLock, t, "write")
           /\ pc' = [pc EXCEPT ![t] = "locking"]
           /\ UNCHANGED <<call, newId, total, lost>>
  <2>1. \A r \in Range(sendLock.waiting) : r.task # t
    BY <1>2, NotQueued
  <2>2. /\ sendLock' \in Locks /\ sendLock'.writer = sendLock.writer
        /\ sendLock'.readers = {} /\ Distinct(sendLock')
        /\ Range(sendLock'.waiting) = Range(sendLock.waiting)
                                      \cup {[task |-> t, mode |-> "write"]}
    BY <1>1, <1>5, <2>1, RequestLock DEF Modes
  <2>3. Touches(t) /\ LocalTypes' /\ pc'[t] = "locking"
    BY <1>1, <1>5 DEF TypeOK, Touches, LocalTypes, Locations
  <2>4. IdsTypeOK' /\ asking' = asking
    BY <1>1, <1>2, IdsUntouched
  <2>5. TaskOK(t)'
    BY <1>1, <1>2, <1>5, <2>2, <2>3, <2>4 DEF TypeOK, TaskOK
  <2>6. /\ lost' \subseteq Ids /\ handles' \subseteq Tasks
        /\ made' \in 0 .. MaxCalls
    BY <1>1, <1>2, <1>5 DEF TypeOK
  <2>7. TypeOK'
    BY <1>1, <1>3, <2>2, <2>3, <2>4, <2>5, <2>6, StepOf
  <2>8. ASSUME NEW r \in Range(sendLock'.waiting)
        PROVE  r.mode = "write" /\ pc'[r.task] = "locking"
    <3>1. CASE r \in Range(sendLock.waiting)
      <4>1. r.mode = "write" /\ pc[r.task] = "locking" /\ r.task # t
        BY <2>1, <3>1 DEF SendInv, QueueOK
      <4>2. r.task \in Tasks
        BY <1>1, <3>1, LockFields DEF Requests
      <4> QED
        BY <1>1, <1>5, <4>1, <4>2 DEF TypeOK
    <3>2. CASE r = [task |-> t, mode |-> "write"]
      BY <2>3, <3>2
    <3> QED
      BY <2>2, <2>8, <3>1, <3>2
  <2> QED
    BY <2>2, <2>7, <2>8 DEF SendInv, QueueOK
<1> QED
  BY <1>4, <1>5 DEF CallProxy

LEMMA LockStep ==
    ASSUME SendInv, NEW t \in Tasks, Lock(t)
    PROVE  SendInv'
<1>1. /\ TypeOK /\ sendLock.readers = {} /\ Distinct(sendLock)
      /\ sendLock \in Locks
  BY DEF SendInv, QueueOK, TypeOK
<1>2. /\ pc[t] = "locking" /\ Grantable(sendLock, t)
      /\ sendLock' = Grant(sendLock) /\ pc' = [pc EXCEPT ![t] = "writing"]
      /\ UNCHANGED <<idVars, handles, call, newId, total, made, lost,
                     socketVars>>
  BY DEF Lock
<1>3. \A r \in Range(sendLock.waiting) : r.task = t => r.mode = "write"
  BY DEF SendInv, QueueOK
<1>4. /\ sendLock.writer = None /\ sendLock' \in Locks
      /\ sendLock'.writer = t /\ sendLock'.readers = {} /\ Distinct(sendLock')
      /\ Range(sendLock'.waiting)
           = {q \in Range(sendLock.waiting) : q.task # t}
  BY <1>1, <1>2, <1>3, GrantWrite
<1>5. Touches(t) /\ LocalTypes' /\ pc'[t] = "writing"
  BY <1>1, <1>2 DEF TypeOK, Touches, LocalTypes, Locations
<1>6. IdsTypeOK' /\ asking' = asking
  BY <1>1, <1>2, IdsUntouched
<1>7. TaskOK(t)'
  <2>1. call[t] \in Calls /\ newId[t] \in Ids \cup {0} /\ total[t] = 0
    BY <1>1, <1>2 DEF TypeOK
  <2>2. Len(PacketOf(t).words) \in Nat \ {0} /\ PacketOf(t)' = PacketOf(t)
    BY <1>2, <2>1, PacketLength DEF PacketOf
  <2>3. total'[t] < Len(PacketOf(t)'.words)
    BY <1>2, <2>1, <2>2
  <2> QED
    BY <1>1, <1>2, <1>4, <1>5, <1>6, <2>3 DEF TypeOK, TaskOK
<1>8. /\ inFlight' \in 0 .. Capacity /\ hangup' \in BOOLEAN
      /\ torn' \in BOOLEAN /\ lost' \subseteq Ids /\ handles' \subseteq Tasks
      /\ made' \in 0 .. MaxCalls
  BY <1>1, <1>2 DEF TypeOK, socketVars
<1>9. TypeOK'
  <2>1. \A u \in Tasks \ {t} : sendLock'.writer # u /\ sendLock.writer # u
    BY <1>4, NoneAssumption
  <2> QED
    BY <1>1, <1>4, <1>5, <1>6, <1>7, <1>8, <2>1, StepOf
<1>10. QueueOK'
  BY <1>4, <1>5, QueueLess
<1> QED
  BY <1>9, <1>10 DEF SendInv

(* What remains of the lock when a request that holds it, or waits for it, *)
(* ends.                                                                   *)
LEMMA LockLeft ==
    ASSUME SendInv, NEW t \in Tasks,
           \/ pc[t] # "locking" /\ sendLock' = Release(sendLock, t)
           \/ sendLock' = Release(Withdraw(sendLock, t), t)
    PROVE  /\ sendLock' \in Locks /\ Distinct(sendLock')
           /\ sendLock'.readers = {}
           /\ sendLock'.writer = IF sendLock.writer = t THEN None
                                                        ELSE sendLock.writer
           /\ \A r \in Range(sendLock'.waiting) :
                 r \in Range(sendLock.waiting) /\ r.task # t
<1>1. /\ sendLock.readers = {} /\ Distinct(sendLock) /\ sendLock \in Locks
  BY DEF SendInv, QueueOK, TypeOK
<1>2. CASE pc[t] # "locking" /\ sendLock' = Release(sendLock, t)
  BY <1>1, <1>2, ReleaseLock, NotQueued
<1>3. CASE sendLock' = Release(Withdraw(sendLock, t), t)
  <2> DEFINE left == Withdraw(sendLock, t)
  <2>1. /\ left \in Locks /\ left.writer = sendLock.writer
        /\ left.readers = {} /\ Distinct(left)
        /\ Range(left.waiting) = {r \in Range(sendLock.waiting) : r.task # t}
    BY <1>1, WithdrawLock
  <2>2. sendLock' = Release(left, t)
    BY <1>3
  <2> HIDE DEF left
  <2> QED
    BY <2>1, <2>2, ReleaseLock
<1> QED
  BY <1>2, <1>3

LEMMA WriteStep ==
    ASSUME SendInv, NEW t \in Tasks, NEW k \in 1 .. Capacity, Write(t, k)
    PROVE  SendInv'
<1> DEFINE n == Len(PacketOf(t).words)
<1>1. /\ TypeOK /\ sendLock.readers = {} /\ Distinct(sendLock)
      /\ Capacity \in Nat
  BY SendAssumption DEF SendInv, QueueOK
<1>2. /\ pc[t] = "writing" /\ inFlight + k <= Capacity /\ total[t] + k <= n
      /\ inFlight' = inFlight + k
      /\ UNCHANGED <<idVars, handles, made, hangup, torn>>
  BY DEF Write
<1>3. /\ call[t] \in Calls /\ newId[t] \in Ids \cup {0} /\ total[t] \in Nat
      /\ inFlight \in Nat
  BY <1>1, <1>2 DEF TypeOK
<1>4. n \in Nat
  BY <1>3, PacketLength
<1>5. /\ inFlight' \in 0 .. Capacity /\ hangup' \in BOOLEAN
      /\ torn' \in BOOLEAN
  BY <1>1, <1>2, <1>3 DEF TypeOK
<1>6. CASE /\ total[t] + k < n
           /\ total' = [total EXCEPT ![t] = @ + k]
           /\ UNCHANGED <<pc, call, newId, sendLock, lost>>
  <2>1. Touches(t) /\ LocalTypes' /\ total'[t] = total[t] + k
    BY <1>1, <1>3, <1>6 DEF TypeOK, Touches, LocalTypes
  <2>2. IdsTypeOK' /\ asking' = asking
    BY <1>1, <1>2, IdsUntouched
  <2>3. PacketOf(t)' = PacketOf(t)
    BY <1>6 DEF PacketOf
  <2>4. TaskOK(t)'
    BY <1>1, <1>2, <1>6, <2>1, <2>2, <2>3 DEF TypeOK, TaskOK
  <2>5. /\ lost' \subseteq Ids /\ handles' \subseteq Tasks
        /\ sendLock' \in Locks /\ made' \in 0 .. MaxCalls
    BY <1>1, <1>2, <1>6 DEF TypeOK
  <2>6. TypeOK'
    BY <1>1, <1>5, <1>6, <2>1, <2>2, <2>4, <2>5, StepOf
  <2>7. QueueOK'
    BY <1>1, <1>2, <1>6, <2>1, NotQueued, QueueLess
  <2> QED
    BY <2>6, <2>7 DEF SendInv
<1>7. CASE Finish(t, total[t] + k)
  <2>1. Return(t, total[t] + k) /\ sendLock' = Release(sendLock, t)
    BY <1>7 DEF Finish
  <2>2. total[t] + k \in Nat
    BY <1>3
  <2> HIDE DEF n
  <2> QED
    BY <1>2, <1>5, <2>1, <2>2, LockLeft, Ending
<1> QED
  BY <1>6, <1>7 DEF Write

LEMMA WriteFailsStep ==
    ASSUME SendInv, NEW t \in Tasks, WriteFails(t)
    PROVE  SendInv'
<1>1. /\ pc[t] = "writing" /\ Return(t, total[t])
      /\ sendLock' = Release(sendLock, t)
      /\ torn' = (torn \/ total[t] > 0)
      /\ UNCHANGED <<idVars, handles, made, inFlight, hangup>>
  BY DEF WriteFails, Finish
<1>2. /\ total[t] \in Nat /\ inFlight' \in 0 .. Capacity
      /\ hangup' \in BOOLEAN /\ torn' \in BOOLEAN
  BY <1>1 DEF SendInv, TypeOK
<1> QED
  BY <1>1, <1>2, LockLeft, Ending

LEMMA CancelStep ==
    ASSUME SendInv, NEW t \in Tasks, Cancel(t)
    PROVE  SendInv'
<1>1. /\ pc[t] \in {"ready", "locking", "writing"} /\ Return(t, total[t])
      /\ sendLock' = Release(Withdraw(sendLock, t), t)
      /\ torn' = (torn \/ total[t] > 0)
      /\ UNCHANGED <<idVars, handles, made, inFlight, hangup>>
  BY DEF Cancel
<1>2. /\ total[t] \in Nat /\ inFlight' \in 0 .. Capacity
      /\ hangup' \in BOOLEAN /\ torn' \in BOOLEAN
  BY <1>1 DEF SendInv, TypeOK
<1> QED
  BY <1>1, <1>2, LockLeft, Ending

(* Every step keeps the invariant. *)
LEMMA SendInvKept == SendInv /\ [Next]_vars => SendInv'
<1> SUFFICES ASSUME SendInv, [Next]_vars PROVE SendInv'
  OBVIOUS
<1>1. TypeOK /\ Capacity \in Nat
  BY SendAssumption DEF SendInv
<1>2. ASSUME NEW t \in Tasks, TakeHandle(t) \/ DropHandle(t) PROVE SendInv'
  <2>1. /\ UNCHANGED <<idVars, pc, call, newId, total, sendLock, made, lost,
                       inFlight, hangup, torn>>
        /\ handles' \subseteq Tasks
    BY <1>1, <1>2 DEF TakeHandle, DropHandle, socketVars, TypeOK
  <2> QED
    BY <1>1, <2>1, NoRequestStep DEF TypeOK
<1>3. ASSUME NEW t \in Tasks, Send(t) PROVE SendInv'
  BY <1>3, AllocateStep, CallProxyStep, LockStep, WriteStep, WriteFailsStep
     DEF Send
<1>4. CASE Consume \/ HangUp
  <2>1. /\ UNCHANGED <<idVars, handles, pc, call, newId, total, sendLock, made,
                       lost, torn>>
        /\ \/ inFlight' = 0 /\ hangup' = hangup
           \/ inFlight' = inFlight /\ hangup' = TRUE
    BY <1>4 DEF Consume, HangUp
  <2>2. inFlight' \in 0 .. Capacity
    <3>1. inFlight \in 0 .. Capacity
      BY <1>1 DEF TypeOK
    <3> QED
      BY <1>1, <2>1, <3>1
  <2>3. hangup' \in BOOLEAN
    <3>1. hangup \in BOOLEAN
      BY <1>1 DEF TypeOK
    <3> QED
      BY <2>1, <3>1, Zenon
  <2> QED
    BY <1>1, <2>1, <2>2, <2>3, NoRequestStep DEF TypeOK
<1>5. CASE UNCHANGED vars
  BY <1>1, <1>5, NoRequestStep DEF vars, socketVars, TypeOK
<1> QED
  BY <1>2, <1>3, <1>4, <1>5, DecideStep, CancelStep DEF Next

LEMMA SendInvInitially == Init => SendInv
<1> SUFFICES ASSUME Init PROVE SendInv
  OBVIOUS
<1>1. IdsTypeOK
  BY IdsAssumption DEF Init, IdsInit, IdsTypeOK
<1>2. /\ sendLock \in Locks /\ Distinct(sendLock)
      /\ Range(sendLock.waiting) = {} /\ sendLock.writer = None
      /\ sendLock.readers = {}
  BY UnlockedLock DEF Init
<1>3. \A t \in Tasks :
         /\ pc[t] = "idle" /\ call[t] = None /\ newId[t] = 0 /\ total[t] = 0
         /\ t \notin asking /\ sendLock.writer # t
  BY <1>2, NoneAssumption DEF Init, IdsInit
<1>4. TypeOK
  <2>1. \A t \in Tasks : TaskOK(t)
    BY <1>3 DEF TaskOK
  <2>2. LocalTypes
    BY DEF Init, LocalTypes, Locations
  <2>3. hangup \in BOOLEAN /\ torn \in BOOLEAN
    BY Zenon DEF Init
  <2>4. handles \subseteq Tasks /\ lost \subseteq Ids
    BY DEF Init
  <2>5. inFlight \in 0 .. Capacity /\ made \in 0 .. MaxCalls
    BY SendAssumption DEF Init
  <2> QED
    BY <1>1, <1>2, <2>1, <2>2, <2>3, <2>4, <2>5 DEF TypeOK, TaskOK, LocalTypes
<1> QED
  BY <1>2, <1>4 DEF SendInv, QueueOK

LEMMA SendInvAlways == Spec => []SendInv
BY SendInvInitially, SendInvKept, PTL DEF Spec

(* Types, and that send_lock is with the task that writes: however tasks   *)
(* and their cancelled calls overlap, at most one is in the middle of a    *)
(* packet, and it has words left to write.                                 *)
THEOREM SendTypeCorrect == Spec => []TypeOK
<1>1. SendInv => TypeOK
  BY DEF SendInv
<1> QED
  BY <1>1, SendInvAlways, PTL

-----------------------------------------------------------------------------
(* Tasks that make requests use the counter as ObjectIds has it: whatever  *)
(* else they do, and however their calls end, they take each id from the   *)
(* counter in one step.                                                    *)
THEOREM SendTakesIds == Spec => IdsSpec
<1>1. Init => IdsInit
  BY DEF Init
<1>2. SendInv /\ [Next]_vars => [IdsNext]_idVars
  <2> SUFFICES ASSUME SendInv, [Next]_vars PROVE [IdsNext]_idVars
    OBVIOUS
  <2>1. ASSUME NEW t \in Tasks, NEW c \in Calls, Decide(t, c)
        PROVE  [IdsNext]_idVars
    BY <2>1 DEF Decide, IdsNext
  <2>2. ASSUME NEW t \in Tasks, Allocate(t) PROVE [IdsNext]_idVars
    <3>1. t \in Allocators /\ FetchAdd(t)
      BY <2>2 DEF Allocate, FetchAdd, SendInv, TypeOK, IdsTypeOK
    <3> QED
      BY <3>1 DEF IdsNext
  <2>3. ASSUME NEW t \in Tasks,
               \/ TakeHandle(t) \/ DropHandle(t) \/ CallProxy(t) \/ Lock(t)
               \/ \E k \in 1 .. Capacity : Write(t, k)
               \/ WriteFails(t) \/ Cancel(t)
        PROVE  UNCHANGED idVars
    BY <2>3 DEF TakeHandle, DropHandle, CallProxy, Lock, Write, WriteFails,
                Cancel
  <2>4. CASE Consume \/ HangUp \/ UNCHANGED vars
    BY <2>4 DEF Consume, HangUp, vars
  <2> QED
    BY <2>1, <2>2, <2>3, <2>4 DEF Next, Send
<1> QED
  BY <1>1, <1>2, SendInvAlways, PTL DEF Spec, IdsSpec

(* No two requests get the same id in a lap of the counter. *)
THEOREM SendUniqueInLap == Spec => []UniqueInLap
BY SendTakesIds, IdsUniqueInLap, PTL

-----------------------------------------------------------------------------
(* Where each id is: in a packet on the wire, with a task that has written *)
(* nothing of its packet, or lost.                                         *)
Introduced == {i \in DOMAIN begun : begun[i].newId # 0}
Pending == {t \in Tasks : newId[t] # 0 /\ total[t] = 0}
IssuedIds == {issued[i].id : i \in DOMAIN issued}
IntroducedIds == {begun[i].newId : i \in Introduced}
PendingIds == {newId[t] : t \in Pending}

Blank == \A t \in Tasks : pc[t] \in {"idle", "asking"} => newId[t] = 0

Finite ==
    /\ \E S : begun \in Seq(S)
    /\ IsFiniteSet(Pending) /\ IsFiniteSet(lost)

(* Nothing is lost without being recorded; and while ids are not issued a  *)
(* second time nothing is in two places.                                   *)
Complete == IssuedIds = IntroducedIds \cup PendingIds \cup lost

Apart ==
    Len(issued) < Modulus =>
       /\ \A t \in Pending : newId[t] \notin lost
       /\ \A t, u \in Pending : newId[t] = newId[u] => t = u
       /\ Len(issued) = Cardinality(Introduced) + Cardinality(Pending)
                           + Cardinality(lost)

AccountInv == Finite /\ Complete /\ Apart

(* What steps do to ids.  One leaves them where they are. *)
Same(T) == \A t \in T : newId'[t] = newId[t]

Keeps ==
    /\ Pending' = Pending /\ Same(Pending)
    /\ UNCHANGED <<issued, lost>>
    /\ \/ UNCHANGED begun
       \/ \E p : p.newId = 0 /\ begun' = Append(begun, p)

(* One is taken from the counter. *)
Takes(t) ==
    /\ t \notin Pending /\ Pending' = Pending \cup {t} /\ Same(Pending)
    /\ \E e : e.id = newId'[t] /\ issued' = Append(issued, e)
    /\ UNCHANGED <<begun, lost>>

(* One goes out with the first words of its packet. *)
Introduces(t) ==
    /\ t \in Pending /\ Pending' = Pending \ {t} /\ Same(Pending')
    /\ \E p : p.newId = newId[t] /\ begun' = Append(begun, p)
    /\ UNCHANGED <<issued, lost>>

(* One is lost with a request of which nothing was written. *)
Loses(t) ==
    /\ t \in Pending /\ Pending' = Pending \ {t} /\ Same(Pending')
    /\ lost' = lost \cup {newId[t]}
    /\ UNCHANGED <<issued, begun>>

LEMMA IntroducedFinite ==
    ASSUME NEW S, begun \in Seq(S)
    PROVE  IsFiniteSet(Introduced) /\ Cardinality(Introduced) \in Nat
<1>1. Len(begun) \in Nat /\ DOMAIN begun = 1 .. Len(begun)
  OBVIOUS
<1>2. IsFiniteSet(1 .. Len(begun))
  BY <1>1, FS_Interval
<1>3. Introduced \in SUBSET (1 .. Len(begun))
  BY <1>1 DEF Introduced
<1> QED
  BY <1>2, <1>3, FS_Subset, FS_CardinalityType

(* The packets that were begun, one more. *)
LEMMA Begins ==
    ASSUME Finite, NEW p, begun' = Append(begun, p)
    PROVE  /\ \E S : begun' \in Seq(S)
           /\ Cardinality(Introduced) \in Nat
           /\ p.newId = 0 => /\ Introduced' = Introduced
                             /\ IntroducedIds' = IntroducedIds
           /\ p.newId # 0 =>
                 /\ Cardinality(Introduced') = Cardinality(Introduced) + 1
                 /\ IntroducedIds' = IntroducedIds \cup {p.newId}
<1>1. PICK S : begun \in Seq(S)
  BY DEF Finite
<1>2. begun \in Seq(S \cup {p}) /\ begun' \in Seq(S \cup {p})
  BY <1>1
<1> DEFINE n == Len(begun)
<1>3. /\ n \in Nat /\ DOMAIN begun = 1 .. n /\ DOMAIN begun' = 1 .. n + 1
      /\ begun'[n + 1] = p
      /\ \A i \in 1 .. n : begun'[i] = begun[i]
  BY <1>2
<1> HIDE DEF n
<1>5. Introduced \in SUBSET (1 .. n)
  BY <1>3 DEF Introduced
<1>6. IsFiniteSet(Introduced) /\ Cardinality(Introduced) \in Nat
  BY <1>1, IntroducedFinite
<1>7. CASE p.newId = 0
  <2>1. Introduced' = Introduced
    BY <1>3, <1>7 DEF Introduced
  <2>2. IntroducedIds' = IntroducedIds
    BY <1>3, <1>5, <2>1 DEF IntroducedIds
  <2> QED
    BY <1>2, <1>6, <1>7, <2>1, <2>2
<1>8. CASE p.newId # 0
  <2>1. Introduced' = Introduced \cup {n + 1} /\ n + 1 \notin Introduced
    BY <1>3, <1>8 DEF Introduced
  <2>2. Cardinality(Introduced') = Cardinality(Introduced) + 1
    BY <1>6, <2>1, FS_AddElement
  <2>3. IntroducedIds' = IntroducedIds \cup {p.newId}
    BY <1>3, <1>5, <2>1 DEF IntroducedIds
  <2> QED
    BY <1>2, <1>6, <1>8, <2>2, <2>3
<1> QED
  BY <1>7, <1>8

(* The ids issued, one more: a new one while the first lap lasts. *)
LEMMA Issues ==
    ASSUME IdsTypeOK, IdsTypeOK', InOrder', NEW e, issued' = Append(issued, e)
    PROVE  /\ IssuedIds' = IssuedIds \cup {e.id}
           /\ Len(issued) \in Nat /\ Len(issued') = Len(issued) + 1
           /\ Len(issued') < Modulus => e.id \notin IssuedIds
<1> DEFINE n == Len(issued)
           S == [id : Ids, lap : Nat]
<1>1. issued \in Seq(S) /\ issued' \in Seq(S)
  BY DEF IdsTypeOK
<1> HIDE DEF S
<1>2. /\ n \in Nat /\ DOMAIN issued = 1 .. n /\ DOMAIN issued' = 1 .. n + 1
      /\ Len(issued') = n + 1 /\ issued'[n + 1] = e
      /\ \A i \in 1 .. n : issued'[i] = issued[i]
  <2>1. issued \in Seq(S \cup {e})
    BY <1>1
  <2> QED
    BY <2>1
<1> HIDE DEF n
<1>3. IssuedIds' = IssuedIds \cup {e.id}
  <2>1. \A i \in DOMAIN issued' : issued'[i].id \in IssuedIds \cup {e.id}
    BY <1>2 DEF IssuedIds
  <2>2. e.id \in IssuedIds'
    BY <1>2 DEF IssuedIds
  <2>3. \A i \in DOMAIN issued : issued[i].id \in IssuedIds'
    BY <1>2 DEF IssuedIds
  <2> QED
    BY <2>1, <2>2, <2>3 DEF IssuedIds
<1>4. ASSUME Len(issued') < Modulus, NEW i \in 1 .. n
      PROVE  issued[i].id # e.id
  <2>1. \A j \in DOMAIN issued' :
           j < Modulus => issued'[j].id = IF j = Modulus - 1 THEN 1 ELSE j + 1
    BY DEF InOrder
  <2>2. /\ i \in 1 .. n + 1 /\ n + 1 \in 1 .. n + 1 /\ i < n + 1
        /\ n + 1 < Modulus
    BY <1>2, <1>4
  <2>3. /\ issued'[n + 1].id = IF n + 1 = Modulus - 1 THEN 1 ELSE n + 2
        /\ issued'[i].id = IF i = Modulus - 1 THEN 1 ELSE i + 1
    <3>1. i < Modulus
      BY <1>2, <2>2, IdsAssumption
    <3> QED
      BY <1>2, <2>1, <2>2, <3>1
  <2> QED
    BY <1>2, <2>2, <2>3, IdsAssumption
<1>5. Len(issued') < Modulus => e.id \notin IssuedIds
  BY <1>2, <1>4 DEF IssuedIds
<1> QED
  BY <1>2, <1>3, <1>5 DEF n

LEMMA KeepsAccount ==
    ASSUME AccountInv, Keeps PROVE AccountInv'
<1>1. PendingIds' = PendingIds /\ IssuedIds' = IssuedIds
  BY DEF Keeps, Same, PendingIds, IssuedIds
<1>2. /\ \E S : begun' \in Seq(S)
      /\ Cardinality(Introduced') = Cardinality(Introduced)
      /\ IntroducedIds' = IntroducedIds
  <2>1. CASE UNCHANGED begun
    BY <2>1 DEF AccountInv, Finite, Introduced, IntroducedIds
  <2>2. ASSUME NEW p, p.newId = 0, begun' = Append(begun, p)
        PROVE  /\ \E S : begun' \in Seq(S)
               /\ Cardinality(Introduced') = Cardinality(Introduced)
               /\ IntroducedIds' = IntroducedIds
    BY <2>2, Begins DEF AccountInv
  <2> QED
    BY <2>1, <2>2 DEF Keeps
<1>3. Finite'
  BY <1>2 DEF AccountInv, Finite, Keeps
<1>4. Complete'
  BY <1>1, <1>2 DEF AccountInv, Complete, Keeps
<1>5. Apart'
  BY <1>2 DEF AccountInv, Apart, Keeps, Same
<1> QED
  BY <1>3, <1>4, <1>5 DEF AccountInv

LEMMA TakesAccount ==
    ASSUME AccountInv, IdsTypeOK, IdsTypeOK', InOrder', NEW t, Takes(t)
    PROVE  AccountInv'
<1>1. PICK e : e.id = newId'[t] /\ issued' = Append(issued, e)
  BY DEF Takes
<1>2. /\ IssuedIds' = IssuedIds \cup {newId'[t]}
      /\ Len(issued) \in Nat /\ Len(issued') = Len(issued) + 1
      /\ Len(issued') < Modulus => newId'[t] \notin IssuedIds
  BY <1>1, Issues
<1>3. PendingIds' = PendingIds \cup {newId'[t]}
  BY DEF Takes, Same, PendingIds
<1>4. /\ IsFiniteSet(Pending') /\ Cardinality(Pending) \in Nat
      /\ Cardinality(Pending') = Cardinality(Pending) + 1
  BY FS_AddElement, FS_CardinalityType DEF AccountInv, Finite, Takes
<1>5. Introduced' = Introduced /\ IntroducedIds' = IntroducedIds
  BY DEF Takes, Introduced, IntroducedIds
<1>6. Finite'
  BY <1>4 DEF AccountInv, Finite, Takes
<1>7. Complete'
  BY <1>2, <1>3, <1>5 DEF AccountInv, Complete, Takes
<1>8. Apart'
  <2> SUFFICES ASSUME Len(issued') < Modulus
               PROVE  /\ \A u \in Pending' : newId'[u] \notin lost'
                      /\ \A u, v \in Pending' : newId'[u] = newId'[v] => u = v
                      /\ Len(issued') = Cardinality(Introduced')
                            + Cardinality(Pending') + Cardinality(lost')
    BY DEF Apart
  <2>1. Len(issued) < Modulus /\ newId'[t] \notin IssuedIds
    BY <1>2, IdsAssumption
  <2>2. newId'[t] \notin lost /\ newId'[t] \notin PendingIds
    BY <2>1 DEF AccountInv, Complete
  <2>3. \A u \in Pending : newId'[u] = newId[u] /\ newId[u] # newId'[t]
    BY <2>2 DEF Takes, Same, PendingIds
  <2>4. \A u \in Pending' : newId'[u] \notin lost'
    BY <2>1, <2>2, <2>3 DEF AccountInv, Apart, Takes
  <2>5. \A u, v \in Pending' : newId'[u] = newId'[v] => u = v
    BY <2>1, <2>3 DEF AccountInv, Apart, Takes
  <2>6. Cardinality(Introduced) \in Nat /\ Cardinality(lost) \in Nat
    <3>1. PICK S : begun \in Seq(S)
      BY DEF AccountInv, Finite
    <3> QED
      BY <3>1, IntroducedFinite, FS_CardinalityType DEF AccountInv, Finite
  <2>7. Len(issued) = Cardinality(Introduced) + Cardinality(Pending)
                         + Cardinality(lost)
    BY <2>1 DEF AccountInv, Apart
  <2>8. Len(issued') = Cardinality(Introduced') + Cardinality(Pending')
                          + Cardinality(lost')
    BY <1>2, <1>4, <1>5, <2>6, <2>7 DEF Takes
  <2> QED
    BY <2>4, <2>5, <2>8
<1> QED
  BY <1>6, <1>7, <1>8 DEF AccountInv

LEMMA IntroducesAccount ==
    ASSUME AccountInv, NEW t, Introduces(t), Len(issued) \in Nat
    PROVE  AccountInv'
<1>1. PICK p : p.newId = newId[t] /\ begun' = Append(begun, p)
  BY DEF Introduces
<1>2. newId[t] # 0
  BY DEF Introduces, Pending
<1>3. /\ \E S : begun' \in Seq(S)
      /\ Cardinality(Introduced) \in Nat
      /\ Cardinality(Introduced') = Cardinality(Introduced) + 1
      /\ IntroducedIds' = IntroducedIds \cup {newId[t]}
  BY <1>1, <1>2, Begins DEF AccountInv
<1>4. PendingIds = PendingIds' \cup {newId[t]} /\ IssuedIds' = IssuedIds
  BY DEF Introduces, Same, PendingIds, IssuedIds
<1>5. /\ IsFiniteSet(Pending') /\ Cardinality(Pending) \in Nat
      /\ Cardinality(Pending') = Cardinality(Pending) - 1
      /\ Cardinality(lost) \in Nat
  BY FS_RemoveElement, FS_CardinalityType DEF AccountInv, Finite, Introduces
<1>6. Finite'
  BY <1>3, <1>5 DEF AccountInv, Finite, Introduces
<1>7. Complete'
  BY <1>3, <1>4 DEF AccountInv, Complete, Introduces
<1>8. Apart'
  <2>1. /\ t \in Pending /\ Pending' \subseteq Pending
        /\ \A u \in Pending' : newId'[u] = newId[u]
        /\ issued' = issued /\ lost' = lost
    BY DEF Introduces, Same
  <2>2. ASSUME Len(issued') < Modulus
        PROVE  Len(issued') = Cardinality(Introduced') + Cardinality(Pending')
                                 + Cardinality(lost')
    <3>1. Len(issued) = Cardinality(Introduced) + Cardinality(Pending)
                           + Cardinality(lost)
      BY <2>1, <2>2 DEF AccountInv, Apart
    <3> QED
      BY <1>3, <1>5, <2>1, <3>1
  <2> QED
    BY <2>1, <2>2 DEF AccountInv, Apart
<1> QED
  BY <1>6, <1>7, <1>8 DEF AccountInv

LEMMA LosesAccount ==
    ASSUME AccountInv, NEW t, Loses(t), Len(issued) \in Nat
    PROVE  AccountInv'
<1>1. Introduced' = Introduced /\ IntroducedIds' = IntroducedIds
  BY DEF Loses, Introduced, IntroducedIds
<1>2. PendingIds = PendingIds' \cup {newId[t]} /\ IssuedIds' = IssuedIds
  BY DEF Loses, Same, PendingIds, IssuedIds
<1>3. /\ IsFiniteSet(Pending') /\ Cardinality(Pending) \in Nat
      /\ Cardinality(Pending') = Cardinality(Pending) - 1
  BY FS_RemoveElement, FS_CardinalityType DEF AccountInv, Finite, Loses
<1>4. /\ IsFiniteSet(lost') /\ Cardinality(lost) \in Nat
      /\ newId[t] \notin lost => Cardinality(lost') = Cardinality(lost) + 1
  BY FS_AddElement, FS_CardinalityType DEF AccountInv, Finite, Loses
<1>5. Cardinality(Introduced) \in Nat
  <2>1. PICK S : begun \in Seq(S)
    BY DEF AccountInv, Finite
  <2> QED
    BY <2>1, IntroducedFinite
<1>6. Finite'
  BY <1>3, <1>4 DEF AccountInv, Finite, Loses
<1>7. Complete'
  BY <1>1, <1>2 DEF AccountInv, Complete, Loses
<1>8. Apart'
  <2> SUFFICES ASSUME Len(issued) < Modulus
               PROVE  /\ \A u \in Pending' : newId'[u] \notin lost'
                      /\ \A u, v \in Pending' : newId'[u] = newId'[v] => u = v
                      /\ Len(issued) = Cardinality(Introduced')
                            + Cardinality(Pending') + Cardinality(lost')
    BY DEF Apart, Loses
  <2>1. /\ \A u \in Pending : newId[u] \notin lost
        /\ \A u, v \in Pending : newId[u] = newId[v] => u = v
        /\ Len(issued) = Cardinality(Introduced) + Cardinality(Pending)
                            + Cardinality(lost)
    BY DEF AccountInv, Apart
  <2>2. \A u \in Pending' : u \in Pending /\ u # t /\ newId'[u] = newId[u]
    BY DEF Loses, Same
  <2>3. \A u \in Pending' : newId'[u] \notin lost'
    BY <2>1, <2>2 DEF Loses
  <2>4. \A u, v \in Pending' : newId'[u] = newId'[v] => u = v
    BY <2>1, <2>2
  <2>5. newId[t] \notin lost
    BY <2>1 DEF Loses
  <2> QED
    BY <1>1, <1>3, <1>4, <1>5, <2>1, <2>3, <2>4, <2>5
<1> QED
  BY <1>6, <1>7, <1>8 DEF AccountInv

(* A step that leaves ids alone. *)
LEMMA LeavesIds ==
    ASSUME UNCHANGED <<newId, total, issued, begun, lost>> PROVE Keeps
BY DEF Keeps, Pending, Same

(* The end of a request takes its id back unless a part of it is written.  *)
LEMMA ReturnsIds ==
    ASSUME SendInv, NEW t \in Tasks, Return(t, total[t]),
           UNCHANGED <<issued, begun>>
    PROVE  Keeps \/ Loses(t)
<1>1. /\ newId \in [Tasks -> Ids \cup {0}] /\ total \in [Tasks -> Nat]
      /\ newId' = [newId EXCEPT ![t] = 0] /\ total' = [total EXCEPT ![t] = 0]
      /\ lost' = IF total[t] = 0 THEN lost \cup ({newId[t]} \ {0}) ELSE lost
  BY DEF SendInv, TypeOK, Return
<1>2. CASE total[t] = 0 /\ newId[t] # 0
  <2>1. t \in Pending /\ Pending' = Pending \ {t}
    BY <1>1, <1>2 DEF Pending
  <2>2. Same(Pending') /\ lost' = lost \cup {newId[t]}
    BY <1>1, <1>2, <2>1 DEF Same, Pending
  <2> QED
    BY <2>1, <2>2 DEF Loses
<1>3. CASE total[t] # 0 \/ newId[t] = 0
  <2>1. t \notin Pending /\ Pending' = Pending
    BY <1>1, <1>3 DEF Pending
  <2>2. Same(Pending) /\ lost' = lost
    BY <1>1, <1>3, <2>1 DEF Same, Pending
  <2> QED
    BY <2>1, <2>2 DEF Keeps
<1> QED
  BY <1>2, <1>3

LEMMA AllocatesIds ==
    ASSUME SendInv, Blank, NEW t \in Tasks, Allocate(t)
    PROVE  Keeps \/ Takes(t)
<1>1. /\ newId \in [Tasks -> Ids \cup {0}] /\ total \in [Tasks -> Nat]
      /\ total[t] = 0 /\ newId[t] = 0 /\ t \in asking
      /\ issued \in Seq([id : Ids, lap : Nat])
  BY DEF SendInv, TypeOK, IdsTypeOK, Blank, Allocate
<1>2. FetchAdd(t) /\ UNCHANGED <<total, begun, lost>>
  BY DEF Allocate, socketVars
<1>3. CASE UNCHANGED <<asking, issued>>
  <2>1. UNCHANGED newId
    BY <1>1, <1>3 DEF Allocate
  <2> QED
    BY <1>2, <1>3, <2>1, LeavesIds
<1>4. CASE /\ nextObjectId # 0
           /\ asking' = asking \ {t}
           /\ issued' = Append(issued, [id |-> nextObjectId, lap |-> lap])
  <2> DEFINE e == [id |-> nextObjectId, lap |-> lap]
  <2>1. newId' = [newId EXCEPT ![t] = Last(issued').id]
    BY <1>1, <1>4 DEF Allocate
  <2>2. Last(issued') = e
    <3> DEFINE S == [id : Ids, lap : Nat]
    <3>1. issued' = Append(issued, e) /\ issued \in Seq(S)
      BY <1>1, <1>4
    <3> HIDE DEF e, S
    <3>2. issued \in Seq(S \cup {e})
      BY <3>1
    <3>3. issued'[Len(issued')] = e
      BY <3>1, <3>2
    <3> QED
      BY <3>3, Zenon DEF Last
  <2>3. newId'[t] = nextObjectId /\ e.id = newId'[t]
    BY <1>1, <2>1, <2>2
  <2>4. t \notin Pending /\ Pending' = Pending \cup {t} /\ Same(Pending)
    BY <1>1, <1>2, <1>4, <2>1, <2>3 DEF Pending, Same
  <2> QED
    BY <1>2, <1>4, <2>3, <2>4 DEF Takes
<1> QED
  BY <1>2, <1>3, <1>4 DEF FetchAdd

LEMMA WritesIds ==
    ASSUME SendInv, NEW t \in Tasks, NEW k \in 1 .. Capacity, Write(t, k)
    PROVE  Keeps \/ Introduces(t)
<1>1. /\ newId \in [Tasks -> Ids \cup {0}] /\ total \in [Tasks -> Nat]
      /\ Capacity \in Nat
  BY SendAssumption DEF SendInv, TypeOK
<1>2. /\ UNCHANGED <<issued, lost>>
      /\ begun' = IF total[t] = 0 THEN Append(begun, PacketOf(t)) ELSE begun
      /\ \/ newId' = newId /\ total' = [total EXCEPT ![t] = @ + k]
         \/ /\ newId' = [newId EXCEPT ![t] = 0]
            /\ total' = [total EXCEPT ![t] = 0]
  BY <1>1 DEF Write, Finish, Return, idVars
<1>3. PacketOf(t).newId = newId[t]
  BY Zenon DEF PacketOf
<1>4. CASE total[t] = 0 /\ newId[t] # 0
  <2>1. t \in Pending /\ Pending' = Pending \ {t} /\ Same(Pending')
    BY <1>1, <1>2, <1>4 DEF Pending, Same
  <2> QED
    BY <1>2, <1>3, <1>4, <2>1 DEF Introduces
<1>5. CASE total[t] # 0 \/ newId[t] = 0
  <2>1. Pending' = Pending /\ Same(Pending)
    BY <1>1, <1>2, <1>5 DEF Pending, Same
  <2> QED
    BY <1>2, <1>3, <1>5, <2>1 DEF Keeps
<1> QED
  BY <1>4, <1>5

(* All steps. *)
LEMMA IdSteps ==
    ASSUME SendInv, Blank, [Next]_vars
    PROVE  /\ \/ Keeps
              \/ \E t \in Tasks : Takes(t) \/ Introduces(t) \/ Loses(t)
           /\ Blank'
<1> DEFINE Goal == /\ \/ Keeps
                      \/ \E t \in Tasks : Takes(t) \/ Introduces(t) \/ Loses(t)
                   /\ Blank'
<1>1. /\ pc \in [Tasks -> Locations] /\ newId \in [Tasks -> Ids \cup {0}]
      /\ total \in [Tasks -> Nat]
  BY DEF SendInv, TypeOK
<1>2. ASSUME NEW t \in Tasks, TakeHandle(t) \/ DropHandle(t) PROVE Goal
  BY <1>2, LeavesIds DEF TakeHandle, DropHandle, idVars, socketVars, Blank
<1>3. ASSUME NEW t \in Tasks, NEW c \in Calls, Decide(t, c) PROVE Goal
  <2>1. UNCHANGED <<newId, total, issued, begun, lost>>
    BY <1>3 DEF Decide, Ask, idVars, socketVars
  <2>2. Blank'
    BY <1>1, <1>3, <2>1 DEF Decide, Blank
  <2> QED
    BY <2>1, <2>2, LeavesIds
<1>4. ASSUME NEW t \in Tasks, Allocate(t) PROVE Goal
  <2>1. Blank'
    BY <1>1, <1>4 DEF Allocate, Blank
  <2> QED
    BY <1>4, <2>1, AllocatesIds
<1>5. ASSUME NEW t \in Tasks, Return(t, total[t]), UNCHANGED <<issued, begun>>
      PROVE  Goal
  <2>1. Blank'
    BY <1>1, <1>5 DEF Return, Blank
  <2> QED
    BY <1>5, <2>1, ReturnsIds
<1>6. ASSUME NEW t \in Tasks, CallProxy(t) PROVE Goal
  <2>1. pc[t] = "ready" /\ UNCHANGED <<issued, begun>>
    BY <1>6 DEF CallProxy, idVars, socketVars
  <2>2. CASE Return(t, 0)
    <3>1. total[t] = 0
      BY <2>1 DEF SendInv, TypeOK
    <3> QED
      BY <1>5, <2>1, <2>2, <3>1
  <2>3. CASE /\ pc' = [pc EXCEPT ![t] = "locking"]
             /\ UNCHANGED <<call, newId, total, lost>>
    BY <1>1, <2>1, <2>3, LeavesIds DEF Blank
  <2> QED
    BY <1>6, <2>2, <2>3 DEF CallProxy
<1>7. ASSUME NEW t \in Tasks, Lock(t) PROVE Goal
  <2>1. /\ UNCHANGED <<newId, total, issued, begun, lost>>
        /\ pc' = [pc EXCEPT ![t] = "writing"]
    BY <1>7 DEF Lock, idVars, socketVars
  <2> QED
    BY <1>1, <2>1, LeavesIds DEF Blank
<1>8. ASSUME NEW t \in Tasks, NEW k \in 1 .. Capacity, Write(t, k) PROVE Goal
  <2>1. Blank'
    BY <1>1, <1>8 DEF Write, Finish, Return, Blank
  <2> QED
    BY <1>8, <2>1, WritesIds
<1>9. ASSUME NEW t \in Tasks, WriteFails(t) \/ Cancel(t) PROVE Goal
  BY <1>5, <1>9 DEF WriteFails, Finish, Cancel, idVars
<1>10. CASE Consume \/ HangUp \/ UNCHANGED vars
  BY <1>10, LeavesIds DEF Consume, HangUp, vars, idVars, socketVars, Blank
<1> QED
  BY <1>2, <1>3, <1>4, <1>6, <1>7, <1>8, <1>9, <1>10 DEF Next, Send

LEMMA AccountKept ==
    ASSUME SendInv, SendInv', Blank, InOrder', AccountInv, [Next]_vars
    PROVE  Blank' /\ AccountInv'
<1>1. IdsTypeOK /\ IdsTypeOK' /\ Len(issued) \in Nat
  BY DEF SendInv, TypeOK, IdsTypeOK
<1> QED
  BY <1>1, IdSteps, KeepsAccount, TakesAccount, IntroducesAccount, LosesAccount

LEMMA AccountInitially == Init => Blank /\ AccountInv
<1> SUFFICES ASSUME Init PROVE Blank /\ AccountInv
  OBVIOUS
<1>1. /\ begun = <<>> /\ issued = <<>> /\ lost = {}
      /\ \A t \in Tasks : newId[t] = 0
  BY DEF Init, IdsInit
<1>2. Introduced = {} /\ Pending = {}
  BY <1>1 DEF Introduced, Pending
<1>3. IssuedIds = {} /\ IntroducedIds = {} /\ PendingIds = {}
  BY <1>1, <1>2 DEF IssuedIds, IntroducedIds, PendingIds
<1>4. IsFiniteSet({}) /\ Cardinality({}) = 0
  BY FS_EmptySet
<1>5. Finite /\ Complete /\ Apart
  <2>1. begun \in Seq({})
    BY <1>1
  <2> QED
    BY <1>1, <1>2, <1>3, <1>4, <2>1 DEF Finite, Complete, Apart
<1> QED
  BY <1>1, <1>5 DEF Blank, AccountInv

(* Every id that a task took from the counter is, as long as ids are not   *)
(* issued again, in exactly one place: in a packet that was begun, with a  *)
(* task whose packet is not begun, or among those of failed and cancelled  *)
(* requests.  The compositor sees a gap only where a request failed.       *)
THEOREM SendAccountsForIds == Spec => []IdsAccounted
<1>1. Spec => []InOrder
  BY SendTakesIds, IdsInOrder, PTL
<1>2. AccountInv => IdsAccounted
  BY DEF AccountInv, Complete, Apart, IdsAccounted, Introduced, Pending,
         IssuedIds, IntroducedIds, PendingIds
<1>3. /\ SendInv /\ SendInv' /\ InOrder' /\ Blank /\ AccountInv /\ [Next]_vars
      => Blank' /\ AccountInv'
  BY AccountKept
<1> QED
  BY <1>1, <1>2, <1>3, AccountInitially, SendInvAlways, PTL DEF Spec

-----------------------------------------------------------------------------
(* What is on the wire.  A word carries descriptors; a packet that was     *)
(* begun has a header that tells its length.                               *)
Cells == [word : Nat, fds : Seq(Nat)]

Headed(p) ==
    /\ Len(p.words) >= HeaderWords
    /\ SizeField(p.words[2]) \div WordBytes = Len(p.words)

SentPackets ==
    {p \in [words : Seq(Nat), fds : Seq(Nat), newId : Ids \cup {0}, by : Tasks] :
       Headed(p)}

(* The words after position `from` are those of p, as far as they are      *)
(* written, and the next packet comes after `to`.                          *)
LiesAt(str, from, to, p) ==
    /\ from <= Len(str) /\ to = from + Len(p.words)
    /\ \A k \in 1 .. Len(p.words) :
          from + k <= Len(str) => str[from + k] = Whole(p)[k]

(* The packets bg lie one after another, the edges e between them. *)
WireIs(str, bg, e) ==
    /\ str \in Seq(Cells) /\ bg \in Seq(SentPackets) /\ e \in Seq(Nat)
    /\ Len(e) = Len(bg) + 1 /\ e[1] = 0
    /\ Len(str) <= e[Len(bg) + 1]
    /\ \A i \in 1 .. Len(bg) : LiesAt(str, e[i], e[i + 1], bg[i])

(* The fields of a packet that was begun. *)
LEMMA SentFields ==
    ASSUME NEW p \in SentPackets
    PROVE  /\ p.words \in Seq(Nat) /\ p.fds \in Seq(Nat) /\ p.by \in Tasks
           /\ p.newId \in Ids \cup {0} /\ Headed(p)
           /\ Len(p.words) \in Nat /\ Len(p.words) >= 2
BY DEF SentPackets, Headed, HeaderWords

(* The cells of a packet: its words, the descriptors with the first. *)
LEMMA WholeWords ==
    ASSUME NEW p \in SentPackets
    PROVE  /\ Whole(p) \in Seq(Cells) /\ Len(Whole(p)) = Len(p.words)
           /\ DOMAIN Whole(p) = 1 .. Len(p.words)
           /\ \A k \in 1 .. Len(p.words) :
                 /\ Whole(p)[k] = [word |-> p.words[k],
                                   fds  |-> IF k = 1 THEN p.fds ELSE <<>>]
                 /\ Whole(p)[k].word = p.words[k]
                 /\ Whole(p)[k] \in Cells
<1>1. /\ p.words \in Seq(Nat) /\ p.fds \in Seq(Nat) /\ Len(p.words) \in Nat
  BY SentFields
<1> DEFINE w == p.words
           f == p.fds
           n == Len(w)
<1>2. Whole(p) = [i \in DOMAIN w |-> [word |-> w[i], fds |-> IF i = 1 THEN f ELSE <<>>]]
  BY DEF Whole
<1>3. w \in Seq(Nat) /\ f \in Seq(Nat) /\ n \in Nat /\ DOMAIN w = 1 .. n
  BY <1>1
<1>4. <<>> \in Seq(Nat)
  OBVIOUS
<1> HIDE DEF w, f, n
<1>5. \A k \in 1 .. n : [word |-> w[k], fds |-> IF k = 1 THEN f ELSE <<>>] \in Cells
  <2> TAKE k \in 1 .. n
  <2>1. w[k] \in Nat
    BY <1>3 DEF n
  <2>2. (IF k = 1 THEN f ELSE <<>>) \in Seq(Nat)
    BY <1>3, <1>4
  <2> QED
    BY <2>1, <2>2 DEF Cells
<1>6. /\ Whole(p) \in [1 .. n -> Cells]
      /\ \A k \in 1 .. n : /\ Whole(p)[k] = [word |-> w[k], fds |-> IF k = 1 THEN f ELSE <<>>]
                           /\ Whole(p)[k].word = w[k]
  BY <1>2, <1>3, <1>5
<1>7. Whole(p) \in Seq(Cells) /\ Len(Whole(p)) = n /\ DOMAIN Whole(p) = 1 .. n
  BY <1>3, <1>6
<1> QED
  BY <1>5, <1>6, <1>7 DEF w, f, n

(* Nothing changes for what was there when more is written after it. *)
LEMMA LiesStill ==
    ASSUME NEW str \in Seq(Cells), NEW more \in Seq(Cells), NEW p \in SentPackets,
           NEW from \in Nat, NEW to \in Nat, LiesAt(str, from, to, p),
           to <= Len(str)
    PROVE  LiesAt(str \o more, from, to, p)
<1> DEFINE all == str \o more
           n == Len(str)
           L == Len(p.words)
<1>1. /\ n \in Nat /\ Len(all) \in Nat /\ n <= Len(all)
      /\ \A i \in 1 .. n : all[i] = str[i]
  OBVIOUS
<1>2. L \in Nat
  BY SentFields
<1>3. /\ from <= n /\ to = from + L
      /\ \A k \in 1 .. L : from + k <= n => str[from + k] = Whole(p)[k]
  BY DEF LiesAt
<1>4. to <= n
  OBVIOUS
<1> HIDE DEF all, n, L
<1>5. \A k \in 1 .. L : from + k \in 1 .. n
  BY <1>1, <1>2, <1>3, <1>4
<1>6. \A k \in 1 .. L : all[from + k] = Whole(p)[k]
  BY <1>1, <1>3, <1>5
<1>7. from <= Len(all)
  BY <1>1, <1>3
<1> QED
  BY <1>3, <1>6, <1>7 DEF LiesAt, all, L

(* More words of the packet at the end. *)
LEMMA LiesMore ==
    ASSUME NEW str \in Seq(Cells), NEW more \in Seq(Cells), NEW p \in SentPackets,
           NEW from \in Nat, NEW to \in Nat, LiesAt(str, from, to, p),
           NEW done \in Nat, Len(str) = from + done,
           done + Len(more) <= Len(p.words),
           \A i \in 1 .. Len(more) : more[i] = Whole(p)[done + i]
    PROVE  LiesAt(str \o more, from, to, p)
<1> DEFINE all == str \o more
           n == Len(str)
           m == Len(more)
           L == Len(p.words)
<1>1. /\ n \in Nat /\ m \in Nat /\ Len(all) = n + m
      /\ \A i \in 1 .. n : all[i] = str[i]
      /\ \A i \in 1 .. m : all[n + i] = more[i]
  BY SMTT(30)
<1>2. L \in Nat
  BY SentFields
<1>3. /\ from <= n /\ to = from + L
      /\ \A k \in 1 .. L : from + k <= n => str[from + k] = Whole(p)[k]
  BY DEF LiesAt
<1>4. n = from + done /\ \A i \in 1 .. m : more[i] = Whole(p)[done + i]
  OBVIOUS
<1> HIDE DEF all, n, m, L
<1>5. ASSUME NEW k \in 1 .. L, from + k <= Len(all)
      PROVE  all[from + k] = Whole(p)[k]
  <2>1. CASE from + k <= n
    <3>1. from + k \in 1 .. n
      BY <1>1, <1>2, <2>1
    <3> QED
      BY <1>1, <1>3, <2>1, <3>1
  <2>2. CASE ~ (from + k <= n)
    <3> DEFINE i == k - done
    <3>1. i \in 1 .. m /\ from + k = n + i /\ done + i = k
      BY <1>1, <1>2, <1>4, <1>5, <2>2
    <3> HIDE DEF i
    <3>2. all[n + i] = more[i] /\ more[i] = Whole(p)[done + i]
      BY <1>1, <1>4, <3>1
    <3> QED
      BY <3>1, <3>2
  <2> QED
    BY <2>1, <2>2
<1>6. from <= Len(all)
  BY <1>1, <1>3
<1> QED
  BY <1>3, <1>5, <1>6 DEF LiesAt, all, L

(* A packet is begun where the last one has ended: nothing of it is there. *)
LEMMA WireBegins ==
    ASSUME NEW str, NEW bg, NEW e, WireIs(str, bg, e), NEW p \in SentPackets,
           e[Len(bg) + 1] = Len(str)
    PROVE  WireIs(str, Append(bg, p), Append(e, Len(str) + Len(p.words)))
<1> DEFINE n == Len(bg)
           s == Len(str)
           L == Len(p.words)
           bg2 == Append(bg, p)
           e2 == Append(e, s + L)
<1>1. /\ str \in Seq(Cells) /\ bg \in Seq(SentPackets) /\ e \in Seq(Nat)
      /\ Len(e) = n + 1 /\ e[1] = 0 /\ e[n + 1] = s
      /\ \A i \in 1 .. n : LiesAt(str, e[i], e[i + 1], bg[i])
  BY DEF WireIs
<1>2. s \in Nat /\ n \in Nat /\ L \in Nat
  BY <1>1, SentFields
<1>3. /\ bg2 \in Seq(SentPackets) /\ Len(bg2) = n + 1 /\ bg2[n + 1] = p
      /\ \A i \in 1 .. n : bg2[i] = bg[i]
  BY <1>1
<1>4. s + L \in Nat
  BY <1>2
<1>5. /\ e2 \in Seq(Nat) /\ Len(e2) = n + 2 /\ e2[n + 2] = s + L
      /\ \A i \in 1 .. n + 1 : e2[i] = e[i]
  BY <1>1, <1>2, <1>4
<1> HIDE DEF n, s, L, bg2, e2
<1>6. ASSUME NEW i \in 1 .. n + 1
      PROVE  LiesAt(str, e2[i], e2[i + 1], bg2[i])
  <2>1. CASE i \in 1 .. n
    <3>1. i \in 1 .. n + 1 /\ i + 1 \in 1 .. n + 1
      BY <1>2, <2>1
    <3> QED
      BY <1>1, <1>3, <1>5, <2>1, <3>1
  <2>2. CASE i = n + 1
    <3>1. e2[i] = s /\ e2[i + 1] = s + L /\ bg2[i] = p
      <4>1. n + 1 \in 1 .. n + 1 /\ (n + 1) + 1 = n + 2
        BY <1>2
      <4> QED
        BY <1>1, <1>3, <1>5, <2>2, <4>1
    <3>2. \A k \in 1 .. L : ~ (s + k <= s)
      BY <1>2
    <3>3. LiesAt(str, s, s + L, p)
      BY <1>2, <3>2 DEF LiesAt, s, L
    <3> QED
      BY <3>1, <3>3
  <2> QED
    BY <1>2, <2>1, <2>2
<1>7. e2[1] = 0 /\ s <= e2[(n + 1) + 1]
  <2>1. 1 \in 1 .. n + 1 /\ (n + 1) + 1 = n + 2 /\ s <= s + L /\ n + 2 = (n + 1) + 1
    BY <1>2
  <2> QED
    BY <1>1, <1>5, <2>1
<1>8. Len(e2) = Len(bg2) + 1
  BY <1>2, <1>3, <1>5
<1>9. WireIs(str, bg2, e2)
  BY <1>1, <1>3, <1>5, <1>6, <1>7, <1>8 DEF WireIs, s
<1> QED
  BY <1>9 DEF bg2, e2, s, L

(* Cells after cells are cells. *)
LEMMA MoreCells ==
    ASSUME NEW str \in Seq(Cells), NEW more \in Seq(Cells)
    PROVE  str \o more \in Seq(Cells) /\ Len(str \o more) = Len(str) + Len(more)
OBVIOUS

LEMMA RestFits ==
    ASSUME NEW from \in Nat, NEW L \in Nat, NEW done \in Nat, NEW m \in Nat,
           done + m <= L, NEW s, s = from + done, NEW a, a = s + m,
           NEW to, to = from + L
    PROVE  a <= to
OBVIOUS

(* Some words of the last packet are written. *)
LEMMA WireGrows ==
    ASSUME NEW str, NEW bg, NEW e, WireIs(str, bg, e), Len(bg) # 0,
           NEW more \in Seq(Cells), NEW done \in Nat,
           Len(str) = e[Len(bg)] + done,
           done + Len(more) <= Len(bg[Len(bg)].words),
           \A i \in 1 .. Len(more) : more[i] = Whole(bg[Len(bg)])[done + i]
    PROVE  WireIs(str \o more, bg, e)
<1> DEFINE n == Len(bg)
           s == Len(str)
           m == Len(more)
           p == bg[n]
           L == Len(p.words)
           all == str \o more
<1>1. /\ str \in Seq(Cells) /\ bg \in Seq(SentPackets) /\ e \in Seq(Nat)
      /\ Len(e) = n + 1 /\ e[1] = 0
      /\ \A i \in 1 .. n : LiesAt(str, e[i], e[i + 1], bg[i])
  BY DEF WireIs
<1>2. s \in Nat /\ n \in Nat /\ m \in Nat /\ n \in 1 .. n
  BY <1>1
<1>3. all \in Seq(Cells) /\ Len(all) = s + m
  BY <1>1, MoreCells
<1>4. s = e[n] + done /\ done + m <= L
      /\ \A i \in 1 .. m : more[i] = Whole(p)[done + i]
  OBVIOUS
<1>5. \A i \in 1 .. n + 1 : e[i] \in Nat
  BY <1>1
<1>6. \A i \in 1 .. n : bg[i] \in SentPackets
  BY <1>1
<1>7. p \in SentPackets /\ L \in Nat
  BY <1>2, <1>6, SentFields
<1>8. LiesAt(str, e[n], e[n + 1], p)
  BY <1>1, <1>2
<1> HIDE DEF n, s, m, p, L, all
<1>9. ASSUME NEW i \in 1 .. n
      PROVE  LiesAt(all, e[i], e[i + 1], bg[i])
  <2>1. CASE i = n
    <3>1. e[n] \in Nat /\ e[n + 1] \in Nat
      BY <1>2, <1>5
    <3>2. LiesAt(all, e[n], e[n + 1], p)
      BY <1>1, <1>4, <1>7, <1>8, <3>1, LiesMore DEF s, m, L, all
    <3> QED
      BY <2>1, <3>2 DEF p
  <2>2. CASE i # n
    <3>1. i + 1 \in 1 .. n /\ i \in 1 .. n + 1 /\ i + 1 \in 1 .. n + 1
      BY <1>2, <2>2
    <3>2. LiesAt(str, e[i + 1], e[(i + 1) + 1], bg[i + 1])
      BY <1>1, <3>1
    <3>3. e[i + 1] <= Len(str)
      BY <3>2 DEF LiesAt
    <3>4. e[i] \in Nat /\ e[i + 1] \in Nat /\ bg[i] \in SentPackets
      BY <1>5, <1>6, <3>1
    <3>5. LiesAt(str, e[i], e[i + 1], bg[i])
      BY <1>1
    <3> QED
      BY <1>1, <3>3, <3>4, <3>5, LiesStill DEF all
  <2> QED
    BY <2>1, <2>2
<1>10. Len(all) <= e[n + 1]
  <2>1. e[n + 1] = e[n] + L
    BY <1>8 DEF LiesAt, L
  <2>2. e[n] \in Nat
    BY <1>2, <1>5
  <2>3. Len(all) = s + m /\ s = e[n] + done /\ done + m <= L /\ L \in Nat
    BY <1>3, <1>4, <1>7
  <2>4. m \in Nat /\ done \in Nat
    BY <1>2
  <2> QED
    BY <2>1, <2>2, <2>3, <2>4, RestFits
<1>11. WireIs(all, bg, e)
  BY <1>1, <1>3, <1>9, <1>10 DEF WireIs, n
<1> QED
  BY <1>11 DEF all

-----------------------------------------------------------------------------
(* Opcodes are numbers of 16 bits. *)
LEMMA OpcodeBounds ==
    ASSUME NEW opcode \in Opcodes PROVE opcode \in Nat /\ opcode < 65536
BY SMTT(60) DEF Opcodes

(* The upper of two 16-bit halves, whatever the lower one is. *)
LEMMA UpperPart ==
    \A high, low \in Nat : low < 65536 =>
        /\ (high * 65536 + low) \div 65536 = high
        /\ high * 65536 + low \in Nat
BY Z3

(* The packets of requests are as WireIs wants them: the size in the       *)
(* header is the number of bytes.                                          *)
LEMMA UpperHalf ==
    ASSUME NEW size \in Nat, NEW opcode \in Opcodes
    PROVE  /\ SizeField(SizeAndOpcode(size, opcode)) = size
           /\ SizeAndOpcode(size, opcode) \in Nat
<1>1. opcode \in Nat /\ opcode < 65536
  BY OpcodeBounds, Z3
<1>2. /\ (size * 65536 + opcode) \div 65536 = size
      /\ size * 65536 + opcode \in Nat
  BY <1>1, UpperPart, Z3
<1> QED
  BY <1>2, Z3 DEF SizeField, SizeAndOpcode

LEMMA Quarter == \A n \in Nat : (8 + 4 * n) \div 4 = 2 + n
OBVIOUS

(* Two words in front of others: the header of a packet. *)
LEMMA WordsInFront ==
    ASSUME NEW a \in Nat, NEW b \in Nat, NEW rest \in Seq(Nat)
    PROVE  /\ <<a, b>> \o rest \in Seq(Nat)
           /\ Len(<<a, b>> \o rest) = 2 + Len(rest)
           /\ (<<a, b>> \o rest)[2] = b
<1>1. <<a, b>> \in Seq(Nat) /\ Len(<<a, b>>) = 2
  OBVIOUS
<1> QED
  BY <1>1

(* The size in the header of a serialized packet counts its words. *)
LEMMA SerializedHeader ==
    ASSUME NEW p, p.id \in Nat, p.opcode \in Opcodes, p.payload \in Seq(Nat)
    PROVE  /\ Serialize(p) \in Seq(Nat)
           /\ Len(Serialize(p)) = 2 + Len(p.payload)
           /\ SizeField(Serialize(p)[2]) \div WordBytes = 2 + Len(p.payload)
<1> DEFINE rest == p.payload
           n == Len(rest)
           size == Size(p)
           b == SizeAndOpcode(size, p.opcode)
<1>1. Serialize(p) = <<p.id, b>> \o rest
  BY DEF Serialize
<1>2. n \in Nat /\ rest \in Seq(Nat)
  OBVIOUS
<1>3. size = 8 + 4 * n
  BY DEF Size, HeaderBytes, WordBytes
<1>4. size \in Nat
  BY <1>2, <1>3
<1>5. SizeField(b) = size /\ b \in Nat
  BY <1>4, UpperHalf
<1> HIDE DEF n, rest, size, b
<1>7. /\ Serialize(p) \in Seq(Nat) /\ Len(Serialize(p)) = 2 + n
      /\ Serialize(p)[2] = b
  BY <1>1, <1>2, <1>5, WordsInFront DEF n
<1>8. SizeField(Serialize(p)[2]) \div WordBytes = (8 + 4 * n) \div 4
  BY <1>3, <1>5, <1>7 DEF WordBytes
<1> QED
  BY <1>2, <1>7, <1>8, Quarter DEF n, rest

(* The packet of a request is one whose header tells its length. *)
LEMMA PacketSent ==
    ASSUME NEW t \in Tasks, call[t] \in Calls, newId[t] \in Ids \cup {0}
    PROVE  PacketOf(t) \in SentPackets
<1> DEFINE c == call[t]
           id == IF c.new THEN <<newId[t]>> ELSE <<>>
           p == [id |-> c.object, opcode |-> c.opcode, payload |-> c.args \o id]
           w == Serialize(p)
<1>1. /\ c.object \in Nat /\ c.opcode \in Opcodes /\ c.args \in Seq(Nat)
      /\ c.fds \in Seq(Nat)
  BY SendAssumption
<1>2. id \in Seq(Nat)
  <2>1. newId[t] \in Nat
    BY IdsAssumption DEF Ids
  <2> QED
    BY <2>1
<1>3. PacketOf(t) = [words |-> w, fds |-> c.fds, newId |-> newId[t], by |-> t]
  BY Zenon DEF PacketOf
<1> HIDE DEF c, id
<1>4. p.id \in Nat /\ p.opcode \in Opcodes /\ p.payload \in Seq(Nat)
  BY <1>1, <1>2
<1> HIDE DEF p
<1>5. /\ w \in Seq(Nat) /\ Len(w) = 2 + Len(p.payload)
      /\ SizeField(w[2]) \div WordBytes = Len(w) /\ Len(p.payload) \in Nat
  BY <1>4, SerializedHeader
<1> HIDE DEF w
<1>6. PacketOf(t) \in [words : Seq(Nat), fds : Seq(Nat), newId : Ids \cup {0}, by : Tasks]
  BY <1>1, <1>3, <1>5
<1>7. Headed(PacketOf(t))
  <2>1. PacketOf(t).words = w
    BY <1>3
  <2>2. Len(w) >= 2
    BY <1>5
  <2> QED
    BY <1>5, <2>1, <2>2 DEF Headed, HeaderWords
<1> QED
  BY <1>6, <1>7 DEF SentPackets

(* A piece of a packet is that piece of the whole. *)
LEMMA PieceOfWhole ==
    ASSUME NEW t \in Tasks, PacketOf(t) \in SentPackets, NEW k \in Nat,
           total[t] \in Nat, total[t] + k <= Len(PacketOf(t).words)
    PROVE  /\ Piece(t, k) \in Seq(Cells) /\ Len(Piece(t, k)) = k
           /\ \A i \in 1 .. k : Piece(t, k)[i] = Whole(PacketOf(t))[total[t] + i]
<1> DEFINE p == PacketOf(t)
           d == total[t]
           L == Len(p.words)
           cell(i) == [word |-> p.words[i], fds |-> IF i = 1 THEN p.fds ELSE <<>>]
<1>1. Piece(t, k) = [i \in 1 .. k |-> cell(d + i)]
  BY DEF Piece
<1>2. p \in SentPackets /\ L \in Nat
  BY SentFields
<1>3. \A j \in 1 .. L : Whole(p)[j] = cell(j) /\ Whole(p)[j] \in Cells
  BY <1>2, WholeWords
<1>4. \A i \in 1 .. k : d + i \in 1 .. L
  BY <1>2
<1> HIDE DEF p, d, L, cell
<1>5. \A i \in 1 .. k : cell(d + i) = Whole(p)[d + i] /\ cell(d + i) \in Cells
  BY <1>3, <1>4
<1>6. Piece(t, k) \in [1 .. k -> Cells]
  BY <1>1, <1>5
<1>7. \A i \in 1 .. k : Piece(t, k)[i] = Whole(p)[d + i]
  BY <1>1, <1>5
<1>8. Piece(t, k) \in Seq(Cells) /\ Len(Piece(t, k)) = k
  BY <1>6
<1> QED
  BY <1>7, <1>8 DEF p, d

-----------------------------------------------------------------------------
(* Where packets begin and end. *)
Edges == Append(starts, Len(stream) + Unwritten)

(* The last packet that was begun is that of the task that is writing, and *)
(* so much of it is there as the task has counted; unless a call has given *)
(* up, the wire is as the packets and their starts say.                    *)
WireInv ==
    /\ begun \in Seq(SentPackets) /\ starts \in Seq(Nat) /\ stream \in Seq(Cells)
    /\ Len(starts) = Len(begun)
    /\ \A t \in Tasks :
          total[t] # 0 => /\ Len(begun) # 0
                          /\ begun[Len(begun)] = PacketOf(t)
                          /\ Len(stream) = starts[Len(begun)] + total[t]
    /\ ~ torn => WireIs(stream, begun, Edges)

(* While no request is in the middle of its packet, none is unwritten. *)
LEMMA NothingUnwritten ==
    ASSUME TypeOK, \A t \in Tasks : total[t] = 0
    PROVE  Unwritten = 0
<1>1. sendLock.writer = None \/ sendLock.writer \in Tasks
  BY LockFields DEF TypeOK
<1> QED
  BY <1>1, Zenon DEF Unwritten

(* A request in the middle of its packet is the writer, and the only one. *)
LEMMA SomeUnwritten ==
    ASSUME TypeOK, NEW t \in Tasks, total[t] # 0
    PROVE  /\ sendLock.writer = t /\ pc[t] = "writing"
           /\ Unwritten = Len(PacketOf(t).words) - total[t]
           /\ \A u \in Tasks \ {t} : total[u] = 0
<1>1. pc[t] = "writing" /\ sendLock.writer = t
  BY DEF TypeOK
<1>2. t # None
  BY NoneAssumption
<1>3. \A u \in Tasks \ {t} : total[u] = 0
  BY <1>1 DEF TypeOK
<1> QED
  BY <1>1, <1>2, <1>3 DEF Unwritten

(* A step that writes nothing leaves what is unwritten. *)
LEMMA UnwrittenSame ==
    ASSUME TypeOK, TypeOK',
           \A t \in Tasks : /\ total'[t] = total[t]
                            /\ total[t] # 0 => PacketOf(t)' = PacketOf(t)
    PROVE  Unwritten' = Unwritten
<1>1. CASE \A t \in Tasks : total[t] = 0
  <2>1. Unwritten = 0
    BY <1>1, NothingUnwritten
  <2>2. (\A t \in Tasks : total[t] = 0)'
    BY <1>1
  <2>3. sendLock'.writer = None \/ sendLock'.writer \in Tasks
    BY LockFields DEF TypeOK
  <2>4. Unwritten' = 0
    BY <2>2, <2>3, Zenon DEF Unwritten
  <2> QED
    BY <2>1, <2>4
<1>2. ASSUME NEW t \in Tasks, total[t] # 0
      PROVE  Unwritten' = Unwritten
  <2>1. Unwritten = Len(PacketOf(t).words) - total[t] /\ sendLock.writer = t
    BY <1>2, SomeUnwritten
  <2>2. total'[t] # 0 /\ total'[t] = total[t]
    BY <1>2
  <2>3. pc'[t] = "writing" /\ sendLock'.writer = t
    BY <2>2 DEF TypeOK
  <2>4. Unwritten' = Len(PacketOf(t)'.words) - total'[t]
    BY <2>2, <2>3, NoneAssumption DEF Unwritten
  <2>5. PacketOf(t)' = PacketOf(t)
    BY <1>2
  <2> QED
    BY <2>1, <2>2, <2>4, <2>5
<1> QED
  BY <1>1, <1>2

(* Steps that write nothing. *)
LEMMA WireSame ==
    ASSUME TypeOK, TypeOK', WireInv, UNCHANGED <<stream, begun, starts>>,
           torn => torn',
           \A t \in Tasks :
              total'[t] # 0 => total'[t] = total[t] /\ PacketOf(t)' = PacketOf(t),
           ~ torn' => \A t \in Tasks : total'[t] = total[t]
    PROVE  WireInv'
<1>1. /\ (begun \in Seq(SentPackets) /\ starts \in Seq(Nat) /\ stream \in Seq(Cells))'
      /\ (Len(starts) = Len(begun))'
  BY DEF WireInv
<1>2. ASSUME NEW t \in Tasks, total'[t] # 0
      PROVE  /\ Len(begun') # 0
             /\ begun'[Len(begun')] = PacketOf(t)'
             /\ Len(stream') = starts'[Len(begun')] + total'[t]
  BY <1>2 DEF WireInv
<1>3. ASSUME ~ torn' PROVE WireIs(stream, begun, Edges)'
  <2>1. WireIs(stream, begun, Edges)
    BY <1>3 DEF WireInv
  <2>2. Unwritten' = Unwritten
    BY <1>3, UnwrittenSame
  <2>3. Edges' = Edges
    BY <2>2 DEF Edges
  <2>4. WireIs(stream, begun, Edges)' = WireIs(stream', begun', Edges')
    BY DEF WireIs, LiesAt, Whole
  <2> QED
    BY <2>1, <2>3, <2>4
<1> QED
  BY <1>1, <1>2, <1>3 DEF WireInv

(* A step of t in which it writes nothing, and after which it has counted  *)
(* nothing unless its request is as before.                                *)
LEMMA WireQuiet ==
    ASSUME TypeOK, TypeOK', WireInv, UNCHANGED <<stream, begun, starts>>,
           torn => torn', NEW t \in Tasks, Touches(t),
           total'[t] = total[t] \/ (total'[t] = 0 /\ torn'),
           total[t] # 0 /\ total'[t] # 0 => UNCHANGED <<call, newId>>
    PROVE  WireInv'
<1>1. ASSUME NEW u \in Tasks, total'[u] # 0
      PROVE  total'[u] = total[u] /\ PacketOf(u)' = PacketOf(u)
  <2>1. CASE u = t
    BY <1>1, <2>1 DEF PacketOf
  <2>2. CASE u # t
    <3>1. total'[u] = total[u] /\ call'[u] = call[u] /\ newId'[u] = newId[u]
      BY <2>2 DEF Touches
    <3> QED
      BY <3>1 DEF PacketOf
  <2> QED
    BY <2>1, <2>2
<1>2. ASSUME ~ torn', NEW u \in Tasks PROVE total'[u] = total[u]
  BY <1>2 DEF Touches
<1> QED
  BY <1>1, <1>2, WireSame

(* One more number at the end of a sequence. *)
LEMMA AppendNat ==
    ASSUME NEW s \in Seq(Nat), NEW x \in Nat
    PROVE  /\ Append(s, x) \in Seq(Nat) /\ Len(Append(s, x)) = Len(s) + 1
           /\ Append(s, x)[Len(s) + 1] = x
           /\ \A i \in 1 .. Len(s) : Append(s, x)[i] = s[i]
OBVIOUS

(* One more packet at the end of a sequence. *)
LEMMA AppendSent ==
    ASSUME NEW s \in Seq(SentPackets), NEW x \in SentPackets
    PROVE  /\ Append(s, x) \in Seq(SentPackets)
           /\ Len(Append(s, x)) = Len(s) + 1
           /\ Append(s, x)[Len(s) + 1] = x
           /\ \A i \in 1 .. Len(s) : Append(s, x)[i] = s[i]
OBVIOUS

(* The first words of a packet. *)
LEMMA WireFirst ==
    ASSUME NEW str, NEW bg, NEW st \in Seq(Nat), Len(st) = Len(bg),
           WireIs(str, bg, Append(st, Len(str))),
           NEW p \in SentPackets, NEW more \in Seq(Cells),
           Len(more) <= Len(p.words),
           \A i \in 1 .. Len(more) : more[i] = Whole(p)[i]
    PROVE  WireIs(str \o more, Append(bg, p),
                  Append(Append(st, Len(str)), Len(str) + Len(p.words)))
<1> DEFINE n == Len(bg)
           s == Len(str)
           e == Append(st, s)
           L == Len(p.words)
           e2 == Append(e, s + L)
           bg2 == Append(bg, p)
           m == Len(more)
<1>1. str \in Seq(Cells) /\ bg \in Seq(SentPackets)
  BY DEF WireIs
<1>2. n \in Nat /\ s \in Nat /\ L \in Nat /\ m \in Nat
  BY <1>1, SentFields
<1>3. e \in Seq(Nat) /\ Len(e) = n + 1 /\ e[n + 1] = s
  BY <1>2, AppendNat
<1>4. WireIs(str, bg2, e2)
  BY <1>3, WireBegins
<1>5. bg2[n + 1] = p /\ Len(bg2) = n + 1
  BY <1>1, AppendSent
<1>6. e2[n + 1] = s
  <2>1. s + L \in Nat /\ n + 1 \in 1 .. n + 1
    BY <1>2
  <2> HIDE DEF e, s, L, n
  <2> QED
    BY <1>3, <2>1, AppendNat
<1>7. m <= L /\ \A i \in 1 .. m : more[i] = Whole(p)[0 + i]
  OBVIOUS
<1> HIDE DEF n, s, e, L, e2, bg2, m
<1>8. Len(bg2) # 0 /\ s = e2[Len(bg2)] + 0 /\ bg2[Len(bg2)] = p /\ 0 + m <= L
  BY <1>2, <1>5, <1>6, <1>7
<1>9. WireIs(str \o more, bg2, e2)
  BY <1>4, <1>7, <1>8, WireGrows DEF s, m, L
<1> QED
  BY <1>9 DEF bg2, e2, e, s, L

(* More words of it. *)
LEMMA WireNext ==
    ASSUME NEW str, NEW bg, NEW st \in Seq(Nat), Len(st) = Len(bg),
           NEW end \in Nat, WireIs(str, bg, Append(st, end)), Len(bg) # 0,
           NEW p, bg[Len(bg)] = p, NEW done \in Nat,
           Len(str) = st[Len(bg)] + done,
           NEW more \in Seq(Cells), done + Len(more) <= Len(p.words),
           \A i \in 1 .. Len(more) : more[i] = Whole(p)[done + i]
    PROVE  WireIs(str \o more, bg, Append(st, end))
<1> DEFINE e == Append(st, end)
           n == Len(bg)
<1>1. bg \in Seq(SentPackets)
  BY DEF WireIs
<1>2. n \in 1 .. Len(st)
  BY <1>1
<1>3. e[n] = st[n]
  BY <1>2, AppendNat
<1> HIDE DEF e
<1> QED
  BY <1>3, WireGrows DEF e

(* Write: either the first piece of a packet, which begins where the last one *)
(* ended, or more of the packet that was begun last. *)
LEMMA WireWrite ==
    ASSUME SendInv, SendInv', WireInv, NEW t \in Tasks,
           NEW k \in 1 .. Capacity, Write(t, k)
    PROVE  WireInv'
<1> DEFINE p == PacketOf(t)
           d == total[t]
           L == Len(p.words)
           s == Len(stream)
           more == Piece(t, k)
<1>1. /\ TypeOK /\ TypeOK' /\ pc[t] = "writing" /\ d \in Nat /\ k \in Nat
      /\ k > 0
  <2>1. TypeOK /\ TypeOK' /\ pc[t] = "writing"
    BY DEF SendInv, Write
  <2>2. d \in Nat
    BY <2>1 DEF TypeOK
  <2>3. k \in Nat /\ k > 0
    BY SendAssumption
  <2> QED
    BY <2>1, <2>2, <2>3
<1>2. /\ call[t] \in Calls /\ newId[t] \in Ids \cup {0}
  BY <1>1 DEF TypeOK
<1>3. p \in SentPackets /\ L \in Nat
  BY <1>2, PacketSent, SentFields
<1>4. /\ d + k <= L /\ UNCHANGED torn
      /\ stream' = stream \o more
      /\ begun' = IF d = 0 THEN Append(begun, p) ELSE begun
      /\ starts' = IF d = 0 THEN Append(starts, s) ELSE starts
      /\ \/ /\ d + k < L /\ total' = [total EXCEPT ![t] = @ + k]
            /\ UNCHANGED <<pc, call, newId, sendLock, lost>>
         \/ d + k = L /\ Finish(t, d + k)
  BY DEF Write
<1>5. /\ more \in Seq(Cells) /\ Len(more) = k
      /\ \A i \in 1 .. k : more[i] = Whole(p)[d + i]
  BY <1>1, <1>3, <1>4, PieceOfWhole
<1>6. /\ begun \in Seq(SentPackets) /\ starts \in Seq(Nat)
      /\ stream \in Seq(Cells) /\ Len(starts) = Len(begun)
      /\ d # 0 => /\ Len(begun) # 0 /\ begun[Len(begun)] = p
                  /\ s = starts[Len(begun)] + d
      /\ ~ torn => WireIs(stream, begun, Edges)
  BY DEF WireInv
<1>7. s \in Nat /\ Len(begun) \in Nat
  BY <1>6
<1>8. stream' \in Seq(Cells) /\ Len(stream') = s + k
  BY <1>4, <1>5, <1>6, MoreCells
<1>9. \A u \in Tasks \ {t} : total'[u] = 0
  <2>1. \A u \in Tasks \ {t} : total[u] = 0
    BY <1>1 DEF TypeOK
  <2>2. \A u \in Tasks \ {t} : total'[u] = total[u]
    BY <1>1, <1>4 DEF Finish, Return, TypeOK
  <2> QED
    BY <2>1, <2>2
<1>10. /\ begun' \in Seq(SentPackets) /\ starts' \in Seq(Nat)
       /\ Len(starts') = Len(begun') /\ Len(begun') # 0
       /\ begun'[Len(begun')] = p /\ s = starts'[Len(begun')] + d
  <2>1. CASE d = 0
    <3>1. begun' = Append(begun, p) /\ starts' = Append(starts, s)
      BY <1>4, <2>1
    <3>2. /\ begun' \in Seq(SentPackets) /\ Len(begun') = Len(begun) + 1
          /\ begun'[Len(begun) + 1] = p
      BY <1>3, <1>6, <3>1, AppendSent
    <3>3. /\ starts' \in Seq(Nat) /\ Len(starts') = Len(starts) + 1
          /\ starts'[Len(starts) + 1] = s
      BY <1>6, <1>7, <3>1, AppendNat
    <3> HIDE DEF p, s, d
    <3> QED
      BY <1>6, <1>7, <2>1, <3>2, <3>3
  <2>2. CASE d # 0
    BY <1>4, <1>6, <2>2
  <2> QED
    BY <2>1, <2>2
<1>11. total'[t] # 0 => total'[t] = d + k /\ PacketOf(t)' = p
  <2>1. CASE /\ d + k < L /\ total' = [total EXCEPT ![t] = @ + k]
             /\ UNCHANGED <<pc, call, newId, sendLock, lost>>
    BY <1>1, <2>1 DEF TypeOK, PacketOf
  <2>2. CASE d + k = L /\ Finish(t, d + k)
    BY <1>1, <2>2 DEF Finish, Return, TypeOK
  <2> QED
    BY <1>4, <2>1, <2>2
<1>12. Len(stream') + Unwritten' = s + (L - d)
  <2>1. CASE /\ d + k < L /\ total' = [total EXCEPT ![t] = @ + k]
             /\ UNCHANGED <<pc, call, newId, sendLock, lost>>
    <3>1. total'[t] = d + k /\ sendLock'.writer = t /\ PacketOf(t)' = p
      <4>1. total'[t] = d + k
        BY <1>1, <2>1 DEF TypeOK
      <4>2. sendLock' = sendLock /\ sendLock.writer = t
        BY <1>1, <2>1 DEF TypeOK
      <4>3. PacketOf(t)' = p
        BY <2>1 DEF PacketOf
      <4> QED
        BY <4>1, <4>2, <4>3
    <3>2. total'[t] # 0
      BY <1>1, <3>1
    <3>3. Unwritten' = L - (d + k)
      BY <3>1, <3>2, NoneAssumption DEF Unwritten
    <3> HIDE DEF p, d, L, s
    <3> QED
      BY <1>1, <1>3, <1>7, <1>8, <3>3, SMTT(30)
  <2>2. CASE d + k = L /\ Finish(t, d + k)
    <3>1. sendLock'.writer = None
      BY <1>1, <2>2 DEF Finish, Release, TypeOK
    <3>2. Unwritten' = 0
      BY <3>1 DEF Unwritten
    <3> HIDE DEF p, d, L, s
    <3> QED
      BY <1>1, <1>3, <1>7, <1>8, <2>2, <3>2
  <2> QED
    BY <1>4, <2>1, <2>2
<1>13. ASSUME ~ torn' PROVE WireIs(stream', begun', Edges')
  <2>1. WireIs(stream, begun, Edges) /\ Edges = Append(starts, s + Unwritten)
    BY <1>4, <1>6, <1>13 DEF Edges
  <2>2. Edges' = Append(starts', s + (L - d))
    BY <1>12 DEF Edges
  <2>3. CASE d = 0
    <3>1. Unwritten = 0
      BY <1>1, <2>3, NoneAssumption DEF TypeOK, Unwritten
    <3>2. s + Unwritten = s /\ s + (L - d) = s + L
      BY <1>3, <1>7, <2>3, <3>1
    <3>3. WireIs(stream, begun, Append(starts, s))
      BY <2>1, <3>2
    <3>4. /\ begun' = Append(begun, p) /\ starts' = Append(starts, s)
          /\ Edges' = Append(Append(starts, s), s + L)
      BY <1>4, <2>2, <2>3, <3>2
    <3>5. Len(more) <= L /\ \A i \in 1 .. Len(more) : more[i] = Whole(p)[i]
      <4> HIDE DEF p, d, L, more
      <4>1. \A i \in 1 .. k : d + i = i
        BY <2>3
      <4>2. k <= L
        BY <1>1, <1>3, <1>4, <2>3
      <4> QED
        BY <1>5, <4>1, <4>2
    <3> HIDE DEF p, more, L
    <3> QED
      BY ZenonT(30), <1>3, <1>4, <1>5, <1>6, <3>3, <3>4, <3>5, WireFirst DEF L
  <2>4. CASE d # 0
    <3>1. Unwritten = L - d
      BY <1>1, <2>4, SomeUnwritten
    <3>2. s + (L - d) = s + Unwritten /\ s + (L - d) \in Nat
      <4> HIDE DEF p, d, L, s
      <4> QED
        BY <1>1, <1>3, <1>4, <1>7, <3>1
    <3>3. WireIs(stream, begun, Append(starts, s + (L - d)))
      BY <2>1, <3>2
    <3>4. begun' = begun /\ Edges' = Append(starts, s + (L - d))
      BY <1>4, <2>2, <2>4
    <3>5. d + Len(more) <= L /\ \A i \in 1 .. Len(more) : more[i] = Whole(p)[d + i]
      BY <1>4, <1>5
    <3>6. Len(begun) # 0 /\ begun[Len(begun)] = p /\ s = starts[Len(begun)] + d
      BY <1>6, <2>4
    <3> DEFINE end == s + (L - d)
    <3>7. WireIs(stream, begun, Append(starts, end)) /\ end \in Nat
      BY <3>2, <3>3
    <3> HIDE DEF p, more, end, d
    <3>8. WireIs(stream \o more, begun, Append(starts, end))
      BY <1>1, <1>5, <1>6, <3>5, <3>6, <3>7, WireNext DEF L, s
    <3> QED
      BY <1>4, <3>4, <3>8 DEF end
  <2> QED
    BY <2>3, <2>4
<1>14. ASSUME NEW u \in Tasks, total'[u] # 0
       PROVE  /\ Len(begun') # 0 /\ begun'[Len(begun')] = PacketOf(u)'
              /\ Len(stream') = starts'[Len(begun')] + total'[u]
  <2>1. u = t
    BY <1>9, <1>14
  <2>2. total'[t] = d + k /\ PacketOf(t)' = p
    BY <1>11, <1>14, <2>1
  <2>3. starts'[Len(begun')] \in Nat
    <3>1. Len(begun') \in 1 .. Len(starts')
      BY <1>10
    <3> QED
      BY <1>10, <3>1
  <2>4. Len(stream') = starts'[Len(begun')] + (d + k)
    <3> HIDE DEF d, s, p
    <3> QED
      BY <1>1, <1>7, <1>8, <1>10, <2>3
  <2> QED
    BY <1>10, <2>1, <2>2, <2>4
<1>15. WireIs(stream, begun, Edges)' = WireIs(stream', begun', Edges')
  BY DEF WireIs, LiesAt, Whole
<1> QED
  BY <1>8, <1>10, <1>13, <1>14, <1>15 DEF WireInv

(* Every step keeps the wire as it should be. *)
LEMMA WireInvKept ==
    ASSUME SendInv, SendInv', WireInv, [Next]_vars PROVE WireInv'
<1>1. /\ TypeOK /\ TypeOK' /\ pc \in [Tasks -> Locations]
      /\ total \in [Tasks -> Nat] /\ newId \in [Tasks -> Ids \cup {0}]
      /\ call \in [Tasks -> Calls \cup {None}]
  BY DEF SendInv, TypeOK
<1>2. ASSUME NEW t \in Tasks, Return(t, total[t]), torn' = (torn \/ total[t] > 0),
             UNCHANGED <<stream, begun, starts>>
      PROVE  WireInv'
  <2>1. Touches(t) /\ total'[t] = 0
    BY <1>1, <1>2, Returning
  <2>2. total[t] # 0 => total[t] > 0
    BY <1>1
  <2>3. total'[t] = total[t] \/ (total'[t] = 0 /\ torn')
    BY <1>2, <2>1, <2>2
  <2>4. torn => torn'
    BY <1>2
  <2> QED
    BY <1>1, <1>2, <2>1, <2>3, <2>4, WireQuiet
<1>3. ASSUME NEW t \in Tasks,
             TakeHandle(t) \/ DropHandle(t) \/ (\E c \in Calls : Decide(t, c))
                \/ Allocate(t) \/ Lock(t)
      PROVE  WireInv'
  <2>1. UNCHANGED <<stream, begun, starts, torn, total>>
    BY <1>3 DEF TakeHandle, DropHandle, Decide, Allocate, Lock, socketVars
  <2>2. Touches(t)
    BY <1>1, <1>3 DEF TakeHandle, DropHandle, Decide, Allocate, Lock, Touches
  <2>3. total[t] # 0 => UNCHANGED <<call, newId>>
    <3>1. total[t] # 0 => pc[t] = "writing"
      BY <1>1 DEF TypeOK
    <3> QED
      BY <1>3, <3>1 DEF TakeHandle, DropHandle, Decide, Allocate, Lock
  <2> QED
    BY <1>1, <2>1, <2>2, <2>3, WireQuiet
<1>4. ASSUME NEW t \in Tasks, CallProxy(t) PROVE WireInv'
  <2>1. UNCHANGED <<stream, begun, starts, torn>> /\ pc[t] = "ready"
    BY <1>4 DEF CallProxy, socketVars
  <2>2. total[t] = 0
    BY <1>1, <2>1 DEF TypeOK
  <2>3. CASE Return(t, 0)
    <3>1. Touches(t) /\ total'[t] = total[t]
      BY <1>1, <2>2, <2>3, Returning
    <3> QED
      BY <1>1, <2>1, <2>2, <3>1, WireQuiet
  <2>4. CASE pc' = [pc EXCEPT ![t] = "locking"] /\ UNCHANGED <<call, newId, total, lost>>
    <3>1. Touches(t)
      BY <1>1, <2>4 DEF Touches
    <3> QED
      BY <1>1, <2>1, <2>4, <3>1, WireQuiet
  <2> QED
    BY <1>4, <2>3, <2>4 DEF CallProxy
<1>5. ASSUME NEW t \in Tasks, WriteFails(t) \/ Cancel(t) PROVE WireInv'
  BY <1>2, <1>5 DEF WriteFails, Finish, Cancel
<1>6. CASE Consume \/ HangUp \/ UNCHANGED vars
  <2>1. UNCHANGED <<stream, begun, starts, torn, total, call, newId>>
    BY <1>6 DEF Consume, HangUp, vars, socketVars
  <2>2. \A t \in Tasks : PacketOf(t)' = PacketOf(t)
    BY <2>1 DEF PacketOf
  <2> QED
    BY <1>1, <2>1, <2>2, WireSame
<1>7. ASSUME NEW t \in Tasks, NEW k \in 1 .. Capacity, Write(t, k) PROVE WireInv'
  BY <1>7, WireWrite
<1> QED
  BY <1>3, <1>4, <1>5, <1>6, <1>7 DEF Next, Send

LEMMA WireInvInitially == Init => WireInv
<1> SUFFICES ASSUME Init PROVE WireInv
  OBVIOUS
<1>1. stream = <<>> /\ begun = <<>> /\ starts = <<>> /\ \A t \in Tasks : total[t] = 0
  BY DEF Init
<1>2. sendLock.writer = None
  BY DEF Init, Unlocked
<1>3. Edges = <<0>>
  BY <1>1, <1>2 DEF Edges, Unwritten
<1>4. WireIs(<<>>, <<>>, <<0>>)
  BY DEF WireIs
<1> QED
  BY <1>1, <1>3, <1>4 DEF WireInv

LEMMA WireInvAlways == Spec => []WireInv
<1>1. SendInv /\ SendInv' /\ WireInv /\ [Next]_vars => WireInv'
  BY WireInvKept
<1> QED
  BY <1>1, WireInvInitially, SendInvAlways, PTL DEF Spec

(* The words on the wire are those of the packets begun, one packet after  *)
(* another, each with its descriptors on its first word, and only of the   *)
(* last may a rest be missing, which its task has still to write: however  *)
(* the socket splits a packet and whoever else wants to write.             *)
THEOREM StreamIsPacketsCorrect == Spec => []StreamIsPackets
<1>1. WireInv => StreamIsPackets
  <2> SUFFICES ASSUME WireInv, ~ torn
               PROVE  /\ Edges[1] = 0
                      /\ \A i \in DOMAIN begun :
                            /\ Edges[i + 1] = Edges[i] + Len(begun[i].words)
                            /\ \A k \in 1 .. Len(begun[i].words) :
                                  Edges[i] + k \in DOMAIN stream =>
                                     stream[Edges[i] + k] = Whole(begun[i])[k]
    BY DEF StreamIsPackets, Edges
  <2>1. WireIs(stream, begun, Edges)
    BY DEF WireInv
  <2>2. /\ Edges[1] = 0 /\ stream \in Seq(Cells) /\ begun \in Seq(SentPackets)
        /\ \A i \in 1 .. Len(begun) : LiesAt(stream, Edges[i], Edges[i + 1], begun[i])
    BY <2>1 DEF WireIs
  <2>3. DOMAIN begun = 1 .. Len(begun) /\ DOMAIN stream = 1 .. Len(stream)
    BY <2>2
  <2> HIDE DEF Edges
  <2>4. ASSUME NEW i \in DOMAIN begun
        PROVE  /\ Edges[i + 1] = Edges[i] + Len(begun[i].words)
               /\ \A k \in 1 .. Len(begun[i].words) :
                     Edges[i] + k \in DOMAIN stream =>
                        stream[Edges[i] + k] = Whole(begun[i])[k]
    BY <2>2, <2>3 DEF LiesAt
  <2> QED
    BY <2>2, <2>4
<1> QED
  BY <1>1, WireInvAlways, PTL

-----------------------------------------------------------------------------
(* The packets that a reader finds. *)
LEMMA HeaderLies ==
    ASSUME NEW p \in SentPackets, NEW from \in Nat, NEW to \in Nat,
           stream \in Seq(Cells), LiesAt(stream, from, to, p)
    PROVE  /\ Arrived(from) <=> to <= Len(stream)
           /\ Arrived(from) =>
                 [k \in 1 .. HeaderSays(from) |-> stream[from + k]] = Whole(p)
<1> DEFINE n == Len(stream)
           L == Len(p.words)
<1>1. /\ n \in Nat /\ L \in Nat /\ L >= 2
      /\ SizeField(p.words[2]) \div WordBytes = L
  BY SentFields DEF Headed
<1>2. /\ to = from + L
      /\ \A k \in 1 .. L : from + k <= n => stream[from + k] = Whole(p)[k]
  BY DEF LiesAt
<1>3. \A k \in 1 .. L : Whole(p)[k].word = p.words[k]
  BY WholeWords
<1>4. /\ DOMAIN Whole(p) = 1 .. L
      /\ Whole(p) = [k \in 1 .. L |-> Whole(p)[k]]
  BY WholeWords
<1> HIDE DEF n, L
<1>5. from + 2 <= n => HeaderSays(from) = L
  <2> SUFFICES ASSUME from + 2 <= n PROVE HeaderSays(from) = L
    OBVIOUS
  <2>1. 2 \in 1 .. L
    BY <1>1
  <2>2. stream[from + 2].word = p.words[2]
    BY <1>2, <1>3, <2>1
  <2> QED
    BY <1>1, <2>2 DEF HeaderSays
<1>6. Arrived(from) <=> to <= n
  <2>1. to <= n => from + 2 <= n
    BY <1>1, <1>2
  <2>2. Arrived(from) <=> from + 2 <= n /\ from + HeaderSays(from) <= n
    BY DEF Arrived, HeaderWords, n
  <2> QED
    BY <1>2, <1>5, <2>1, <2>2
<1>7. ASSUME to <= n
      PROVE  [k \in 1 .. HeaderSays(from) |-> stream[from + k]] = Whole(p)
  <2>1. HeaderSays(from) = L
    <3>1. from + 2 <= n
      BY <1>1, <1>2, <1>7
    <3> QED
      BY <1>5, <3>1
  <2>2. \A k \in 1 .. L : from + k <= n
    BY <1>1, <1>2, <1>7
  <2>3. \A k \in 1 .. L : stream[from + k] = Whole(p)[k]
    BY <1>2, <2>2
  <2>4. [k \in 1 .. L |-> stream[from + k]] = [k \in 1 .. L |-> Whole(p)[k]]
    BY <2>3
  <2> QED
    BY <1>4, <2>1, <2>4
<1> QED
  BY <1>6, <1>7 DEF n

(* The first m of some packets, as they are on the wire. *)
OnWire(bg, m) == [i \in 1 .. m |-> Whole(bg[i])]

Ended == IF Unwritten = 0 THEN Len(begun) ELSE Len(begun) - 1

(* A reader finds all packets begun but the one that is being written. *)
LEMMA ReaderFinds ==
    ASSUME WireInv, ~ torn, Unwritten \in Nat
    PROVE  Packets = OnWire(begun, Ended)
<1> DEFINE n == Len(begun)
           s == Len(stream)
           u == Unwritten
<1>1. /\ starts \in Seq(Nat) /\ Len(starts) = n
      /\ WireIs(stream, begun, Append(starts, s + u))
  BY DEF WireInv, Edges
<1> DEFINE e == Append(starts, s + u)
<1>2. /\ stream \in Seq(Cells) /\ begun \in Seq(SentPackets) /\ e \in Seq(Nat)
      /\ Len(e) = n + 1
      /\ \A i \in 1 .. n : LiesAt(stream, e[i], e[i + 1], begun[i])
  BY <1>1 DEF WireIs
<1>3. n \in Nat /\ s \in Nat /\ u \in Nat /\ s + u \in Nat
  BY <1>2
<1>4. /\ \A i \in 1 .. n : e[i] = starts[i]
      /\ e[n + 1] = s + u
  BY <1>1, <1>3, AppendNat
<1>5. /\ \A i \in 1 .. n + 1 : e[i] \in Nat
      /\ \A i \in 1 .. n : begun[i] \in SentPackets
  BY <1>2
<1>6. DOMAIN starts = 1 .. n
  BY <1>1
<1> HIDE DEF e, n, s, u
<1>7. ASSUME NEW i \in 1 .. n
      PROVE  /\ Arrived(starts[i]) <=> e[i + 1] <= s
             /\ Arrived(starts[i]) =>
                   [k \in 1 .. HeaderSays(starts[i]) |-> stream[starts[i] + k]]
                      = Whole(begun[i])
  <2>1. e[i] = starts[i] /\ e[i] \in Nat /\ e[i + 1] \in Nat
        /\ begun[i] \in SentPackets
    BY <1>3, <1>4, <1>5
  <2>2. LiesAt(stream, starts[i], e[i + 1], begun[i])
    BY <1>2, <2>1
  <2> QED
    BY <1>2, <2>1, <2>2, HeaderLies DEF s
<1>8. ASSUME NEW i \in 1 .. n
      PROVE  e[i + 1] <= s <=> i \in 1 .. Ended
  <2>1. CASE i = n
    <3>1. e[i + 1] = s + u
      BY <1>4, <2>1
    <3>2. Ended = IF u = 0 THEN n ELSE n - 1
      BY DEF Ended, u, n
    <3> QED
      BY <1>3, <2>1, <3>1, <3>2
  <2>2. CASE i # n
    <3>1. i + 1 \in 1 .. n
      BY <1>3, <2>2
    <3>2. LiesAt(stream, e[i + 1], e[(i + 1) + 1], begun[i + 1])
      BY <1>2, <3>1
    <3>3. e[i + 1] <= s
      BY <3>2 DEF LiesAt, s
    <3>4. Ended = IF u = 0 THEN n ELSE n - 1
      BY DEF Ended, u, n
    <3>5. i \in 1 .. Ended
      BY <1>3, <2>2, <3>4
    <3> QED
      BY <3>3, <3>5
  <2> QED
    BY <2>1, <2>2
<1>9. 1 .. Ended \subseteq 1 .. n
  <2>1. Ended = IF u = 0 THEN n ELSE n - 1
    BY DEF Ended, u, n
  <2> QED
    BY <1>3, <2>1
<1>10. {j \in DOMAIN starts : Arrived(starts[j])} = 1 .. Ended
  BY <1>6, <1>7, <1>8, <1>9
<1>11. \A i \in 1 .. Ended :
          [k \in 1 .. HeaderSays(starts[i]) |-> stream[starts[i] + k]]
             = Whole(begun[i])
  BY <1>7, <1>8, <1>9
<1> HIDE DEF Ended
<1> QED
  BY <1>10, <1>11 DEF Packets, OnWire

(* One more packet arrived whole. *)
LEMMA OneMoreOnWire ==
    ASSUME NEW bg, NEW bg2, NEW m \in Nat, NEW p, bg2[m + 1] = p,
           \A i \in 1 .. m : bg2[i] = bg[i]
    PROVE  OnWire(bg2, m + 1) = Append(OnWire(bg, m), Whole(p))
<1> DEFINE a == OnWire(bg, m)
           w(i) == Whole(bg2[i])
           b == OnWire(bg2, m + 1)
<1>1. a = [i \in 1 .. m |-> w(i)]
  BY DEF OnWire
<1>2. b = [i \in 1 .. m + 1 |-> w(i)] /\ w(m + 1) = Whole(p)
  BY DEF OnWire
<1> HIDE DEF a, b, w
<1> DEFINE S == {w(i) : i \in 1 .. m + 1}
<1>3. a \in Seq(S) /\ Len(a) = m
  BY <1>1
<1>4. Append(a, w(m + 1)) = b
  <2>1. w(m + 1) \in S
    OBVIOUS
  <2> DEFINE c == Append(a, w(m + 1))
  <2>2. c \in Seq(S) /\ Len(c) = m + 1 /\ c[m + 1] = w(m + 1)
        /\ \A i \in 1 .. m : c[i] = a[i]
    BY <1>3, <2>1
  <2>3. b \in Seq(S) /\ Len(b) = m + 1
    BY <1>2
  <2>4. \A i \in 1 .. m + 1 : c[i] = b[i]
    BY <1>1, <1>2, <2>2
  <2> HIDE DEF c
  <2>5. c = b
    BY <2>2, <2>3, <2>4
  <2> QED
    BY <2>5 DEF c
<1> QED
  BY <1>2, <1>4 DEF a, b

(* The packets on the wire do not change when more are begun. *)
LEMMA SameOnWire ==
    ASSUME NEW bg, NEW bg2, NEW m \in Nat, \A i \in 1 .. m : bg2[i] = bg[i]
    PROVE  OnWire(bg2, m) = OnWire(bg, m)
BY DEF OnWire

(* What a write leaves unwritten. *)
LEMMA WriteLeaves ==
    ASSUME SendInv, NEW t \in Tasks, NEW k \in 1 .. Capacity, Write(t, k)
    PROVE  /\ total[t] # 0 =>
                 Unwritten = Len(PacketOf(t).words) - total[t]
           /\ total[t] = 0 => Unwritten = 0
           /\ \/ /\ total[t] + k < Len(PacketOf(t).words)
                 /\ Unwritten' = Len(PacketOf(t).words) - (total[t] + k)
                 /\ UNCHANGED <<pc, call, newId>>
              \/ /\ total[t] + k = Len(PacketOf(t).words)
                 /\ Unwritten' = 0
                 /\ Return(t, total[t] + k)
<1> DEFINE p == PacketOf(t)
           d == total[t]
           L == Len(p.words)
<1>1. /\ TypeOK /\ pc[t] = "writing" /\ sendLock.writer = t /\ d \in Nat
      /\ total \in [Tasks -> Nat] /\ sendLock \in Locks
  BY DEF SendInv, Write, TypeOK
<1>2. k \in Nat /\ k > 0
  BY SendAssumption
<1>3. Unwritten = IF d = 0 THEN 0 ELSE L - d
  BY <1>1, NoneAssumption DEF Unwritten
<1>4. CASE /\ d + k < L /\ total' = [total EXCEPT ![t] = @ + k]
           /\ UNCHANGED <<pc, call, newId, sendLock, lost>>
  <2>1. total'[t] = d + k /\ sendLock'.writer = t /\ PacketOf(t)' = p
    BY <1>1, <1>4 DEF PacketOf
  <2>2. total'[t] # 0
    BY <1>1, <1>2, <2>1
  <2>3. Unwritten' = L - (d + k)
    BY <2>1, <2>2, NoneAssumption DEF Unwritten
  <2> QED
    BY <1>3, <1>4, <2>3
<1>5. CASE d + k = L /\ Finish(t, d + k)
  <2>1. sendLock'.writer = None
    BY <1>1, <1>5 DEF Finish, Release
  <2>2. Unwritten' = 0
    BY <2>1 DEF Unwritten
  <2> HIDE DEF d, L
  <2> QED
    BY <1>3, <1>5, <2>2 DEF Finish, d, L
<1> QED
  BY <1>4, <1>5 DEF Write

UnwrittenIsNat == Unwritten \in Nat

(* What is unwritten is a number of words. *)
LEMMA UnwrittenNat ==
    ASSUME TypeOK PROVE UnwrittenIsNat
<1>1. CASE \A t \in Tasks : total[t] = 0
  <2>1. Unwritten = 0
    BY <1>1, NothingUnwritten
  <2> QED
    BY <2>1 DEF UnwrittenIsNat
<1>2. ASSUME NEW t \in Tasks, total[t] # 0 PROVE UnwrittenIsNat
  <2>1. Unwritten = Len(PacketOf(t).words) - total[t] /\ pc[t] = "writing"
    BY <1>2, SomeUnwritten
  <2>2. call[t] \in Calls /\ newId[t] \in Ids \cup {0}
    BY <2>1 DEF TypeOK
  <2>3. Len(PacketOf(t).words) \in Nat /\ total[t] \in Nat
        /\ total[t] < Len(PacketOf(t).words)
    BY <2>1, <2>2, PacketLength DEF TypeOK
  <2> QED
    BY <2>1, <2>3 DEF UnwrittenIsNat
<1> QED
  BY <1>1, <1>2

(* What a reader finds, as a property of states. *)
ReaderInv == ~ torn => Packets = OnWire(begun, Ended)

(* A reader of the stream finds exactly the packets begun and ended. *)
LEMMA ReaderHolds == TypeOK /\ WireInv => ReaderInv
BY ReaderFinds, UnwrittenNat DEF ReaderInv, UnwrittenIsNat

(* What a write does to what a reader finds. *)
LEMMA ReaderAfterWrite ==
    ASSUME SendInv, WireInv, ReaderInv, ReaderInv', ~ torn, ~ torn',
           NEW t \in Tasks, NEW k \in 1 .. Capacity, Write(t, k)
    PROVE  IF total[t] + k = Len(PacketOf(t).words)
           THEN Packets' = Append(Packets, Whole(PacketOf(t)))
           ELSE Packets' = Packets
<1> DEFINE p == PacketOf(t)
           d == total[t]
           L == Len(p.words)
           n == Len(begun)
<1>1. Packets = OnWire(begun, Ended)
  BY DEF ReaderInv
<1>2. Packets' = OnWire(begun', Ended')
  BY DEF ReaderInv, OnWire, Whole
<1>3. /\ d \in Nat /\ pc[t] = "writing" /\ call[t] \in Calls
      /\ newId[t] \in Ids \cup {0} /\ d < L
  BY DEF SendInv, TypeOK, Write
<1>4. L \in Nat /\ k \in Nat /\ k > 0 /\ p \in SentPackets
  BY <1>3, PacketLength, PacketSent, SendAssumption
<1>5. /\ d # 0 => Unwritten = L - d
      /\ d = 0 => Unwritten = 0
      /\ \/ d + k < L /\ Unwritten' = L - (d + k)
         \/ d + k = L /\ Unwritten' = 0
  BY WriteLeaves
<1>6. begun' = IF d = 0 THEN Append(begun, p) ELSE begun
  BY DEF Write
<1>7. /\ begun \in Seq(SentPackets) /\ n \in Nat
      /\ d # 0 => n # 0 /\ begun[n] = p
  BY DEF WireInv
<1> DEFINE m == IF d = 0 THEN n ELSE n - 1
<1>8. /\ m \in Nat /\ Ended = m /\ Len(begun') = m + 1
      /\ begun'[m + 1] = p
      /\ \A i \in 1 .. m : begun'[i] = begun[i]
  <2>1. CASE d = 0
    <3>1. /\ begun' = Append(begun, p) /\ m = n /\ Ended = n
      BY <1>5, <1>6, <2>1 DEF Ended
    <3>2. /\ Len(begun') = n + 1 /\ begun'[n + 1] = p
          /\ \A i \in 1 .. n : begun'[i] = begun[i]
      BY <1>4, <1>7, <3>1, AppendSent
    <3> QED
      BY <1>7, <3>1, <3>2
  <2>2. CASE d # 0
    <3>1. begun' = begun /\ m = n - 1
      BY <1>6, <2>2
    <3>2. Unwritten # 0
      <4> HIDE DEF d, L
      <4> QED
        BY <1>3, <1>4, <1>5, <2>2
    <3>3. Ended = n - 1
      BY <3>2 DEF Ended
    <3>4. n # 0 /\ begun[n] = p
      BY <1>7, <2>2
    <3>5. m \in Nat /\ m + 1 = n
      <4> HIDE DEF m, n, d
      <4> QED
        BY <1>7, <3>1, <3>4
    <3> HIDE DEF m
    <3> QED
      BY <3>1, <3>3, <3>4, <3>5
  <2> QED
    BY <2>1, <2>2
<1>9. Ended' = IF d + k = L THEN m + 1 ELSE m
  <2>1. Ended' = IF Unwritten' = 0 THEN Len(begun') ELSE Len(begun') - 1
    BY DEF Ended
  <2>2. d + k < L => Unwritten' # 0
    <3> HIDE DEF d, L
    <3> QED
      BY <1>3, <1>4, <1>5
  <2> HIDE DEF d, L, m
  <2> QED
    BY <1>3, <1>4, <1>5, <1>8, <2>1, <2>2
<1> HIDE DEF d, L, m, n, p
<1>10. CASE d + k = L
  <2>1. Packets' = OnWire(begun', m + 1)
    BY <1>2, <1>9, <1>10
  <2>2. OnWire(begun', m + 1) = Append(OnWire(begun, m), Whole(p))
    BY <1>8, OneMoreOnWire
  <2> QED
    BY <1>1, <1>8, <1>10, <2>1, <2>2 DEF p, d, L
<1>11. CASE d + k # L
  <2>1. Packets' = OnWire(begun', m)
    BY <1>2, <1>9, <1>11
  <2>2. OnWire(begun', m) = OnWire(begun, m)
    BY <1>8, SameOnWire
  <2> QED
    BY <1>1, <1>8, <1>11, <2>1, <2>2 DEF p, d, L
<1> QED
  BY <1>10, <1>11

-----------------------------------------------------------------------------
(* The packets of calls in progress. *)
SentCalls == [t \in Tasks |-> Sending(t)]

InProgress == {"ready", "locking", "writing"}

(* A call in progress has a packet, and no packet is empty. *)
LEMMA SendingSomething ==
    ASSUME TypeOK, NEW t \in Tasks, pc[t] \in InProgress
    PROVE  Sending(t) = Whole(PacketOf(t)) /\ Sending(t) # NoPacket
<1>1. call[t] \in Calls /\ newId[t] \in Ids \cup {0}
  BY DEF TypeOK, InProgress
<1>2. PacketOf(t) \in SentPackets
  BY <1>1, PacketSent
<1>3. Sending(t) = Whole(PacketOf(t))
  BY DEF Sending, InProgress
<1>4. Len(Whole(PacketOf(t))) >= 2
  BY <1>2, WholeWords, SentFields
<1>5. Len(NoPacket) = 0
  BY DEF NoPacket
<1> QED
  BY <1>3, <1>4, <1>5

(* Only the task that takes the step has its call changed. *)
LEMMA SendingOf ==
    ASSUME NEW t \in Tasks, Touches(t)
    PROVE  /\ SentCalls' = [SentCalls EXCEPT ![t] = Sending(t)']
           /\ SentCalls[t] = Sending(t) /\ SentCalls'[t] = Sending(t)'
<1>1. ASSUME NEW u \in Tasks \ {t} PROVE Sending(u)' = Sending(u)
  <2>1. pc'[u] = pc[u] /\ call'[u] = call[u] /\ newId'[u] = newId[u]
    BY DEF Touches
  <2>2. PacketOf(u)' = PacketOf(u)
    BY <2>1, Zenon DEF PacketOf
  <2>3. Whole(PacketOf(u))' = Whole(PacketOf(u))
    BY <2>2 DEF Whole
  <2> QED
    BY <2>1, <2>3, Zenon DEF Sending
<1>2. SentCalls' = [u \in Tasks |-> Sending(u)']
  BY DEF SentCalls
<1>3. SentCalls = [u \in Tasks |-> Sending(u)]
  BY DEF SentCalls
<1>4. \A u \in Tasks : Sending(u)' = [SentCalls EXCEPT ![t] = Sending(t)'][u]
  BY <1>1, <1>3
<1>5. [SentCalls EXCEPT ![t] = Sending(t)']
        = [u \in Tasks |-> [SentCalls EXCEPT ![t] = Sending(t)'][u]]
  BY <1>3
<1> QED
  BY <1>2, <1>3, <1>4, <1>5

(* Steps that the sender's module does not have. *)
LEMMA SendStutter ==
    ASSUME UNCHANGED <<pc, call, newId, stream, starts, torn>>
    PROVE  UNCHANGED Sender!vars
<1>1. \A t \in Tasks : Sending(t)' = Sending(t)
  BY DEF Sending, PacketOf, Whole
<1>2. SentCalls' = SentCalls
  BY <1>1 DEF SentCalls
<1>3. Packets' = Packets
  BY DEF Packets, Arrived, HeaderSays
<1> QED
  BY <1>2, <1>3 DEF Sender!vars, SentCalls

(* A step of a call that writes nothing is a stutter of PacketSender. *)
LEMMA SendMoves ==
    ASSUME TypeOK, TypeOK', NEW t \in Tasks, Touches(t),
           pc[t] \in InProgress, pc'[t] \in InProgress,
           UNCHANGED <<call, newId, torn>>, Packets' = Packets
    PROVE  UNCHANGED Sender!vars
<1>1. Sending(t)' = Sending(t)
  BY DEF Sending, InProgress, PacketOf, Whole
<1>2. SentCalls' = SentCalls
  <2>1. SentCalls = [u \in Tasks |-> Sending(u)]
    BY DEF SentCalls
  <2> QED
    BY <1>1, <2>1, SendingOf
<1> QED
  BY <1>2 DEF Sender!vars, SentCalls

(* The same stream has the same packets in it. *)
LEMMA SamePackets ==
    ASSUME UNCHANGED <<stream, starts>> PROVE Packets' = Packets
BY DEF Packets, Arrived, HeaderSays

(* A call that is not yet. *)
LEMMA SendNothing ==
    ASSUME NEW t \in Tasks, pc[t] \notin InProgress
    PROVE  Sending(t) = NoPacket
BY DEF Sending, InProgress

(* Filling in a packet is the call of PacketSender. *)
LEMMA SendCalls ==
    ASSUME NEW t \in Tasks, Touches(t), pc[t] \notin InProgress,
           Sending(t)' # NoPacket, UNCHANGED <<stream, starts, torn>>
    PROVE  Sender!Next
<1>1. Sending(t) = NoPacket
  BY SendNothing
<1>2. /\ SentCalls' = [SentCalls EXCEPT ![t] = SentCalls'[t]]
      /\ SentCalls[t] = NoPacket /\ SentCalls'[t] # NoPacket
  BY <1>1, SendingOf
<1>3. Packets' = Packets
  BY SamePackets
<1>4. Sender!Call(t)
  BY <1>2, <1>3 DEF Sender!Call, SentCalls
<1> QED
  BY <1>4 DEF Sender!Next

(* It fails, *)
LEMMA SendFails ==
    ASSUME TypeOK, NEW t \in Tasks, NEW n \in Nat, Return(t, n),
           pc[t] \in InProgress, UNCHANGED <<stream, starts>>,
           torn' \in {torn, TRUE}
    PROVE  Sender!Next
<1>1. Touches(t) /\ pc'[t] = "idle"
  BY Returning
<1>2. Sending(t)' = NoPacket
  BY <1>1 DEF Sending, InProgress
<1>3. Sending(t) # NoPacket
  BY SendingSomething
<1>4. SentCalls' = [SentCalls EXCEPT ![t] = NoPacket] /\ SentCalls[t] # NoPacket
  BY <1>1, <1>2, <1>3, SendingOf
<1>5. Packets' = Packets
  BY SamePackets
<1>6. Sender!Fail(t)
  BY <1>4, <1>5 DEF Sender!Fail, SentCalls
<1> QED
  BY <1>6 DEF Sender!Next

(* or puts its packet on the wire. *)
LEMMA SendSucceeds ==
    ASSUME TypeOK, NEW t \in Tasks, NEW n \in Nat, Return(t, n),
           pc[t] \in InProgress, torn' = torn,
           Packets' = Append(Packets, Whole(PacketOf(t)))
    PROVE  Sender!Next
<1>1. Touches(t) /\ pc'[t] = "idle"
  BY Returning
<1>2. Sending(t)' = NoPacket
  BY <1>1 DEF Sending, InProgress
<1>3. Sending(t) # NoPacket /\ Sending(t) = Whole(PacketOf(t))
  BY SendingSomething
<1>4. /\ SentCalls' = [SentCalls EXCEPT ![t] = NoPacket]
      /\ SentCalls[t] # NoPacket
      /\ Packets' = Append(Packets, SentCalls[t])
  BY <1>1, <1>2, <1>3, SendingOf
<1>5. Sender!Succeed(t)
  BY <1>4 DEF Sender!Succeed, SentCalls
<1> QED
  BY <1>5 DEF Sender!Next

(* A write is the end of a call of PacketSender, or a stutter. *)
LEMMA SendWrites ==
    ASSUME SendInv, SendInv', WireInv, ReaderInv, ReaderInv', ~ torn,
           NEW t \in Tasks, NEW k \in 1 .. Capacity, Write(t, k)
    PROVE  [Sender!Next]_(Sender!vars)
<1>1. /\ TypeOK /\ TypeOK' /\ pc[t] = "writing" /\ torn' = torn
      /\ total[t] \in Nat /\ k \in Nat
  <2>1. TypeOK /\ TypeOK' /\ pc[t] = "writing" /\ torn' = torn
    BY DEF SendInv, Write
  <2>2. total[t] \in Nat
    BY <2>1 DEF TypeOK
  <2>3. k \in Nat
    BY SendAssumption
  <2> QED
    BY <2>1, <2>2, <2>3
<1>2. pc[t] \in InProgress
  BY <1>1 DEF InProgress
<1>3. IF total[t] + k = Len(PacketOf(t).words)
      THEN Packets' = Append(Packets, Whole(PacketOf(t)))
      ELSE Packets' = Packets
  BY <1>1, ReaderAfterWrite
<1>4. \/ /\ total[t] + k < Len(PacketOf(t).words)
         /\ UNCHANGED <<pc, call, newId>>
         /\ total' = [total EXCEPT ![t] = @ + k]
      \/ /\ total[t] + k = Len(PacketOf(t).words)
         /\ Return(t, total[t] + k)
  BY DEF Write, Finish
<1>5. CASE /\ total[t] + k < Len(PacketOf(t).words)
           /\ UNCHANGED <<pc, call, newId>>
           /\ total' = [total EXCEPT ![t] = @ + k]
  <2>1. Touches(t)
    BY <1>1, <1>5 DEF TypeOK, Touches
  <2>2. total[t] + k # Len(PacketOf(t).words)
    <3>1. call[t] \in Calls /\ newId[t] \in Ids \cup {0}
      BY <1>1 DEF TypeOK
    <3>2. Len(PacketOf(t).words) \in Nat
      BY <3>1, PacketLength
    <3> QED
      BY <1>1, <1>5, <3>2
  <2>3. Packets' = Packets
    BY <1>3, <2>2
  <2> QED
    BY <1>1, <1>2, <1>5, <2>1, <2>3, SendMoves
<1>6. CASE /\ total[t] + k = Len(PacketOf(t).words)
           /\ Return(t, total[t] + k)
  <2>1. total[t] + k \in Nat
    BY <1>1
  <2>2. Packets' = Append(Packets, Whole(PacketOf(t)))
    BY <1>3, <1>6
  <2> QED
    BY <1>1, <1>2, <1>6, <2>1, <2>2, SendSucceeds
<1> QED
  BY <1>4, <1>5, <1>6

SendingInv == \A t \in Tasks : pc[t] \in InProgress => Sending(t) # NoPacket

(* Every step is one of the sender's, or one that it does not see. *)
LEMMA StepImplementsSender ==
    ASSUME SendInv, SendInv', WireInv, ReaderInv, ReaderInv', SendingInv',
           [Next]_vars
    PROVE  [Sender!Next]_(Sender!vars)
<1>1. /\ TypeOK /\ TypeOK' /\ torn \in BOOLEAN
      /\ pc \in [Tasks -> Locations] /\ newId \in [Tasks -> Ids \cup {0}]
      /\ call \in [Tasks -> Calls \cup {None}] /\ total \in [Tasks -> Nat]
  BY DEF SendInv, TypeOK
<1>2. ASSUME NEW t \in Tasks, NEW n \in Nat, Return(t, n), pc[t] \in InProgress,
             UNCHANGED <<stream, starts>>, torn' \in {torn, TRUE}
      PROVE  Sender!Next
  BY <1>1, <1>2, SendFails
<1>3. ASSUME NEW t \in Tasks, TakeHandle(t) \/ DropHandle(t)
      PROVE  UNCHANGED Sender!vars
  <2>1. UNCHANGED <<pc, call, newId, stream, starts, torn>>
    BY <1>3 DEF TakeHandle, DropHandle, socketVars
  <2> QED
    BY <2>1, SendStutter
<1>4. ASSUME NEW t \in Tasks, Touches(t), pc[t] \notin InProgress,
             pc'[t] = "ready", UNCHANGED <<stream, starts, torn>>
      PROVE  Sender!Next
  <2>1. Sending(t)' # NoPacket
    BY <1>4 DEF SendingInv, InProgress
  <2> QED
    BY <1>4, <2>1, SendCalls
<1>5. ASSUME NEW t \in Tasks, Touches(t), pc[t] \notin InProgress,
             pc'[t] = "asking", UNCHANGED <<stream, starts, torn>>
      PROVE  UNCHANGED Sender!vars
  <2>1. Sending(t) = NoPacket
    BY <1>5, SendNothing
  <2>2. Sending(t)' = NoPacket
    BY <1>5 DEF Sending
  <2>3. SentCalls' = SentCalls
    <3>1. SentCalls = [u \in Tasks |-> Sending(u)]
      BY DEF SentCalls
    <3> QED
      BY <1>5, <2>1, <2>2, <3>1, SendingOf
  <2>4. Packets' = Packets
    BY <1>5, SamePackets
  <2> QED
    BY <1>5, <2>3, <2>4 DEF Sender!vars, SentCalls
<1>6. ASSUME NEW t \in Tasks, NEW c \in Calls, Decide(t, c)
      PROVE  [Sender!Next]_(Sender!vars)
  <2>1. /\ UNCHANGED <<stream, starts, torn>> /\ pc[t] \notin InProgress
        /\ pc'[t] = "ready" \/ pc'[t] = "asking"
        /\ Touches(t)
    BY <1>1, <1>6 DEF Decide, socketVars, InProgress, Touches
  <2> QED
    BY <1>4, <1>5, <2>1
<1>7. ASSUME NEW t \in Tasks, Allocate(t)
      PROVE  [Sender!Next]_(Sender!vars)
  <2>1. /\ UNCHANGED <<stream, starts, torn>> /\ pc[t] \notin InProgress
        /\ pc'[t] = "ready" \/ pc'[t] = "asking"
        /\ Touches(t)
    BY <1>1, <1>7 DEF Allocate, socketVars, InProgress, Touches
  <2> QED
    BY <1>4, <1>5, <2>1
<1>8. ASSUME NEW t \in Tasks, CallProxy(t)
      PROVE  [Sender!Next]_(Sender!vars)
  <2>1. pc[t] = "ready" /\ UNCHANGED <<stream, starts, torn>>
    BY <1>8 DEF CallProxy, socketVars
  <2>2. CASE Return(t, 0)
    BY <1>2, <2>1, <2>2 DEF InProgress
  <2>3. CASE pc' = [pc EXCEPT ![t] = "locking"]
             /\ UNCHANGED <<call, newId, total, lost>>
    <3>1. Touches(t) /\ pc'[t] = "locking" /\ Packets' = Packets
      BY <1>1, <2>1, <2>3, SamePackets DEF Touches
    <3> QED
      BY <1>1, <2>1, <2>3, <3>1, SendMoves DEF InProgress
  <2> QED
    BY <1>8, <2>2, <2>3 DEF CallProxy
<1>9. ASSUME NEW t \in Tasks, Lock(t)
      PROVE  UNCHANGED Sender!vars
  <2>1. /\ pc[t] = "locking" /\ pc' = [pc EXCEPT ![t] = "writing"]
        /\ UNCHANGED <<call, newId, total, stream, starts, torn>>
    BY <1>9 DEF Lock, socketVars
  <2>2. Touches(t) /\ pc'[t] = "writing" /\ Packets' = Packets
    BY <1>1, <2>1, SamePackets DEF Touches
  <2> QED
    BY <1>1, <2>1, <2>2, SendMoves DEF InProgress
<1>10. ASSUME NEW t \in Tasks, NEW k \in 1 .. Capacity, Write(t, k)
       PROVE  [Sender!Next]_(Sender!vars)
  <2>1. torn' = torn
    BY <1>10 DEF Write
  <2>2. CASE torn
    BY <2>1, <2>2 DEF Sender!Next, Sender!Broken
  <2>3. CASE ~ torn
    BY <1>10, <2>3, SendWrites
  <2> QED
    BY <2>2, <2>3
<1>11. ASSUME NEW t \in Tasks, WriteFails(t) \/ Cancel(t)
       PROVE  Sender!Next
  <2>1. /\ Return(t, total[t]) /\ pc[t] \in InProgress
        /\ UNCHANGED <<stream, starts>> /\ torn' = (torn \/ total[t] > 0)
    BY <1>11 DEF WriteFails, Finish, Cancel, InProgress
  <2>2. total[t] \in Nat
    BY <1>1
  <2>3. torn' \in {torn, TRUE}
    BY <1>1, <2>1, <2>2
  <2> QED
    BY <1>2, <2>1, <2>2, <2>3
<1>12. CASE Consume \/ HangUp \/ UNCHANGED vars
  <2>1. UNCHANGED <<pc, call, newId, stream, starts, torn>>
    BY <1>12 DEF Consume, HangUp, vars, socketVars
  <2> QED
    BY <2>1, SendStutter
<1> QED
  BY <1>3, <1>6, <1>7, <1>8, <1>9, <1>10, <1>11, <1>12 DEF Next, Send

LEMMA InitImplementsSender == Init => Sender!Init
<1> SUFFICES ASSUME Init PROVE Sender!Init
  OBVIOUS
<1>1. starts = <<>> /\ torn = FALSE /\ \A t \in Tasks : pc[t] = "idle"
  BY DEF Init
<1>2. \A t \in Tasks : Sending(t) = NoPacket
  BY <1>1, SendNothing DEF InProgress
<1>3. Packets = <<>>
  BY <1>1 DEF Packets
<1> QED
  BY <1>1, <1>2, <1>3 DEF Sender!Init

(* ImplementsSender: to its callers send_packet puts whole packets on the  *)
(* wire, one at a time, though it writes them in pieces and tasks wait for *)
(* each other, fail and are dropped.                                       *)
THEOREM SendPathImplementsSender == Spec => ImplementsSender
<1>1. SendInv => SendingInv
  BY SendingSomething DEF SendInv, SendingInv
<1>2. SendInv /\ WireInv => ReaderInv
  BY ReaderHolds DEF SendInv
<1>3. SendInv /\ SendInv' /\ WireInv /\ ReaderInv /\ ReaderInv' /\ SendingInv'
         /\ [Next]_vars
      => [Sender!Next]_(Sender!vars)
  BY StepImplementsSender
<1> QED
  BY <1>1, <1>2, <1>3, InitImplementsSender, SendInvAlways, WireInvAlways, PTL
     DEF Spec, ImplementsSender, Sender!Spec

-----------------------------------------------------------------------------
(* The order of new ids.  The id that went before the packet at j, or 1 if *)
(* none did.                                                               *)
Successor(id) == IF id = Modulus - 1 THEN 1 ELSE id + 1

Introducing(bg) == {i \in 1 .. Len(bg) : bg[i].newId # 0}

Before(bg, j, id) ==
    \/ /\ \A i \in Introducing(bg) : j <= i
       /\ id = 1
    \/ \E i \in Introducing(bg) :
          /\ i < j /\ \A h \in Introducing(bg) : h <= i \/ j <= h
          /\ id = bg[i].newId

Orderly(bg) ==
    \A j \in Introducing(bg) :
       \E id \in Ids : Before(bg, j, id) /\ bg[j].newId = Successor(id)

(* One packet more. *)
OneLonger(bg, bg2, p) ==
    /\ Len(bg) \in Nat /\ Len(bg2) = Len(bg) + 1
    /\ bg2[Len(bg) + 1] = p
    /\ \A i \in 1 .. Len(bg) : bg2[i] = bg[i]

(* Which packets introduce an object, after one more is begun. *)
LEMMA IntroducingMore ==
    ASSUME NEW bg, NEW bg2, NEW p, OneLonger(bg, bg2, p)
    PROVE  /\ p.newId = 0 => Introducing(bg2) = Introducing(bg)
           /\ p.newId # 0 => Introducing(bg2) = Introducing(bg) \cup {Len(bg) + 1}
           /\ \A i \in Introducing(bg) : i \in 1 .. Len(bg) /\ bg2[i] = bg[i]
<1> DEFINE n == Len(bg)
<1>1. /\ n \in Nat /\ Len(bg2) = n + 1 /\ bg2[n + 1] = p
      /\ \A i \in 1 .. n : bg2[i] = bg[i]
  BY DEF OneLonger
<1> HIDE DEF n
<1>2. Introducing(bg) = {i \in 1 .. n : bg[i].newId # 0}
  BY DEF Introducing, n
<1>3. Introducing(bg2) = {i \in 1 .. n + 1 : bg2[i].newId # 0}
  BY <1>1 DEF Introducing
<1>4. 1 .. n + 1 = (1 .. n) \cup {n + 1} /\ n + 1 \notin 1 .. n
  BY <1>1
<1> QED
  BY <1>1, <1>2, <1>3, <1>4 DEF n

(* The id before position j stays the one before it. *)
LEMMA BeforeKept ==
    ASSUME NEW bg, NEW bg2, NEW p, OneLonger(bg, bg2, p),
           NEW j \in 1 .. Len(bg) + 1, NEW id, Before(bg, j, id)
    PROVE  Before(bg2, j, id)
<1>1. Len(bg) \in Nat /\ j <= Len(bg) + 1 /\ j \in Nat
  BY DEF OneLonger
<1>2. /\ \A i \in Introducing(bg2) : i \in Introducing(bg) \/ i = Len(bg) + 1
      /\ Introducing(bg) \subseteq Introducing(bg2)
      /\ \A i \in Introducing(bg) : bg2[i] = bg[i]
  BY IntroducingMore
<1>3. CASE (\A i \in Introducing(bg) : j <= i) /\ id = 1
  BY <1>1, <1>2, <1>3 DEF Before
<1>4. ASSUME NEW i \in Introducing(bg), i < j,
             \A h \in Introducing(bg) : h <= i \/ j <= h, id = bg[i].newId
      PROVE  Before(bg2, j, id)
  <2>1. \A h \in Introducing(bg2) : h <= i \/ j <= h
    BY <1>1, <1>2, <1>4
  <2>2. i \in Introducing(bg2) /\ id = bg2[i].newId
    BY <1>2, <1>4
  <2> QED
    BY <1>4, <2>1, <2>2 DEF Before
<1> QED
  BY <1>3, <1>4 DEF Before

(* The id before the next packet, after one more is begun. *)
LEMMA BeforeNext ==
    ASSUME NEW bg, NEW bg2, NEW p, OneLonger(bg, bg2, p)
    PROVE  /\ p.newId # 0 => Before(bg2, Len(bg2) + 1, p.newId)
           /\ \A id : p.newId = 0 /\ Before(bg, Len(bg) + 1, id)
                         => Before(bg2, Len(bg2) + 1, id)
<1> DEFINE n == Len(bg)
<1>1. n \in Nat /\ Len(bg2) = n + 1 /\ bg2[n + 1] = p
  BY DEF OneLonger
<1>2. /\ p.newId = 0 => Introducing(bg2) = Introducing(bg)
      /\ p.newId # 0 => Introducing(bg2) = Introducing(bg) \cup {n + 1}
      /\ \A i \in Introducing(bg) : i \in 1 .. n /\ bg2[i] = bg[i]
  BY IntroducingMore
<1> HIDE DEF n
<1>3. ASSUME p.newId # 0 PROVE Before(bg2, (n + 1) + 1, p.newId)
  <2>1. /\ n + 1 \in Introducing(bg2) /\ n + 1 < (n + 1) + 1
        /\ \A h \in Introducing(bg2) : h <= n + 1
    BY <1>1, <1>2, <1>3
  <2> QED
    BY <1>1, <2>1 DEF Before
<1>4. ASSUME p.newId = 0, NEW id, Before(bg, n + 1, id)
      PROVE  Before(bg2, (n + 1) + 1, id)
  <2>1. Introducing(bg2) = Introducing(bg)
    BY <1>2, <1>4
  <2>2. CASE (\A i \in Introducing(bg) : n + 1 <= i) /\ id = 1
    <3>1. \A i \in Introducing(bg2) : (n + 1) + 1 <= i
      BY <1>1, <1>2, <2>1, <2>2
    <3> QED
      BY <2>2, <3>1 DEF Before
  <2>3. ASSUME NEW i \in Introducing(bg), i < n + 1,
               \A h \in Introducing(bg) : h <= i \/ n + 1 <= h,
               id = bg[i].newId
        PROVE  Before(bg2, (n + 1) + 1, id)
    <3>1. \A h \in Introducing(bg) : h <= n /\ h \in Nat /\ i \in Nat
      BY <1>1, <1>2
    <3>2. \A h \in Introducing(bg2) : h <= i \/ (n + 1) + 1 <= h
      BY <1>1, <2>1, <2>3, <3>1
    <3>3. i \in Introducing(bg2) /\ i < (n + 1) + 1 /\ id = bg2[i].newId
      BY <1>1, <1>2, <2>1, <2>3, <3>1
    <3> QED
      BY <3>2, <3>3 DEF Before
  <2> QED
    BY <1>4, <2>2, <2>3 DEF Before
<1> QED
  BY <1>1, <1>3, <1>4 DEF n

(* One more packet with the next id keeps the order. *)
LEMMA OrderlyMore ==
    ASSUME NEW bg, NEW bg2, NEW p, OneLonger(bg, bg2, p), Orderly(bg),
           p.newId = 0 \/ \E id \in Ids : /\ Before(bg, Len(bg) + 1, id)
                                          /\ p.newId = Successor(id)
    PROVE  Orderly(bg2)
<1>1. /\ \A i \in Introducing(bg2) : \/ i \in Introducing(bg)
                                     \/ i = Len(bg) + 1 /\ p.newId # 0
      /\ \A i \in Introducing(bg) : i \in 1 .. Len(bg) /\ bg2[i] = bg[i]
  BY IntroducingMore
<1>2. Len(bg) \in Nat /\ bg2[Len(bg) + 1] = p
  BY DEF OneLonger
<1>3. ASSUME NEW j \in Introducing(bg)
      PROVE  \E id \in Ids : Before(bg2, j, id) /\ bg2[j].newId = Successor(id)
  <2>1. PICK id \in Ids : Before(bg, j, id) /\ bg[j].newId = Successor(id)
    BY DEF Orderly
  <2>2. j \in 1 .. Len(bg) + 1 /\ bg2[j] = bg[j]
    BY <1>1, <1>2
  <2>3. Before(bg2, j, id)
    BY <2>1, <2>2, BeforeKept
  <2> QED
    BY <2>1, <2>2, <2>3
<1>4. ASSUME p.newId # 0
      PROVE  \E id \in Ids : /\ Before(bg2, Len(bg) + 1, id)
                             /\ bg2[Len(bg) + 1].newId = Successor(id)
  <2>1. PICK id \in Ids : Before(bg, Len(bg) + 1, id) /\ p.newId = Successor(id)
    BY <1>4
  <2>2. Len(bg) + 1 \in 1 .. Len(bg) + 1
    BY <1>2
  <2>3. Before(bg2, Len(bg) + 1, id)
    BY <2>1, <2>2, BeforeKept
  <2> QED
    BY <1>2, <2>1, <2>3
<1> QED
  BY <1>1, <1>3, <1>4 DEF Orderly

(* Who makes objects. *)
Makers == {begun[i].by : i \in Introducing(begun)}
             \cup {t \in Tasks : newId[t] # 0 \/ pc[t] = "asking"}

OneMaker == (\A t, u \in Makers : t = u) /\ lost = {}

(* The counter goes on from an id; it may still have to leave out the 0.   *)
Follows(n, id) == IF id = Modulus - 1 THEN n \in {0, 1} ELSE n = id + 1

(* The id that is to be introduced next: the counter's next, or the one    *)
(* that the only maker has already.                                        *)
Upcoming(next, pending, ids, id) ==
    /\ pending = {} => Follows(next, id)
    /\ \A t \in pending : ids[t] = Successor(id) /\ Follows(next, ids[t])

Ordered(bg, next, pending, ids) ==
    /\ Orderly(bg)
    /\ \E id \in Ids : /\ Before(bg, Len(bg) + 1, id)
                       /\ Upcoming(next, pending, ids, id)

OrderInv == OneMaker => Ordered(begun, nextObjectId, Pending, newId)

(* The counter alone. *)
Skips ==
    /\ issued' = issued
    /\ \/ nextObjectId' = nextObjectId
       \/ nextObjectId = 0 /\ nextObjectId' = 1

Issue ==
    /\ nextObjectId # 0
    /\ issued' = Append(issued, [id |-> nextObjectId, lap |-> lap])
    /\ nextObjectId' = IF nextObjectId = Modulus - 1 THEN 0 ELSE nextObjectId + 1

(* A step of the counter issues an id or skips one nobody sees. *)
LEMMA CounterSteps ==
    ASSUME IdsTypeOK, [IdsNext]_idVars PROVE Skips \/ Issue
<1>1. CASE UNCHANGED idVars
  BY <1>1 DEF idVars, Skips
<1>2. ASSUME NEW t \in Allocators, Ask(t) PROVE Skips
  BY <1>2 DEF Ask, Skips
<1>3. ASSUME NEW t \in Allocators, FetchAdd(t) PROVE Skips \/ Issue
  <2>1. nextObjectId \in Nat /\ Modulus > 2 /\ Modulus \in Nat
    BY IdsAssumption DEF IdsTypeOK
  <2>2. nextObjectId' = IF nextObjectId = Modulus - 1 THEN 0 ELSE nextObjectId + 1
    BY <1>3 DEF FetchAdd, Wrap
  <2>3. CASE nextObjectId = 0 /\ issued' = issued
    BY <2>1, <2>2, <2>3 DEF Skips
  <2>4. CASE /\ nextObjectId # 0
             /\ issued' = Append(issued, [id |-> nextObjectId, lap |-> lap])
    BY <2>2, <2>4 DEF Issue
  <2> QED
    BY <1>3, <2>3, <2>4 DEF FetchAdd
<1> QED
  BY <1>1, <1>2, <1>3 DEF IdsNext

(* An id that a task takes is the counter's. *)
LEMMA TakesFromCounter ==
    ASSUME IdsTypeOK, Skips \/ Issue, NEW t, Takes(t)
    PROVE  /\ newId'[t] = nextObjectId /\ nextObjectId # 0
           /\ Follows(nextObjectId', newId'[t])
<1> DEFINE E == [id |-> nextObjectId, lap |-> lap]
           S == [id : Ids, lap : Nat]
<1>1. PICK e : e.id = newId'[t] /\ issued' = Append(issued, e)
  BY DEF Takes
<1>2. issued \in Seq(S)
  BY DEF IdsTypeOK
<1> HIDE DEF S, E
<1>3. \A x : /\ Len(Append(issued, x)) = Len(issued) + 1 /\ Len(issued) \in Nat
             /\ Append(issued, x)[Len(issued) + 1] = x
  <2> TAKE x
  <2>1. issued \in Seq(S \cup {x})
    BY <1>2
  <2> QED
    BY <2>1
<1>4. issued' # issued
  BY <1>1, <1>3
<1>5. Issue
  BY <1>4 DEF Skips
<1>6. Append(issued, e) = Append(issued, E)
  BY <1>1, <1>5 DEF Issue, E
<1>7. e = E
  BY <1>3, <1>6
<1>8. newId'[t] = nextObjectId
  BY <1>1, <1>7 DEF E
<1>9. nextObjectId # 0 /\ nextObjectId \in Nat
  BY <1>5 DEF Issue, IdsTypeOK
<1>10. Follows(nextObjectId', nextObjectId)
  BY <1>5, <1>9, IdsAssumption DEF Issue, Follows
<1> QED
  BY <1>8, <1>9, <1>10

(* While no id is issued, the counter stays behind the same id. *)
LEMMA CounterStays ==
    ASSUME IdsTypeOK, Skips \/ Issue, issued' = issued, NEW id \in Ids,
           Follows(nextObjectId, id)
    PROVE  Follows(nextObjectId', id)
<1>1. Skips
  <2> DEFINE E == [id |-> nextObjectId, lap |-> lap]
             S == [id : Ids, lap : Nat]
  <2>1. issued \in Seq(S)
    BY DEF IdsTypeOK
  <2> HIDE DEF E, S
  <2>2. issued \in Seq(S \cup {E})
    BY <2>1
  <2>3. Len(Append(issued, E)) = Len(issued) + 1 /\ Len(issued) \in Nat
    BY <2>2
  <2>4. issued' # Append(issued, E)
    BY <2>3
  <2> QED
    BY <2>4 DEF Issue, E
<1>2. id \in Nat /\ id # 0
  BY IdsAssumption DEF Ids
<1> QED
  BY <1>1, <1>2, IdsAssumption DEF Skips, Follows

(* No one stops being a maker unless an id is lost. *)
LEMMA MakersKept ==
    ASSUME SendInv, SendInv', WireInv, WireInv', [Next]_vars, lost' = {}
    PROVE  Makers \subseteq Makers' /\ lost = {}
<1> DEFINE Asks(t) == newId[t] # 0 \/ pc[t] = "asking"
<1>1. /\ TypeOK /\ TypeOK' /\ pc \in [Tasks -> Locations]
      /\ newId \in [Tasks -> Ids \cup {0}]
      /\ total \in [Tasks -> Nat] /\ begun \in Seq(SentPackets)
      /\ begun' \in Seq(SentPackets) /\ call \in [Tasks -> Calls \cup {None}]
  BY DEF SendInv, TypeOK, WireInv
<1>2. ASSUME NEW t \in Tasks, Touches(t), Asks(t) => Asks(t)', lost' = lost,
             \/ begun' = begun
             \/ \E p : OneLonger(begun, begun', p)
      PROVE  Makers \subseteq Makers' /\ lost = {}
  <2>1. ASSUME NEW u \in Tasks, Asks(u) PROVE Asks(u)'
    <3>1. CASE u = t
      BY <1>2, <2>1, <3>1
    <3>2. CASE u # t
      BY <1>2, <2>1, <3>2 DEF Touches
    <3> QED
      BY <3>1, <3>2
  <2>2. ASSUME NEW i \in Introducing(begun)
        PROVE  i \in Introducing(begun') /\ begun'[i] = begun[i]
    <3>1. CASE begun' = begun
      BY <3>1
    <3>2. ASSUME NEW p, OneLonger(begun, begun', p)
          PROVE  i \in Introducing(begun') /\ begun'[i] = begun[i]
      BY <3>2, IntroducingMore
    <3> QED
      BY <1>2, <3>1, <3>2
  <2>3. Introducing(begun)' = Introducing(begun')
    BY DEF Introducing
  <2>4. Makers \subseteq Makers'
    BY <2>1, <2>2, <2>3 DEF Makers
  <2> QED
    BY <1>2, <2>4
<1>3. ASSUME NEW t \in Tasks, Return(t, total[t]), pc[t] \in InProgress,
             UNCHANGED begun
      PROVE  Makers \subseteq Makers' /\ lost = {}
  <2>1. Touches(t)
    BY <1>1, <1>3, Returning
  <2>2. total[t] = 0 => newId[t] = 0
    BY <1>3 DEF Return
  <2>3. newId[t] # 0 => \E i \in Introducing(begun) : begun[i].by = t
    <3> SUFFICES ASSUME newId[t] # 0
                 PROVE  \E i \in Introducing(begun) : begun[i].by = t
      OBVIOUS
    <3>1. total[t] # 0
      BY <2>2
    <3>2. Len(begun) # 0 /\ begun[Len(begun)] = PacketOf(t)
      BY <3>1 DEF WireInv
    <3>3. Len(begun) \in 1 .. Len(begun)
      BY <1>1, <3>2
    <3>4. PacketOf(t).newId = newId[t] /\ PacketOf(t).by = t
      BY Zenon DEF PacketOf
    <3> QED
      BY <3>2, <3>3, <3>4 DEF Introducing
  <2>4. lost = {}
    BY <1>3 DEF Return
  <2>5. Asks(t) => newId[t] # 0
    BY <1>3 DEF InProgress
  <2>6. \A u \in Tasks \ {t} : Asks(u) => Asks(u)'
    BY <2>1 DEF Touches
  <2>7. Introducing(begun)' = Introducing(begun) /\ begun' = begun
    BY <1>3 DEF Introducing
  <2> QED
    BY <2>3, <2>4, <2>5, <2>6, <2>7 DEF Makers
<1>4. ASSUME NEW t \in Tasks,
             TakeHandle(t) \/ DropHandle(t) \/ (\E c \in Calls : Decide(t, c))
                \/ Lock(t)
      PROVE  Makers \subseteq Makers' /\ lost = {}
  <2>1. UNCHANGED <<begun, lost, newId>>
    BY <1>4 DEF TakeHandle, DropHandle, Decide, Lock, socketVars
  <2>2. Touches(t)
    BY <1>1, <1>4 DEF TakeHandle, DropHandle, Decide, Lock, Touches
  <2>3. pc[t] = "asking" => pc' = pc
    BY <1>4 DEF TakeHandle, DropHandle, Decide, Lock
  <2>4. Asks(t) => Asks(t)'
    BY <2>1, <2>3
  <2> QED
    BY <1>2, <2>1, <2>2, <2>4
<1>5. ASSUME NEW t \in Tasks, Allocate(t)
      PROVE  Makers \subseteq Makers' /\ lost = {}
  <2>1. UNCHANGED <<begun, lost>> /\ Touches(t)
    BY <1>1, <1>5 DEF Allocate, Touches, socketVars
  <2>2. Asks(t)'
    <3>1. CASE UNCHANGED <<pc, newId>>
      BY <1>5, <3>1 DEF Allocate
    <3>2. CASE t \notin asking' /\ newId' = [newId EXCEPT ![t] = Last(issued').id]
      <4>1. Last(issued').id \in Ids
        BY <1>1, <1>5, <3>2, FetchAddTypes DEF Allocate, TypeOK
      <4>2. Last(issued').id # 0
        BY <4>1, IdsAssumption DEF Ids
      <4> QED
        BY <1>1, <3>2, <4>2
    <3> QED
      BY <1>5, <3>1, <3>2 DEF Allocate
  <2> QED
    BY <1>2, <2>1, <2>2
<1>6. ASSUME NEW t \in Tasks, CallProxy(t)
      PROVE  Makers \subseteq Makers' /\ lost = {}
  <2>1. pc[t] = "ready" /\ UNCHANGED <<begun>>
    BY <1>6 DEF CallProxy, socketVars
  <2>2. CASE Return(t, 0)
    <3>1. total[t] = 0
      BY <1>1, <2>1 DEF TypeOK
    <3> QED
      BY <1>3, <2>1, <2>2, <3>1 DEF InProgress
  <2>3. CASE pc' = [pc EXCEPT ![t] = "locking"]
             /\ UNCHANGED <<call, newId, total, lost>>
    <3>1. Touches(t)
      BY <1>1, <2>3 DEF Touches
    <3> QED
      BY <1>2, <2>1, <2>3, <3>1
  <2> QED
    BY <1>6, <2>2, <2>3 DEF CallProxy
<1>7. ASSUME NEW t \in Tasks, WriteFails(t) \/ Cancel(t)
      PROVE  Makers \subseteq Makers' /\ lost = {}
  BY <1>3, <1>7 DEF WriteFails, Finish, Cancel, InProgress
<1>8. ASSUME NEW t \in Tasks, NEW k \in 1 .. Capacity, Write(t, k)
      PROVE  Makers \subseteq Makers' /\ lost = {}
  <2> DEFINE p == PacketOf(t)
  <2>1. pc[t] = "writing" /\ total[t] \in Nat /\ k \in Nat /\ k > 0
        /\ begun' = IF total[t] = 0 THEN Append(begun, p) ELSE begun
    <3>1. pc[t] = "writing"
          /\ begun' = IF total[t] = 0 THEN Append(begun, p) ELSE begun
      BY <1>8 DEF Write
    <3>2. total[t] \in Nat
      BY <1>1
    <3>3. k \in Nat /\ k > 0
      BY SendAssumption
    <3> QED
      BY <3>1, <3>2, <3>3
  <2>2. p \in SentPackets /\ p.newId = newId[t] /\ p.by = t
    <3>1. call[t] \in Calls /\ newId[t] \in Ids \cup {0}
      BY <1>1, <2>1 DEF TypeOK
    <3> QED
      BY <3>1, PacketSent, Zenon DEF PacketOf
  <2>3. begun' = begun \/ OneLonger(begun, begun', p)
    BY <1>1, <2>1, <2>2, AppendSent DEF OneLonger
  <2>4. CASE UNCHANGED <<pc, newId, lost>> /\ total' = [total EXCEPT ![t] = @ + k]
             /\ UNCHANGED call
    <3>1. Touches(t)
      BY <1>1, <2>4 DEF Touches
    <3> QED
      BY <1>2, <2>3, <2>4, <3>1
  <2>5. CASE Return(t, total[t] + k)
    <3>1. Touches(t)
      <4>1. total[t] + k \in Nat
        BY <2>1
      <4> QED
        BY <1>1, <2>5, <4>1, Returning
    <3>2. lost' = lost
      <4>1. total[t] + k # 0
        BY <2>1
      <4> QED
        BY <2>5, <4>1 DEF Return
    <3>3. newId[t] # 0 => \E i \in Introducing(begun') : begun'[i].by = t
      <4> SUFFICES ASSUME newId[t] # 0
                   PROVE  \E i \in Introducing(begun') : begun'[i].by = t
        OBVIOUS
      <4>1. begun'[Len(begun')] = p /\ Len(begun') \in 1 .. Len(begun')
        <5>1. CASE total[t] = 0
          <6>1. Len(begun') = Len(begun) + 1 /\ begun'[Len(begun) + 1] = p
            BY <1>1, <2>1, <2>2, <5>1, AppendSent
          <6>2. Len(begun) \in Nat
            BY <1>1
          <6> QED
            BY <6>1, <6>2
        <5>2. CASE total[t] # 0
          <6>1. begun' = begun /\ Len(begun) # 0 /\ begun[Len(begun)] = p
            BY <2>1, <5>2 DEF WireInv
          <6>2. Len(begun) \in Nat
            BY <1>1
          <6> QED
            BY <6>1, <6>2
        <5> QED
          BY <5>1, <5>2
      <4>2. begun'[Len(begun')].newId # 0
        BY <2>2, <4>1
      <4> QED
        BY <2>2, <4>1, <4>2 DEF Introducing
    <3>4. Asks(t) => newId[t] # 0
      BY <2>1
    <3>5. \A u \in Tasks \ {t} : Asks(u) => Asks(u)'
      BY <3>1 DEF Touches
    <3>6. ASSUME NEW i \in Introducing(begun)
          PROVE  i \in Introducing(begun') /\ begun'[i] = begun[i]
      BY <2>3, <3>6, IntroducingMore
    <3>7. Introducing(begun)' = Introducing(begun')
      BY DEF Introducing
    <3> QED
      BY <3>2, <3>3, <3>4, <3>5, <3>6, <3>7 DEF Makers
  <2> QED
    BY <1>8, <2>4, <2>5 DEF Write, Finish
<1>9. CASE Consume \/ HangUp \/ UNCHANGED vars
  <2>1. UNCHANGED <<begun, lost, newId, pc>>
    BY <1>9 DEF Consume, HangUp, vars, socketVars
  <2>2. Makers' = Makers
    BY <2>1 DEF Makers, Introducing
  <2> QED
    BY <2>1, <2>2
<1> QED
  BY <1>4, <1>5, <1>6, <1>7, <1>8, <1>9 DEF Next, Send

(* The id that the counter issues next is the one after the last. *)
LEMMA FollowsIsSuccessor ==
    ASSUME NEW n, n # 0, NEW id \in Ids, Follows(n, id)
    PROVE  n = Successor(id)
BY IdsAssumption DEF Follows, Successor, Ids

(* A packet appended to those begun. *)
LEMMA BegunMore ==
    ASSUME begun \in Seq(SentPackets), NEW p, begun' = Append(begun, p)
    PROVE  OneLonger(begun, begun', p)
<1>1. begun \in Seq(SentPackets \cup {p})
  OBVIOUS
<1> QED
  BY <1>1 DEF OneLonger

(* The order after each kind of step, from the order before it. *)
LEMMA OrderKeeps ==
    ASSUME Ordered(begun, nextObjectId, Pending, newId), Keeps,
           IdsTypeOK, Skips \/ Issue, \A t \in Pending : newId[t] \in Ids,
           begun \in Seq(SentPackets)
    PROVE  Ordered(begun', nextObjectId', Pending', newId')
<1>1. PICK id \in Ids : /\ Before(begun, Len(begun) + 1, id)
                        /\ Upcoming(nextObjectId, Pending, newId, id)
  BY DEF Ordered
<1>2. /\ Pending' = Pending /\ \A t \in Pending : newId'[t] = newId[t]
      /\ issued' = issued
  BY DEF Keeps, Same
<1>3. Pending = {} => Follows(nextObjectId', id)
  BY <1>1, <1>2, CounterStays DEF Upcoming
<1>4. ASSUME NEW t \in Pending
      PROVE  newId'[t] = Successor(id) /\ Follows(nextObjectId', newId'[t])
  <2>1. newId[t] = Successor(id) /\ Follows(nextObjectId, newId[t])
    BY <1>1 DEF Upcoming
  <2>2. newId[t] \in Ids
    OBVIOUS
  <2>3. Follows(nextObjectId', newId[t])
    BY <1>2, <2>1, <2>2, CounterStays
  <2> QED
    BY <1>2, <2>1, <2>3
<1>5. Upcoming(nextObjectId', Pending', newId', id)
  BY <1>2, <1>3, <1>4 DEF Upcoming
<1>6. Orderly(begun)
  BY DEF Ordered
<1>7. Orderly(begun') /\ Before(begun', Len(begun') + 1, id)
  <2>1. CASE begun' = begun
    BY <1>1, <1>6, <2>1
  <2>2. ASSUME NEW p, p.newId = 0, begun' = Append(begun, p)
        PROVE  Orderly(begun') /\ Before(begun', Len(begun') + 1, id)
    <3>1. OneLonger(begun, begun', p)
      BY <2>2, BegunMore
    <3>2. Orderly(begun')
      BY <1>6, <2>2, <3>1, OrderlyMore
    <3> QED
      BY <1>1, <2>2, <3>1, <3>2, BeforeNext
  <2> QED
    BY <2>1, <2>2 DEF Keeps
<1> QED
  BY <1>5, <1>7 DEF Ordered

(* The order after a step that takes an id. *)
LEMMA OrderTakes ==
    ASSUME Ordered(begun, nextObjectId, Pending, newId), NEW t, Takes(t),
           IdsTypeOK, Skips \/ Issue, Pending = {}
    PROVE  Ordered(begun', nextObjectId', Pending', newId')
<1>1. PICK id \in Ids : /\ Before(begun, Len(begun) + 1, id)
                        /\ Upcoming(nextObjectId, Pending, newId, id)
  BY DEF Ordered
<1>2. /\ newId'[t] = nextObjectId /\ nextObjectId # 0
      /\ Follows(nextObjectId', newId'[t])
  BY TakesFromCounter
<1>3. Pending' = {t} /\ begun' = begun
  BY DEF Takes
<1>4. Follows(nextObjectId, id)
  BY <1>1 DEF Upcoming
<1>5. newId'[t] = Successor(id)
  BY <1>2, <1>4, FollowsIsSuccessor
<1>6. Upcoming(nextObjectId', Pending', newId', id)
  BY <1>2, <1>3, <1>5 DEF Upcoming
<1> QED
  BY <1>1, <1>3, <1>6 DEF Ordered

(* The order after a step that begins the packet of an id. *)
LEMMA OrderIntroduces ==
    ASSUME Ordered(begun, nextObjectId, Pending, newId), NEW t, Introduces(t),
           IdsTypeOK, Skips \/ Issue, newId[t] \in Ids, Pending' = {},
           begun \in Seq(SentPackets)
    PROVE  Ordered(begun', nextObjectId', Pending', newId')
<1>1. PICK id \in Ids : /\ Before(begun, Len(begun) + 1, id)
                        /\ Upcoming(nextObjectId, Pending, newId, id)
  BY DEF Ordered
<1>2. PICK p : p.newId = newId[t] /\ begun' = Append(begun, p)
  BY DEF Introduces
<1>3. t \in Pending /\ issued' = issued
  BY DEF Introduces
<1>4. newId[t] = Successor(id) /\ Follows(nextObjectId, newId[t])
  BY <1>1, <1>3 DEF Upcoming
<1>5. Follows(nextObjectId', newId[t])
  BY <1>3, <1>4, CounterStays
<1>6. OneLonger(begun, begun', p)
  BY <1>2, BegunMore
<1>7. Orderly(begun)
  BY DEF Ordered
<1>8. Orderly(begun')
  BY <1>1, <1>2, <1>4, <1>6, <1>7, OrderlyMore
<1>9. p.newId # 0
  BY <1>2, IdsAssumption DEF Ids
<1>10. Before(begun', Len(begun') + 1, newId[t])
  BY <1>2, <1>6, <1>9, BeforeNext
<1>11. Upcoming(nextObjectId', Pending', newId', newId[t])
  BY <1>5 DEF Upcoming
<1> QED
  BY <1>8, <1>10, <1>11 DEF Ordered

(* Every step keeps the order of new ids. *)
LEMMA OrderInvKept ==
    ASSUME SendInv, SendInv', WireInv, WireInv', Blank, OrderInv,
           [IdsNext]_idVars, [Next]_vars
    PROVE  OrderInv'
<1> SUFFICES ASSUME OneMaker'
             PROVE  Ordered(begun', nextObjectId', Pending', newId')
  <2>1. OrderInv' = (OneMaker' => Ordered(begun', nextObjectId', Pending', newId'))
    BY DEF OrderInv, Ordered, Orderly, Before, Introducing, Upcoming, Follows,
           Successor
  <2> QED
    BY <2>1
<1>1. lost' = {} /\ \A t, u \in Makers' : t = u
  BY DEF OneMaker
<1>2. Makers \subseteq Makers' /\ lost = {}
  BY <1>1, MakersKept
<1>3. OneMaker
  BY <1>1, <1>2 DEF OneMaker
<1>4. Ordered(begun, nextObjectId, Pending, newId)
  BY <1>3 DEF OrderInv
<1>5. IdsTypeOK /\ (Skips \/ Issue)
  BY CounterSteps DEF SendInv, TypeOK
<1>6. begun \in Seq(SentPackets)
  BY DEF WireInv
<1>7. \A t \in Pending : newId[t] \in Ids /\ t \in Makers
  BY DEF SendInv, TypeOK, Pending, Makers
<1>8. \A t \in Pending' : t \in Makers'
  BY DEF Pending, Makers
<1>9. CASE Keeps
  BY <1>4, <1>5, <1>6, <1>7, <1>9, OrderKeeps
<1>10. ASSUME NEW t \in Tasks, Takes(t)
       PROVE  Ordered(begun', nextObjectId', Pending', newId')
  <2>1. t \in Makers' /\ t \notin Pending
    BY <1>8, <1>10 DEF Takes
  <2>2. Pending = {}
    BY <1>1, <1>2, <1>7, <2>1
  <2> QED
    BY <1>4, <1>5, <1>10, <2>2, OrderTakes
<1>11. ASSUME NEW t \in Tasks, Introduces(t)
       PROVE  Ordered(begun', nextObjectId', Pending', newId')
  <2>1. t \in Pending /\ Pending' = Pending \ {t}
    BY <1>11 DEF Introduces
  <2>2. Pending' = {}
    BY <1>1, <1>2, <1>7, <2>1
  <2> QED
    BY <1>4, <1>5, <1>6, <1>7, <1>11, <2>1, <2>2, OrderIntroduces
<1>12. ASSUME NEW t \in Tasks, Loses(t) PROVE FALSE
  BY <1>1, <1>12 DEF Loses
<1> QED
  BY <1>9, <1>10, <1>11, <1>12, IdSteps

LEMMA OrderInvInitially == Init => OrderInv
<1> SUFFICES ASSUME Init PROVE OrderInv
  OBVIOUS
<1>1. /\ begun = <<>> /\ nextObjectId = 2
      /\ \A t \in Tasks : newId[t] = 0
  BY DEF Init, IdsInit
<1>2. Introducing(begun) = {} /\ Len(begun) = 0
  BY <1>1 DEF Introducing
<1>3. Pending = {}
  BY <1>1 DEF Pending
<1>4. 1 \in Ids /\ Follows(2, 1)
  BY IdsAssumption DEF Ids, Follows
<1>5. Before(begun, Len(begun) + 1, 1) /\ Orderly(begun)
  BY <1>2 DEF Before, Orderly
<1>6. Upcoming(nextObjectId, Pending, newId, 1)
  BY <1>1, <1>3, <1>4 DEF Upcoming
<1> QED
  BY <1>4, <1>5, <1>6 DEF OrderInv, Ordered

(* The client of libwayland's map of objects: while one task makes all     *)
(* objects and no request of it fails, the ids reach the compositor        *)
(* without a gap and in the order of the counter, also across its wrap,    *)
(* where the 0 is left out; requests of other tasks may come in between.   *)
THEOREM IntroducedInOrderCorrect == Spec => []IntroducedInOrder
<1>1. SendInv /\ WireInv /\ OrderInv => IntroducedInOrder
  <2> SUFFICES ASSUME SendInv, WireInv, OrderInv
               PROVE  IntroducedInOrder
    OBVIOUS
  <2>1. begun \in Seq(SentPackets) /\ DOMAIN begun = 1 .. Len(begun)
    BY DEF WireInv
  <2>2. {i \in DOMAIN begun : begun[i].newId # 0} = Introducing(begun)
    BY <2>1 DEF Introducing
  <2>3. ASSUME OneMaker, NEW j \in Introducing(begun)
        PROVE  \/ /\ \A i \in Introducing(begun) : j <= i
                  /\ begun[j].newId = 2
               \/ \E i \in Introducing(begun) :
                     /\ i < j /\ \A h \in Introducing(begun) : h <= i \/ j <= h
                     /\ begun[j].newId = Successor(begun[i].newId)
    <3>1. PICK id \in Ids : Before(begun, j, id) /\ begun[j].newId = Successor(id)
      BY <2>3 DEF OrderInv, Ordered, Orderly
    <3>2. Successor(1) = 2
      BY IdsAssumption DEF Successor
    <3> QED
      BY <3>1, <3>2 DEF Before
  <2> QED
    BY <2>2, <2>3 DEF IntroducedInOrder, OneMaker, Makers, Successor
<1>2. Init => Blank
  BY AccountInitially
<1>3. SendInv /\ Blank /\ [Next]_vars => Blank'
  BY IdSteps
<1>4. SendInv /\ SendInv' /\ WireInv /\ WireInv' /\ Blank /\ OrderInv
         /\ [IdsNext]_idVars /\ [Next]_vars
      => OrderInv'
  BY OrderInvKept
<1> QED
  BY <1>1, <1>2, <1>3, <1>4, OrderInvInitially, SendInvAlways, WireInvAlways,
     SendTakesIds, PTL DEF Spec, IdsSpec

-----------------------------------------------------------------------------
(* A task that awaits send_lock has its request in the queue: what a call  *)
(* takes out when it ends or is dropped is its own.                        *)
Queued ==
    \A t \in Tasks : pc[t] = "locking" =>
       \E r \in Range(sendLock.waiting) : r.task = t

(* A step of t that takes no request but t's own out of the queue.         *)
LEMMA QueuedStill ==
    ASSUME Queued, NEW t \in Tasks, Touches(t),
           \A r \in Range(sendLock.waiting) :
              r.task # t => r \in Range(sendLock'.waiting),
           pc'[t] = "locking" => \E r \in Range(sendLock'.waiting) : r.task = t
    PROVE  Queued'
<1> SUFFICES ASSUME NEW u \in Tasks, pc'[u] = "locking"
             PROVE  \E r \in Range(sendLock'.waiting) : r.task = u
  BY DEF Queued
<1>1. CASE u = t
  BY <1>1
<1>2. CASE u # t
  <2>1. pc[u] = "locking"
    BY <1>2 DEF Touches
  <2>2. PICK r \in Range(sendLock.waiting) : r.task = u
    BY <2>1 DEF Queued
  <2> QED
    BY <1>2, <2>2
<1> QED
  BY <1>1, <1>2

(* A step of t in the middle of its request; what it does to the others is *)
(* known from SendInvKept.                                                 *)
LEMMA SendTouches ==
    ASSUME TypeOK, NEW t \in Tasks, Send(t) \/ Cancel(t)
    PROVE  Touches(t)
<1>1. /\ pc \in [Tasks -> Locations] /\ call \in [Tasks -> Calls \cup {None}]
      /\ newId \in [Tasks -> Ids \cup {0}] /\ total \in [Tasks -> Nat]
  BY DEF TypeOK
<1>2. CASE Allocate(t)
  BY <1>1, <1>2 DEF Allocate, Touches
<1>3. ASSUME NEW n, Return(t, n) PROVE Touches(t)
  BY <1>1, <1>3 DEF Return, Touches
<1>4. CASE CallProxy(t)
  BY <1>1, <1>3, <1>4 DEF CallProxy, Touches
<1>5. CASE Lock(t)
  BY <1>1, <1>5 DEF Lock, Touches
<1>6. ASSUME NEW k, Write(t, k) PROVE Touches(t)
  BY <1>1, <1>3, <1>6 DEF Write, Finish, Touches
<1>7. CASE WriteFails(t) \/ Cancel(t)
  BY <1>3, <1>7 DEF WriteFails, Finish, Cancel
<1> QED
  BY <1>2, <1>4, <1>5, <1>6, <1>7 DEF Send

LEMMA QueuedKept == SendInv /\ Queued /\ [Next]_vars => Queued'
<1> SUFFICES ASSUME SendInv, Queued, [Next]_vars PROVE Queued'
  OBVIOUS
<1>1. TypeOK /\ sendLock \in Locks /\ Distinct(sendLock)
  BY DEF SendInv, TypeOK, QueueOK
<1>2. ASSUME UNCHANGED <<pc, sendLock>> PROVE Queued'
  BY <1>2 DEF Queued
<1>3. ASSUME NEW t \in Tasks, NEW c \in Calls, Decide(t, c) PROVE Queued'
  <2>1. pc'[t] # "locking" /\ sendLock' = sendLock
        /\ \A u \in Tasks \ {t} : pc'[u] = pc[u]
    BY <1>1, <1>3 DEF Decide, TypeOK
  <2> QED
    BY <2>1 DEF Queued
<1>4. ASSUME NEW t \in Tasks, Touches(t), sendLock'.waiting = sendLock.waiting,
             pc'[t] # "locking"
      PROVE  Queued'
  BY <1>4, QueuedStill
<1>5. ASSUME NEW t \in Tasks, Send(t) PROVE Queued'
  <2>1. Touches(t)
    BY <1>1, <1>5, SendTouches
  <2>2. Release(sendLock, t).waiting = sendLock.waiting
    BY <1>1, ReleaseLock
  <2>3. CASE Allocate(t)
    <3>1. pc'[t] # "locking" /\ sendLock' = sendLock
      BY <1>1, <2>3 DEF Allocate, TypeOK
    <3> QED
      BY <1>4, <2>1, <3>1
  <2>4. ASSUME NEW n, Return(t, n) PROVE pc'[t] # "locking"
    BY <1>1, <2>4 DEF Return, TypeOK
  <2>5. CASE CallProxy(t)
    <3>1. CASE Return(t, 0) /\ UNCHANGED sendLock
      BY <1>4, <2>1, <2>4, <3>1
    <3>2. CASE sendLock' = Request(sendLock, t, "write")
      <4>1. Range(sendLock'.waiting)
              = Range(sendLock.waiting) \cup {[task |-> t, mode |-> "write"]}
        BY <1>1, <3>2, RequestLock DEF Modes
      <4>2. \E r \in Range(sendLock'.waiting) : r.task = t
        <5>1. [task |-> t, mode |-> "write"] \in Range(sendLock'.waiting)
          BY <4>1
        <5>2. [task |-> t, mode |-> "write"].task = t
          OBVIOUS
        <5> QED
          BY Zenon, <5>1, <5>2
      <4>3. \A r \in Range(sendLock.waiting) :
               r.task # t => r \in Range(sendLock'.waiting)
        BY <4>1
      <4> QED
        BY Zenon, <2>1, <4>2, <4>3, QueuedStill
    <3> QED
      BY <2>5, <3>1, <3>2 DEF CallProxy
  <2>6. CASE Lock(t)
    <3>1. /\ pc'[t] # "locking" /\ Grantable(sendLock, t)
          /\ sendLock' = Grant(sendLock)
      BY <1>1, <2>6 DEF Lock, TypeOK
    <3>2. Range(sendLock'.waiting) = {q \in Range(sendLock.waiting) : q.task # t}
      BY <1>1, <3>1, GrantLock
    <3> QED
      BY <2>1, <3>1, <3>2, QueuedStill
  <2>7. ASSUME NEW k, Write(t, k) PROVE Queued'
    <3>1. CASE UNCHANGED <<pc, sendLock>>
      BY <1>2, <3>1
    <3>2. CASE Finish(t, total[t] + k)
      BY <1>4, <2>1, <2>2, <2>4, <3>2 DEF Finish
    <3> QED
      BY <2>7, <3>1, <3>2 DEF Write
  <2>8. CASE WriteFails(t)
    BY <1>4, <2>1, <2>2, <2>4, <2>8 DEF WriteFails, Finish
  <2> QED
    BY <1>5, <2>3, <2>5, <2>6, <2>7, <2>8 DEF Send
<1>6. ASSUME NEW t \in Tasks, Cancel(t) PROVE Queued'
  <2>1. Touches(t)
    BY <1>1, <1>6, SendTouches
  <2>2. pc'[t] # "locking" /\ sendLock' = Release(Withdraw(sendLock, t), t)
    BY <1>1, <1>6 DEF Cancel, Return, TypeOK
  <2>3. Range(sendLock'.waiting) = {q \in Range(sendLock.waiting) : q.task # t}
    BY <1>1, <2>2, WithdrawLock, ReleaseLock
  <2> QED
    BY <2>1, <2>2, <2>3, QueuedStill
<1>7. CASE (\E t \in Tasks : TakeHandle(t) \/ DropHandle(t)) \/ Consume \/ HangUp
  BY <1>2, <1>7 DEF TakeHandle, DropHandle, Consume, HangUp
<1>8. CASE UNCHANGED vars
  BY <1>2, <1>8 DEF vars
<1> QED
  BY <1>3, <1>5, <1>6, <1>7, <1>8 DEF Next

(* However many tasks send, and whether their calls end well, fail or are  *)
(* dropped while they wait or write: nobody waits for a send_lock that     *)
(* nobody has and nobody will take.                                        *)
THEOREM SendNeverStuck == Spec => []NeverStuck
<1>1. Init => Queued
  BY DEF Init, Queued
<1>2. ASSUME SendInv, Queued PROVE NeverStuck
  <2> SUFFICES ASSUME NEW t \in Tasks, pc[t] = "locking",
                      \A u \in Tasks : pc[u] # "writing"
               PROVE  \E u \in Tasks : pc[u] = "locking" /\ Grantable(sendLock, u)
    BY DEF NeverStuck
  <2>1. /\ sendLock \in Locks /\ sendLock.readers = {}
        /\ \A r \in Range(sendLock.waiting) : r.mode = "write" /\ pc[r.task] = "locking"
        /\ \A u \in Tasks : pc[u] = "writing" <=> sendLock.writer = u
    BY <1>2 DEF SendInv, TypeOK, QueueOK
  <2>2. sendLock.waiting \in Seq(Requests) /\ sendLock.writer = None
    BY <2>1, LockFields
  <2>3. sendLock.waiting # <<>>
    BY <1>2 DEF Queued, Range
  <2>4. Head(sendLock.waiting) \in Requests
        /\ Head(sendLock.waiting) \in Range(sendLock.waiting)
    BY <2>2, <2>3 DEF Range
  <2>5. Head(sendLock.waiting).task \in Tasks
    BY <2>4 DEF Requests
  <2> QED
    BY <2>1, <2>2, <2>3, <2>4, <2>5 DEF Grantable
<1> QED
  BY <1>1, <1>2, QueuedKept, SendInvAlways, PTL DEF Spec

-----------------------------------------------------------------------------
(* A new id takes one word, whichever it is.                               *)
LEMMA SerializedWords ==
    ASSUME NEW p, p.payload \in Seq(Nat)
    PROVE  Len(Serialize(p)) = 2 + Len(p.payload)
<1> DEFINE a == p.id
           b == SizeAndOpcode(Size(p), p.opcode)
           rest == p.payload
<1>1. Serialize(p) = <<a, b>> \o rest
  BY DEF Serialize
<1> HIDE DEF a, b, rest
<1>2. rest \in Seq(Nat)
  BY DEF rest
<1>3. rest \in Seq(Nat \cup {a, b}) /\ <<a, b>> \in Seq(Nat \cup {a, b})
  BY <1>2
<1>4. Len(<<a, b>> \o rest) = 2 + Len(rest)
  BY <1>3
<1> QED
  BY <1>1, <1>4 DEF rest

LEMMA PacketWords ==
    ASSUME NEW t \in Tasks, call[t] \in Calls, newId[t] \in Ids \cup {0}
    PROVE  Len(PacketOf(t).words)
             = 2 + Len(call[t].args) + (IF call[t].new THEN 1 ELSE 0)
<1> DEFINE args == call[t].args
           new == call[t].new
           id == IF new THEN <<newId[t]>> ELSE <<>>
           p == [id |-> call[t].object, opcode |-> call[t].opcode,
                 payload |-> args \o id]
<1>1. args \in Seq(Nat) /\ Len(args) \in Nat
  BY CallFields
<1>2. id \in Seq(Nat) /\ Len(id) = IF new THEN 1 ELSE 0
  <2>1. newId[t] \in Nat
    BY IdsAssumption DEF Ids
  <2> QED
    BY <2>1
<1>3. PacketOf(t).words = Serialize(p)
  BY Zenon DEF PacketOf, args, id
<1>4. p.payload = args \o id
  OBVIOUS
<1> HIDE DEF args, id, new, p
<1>5. p.payload \in Seq(Nat) /\ Len(p.payload) = Len(args) + Len(id)
  <2>1. id \in Seq(Nat)
    BY <1>2
  <2>2. args \o id \in Seq(Nat) /\ Len(args \o id) = Len(args) + Len(id)
    BY <1>1, <2>1
  <2> QED
    BY Zenon, <1>4, <2>2
<1>6. Len(PacketOf(t).words) = 2 + Len(p.payload)
  BY <1>3, <1>5, SerializedWords
<1>7. Len(PacketOf(t).words) = 2 + Len(args) + (IF new THEN 1 ELSE 0)
  BY <1>1, <1>2, <1>5, <1>6
<1> QED
  BY <1>7 DEF args, new

(* What is left of a request in progress.                                  *)
Length(t) == Len(PacketOf(t).words)

LeftIs(t) ==
    /\ Left(t) \in Nat
    /\ pc[t] = "idle" => Left(t) = 0
    /\ pc[t] # "idle" =>
          /\ Length(t) = 2 + Len(call[t].args) + (IF call[t].new THEN 1 ELSE 0)
          /\ Length(t) \in Nat \ {0}
          /\ pc[t] = "writing" => total[t] \in 0 .. Length(t) - 1
    /\ pc[t] = "writing" => Left(t) = Length(t) - total[t]
    /\ pc[t] = "locking" => Left(t) = Length(t) + 1
    /\ pc[t] = "ready"   => Left(t) = Length(t) + 2
    /\ pc[t] = "asking"  => Left(t) = Length(t) + 3

AllLeft == \A t \in Tasks : LeftIs(t)

LEMMA LeftOfAll == TypeOK => AllLeft
<1> SUFFICES ASSUME TypeOK, NEW t \in Tasks PROVE LeftIs(t)
  BY DEF AllLeft
<1>1. /\ pc[t] \in Locations /\ total[t] \in Nat
      /\ pc[t] = "idle" <=> call[t] = None
      /\ call[t] \in Calls \cup {None} /\ newId[t] \in Ids \cup {0}
      /\ pc[t] = "writing" => total[t] < Length(t)
  BY DEF TypeOK, Length
<1>2. CASE pc[t] = "idle"
  BY <1>2 DEF Left, LeftIs
<1>3. CASE pc[t] # "idle"
  <2>1. Length(t) \in Nat \ {0}
    BY <1>1, <1>3, PacketLength DEF Length
  <2>2. Length(t) = 2 + Len(call[t].args) + (IF call[t].new THEN 1 ELSE 0)
    BY <1>1, <1>3, PacketWords DEF Length
  <2>3. Left(t) = CASE pc[t] = "idle"    -> 0
                    [] pc[t] = "writing" -> Length(t) - total[t]
                    [] pc[t] = "locking" -> Length(t) + 1
                    [] pc[t] = "ready"   -> Length(t) + 2
                    [] pc[t] = "asking"  -> Length(t) + 3
    BY Zenon DEF Left, Length
  <2>4. /\ pc[t] = "writing" => Left(t) = Length(t) - total[t]
        /\ pc[t] = "locking" => Left(t) = Length(t) + 1
        /\ pc[t] = "ready"   => Left(t) = Length(t) + 2
        /\ pc[t] = "asking"  => Left(t) = Length(t) + 3
    BY <2>3
  <2>5. pc[t] = "writing" => total[t] \in 0 .. Length(t) - 1
    BY <1>1, <2>1
  <2>6. Left(t) \in Nat
    BY <1>1, <1>3, <2>1, <2>4, <2>5 DEF Locations
  <2>7. pc[t] # "idle" =>
           /\ Length(t) = 2 + Len(call[t].args) + (IF call[t].new THEN 1 ELSE 0)
           /\ Length(t) \in Nat \ {0}
           /\ pc[t] = "writing" => total[t] \in 0 .. Length(t) - 1
    BY Zenon, <2>1, <2>2, <2>5
  <2> QED
    BY Zenon, <1>3, <2>4, <2>6, <2>7 DEF LeftIs
<1> QED
  BY <1>2, <1>3

LEMMA LeftOfAllNext == TypeOK' => AllLeft'
BY LeftOfAll, PTL

(* A step of t's request, but for fetch_add at 0, leaves less of it.       *)
LEMMA SendLess ==
    ASSUME TypeOK, AllLeft, AllLeft', NEW t \in Tasks, Send(t)
    PROVE  Left(t)' <= Left(t) /\ (Left(t)' < Left(t) \/ nextObjectId = 0)
<1>1. LeftIs(t) /\ LeftIs(t)'
  BY DEF AllLeft
<1>2. /\ pc \in [Tasks -> Locations] /\ total \in [Tasks -> Nat]
  BY DEF TypeOK
<1>3. /\ Left(t) \in Nat /\ Left(t)' \in Nat /\ (pc'[t] = "idle" => Left(t)' = 0)
  BY <1>1 DEF LeftIs
<1>4. ASSUME pc[t] # "idle", pc'[t] = "idle" PROVE Left(t)' < Left(t)
  <2>1. pc[t] \in {"asking", "ready", "locking", "writing"}
    BY <1>2, <1>4 DEF Locations
  <2>2. /\ Length(t) \in Nat \ {0}
        /\ pc[t] = "writing" => total[t] \in 0 .. Length(t) - 1
    BY Zenon, <1>1, <1>4 DEF LeftIs
  <2>3. /\ pc[t] = "writing" => Left(t) = Length(t) - total[t]
        /\ pc[t] = "locking" => Left(t) = Length(t) + 1
        /\ pc[t] = "ready"   => Left(t) = Length(t) + 2
        /\ pc[t] = "asking"  => Left(t) = Length(t) + 3
    BY Zenon, <1>1 DEF LeftIs
  <2>4. Left(t) > 0
    BY <2>1, <2>2, <2>3
  <2> QED
    BY <1>3, <1>4, <2>4
<1>5. ASSUME NEW n, pc[t] # "idle", Return(t, n) PROVE Left(t)' < Left(t)
  BY <1>2, <1>4, <1>5 DEF Return
<1>6. ASSUME pc[t] # "idle", pc'[t] # "idle", call'[t] = call[t]
      PROVE  Length(t)' = Length(t) /\ Length(t) \in Nat
  BY <1>1, <1>6 DEF LeftIs
<1>7. CASE Allocate(t)
  <2>1. pc[t] = "asking" /\ call'[t] = call[t]
    BY <1>7 DEF Allocate
  <2>2. CASE UNCHANGED pc /\ t \in asking'
    <3>1. pc'[t] = "asking"
      BY <2>1, <2>2
    <3>2. nextObjectId = 0
      BY <1>7, <2>2 DEF Allocate, FetchAdd
    <3>3. Left(t)' = Left(t)
      BY <1>1, <1>6, <2>1, <3>1 DEF LeftIs
    <3> QED
      BY <1>3, <3>2, <3>3
  <2>3. CASE pc' = [pc EXCEPT ![t] = "ready"]
    <3>1. pc'[t] = "ready"
      BY <1>2, <2>3
    <3>2. Left(t) = Length(t) + 3 /\ Left(t)' = Length(t)' + 2
      BY <1>1, <2>1, <3>1 DEF LeftIs
    <3>3. Length(t)' = Length(t) /\ Length(t) \in Nat
      BY <1>6, <2>1, <3>1
    <3> QED
      BY <3>2, <3>3
  <2> QED
    BY <1>7, <2>2, <2>3 DEF Allocate
<1>8. CASE CallProxy(t)
  <2>1. pc[t] = "ready"
    BY <1>8 DEF CallProxy
  <2>2. CASE Return(t, 0)
    BY <1>3, <1>5, <2>1, <2>2
  <2>3. CASE pc' = [pc EXCEPT ![t] = "locking"] /\ call' = call
    <3>1. pc'[t] = "locking"
      BY <1>2, <2>3
    <3>2. Left(t) = Length(t) + 2 /\ Left(t)' = Length(t)' + 1
      BY <1>1, <2>1, <3>1 DEF LeftIs
    <3>3. Length(t)' = Length(t) /\ Length(t) \in Nat
      BY <1>6, <2>1, <2>3, <3>1
    <3> QED
      BY <3>2, <3>3
  <2> QED
    BY <1>8, <2>2, <2>3 DEF CallProxy
<1>9. CASE Lock(t)
  <2>1. pc[t] = "locking" /\ pc'[t] = "writing" /\ call'[t] = call[t]
    BY <1>2, <1>9 DEF Lock
  <2>2. Left(t) = Length(t) + 1 /\ Left(t)' = Length(t)' - total'[t]
        /\ total'[t] \in 0 .. Length(t)' - 1
    BY <1>1, <2>1 DEF LeftIs
  <2>3. Length(t)' = Length(t) /\ Length(t) \in Nat
    BY <1>6, <2>1
  <2> QED
    BY <2>2, <2>3
<1>10. ASSUME NEW k \in 1 .. Capacity, Write(t, k) PROVE Left(t)' < Left(t)
  <2>1. pc[t] = "writing"
    BY <1>10 DEF Write
  <2>2. CASE Finish(t, total[t] + k)
    BY <1>5, <2>1, <2>2 DEF Finish
  <2>3. CASE total' = [total EXCEPT ![t] = @ + k] /\ UNCHANGED <<pc, call>>
    <3>1. pc'[t] = "writing" /\ total'[t] = total[t] + k /\ call'[t] = call[t]
      BY <1>2, <2>1, <2>3
    <3>2. Left(t) = Length(t) - total[t] /\ Left(t)' = Length(t)' - total'[t]
      BY <1>1, <2>1, <3>1 DEF LeftIs
    <3>3. Length(t)' = Length(t) /\ Length(t) \in Nat
      BY <1>6, <2>1, <3>1
    <3>4. total[t] \in Nat /\ k \in Nat \ {0}
      BY <1>2, SendAssumption
    <3> QED
      BY <3>1, <3>2, <3>3, <3>4
  <2> QED
    BY <1>10, <2>2, <2>3 DEF Write
<1>11. CASE WriteFails(t)
  <2>1. pc[t] = "writing" /\ Return(t, total[t])
    BY <1>11 DEF WriteFails, Finish
  <2> QED
    BY <1>3, <1>5, <2>1
<1> QED
  BY <1>3, <1>7, <1>8, <1>9, <1>10, <1>11 DEF Send

(* Steps of others, and of the compositor, leave as much of it.            *)
LEMMA LeftSame ==
    ASSUME NEW t \in Tasks, pc'[t] = pc[t], call'[t] = call[t],
           newId'[t] = newId[t], total'[t] = total[t]
    PROVE  Left(t)' = Left(t)
<1>1. PacketOf(t)' = PacketOf(t)
  BY Zenon DEF PacketOf
<1> QED
  BY <1>1, Zenon DEF Left

LEMMA NoneLonger ==
    ASSUME TypeOK, AllLeft, AllLeft', [Next]_vars,
           NEW t \in Tasks, pc[t] # "idle"
    PROVE  Left(t)' <= Left(t)
<1>1. /\ Left(t) \in Nat /\ Left(t)' \in Nat /\ (pc'[t] = "idle" => Left(t)' = 0)
  BY DEF AllLeft, LeftIs
<1>2. ASSUME UNCHANGED <<pc, call, newId, total>> PROVE Left(t)' <= Left(t)
  BY <1>1, <1>2, LeftSame
<1>3. ASSUME NEW u \in Tasks, Send(u) \/ Cancel(u) PROVE Left(t)' <= Left(t)
  <2>1. CASE u # t
    BY <1>1, <1>3, <2>1, SendTouches, LeftSame DEF Touches
  <2>2. CASE u = t /\ Send(t)
    BY <2>2, SendLess
  <2>3. CASE u = t /\ Cancel(t)
    <3>1. pc'[t] = "idle"
      BY <2>3 DEF Cancel, Return, TypeOK
    <3> QED
      BY <1>1, <3>1
  <2> QED
    BY <1>3, <2>1, <2>2, <2>3
<1>4. ASSUME NEW u \in Tasks, NEW c \in Calls, Decide(u, c)
      PROVE  Left(t)' <= Left(t)
  <2>1. u # t
    BY <1>4 DEF Decide
  <2>2. pc'[t] = pc[t] /\ call'[t] = call[t] /\ UNCHANGED <<newId, total>>
    BY <1>4, <2>1 DEF Decide, TypeOK
  <2> QED
    BY <1>1, <2>2, LeftSame
<1>5. CASE (\E u \in Tasks : TakeHandle(u) \/ DropHandle(u)) \/ Consume \/ HangUp
  BY <1>2, <1>5 DEF TakeHandle, DropHandle, Consume, HangUp
<1>6. CASE UNCHANGED vars
  BY <1>2, <1>6 DEF vars
<1> QED
  BY <1>3, <1>4, <1>5, <1>6 DEF Next

(* The variant of a request, for any tasks, requests and capacity: each    *)
(* step it takes itself but one that skips the id 0 makes what is left     *)
(* less, and no step of anything makes it more.  With SendNeverStuck this  *)
(* is what RequestsEnd has besides fairness.                               *)
THEOREM RequestAdvancesCorrect == Spec => RequestAdvances
<1>1. SendInv /\ SendInv' /\ [Next]_vars
        => [\A t \in Tasks : pc[t] # "idle" =>
              /\ Left(t)' <= Left(t)
              /\ Send(t) => Left(t)' < Left(t) \/ nextObjectId = 0]_vars
  <2> SUFFICES ASSUME SendInv, SendInv', [Next]_vars,
                      NEW t \in Tasks, pc[t] # "idle"
               PROVE  /\ Left(t)' <= Left(t)
                      /\ Send(t) => Left(t)' < Left(t) \/ nextObjectId = 0
    OBVIOUS
  <2>1. TypeOK /\ AllLeft /\ AllLeft'
    BY LeftOfAll, LeftOfAllNext DEF SendInv
  <2> QED
    BY <2>1, NoneLonger, SendLess
<1> QED
  BY <1>1, SendInvAlways, PTL DEF Spec, RequestAdvances

=============================================================================
