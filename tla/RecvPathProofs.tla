--------------------------- MODULE RecvPathProofs ---------------------------
(***************************************************************************)
(* Proofs about RecvPath: its types (RecvTypeCorrect); that packets are    *)
(* returned whole and in order (InOrderCorrect), with their file           *)
(* descriptors, none lost or doubled (FdsNotLateCorrect,                   *)
(* FdsConservedCorrect); that it implements PacketReceiver; and that no    *)
(* call waits for nobody (RecvNeverStuck) or goes round for nothing        *)
(* (CallAdvancesCorrect).                                                  *)
(***************************************************************************)
EXTENDS RecvPath, TokioLockProofs, WellFoundedInduction, Integers

Segments == [words : Seq(Nat), fds : Seq(Nat)]

(* Part of a sequence. *)
LEMMA SliceOfSeq ==
    ASSUME NEW S, NEW s \in Seq(S), NEW a \in Nat \ {0}, NEW b \in Nat,
           b <= Len(s)
    PROVE  /\ SubSeq(s, a, b) \in Seq(S)
           /\ Len(SubSeq(s, a, b)) = IF a <= b THEN b - a + 1 ELSE 0
<1>1. \A i \in a .. b : s[i] \in S
  BY ElementOfSeq
<1> QED
  BY <1>1, SubSeqProperties

(* What a read takes from the socket. *)
LEMMA ReceiveTypes ==
    ASSUME NEW queue \in Seq(Segments), queue # <<>>, NEW n \in Nat
    PROVE  /\ Receive(queue, n).words \in Seq(Nat)
           /\ Len(Receive(queue, n).words) <= n
           /\ Receive(queue, n).fds \in Seq(Nat)
           /\ Receive(queue, n).queue \in Seq(Segments)
<1> DEFINE first == Head(queue)
           ws == first.words
           size == Len(ws)
           k == IF n < size THEN n ELSE size
           taken == SubSeq(ws, 1, k)
           left == SubSeq(ws, k + 1, size)
           remainder == Segment(left, <<>>)
           after == IF k = size THEN Tail(queue)
                                ELSE <<remainder>> \o Tail(queue)
<1>1. first \in Segments /\ Tail(queue) \in Seq(Segments)
  BY HeadTailProperties
<1>2. ws \in Seq(Nat) /\ first.fds \in Seq(Nat)
  BY <1>1 DEF Segments
<1>3. Receive(queue, n) = [words |-> taken, fds |-> first.fds, queue |-> after]
  BY Zenon DEF Receive
<1> HIDE DEF first
<1>4. size \in Nat /\ k \in Nat /\ k <= size /\ k <= n
  BY <1>2
<1> HIDE DEF ws, k, size
<1>5. /\ taken \in Seq(Nat) /\ Len(taken) <= n /\ left \in Seq(Nat)
  <2>1. size = Len(ws)
    BY DEF size
  <2> QED
    BY <1>2, <1>4, <2>1, SliceOfSeq
<1> HIDE DEF taken, left
<1>6. remainder \in Segments
  BY <1>5 DEF Segment, Segments
<1> HIDE DEF remainder
<1>7. after \in Seq(Segments)
  <2>1. <<remainder>> \in Seq(Segments)
    BY <1>6
  <2> QED
    BY <1>1, <2>1
<1> HIDE DEF after
<1> QED
  BY <1>2, <1>3, <1>5, <1>7

(* The payload that a header announces. *)
LEMMA AnnouncedWords ==
    ASSUME NEW ws \in Seq(Nat), Len(ws) >= HeaderWords, ~ Malformed(ws)
    PROVE  PayloadWords(ws[2]) \in Nat
<1>1. ws[2] \in Nat
  BY ElementOfSeq DEF HeaderWords
<1>2. SizeField(ws[2]) \in Nat /\ SizeField(ws[2]) >= 8
  BY <1>1 DEF Malformed, SizeField, HeaderBytes
<1> QED
  BY <1>2 DEF PayloadWords, HeaderBytes, WordBytes

(* The part of TypeOK about one task. *)
TaskOK(t) ==
    /\ pc[t] \in {"header", "payload"} <=> recvLock.writer = t
    /\ pc[t] \in {"idle", "locking"} => words[t] = <<>> /\ held[t] = <<>>
    /\ pc[t] = "header" => Len(words[t]) < HeaderWords
    /\ pc[t] = "payload" => /\ Len(words[t]) >= HeaderWords
                            /\ ~ Malformed(words[t])
                            /\ Missing(t) > 0 \/ Len(words[t]) = HeaderWords

LocalTypes ==
    /\ pc \in [Tasks -> Locations]
    /\ words \in [Tasks -> Seq(Nat)] /\ held \in [Tasks -> Seq(Nat)]

StreamTypes ==
    /\ buffer \in Seq(Nat) /\ bufferFds \in Seq(Nat) /\ sent \in Seq(Events)
    /\ made \in Nat
    /\ socket \in Seq(Segments)
    /\ hangup \in {"open", "reset", "eof"}

HistoryTypes == leaked \subseteq Nat /\ derailed \in BOOLEAN

LEMMA TypeParts ==
    TypeOK <=> /\ StreamTypes /\ LocalTypes /\ HistoryTypes
               /\ recvLock \in Locks /\ \A t \in Tasks : TaskOK(t)
BY DEF TypeOK, StreamTypes, LocalTypes, HistoryTypes, TaskOK, Segments

(* Besides the types: requests for recv_lock are for writing, and are of   *)
(* the tasks that await it, each one once.                                 *)
QueueOK ==
    /\ Distinct(recvLock)
    /\ recvLock.readers = {}
    /\ \A r \in Range(recvLock.waiting) :
          r.mode = "write" /\ pc[r.task] = "locking"

RecvInv == TypeOK /\ QueueOK

(* Changing the variables of t changes those of t alone. *)
Touches(t) ==
    \A u \in Tasks \ {t} :
       pc'[u] = pc[u] /\ words'[u] = words[u] /\ held'[u] = held[u]

LEMMA StepOf ==
    ASSUME TypeOK, NEW t \in Tasks, Touches(t),
           StreamTypes', LocalTypes', HistoryTypes', recvLock' \in Locks,
           TaskOK(t)',
           \A u \in Tasks \ {t} : recvLock'.writer = u <=> recvLock.writer = u
    PROVE  TypeOK'
<1>1. \A u \in Tasks : TaskOK(u)'
  <2> TAKE u \in Tasks
  <2>1. CASE u = t
    BY <2>1
  <2>2. CASE u # t
    <3>1. TaskOK(u)
      BY TypeParts
    <3>2. /\ pc'[u] = pc[u] /\ words'[u] = words[u] /\ held'[u] = held[u]
          /\ recvLock'.writer = u <=> recvLock.writer = u
      BY <2>2 DEF Touches
    <3>3. Missing(u)' = Missing(u)
      BY <3>2 DEF Missing
    <3> HIDE DEF Missing
    <3> QED
      BY <3>1, <3>2, <3>3 DEF TaskOK
  <2> QED
    BY <2>1, <2>2
<1> QED
  BY <1>1 DEF TypeOK, StreamTypes, LocalTypes, HistoryTypes, TaskOK, Segments

(* A task that does not await the lock has no request for it. *)
LEMMA NotQueued ==
    ASSUME RecvInv, NEW t \in Tasks, pc[t] # "locking"
    PROVE  \A r \in Range(recvLock.waiting) :
              r \in Range(recvLock.waiting) /\ r.task # t
BY DEF RecvInv, QueueOK

(* A step of t by which no request but t's own leaves the queue. *)
LEMMA QueueLess ==
    ASSUME RecvInv, NEW t \in Tasks, Touches(t), Distinct(recvLock'),
           recvLock'.readers = {},
           \A r \in Range(recvLock'.waiting) :
              r \in Range(recvLock.waiting) /\ r.task # t
    PROVE  QueueOK'
<1>1. recvLock \in Locks
  BY DEF RecvInv, TypeOK
<1>2. Range(recvLock.waiting) \subseteq Requests
  BY <1>1, LockFields
<1>3. ASSUME NEW r \in Range(recvLock'.waiting)
      PROVE  r.mode = "write" /\ pc'[r.task] = "locking"
  <2>1. /\ r \in Range(recvLock.waiting) /\ r.task # t
        /\ r.mode = "write" /\ pc[r.task] = "locking"
    BY <1>3 DEF RecvInv, QueueOK
  <2>2. r.task \in Tasks
    BY <1>2, <2>1 DEF Requests
  <2> QED
    BY <2>1, <2>2 DEF Touches
<1> QED
  BY <1>3 DEF QueueOK

(* A call goes on with the lock as it is. *)
LEMMA Continuing ==
    ASSUME RecvInv, NEW t \in Tasks, pc[t] \in {"header", "payload"},
           Touches(t), StreamTypes', LocalTypes', HistoryTypes',
           UNCHANGED recvLock, TaskOK(t)'
    PROVE  RecvInv'
<1>1. TypeOK /\ recvLock \in Locks
  BY DEF RecvInv, TypeOK
<1>2. TypeOK'
  BY <1>1, StepOf
<1>3. QueueOK'
  BY NotQueued, QueueLess DEF RecvInv, QueueOK
<1> QED
  BY <1>2, <1>3 DEF RecvInv

(* A call ends: its guard is dropped if it had one, its place in the queue *)
(* if it had one, and its buffers.                                         *)
LEMMA Ending ==
    ASSUME RecvInv, NEW t \in Tasks,
           \/ pc[t] # "locking" /\ recvLock' = Release(recvLock, t)
           \/ recvLock' = Release(Withdraw(recvLock, t), t),
           pc' = [pc EXCEPT ![t] = "idle"],
           words' = [words EXCEPT ![t] = <<>>],
           held' = [held EXCEPT ![t] = <<>>],
           StreamTypes', HistoryTypes'
    PROVE  RecvInv'
<1>1. /\ TypeOK /\ recvLock.readers = {} /\ Distinct(recvLock)
      /\ recvLock \in Locks
  BY DEF RecvInv, QueueOK, TypeOK
<1>2. /\ recvLock' \in Locks /\ Distinct(recvLock') /\ recvLock'.readers = {}
      /\ recvLock'.writer = IF recvLock.writer = t THEN None
                                                   ELSE recvLock.writer
      /\ \A r \in Range(recvLock'.waiting) :
            r \in Range(recvLock.waiting) /\ r.task # t
  <2>1. CASE pc[t] # "locking" /\ recvLock' = Release(recvLock, t)
    BY <1>1, <2>1, ReleaseLock, NotQueued
  <2>2. CASE recvLock' = Release(Withdraw(recvLock, t), t)
    <3> DEFINE left == Withdraw(recvLock, t)
    <3>1. /\ left \in Locks /\ left.writer = recvLock.writer
          /\ left.readers = {} /\ Distinct(left)
          /\ Range(left.waiting) = {r \in Range(recvLock.waiting) : r.task # t}
      BY <1>1, WithdrawLock
    <3>2. recvLock' = Release(left, t)
      BY <2>2
    <3> HIDE DEF left
    <3> QED
      BY <3>1, <3>2, ReleaseLock
  <2> QED
    BY <2>1, <2>2
<1>3. /\ Touches(t) /\ LocalTypes'
      /\ pc'[t] = "idle" /\ words'[t] = <<>> /\ held'[t] = <<>>
  <2>1. LocalTypes
    BY <1>1, TypeParts
  <2> QED
    BY <2>1 DEF LocalTypes, Touches, Locations
<1>4. recvLock'.writer # t
  BY <1>2, NoneAssumption
<1>5. TaskOK(t)'
  BY <1>3, <1>4 DEF TaskOK
<1>6. \A u \in Tasks \ {t} : recvLock'.writer = u <=> recvLock.writer = u
  BY <1>2, NoneAssumption
<1>7. TypeOK'
  BY <1>1, <1>2, <1>3, <1>5, <1>6, StepOf
<1>8. QueueOK'
  BY <1>2, <1>3, QueueLess
<1> QED
  BY <1>7, <1>8 DEF RecvInv

-----------------------------------------------------------------------------
(* The steps, one by one. *)

(* The compositor writes, flushes, hangs up; nothing happens. *)
LEMMA StreamStep ==
    ASSUME RecvInv, StreamTypes',
           UNCHANGED <<recvLock, pc, words, held, leaked, derailed>>
    PROVE  RecvInv'
<1>1. LocalTypes' /\ HistoryTypes' /\ recvLock' \in Locks
  BY DEF RecvInv, TypeOK, LocalTypes, HistoryTypes
<1>2. ASSUME NEW t \in Tasks PROVE TaskOK(t)'
  <2>1. TaskOK(t) /\ Missing(t)' = Missing(t)
    BY TypeParts DEF RecvInv, Missing
  <2> HIDE DEF Missing
  <2> QED
    BY <2>1 DEF TaskOK
<1>3. TypeOK'
  BY <1>1, <1>2 DEF TypeOK, StreamTypes, LocalTypes, HistoryTypes, TaskOK,
                    Segments
<1>4. QueueOK'
  BY DEF RecvInv, QueueOK, Distinct
<1> QED
  BY <1>3, <1>4 DEF RecvInv

LEMMA OpcodesAreNumbers == Opcodes \subseteq Nat
BY SMT DEF Opcodes

LEMMA EventFields ==
    ASSUME NEW e \in Events
    PROVE  /\ e.id \in Nat /\ e.size \in Nat /\ e.opcode \in Nat
           /\ e.payload \in Seq(Nat) /\ e.fds \in Nat
BY RecvAssumption, OpcodesAreNumbers

LEMMA CompositorStep ==
    ASSUME RecvInv,
           \/ \E e \in Events : Write(e)
           \/ \E n \in 1 .. Len(buffer) : Flush(n)
           \/ HangUp
    PROVE  RecvInv'
<1>1. StreamTypes
  BY TypeParts DEF RecvInv
<1>2. ASSUME NEW e \in Events, Write(e) PROVE RecvInv'
  <2> DEFINE a == e.id
             b == SizeAndOpcode(e.size, e.opcode)
             new == [i \in 1 .. e.fds |-> made + i]
  <2>1. a \in Nat /\ b \in Nat
    BY EventFields DEF SizeAndOpcode
  <2> HIDE DEF a, b
  <2>2. <<a, b>> \o e.payload \in Seq(Nat)
    BY <2>1, EventFields
  <2>3. new \in Seq(Nat)
    <3>1. e.fds \in Nat /\ made \in Nat
      BY <1>1, EventFields DEF StreamTypes
    <3>2. new \in [1 .. e.fds -> Nat]
      BY <3>1
    <3> HIDE DEF new
    <3> QED
      BY <3>1, <3>2, SeqDef
  <2> HIDE DEF new
  <2>4. /\ sent' = Append(sent, e) /\ made' = made + e.fds
        /\ buffer' = buffer \o <<a, b>> \o e.payload
        /\ bufferFds' = bufferFds \o new
        /\ UNCHANGED <<socket, hangup, recvLock, pc, words, held, leaked,
                       derailed>>
    BY <1>2 DEF Write, a, b, new
  <2>5. buffer' \in Seq(Nat)
    <3>1. buffer \o <<a, b>> \in Seq(Nat)
      BY <1>1, <2>1 DEF StreamTypes
    <3> QED
      BY <2>4, <3>1, EventFields
  <2>6. bufferFds' \in Seq(Nat)
    BY <1>1, <2>3, <2>4 DEF StreamTypes
  <2>7. sent' \in Seq(Events) /\ made' \in Nat
    <3>1. sent \in Seq(Events) /\ made \in Nat /\ e.fds \in Nat
      BY <1>1, EventFields DEF StreamTypes
    <3> QED
      BY <2>4, <3>1
  <2>8. StreamTypes'
    BY <1>1, <2>4, <2>5, <2>6, <2>7 DEF StreamTypes
  <2> QED
    BY <2>4, <2>8, StreamStep
<1>3. ASSUME NEW n \in 1 .. Len(buffer), Flush(n) PROVE RecvInv'
  <2> DEFINE first == SubSeq(buffer, 1, n)
             rest == SubSeq(buffer, n + 1, Len(buffer))
             segment == Segment(first, bufferFds)
  <2>1. first \in Seq(Nat) /\ rest \in Seq(Nat)
    <3>1. buffer \in Seq(Nat)
      BY <1>1 DEF StreamTypes
    <3>2. Len(buffer) \in Nat /\ n + 1 \in Nat \ {0} /\ n <= Len(buffer)
      BY <3>1
    <3> QED
      BY <3>1, <3>2, SliceOfSeq
  <2>2. /\ socket' = Append(socket, segment) /\ buffer' = rest
        /\ bufferFds' = <<>>
        /\ UNCHANGED <<hangup, recvLock, pc, words, held, leaked, derailed,
                       sent, made>>
    BY <1>3 DEF Flush
  <2> HIDE DEF first, rest
  <2>3. segment \in Segments
    BY <1>1, <2>1 DEF Segment, Segments, StreamTypes
  <2> HIDE DEF segment
  <2>4. StreamTypes'
    BY <1>1, <2>1, <2>2, <2>3 DEF StreamTypes
  <2> QED
    BY <2>2, <2>4, StreamStep
<1>4. CASE HangUp
  <2>1. StreamTypes'
    BY <1>1, <1>4 DEF HangUp, StreamTypes, compositorVars
  <2> QED
    BY <1>4, <2>1, StreamStep DEF HangUp
<1> QED
  BY <1>2, <1>3, <1>4

LEMMA CallStep ==
    ASSUME RecvInv, NEW t \in Tasks, CallRecv(t)
    PROVE  RecvInv'
<1>1. /\ TypeOK /\ recvLock.readers = {} /\ Distinct(recvLock)
      /\ recvLock \in Locks
  BY DEF RecvInv, QueueOK, TypeOK
<1>2. /\ pc[t] = "idle" /\ recvLock' = Request(recvLock, t, "write")
      /\ pc' = [pc EXCEPT ![t] = "locking"]
      /\ UNCHANGED <<compositorVars, socket, hangup, words, held, leaked,
                     derailed>>
  BY DEF CallRecv
<1>3. \A r \in Range(recvLock.waiting) : r.task # t
  BY <1>2, NotQueued
<1>4. /\ recvLock' \in Locks /\ recvLock'.writer = recvLock.writer
      /\ recvLock'.readers = {} /\ Distinct(recvLock')
      /\ Range(recvLock'.waiting) = Range(recvLock.waiting)
                                    \cup {[task |-> t, mode |-> "write"]}
  BY <1>1, <1>2, <1>3, RequestLock DEF Modes
<1>5. LocalTypes /\ TaskOK(t) /\ StreamTypes /\ HistoryTypes
  BY <1>1, TypeParts
<1>6. Touches(t) /\ LocalTypes' /\ pc'[t] = "locking"
  BY <1>2, <1>5 DEF Touches, LocalTypes, Locations
<1>7. StreamTypes' /\ HistoryTypes'
  BY <1>2, <1>5 DEF StreamTypes, HistoryTypes, compositorVars
<1>8. TaskOK(t)'
  BY <1>2, <1>4, <1>5, <1>6 DEF TaskOK
<1>9. TypeOK'
  BY <1>1, <1>4, <1>6, <1>7, <1>8, StepOf
<1>10. ASSUME NEW r \in Range(recvLock'.waiting)
       PROVE  r.mode = "write" /\ pc'[r.task] = "locking"
  <2>1. CASE r \in Range(recvLock.waiting)
    <3>1. r.mode = "write" /\ pc[r.task] = "locking" /\ r.task # t
      BY <1>3, <2>1 DEF RecvInv, QueueOK
    <3>2. r.task \in Tasks
      BY <1>1, <2>1, LockFields DEF Requests
    <3> QED
      BY <1>6, <3>1, <3>2 DEF Touches
  <2>2. CASE r = [task |-> t, mode |-> "write"]
    BY <1>6, <2>2
  <2> QED
    BY <1>4, <1>10, <2>1, <2>2
<1> QED
  BY <1>4, <1>9, <1>10 DEF RecvInv, QueueOK

LEMMA LockStep ==
    ASSUME RecvInv, NEW t \in Tasks, Lock(t)
    PROVE  RecvInv'
<1>1. /\ TypeOK /\ recvLock.readers = {} /\ Distinct(recvLock)
      /\ recvLock \in Locks
  BY DEF RecvInv, QueueOK, TypeOK
<1>2. /\ pc[t] = "locking" /\ Grantable(recvLock, t)
      /\ recvLock' = Grant(recvLock) /\ pc' = [pc EXCEPT ![t] = "header"]
      /\ UNCHANGED <<compositorVars, socket, hangup, words, held, leaked,
                     derailed>>
  BY DEF Lock
<1>3. \A r \in Range(recvLock.waiting) : r.task = t => r.mode = "write"
  BY DEF RecvInv, QueueOK
<1>4. /\ recvLock.writer = None /\ recvLock' \in Locks
      /\ recvLock'.writer = t /\ recvLock'.readers = {} /\ Distinct(recvLock')
      /\ Range(recvLock'.waiting)
           = {q \in Range(recvLock.waiting) : q.task # t}
  BY <1>1, <1>2, <1>3, GrantWrite
<1>5. LocalTypes /\ TaskOK(t) /\ StreamTypes /\ HistoryTypes
  BY <1>1, TypeParts
<1>6. Touches(t) /\ LocalTypes' /\ pc'[t] = "header"
  BY <1>2, <1>5 DEF Touches, LocalTypes, Locations
<1>7. StreamTypes' /\ HistoryTypes'
  BY <1>2, <1>5 DEF StreamTypes, HistoryTypes, compositorVars
<1>8. TaskOK(t)'
  <2>1. words'[t] = <<>>
    BY <1>2, <1>5 DEF TaskOK
  <2>2. Len(words'[t]) < HeaderWords
    BY <2>1 DEF HeaderWords
  <2> QED
    BY <1>4, <1>6, <2>2 DEF TaskOK
<1>9. TypeOK'
  <2>1. \A u \in Tasks \ {t} : recvLock'.writer # u /\ recvLock.writer # u
    BY <1>4, NoneAssumption
  <2> QED
    BY <1>1, <1>4, <1>6, <1>7, <1>8, <2>1, StepOf
<1>10. QueueOK'
  BY <1>4, <1>6, QueueLess
<1> QED
  BY <1>9, <1>10 DEF RecvInv

(* The buffers of t's call grow by what a read gave. *)
LEMMA Growing ==
    ASSUME LocalTypes, NEW t \in Tasks, NEW ws \in Seq(Nat), NEW fds \in Seq(Nat),
           words' = [words EXCEPT ![t] = ws], held' = [held EXCEPT ![t] = fds],
           pc' = pc \/ pc' = [pc EXCEPT ![t] = "payload"]
    PROVE  /\ Touches(t) /\ LocalTypes'
           /\ words'[t] = ws /\ held'[t] = fds
           /\ pc'[t] = IF pc' = pc THEN pc[t] ELSE "payload"
BY DEF LocalTypes, Touches, Locations

LEMMA LeakTypes ==
    ASSUME HistoryTypes, NEW fds \in Seq(Nat), NEW b \in BOOLEAN,
           leaked' = leaked \cup Range(fds), derailed' = (derailed \/ b)
    PROVE  HistoryTypes'
<1>1. Range(fds) \subseteq Nat
  BY RangeOfSeq
<1>2. leaked' \subseteq Nat
  BY <1>1 DEF HistoryTypes
<1>3. derailed' \in BOOLEAN
  BY Zenon DEF HistoryTypes
<1> QED
  BY <1>2, <1>3 DEF HistoryTypes

LEMMA ReadHeaderStep ==
    ASSUME RecvInv, NEW t \in Tasks, ReadHeader(t)
    PROVE  RecvInv'
<1> DEFINE n == HeaderWords - Len(words[t])
           msg == Receive(socket, n)
           ws == words[t] \o msg.words
           fds == held[t] \o msg.fds
<1>1. /\ LocalTypes /\ TaskOK(t) /\ StreamTypes /\ HistoryTypes
      /\ TypeOK
  BY TypeParts DEF RecvInv
<1>2. /\ pc[t] = "header" /\ socket # <<>> /\ socket' = msg.queue
      /\ UNCHANGED <<compositorVars, hangup>>
  BY DEF ReadHeader
<1>3. /\ words[t] \in Seq(Nat) /\ held[t] \in Seq(Nat)
      /\ socket \in Seq(Segments)
  BY <1>1 DEF LocalTypes, StreamTypes
<1>4. n \in Nat /\ n > 0 /\ Len(words[t]) \in Nat
  BY <1>1, <1>2, <1>3 DEF TaskOK, HeaderWords
<1>5. /\ msg.words \in Seq(Nat) /\ Len(msg.words) <= n /\ msg.fds \in Seq(Nat)
      /\ msg.queue \in Seq(Segments)
  BY <1>2, <1>3, <1>4, ReceiveTypes
<1> HIDE DEF msg
<1>6. /\ ws \in Seq(Nat) /\ fds \in Seq(Nat)
      /\ Len(ws) = Len(words[t]) + Len(msg.words)
  BY <1>3, <1>5
<1>7. StreamTypes'
  BY <1>1, <1>2, <1>5 DEF StreamTypes, compositorVars
<1> HIDE DEF ws, fds
<1>8. CASE /\ Len(ws) < HeaderWords
           /\ words' = [words EXCEPT ![t] = ws]
           /\ held' = [held EXCEPT ![t] = fds]
           /\ UNCHANGED <<recvLock, pc, delivered, leaked, derailed>>
  <2>1. Touches(t) /\ LocalTypes' /\ words'[t] = ws /\ pc'[t] = "header"
    BY <1>1, <1>2, <1>6, <1>8, Growing
  <2>2. TaskOK(t)'
    BY <1>1, <1>2, <1>8, <2>1 DEF TaskOK
  <2>3. HistoryTypes'
    BY <1>1, <1>8 DEF HistoryTypes
  <2> QED
    BY <1>2, <1>7, <1>8, <2>1, <2>2, <2>3, Continuing
<1>9. CASE /\ Len(ws) = HeaderWords
           /\ ~ Malformed(ws)
           /\ words' = [words EXCEPT ![t] = ws]
           /\ held' = [held EXCEPT ![t] = fds]
           /\ pc' = [pc EXCEPT ![t] = "payload"]
           /\ UNCHANGED <<recvLock, delivered, leaked, derailed>>
  <2>1. Touches(t) /\ LocalTypes' /\ words'[t] = ws /\ pc'[t] = "payload"
    <3>1. pc'[t] = "payload"
      BY <1>1, <1>9 DEF LocalTypes
    <3> QED
      BY <1>1, <1>6, <1>9, <3>1, Growing
  <2>2. Len(words'[t]) = HeaderWords /\ Len(words'[t]) >= HeaderWords
    <3>1. HeaderWords >= HeaderWords
      BY DEF HeaderWords
    <3>2. Len(ws) = HeaderWords
      BY <1>9
    <3>3. words'[t] = ws
      BY <2>1
    <3> QED
      BY <3>1, <3>2, <3>3, Zenon
  <2>3. ~ Malformed(words'[t])
    BY <1>9, <2>1
  <2>4. recvLock'.writer = t
    BY <1>1, <1>2, <1>9 DEF TaskOK
  <2>5. TaskOK(t)'
    BY <2>1, <2>2, <2>3, <2>4 DEF TaskOK
  <2>6. HistoryTypes'
    BY <1>1, <1>9 DEF HistoryTypes
  <2> QED
    BY <1>2, <1>7, <1>9, <2>1, <2>5, <2>6, Continuing
<1>10. CASE Fail(t, fds, SizeField(ws[2]) > HeaderBytes)
  <2>1. HistoryTypes'
    BY <1>1, <1>6, <1>10, LeakTypes DEF Fail
  <2> QED
    BY <1>2, <1>7, <1>10, <2>1, Ending DEF Fail, Leave
<1> QED
  BY <1>8, <1>9, <1>10 DEF ReadHeader, ws, fds, msg

LEMMA EndOfHeaderStep ==
    ASSUME RecvInv, NEW t \in Tasks, EndOfHeader(t)
    PROVE  RecvInv'
<1>1. /\ LocalTypes /\ StreamTypes /\ HistoryTypes
  BY TypeParts DEF RecvInv
<1>2. /\ pc[t] = "header" /\ Fail(t, held[t], FALSE) /\ hangup' = "eof"
      /\ UNCHANGED <<compositorVars, socket>>
  BY DEF EndOfHeader
<1>3. StreamTypes'
  BY <1>1, <1>2 DEF StreamTypes, compositorVars
<1>4. HistoryTypes'
  <2>1. held[t] \in Seq(Nat)
    BY <1>1 DEF LocalTypes
  <2> QED
    BY <1>1, <1>2, <2>1, LeakTypes DEF Fail
<1> QED
  BY <1>2, <1>3, <1>4, Ending DEF Fail, Leave

(* The arithmetic of what is missing of a packet. *)
LEMMA LeftIsNat ==
    ASSUME NEW left, NEW payload \in Nat, NEW got \in Nat,
           left = 2 + payload - got, left > 0 \/ got = 2
    PROVE  left \in Nat
OBVIOUS

LEMMA StillHeader ==
    ASSUME NEW had \in Nat, had >= 2, NEW got \in Nat, NEW total,
           total = had + got
    PROVE  total >= HeaderWords
BY DEF HeaderWords

(* A call inside a payload never asks for less than nothing. *)
LEMMA MissingWords ==
    ASSUME NEW t \in Tasks, LocalTypes, TaskOK(t), pc[t] = "payload"
    PROVE  /\ words[t] \in Seq(Nat) /\ Len(words[t]) \in Nat
           /\ Len(words[t]) >= 2 /\ PayloadWords(words[t][2]) \in Nat
           /\ Missing(t) = 2 + PayloadWords(words[t][2]) - Len(words[t])
           /\ Missing(t) \in Nat
<1>1. /\ words[t] \in Seq(Nat) /\ Len(words[t]) >= HeaderWords
      /\ ~ Malformed(words[t])
      /\ Missing(t) > 0 \/ Len(words[t]) = HeaderWords
  BY DEF LocalTypes, TaskOK
<1> DEFINE announced == PayloadWords(words[t][2])
<1>2. announced \in Nat
  BY <1>1, AnnouncedWords
<1>3. Missing(t) = 2 + announced - Len(words[t])
  BY DEF Missing, HeaderWords
<1>4. Len(words[t]) \in Nat /\ Len(words[t]) >= 2
  BY <1>1 DEF HeaderWords
<1>5. Missing(t) > 0 \/ Len(words[t]) = 2
  BY <1>1 DEF HeaderWords
<1> HIDE DEF announced
<1>6. Missing(t) \in Nat
  BY <1>2, <1>3, <1>4, <1>5, LeftIsNat
<1> QED
  BY <1>1, <1>2, <1>3, <1>4, <1>6 DEF announced

LEMMA PrefixOfConcat ==
    ASSUME NEW S, NEW a \in Seq(S), NEW b \in Seq(S)
    PROVE  /\ Len(a \o b) = Len(a) + Len(b)
           /\ \A i \in 1 .. Len(a) : (a \o b)[i] = a[i]
<1>1. Len(a \o b) = Len(a) + Len(b)
  OBVIOUS
<1>2. ASSUME NEW i \in 1 .. Len(a) PROVE (a \o b)[i] = a[i]
  OBVIOUS
<1> QED
  BY <1>1, <1>2

LEMMA ReadPayloadStep ==
    ASSUME RecvInv, NEW t \in Tasks, ReadPayload(t)
    PROVE  RecvInv'
<1> DEFINE n == Missing(t)
           msg == Receive(socket, n)
           ws == words[t] \o msg.words
           fds == held[t] \o msg.fds
<1>1. /\ LocalTypes /\ TaskOK(t) /\ StreamTypes /\ HistoryTypes
      /\ TypeOK
  BY TypeParts DEF RecvInv
<1>2. /\ pc[t] = "payload" /\ socket # <<>> /\ socket' = msg.queue
      /\ UNCHANGED <<compositorVars, hangup>>
  BY DEF ReadPayload
<1>3. /\ words[t] \in Seq(Nat) /\ held[t] \in Seq(Nat)
      /\ socket \in Seq(Segments)
  BY <1>1 DEF LocalTypes, StreamTypes
<1>4. n \in Nat
  BY <1>1, <1>2, MissingWords
<1> HIDE DEF n
<1>5. /\ msg.words \in Seq(Nat) /\ Len(msg.words) <= n /\ msg.fds \in Seq(Nat)
      /\ msg.queue \in Seq(Segments)
  BY <1>2, <1>3, <1>4, ReceiveTypes
<1> HIDE DEF msg
<1>6. /\ ws \in Seq(Nat) /\ fds \in Seq(Nat)
      /\ Len(ws) = Len(words[t]) + Len(msg.words)
      /\ \A i \in 1 .. Len(words[t]) : ws[i] = words[t][i]
  <2>1. ws \in Seq(Nat) /\ fds \in Seq(Nat)
    BY <1>3, <1>5
  <2>2. /\ Len(ws) = Len(words[t]) + Len(msg.words)
        /\ \A i \in 1 .. Len(words[t]) : ws[i] = words[t][i]
    BY <1>3, <1>5, PrefixOfConcat
  <2> QED
    BY <2>1, <2>2
<1>7. StreamTypes'
  BY <1>1, <1>2, <1>5 DEF StreamTypes, compositorVars
<1> HIDE DEF ws, fds
<1>8. CASE /\ Len(msg.words) < n
           /\ words' = [words EXCEPT ![t] = ws]
           /\ held' = [held EXCEPT ![t] = fds]
           /\ UNCHANGED <<recvLock, pc, delivered, leaked, derailed>>
  <2>1. Touches(t) /\ LocalTypes' /\ words'[t] = ws /\ pc'[t] = "payload"
    BY <1>1, <1>2, <1>6, <1>8, Growing
  <2>2. /\ Len(words[t]) \in Nat /\ Len(words[t]) >= 2
        /\ PayloadWords(words[t][2]) \in Nat
        /\ n = 2 + PayloadWords(words[t][2]) - Len(words[t])
    BY <1>1, <1>2, MissingWords DEF n
  <2>3. ws[1] = words[t][1] /\ ws[2] = words[t][2]
    <3>1. 1 \in 1 .. Len(words[t]) /\ 2 \in 1 .. Len(words[t])
      BY <2>2
    <3> QED
      BY <1>6, <3>1
  <2>4. ~ Malformed(ws) /\ Len(ws) >= HeaderWords
    <3>1. ~ Malformed(words[t])
      BY <1>1, <1>2 DEF TaskOK
    <3>2. Len(msg.words) \in Nat
      BY <1>5
    <3>3. Len(ws) >= HeaderWords
      BY <1>6, <2>2, <3>2, StillHeader
    <3>4. ~ Malformed(ws)
      BY <2>3, <3>1 DEF Malformed
    <3> QED
      BY <3>3, <3>4
  <2>5. Missing(t)' > 0
    <3>1. Missing(t)' = 2 + PayloadWords(ws[2]) - Len(ws)
      BY <2>1 DEF Missing, HeaderWords
    <3> DEFINE announced == PayloadWords(words[t][2])
    <3>2. /\ Missing(t)' = 2 + announced - Len(ws)
          /\ n = 2 + announced - Len(words[t]) /\ announced \in Nat
      BY <2>2, <2>3, <3>1
    <3>3. /\ Len(msg.words) \in Nat /\ Len(msg.words) < n
          /\ Len(ws) = Len(words[t]) + Len(msg.words) /\ Len(words[t]) \in Nat
      BY <1>5, <1>6, <1>8, <2>2
    <3> DEFINE left == Missing(t)'
               had == Len(words[t])
               got == Len(msg.words)
               total == Len(ws)
    <3>4. /\ announced \in Nat /\ had \in Nat /\ got \in Nat
          /\ total = had + got /\ n = 2 + announced - had /\ got < n
          /\ left = 2 + announced - total
      BY <3>2, <3>3
    <3> HIDE DEF announced, left, had, got, total
    <3>5. left > 0
      BY <3>4
    <3> QED
      BY <3>5 DEF left
  <2>6. TaskOK(t)'
    BY <1>1, <1>2, <1>8, <2>1, <2>4, <2>5 DEF TaskOK
  <2>7. HistoryTypes'
    BY <1>1, <1>8 DEF HistoryTypes
  <2> QED
    BY <1>2, <1>7, <1>8, <2>1, <2>6, <2>7, Continuing
<1>9. CASE Deliver(t, ws, fds)
  <2>1. HistoryTypes'
    BY <1>1, <1>9 DEF Deliver, HistoryTypes
  <2> QED
    BY <1>2, <1>7, <1>9, <2>1, Ending DEF Deliver, Leave
<1> QED
  BY <1>8, <1>9 DEF ReadPayload, ws, fds, msg, n

LEMMA EndOfPayloadStep ==
    ASSUME RecvInv, NEW t \in Tasks, EndOfPayload(t)
    PROVE  RecvInv'
<1>1. /\ LocalTypes /\ StreamTypes /\ HistoryTypes
  BY TypeParts DEF RecvInv
<1>2. /\ pc[t] = "payload" /\ hangup' = "eof"
      /\ UNCHANGED <<compositorVars, socket>>
  BY DEF EndOfPayload
<1>3. StreamTypes'
  BY <1>1, <1>2 DEF StreamTypes, compositorVars
<1>4. CASE Deliver(t, words[t], held[t])
  <2>1. HistoryTypes'
    BY <1>1, <1>4 DEF Deliver, HistoryTypes
  <2> QED
    BY <1>2, <1>3, <1>4, <2>1, Ending DEF Deliver, Leave
<1>5. CASE Fail(t, held[t], Missing(t) # 0)
  <2>1. held[t] \in Seq(Nat)
    BY <1>1 DEF LocalTypes
  <2>2. HistoryTypes'
    BY <1>1, <1>5, <2>1, LeakTypes DEF Fail
  <2> QED
    BY <1>2, <1>3, <1>5, <2>2, Ending DEF Fail, Leave
<1> QED
  BY <1>4, <1>5 DEF EndOfPayload

LEMMA CancelStep ==
    ASSUME RecvInv, NEW t \in Tasks, Cancel(t)
    PROVE  RecvInv'
<1>1. /\ LocalTypes /\ StreamTypes /\ HistoryTypes
  BY TypeParts DEF RecvInv
<1>2. StreamTypes'
  BY <1>1 DEF Cancel, StreamTypes, compositorVars
<1>3. HistoryTypes'
  <2>1. held[t] \in Seq(Nat)
    BY <1>1 DEF LocalTypes
  <2> QED
    BY <1>1, <2>1, LeakTypes DEF Cancel
<1> QED
  BY <1>2, <1>3, Ending DEF Cancel

(* Every step keeps the invariant. *)
LEMMA RecvInvKept == RecvInv /\ [Next]_vars => RecvInv'
<1> SUFFICES ASSUME RecvInv, [Next]_vars PROVE RecvInv'
  OBVIOUS
<1>1. CASE UNCHANGED vars
  <2>1. StreamTypes
    BY TypeParts DEF RecvInv
  <2>2. StreamTypes'
    BY <1>1, <2>1 DEF vars, compositorVars, StreamTypes
  <2> QED
    BY <1>1, <2>2, StreamStep DEF vars
<1>2. ASSUME NEW t \in Tasks, Recv(t) PROVE RecvInv'
  BY <1>2, LockStep, ReadHeaderStep, EndOfHeaderStep, ReadPayloadStep,
     EndOfPayloadStep DEF Recv
<1> QED
  BY <1>1, <1>2, CompositorStep, CallStep, CancelStep DEF Next

LEMMA RecvInvInitially == Init => RecvInv
<1> SUFFICES ASSUME Init PROVE RecvInv
  OBVIOUS
<1>1. /\ recvLock \in Locks /\ Distinct(recvLock)
      /\ Range(recvLock.waiting) = {} /\ recvLock.writer = None
      /\ recvLock.readers = {}
  BY UnlockedLock DEF Init
<1>2. \A t \in Tasks : TaskOK(t)
  BY <1>1, NoneAssumption DEF Init, TaskOK
<1>3. StreamTypes /\ LocalTypes
  BY DEF Init, StreamTypes, LocalTypes, Locations
<1>4. HistoryTypes
  BY DEF Init, HistoryTypes
<1>5. TypeOK
  BY <1>1, <1>2, <1>3, <1>4, TypeParts
<1> QED
  BY <1>1, <1>5 DEF RecvInv, QueueOK

(* Types, and that recv_lock is with the task that reads: however tasks,   *)
(* their cancelled calls and malformed packets overlap, at most one call   *)
(* has a part of a packet, and a call asks the socket for what the header  *)
(* announced and it has not received, never for more or for less than 0.   *)
THEOREM RecvTypeCorrect == Spec => []TypeOK
<1>1. RecvInv => TypeOK
  BY DEF RecvInv
<1> QED
  BY <1>1, RecvInvInitially, RecvInvKept, PTL DEF Spec

-----------------------------------------------------------------------------
(* Where every word and file descriptor is.                                *)
(*                                                                         *)
(* The rest is about the whole of what the compositor has ever written:    *)
(* the words of all events one after the other (wire) and the file         *)
(* descriptors 1, 2, ...  What is in flight is the end of it, cut into     *)
(* segments and buffer; what the call in progress has is what comes just   *)
(* before, from the start of an event on, unless a call has given up in    *)
(* the middle of a packet; and the events before it are the packets        *)
(* returned and the malformed ones.  Account says so of the state and is   *)
(* inductive; it is stated of values, and each kind of step has a lemma,   *)
(* before it is stated of the variables (StreamInv).                       *)

(* What a packet looks like. *)
Packets == [id : Nat, opcode : Nat, payload : Seq(Nat), fds : Seq(Nat)]

(* The packet of an event is one. *)
LEMMA PacketOfEvent ==
    ASSUME NEW e \in Events, NEW first \in Nat
    PROVE  Packet(e, first) \in Packets
<1> DEFINE fds == [i \in 1 .. e.fds |-> first + i]
<1>1. e.fds \in Nat /\ fds \in [1 .. e.fds -> Nat]
  BY EventFields
<1>2. fds \in Seq(Nat)
  BY <1>1, SeqDef
<1> HIDE DEF fds
<1>3. Packet(e, first) = [id |-> e.id, opcode |-> e.opcode,
                          payload |-> e.payload, fds |-> fds]
  BY DEF Packet, fds
<1> QED
  BY <1>2, <1>3, EventFields DEF Packets

(* One sequence behind another. *)
LEMMA Concat ==
    ASSUME NEW S, NEW s \in Seq(S), NEW p \in Seq(S), NEW r, r = s \o p
    PROVE  /\ r \in Seq(S) /\ Len(r) = Len(s) + Len(p)
           /\ Len(s) \in Nat /\ Len(p) \in Nat
           /\ \A k \in 1 .. Len(s) : r[k] = s[k]
           /\ \A k \in 1 .. Len(p) : r[Len(s) + k] = p[k]
<1>1. Len(s) \in Nat /\ Len(p) \in Nat
  OBVIOUS
<1>2. /\ r \in Seq(S) /\ Len(r) = Len(s) + Len(p)
      /\ \A k \in 1 .. Len(s) + Len(p) :
            r[k] = IF k <= Len(s) THEN s[k] ELSE p[k - Len(s)]
  BY ConcatProperties
<1>3. ASSUME NEW k \in 1 .. Len(s) PROVE r[k] = s[k]
  BY <1>1, <1>2
<1>4. ASSUME NEW k \in 1 .. Len(p) PROVE r[Len(s) + k] = p[k]
  <2> DEFINE l == Len(s)
             j == l + k
  <2>1. j \in 1 .. l + Len(p) /\ ~ (j <= l) /\ j - l = k
    BY <1>1
  <2>2. r[j] = p[j - l]
    BY <1>2, <2>1
  <2> QED
    BY <2>1, <2>2
<1> QED
  BY <1>1, <1>2, <1>3, <1>4

(* A sequence with an event's words behind it. *)
LEMMA ConcatNat ==
    ASSUME NEW s \in Seq(Nat), NEW p \in Seq(Nat)
    PROVE  /\ s \o p \in Seq(Nat) /\ Len(s \o p) = Len(s) + Len(p)
           /\ Len(s) \in Nat /\ Len(p) \in Nat
           /\ \A k \in 1 .. Len(s) : (s \o p)[k] = s[k]
           /\ \A k \in 1 .. Len(p) : (s \o p)[Len(s) + k] = p[k]
BY Concat

(* Two words behind a sequence. *)
LEMMA Two ==
    ASSUME NEW s \in Seq(Nat), NEW a \in Nat, NEW b \in Nat
    PROVE  /\ s \o <<a, b>> \in Seq(Nat)
           /\ Len(s \o <<a, b>>) = Len(s) + 2
           /\ \A k \in 1 .. Len(s) : (s \o <<a, b>>)[k] = s[k]
           /\ (s \o <<a, b>>)[Len(s) + 1] = a
           /\ (s \o <<a, b>>)[Len(s) + 2] = b
OBVIOUS

(* The words of a packet behind a sequence. *)
LEMMA Extended ==
    ASSUME NEW s \in Seq(Nat), NEW a \in Nat, NEW b \in Nat, NEW p \in Seq(Nat)
    PROVE  LET r == s \o <<a, b>> \o p
           IN  /\ r \in Seq(Nat) /\ Len(r) = Len(s) + 2 + Len(p)
               /\ \A k \in 1 .. Len(s) : r[k] = s[k]
               /\ r[Len(s) + 1] = a /\ r[Len(s) + 2] = b
               /\ \A k \in 1 .. Len(p) : r[Len(s) + 2 + k] = p[k]
<1> DEFINE h == s \o <<a, b>>
           r == h \o p
<1>1. /\ h \in Seq(Nat) /\ Len(h) = Len(s) + 2
      /\ h[Len(s) + 1] = a /\ h[Len(s) + 2] = b
      /\ \A k \in 1 .. Len(s) : h[k] = s[k]
  BY Two
<1> HIDE DEF h
<1>3. /\ r \in Seq(Nat) /\ Len(r) = Len(h) + Len(p)
      /\ \A k \in 1 .. Len(h) : r[k] = h[k]
      /\ \A k \in 1 .. Len(p) : r[Len(h) + k] = p[k]
  BY <1>1, ConcatNat
<1> HIDE DEF r
<1>4. Len(s) \in Nat /\ Len(p) \in Nat
  OBVIOUS
<1>5. /\ \A k \in 1 .. Len(s) : r[k] = s[k]
      /\ r[Len(s) + 1] = a /\ r[Len(s) + 2] = b
  BY SMTT(40), <1>1, <1>3, <1>4
<1>6. /\ r \in Seq(Nat) /\ Len(r) = Len(s) + 2 + Len(p)
      /\ \A k \in 1 .. Len(p) : r[Len(s) + 2 + k] = p[k]
  BY <1>1, <1>3, <1>4
<1> QED
  BY <1>5, <1>6 DEF r, h

(* The words of event e are those of the wire behind its first p. *)
LiesAt(wire, p, e) ==
    /\ wire[p + 1] = e.id
    /\ wire[p + 2] = SizeAndOpcode(e.size, e.opcode)
    /\ \A k \in 1 .. Len(e.payload) : wire[p + 2 + k] = e.payload[k]

(* How many they are, and the wire with them. *)
EventWords(e) == 2 + Len(e.payload)

WireAfter(wire, e) ==
    wire \o <<e.id, SizeAndOpcode(e.size, e.opcode)>> \o e.payload

(* They are behind what was there. *)
LEMMA EventLies ==
    ASSUME NEW wire \in Seq(Nat), NEW e \in Events
    PROVE  LET wire2 == WireAfter(wire, e)
           IN  /\ wire2 \in Seq(Nat)
               /\ Len(wire2) = Len(wire) + EventWords(e)
               /\ \A k \in 1 .. Len(wire) : wire2[k] = wire[k]
               /\ LiesAt(wire2, Len(wire), e)
               /\ Len(wire) \in Nat /\ EventWords(e) \in Nat
<1> DEFINE a == e.id
           b == SizeAndOpcode(e.size, e.opcode)
           p == e.payload
<1>1. a \in Nat /\ b \in Nat /\ p \in Seq(Nat)
  BY EventFields DEF SizeAndOpcode
<1> HIDE DEF a, b, p
<1> DEFINE wire2 == wire \o <<a, b>> \o p
<1>2. /\ wire2 \in Seq(Nat) /\ Len(wire2) = Len(wire) + 2 + Len(p)
      /\ \A k \in 1 .. Len(wire) : wire2[k] = wire[k]
      /\ wire2[Len(wire) + 1] = a /\ wire2[Len(wire) + 2] = b
      /\ \A k \in 1 .. Len(p) : wire2[Len(wire) + 2 + k] = p[k]
  BY <1>1, Extended
<1>3. Len(wire) \in Nat /\ Len(p) \in Nat
  BY <1>1
<1> HIDE DEF wire2
<1>5. Len(wire2) = Len(wire) + (2 + Len(p)) /\ 2 + Len(p) \in Nat
  BY <1>2, <1>3
<1>4. LiesAt(wire2, Len(wire), e)
  BY <1>2, Zenon DEF LiesAt, a, b, p
<1> QED
  BY <1>2, <1>3, <1>4, <1>5, Zenon DEF WireAfter, EventWords, wire2, a, b, p

(* A sequence with one more element. *)
LEMMA Longer ==
    ASSUME NEW S, NEW s \in Seq(S), NEW x \in S, NEW r, r = Append(s, x)
    PROVE  /\ r \in Seq(S) /\ Len(r) = Len(s) + 1 /\ Len(s) \in Nat
           /\ \A k \in 1 .. Len(s) : r[k] = s[k]
           /\ r[Len(s) + 1] = x
OBVIOUS

(* The ends of one more event. *)
OneMoreEnd(f, n, b) ==
    [i \in 1 .. n + 2 |-> IF i <= n + 1 THEN f[i] ELSE b]

(* One more end leaves the others where they were. *)
LEMMA OneMore ==
    ASSUME NEW n \in Nat, NEW a \in Nat, NEW b \in Nat, a <= b,
           NEW f \in [1 .. n + 1 -> 0 .. a]
    PROVE  /\ OneMoreEnd(f, n, b) \in [1 .. n + 2 -> 0 .. b]
           /\ OneMoreEnd(f, n, b)[n + 2] = b
           /\ \A i \in 1 .. n + 1 : OneMoreEnd(f, n, b)[i] = f[i]
<1>1. \A i \in 1 .. n + 1 : i \in 1 .. n + 2 /\ i <= n + 1 /\ f[i] \in 0 .. b
  OBVIOUS
<1>2. \A i \in 1 .. n + 2 : i \in 1 .. n + 1 \/ (i = n + 2 /\ ~ (i <= n + 1))
  OBVIOUS
<1>3. n + 2 \in 1 .. n + 2 /\ b \in 0 .. b
  OBVIOUS
<1> QED
  BY <1>1, <1>2, <1>3 DEF OneMoreEnd

(* Arithmetic that the provers do better alone. *)
LEMMA Sums ==
    /\ \A a, b \in Nat : a + 2 + b = a + (2 + b)
    /\ \A a, b \in Nat : (a + 1) + b - 1 = a + b
    /\ \A a, b \in Nat : a - (b + 1) + 1 = a - b
    /\ \A a, b, c \in Nat : a + b + c = a + (b + c)
OBVIOUS

(* The words of an event are words of the wire. *)
LEMMA InsideWire ==
    ASSUME NEW p \in Nat, NEW q \in Nat, NEW w \in Nat, p + (2 + q) <= w
    PROVE  /\ p + 1 \in 1 .. w /\ p + 2 \in 1 .. w
           /\ \A k \in 1 .. q : p + 2 + k \in 1 .. w
OBVIOUS

(* An event is between two ends. *)
LEMMA Between ==
    ASSUME NEW n \in Nat, NEW i \in 1 .. n
    PROVE  i \in 1 .. n + 1 /\ i + 1 \in 1 .. n + 1 /\ i + 1 \in 2 .. n + 1
           /\ n + 1 \in 1 .. n + 1 /\ n + 2 \in 1 .. n + 2
OBVIOUS

(* The events, one after the other, are the wire: event i is behind its    *)
(* first at[i] words, the fds of the events before it are 1 .. fat[i], and *)
(* rank[i] of the events before it are packets to be returned.             *)
Follows(evs, exp, wire, at, fat, rank, i) ==
    /\ LiesAt(wire, at[i], evs[i])
    /\ at[i + 1] = at[i] + EventWords(evs[i])
    /\ fat[i + 1] = fat[i] + evs[i].fds
    /\ WellFormed(evs[i]) => /\ rank[i + 1] = rank[i] + 1
                             /\ exp[rank[i + 1]] = Packet(evs[i], fat[i])
    /\ ~ WellFormed(evs[i]) => rank[i + 1] = rank[i]

Written(evs, exp, m, wire, at, fat, rank) ==
    /\ evs \in Seq(Events) /\ exp \in Seq(Packets) /\ m \in Nat
    /\ wire \in Seq(Nat)
    /\ at \in [1 .. Len(evs) + 1 -> 0 .. Len(wire)]
    /\ fat \in [1 .. Len(evs) + 1 -> 0 .. m]
    /\ rank \in [1 .. Len(evs) + 1 -> 0 .. Len(exp)]
    /\ at[Len(evs) + 1] = Len(wire)
    /\ fat[Len(evs) + 1] = m
    /\ rank[Len(evs) + 1] = Len(exp)
    /\ \A i \in 1 .. Len(evs) : Follows(evs, exp, wire, at, fat, rank, i)

(* expected, when e is written. *)
ExpectedAfter(exp, e, m) ==
    IF WellFormed(e) THEN Append(exp, Packet(e, m)) ELSE exp

(* One more event is written. *)
LEMMA WrittenMore ==
    ASSUME NEW evs, NEW exp, NEW m, NEW wire, NEW at, NEW fat, NEW rank,
           Written(evs, exp, m, wire, at, fat, rank),
           NEW e \in Events
    PROVE  Written(Append(evs, e), ExpectedAfter(exp, e, m), m + e.fds,
                   WireAfter(wire, e),
                   OneMoreEnd(at, Len(evs), Len(WireAfter(wire, e))),
                   OneMoreEnd(fat, Len(evs), m + e.fds),
                   OneMoreEnd(rank, Len(evs), Len(ExpectedAfter(exp, e, m))))
<1> DEFINE n == Len(evs)
           w == Len(wire)
           x == Len(exp)
           pl == EventWords(e)
           evs2 == Append(evs, e)
           exp2 == ExpectedAfter(exp, e, m)
           wire2 == WireAfter(wire, e)
           w2 == Len(wire2)
           x2 == Len(exp2)
           at2 == OneMoreEnd(at, n, w2)
           fat2 == OneMoreEnd(fat, n, m + e.fds)
           rank2 == OneMoreEnd(rank, n, x2)
<1> HIDE DEF w, x, pl, w2, x2, at2, fat2, rank2
<1>1. /\ n \in Nat /\ Len(evs2) = n + 1 /\ evs2 \in Seq(Events)
      /\ \A i \in 1 .. n : evs2[i] = evs[i] /\ evs[i] \in Events
      /\ evs2[n + 1] = e
  BY Longer, ElementOfSeq DEF Written
<1>2. /\ e.id \in Nat /\ SizeAndOpcode(e.size, e.opcode) \in Nat
      /\ e.payload \in Seq(Nat) /\ Len(e.payload) \in Nat /\ e.fds \in Nat
  BY EventFields DEF SizeAndOpcode
<1>3. /\ wire2 \in Seq(Nat) /\ Len(wire2) = Len(wire) + EventWords(e)
      /\ EventWords(e) \in Nat
      /\ \A k \in 1 .. Len(wire) : wire2[k] = wire[k]
      /\ LiesAt(wire2, Len(wire), e)
      /\ Len(wire) \in Nat
  BY EventLies DEF Written
<1>4. /\ exp2 \in Seq(Packets) /\ Len(exp) \in Nat /\ Len(exp2) \in Nat
      /\ Len(exp) <= Len(exp2)
      /\ \A k \in 1 .. Len(exp) : exp2[k] = exp[k]
      /\ WellFormed(e) => /\ Len(exp2) = Len(exp) + 1
                          /\ exp2[Len(exp2)] = Packet(e, m)
      /\ ~ WellFormed(e) => Len(exp2) = Len(exp)
  <2>1. exp \in Seq(Packets) /\ m \in Nat
    BY DEF Written
  <2>2. CASE WellFormed(e)
    <3>1. Packet(e, m) \in Packets /\ exp2 = Append(exp, Packet(e, m))
      BY <2>1, <2>2, PacketOfEvent DEF ExpectedAfter
    <3> QED
      BY <2>1, <2>2, <3>1, Longer
  <2>3. CASE ~ WellFormed(e)
    BY <2>1, <2>3 DEF ExpectedAfter
  <2> QED
    BY <2>2, <2>3
<1> HIDE DEF n, evs2, exp2, wire2
<1>5. /\ m \in Nat
      /\ at \in [1 .. n + 1 -> 0 .. w] /\ at[n + 1] = w
      /\ fat \in [1 .. n + 1 -> 0 .. m] /\ fat[n + 1] = m
      /\ rank \in [1 .. n + 1 -> 0 .. x] /\ rank[n + 1] = x
      /\ \A i \in 1 .. n : Follows(evs, exp, wire, at, fat, rank, i)
  BY DEF Written, n, w, x
<1>7. w \in Nat /\ x \in Nat /\ x2 \in Nat /\ x <= x2 /\ w2 = w + pl
      /\ pl \in Nat
  BY <1>2, <1>3, <1>4 DEF w, w2, x, x2, pl
<1>8. /\ at2 \in [1 .. n + 2 -> 0 .. w2] /\ at2[n + 2] = w2
      /\ fat2 \in [1 .. n + 2 -> 0 .. m + e.fds] /\ fat2[n + 2] = m + e.fds
      /\ rank2 \in [1 .. n + 2 -> 0 .. x2] /\ rank2[n + 2] = x2
      /\ \A i \in 1 .. n + 1 : at2[i] = at[i] /\ fat2[i] = fat[i]
                               /\ rank2[i] = rank[i]
  <2>1. /\ at2 \in [1 .. n + 2 -> 0 .. w2] /\ at2[n + 2] = w2
        /\ \A i \in 1 .. n + 1 : at2[i] = at[i]
    <3>1. n \in Nat /\ w \in Nat /\ w2 \in Nat /\ w <= w2
      BY <1>1, <1>7
    <3>2. at \in [1 .. n + 1 -> 0 .. w]
      BY <1>5
    <3> QED
      BY SMTT(40), <3>1, <3>2, OneMore DEF at2
  <2>2. /\ fat2 \in [1 .. n + 2 -> 0 .. m + e.fds] /\ fat2[n + 2] = m + e.fds
        /\ \A i \in 1 .. n + 1 : fat2[i] = fat[i]
    <3>1. /\ n \in Nat /\ m \in Nat
          /\ m + e.fds \in Nat /\ m <= m + e.fds
      BY <1>1, <1>2, <1>5
    <3>2. fat \in [1 .. n + 1 -> 0 .. m]
      BY <1>5
    <3> QED
      BY SMTT(40), <3>1, <3>2, OneMore DEF fat2
  <2>3. /\ rank2 \in [1 .. n + 2 -> 0 .. x2] /\ rank2[n + 2] = x2
        /\ \A i \in 1 .. n + 1 : rank2[i] = rank[i]
    <3>1. n \in Nat /\ x \in Nat /\ x2 \in Nat /\ x <= x2
      BY <1>1, <1>7
    <3>2. rank \in [1 .. n + 1 -> 0 .. x]
      BY <1>5
    <3> QED
      BY SMTT(40), <3>1, <3>2, OneMore DEF rank2
  <2> QED
    BY <2>1, <2>2, <2>3
<1>9. ASSUME NEW i \in 1 .. n + 1
      PROVE  Follows(evs2, exp2, wire2, at2, fat2, rank2, i)
  <2>1. CASE i = n + 1
    <3>1. /\ at2[i] = w /\ at2[i + 1] = w + pl /\ evs2[i] = e
          /\ fat2[i] = m /\ fat2[i + 1] = m + e.fds
          /\ rank2[i] = x /\ rank2[i + 1] = x2
      <4>1. i + 1 = n + 2 /\ n + 1 \in 1 .. n + 1
        BY <1>1, <2>1
      <4> QED
        BY <1>1, <1>5, <1>7, <1>8, <2>1, <4>1
    <3>2. LiesAt(wire2, w, e)
      BY <1>3 DEF w
    <3>3. /\ WellFormed(e) => x2 = x + 1 /\ exp2[x2] = Packet(e, m)
          /\ ~ WellFormed(e) => x2 = x
      BY <1>4 DEF x, x2
    <3> QED
      BY <3>1, <3>2, <3>3 DEF Follows, pl
  <2>2. CASE i \in 1 .. n
    <3>1. /\ i \in 1 .. n + 1 /\ i + 1 \in 1 .. n + 1
      BY <1>1, <2>2, Between
    <3>2. /\ at2[i] = at[i] /\ at2[i + 1] = at[i + 1]
          /\ fat2[i] = fat[i] /\ fat2[i + 1] = fat[i + 1]
          /\ rank2[i] = rank[i] /\ rank2[i + 1] = rank[i + 1]
          /\ evs2[i] = evs[i]
      BY <1>1, <1>8, <2>2, <3>1
    <3>3. /\ at[i] \in Nat /\ at[i + 1] \in 0 .. w
          /\ rank[i] \in Nat /\ rank[i + 1] \in 0 .. x
      <4>1. at[i] \in 0 .. w /\ at[i + 1] \in 0 .. w
        BY <1>5, <3>1
      <4>2. rank[i] \in 0 .. x /\ rank[i + 1] \in 0 .. x
        BY <1>5, <3>1
      <4> QED
        BY <4>1, <4>2
    <3>4. Follows(evs, exp, wire, at, fat, rank, i)
      BY <1>5, <2>2
    <3>5. LiesAt(wire2, at[i], evs[i])
      <4> DEFINE p == at[i]
                 q == Len(evs[i].payload)
      <4>1. p \in Nat /\ q \in Nat /\ p + (2 + q) <= w
        <5>1. evs[i].payload \in Seq(Nat)
          BY <1>1, <2>2, EventFields
        <5>2. at[i + 1] = p + (2 + q)
          BY <3>4 DEF Follows, EventWords
        <5> QED
          BY <1>7, <3>3, <5>1, <5>2
      <4>2. LiesAt(wire, p, evs[i])
        BY <3>4 DEF Follows
      <4>3. \A k \in 1 .. w : wire2[k] = wire[k]
        BY <1>3 DEF w
      <4> HIDE DEF p, q
      <4>4. /\ p + 1 \in 1 .. w /\ p + 2 \in 1 .. w
            /\ \A k \in 1 .. q : p + 2 + k \in 1 .. w
        BY <1>7, <4>1, InsideWire
      <4>5. LiesAt(wire2, p, evs[i])
        BY <4>2, <4>3, <4>4 DEF LiesAt, q
      <4> QED
        BY <4>5 DEF p
    <3>6. WellFormed(evs[i]) => exp2[rank[i + 1]] = exp[rank[i + 1]]
      <4>1. WellFormed(evs[i]) => rank[i + 1] \in 1 .. x
        BY <1>7, <3>3, <3>4 DEF Follows
      <4> QED
        BY <1>4, <4>1 DEF x
    <3> QED
      BY <3>2, <3>4, <3>5, <3>6 DEF Follows
  <2>3. i = n + 1 \/ i \in 1 .. n
    BY <1>1
  <2> QED
    BY <2>1, <2>2, <2>3
<1>10. Len(evs2) + 1 = n + 2
  BY <1>1
<1>11. m + e.fds \in Nat
  BY <1>2, <1>5
<1>12. Written(evs2, exp2, m + e.fds, wire2, at2, fat2, rank2)
  BY <1>1, <1>3, <1>4, <1>8, <1>9, <1>10, <1>11 DEF Written, w2, x2
<1> QED
  BY <1>12 DEF evs2, exp2, wire2, at2, fat2, rank2, n, w2, x2

-----------------------------------------------------------------------------
(* The parts, in order, and then the rest hold what all has behind its     *)
(* first cuts[1]: words, or the names of file descriptors.                 *)
Holds(s, all, p, q) ==
    /\ q = p + Len(s)
    /\ \A k \in 1 .. Len(s) : s[k] = all[p + k]

Carries(n, parts, rest, all, cuts) ==
    /\ n \in Nat /\ parts \in [1 .. n -> Seq(Nat)]
    /\ rest \in Seq(Nat) /\ all \in Seq(Nat)
    /\ cuts \in [1 .. n + 1 -> 0 .. Len(all)]
    /\ \A i, j \in 1 .. n + 1 : i <= j => cuts[i] <= cuts[j]
    /\ \A j \in 1 .. n : Holds(parts[j], all, cuts[j], cuts[j + 1])
    /\ Holds(rest, all, cuts[n + 1], Len(all))

(* A part is inside the whole. *)
LEMMA InsideAll ==
    ASSUME NEW p \in Nat, NEW l \in Nat, NEW w \in Nat, p + l <= w
    PROVE  \A k \in 1 .. l : p + k \in 1 .. w
OBVIOUS

(* s grows by d elements. *)
Grows(s, r, d) ==
    /\ r \in Seq(Nat) /\ d \in Nat /\ Len(r) = Len(s) + d
    /\ \A k \in 1 .. Len(s) : r[k] = s[k]

(* And by the same elements. *)
Alike(s, r, s2, r2, d) == \A k \in 1 .. d : r[Len(s) + k] = r2[Len(s2) + k]

(* What is added behind the rest is added behind all. *)
LEMMA CarriesMore ==
    ASSUME NEW n, NEW parts, NEW rest, NEW all, NEW cuts,
           Carries(n, parts, rest, all, cuts),
           NEW rest2, NEW all2, NEW d,
           Grows(rest, rest2, d), Grows(all, all2, d),
           Alike(rest, rest2, all, all2, d)
    PROVE  Carries(n, parts, rest2, all2, cuts)
<1> DEFINE w == Len(all)
           w2 == Len(all2)
           r == Len(rest)
           r2 == Len(rest2)
           c == cuts[n + 1]
<1>1. /\ n \in Nat /\ parts \in [1 .. n -> Seq(Nat)]
      /\ rest \in Seq(Nat) /\ all \in Seq(Nat)
      /\ cuts \in [1 .. n + 1 -> 0 .. w]
      /\ \A i, j \in 1 .. n + 1 : i <= j => cuts[i] <= cuts[j]
      /\ \A j \in 1 .. n : Holds(parts[j], all, cuts[j], cuts[j + 1])
      /\ Holds(rest, all, c, w)
  BY DEF Carries
<1>2. /\ w \in Nat /\ r \in Nat /\ w2 = w + d /\ r2 = r + d
      /\ c \in 0 .. w /\ w = c + r /\ d \in Nat
      /\ rest2 \in Seq(Nat) /\ all2 \in Seq(Nat)
  <2>1. n + 1 \in 1 .. n + 1
    BY <1>1
  <2> QED
    BY <1>1, <2>1 DEF Holds, Grows
<1>3. /\ \A k \in 1 .. w : all2[k] = all[k]
      /\ \A k \in 1 .. r : rest2[k] = rest[k] /\ rest[k] = all[c + k]
      /\ \A k \in 1 .. d : rest2[r + k] = all2[w + k]
  BY <1>1 DEF Holds, Grows, Alike
<1> HIDE DEF w, w2, r, r2, c
<1>4. cuts \in [1 .. n + 1 -> 0 .. w2]
  BY <1>1, <1>2
<1>5. ASSUME NEW j \in 1 .. n
      PROVE  Holds(parts[j], all2, cuts[j], cuts[j + 1])
  <2> DEFINE p == cuts[j]
             q == cuts[j + 1]
             s == parts[j]
             l == Len(s)
  <2>1. j \in 1 .. n + 1 /\ j + 1 \in 1 .. n + 1
    BY <1>1, Between
  <2>2. /\ p \in 0 .. w /\ q \in 0 .. w /\ s \in Seq(Nat)
        /\ Holds(s, all, p, q)
    BY <1>1, <2>1
  <2>3. l \in Nat /\ q = p + l /\ \A k \in 1 .. l : s[k] = all[p + k]
    BY <2>2 DEF Holds
  <2> HIDE DEF p, q, s, l
  <2>4. \A k \in 1 .. l : p + k \in 1 .. w
    <3>1. p \in Nat /\ l \in Nat /\ w \in Nat /\ p + l <= w
      BY <1>2, <2>2, <2>3
    <3> QED
      BY <3>1, InsideAll
  <2>5. q = p + l /\ \A k \in 1 .. l : s[k] = all2[p + k]
    BY <1>3, <2>3, <2>4
  <2> QED
    BY <2>5 DEF Holds, p, q, s, l
<1>6. Holds(rest2, all2, c, w2)
  <2>1. w2 = c + r2
    BY <1>2
  <2>2. ASSUME NEW k \in 1 .. r2 PROVE rest2[k] = all2[c + k]
    <3>1. CASE k \in 1 .. r
      <4>1. c + k \in 1 .. w
        BY <1>2, <3>1
      <4> QED
        BY <1>3, <3>1, <4>1
    <3>2. CASE k > r
      <4>1. /\ k - r \in 1 .. d /\ r + (k - r) = k /\ w + (k - r) = c + k
        BY <1>2, <3>2
      <4> QED
        BY <1>3, <4>1
    <3> QED
      BY <1>2, <3>1, <3>2
  <2> QED
    BY <2>1, <2>2 DEF Holds, r2
<1> QED
  BY <1>1, <1>2, <1>4, <1>5, <1>6 DEF Carries, c, w2

(* The first of the rest becomes a part. *)
OneMorePart(parts, n, s) ==
    [j \in 1 .. n + 1 |-> IF j <= n THEN parts[j] ELSE s]

(* One more part leaves the others as they were. *)
LEMMA MorePart ==
    ASSUME NEW n \in Nat, NEW parts \in [1 .. n -> Seq(Nat)],
           NEW s \in Seq(Nat)
    PROVE  /\ OneMorePart(parts, n, s) \in [1 .. n + 1 -> Seq(Nat)]
           /\ OneMorePart(parts, n, s)[n + 1] = s
           /\ \A j \in 1 .. n : OneMorePart(parts, n, s)[j] = parts[j]
BY DEF OneMorePart

(* s is first and then rest. *)
Splits(s, first, rest) ==
    /\ first \in Seq(Nat) /\ rest \in Seq(Nat)
    /\ Len(s) = Len(first) + Len(rest)
    /\ \A k \in 1 .. Len(first) : first[k] = s[k]
    /\ \A k \in 1 .. Len(rest) : rest[k] = s[Len(first) + k]

(* A flush cuts a part off the rest. *)
LEMMA CarriesFlush ==
    ASSUME NEW n, NEW parts, NEW rest, NEW all, NEW cuts,
           Carries(n, parts, rest, all, cuts),
           NEW first, NEW rest2, Splits(rest, first, rest2)
    PROVE  Carries(n + 1, OneMorePart(parts, n, first), rest2, all,
                   OneMoreEnd(cuts, n, cuts[n + 1] + Len(first)))
<1> DEFINE w == Len(all)
           r == Len(rest)
           r2 == Len(rest2)
           f == Len(first)
           c == cuts[n + 1]
           parts2 == OneMorePart(parts, n, first)
           cuts2 == OneMoreEnd(cuts, n, c + f)
<1>1. /\ n \in Nat /\ parts \in [1 .. n -> Seq(Nat)]
      /\ rest \in Seq(Nat) /\ all \in Seq(Nat)
      /\ cuts \in [1 .. n + 1 -> 0 .. w]
      /\ \A i, j \in 1 .. n + 1 : i <= j => cuts[i] <= cuts[j]
      /\ \A j \in 1 .. n : Holds(parts[j], all, cuts[j], cuts[j + 1])
      /\ Holds(rest, all, c, w)
  BY DEF Carries
<1>2. /\ w \in Nat /\ r \in Nat /\ r2 \in Nat /\ f \in Nat
      /\ r = f + r2 /\ first \in Seq(Nat) /\ rest2 \in Seq(Nat)
      /\ c \in 0 .. w /\ w = c + r
  <2>1. n + 1 \in 1 .. n + 1
    BY <1>1
  <2> QED
    BY <1>1, <2>1 DEF Holds, Splits
<1>3. /\ \A k \in 1 .. f : first[k] = rest[k]
      /\ \A k \in 1 .. r2 : rest2[k] = rest[f + k]
      /\ \A k \in 1 .. r : rest[k] = all[c + k]
  BY <1>1 DEF Holds, Splits
<1> HIDE DEF w, r, r2, f, c, parts2, cuts2
<1>4. /\ c + f \in 0 .. w /\ c + f \in Nat /\ c \in Nat /\ w \in Nat
      /\ c <= c + f
  BY <1>2
<1>5. /\ cuts2 \in [1 .. n + 2 -> 0 .. w] /\ cuts2[n + 2] = c + f
      /\ \A i \in 1 .. n + 1 : cuts2[i] = cuts[i]
  <2>1. /\ n + 2 \in 1 .. n + 2 /\ ~ (n + 2 <= n + 1)
        /\ \A i \in 1 .. n + 1 : i \in 1 .. n + 2 /\ i <= n + 1
        /\ \A i \in 1 .. n + 2 : i <= n + 1 => i \in 1 .. n + 1
    BY <1>1
  <2>2. \A i \in 1 .. n + 1 : cuts[i] \in 0 .. w
    BY <1>1
  <2> QED
    BY <1>4, <2>1, <2>2 DEF cuts2, OneMoreEnd
<1>6. /\ parts2 \in [1 .. n + 1 -> Seq(Nat)] /\ parts2[n + 1] = first
      /\ \A j \in 1 .. n : parts2[j] = parts[j]
  <2>1. n \in Nat /\ parts \in [1 .. n -> Seq(Nat)] /\ first \in Seq(Nat)
    BY <1>1, <1>2
  <2> QED
    BY <2>1, MorePart DEF parts2
<1>7. ASSUME NEW i \in 1 .. n + 2, NEW j \in 1 .. n + 2, i <= j
      PROVE  cuts2[i] <= cuts2[j]
  <2>1. CASE j \in 1 .. n + 1
    <3>1. i \in 1 .. n + 1
      BY <1>1, <1>7, <2>1
    <3> QED
      BY <1>1, <1>5, <1>7, <2>1, <3>1
  <2>2. CASE j = n + 2 /\ i \in 1 .. n + 1
    <3>1. n + 1 \in 1 .. n + 1 /\ i <= n + 1
      BY <1>1, <2>2
    <3>2. cuts[i] <= c /\ cuts[i] \in 0 .. w
      BY <1>1, <2>2, <3>1 DEF c
    <3> QED
      BY <1>4, <1>5, <2>2, <3>2
  <2>3. CASE j = n + 2 /\ i = n + 2
    BY <1>4, <1>5, <2>3
  <2> QED
    BY <1>1, <2>1, <2>2, <2>3
<1>8. ASSUME NEW j \in 1 .. n + 1
      PROVE  Holds(parts2[j], all, cuts2[j], cuts2[j + 1])
  <2>1. CASE j \in 1 .. n
    <3>1. j \in 1 .. n + 1 /\ j + 1 \in 1 .. n + 1
      BY <1>1, <2>1, Between
    <3>2. /\ cuts2[j] = cuts[j] /\ cuts2[j + 1] = cuts[j + 1]
          /\ parts2[j] = parts[j]
      BY <1>5, <1>6, <2>1, <3>1
    <3> QED
      BY <1>1, <2>1, <3>2
  <2>2. CASE j = n + 1
    <3>1. n + 1 \in 1 .. n + 1 /\ j + 1 = n + 2
      BY <1>1, <2>2
    <3>2. /\ cuts2[j] = c /\ cuts2[j + 1] = c + f /\ parts2[j] = first
      BY <1>5, <1>6, <2>2, <3>1 DEF c
    <3>3. ASSUME NEW k \in 1 .. f PROVE first[k] = all[c + k]
      <4>1. k \in 1 .. r
        BY <1>2
      <4> QED
        BY <1>3, <4>1
    <3> QED
      BY <3>2, <3>3 DEF Holds, f
  <2> QED
    BY <1>1, <2>1, <2>2
<1>9. Holds(rest2, all, c + f, w)
  <2>1. w = (c + f) + r2
    BY <1>2
  <2>2. ASSUME NEW k \in 1 .. r2 PROVE rest2[k] = all[(c + f) + k]
    <3>1. f + k \in 1 .. r /\ c + (f + k) = (c + f) + k
      BY <1>2
    <3> QED
      BY <1>3, <3>1
  <2> QED
    BY <2>1, <2>2 DEF Holds, r2
<1>10. Carries(n + 1, parts2, rest2, all, cuts2)
  <2>1. (n + 1) + 1 = n + 2 /\ n + 1 \in Nat
    BY <1>1
  <2> QED
    BY <1>1, <1>2, <1>5, <1>6, <1>7, <1>8, <1>9, <2>1 DEF Carries, w
<1> QED
  BY <1>10 DEF parts2, cuts2, f, c

(* A read takes from the first part, and leaves some of it or none. *)
LEMMA FirstPart ==
    ASSUME NEW n, NEW parts, NEW rest, NEW all, NEW cuts,
           Carries(n, parts, rest, all, cuts), n # 0
    PROVE  /\ 1 \in 1 .. n /\ 1 \in 1 .. n + 1 /\ 2 \in 1 .. n + 1
           /\ n - 1 \in Nat
           /\ parts[1] \in Seq(Nat) /\ Len(parts[1]) \in Nat
           /\ cuts[1] \in Nat /\ cuts[2] \in Nat /\ cuts[2] <= Len(all)
           /\ Len(all) \in Nat
           /\ cuts[2] = cuts[1] + Len(parts[1])
           /\ \A k \in 1 .. Len(parts[1]) : parts[1][k] = all[cuts[1] + k]
<1>1. /\ n \in Nat /\ parts \in [1 .. n -> Seq(Nat)] /\ all \in Seq(Nat)
      /\ cuts \in [1 .. n + 1 -> 0 .. Len(all)]
      /\ \A j \in 1 .. n : Holds(parts[j], all, cuts[j], cuts[j + 1])
  BY DEF Carries
<1>2. /\ 1 \in 1 .. n /\ 1 \in 1 .. n + 1 /\ 2 \in 1 .. n + 1
      /\ n - 1 \in Nat /\ 1 + 1 = 2
  BY <1>1
<1>3. parts[1] \in Seq(Nat) /\ Len(parts[1]) \in Nat /\ Len(all) \in Nat
  BY <1>1, <1>2
<1>4. cuts[1] \in 0 .. Len(all) /\ cuts[2] \in 0 .. Len(all)
  BY <1>1, <1>2
<1>5. Holds(parts[1], all, cuts[1], cuts[2])
  BY <1>1, <1>2
<1> QED
  BY <1>2, <1>3, <1>4, <1>5 DEF Holds

(* A read takes from the front of the first part. *)
LEMMA CarriesTake ==
    ASSUME NEW n, NEW parts, NEW rest, NEW all, NEW cuts,
           Carries(n, parts, rest, all, cuts), n # 0,
           NEW taken, NEW left, Splits(parts[1], taken, left)
    PROVE  Carries(n, [parts EXCEPT ![1] = left], rest, all,
                   [cuts EXCEPT ![1] = cuts[1] + Len(taken)])
<1> DEFINE k == Len(taken)
           w == Len(all)
           l == Len(left)
           s == parts[1]
           c == cuts[1]
           d == cuts[2]
           parts2 == [parts EXCEPT ![1] = left]
           cuts2 == [cuts EXCEPT ![1] = c + k]
<1>1. /\ n \in Nat /\ parts \in [1 .. n -> Seq(Nat)]
      /\ rest \in Seq(Nat) /\ all \in Seq(Nat)
      /\ cuts \in [1 .. n + 1 -> 0 .. w]
      /\ \A i, j \in 1 .. n + 1 : i <= j => cuts[i] <= cuts[j]
      /\ \A j \in 1 .. n : Holds(parts[j], all, cuts[j], cuts[j + 1])
      /\ Holds(rest, all, cuts[n + 1], w)
  BY DEF Carries
<1>2. /\ 1 \in 1 .. n /\ 1 \in 1 .. n + 1 /\ 2 \in 1 .. n + 1
      /\ c \in Nat /\ d \in Nat /\ w \in Nat /\ d <= w /\ d = c + Len(s)
      /\ Len(s) \in Nat
      /\ \A i \in 1 .. Len(s) : s[i] = all[c + i]
  BY FirstPart
<1>3. /\ l = Len(s) - k /\ k \in 0 .. Len(s)
      /\ \A i \in 1 .. l : left[i] = s[k + i]
      /\ left \in Seq(Nat)
  BY <1>2 DEF Splits
<1> HIDE DEF k, w, l, s, c, d, parts2, cuts2
<1>4. /\ c + k \in 0 .. w /\ c + k <= d /\ c + k \in Nat /\ k \in Nat
      /\ l \in Nat /\ d = (c + k) + l /\ c <= c + k
  BY <1>2, <1>3
<1>5. /\ cuts2 \in [1 .. n + 1 -> 0 .. w] /\ cuts2[1] = c + k
      /\ \A i \in 1 .. n + 1 : i # 1 => cuts2[i] = cuts[i]
  BY <1>1, <1>2, <1>4 DEF cuts2
<1>6. /\ parts2 \in [1 .. n -> Seq(Nat)] /\ parts2[1] = left
      /\ \A j \in 1 .. n : j # 1 => parts2[j] = parts[j]
  BY <1>1, <1>2, <1>3 DEF parts2
<1>7. ASSUME NEW i \in 1 .. n + 1, NEW j \in 1 .. n + 1, i <= j
      PROVE  cuts2[i] <= cuts2[j]
  <2>1. CASE i # 1
    <3>1. j # 1
      BY <1>1, <1>7, <2>1
    <3> QED
      BY <1>1, <1>5, <1>7, <2>1, <3>1
  <2>2. CASE i = 1 /\ j = 1
    BY <1>4, <1>5, <2>2
  <2>3. CASE i = 1 /\ j # 1
    <3>1. 2 <= j
      BY <1>1, <2>3
    <3>2. d <= cuts[j] /\ cuts[j] \in 0 .. w
      BY <1>1, <1>2, <3>1 DEF d
    <3>3. cuts2[i] = c + k /\ cuts2[j] = cuts[j]
      BY <1>5, <2>3
    <3> QED
      BY <1>2, <1>4, <3>2, <3>3
  <2> QED
    BY <2>1, <2>2, <2>3
<1>8. ASSUME NEW j \in 1 .. n
      PROVE  Holds(parts2[j], all, cuts2[j], cuts2[j + 1])
  <2>1. j \in 1 .. n + 1 /\ j + 1 \in 1 .. n + 1 /\ j + 1 # 1
    BY <1>1, Between
  <2>2. CASE j = 1
    <3>1. /\ parts2[j] = left /\ cuts2[j] = c + k /\ cuts2[j + 1] = d
      <4>1. j + 1 = 2
        BY <2>2
      <4> QED
        BY <1>2, <1>5, <1>6, <2>1, <2>2, <4>1 DEF d
    <3>2. ASSUME NEW i \in 1 .. l PROVE left[i] = all[(c + k) + i]
      <4>1. k \in Nat /\ l \in Nat /\ Len(s) \in Nat /\ k + l <= Len(s)
        BY <1>2, <1>3, <1>4
      <4>2. k + i \in 1 .. Len(s)
        BY <4>1, InsideAll
      <4>3. c + (k + i) = (c + k) + i
        BY <1>2, <4>1
      <4> QED
        BY <1>2, <1>3, <4>2, <4>3
    <3> QED
      BY <1>4, <3>1, <3>2 DEF Holds, l
  <2>3. CASE j # 1
    <3>1. /\ parts2[j] = parts[j] /\ cuts2[j] = cuts[j]
          /\ cuts2[j + 1] = cuts[j + 1]
      BY <1>5, <1>6, <2>1, <2>3
    <3> QED
      BY <1>1, <3>1
  <2> QED
    BY <2>2, <2>3
<1>9. Holds(rest, all, cuts2[n + 1], w)
  <2>1. n + 1 \in 1 .. n + 1 /\ n + 1 # 1
    BY <1>1, <1>2
  <2> QED
    BY <1>1, <1>5, <2>1
<1>10. Carries(n, parts2, rest, all, cuts2)
  BY <1>1, <1>5, <1>6, <1>7, <1>8, <1>9 DEF Carries, w
<1> QED
  BY <1>10 DEF parts2, cuts2, c, k

(* The first part is gone. *)
Behind(f, n) == [j \in 1 .. n |-> f[j + 1]]

(* A part that is empty goes. *)
LEMMA CarriesDrop ==
    ASSUME NEW n, NEW parts, NEW rest, NEW all, NEW cuts,
           Carries(n, parts, rest, all, cuts), n # 0
    PROVE  Carries(n - 1, Behind(parts, n - 1), rest, all, Behind(cuts, n))
<1> DEFINE w == Len(all)
           m == n - 1
           parts2 == Behind(parts, m)
           cuts2 == Behind(cuts, n)
<1>1. /\ n \in Nat /\ parts \in [1 .. n -> Seq(Nat)]
      /\ rest \in Seq(Nat) /\ all \in Seq(Nat)
      /\ cuts \in [1 .. n + 1 -> 0 .. w]
      /\ \A i, j \in 1 .. n + 1 : i <= j => cuts[i] <= cuts[j]
      /\ \A j \in 1 .. n : Holds(parts[j], all, cuts[j], cuts[j + 1])
      /\ Holds(rest, all, cuts[n + 1], w)
  BY DEF Carries
<1>2. m \in Nat /\ m + 1 = n
  BY <1>1
<1> HIDE DEF w, m, parts2, cuts2
<1>3. /\ \A j \in 1 .. m : /\ j \in 1 .. n /\ j + 1 \in 1 .. n
                           /\ j \in 1 .. m + 1 /\ j + 1 \in 1 .. m + 1
      /\ \A j \in 1 .. n : j + 1 \in 1 .. n + 1
      /\ n \in 1 .. n
  BY <1>1, <1>2
<1>4. /\ parts2 \in [1 .. m -> Seq(Nat)]
      /\ \A j \in 1 .. m : parts2[j] = parts[j + 1]
  BY <1>1, <1>3 DEF parts2, Behind
<1>5. /\ cuts2 \in [1 .. m + 1 -> 0 .. w]
      /\ \A j \in 1 .. n : cuts2[j] = cuts[j + 1]
  <2>1. \A j \in 1 .. n : cuts[j + 1] \in 0 .. w
    BY <1>1, <1>3
  <2> QED
    BY <1>2, <2>1 DEF cuts2, Behind
<1>6. ASSUME NEW i \in 1 .. m + 1, NEW j \in 1 .. m + 1, i <= j
      PROVE  cuts2[i] <= cuts2[j]
  <2>1. i \in 1 .. n /\ j \in 1 .. n
    BY <1>2
  <2>2. i + 1 <= j + 1 /\ i + 1 \in 1 .. n + 1 /\ j + 1 \in 1 .. n + 1
    BY <1>2, <1>6, <2>1
  <2>3. cuts[i + 1] <= cuts[j + 1]
    BY <1>1, <2>2
  <2> QED
    BY <1>5, <2>1, <2>3
<1>7. ASSUME NEW j \in 1 .. m
      PROVE  Holds(parts2[j], all, cuts2[j], cuts2[j + 1])
  <2>1. j \in 1 .. n /\ j + 1 \in 1 .. n
    BY <1>3
  <2>2. /\ parts2[j] = parts[j + 1] /\ cuts2[j] = cuts[j + 1]
        /\ cuts2[j + 1] = cuts[(j + 1) + 1]
    BY <1>4, <1>5, <2>1
  <2> QED
    BY <1>1, <2>1, <2>2
<1>8. Holds(rest, all, cuts2[m + 1], w)
  <2>1. cuts2[m + 1] = cuts[n + 1]
    BY <1>2, <1>3, <1>5
  <2> QED
    BY <1>1, <2>1
<1>9. Carries(m, parts2, rest, all, cuts2)
  BY <1>1, <1>2, <1>4, <1>5, <1>6, <1>7, <1>8 DEF Carries, w
<1> QED
  BY <1>9 DEF m, parts2, cuts2

-----------------------------------------------------------------------------
(* The fds of an event are ahead of all but its first word: when the words *)
(* up to a cut take in the first of event i, the fds up to it take in all  *)
(* of event i's.                                                           *)
InTime(e, at, fat, n, cuts, fcuts) ==
    \A i \in 1 .. e, j \in 1 .. n + 1 :
       at[i] < cuts[j] => fat[i + 1] <= fcuts[j]

(* Two more facts of arithmetic. *)
LEMMA Transitive == \A a, b, c \in Nat : a < b /\ b <= c => a < c
OBVIOUS

LEMMA Difference == \A a, b, c \in Nat : c = a - b => a = b + c
OBVIOUS

(* What is written is behind every cut. *)
LEMMA InTimeMore ==
    ASSUME NEW e \in Nat, NEW at, NEW fat, NEW n \in Nat, NEW cuts, NEW fcuts,
           InTime(e, at, fat, n, cuts, fcuts), NEW w \in Nat,
           cuts \in [1 .. n + 1 -> 0 .. w], at[e + 1] = w,
           NEW w2, NEW m2
    PROVE  InTime(e + 1, OneMoreEnd(at, e, w2), OneMoreEnd(fat, e, m2),
                  n, cuts, fcuts)
<1> DEFINE at2 == OneMoreEnd(at, e, w2)
           fat2 == OneMoreEnd(fat, e, m2)
<1>1. \A i \in 1 .. e + 1 : at2[i] = at[i] /\ fat2[i] = fat[i]
  BY DEF OneMoreEnd
<1> HIDE DEF at2, fat2
<1>2. ASSUME NEW i \in 1 .. e + 1, NEW j \in 1 .. n + 1, at2[i] < cuts[j]
      PROVE  fat2[i + 1] <= fcuts[j]
  <2>1. i # e + 1
    <3>1. cuts[j] \in 0 .. w
      OBVIOUS
    <3>2. i = e + 1 => at2[i] = w
      BY <1>1
    <3> QED
      BY <1>2, <3>1, <3>2
  <2>2. i \in 1 .. e /\ i + 1 \in 1 .. e + 1
    BY <2>1
  <2> QED
    BY <1>1, <1>2, <2>2 DEF InTime
<1> QED
  BY <1>2 DEF InTime, at2, fat2

(* A flush takes all the fds there are. *)
LEMMA InTimeFlush ==
    ASSUME NEW e \in Nat, NEW at, NEW fat, NEW n \in Nat, NEW cuts, NEW fcuts,
           InTime(e, at, fat, n, cuts, fcuts), NEW m \in Nat,
           fat \in [1 .. e + 1 -> 0 .. m], NEW c
    PROVE  InTime(e, at, fat, n + 1, OneMoreEnd(cuts, n, c),
                  OneMoreEnd(fcuts, n, m))
<1> DEFINE cuts2 == OneMoreEnd(cuts, n, c)
           fcuts2 == OneMoreEnd(fcuts, n, m)
<1>1. /\ \A j \in 1 .. n + 1 : cuts2[j] = cuts[j] /\ fcuts2[j] = fcuts[j]
      /\ fcuts2[n + 2] = m
  BY DEF OneMoreEnd
<1> HIDE DEF cuts2, fcuts2
<1>2. ASSUME NEW i \in 1 .. e, NEW j \in 1 .. (n + 1) + 1, at[i] < cuts2[j]
      PROVE  fat[i + 1] <= fcuts2[j]
  <2>1. CASE j \in 1 .. n + 1
    BY <1>1, <1>2, <2>1 DEF InTime
  <2>2. CASE j = n + 2
    <3>1. fat[i + 1] \in 0 .. m
      <4>1. i + 1 \in 1 .. e + 1
        OBVIOUS
      <4> QED
        BY <4>1
    <3> QED
      BY <1>1, <2>2, <3>1
  <2> QED
    BY <2>1, <2>2
<1> QED
  BY <1>2 DEF InTime, cuts2, fcuts2

(* A read takes all the fds of the first part. *)
LEMMA InTimeTake ==
    ASSUME NEW e \in Nat, NEW at, NEW fat, NEW n \in Nat, NEW cuts, NEW fcuts,
           InTime(e, at, fat, n, cuts, fcuts), n # 0,
           NEW w \in Nat, at \in [1 .. e + 1 -> 0 .. w],
           cuts \in [1 .. n + 1 -> 0 .. w], NEW m \in Nat,
           fcuts \in [1 .. n + 1 -> 0 .. m],
           NEW c \in Nat, c <= cuts[2]
    PROVE  InTime(e, at, fat, n, [cuts EXCEPT ![1] = c],
                  [fcuts EXCEPT ![1] = fcuts[2]])
<1> DEFINE cuts2 == [cuts EXCEPT ![1] = c]
           fcuts2 == [fcuts EXCEPT ![1] = fcuts[2]]
<1>1. 1 \in 1 .. n + 1 /\ 2 \in 1 .. n + 1
  OBVIOUS
<1>2. /\ cuts2[1] = c /\ fcuts2[1] = fcuts[2]
      /\ \A j \in 1 .. n + 1 : j # 1 => cuts2[j] = cuts[j] /\ fcuts2[j] = fcuts[j]
  BY <1>1
<1> HIDE DEF cuts2, fcuts2
<1>3. ASSUME NEW i \in 1 .. e, NEW j \in 1 .. n + 1, at[i] < cuts2[j]
      PROVE  fat[i + 1] <= fcuts2[j]
  <2>1. CASE j # 1
    BY <1>2, <1>3, <2>1 DEF InTime
  <2>2. CASE j = 1
    <3>1. i \in 1 .. e + 1
      OBVIOUS
    <3>2. at[i] \in 0 .. w /\ cuts[2] \in 0 .. w
      BY <1>1, <3>1
    <3>3. at[i] < cuts[2]
      <4>1. at[i] < c /\ at[i] \in Nat /\ cuts[2] \in Nat
        <5>1. cuts2[j] = c
          BY <1>2, <2>2
        <5> QED
          BY <1>3, <3>2, <5>1
      <4> HIDE DEF cuts2
      <4> QED
        BY <4>1, c <= cuts[2], Transitive
    <3> QED
      BY <1>1, <1>2, <2>2, <3>3 DEF InTime
  <2> QED
    BY <2>1, <2>2
<1> QED
  BY <1>3 DEF InTime, cuts2, fcuts2

(* The cuts that are left are as they were. *)
LEMMA InTimeDrop ==
    ASSUME NEW e \in Nat, NEW at, NEW fat, NEW n \in Nat, NEW cuts, NEW fcuts,
           InTime(e, at, fat, n, cuts, fcuts), n # 0
    PROVE  InTime(e, at, fat, n - 1, Behind(cuts, n), Behind(fcuts, n))
<1>1. ASSUME NEW j \in 1 .. (n - 1) + 1
      PROVE  /\ Behind(cuts, n)[j] = cuts[j + 1]
             /\ Behind(fcuts, n)[j] = fcuts[j + 1]
             /\ j + 1 \in 1 .. n + 1
  <2>1. j \in 1 .. n
    OBVIOUS
  <2> QED
    BY <2>1 DEF Behind
<1> QED
  BY <1>1 DEF InTime

-----------------------------------------------------------------------------
(* The words and the file descriptors of the segments. *)
WordParts(queue) == [j \in 1 .. Len(queue) |-> queue[j].words]
FdParts(queue) == [j \in 1 .. Len(queue) |-> queue[j].fds]

AllFds(m) == [k \in 1 .. m |-> k]

(* The file descriptors are called 1, 2, ... *)
LEMMA FdNames ==
    ASSUME NEW m \in Nat
    PROVE  /\ AllFds(m) \in Seq(Nat) /\ Len(AllFds(m)) = m
           /\ \A k \in 1 .. m : AllFds(m)[k] = k
<1>1. AllFds(m) \in [1 .. m -> Nat]
  BY DEF AllFds
<1>2. AllFds(m) \in Seq(Nat)
  BY <1>1, SeqDef
<1>3. DOMAIN AllFds(m) = 1 .. m
  BY DEF AllFds
<1>4. Len(AllFds(m)) = m
  BY <1>2, <1>3, LenProperties
<1> QED
  BY <1>2, <1>4 DEF AllFds

(* What the compositor has written and the client has not read, with all   *)
(* that was ever written: cuts and fcuts are how much of it, words and     *)
(* fds, is before each segment and then before the buffer.                 *)
Streamed(evs, exp, m, queue, buf, bfds, wire, at, fat, rank, cuts, fcuts) ==
    /\ Written(evs, exp, m, wire, at, fat, rank)
    /\ queue \in Seq(Segments)
    /\ Carries(Len(queue), WordParts(queue), buf, wire, cuts)
    /\ Carries(Len(queue), FdParts(queue), bfds, AllFds(m), fcuts)
    /\ InTime(Len(evs), at, fat, Len(queue), cuts, fcuts)

(* Write(e) keeps Streamed ... *)
LEMMA StreamedWrite ==
    ASSUME NEW evs, NEW exp, NEW m, NEW queue, NEW buf, NEW bfds,
           NEW wire, NEW at, NEW fat, NEW rank, NEW cuts, NEW fcuts,
           Streamed(evs, exp, m, queue, buf, bfds, wire, at, fat, rank, cuts,
                    fcuts),
           NEW e \in Events
    PROVE  Streamed(Append(evs, e), ExpectedAfter(exp, e, m), m + e.fds, queue,
                    WireAfter(buf, e), bfds \o [i \in 1 .. e.fds |-> m + i],
                    WireAfter(wire, e),
                    OneMoreEnd(at, Len(evs), Len(WireAfter(wire, e))),
                    OneMoreEnd(fat, Len(evs), m + e.fds),
                    OneMoreEnd(rank, Len(evs), Len(ExpectedAfter(exp, e, m))),
                    cuts, fcuts)
<1> DEFINE n == Len(queue)
           wire2 == WireAfter(wire, e)
           buf2 == WireAfter(buf, e)
           new == [i \in 1 .. e.fds |-> m + i]
           bfds2 == bfds \o new
           d == EventWords(e)
<1>1. /\ Written(evs, exp, m, wire, at, fat, rank)
      /\ queue \in Seq(Segments)
      /\ Carries(n, WordParts(queue), buf, wire, cuts)
      /\ Carries(n, FdParts(queue), bfds, AllFds(m), fcuts)
      /\ InTime(Len(evs), at, fat, n, cuts, fcuts)
  BY DEF Streamed
<1>2. /\ evs \in Seq(Events) /\ Len(evs) \in Nat /\ m \in Nat
      /\ wire \in Seq(Nat) /\ at[Len(evs) + 1] = Len(wire)
  BY <1>1 DEF Written
<1>3. /\ n \in Nat /\ buf \in Seq(Nat) /\ bfds \in Seq(Nat)
      /\ cuts \in [1 .. n + 1 -> 0 .. Len(wire)]
  BY <1>1 DEF Carries
<1>4. Written(Append(evs, e), ExpectedAfter(exp, e, m), m + e.fds, wire2,
              OneMoreEnd(at, Len(evs), Len(wire2)),
              OneMoreEnd(fat, Len(evs), m + e.fds),
              OneMoreEnd(rank, Len(evs), Len(ExpectedAfter(exp, e, m))))
  BY <1>1, WrittenMore
<1>5. /\ wire2 \in Seq(Nat) /\ Len(wire2) = Len(wire) + d
      /\ \A k \in 1 .. Len(wire) : wire2[k] = wire[k]
      /\ LiesAt(wire2, Len(wire), e) /\ Len(wire) \in Nat
      /\ d \in Nat
  BY <1>2, EventLies
<1>6. /\ buf2 \in Seq(Nat) /\ Len(buf2) = Len(buf) + d
      /\ \A k \in 1 .. Len(buf) : buf2[k] = buf[k]
      /\ LiesAt(buf2, Len(buf), e) /\ Len(buf) \in Nat
  BY <1>3, EventLies
<1> HIDE DEF wire2, buf2
<1>7. ASSUME NEW k \in 1 .. d
      PROVE  buf2[Len(buf) + k] = wire2[Len(wire) + k]
  <2> DEFINE b == Len(buf)
             w == Len(wire)
             pl == Len(e.payload)
  <2>1. b \in Nat /\ w \in Nat /\ pl \in Nat /\ d = 2 + pl
    BY <1>5, <1>6, EventFields DEF EventWords
  <2>2. /\ buf2[b + 1] = wire2[w + 1] /\ buf2[b + 2] = wire2[w + 2]
        /\ \A i \in 1 .. pl : buf2[b + 2 + i] = wire2[w + 2 + i]
    <3>1. /\ buf2[b + 1] = e.id /\ buf2[b + 2] = SizeAndOpcode(e.size, e.opcode)
          /\ \A i \in 1 .. pl : buf2[b + 2 + i] = e.payload[i]
      BY <1>6, Zenon DEF LiesAt
    <3>2. /\ wire2[w + 1] = e.id /\ wire2[w + 2] = SizeAndOpcode(e.size, e.opcode)
          /\ \A i \in 1 .. pl : wire2[w + 2 + i] = e.payload[i]
      BY <1>5, Zenon DEF LiesAt
    <3> HIDE DEF b, w, pl
    <3>3. buf2[b + 1] = wire2[w + 1] /\ buf2[b + 2] = wire2[w + 2]
      BY <3>1, <3>2, Zenon
    <3>4. ASSUME NEW i \in 1 .. pl PROVE buf2[b + 2 + i] = wire2[w + 2 + i]
      <4>1. buf2[b + 2 + i] = e.payload[i]
        BY <3>1
      <4>2. wire2[w + 2 + i] = e.payload[i]
        BY <3>2
      <4> QED
        BY <4>1, <4>2
    <3> QED
      BY <3>3, <3>4, Zenon
  <2> HIDE DEF b, w, pl, d
  <2>3. CASE k > 2
    <3>1. /\ k - 2 \in 1 .. pl /\ b + 2 + (k - 2) = b + k
          /\ w + 2 + (k - 2) = w + k
      BY <2>1, <2>3
    <3>2. buf2[b + 2 + (k - 2)] = wire2[w + 2 + (k - 2)]
      BY <2>2, <3>1
    <3>3. buf2[b + k] = wire2[w + k]
      BY <3>1, <3>2
    <3> QED
      BY <3>3 DEF b, w
  <2>4. CASE k = 1 \/ k = 2
    BY <2>2, <2>4 DEF b, w
  <2> QED
    BY <2>1, <2>3, <2>4
<1>8. Carries(n, WordParts(queue), buf2, wire2, cuts)
  <2>1. Grows(buf, buf2, d) /\ Grows(wire, wire2, d)
    BY <1>5, <1>6 DEF Grows
  <2>2. Alike(buf, buf2, wire, wire2, d)
    BY <1>7 DEF Alike
  <2> QED
    BY <1>1, <2>1, <2>2, CarriesMore
<1>9. Carries(n, FdParts(queue), bfds2, AllFds(m + e.fds), fcuts)
  <2>1. /\ e.fds \in Nat /\ m + e.fds \in Nat
        /\ new \in Seq(Nat) /\ Len(new) = e.fds
        /\ \A k \in 1 .. e.fds : new[k] = m + k
    <3>1. e.fds \in Nat /\ m + e.fds \in Nat
      BY <1>2, EventFields
    <3>2. new \in [1 .. e.fds -> Nat]
      BY <1>2, <3>1
    <3>3. new \in Seq(Nat)
      BY <3>1, <3>2, SeqDef
    <3>4. Len(new) = e.fds
      BY <3>1, <3>3, LenProperties
    <3> QED
      BY <3>1, <3>3, <3>4
  <2> HIDE DEF new
  <2>2. /\ bfds2 \in Seq(Nat) /\ Len(bfds2) = Len(bfds) + e.fds
        /\ \A k \in 1 .. Len(bfds) : bfds2[k] = bfds[k]
        /\ \A k \in 1 .. e.fds : bfds2[Len(bfds) + k] = new[k]
    <3>1. bfds \in Seq(Nat) /\ new \in Seq(Nat)
      BY <1>3, <2>1
    <3>2. /\ bfds2 \in Seq(Nat) /\ Len(bfds2) = Len(bfds) + Len(new)
          /\ \A k \in 1 .. Len(bfds) : bfds2[k] = bfds[k]
          /\ \A k \in 1 .. Len(new) : bfds2[Len(bfds) + k] = new[k]
      BY <3>1, ConcatNat
    <3> QED
      BY <2>1, <3>2, Zenon
  <2>3. /\ AllFds(m) \in Seq(Nat) /\ Len(AllFds(m)) = m
        /\ \A k \in 1 .. m : AllFds(m)[k] = k
        /\ AllFds(m + e.fds) \in Seq(Nat) /\ Len(AllFds(m + e.fds)) = m + e.fds
        /\ \A k \in 1 .. m + e.fds : AllFds(m + e.fds)[k] = k
    BY <1>2, <2>1, FdNames
  <2> HIDE DEF bfds2
  <2>4. \A k \in 1 .. m : AllFds(m + e.fds)[k] = AllFds(m)[k]
    BY <1>2, <2>1, <2>3
  <2>5. \A k \in 1 .. e.fds : bfds2[Len(bfds) + k] = AllFds(m + e.fds)[m + k]
    <3>1. \A k \in 1 .. e.fds : m + k \in 1 .. m + e.fds
      BY <1>2, <2>1
    <3> QED
      BY <2>1, <2>2, <2>3, <3>1
  <2>6. Grows(bfds, bfds2, e.fds) /\ Grows(AllFds(m), AllFds(m + e.fds), e.fds)
    BY <2>1, <2>2, <2>3, <2>4 DEF Grows
  <2>7. Alike(bfds, bfds2, AllFds(m), AllFds(m + e.fds), e.fds)
    BY <2>3, <2>5 DEF Alike
  <2> QED
    BY <1>1, <2>6, <2>7, CarriesMore
<1>10. InTime(Len(evs) + 1, OneMoreEnd(at, Len(evs), Len(wire2)),
              OneMoreEnd(fat, Len(evs), m + e.fds), n, cuts, fcuts)
  BY <1>1, <1>2, <1>3, <1>5, InTimeMore
<1>11. Len(Append(evs, e)) = Len(evs) + 1
  BY <1>2
<1> QED
  BY <1>1, <1>4, <1>8, <1>9, <1>10, <1>11 DEF Streamed, wire2, buf2

(* ... so does Flush(n) ... *)
LEMMA StreamedFlush ==
    ASSUME NEW evs, NEW exp, NEW m, NEW queue, NEW buf, NEW bfds,
           NEW wire, NEW at, NEW fat, NEW rank, NEW cuts, NEW fcuts,
           Streamed(evs, exp, m, queue, buf, bfds, wire, at, fat, rank, cuts,
                    fcuts),
           NEW n \in 1 .. Len(buf)
    PROVE  Streamed(evs, exp, m, Append(queue, Segment(SubSeq(buf, 1, n), bfds)),
                    SubSeq(buf, n + 1, Len(buf)), <<>>, wire, at, fat, rank,
                    OneMoreEnd(cuts, Len(queue), cuts[Len(queue) + 1] + n),
                    OneMoreEnd(fcuts, Len(queue), m))
<1> DEFINE q == Len(queue)
           first == SubSeq(buf, 1, n)
           rest == SubSeq(buf, n + 1, Len(buf))
           segment == Segment(first, bfds)
           queue2 == Append(queue, segment)
<1>1. /\ Written(evs, exp, m, wire, at, fat, rank)
      /\ queue \in Seq(Segments)
      /\ Carries(q, WordParts(queue), buf, wire, cuts)
      /\ Carries(q, FdParts(queue), bfds, AllFds(m), fcuts)
      /\ InTime(Len(evs), at, fat, q, cuts, fcuts)
  BY DEF Streamed
<1>2. /\ q \in Nat /\ buf \in Seq(Nat) /\ bfds \in Seq(Nat)
      /\ Len(buf) \in Nat /\ Len(bfds) \in Nat
  BY <1>1 DEF Carries
<1>3. /\ Len(evs) \in Nat /\ m \in Nat /\ fat \in [1 .. Len(evs) + 1 -> 0 .. m]
  BY <1>1 DEF Written
<1>4. /\ first \in Seq(Nat) /\ Len(first) = n /\ n \in Nat
      /\ \A k \in 1 .. n : first[k] = buf[k]
  <2>1. \A k \in 1 .. n : buf[k] \in Nat
    BY <1>2
  <2> QED
    BY <1>2, <2>1, SubSeqProperties
<1>5. /\ rest \in Seq(Nat) /\ Len(buf) = n + Len(rest)
      /\ \A k \in 1 .. Len(rest) : rest[k] = buf[n + k]
  <2>1. \A k \in n + 1 .. Len(buf) : buf[k] \in Nat
    BY <1>2
  <2>2. /\ rest \in Seq(Nat)
        /\ Len(rest) = IF n + 1 <= Len(buf) THEN Len(buf) - (n + 1) + 1 ELSE 0
        /\ \A k \in 1 .. Len(buf) - (n + 1) + 1 : rest[k] = buf[(n + 1) + k - 1]
    BY <1>2, <2>1, SubSeqProperties
  <2>3. Len(rest) = Len(buf) - n /\ Len(buf) - (n + 1) + 1 = Len(buf) - n
    BY <1>2, <2>2
  <2>4. ASSUME NEW k \in 1 .. Len(rest) PROVE rest[k] = buf[n + k]
    <3>1. n \in Nat /\ k \in Nat
      <4>1. Len(rest) \in Nat
        BY <2>2
      <4> QED
        BY <1>4, <4>1
    <3>2. (n + 1) + k - 1 = n + k
      BY <3>1
    <3> QED
      BY <2>2, <2>3, <3>2
  <2> QED
    <3>1. Len(rest) \in Nat
      BY <2>2
    <3>2. Len(buf) = n + Len(rest)
      BY ZenonT(40), <1>2, <1>4, <2>3, <3>1, Difference
    <3> QED
      BY <2>2, <2>4, <3>2
<1> HIDE DEF first, rest
<1>6. segment \in Segments /\ segment.words = first /\ segment.fds = bfds
  BY <1>2, <1>4 DEF Segment, Segments
<1> HIDE DEF segment
<1>7. /\ queue2 \in Seq(Segments) /\ Len(queue2) = q + 1
      /\ queue2[q + 1] = segment /\ \A j \in 1 .. q : queue2[j] = queue[j]
  BY <1>1, <1>6, Longer
<1> HIDE DEF queue2, q
<1>8. /\ WordParts(queue2) = OneMorePart(WordParts(queue), q, first)
      /\ FdParts(queue2) = OneMorePart(FdParts(queue), q, bfds)
  <2>1. /\ WordParts(queue2) = [j \in 1 .. q + 1 |-> queue2[j].words]
        /\ FdParts(queue2) = [j \in 1 .. q + 1 |-> queue2[j].fds]
    BY <1>7 DEF WordParts, FdParts
  <2>2. /\ \A j \in 1 .. q : WordParts(queue)[j] = queue[j].words
        /\ \A j \in 1 .. q : FdParts(queue)[j] = queue[j].fds
    BY DEF WordParts, FdParts, q
  <2>3. \A j \in 1 .. q + 1 : \/ j \in 1 .. q /\ j <= q
                              \/ j = q + 1 /\ ~ (j <= q)
    BY <1>2
  <2>4. WordParts(queue2) = OneMorePart(WordParts(queue), q, first)
    BY <1>6, <1>7, <2>1, <2>2, <2>3 DEF OneMorePart
  <2>5. FdParts(queue2) = OneMorePart(FdParts(queue), q, bfds)
    BY <1>6, <1>7, <2>1, <2>2, <2>3 DEF OneMorePart
  <2> QED
    BY <2>4, <2>5
<1>9. Carries(q + 1, WordParts(queue2), rest, wire,
              OneMoreEnd(cuts, q, cuts[q + 1] + n))
  <2>1. Splits(buf, first, rest)
    BY <1>4, <1>5 DEF Splits
  <2>2. Carries(q + 1, OneMorePart(WordParts(queue), q, first), rest, wire,
                OneMoreEnd(cuts, q, cuts[q + 1] + Len(first)))
    BY <1>1, <2>1, CarriesFlush
  <2> QED
    BY <1>4, <1>8, <2>2, Zenon
<1>10. Carries(q + 1, FdParts(queue2), <<>>, AllFds(m), OneMoreEnd(fcuts, q, m))
  <2>1. Splits(bfds, bfds, <<>>)
    BY <1>2 DEF Splits
  <2>2. Carries(q + 1, OneMorePart(FdParts(queue), q, bfds), <<>>, AllFds(m),
                OneMoreEnd(fcuts, q, fcuts[q + 1] + Len(bfds)))
    BY <1>1, <2>1, CarriesFlush
  <2>3. fcuts[q + 1] + Len(bfds) = m
    <3>1. Holds(bfds, AllFds(m), fcuts[q + 1], Len(AllFds(m)))
      BY <1>1 DEF Carries
    <3> QED
      BY <1>3, <3>1, FdNames DEF Holds
  <2> QED
    BY <1>8, <2>2, <2>3, Zenon
<1>11. InTime(Len(evs), at, fat, q + 1, OneMoreEnd(cuts, q, cuts[q + 1] + n),
              OneMoreEnd(fcuts, q, m))
  BY <1>1, <1>2, <1>3, InTimeFlush
<1>12. Streamed(evs, exp, m, queue2, rest, <<>>, wire, at, fat, rank,
                OneMoreEnd(cuts, q, cuts[q + 1] + n), OneMoreEnd(fcuts, q, m))
  BY <1>1, <1>7, <1>9, <1>10, <1>11 DEF Streamed
<1> QED
  BY <1>12 DEF queue2, segment, first, rest, q

(* A queue behind a segment. *)
LEMMA ConcatSegments ==
    ASSUME NEW s \in Seq(Segments), NEW p \in Seq(Segments)
    PROVE  /\ s \o p \in Seq(Segments) /\ Len(s \o p) = Len(s) + Len(p)
           /\ \A k \in 1 .. Len(s) : (s \o p)[k] = s[k]
           /\ \A k \in 1 .. Len(p) : (s \o p)[Len(s) + k] = p[k]
BY Concat

(* What a read does: what it takes, and what it leaves. *)
ReadsTo(queue, n, took, fds, after, left) ==
    /\ after \in Seq(Segments) /\ Len(queue) \in Nat /\ Len(queue) # 0
    /\ Splits(WordParts(queue)[1], took, left)
    /\ Splits(FdParts(queue)[1], fds, <<>>)
    /\ \/ /\ Len(after) = Len(queue) - 1
          /\ WordParts(after) = Behind(WordParts(queue), Len(queue) - 1)
          /\ FdParts(after) = Behind(FdParts(queue), Len(queue) - 1)
          /\ left = <<>>
       \/ /\ Len(after) = Len(queue) /\ Len(took) = n
          /\ WordParts(after) = [WordParts(queue) EXCEPT ![1] = left]
          /\ FdParts(after) = [FdParts(queue) EXCEPT ![1] = <<>>]

(* That is what Receive does. *)
LEMMA ReceiveParts ==
    ASSUME NEW queue \in Seq(Segments), queue # <<>>, NEW n \in Nat
    PROVE  \E left : ReadsTo(queue, n, Receive(queue, n).words,
                             Receive(queue, n).fds, Receive(queue, n).queue,
                             left)
<1> DEFINE msg == Receive(queue, n)
           first == Head(queue)
           all == first.words
           size == Len(all)
           k == IF n < size THEN n ELSE size
           taken == SubSeq(all, 1, k)
           left == SubSeq(all, k + 1, size)
           remainder == Segment(left, <<>>)
           after == IF k = size THEN Tail(queue)
                                ELSE <<remainder>> \o Tail(queue)
           q == Len(queue)
           ws == WordParts(queue)
           fs == FdParts(queue)
<1>1. /\ first \in Segments /\ Tail(queue) \in Seq(Segments) /\ q \in Nat
      /\ q # 0 /\ first = queue[1] /\ Len(Tail(queue)) = q - 1
      /\ \A j \in 1 .. q - 1 : Tail(queue)[j] = queue[j + 1]
  BY HeadTailProperties
<1>2. all \in Seq(Nat) /\ first.fds \in Seq(Nat)
  BY <1>1 DEF Segments
<1>3. msg = [words |-> taken, fds |-> first.fds, queue |-> after]
  BY Zenon DEF Receive
<1> HIDE DEF first
<1>4. size \in Nat /\ k \in Nat /\ k <= size /\ k <= n /\ (k = n \/ k = size)
  BY <1>2
<1> HIDE DEF k
<1>5. /\ taken \in Seq(Nat) /\ Len(taken) = k
      /\ \A i \in 1 .. k : taken[i] = all[i]
  <2>1. \A i \in 1 .. k : all[i] \in Nat
    BY <1>2, <1>4
  <2>2. /\ taken \in Seq(Nat) /\ Len(taken) = IF 1 <= k THEN k - 1 + 1 ELSE 0
        /\ \A i \in 1 .. k - 1 + 1 : taken[i] = all[1 + i - 1]
    BY <1>4, <2>1, SubSeqProperties
  <2> HIDE DEF taken, all, size
  <2> QED
    BY <1>4, <2>2
<1>6. /\ left \in Seq(Nat) /\ size = k + Len(left)
      /\ \A i \in 1 .. Len(left) : left[i] = all[k + i]
      /\ k = size => left = <<>>
  <2>1. \A i \in k + 1 .. size : all[i] \in Nat
    BY <1>2, <1>4
  <2>2. /\ left \in Seq(Nat)
        /\ Len(left) = IF k + 1 <= size THEN size - (k + 1) + 1 ELSE 0
        /\ \A i \in 1 .. size - (k + 1) + 1 : left[i] = all[(k + 1) + i - 1]
    BY <1>4, <2>1, SubSeqProperties
  <2>3. Len(left) \in Nat /\ (left = <<>> <=> Len(left) = 0)
    <3>1. left \in Seq(Nat)
      BY <2>2
    <3> HIDE DEF left
    <3> QED
      BY <3>1
  <2> HIDE DEF left, all, size
  <2>4. Len(left) = size - k /\ size - (k + 1) + 1 = size - k
    BY <1>4, <2>2
  <2>5. ASSUME NEW i \in 1 .. Len(left) PROVE left[i] = all[k + i]
    <3>1. (k + 1) + i - 1 = k + i
      BY <1>4, <2>3
    <3> QED
      BY <2>2, <2>4, <3>1
  <2> QED
    BY <1>4, <2>2, <2>3, <2>4, <2>5
<1> HIDE DEF taken, left
<1>7. remainder \in Segments /\ remainder.words = left /\ remainder.fds = <<>>
  BY <1>6 DEF Segment, Segments
<1> HIDE DEF remainder
<1>8. /\ Splits(all, taken, left) /\ Splits(first.fds, first.fds, <<>>)
  <2>1. Splits(all, taken, left)
    BY <1>5, <1>6 DEF Splits
  <2>2. Splits(first.fds, first.fds, <<>>)
    BY <1>2 DEF Splits
  <2> QED
    BY <2>1, <2>2
<1>9. /\ DOMAIN ws = 1 .. q /\ DOMAIN fs = 1 .. q
      /\ ws = [j \in 1 .. q |-> queue[j].words]
      /\ fs = [j \in 1 .. q |-> queue[j].fds]
      /\ ws[1] = all /\ fs[1] = first.fds
  BY <1>1 DEF WordParts, FdParts
<1> HIDE DEF all, size, q, ws, fs, msg, after
<1>10. k = size => ReadsTo(queue, n, taken, first.fds, after, left)
  <2> SUFFICES ASSUME k = size PROVE ReadsTo(queue, n, taken, first.fds, after, left)
    OBVIOUS
  <2>1. after = Tail(queue)
    BY DEF after
  <2>2. \A j \in 1 .. q - 1 : j + 1 \in 1 .. q
    BY <1>1
  <2>3. WordParts(after) = Behind(ws, q - 1)
    BY <1>1, <1>9, <2>1, <2>2 DEF WordParts, Behind
  <2>4. FdParts(after) = Behind(fs, q - 1)
    BY <1>1, <1>9, <2>1, <2>2 DEF FdParts, Behind
  <2>5. Len(after) = q - 1 /\ after \in Seq(Segments) /\ left = <<>>
    BY <1>1, <1>6, <2>1
  <2> QED
    BY <1>1, <1>8, <1>9, <2>3, <2>4, <2>5 DEF ReadsTo, q, ws, fs
<1>11. k # size => ReadsTo(queue, n, taken, first.fds, after, left)
  <2> SUFFICES ASSUME k # size PROVE ReadsTo(queue, n, taken, first.fds, after, left)
    OBVIOUS
  <2>1. after = <<remainder>> \o Tail(queue)
    BY DEF after
  <2>2. /\ after \in Seq(Segments) /\ Len(after) = q
        /\ after[1] = remainder
        /\ \A j \in 1 .. q : j # 1 => after[j] = queue[j]
    <3>1. /\ <<remainder>> \in Seq(Segments) /\ Len(<<remainder>>) = 1
          /\ <<remainder>>[1] = remainder
      BY <1>7
    <3> DEFINE s == <<remainder>>
    <3>2. s \in Seq(Segments) /\ Len(s) = 1 /\ s[1] = remainder /\ after = s \o Tail(queue)
      BY <2>1, <3>1
    <3> HIDE DEF s
    <3>3. /\ after \in Seq(Segments) /\ Len(after) = 1 + (q - 1)
          /\ \A j \in 1 .. 1 : after[j] = s[j]
          /\ \A j \in 1 .. q - 1 : after[1 + j] = Tail(queue)[j]
      <4> DEFINE t == Tail(queue)
      <4>1. t \in Seq(Segments) /\ Len(t) = q - 1 /\ after = s \o t
        BY <1>1, <3>2
      <4> HIDE DEF t
      <4>2. /\ after \in Seq(Segments) /\ Len(after) = Len(s) + Len(t)
            /\ \A j \in 1 .. Len(s) : after[j] = s[j]
            /\ \A j \in 1 .. Len(t) : after[Len(s) + j] = t[j]
        <5>1. s \in Seq(Segments) /\ t \in Seq(Segments) /\ after = s \o t
          BY <3>2, <4>1
        <5> QED
          BY <5>1, ConcatSegments, Zenon
      <4> QED
        BY <3>2, <4>1, <4>2 DEF t
    <3>4. ASSUME NEW j \in 1 .. q, j # 1 PROVE after[j] = queue[j]
      <4>1. /\ j - 1 \in 1 .. q - 1 /\ 1 + (j - 1) = j /\ (j - 1) + 1 = j
        BY <1>1, <3>4
      <4>2. after[1 + (j - 1)] = queue[(j - 1) + 1]
        BY <1>1, <3>3, <4>1
      <4> QED
        BY <4>1, <4>2
    <3>5. Len(after) = q /\ after[1] = remainder
      BY <1>1, <3>2, <3>3
    <3> QED
      BY <3>3, <3>4, <3>5
  <2>3. 1 \in 1 .. q
    BY <1>1
  <2>4. WordParts(after) = [ws EXCEPT ![1] = left]
    BY <1>7, <1>9, <2>2, <2>3 DEF WordParts
  <2>5. FdParts(after) = [fs EXCEPT ![1] = <<>>]
    BY <1>7, <1>9, <2>2, <2>3 DEF FdParts
  <2>6. k = n
    BY <1>4
  <2> QED
    BY <1>1, <1>5, <1>8, <1>9, <2>2, <2>4, <2>5, <2>6 DEF ReadsTo, q, ws, fs
<1>12. ReadsTo(queue, n, taken, first.fds, after, left)
  BY <1>10, <1>11
<1>13. msg.words = taken /\ msg.fds = first.fds /\ msg.queue = after
  BY <1>3
<1> QED
  BY <1>12, <1>13, Zenon DEF msg

(* A read of at most n words: the next words of all that were written, and *)
(* the next file descriptors.                                              *)
Takes(s, all, c) ==
    /\ s \in Seq(Nat) /\ c + Len(s) <= Len(all)
    /\ \A k \in 1 .. Len(s) : s[k] = all[c + k]

(* And no more than the first part, all of it when nothing is left. *)
TakesFrom(taken, left, all, cuts) ==
    /\ Takes(taken, all, cuts[1])
    /\ cuts[1] + Len(taken) \in Nat
    /\ cuts[1] + Len(taken) <= cuts[2]
    /\ left = <<>> => cuts[1] + Len(taken) = cuts[2]

(* What is taken from the first part comes next in all. *)
LEMMA TakesFirst ==
    ASSUME NEW n, NEW parts, NEW rest, NEW all, NEW cuts,
           Carries(n, parts, rest, all, cuts), n # 0,
           NEW taken, NEW left, Splits(parts[1], taken, left)
    PROVE  TakesFrom(taken, left, all, cuts)
<1> DEFINE s == parts[1]
           c == cuts[1]
           d == cuts[2]
           w == Len(all)
           t == Len(taken)
<1>1. /\ s \in Seq(Nat) /\ Len(s) \in Nat
      /\ c \in Nat /\ d \in Nat /\ d <= w /\ w \in Nat
      /\ d = c + Len(s)
      /\ \A k \in 1 .. Len(s) : s[k] = all[c + k]
  BY FirstPart
<1>2. /\ taken \in Seq(Nat) /\ left \in Seq(Nat)
      /\ Len(s) = t + Len(left)
      /\ \A k \in 1 .. t : taken[k] = s[k]
  BY DEF Splits
<1> HIDE DEF s, c, d, w, t
<1>3. t \in Nat /\ Len(left) \in Nat /\ (left = <<>> => Len(left) = 0)
  BY <1>2 DEF t
<1>4. c + t \in Nat /\ c + t <= d /\ c + t <= w /\ t <= Len(s)
  BY <1>1, <1>2, <1>3
<1>5. ASSUME left = <<>> PROVE c + t = d
  BY <1>1, <1>2, <1>3, <1>5
<1>6. ASSUME NEW k \in 1 .. t PROVE taken[k] = all[c + k]
  <2>1. k \in 1 .. Len(s)
    BY <1>1, <1>3, <1>4
  <2> QED
    BY <1>1, <1>2, <2>1
<1> QED
  BY <1>2, <1>4, <1>5, <1>6 DEF TakesFrom, Takes, c, d, t, w

(* ... and so does a read, which takes what comes next. *)
LEMMA StreamedReceive ==
    ASSUME NEW evs, NEW exp, NEW m, NEW queue, NEW buf, NEW bfds,
           NEW wire, NEW at, NEW fat, NEW rank, NEW cuts, NEW fcuts,
           Streamed(evs, exp, m, queue, buf, bfds, wire, at, fat, rank, cuts,
                    fcuts),
           queue # <<>>, NEW n \in Nat
    PROVE  LET msg == Receive(queue, n)
           IN  /\ Takes(msg.words, wire, cuts[1])
               /\ Takes(msg.fds, AllFds(m), fcuts[1])
               /\ \E cuts2, fcuts2 :
                     /\ Streamed(evs, exp, m, msg.queue, buf, bfds, wire, at,
                                 fat, rank, cuts2, fcuts2)
                     /\ cuts2[1] = cuts[1] + Len(msg.words)
                     /\ fcuts2[1] = fcuts[1] + Len(msg.fds)
<1> DEFINE msg == Receive(queue, n)
           took == msg.words
           fds == msg.fds
           after == msg.queue
           q == Len(queue)
           ws == WordParts(queue)
           fs == FdParts(queue)
           all == AllFds(m)
<1>1. /\ Written(evs, exp, m, wire, at, fat, rank)
      /\ queue \in Seq(Segments)
      /\ Carries(q, ws, buf, wire, cuts)
      /\ Carries(q, fs, bfds, all, fcuts)
      /\ InTime(Len(evs), at, fat, q, cuts, fcuts)
  BY DEF Streamed
<1>2. PICK left : ReadsTo(queue, n, took, fds, after, left)
  BY <1>1, ReceiveParts
<1> HIDE DEF msg, took, fds, after, q, ws, fs, all
<1>3. /\ after \in Seq(Segments) /\ q \in Nat /\ q # 0
      /\ Splits(ws[1], took, left) /\ Splits(fs[1], fds, <<>>)
  BY <1>2 DEF ReadsTo, q, ws, fs
<1>4. /\ Takes(took, wire, cuts[1]) /\ cuts[1] + Len(took) \in Nat
      /\ cuts[1] + Len(took) <= cuts[2]
      /\ left = <<>> => cuts[1] + Len(took) = cuts[2]
  <2>1. Carries(q, ws, buf, wire, cuts) /\ q # 0 /\ Splits(ws[1], took, left)
    BY <1>1, <1>3
  <2>2. TakesFrom(took, left, wire, cuts)
    BY <2>1, TakesFirst, Zenon
  <2> QED
    BY <2>2 DEF TakesFrom
<1>5. Takes(fds, all, fcuts[1]) /\ fcuts[1] + Len(fds) = fcuts[2]
  <2>1. Carries(q, fs, bfds, all, fcuts) /\ q # 0 /\ Splits(fs[1], fds, <<>>)
    BY <1>1, <1>3
  <2>2. TakesFrom(fds, <<>>, all, fcuts)
    BY <2>1, TakesFirst, Zenon
  <2> QED
    BY <2>2 DEF TakesFrom
<1>6. /\ Len(evs) \in Nat /\ m \in Nat /\ Len(wire) \in Nat
      /\ at \in [1 .. Len(evs) + 1 -> 0 .. Len(wire)]
  BY <1>1 DEF Written
<1>7. cuts \in [1 .. q + 1 -> 0 .. Len(wire)]
  BY <1>1 DEF Carries
<1>8. fcuts \in [1 .. q + 1 -> 0 .. m]
  BY <1>1, <1>6, FdNames DEF Carries, all
<1>9. CASE /\ Len(after) = q - 1
           /\ WordParts(after) = Behind(ws, q - 1)
           /\ FdParts(after) = Behind(fs, q - 1)
           /\ left = <<>>
  <2> DEFINE cuts2 == Behind(cuts, q)
             fcuts2 == Behind(fcuts, q)
  <2>1. /\ Carries(q - 1, WordParts(after), buf, wire, cuts2)
        /\ Carries(q - 1, FdParts(after), bfds, all, fcuts2)
    BY <1>1, <1>3, <1>9, CarriesDrop
  <2>2. InTime(Len(evs), at, fat, q - 1, cuts2, fcuts2)
    BY <1>1, <1>3, <1>6, InTimeDrop
  <2>3. cuts2[1] = cuts[2] /\ fcuts2[1] = fcuts[2]
    <3>1. 1 \in 1 .. q /\ 1 + 1 = 2
      BY <1>3
    <3> QED
      BY <3>1 DEF Behind
  <2> HIDE DEF cuts2, fcuts2
  <2>4. Streamed(evs, exp, m, after, buf, bfds, wire, at, fat, rank, cuts2,
                 fcuts2)
    BY <1>1, <1>3, <1>9, <2>1, <2>2 DEF Streamed, all
  <2> QED
    BY <1>4, <1>5, <1>9, <2>3, <2>4 DEF took, fds, after, msg, all
<1>10. CASE /\ Len(after) = q
            /\ WordParts(after) = [ws EXCEPT ![1] = left]
            /\ FdParts(after) = [fs EXCEPT ![1] = <<>>]
  <2> DEFINE cuts2 == [cuts EXCEPT ![1] = cuts[1] + Len(took)]
             fcuts2 == [fcuts EXCEPT ![1] = fcuts[1] + Len(fds)]
  <2>1. /\ Carries(q, WordParts(after), buf, wire, cuts2)
        /\ Carries(q, FdParts(after), bfds, all, fcuts2)
    <3>1. /\ Carries(q, ws, buf, wire, cuts) /\ Carries(q, fs, bfds, all, fcuts)
          /\ q # 0 /\ Splits(ws[1], took, left) /\ Splits(fs[1], fds, <<>>)
      BY <1>1, <1>3
    <3>2. Carries(q, [ws EXCEPT ![1] = left], buf, wire, cuts2)
      BY <3>1, CarriesTake, Zenon
    <3>3. Carries(q, [fs EXCEPT ![1] = <<>>], bfds, all, fcuts2)
      BY <3>1, CarriesTake, Zenon
    <3> QED
      BY <1>10, <3>2, <3>3, Zenon
  <2>2. InTime(Len(evs), at, fat, q, cuts2, fcuts2)
    BY <1>1, <1>3, <1>4, <1>5, <1>6, <1>7, <1>8, InTimeTake
  <2>3. /\ cuts2[1] = cuts[1] + Len(took)
        /\ fcuts2[1] = fcuts[1] + Len(fds)
    <3>1. 1 \in 1 .. q + 1
      BY <1>3
    <3> QED
      BY <1>7, <1>8, <3>1
  <2> HIDE DEF cuts2, fcuts2
  <2>4. Streamed(evs, exp, m, after, buf, bfds, wire, at, fat, rank, cuts2,
                 fcuts2)
    BY <1>1, <1>3, <1>10, <2>1, <2>2 DEF Streamed, all
  <2> QED
    BY <1>4, <1>5, <2>3, <2>4 DEF took, fds, after, msg, all
<1> QED
  BY <1>2, <1>9, <1>10 DEF ReadsTo, q, ws, fs

-----------------------------------------------------------------------------
(* The two halves of a header's second word. *)
LEMMA Halves ==
    \A a, b \in Nat : b < 65536 => /\ (a * 65536 + b) \div 65536 = a
                                   /\ (a * 65536 + b) % 256 = b % 256
BY Z3

(* What SizeField and OpcodeField make of the word of an event: opcodes    *)
(* come out modulo 256.                                                    *)
LEMMA HeaderFields ==
    ASSUME NEW size \in Nat, NEW opcode \in Opcodes
    PROVE  /\ SizeField(SizeAndOpcode(size, opcode)) = size
           /\ OpcodeField(SizeAndOpcode(size, opcode)) = opcode % 256
<1>1. opcode \in Nat /\ opcode < 65536
  BY SMTT(60) DEF Opcodes
<1>2. /\ (size * 65536 + opcode) \div 65536 = size
      /\ (size * 65536 + opcode) % 256 = opcode % 256
  BY <1>1, Halves
<1> QED
  BY <1>2 DEF SizeField, OpcodeField, SizeAndOpcode

(* The call in progress has read words w of event i, up to the first c of  *)
(* all words, and the packets before that event are the d returned.        *)
ReadingOf(wire, at, rank, c, w, d, i) ==
    /\ rank[i] = d
    /\ c = at[i] + Len(w)
    /\ \A k \in 1 .. Len(w) : w[k] = wire[at[i] + k]

Reading(evs, wire, at, rank, c, w, d) ==
    \E i \in 1 .. Len(evs) + 1 : ReadingOf(wire, at, rank, c, w, d, i)

(* More events leave the call where it is in the stream. *)
LEMMA ReadingWrite ==
    ASSUME NEW evs, NEW exp, NEW m, NEW wire, NEW at, NEW fat, NEW rank,
           Written(evs, exp, m, wire, at, fat, rank),
           NEW e \in Events, NEW c \in Nat, c <= Len(wire),
           NEW w \in Seq(Nat), NEW d,
           Reading(evs, wire, at, rank, c, w, d)
    PROVE  Reading(Append(evs, e), WireAfter(wire, e),
                   OneMoreEnd(at, Len(evs), Len(WireAfter(wire, e))),
                   OneMoreEnd(rank, Len(evs), Len(ExpectedAfter(exp, e, m))),
                   c, w, d)
<1> DEFINE n == Len(evs)
           wire2 == WireAfter(wire, e)
           at2 == OneMoreEnd(at, n, Len(wire2))
           rank2 == OneMoreEnd(rank, n, Len(ExpectedAfter(exp, e, m)))
           l == Len(wire)
<1>1. /\ evs \in Seq(Events) /\ n \in Nat /\ wire \in Seq(Nat)
      /\ l \in Nat /\ at \in [1 .. n + 1 -> 0 .. l]
  BY DEF Written
<1>2. \A k \in 1 .. l : wire2[k] = wire[k]
  BY <1>1, EventLies
<1>3. PICK i \in 1 .. n + 1 : ReadingOf(wire, at, rank, c, w, d, i)
  BY DEF Reading
<1>4. at2[i] = at[i] /\ rank2[i] = rank[i]
  <2>1. i \in 1 .. n + 2 /\ i <= n + 1
    BY <1>1
  <2> QED
    BY <2>1 DEF OneMoreEnd
<1>5. i \in 1 .. Len(Append(evs, e)) + 1
  BY <1>1
<1>6. at[i] \in Nat /\ Len(w) \in Nat /\ c = at[i] + Len(w)
  <2>1. at[i] \in 0 .. l
    BY <1>1
  <2>2. at[i] \in Nat
    BY <1>1, <2>1
  <2>3. Len(w) \in Nat
    OBVIOUS
  <2> QED
    BY <1>3, <2>2, <2>3, Zenon DEF ReadingOf
<1> HIDE DEF wire2, at2, rank2, l, n
<1>7. \A k \in 1 .. Len(w) : at[i] + k \in 1 .. l
  <2>1. at[i] + Len(w) <= l
    BY <1>6 DEF l
  <2> QED
    BY <1>1, <1>6, <2>1, InsideAll
<1>8. ReadingOf(wire2, at2, rank2, c, w, d, i)
  BY <1>2, <1>3, <1>4, <1>7 DEF ReadingOf
<1> QED
  BY <1>5, <1>8 DEF Reading, wire2, at2, rank2, n

(* A read of the next words leads it on. *)
LEMMA ReadingTake ==
    ASSUME NEW evs, NEW wire, NEW at, NEW rank, NEW c \in Nat,
           NEW w \in Seq(Nat), NEW d,
           \A i \in 1 .. Len(evs) + 1 : at[i] \in Nat,
           Reading(evs, wire, at, rank, c, w, d),
           NEW s, Takes(s, wire, c)
    PROVE  Reading(evs, wire, at, rank, c + Len(s), w \o s, d)
<1> DEFINE r == w \o s
           a == Len(w)
           b == Len(s)
<1>1. s \in Seq(Nat) /\ \A k \in 1 .. b : s[k] = wire[c + k]
  BY DEF Takes
<1>2. /\ a \in Nat /\ b \in Nat /\ Len(r) = a + b
      /\ \A k \in 1 .. a : r[k] = w[k]
      /\ \A k \in 1 .. b : r[a + k] = s[k]
  BY <1>1, ConcatNat
<1>3. PICK i \in 1 .. Len(evs) + 1 : ReadingOf(wire, at, rank, c, w, d, i)
  BY DEF Reading
<1>4. /\ rank[i] = d /\ c = at[i] + a /\ at[i] \in Nat
      /\ \A k \in 1 .. a : w[k] = wire[at[i] + k]
  BY <1>3 DEF ReadingOf
<1> HIDE DEF r, a, b
<1>5. c + b = at[i] + Len(r)
  BY <1>2, <1>4
<1>6. ASSUME NEW k \in 1 .. Len(r) PROVE r[k] = wire[at[i] + k]
  <2>1. CASE k \in 1 .. a
    BY <1>2, <1>4, <2>1
  <2>2. CASE k > a
    <3>1. k - a \in 1 .. b /\ a + (k - a) = k /\ c + (k - a) = at[i] + k
      BY <1>2, <1>4, <2>2
    <3>2. r[a + (k - a)] = wire[c + (k - a)]
      BY <1>1, <1>2, <3>1
    <3> QED
      BY <3>1, <3>2
  <2> QED
    BY <1>2, <2>1, <2>2
<1>7. ReadingOf(wire, at, rank, c + b, r, d, i)
  BY <1>4, <1>5, <1>6 DEF ReadingOf
<1> QED
  BY <1>7 DEF Reading, r, b

(* A call that has the header has that of an event. *)
HeaderOf(e, w) ==
    /\ w[1] = e.id /\ SizeField(w[2]) = e.size
    /\ OpcodeField(w[2]) = e.opcode % 256
    /\ \A k \in 1 .. Len(w) - 2 : k <= Len(e.payload) => w[2 + k] = e.payload[k]

(* The two words of a header are those of one event. *)
LEMMA HeaderRead ==
    ASSUME NEW evs, NEW exp, NEW m, NEW wire, NEW at, NEW fat, NEW rank,
           Written(evs, exp, m, wire, at, fat, rank),
           NEW c \in Nat, c <= Len(wire), NEW w \in Seq(Nat), Len(w) >= 2,
           NEW d, Reading(evs, wire, at, rank, c, w, d)
    PROVE  \E i \in 1 .. Len(evs) :
              ReadingOf(wire, at, rank, c, w, d, i) /\ HeaderOf(evs[i], w)
<1> DEFINE n == Len(evs)
           l == Len(wire)
           a == Len(w)
<1>1. /\ evs \in Seq(Events) /\ n \in Nat /\ l \in Nat
      /\ at \in [1 .. n + 1 -> 0 .. l] /\ at[n + 1] = l
      /\ \A j \in 1 .. n : Follows(evs, exp, wire, at, fat, rank, j)
  BY DEF Written
<1>2. PICK i \in 1 .. n + 1 : ReadingOf(wire, at, rank, c, w, d, i)
  BY DEF Reading
<1>3. /\ a \in Nat /\ a >= 2 /\ c <= l /\ c = at[i] + a /\ at[i] \in Nat
      /\ \A k \in 1 .. a : w[k] = wire[at[i] + k]
  BY SMTT(40), <1>1, <1>2 DEF ReadingOf
<1> HIDE DEF n, l, a
<1>4. i \in 1 .. n
  <2>1. i # n + 1
    BY <1>1, <1>3
  <2> QED
    BY <1>1, <2>1
<1> DEFINE e == evs[i]
<1>5. e \in Events
  BY <1>1, <1>4, ElementOfSeq DEF n
<1>6. LiesAt(wire, at[i], e)
  BY <1>1, <1>4 DEF Follows
<1>7. /\ e.size \in Nat /\ e.opcode \in Opcodes
  BY <1>5, RecvAssumption
<1> HIDE DEF e
<1>8. w[1] = e.id /\ w[2] = SizeAndOpcode(e.size, e.opcode)
  <2>1. 1 \in 1 .. a /\ 2 \in 1 .. a
    BY <1>3
  <2> QED
    BY <1>3, <1>6, <2>1 DEF LiesAt
<1>9. ASSUME NEW k \in 1 .. a - 2, k <= Len(e.payload)
      PROVE  w[2 + k] = e.payload[k]
  <2>1. 2 + k \in 1 .. a /\ at[i] + (2 + k) = at[i] + 2 + k
    <3> DEFINE p == at[i]
    <3>1. p \in Nat /\ a \in Nat /\ k \in Nat /\ k <= a - 2
      BY <1>3
    <3> HIDE DEF p
    <3>2. 2 + k \in 1 .. a /\ p + (2 + k) = p + 2 + k
      BY <3>1
    <3> QED
      BY <3>2 DEF p
  <2>2. e.payload \in Seq(Nat)
    BY <1>5, EventFields
  <2>3. k \in 1 .. Len(e.payload)
    BY <1>3, <1>9, <2>2
  <2> QED
    BY <1>3, <1>6, <2>1, <2>3 DEF LiesAt
<1>10. HeaderOf(e, w)
  <2>1. /\ SizeField(w[2]) = e.size
        /\ OpcodeField(w[2]) = e.opcode % 256
    BY <1>7, <1>8, HeaderFields
  <2> QED
    BY <1>8, <1>9, <2>1 DEF HeaderOf, a
<1> QED
  BY <1>2, <1>4, <1>10 DEF e, n

(* A call that has all the words of an event is at the end of it. *)
LEMMA EventRead ==
    ASSUME NEW evs, NEW exp, NEW m, NEW wire, NEW at, NEW fat, NEW rank,
           Written(evs, exp, m, wire, at, fat, rank),
           NEW c \in Nat, NEW w \in Seq(Nat), NEW d, NEW i \in 1 .. Len(evs),
           ReadingOf(wire, at, rank, c, w, d, i), Len(w) = EventWords(evs[i])
    PROVE  Reading(evs, wire, at, rank, c, <<>>, rank[i + 1])
<1>1. /\ evs \in Seq(Events) /\ Len(evs) \in Nat
      /\ at \in [1 .. Len(evs) + 1 -> 0 .. Len(wire)]
      /\ Follows(evs, exp, wire, at, fat, rank, i)
  BY DEF Written
<1>2. i + 1 \in 1 .. Len(evs) + 1
  BY <1>1
<1>3. c = at[i + 1] /\ c = at[i + 1] + 0
  BY <1>1 DEF Follows, ReadingOf
<1>4. Len(<<>>) = 0 /\ \A k \in 1 .. Len(<<>>) : <<>>[k] = wire[at[i + 1] + k]
  OBVIOUS
<1>5. ReadingOf(wire, at, rank, c, <<>>, rank[i + 1], i + 1)
  BY <1>3, <1>4 DEF ReadingOf
<1> QED
  BY <1>2, <1>5 DEF Reading

-----------------------------------------------------------------------------
(* What has been returned, of what should be. *)
ReturnedAs(p, q) ==
    /\ p.id = q.id /\ p.opcode = q.opcode % 256 /\ p.payload = q.payload

Returned(exp, dlv) ==
    /\ Len(dlv) <= Len(exp)
    /\ \A i \in 1 .. Len(dlv) : ReturnedAs(dlv[i], exp[i])

(* The file descriptors of the packets that should have been returned. *)
Arrived(exp, dlv, lk) ==
    \A n \in 1 .. Len(dlv) :
       \A fd \in Range(exp[n].fds) \ lk :
          \E k \in 1 .. n : fd \in Range(dlv[k].fds)

(* One more packet is expected, or none. *)
LEMMA ExpectedMore ==
    ASSUME NEW exp \in Seq(Packets), NEW e \in Events, NEW m \in Nat
    PROVE  /\ ExpectedAfter(exp, e, m) \in Seq(Packets)
           /\ Len(exp) \in Nat /\ Len(ExpectedAfter(exp, e, m)) \in Nat
           /\ Len(exp) <= Len(ExpectedAfter(exp, e, m))
           /\ \A i \in 1 .. Len(exp) : ExpectedAfter(exp, e, m)[i] = exp[i]
<1>1. CASE WellFormed(e)
  <2>1. Packet(e, m) \in Packets
    BY PacketOfEvent
  <2>2. ExpectedAfter(exp, e, m) = Append(exp, Packet(e, m))
    BY <1>1 DEF ExpectedAfter
  <2> QED
    BY <2>1, <2>2, Longer
<1>2. CASE ~ WellFormed(e)
  BY <1>2 DEF ExpectedAfter
<1> QED
  BY <1>1, <1>2

(* More events leave what was returned as it was. *)
LEMMA ReturnedWrite ==
    ASSUME NEW exp \in Seq(Packets), NEW e \in Events, NEW m \in Nat,
           NEW dlv \in Seq(Packets), NEW lk,
           Returned(exp, dlv), Arrived(exp, dlv, lk)
    PROVE  /\ Returned(ExpectedAfter(exp, e, m), dlv)
           /\ Arrived(ExpectedAfter(exp, e, m), dlv, lk)
<1> DEFINE exp2 == ExpectedAfter(exp, e, m)
<1>1. /\ Len(exp) \in Nat /\ Len(exp2) \in Nat /\ Len(exp) <= Len(exp2)
      /\ \A i \in 1 .. Len(exp) : exp2[i] = exp[i]
  BY ExpectedMore
<1>2. Len(dlv) \in Nat /\ Len(dlv) <= Len(exp)
  BY DEF Returned
<1> HIDE DEF exp2
<1>3. \A i \in 1 .. Len(dlv) : i \in 1 .. Len(exp) /\ exp2[i] = exp[i]
  BY <1>1, <1>2
<1>4. Returned(exp2, dlv)
  BY <1>1, <1>2, <1>3 DEF Returned
<1>5. Arrived(exp2, dlv, lk)
  BY <1>3 DEF Arrived
<1> QED
  BY <1>4, <1>5 DEF exp2

(* More leaks, less to arrive. *)
LEMMA ArrivedLeak ==
    ASSUME NEW exp, NEW dlv, NEW lk, NEW lk2, lk \subseteq lk2,
           Arrived(exp, dlv, lk)
    PROVE  Arrived(exp, dlv, lk2)
BY DEF Arrived

(* One more is returned. *)
LEMMA ReturnedDeliver ==
    ASSUME NEW exp, NEW dlv \in Seq(Packets), NEW p \in Packets,
           Returned(exp, dlv), Len(exp) \in Nat, Len(dlv) + 1 <= Len(exp),
           ReturnedAs(p, exp[Len(dlv) + 1])
    PROVE  Returned(exp, Append(dlv, p))
<1> DEFINE dlv2 == Append(dlv, p)
           n == Len(dlv)
<1>1. /\ n \in Nat /\ Len(dlv2) = n + 1 /\ dlv2[n + 1] = p
      /\ \A i \in 1 .. n : dlv2[i] = dlv[i]
  BY Longer
<1> HIDE DEF dlv2, n
<1>2. ASSUME NEW i \in 1 .. n + 1 PROVE ReturnedAs(dlv2[i], exp[i])
  <2>1. CASE i \in 1 .. n
    BY <1>1, <2>1 DEF Returned, n
  <2>2. CASE i = n + 1
    BY <1>1, <2>2 DEF n
  <2> QED
    BY <1>1, <2>1, <2>2
<1> QED
  BY <1>1, <1>2 DEF Returned, dlv2, n

(* The packet returned has its file descriptors, or an earlier one has     *)
(* them.                                                                   *)
LEMMA ArrivedDeliver ==
    ASSUME NEW exp, NEW dlv \in Seq(Packets), NEW p \in Packets, NEW lk,
           Arrived(exp, dlv, lk),
           \A fd \in Range(exp[Len(dlv) + 1].fds) \ lk :
              \/ fd \in Range(p.fds)
              \/ \E k \in 1 .. Len(dlv) : fd \in Range(dlv[k].fds)
    PROVE  Arrived(exp, Append(dlv, p), lk)
<1> DEFINE dlv2 == Append(dlv, p)
           n == Len(dlv)
<1>1. /\ n \in Nat /\ Len(dlv2) = n + 1 /\ dlv2[n + 1] = p
      /\ \A i \in 1 .. n : dlv2[i] = dlv[i]
  BY Longer
<1>2. \A fd \in Range(exp[n + 1].fds) \ lk :
         \/ fd \in Range(p.fds)
         \/ \E k \in 1 .. n : fd \in Range(dlv[k].fds)
  OBVIOUS
<1> HIDE DEF dlv2, n
<1>3. ASSUME NEW i \in 1 .. n + 1, NEW fd \in Range(exp[i].fds) \ lk
      PROVE  \E k \in 1 .. i : fd \in Range(dlv2[k].fds)
  <2>1. CASE i \in 1 .. n
    <3>1. PICK k \in 1 .. i : fd \in Range(dlv[k].fds)
      BY <1>3, <2>1 DEF Arrived, n
    <3>2. k \in 1 .. n
      BY <1>1, <2>1
    <3> QED
      BY <1>1, <3>1, <3>2
  <2>2. CASE i = n + 1
    <3>1. CASE fd \in Range(p.fds)
      <4>1. n + 1 \in 1 .. i
        BY <1>1, <2>2
      <4> QED
        BY <1>1, <3>1, <4>1
    <3>2. CASE \E k \in 1 .. n : fd \in Range(dlv[k].fds)
      <4>1. PICK k \in 1 .. n : fd \in Range(dlv[k].fds)
        BY <3>2
      <4>2. k \in 1 .. i
        BY <1>1, <2>2
      <4> QED
        BY <1>1, <4>1, <4>2
    <3> QED
      BY <1>2, <2>2, <3>1, <3>2
  <2> QED
    BY <1>1, <2>1, <2>2
<1> QED
  BY <1>1, <1>3 DEF Arrived, dlv2

-----------------------------------------------------------------------------
(* The file descriptors received, 1 .. f, are those of the call in         *)
(* progress, of the packets returned and leaked: each is one of them, and  *)
(* they are in order.                                                      *)
FdsOut(f, my, dlv, lk) ==
    /\ f \in Nat /\ my \in Seq(Nat) /\ dlv \in Seq(Packets) /\ lk \subseteq 1 .. f
    /\ \A i \in 1 .. Len(my) : my[i] \in (1 .. f) \ lk
    /\ \A n \in 1 .. Len(dlv) :
          \A i \in 1 .. Len(dlv[n].fds) : dlv[n].fds[i] \in (1 .. f) \ lk
    /\ \A i, j \in 1 .. Len(my) : i < j => my[i] < my[j]
    /\ \A n \in 1 .. Len(dlv) :
          \A i \in 1 .. Len(dlv[n].fds), j \in 1 .. Len(my) :
             dlv[n].fds[i] < my[j]
    /\ \A m, n \in 1 .. Len(dlv) :
          \A i \in 1 .. Len(dlv[m].fds), j \in 1 .. Len(dlv[n].fds) :
             (m < n \/ (m = n /\ i < j)) => dlv[m].fds[i] < dlv[n].fds[j]
    /\ \A fd \in (1 .. f) \ lk :
          \/ \E i \in 1 .. Len(my) : my[i] = fd
          \/ \E n \in 1 .. Len(dlv) :
                \E i \in 1 .. Len(dlv[n].fds) : dlv[n].fds[i] = fd

(* A read takes the next file descriptors. *)
LEMMA FdsOutTake ==
    ASSUME NEW f, NEW my, NEW dlv, NEW lk, FdsOut(f, my, dlv, lk),
           NEW m \in Nat, NEW s, Takes(s, AllFds(m), f)
    PROVE  FdsOut(f + Len(s), my \o s, dlv, lk)
<1> DEFINE my2 == my \o s
           a == Len(my)
           b == Len(s)
           g == f + b
           fds(n) == dlv[n].fds
<1>1. /\ f \in Nat /\ my \in Seq(Nat) /\ dlv \in Seq(Packets) /\ lk \subseteq 1 .. f
      /\ \A i \in 1 .. a : my[i] \in (1 .. f) \ lk
      /\ \A n \in 1 .. Len(dlv) :
            \A i \in 1 .. Len(fds(n)) : fds(n)[i] \in (1 .. f) \ lk
      /\ \A i, j \in 1 .. a : i < j => my[i] < my[j]
      /\ \A n \in 1 .. Len(dlv) :
            \A i \in 1 .. Len(fds(n)), j \in 1 .. a : fds(n)[i] < my[j]
  BY DEF FdsOut
<1>2. \A fd \in (1 .. f) \ lk :
          \/ \E i \in 1 .. a : my[i] = fd
          \/ \E n \in 1 .. Len(dlv) :
                \E i \in 1 .. Len(fds(n)) : fds(n)[i] = fd
  BY DEF FdsOut
<1>3. /\ s \in Seq(Nat) /\ b \in Nat /\ f + b <= m
      /\ \A k \in 1 .. b : s[k] = f + k
  <2>1. /\ s \in Seq(Nat) /\ f + b <= Len(AllFds(m))
        /\ \A k \in 1 .. b : s[k] = AllFds(m)[f + k]
    BY DEF Takes
  <2>2. b \in Nat /\ f + b <= m
    BY <2>1, FdNames
  <2>3. \A k \in 1 .. b : f + k \in 1 .. m
    BY <1>1, <2>2, InsideAll
  <2> QED
    BY <2>1, <2>2, <2>3, FdNames
<1>4. /\ my2 \in Seq(Nat) /\ Len(my2) = a + b /\ a \in Nat
      /\ \A k \in 1 .. a : my2[k] = my[k]
      /\ \A k \in 1 .. b : my2[a + k] = s[k]
  BY <1>1, <1>3, ConcatNat
<1> HIDE DEF my2, a, b, fds
<1>5. g \in Nat /\ f <= g /\ 1 .. f \subseteq 1 .. g /\ lk \subseteq 1 .. g
  BY <1>1, <1>3
<1>6. ASSUME NEW i \in 1 .. a + b
      PROVE  \/ i \in 1 .. a /\ my2[i] = my[i]
             \/ i > a /\ i - a \in 1 .. b /\ my2[i] = f + (i - a)
  <2>1. CASE i \in 1 .. a
    BY <1>4, <2>1
  <2>2. CASE i > a
    <3>1. i - a \in 1 .. b /\ a + (i - a) = i
      BY <1>3, <1>4, <2>2
    <3>2. my2[a + (i - a)] = f + (i - a)
      BY <1>3, <1>4, <3>1
    <3> QED
      BY <2>2, <3>1, <3>2
  <2> QED
    BY <1>3, <1>4, <2>1, <2>2
<1>7. ASSUME NEW i \in 1 .. a + b PROVE my2[i] \in (1 .. g) \ lk
  <2>1. CASE i \in 1 .. a /\ my2[i] = my[i]
    BY <1>1, <1>5, <2>1
  <2>2. CASE i > a /\ i - a \in 1 .. b /\ my2[i] = f + (i - a)
    <3>1. my2[i] \in 1 .. g /\ ~ (my2[i] \in 1 .. f)
      BY <1>1, <1>3, <2>2
    <3> QED
      BY <1>1, <3>1
  <2> QED
    BY <1>6, <2>1, <2>2
<1>8. ASSUME NEW i \in 1 .. a + b, NEW j \in 1 .. a + b, i < j
      PROVE  my2[i] < my2[j]
  <2>1. CASE j \in 1 .. a /\ my2[j] = my[j]
    <3>1. i \in 1 .. a /\ my2[i] = my[i]
      BY <1>4, <1>8, <2>1
    <3> QED
      BY <1>1, <1>8, <2>1, <3>1
  <2>2. CASE j > a /\ j - a \in 1 .. b /\ my2[j] = f + (j - a)
    <3>1. CASE i \in 1 .. a /\ my2[i] = my[i]
      <4>1. my[i] \in 1 .. f
        BY <1>1, <3>1
      <4> QED
        BY <1>1, <1>3, <2>2, <3>1, <4>1
    <3>2. CASE i > a /\ i - a \in 1 .. b /\ my2[i] = f + (i - a)
      BY <1>1, <1>3, <1>4, <1>8, <2>2, <3>2
    <3> QED
      BY <1>6, <3>1, <3>2
  <2> QED
    BY <1>6, <2>1, <2>2
<1>9. ASSUME NEW n \in 1 .. Len(dlv), NEW i \in 1 .. Len(fds(n)),
             NEW j \in 1 .. a + b
      PROVE  fds(n)[i] < my2[j]
  <2>1. CASE j \in 1 .. a /\ my2[j] = my[j]
    BY <1>1, <2>1
  <2>2. CASE j > a /\ j - a \in 1 .. b /\ my2[j] = f + (j - a)
    <3>1. fds(n)[i] \in 1 .. f
      BY <1>1
    <3> QED
      BY <1>1, <1>3, <2>2, <3>1
  <2> QED
    BY <1>6, <2>1, <2>2
<1>10. ASSUME NEW fd \in (1 .. g) \ lk
       PROVE  \/ \E i \in 1 .. a + b : my2[i] = fd
              \/ \E n \in 1 .. Len(dlv) :
                    \E i \in 1 .. Len(fds(n)) : fds(n)[i] = fd
  <2>1. CASE fd \in 1 .. f
    <3>1. CASE \E i \in 1 .. a : my[i] = fd
      <4>1. PICK i \in 1 .. a : my[i] = fd
        BY <3>1
      <4>2. i \in 1 .. a + b
        BY <1>3, <1>4
      <4> QED
        BY <1>4, <4>1, <4>2
    <3> QED
      BY <1>2, <2>1, <3>1
  <2>2. CASE fd > f
    <3>1. fd - f \in 1 .. b /\ f + (fd - f) = fd /\ a + (fd - f) \in 1 .. a + b
      BY <1>1, <1>3, <1>4, <2>2
    <3>2. my2[a + (fd - f)] = fd
      BY <1>3, <1>4, <3>1
    <3> QED
      BY <3>1, <3>2
  <2> QED
    BY <1>1, <1>5, <2>1, <2>2
<1>11. \A n \in 1 .. Len(dlv) :
          \A i \in 1 .. Len(dlv[n].fds) : dlv[n].fds[i] \in (1 .. g) \ lk
  BY <1>1, <1>5 DEF fds
<1>12. \A m1, n \in 1 .. Len(dlv) :
          \A i \in 1 .. Len(dlv[m1].fds), j \in 1 .. Len(dlv[n].fds) :
             (m1 < n \/ (m1 = n /\ i < j)) => dlv[m1].fds[i] < dlv[n].fds[j]
  BY DEF FdsOut
<1>13. FdsOut(g, my2, dlv, lk)
  BY <1>1, <1>4, <1>5, <1>7, <1>8, <1>9, <1>10, <1>11, <1>12 DEF FdsOut, fds
<1> QED
  BY <1>13 DEF my2, b

-----------------------------------------------------------------------------
(* A file descriptor of a sequence. *)
LEMMA InRange ==
    ASSUME NEW s \in Seq(Nat), NEW x
    PROVE  x \in Range(s) <=> \E i \in 1 .. Len(s) : s[i] = x
BY DEF Range

(* The call returns a packet with its file descriptors ... *)
LEMMA FdsOutDeliver ==
    ASSUME NEW f, NEW my, NEW dlv, NEW lk, FdsOut(f, my, dlv, lk),
           NEW p \in Packets, p.fds = my
    PROVE  FdsOut(f, <<>>, Append(dlv, p), lk)
<1> DEFINE dlv2 == Append(dlv, p)
           l == Len(dlv)
<1>1. /\ f \in Nat /\ my \in Seq(Nat) /\ dlv \in Seq(Packets) /\ lk \subseteq 1 .. f
  BY DEF FdsOut
<1>2. /\ l \in Nat /\ Len(dlv2) = l + 1 /\ dlv2[l + 1] = p
      /\ dlv2 \in Seq(Packets)
      /\ \A i \in 1 .. l : dlv2[i] = dlv[i]
  BY <1>1, Longer
<1> HIDE DEF dlv2, l
<1>3. ASSUME NEW n \in 1 .. l + 1
      PROVE  \/ n \in 1 .. l /\ dlv2[n].fds = dlv[n].fds
             \/ n = l + 1 /\ dlv2[n].fds = my
  BY <1>2
<1>4. ASSUME NEW n \in 1 .. l + 1, NEW i \in 1 .. Len(dlv2[n].fds)
      PROVE  dlv2[n].fds[i] \in (1 .. f) \ lk
  BY <1>3 DEF FdsOut, l
<1>5. ASSUME NEW m \in 1 .. l + 1, NEW n \in 1 .. l + 1,
             NEW i \in 1 .. Len(dlv2[m].fds), NEW j \in 1 .. Len(dlv2[n].fds),
             m < n \/ (m = n /\ i < j)
      PROVE  dlv2[m].fds[i] < dlv2[n].fds[j]
  <2>1. CASE n \in 1 .. l /\ dlv2[n].fds = dlv[n].fds
    <3>1. m \in 1 .. l /\ dlv2[m].fds = dlv[m].fds
      BY <1>2, <1>3, <1>5, <2>1
    <3> QED
      BY <1>5, <2>1, <3>1 DEF FdsOut, l
  <2>2. CASE n = l + 1 /\ dlv2[n].fds = my
    <3>1. CASE m \in 1 .. l /\ dlv2[m].fds = dlv[m].fds
      BY <2>2, <3>1 DEF FdsOut, l
    <3>2. CASE m = l + 1 /\ dlv2[m].fds = my
      <4>1. i < j
        BY <1>2, <1>5, <2>2, <3>2
      <4> QED
        BY <2>2, <3>2, <4>1 DEF FdsOut
    <3> QED
      BY <1>3, <3>1, <3>2
  <2> QED
    BY <1>3, <2>1, <2>2
<1>6. ASSUME NEW fd \in (1 .. f) \ lk
      PROVE  \E n \in 1 .. l + 1 : \E i \in 1 .. Len(dlv2[n].fds) :
                dlv2[n].fds[i] = fd
  <2>1. CASE \E i \in 1 .. Len(my) : my[i] = fd
    <3>1. l + 1 \in 1 .. l + 1 /\ dlv2[l + 1].fds = my
      BY <1>2
    <3> QED
      BY <2>1, <3>1
  <2>2. CASE \E n \in 1 .. l : \E i \in 1 .. Len(dlv[n].fds) : dlv[n].fds[i] = fd
    <3>1. PICK n \in 1 .. l : \E i \in 1 .. Len(dlv[n].fds) : dlv[n].fds[i] = fd
      BY <2>2
    <3>2. n \in 1 .. l + 1 /\ dlv2[n].fds = dlv[n].fds
      BY <1>2
    <3> QED
      BY <3>1, <3>2
  <2> QED
    BY <2>1, <2>2 DEF FdsOut, l
<1>7. <<>> \in Seq(Nat) /\ Len(<<>>) = 0 /\ 1 .. 0 = {}
  OBVIOUS
<1>8. FdsOut(f, <<>>, dlv2, lk)
  BY <1>1, <1>2, <1>4, <1>5, <1>6, <1>7 DEF FdsOut
<1> QED
  BY <1>8 DEF dlv2

(* ... or drops them. *)
LEMMA FdsOutLeak ==
    ASSUME NEW f, NEW my, NEW dlv, NEW lk, FdsOut(f, my, dlv, lk)
    PROVE  FdsOut(f, <<>>, dlv, lk \cup Range(my))
<1> DEFINE lk2 == lk \cup Range(my)
<1>1. /\ f \in Nat /\ my \in Seq(Nat) /\ dlv \in Seq(Packets) /\ lk \subseteq 1 .. f
      /\ \A i \in 1 .. Len(my) : my[i] \in (1 .. f) \ lk
      /\ \A n \in 1 .. Len(dlv) :
            \A i \in 1 .. Len(dlv[n].fds) : dlv[n].fds[i] \in (1 .. f) \ lk
      /\ \A n \in 1 .. Len(dlv) :
            \A i \in 1 .. Len(dlv[n].fds), j \in 1 .. Len(my) :
               dlv[n].fds[i] < my[j]
  BY DEF FdsOut
<1>2. /\ \A m, n \in 1 .. Len(dlv) :
            \A i \in 1 .. Len(dlv[m].fds), j \in 1 .. Len(dlv[n].fds) :
               (m < n \/ (m = n /\ i < j)) => dlv[m].fds[i] < dlv[n].fds[j]
      /\ \A fd \in (1 .. f) \ lk :
            \/ \E i \in 1 .. Len(my) : my[i] = fd
            \/ \E n \in 1 .. Len(dlv) :
                  \E i \in 1 .. Len(dlv[n].fds) : dlv[n].fds[i] = fd
  BY DEF FdsOut
<1>3. \A x : x \in Range(my) <=> \E i \in 1 .. Len(my) : my[i] = x
  BY <1>1, InRange
<1> HIDE DEF lk2
<1>4. lk2 \subseteq 1 .. f
  BY <1>1, <1>3 DEF lk2
<1>5. ASSUME NEW n \in 1 .. Len(dlv), NEW i \in 1 .. Len(dlv[n].fds)
      PROVE  dlv[n].fds[i] \in (1 .. f) \ lk2
  <2> DEFINE x == dlv[n].fds[i]
  <2>1. x \in (1 .. f) \ lk /\ \A j \in 1 .. Len(my) : x < my[j]
    BY <1>1
  <2> HIDE DEF x
  <2>2. ASSUME NEW j \in 1 .. Len(my) PROVE x # my[j]
    <3>1. x < my[j] /\ x \in Nat
      BY <1>1, <2>1
    <3> QED
      BY <3>1
  <2> QED
    BY <1>3, <2>1, <2>2 DEF lk2, x
<1>6. \A fd \in (1 .. f) \ lk2 :
         \E n \in 1 .. Len(dlv) : \E i \in 1 .. Len(dlv[n].fds) :
            dlv[n].fds[i] = fd
  BY <1>2, <1>3 DEF lk2
<1>7. <<>> \in Seq(Nat) /\ Len(<<>>) = 0 /\ 1 .. 0 = {}
  OBVIOUS
<1>8. FdsOut(f, <<>>, dlv, lk2)
  BY <1>1, <1>2, <1>4, <1>5, <1>6, <1>7 DEF FdsOut
<1> QED
  BY <1>8 DEF lk2

-----------------------------------------------------------------------------
(* All of it: w and my are the words and file descriptors of the call in   *)
(* progress; when the stream is over, the words of an unfinished header    *)
(* may be lost.                                                            *)
AccountOf(evs, exp, m, queue, buf, bfds, w, my, dlv, lk, der, over,
          wire, at, fat, rank, cuts, fcuts) ==
    /\ Streamed(evs, exp, m, queue, buf, bfds, wire, at, fat, rank, cuts, fcuts)
    /\ w \in Seq(Nat)
    /\ FdsOut(fcuts[1], my, dlv, lk)
    /\ der \/ /\ Returned(exp, dlv) /\ Arrived(exp, dlv, lk)
              /\ \/ Reading(evs, wire, at, rank, cuts[1], w, Len(dlv))
                 \/ over /\ w = <<>>

Account(evs, exp, m, queue, buf, bfds, w, my, dlv, lk, der, over) ==
    \E wire, at, fat, rank, cuts, fcuts :
       AccountOf(evs, exp, m, queue, buf, bfds, w, my, dlv, lk, der, over,
                 wire, at, fat, rank, cuts, fcuts)

(* What the parts say of the whole. *)
LEMMA StreamedFacts ==
    ASSUME NEW evs, NEW exp, NEW m, NEW queue, NEW buf, NEW bfds,
           NEW wire, NEW at, NEW fat, NEW rank, NEW cuts, NEW fcuts,
           Streamed(evs, exp, m, queue, buf, bfds, wire, at, fat, rank, cuts,
                    fcuts)
    PROVE  /\ Written(evs, exp, m, wire, at, fat, rank)
           /\ evs \in Seq(Events) /\ Len(evs) \in Nat
           /\ exp \in Seq(Packets) /\ Len(exp) \in Nat /\ m \in Nat
           /\ wire \in Seq(Nat) /\ Len(wire) \in Nat
           /\ queue \in Seq(Segments) /\ Len(queue) \in Nat
           /\ cuts[1] \in Nat /\ cuts[1] <= Len(wire)
           /\ fcuts[1] \in Nat /\ fcuts[1] <= m
           /\ \A i \in 1 .. Len(evs) + 1 : at[i] \in Nat
           /\ \A i \in 1 .. Len(evs) :
                 at[i] < cuts[1] => fat[i + 1] <= fcuts[1]
<1>1. /\ Written(evs, exp, m, wire, at, fat, rank)
      /\ queue \in Seq(Segments)
      /\ Carries(Len(queue), WordParts(queue), buf, wire, cuts)
      /\ Carries(Len(queue), FdParts(queue), bfds, AllFds(m), fcuts)
      /\ InTime(Len(evs), at, fat, Len(queue), cuts, fcuts)
  BY DEF Streamed
<1>2. /\ evs \in Seq(Events) /\ Len(evs) \in Nat
      /\ exp \in Seq(Packets) /\ Len(exp) \in Nat /\ m \in Nat
      /\ wire \in Seq(Nat) /\ Len(wire) \in Nat
      /\ at \in [1 .. Len(evs) + 1 -> 0 .. Len(wire)]
  BY <1>1 DEF Written
<1>3. Len(queue) \in Nat /\ 1 \in 1 .. Len(queue) + 1
  BY <1>1
<1>4. cuts[1] \in 0 .. Len(wire)
  BY <1>1, <1>3 DEF Carries
<1>5. fcuts[1] \in 0 .. m
  BY <1>1, <1>2, <1>3, FdNames DEF Carries
<1>6. \A i \in 1 .. Len(evs) : at[i] < cuts[1] => fat[i + 1] <= fcuts[1]
  BY <1>1, <1>3 DEF InTime
<1> QED
  BY <1>1, <1>2, <1>3, <1>4, <1>5, <1>6

(* Each kind of step keeps the account: an event is written, *)
LEMMA AccountWrite ==
    ASSUME NEW evs, NEW exp, NEW m, NEW queue, NEW buf, NEW bfds, NEW w,
           NEW my, NEW dlv, NEW lk, NEW der,
           Account(evs, exp, m, queue, buf, bfds, w, my, dlv, lk, der, FALSE),
           NEW e \in Events
    PROVE  Account(Append(evs, e), ExpectedAfter(exp, e, m), m + e.fds, queue,
                   WireAfter(buf, e), bfds \o [i \in 1 .. e.fds |-> m + i],
                   w, my, dlv, lk, der, FALSE)
<1>1. PICK wire, at, fat, rank, cuts, fcuts :
         AccountOf(evs, exp, m, queue, buf, bfds, w, my, dlv, lk, der, FALSE,
                   wire, at, fat, rank, cuts, fcuts)
  BY Zenon DEF Account
<1> DEFINE evs2 == Append(evs, e)
           exp2 == ExpectedAfter(exp, e, m)
           buf2 == WireAfter(buf, e)
           bfds2 == bfds \o [i \in 1 .. e.fds |-> m + i]
           wire2 == WireAfter(wire, e)
           at2 == OneMoreEnd(at, Len(evs), Len(WireAfter(wire, e)))
           fat2 == OneMoreEnd(fat, Len(evs), m + e.fds)
           rank2 == OneMoreEnd(rank, Len(evs), Len(ExpectedAfter(exp, e, m)))
<1>2. /\ Streamed(evs, exp, m, queue, buf, bfds, wire, at, fat, rank, cuts,
                  fcuts)
      /\ w \in Seq(Nat) /\ FdsOut(fcuts[1], my, dlv, lk)
  BY <1>1, Zenon DEF AccountOf
<1>3. /\ Written(evs, exp, m, wire, at, fat, rank)
      /\ exp \in Seq(Packets) /\ m \in Nat
      /\ cuts[1] \in Nat /\ cuts[1] <= Len(wire)
  BY <1>2, StreamedFacts
<1>4. dlv \in Seq(Packets)
  BY <1>2 DEF FdsOut
<1>5. Streamed(evs2, exp2, m + e.fds, queue, buf2, bfds2, wire2, at2, fat2,
               rank2, cuts, fcuts)
  BY <1>2, StreamedWrite, Zenon
<1>6. der \/ /\ Returned(exp2, dlv) /\ Arrived(exp2, dlv, lk)
             /\ Reading(evs2, wire2, at2, rank2, cuts[1], w, Len(dlv))
  <2> SUFFICES ASSUME ~ der
               PROVE  /\ Returned(exp2, dlv) /\ Arrived(exp2, dlv, lk)
                      /\ Reading(evs2, wire2, at2, rank2, cuts[1], w, Len(dlv))
    BY Zenon
  <2>1. /\ Returned(exp, dlv) /\ Arrived(exp, dlv, lk)
        /\ Reading(evs, wire, at, rank, cuts[1], w, Len(dlv))
    BY <1>1, Zenon DEF AccountOf
  <2>2. Returned(exp2, dlv) /\ Arrived(exp2, dlv, lk)
    BY <1>3, <1>4, <2>1, ReturnedWrite, Zenon
  <2>3. Reading(evs2, wire2, at2, rank2, cuts[1], w, Len(dlv))
    BY <1>2, <1>3, <2>1, ReadingWrite, Zenon
  <2> QED
    BY <2>2, <2>3, Zenon
<1> HIDE DEF evs2, exp2, buf2, bfds2, wire2, at2, fat2, rank2
<1>7. AccountOf(evs2, exp2, m + e.fds, queue, buf2, bfds2, w, my, dlv, lk, der,
                FALSE, wire2, at2, fat2, rank2, cuts, fcuts)
  BY <1>2, <1>5, <1>6, Zenon DEF AccountOf
<1>8. Account(evs2, exp2, m + e.fds, queue, buf2, bfds2, w, my, dlv, lk, der,
              FALSE)
  BY <1>7, Zenon DEF Account
<1> QED
  BY <1>8, Zenon DEF evs2, exp2, buf2, bfds2

(* some words are flushed, *)
LEMMA AccountFlush ==
    ASSUME NEW evs, NEW exp, NEW m, NEW queue, NEW buf, NEW bfds, NEW w,
           NEW my, NEW dlv, NEW lk, NEW der,
           Account(evs, exp, m, queue, buf, bfds, w, my, dlv, lk, der, FALSE),
           NEW n \in 1 .. Len(buf)
    PROVE  Account(evs, exp, m, Append(queue, Segment(SubSeq(buf, 1, n), bfds)),
                   SubSeq(buf, n + 1, Len(buf)), <<>>,
                   w, my, dlv, lk, der, FALSE)
<1>1. PICK wire, at, fat, rank, cuts, fcuts :
         AccountOf(evs, exp, m, queue, buf, bfds, w, my, dlv, lk, der, FALSE,
                   wire, at, fat, rank, cuts, fcuts)
  BY Zenon DEF Account
<1> DEFINE q == Len(queue)
           queue2 == Append(queue, Segment(SubSeq(buf, 1, n), bfds))
           buf2 == SubSeq(buf, n + 1, Len(buf))
           cuts2 == OneMoreEnd(cuts, q, cuts[q + 1] + n)
           fcuts2 == OneMoreEnd(fcuts, q, m)
<1>2. /\ Streamed(evs, exp, m, queue, buf, bfds, wire, at, fat, rank, cuts,
                  fcuts)
      /\ w \in Seq(Nat) /\ FdsOut(fcuts[1], my, dlv, lk)
  BY <1>1, Zenon DEF AccountOf
<1>3. q \in Nat
  BY <1>2, StreamedFacts
<1>4. Streamed(evs, exp, m, queue2, buf2, <<>>, wire, at, fat, rank, cuts2,
               fcuts2)
  BY <1>2, StreamedFlush, Zenon
<1>5. cuts2[1] = cuts[1] /\ fcuts2[1] = fcuts[1]
  <2>1. 1 \in 1 .. q + 2 /\ 1 <= q + 1
    BY <1>3
  <2> QED
    BY <2>1 DEF OneMoreEnd
<1> HIDE DEF queue2, buf2, cuts2, fcuts2
<1>6. AccountOf(evs, exp, m, queue2, buf2, <<>>, w, my, dlv, lk, der, FALSE,
                wire, at, fat, rank, cuts2, fcuts2)
  BY <1>1, <1>4, <1>5, Zenon DEF AccountOf
<1>7. Account(evs, exp, m, queue2, buf2, <<>>, w, my, dlv, lk, der, FALSE)
  BY <1>6, Zenon DEF Account
<1> QED
  BY <1>7, Zenon DEF queue2, buf2

(* the call reads at most n words, *)
LEMMA AccountRead ==
    ASSUME NEW evs, NEW exp, NEW m, NEW queue, NEW buf, NEW bfds, NEW w,
           NEW my, NEW dlv, NEW lk, NEW der,
           Account(evs, exp, m, queue, buf, bfds, w, my, dlv, lk, der, FALSE),
           queue # <<>>, NEW n \in Nat
    PROVE  Account(evs, exp, m, Receive(queue, n).queue, buf, bfds,
                   w \o Receive(queue, n).words, my \o Receive(queue, n).fds,
                   dlv, lk, der, FALSE)
<1>1. PICK wire, at, fat, rank, cuts, fcuts :
         AccountOf(evs, exp, m, queue, buf, bfds, w, my, dlv, lk, der, FALSE,
                   wire, at, fat, rank, cuts, fcuts)
  BY Zenon DEF Account
<1> DEFINE ws == Receive(queue, n).words
           fds == Receive(queue, n).fds
           queue2 == Receive(queue, n).queue
<1>2. /\ Streamed(evs, exp, m, queue, buf, bfds, wire, at, fat, rank, cuts,
                  fcuts)
      /\ w \in Seq(Nat) /\ FdsOut(fcuts[1], my, dlv, lk)
  BY <1>1, Zenon DEF AccountOf
<1>3. /\ Takes(ws, wire, cuts[1]) /\ Takes(fds, AllFds(m), fcuts[1])
      /\ \E cuts2, fcuts2 :
            /\ Streamed(evs, exp, m, queue2, buf, bfds, wire, at, fat, rank,
                        cuts2, fcuts2)
            /\ cuts2[1] = cuts[1] + Len(ws)
            /\ fcuts2[1] = fcuts[1] + Len(fds)
  BY <1>2, StreamedReceive
<1> HIDE DEF ws, fds, queue2
<1>4. PICK cuts2, fcuts2 :
         /\ Streamed(evs, exp, m, queue2, buf, bfds, wire, at, fat, rank,
                     cuts2, fcuts2)
         /\ cuts2[1] = cuts[1] + Len(ws)
         /\ fcuts2[1] = fcuts[1] + Len(fds)
  BY <1>3, Zenon
<1>5. /\ m \in Nat /\ cuts[1] \in Nat
      /\ \A i \in 1 .. Len(evs) + 1 : at[i] \in Nat
  BY <1>2, StreamedFacts
<1>6. FdsOut(fcuts2[1], my \o fds, dlv, lk)
  BY <1>2, <1>3, <1>4, <1>5, FdsOutTake, Zenon
<1>7. w \o ws \in Seq(Nat)
  <2>1. ws \in Seq(Nat)
    BY <1>3 DEF Takes
  <2> QED
    BY <1>2, <2>1
<1>8. der \/ /\ Returned(exp, dlv) /\ Arrived(exp, dlv, lk)
             /\ Reading(evs, wire, at, rank, cuts2[1], w \o ws, Len(dlv))
  <2> SUFFICES ASSUME ~ der
               PROVE  /\ Returned(exp, dlv) /\ Arrived(exp, dlv, lk)
                      /\ Reading(evs, wire, at, rank, cuts2[1], w \o ws, Len(dlv))
    BY Zenon
  <2>1. /\ Returned(exp, dlv) /\ Arrived(exp, dlv, lk)
        /\ Reading(evs, wire, at, rank, cuts[1], w, Len(dlv))
    BY <1>1, Zenon DEF AccountOf
  <2>2. Reading(evs, wire, at, rank, cuts[1] + Len(ws), w \o ws, Len(dlv))
    BY <1>2, <1>3, <1>5, <2>1, ReadingTake, Zenon
  <2> QED
    BY <1>4, <2>1, <2>2, Zenon
<1>9. AccountOf(evs, exp, m, queue2, buf, bfds, w \o ws, my \o fds, dlv, lk,
                der, FALSE, wire, at, fat, rank, cuts2, fcuts2)
  BY <1>4, <1>6, <1>7, <1>8, Zenon DEF AccountOf
<1>10. Account(evs, exp, m, queue2, buf, bfds, w \o ws, my \o fds, dlv, lk,
               der, FALSE)
  BY <1>9, Zenon DEF Account
<1> QED
  BY <1>10, Zenon DEF ws, fds, queue2

-----------------------------------------------------------------------------
(* The packet that recv_packet makes of what it has received. *)
PacketFrom(w, my) ==
    [id |-> w[1], opcode |-> OpcodeField(w[2]),
     payload |-> SubSeq(w, HeaderWords + 1, Len(w)), fds |-> my]

(* Its payload is the words behind the header. *)
LEMMA PacketMade ==
    ASSUME NEW w \in Seq(Nat), Len(w) >= 2, NEW my \in Seq(Nat)
    PROVE  /\ PacketFrom(w, my) \in Packets
           /\ Len(PacketFrom(w, my).payload) = Len(w) - 2
           /\ \A k \in 1 .. Len(w) - 2 : PacketFrom(w, my).payload[k] = w[2 + k]
<1> DEFINE s == SubSeq(w, 3, Len(w))
           l == Len(w)
<1>1. l \in Nat /\ l >= 2 /\ w[1] \in Nat /\ w[2] \in Nat
  OBVIOUS
<1>2. /\ s \in Seq(Nat)
      /\ Len(s) = IF 3 <= l THEN l - 3 + 1 ELSE 0
      /\ \A k \in 1 .. l - 3 + 1 : s[k] = w[3 + k - 1]
  <2>1. \A k \in 3 .. l : w[k] \in Nat
    OBVIOUS
  <2> QED
    BY SMTT(40), <1>1, <2>1, SubSeqProperties
<1> HIDE DEF s, l
<1>3. Len(s) = l - 2
  BY <1>1, <1>2
<1>4. ASSUME NEW k \in 1 .. l - 2 PROVE s[k] = w[2 + k]
  <2>1. k \in 1 .. l - 3 + 1 /\ 3 + k - 1 = 2 + k
    BY <1>1
  <2> QED
    BY <1>2, <2>1
<1>5. OpcodeField(w[2]) \in Nat
  BY <1>1 DEF OpcodeField
<1>6. PacketFrom(w, my) = [id |-> w[1], opcode |-> OpcodeField(w[2]),
                           payload |-> s, fds |-> my]
  BY DEF PacketFrom, s, HeaderWords
<1> QED
  BY <1>1, <1>2, <1>3, <1>4, <1>5, <1>6 DEF Packets, l

(* Sequences of words that are equal word by word. *)
LEMMA SameSeq ==
    ASSUME NEW s \in Seq(Nat), NEW r \in Seq(Nat), Len(s) = Len(r),
           \A k \in 1 .. Len(s) : s[k] = r[k]
    PROVE  s = r
BY SeqEqual

(* What a header announces is the payload of its event. *)
LEMMA Announced ==
    ASSUME NEW e \in Events, NEW w \in Seq(Nat), Len(w) >= 2, HeaderOf(e, w)
    PROVE  /\ ~ Malformed(w) => WellFormed(e)
                                /\ PayloadWords(w[2]) = Len(e.payload)
           /\ Malformed(w) => ~ WellFormed(e)
           /\ ~ (SizeField(w[2]) > HeaderBytes) => Len(e.payload) = 0
           /\ Len(e.payload) \in Nat
<1>1. /\ e.size \in Nat /\ e.id \in Nat /\ Len(e.payload) \in Nat
      /\ e.size >= 8 => e.size = 8 + 4 * Len(e.payload)
      /\ e.size < 8 => Len(e.payload) = 0
      /\ SizeField(w[2]) = e.size /\ w[1] = e.id
  BY RecvAssumption DEF HeaderOf, HeaderBytes, WordBytes
<1> DEFINE l == Len(e.payload)
<1>2. /\ e.size >= 8 => (e.size - 8) \div 4 = l
      /\ ~ (e.size > 8) => l = 0
  <2>1. l \in Nat /\ (e.size >= 8 => e.size = 8 + 4 * l) /\ e.size \in Nat
        /\ (e.size < 8 => l = 0)
    BY <1>1
  <2> HIDE DEF l
  <2> QED
    BY <2>1
<1>3. Malformed(w) <=> ~ WellFormed(e)
  BY <1>1 DEF Malformed, WellFormed, HeaderBytes
<1>4. WellFormed(e) => e.size >= 8
  BY DEF WellFormed, HeaderBytes
<1>5. PayloadWords(w[2]) = (e.size - 8) \div 4
  BY <1>1 DEF PayloadWords, HeaderBytes, WordBytes
<1>6. ~ (SizeField(w[2]) > HeaderBytes) => l = 0
  BY <1>1, <1>2 DEF HeaderBytes
<1> QED
  BY <1>1, <1>2, <1>3, <1>4, <1>5, <1>6

(* The packet made of an event's words is the one expected. *)
LEMMA MadeAsExpected ==
    ASSUME NEW e \in Events, NEW w \in Seq(Nat), Len(w) >= 2, HeaderOf(e, w),
           Len(w) = EventWords(e), NEW my \in Seq(Nat), NEW first
    PROVE  ReturnedAs(PacketFrom(w, my), Packet(e, first))
<1> DEFINE s == PacketFrom(w, my).payload
           q == Len(e.payload)
<1>1. /\ PacketFrom(w, my) \in Packets /\ Len(s) = Len(w) - 2
      /\ \A k \in 1 .. Len(w) - 2 : s[k] = w[2 + k]
  BY PacketMade
<1>2. s \in Seq(Nat)
  BY <1>1 DEF Packets
<1>3. e.payload \in Seq(Nat) /\ q \in Nat
  BY EventFields
<1>4. Len(w) - 2 = q
  BY <1>3 DEF EventWords
<1>5. \A k \in 1 .. q : w[2 + k] = e.payload[k]
  <2> TAKE k \in 1 .. q
  <2>1. k <= q
    BY <1>3
  <2>2. k \in 1 .. Len(w) - 2
    BY <1>4, Zenon
  <2> HIDE DEF q
  <2> QED
    BY <2>1, <2>2, Zenon DEF HeaderOf, q
<1>6. s = e.payload
  <2>1. Len(s) = Len(e.payload)
    BY <1>1, <1>4
  <2>2. \A k \in 1 .. Len(s) : s[k] = e.payload[k]
    BY <1>1, <1>4, <1>5
  <2> HIDE DEF s
  <2> QED
    BY <1>2, <1>3, <2>1, <2>2, SameSeq
<1>7. /\ PacketFrom(w, my).id = e.id
      /\ PacketFrom(w, my).opcode = e.opcode % 256
  BY DEF PacketFrom, HeaderOf
<1> QED
  BY <1>6, <1>7 DEF ReturnedAs, Packet

(* The file descriptors of the next packet are not those to come. *)
LEMMA FdsOfNext ==
    ASSUME NEW f, NEW my, NEW dlv, NEW lk, FdsOut(f, my, dlv, lk),
           NEW e \in Events, NEW first \in Nat, first + e.fds <= f
    PROVE  \A fd \in Range(Packet(e, first).fds) \ lk :
              \/ fd \in Range(my)
              \/ \E k \in 1 .. Len(dlv) : fd \in Range(dlv[k].fds)
<1>1. /\ f \in Nat /\ my \in Seq(Nat) /\ dlv \in Seq(Packets)
      /\ \A fd \in (1 .. f) \ lk :
            \/ \E i \in 1 .. Len(my) : my[i] = fd
            \/ \E n \in 1 .. Len(dlv) :
                  \E i \in 1 .. Len(dlv[n].fds) : dlv[n].fds[i] = fd
  BY DEF FdsOut
<1>2. e.fds \in Nat
  BY EventFields
<1>3. Range(Packet(e, first).fds) \subseteq 1 .. f
  <2> DEFINE fds == [i \in 1 .. e.fds |-> first + i]
  <2>1. Range(Packet(e, first).fds) = {first + i : i \in 1 .. e.fds}
    BY Zenon DEF Packet, Range
  <2>2. \A i \in 1 .. e.fds : first + i \in 1 .. f
    BY <1>1, <1>2
  <2> QED
    BY <2>1, <2>2
<1>4. \A n \in 1 .. Len(dlv) : dlv[n].fds \in Seq(Nat)
  <2> TAKE n \in 1 .. Len(dlv)
  <2>1. dlv[n] \in Packets
    BY <1>1
  <2> QED
    BY <2>1 DEF Packets
<1>5. ASSUME NEW fd \in Range(Packet(e, first).fds) \ lk
      PROVE  \/ fd \in Range(my)
             \/ \E k \in 1 .. Len(dlv) : fd \in Range(dlv[k].fds)
  <2>1. fd \in (1 .. f) \ lk
    BY <1>3
  <2>2. CASE \E i \in 1 .. Len(my) : my[i] = fd
    BY <1>1, <2>2, InRange
  <2>3. CASE \E n \in 1 .. Len(dlv) :
                \E i \in 1 .. Len(dlv[n].fds) : dlv[n].fds[i] = fd
    <3>1. PICK n \in 1 .. Len(dlv) :
             \E i \in 1 .. Len(dlv[n].fds) : dlv[n].fds[i] = fd
      BY <2>3
    <3>2. fd \in Range(dlv[n].fds)
      BY <1>4, <3>1, InRange
    <3> QED
      BY <3>2
  <2> QED
    BY <1>1, <2>1, <2>2, <2>3
<1> QED
  BY <1>5

(* The call returns the packet that it has read. *)
LEMMA AccountDeliver ==
    ASSUME NEW evs, NEW exp, NEW m, NEW queue, NEW buf, NEW bfds, NEW w,
           NEW my, NEW dlv, NEW lk, NEW der, NEW over,
           Account(evs, exp, m, queue, buf, bfds, w, my, dlv, lk, der, over),
           Len(w) >= 2, ~ Malformed(w), Len(w) = 2 + PayloadWords(w[2])
    PROVE  Account(evs, exp, m, queue, buf, bfds, <<>>, <<>>,
                   Append(dlv, PacketFrom(w, my)), lk, der, over)
<1>1. PICK wire, at, fat, rank, cuts, fcuts :
         AccountOf(evs, exp, m, queue, buf, bfds, w, my, dlv, lk, der, over,
                   wire, at, fat, rank, cuts, fcuts)
  BY Zenon DEF Account
<1> DEFINE p == PacketFrom(w, my)
           dlv2 == Append(dlv, p)
           d == Len(dlv)
<1>2. /\ Streamed(evs, exp, m, queue, buf, bfds, wire, at, fat, rank, cuts,
                  fcuts)
      /\ w \in Seq(Nat) /\ FdsOut(fcuts[1], my, dlv, lk)
  BY <1>1, Zenon DEF AccountOf
<1>3. my \in Seq(Nat) /\ dlv \in Seq(Packets) /\ d \in Nat
  BY <1>2 DEF FdsOut
<1>4. /\ Written(evs, exp, m, wire, at, fat, rank) /\ evs \in Seq(Events)
      /\ Len(evs) \in Nat
      /\ exp \in Seq(Packets) /\ Len(exp) \in Nat
      /\ cuts[1] \in Nat /\ cuts[1] <= Len(wire) /\ fcuts[1] \in Nat
      /\ \A i \in 1 .. Len(evs) + 1 : at[i] \in Nat
      /\ \A i \in 1 .. Len(evs) : at[i] < cuts[1] => fat[i + 1] <= fcuts[1]
  BY <1>2, StreamedFacts
<1>5. p \in Packets /\ p.fds = my
  BY <1>2, <1>3, PacketMade DEF PacketFrom
<1> HIDE DEF p, d
<1>6. FdsOut(fcuts[1], <<>>, dlv2, lk)
  BY <1>2, <1>5, FdsOutDeliver, Zenon
<1>7. Len(dlv2) = d + 1
  BY <1>3, <1>5 DEF d
<1> HIDE DEF dlv2
<1>8. der \/ /\ Returned(exp, dlv2) /\ Arrived(exp, dlv2, lk)
             /\ Reading(evs, wire, at, rank, cuts[1], <<>>, Len(dlv2))
  <2> SUFFICES ASSUME ~ der
               PROVE  /\ Returned(exp, dlv2) /\ Arrived(exp, dlv2, lk)
                      /\ Reading(evs, wire, at, rank, cuts[1], <<>>, Len(dlv2))
    BY Zenon
  <2>1. w # <<>>
    OBVIOUS
  <2>2. /\ Returned(exp, dlv) /\ Arrived(exp, dlv, lk)
        /\ Reading(evs, wire, at, rank, cuts[1], w, d)
    BY <1>1, <2>1, Zenon DEF AccountOf, d
  <2>3. PICK i \in 1 .. Len(evs) :
           ReadingOf(wire, at, rank, cuts[1], w, d, i) /\ HeaderOf(evs[i], w)
    BY <1>2, <1>4, <2>2, HeaderRead
  <2> DEFINE e == evs[i]
  <2>4. e \in Events
    BY <1>4
  <2> HIDE DEF e
  <2>5. HeaderOf(e, w)
    BY <2>3 DEF e
  <2>6. WellFormed(e) /\ PayloadWords(w[2]) = Len(e.payload)
    BY <1>2, <2>4, <2>5, Announced
  <2>7. Len(w) = EventWords(e)
    BY <2>6 DEF EventWords
  <2>8. Reading(evs, wire, at, rank, cuts[1], <<>>, rank[i + 1])
    BY <1>2, <1>4, <2>3, <2>7, EventRead DEF e
  <2>9. /\ rank[i + 1] = d + 1 /\ exp[d + 1] = Packet(e, fat[i])
        /\ fat[i + 1] = fat[i] + e.fds
        /\ fat[i] \in Nat /\ d + 1 <= Len(exp)
    <3>1. /\ Follows(evs, exp, wire, at, fat, rank, i)
          /\ fat \in [1 .. Len(evs) + 1 -> 0 .. m] /\ m \in Nat
          /\ rank \in [1 .. Len(evs) + 1 -> 0 .. Len(exp)]
      BY <1>4 DEF Written
    <3>2. /\ rank[i + 1] = rank[i] + 1 /\ rank[i] = d
          /\ exp[rank[i + 1]] = Packet(e, fat[i])
          /\ fat[i + 1] = fat[i] + e.fds
      BY <2>3, <2>6, <3>1 DEF Follows, ReadingOf, e
    <3>3. i \in 1 .. Len(evs) + 1 /\ i + 1 \in 1 .. Len(evs) + 1
      BY <1>4, Between
    <3>4. rank[i + 1] \in 0 .. Len(exp) /\ fat[i] \in 0 .. m
      BY <3>1, <3>3
    <3>5. fat[i] \in Nat /\ rank[i + 1] <= Len(exp)
      BY <1>4, <3>1, <3>4
    <3> QED
      BY <3>2, <3>5
  <2>10. fat[i + 1] <= fcuts[1]
    <3>1. cuts[1] = at[i] + Len(w)
      BY <2>3 DEF ReadingOf
    <3>2. at[i] \in Nat /\ Len(w) \in Nat
      BY <1>2, <1>4
    <3>3. at[i] < cuts[1]
      BY <3>1, <3>2
    <3> QED
      BY <1>4, <3>3
  <2>11. Returned(exp, dlv2)
    <3>1. ReturnedAs(p, exp[d + 1])
      BY <1>2, <1>3, <2>4, <2>5, <2>7, <2>9, MadeAsExpected DEF p
    <3>2. Returned(exp, Append(dlv, p))
      BY <1>3, <1>4, <1>5, <2>2, <2>9, <3>1, ReturnedDeliver DEF d
    <3> QED
      BY <3>2 DEF dlv2
  <2>12. Arrived(exp, dlv2, lk)
    <3>1. fat[i] + e.fds <= fcuts[1]
      BY <2>9, <2>10, Zenon
    <3>2. \A fd \in Range(Packet(e, fat[i]).fds) \ lk :
              \/ fd \in Range(my)
              \/ \E k \in 1 .. Len(dlv) : fd \in Range(dlv[k].fds)
      <4>1. /\ FdsOut(fcuts[1], my, dlv, lk) /\ e \in Events
            /\ fat[i] \in Nat
        BY <1>2, <2>4, <2>9
      <4> QED
        BY <3>1, <4>1, FdsOfNext
    <3>3. \A fd \in Range(exp[Len(dlv) + 1].fds) \ lk :
              \/ fd \in Range(p.fds)
              \/ \E k \in 1 .. Len(dlv) : fd \in Range(dlv[k].fds)
      BY <1>5, <2>9, <3>2 DEF d
    <3>4. Arrived(exp, Append(dlv, p), lk)
      BY <1>3, <1>5, <2>2, <3>3, ArrivedDeliver
    <3> QED
      BY <3>4 DEF dlv2
  <2> QED
    BY <1>7, <2>8, <2>9, <2>11, <2>12
<1>9. <<>> \in Seq(Nat)
  OBVIOUS
<1>10. AccountOf(evs, exp, m, queue, buf, bfds, <<>>, <<>>, dlv2, lk, der, over,
                 wire, at, fat, rank, cuts, fcuts)
  BY <1>2, <1>6, <1>8, <1>9, Zenon DEF AccountOf
<1>11. Account(evs, exp, m, queue, buf, bfds, <<>>, <<>>, dlv2, lk, der, over)
  BY <1>10, Zenon DEF Account
<1> QED
  BY <1>11, Zenon DEF dlv2, p

-----------------------------------------------------------------------------
(* The call drops what it has: it gave up in the middle of a packet, the   *)
(* stream is over, it has no words, or it has those of a malformed packet. *)
MayDrop(w, der, der2, over, over2) ==
    /\ der => der2
    /\ over => over2
    /\ \/ der2 \/ over2 \/ w = <<>>
       \/ /\ Len(w) = 2 /\ Malformed(w)
          /\ ~ (SizeField(w[2]) > HeaderBytes)

(* The account is kept when a call may drop what it has. *)
LEMMA AccountDrop ==
    ASSUME NEW evs, NEW exp, NEW m, NEW queue, NEW buf, NEW bfds, NEW w,
           NEW my, NEW dlv, NEW lk, NEW der, NEW over,
           Account(evs, exp, m, queue, buf, bfds, w, my, dlv, lk, der, over),
           NEW der2, NEW over2, MayDrop(w, der, der2, over, over2)
    PROVE  Account(evs, exp, m, queue, buf, bfds, <<>>, <<>>, dlv,
                   lk \cup Range(my), der2, over2)
<1>1. PICK wire, at, fat, rank, cuts, fcuts :
         AccountOf(evs, exp, m, queue, buf, bfds, w, my, dlv, lk, der, over,
                   wire, at, fat, rank, cuts, fcuts)
  BY Zenon DEF Account
<1> DEFINE lk2 == lk \cup Range(my)
           d == Len(dlv)
<1>2. /\ Streamed(evs, exp, m, queue, buf, bfds, wire, at, fat, rank, cuts,
                  fcuts)
      /\ w \in Seq(Nat) /\ FdsOut(fcuts[1], my, dlv, lk)
  BY <1>1, Zenon DEF AccountOf
<1>3. FdsOut(fcuts[1], <<>>, dlv, lk2)
  BY <1>2, FdsOutLeak, Zenon
<1>4. <<>> \in Seq(Nat)
  OBVIOUS
<1>5. lk \subseteq lk2
  OBVIOUS
<1>6. /\ Written(evs, exp, m, wire, at, fat, rank) /\ evs \in Seq(Events)
      /\ cuts[1] \in Nat /\ cuts[1] <= Len(wire)
  BY <1>2, StreamedFacts
<1> HIDE DEF lk2, d
<1>7. ASSUME ~ der2
      PROVE  /\ Returned(exp, dlv) /\ Arrived(exp, dlv, lk2)
             /\ \/ Reading(evs, wire, at, rank, cuts[1], <<>>, d)
                \/ over2 /\ <<>> = <<>>
  <2>1. /\ Returned(exp, dlv) /\ Arrived(exp, dlv, lk)
        /\ \/ Reading(evs, wire, at, rank, cuts[1], w, d)
           \/ over /\ w = <<>>
    BY <1>1, <1>7, Zenon DEF AccountOf, MayDrop, d
  <2>2. Arrived(exp, dlv, lk2)
    BY <1>5, <2>1, ArrivedLeak, Zenon
  <2>3. ASSUME ~ over2 PROVE Reading(evs, wire, at, rank, cuts[1], <<>>, d)
    <3>1. Reading(evs, wire, at, rank, cuts[1], w, d)
      BY <2>1, <2>3, Zenon DEF MayDrop
    <3>2. CASE w = <<>>
      BY <3>1, <3>2
    <3>3. CASE /\ Len(w) = 2 /\ Malformed(w)
               /\ ~ (SizeField(w[2]) > HeaderBytes)
      <4>0. Len(w) >= 2
        BY <3>3
      <4>1. PICK i \in 1 .. Len(evs) :
               ReadingOf(wire, at, rank, cuts[1], w, d, i) /\ HeaderOf(evs[i], w)
        BY <1>2, <1>6, <3>1, <4>0, HeaderRead
      <4> DEFINE e == evs[i]
      <4>2. e \in Events
        BY <1>6
      <4>3. HeaderOf(e, w)
        BY <4>1
      <4> HIDE DEF e
      <4>4. ~ WellFormed(e) /\ Len(e.payload) = 0
        BY <1>2, <3>3, <4>0, <4>2, <4>3, Announced
      <4>5. Len(w) = EventWords(e)
        BY <3>3, <4>4 DEF EventWords
      <4>6. Reading(evs, wire, at, rank, cuts[1], <<>>, rank[i + 1])
        BY <1>2, <1>6, <4>1, <4>5, EventRead DEF e
      <4>7. rank[i + 1] = d
        <5>1. Follows(evs, exp, wire, at, fat, rank, i)
          BY <1>6 DEF Written
        <5>2. rank[i] = d
          BY <4>1 DEF ReadingOf
        <5> QED
          BY <4>4, <5>1, <5>2, Zenon DEF Follows, e
      <4> QED
        BY <4>6, <4>7
    <3>4. \/ w = <<>>
          \/ /\ Len(w) = 2 /\ Malformed(w)
             /\ ~ (SizeField(w[2]) > HeaderBytes)
      BY <1>7, <2>3, Zenon DEF MayDrop
    <3> QED
      BY <3>2, <3>3, <3>4, Zenon
  <2> QED
    BY <2>1, <2>2, <2>3, Zenon DEF MayDrop
<1>8. AccountOf(evs, exp, m, queue, buf, bfds, <<>>, <<>>, dlv, lk2, der2,
                over2, wire, at, fat, rank, cuts, fcuts)
  BY <1>2, <1>3, <1>4, <1>7, Zenon DEF AccountOf, d
<1>9. Account(evs, exp, m, queue, buf, bfds, <<>>, <<>>, dlv, lk2, der2, over2)
  BY <1>8, Zenon DEF Account
<1> QED
  BY <1>9, Zenon DEF lk2

(* What holds before the stream is over holds after. *)
LEMMA AccountLater ==
    ASSUME NEW evs, NEW exp, NEW m, NEW queue, NEW buf, NEW bfds, NEW w,
           NEW my, NEW dlv, NEW lk, NEW der, NEW over, NEW over2,
           Account(evs, exp, m, queue, buf, bfds, w, my, dlv, lk, der, over),
           over => over2
    PROVE  Account(evs, exp, m, queue, buf, bfds, w, my, dlv, lk, der, over2)
BY Zenon DEF Account, AccountOf

(* At the start there is nothing to account for. *)
LEMMA AccountInit ==
    Account(<<>>, <<>>, 0, <<>>, <<>>, <<>>, <<>>, <<>>, <<>>, {}, FALSE, FALSE)
<1> DEFINE z == [i \in 1 .. 1 |-> 0]
           none == [i \in {} |-> <<>>]
<1>1. /\ <<>> \in Seq(Nat) /\ <<>> \in Seq(Events) /\ <<>> \in Seq(Packets)
      /\ <<>> \in Seq(Segments) /\ Len(<<>>) = 0
      /\ 1 .. 0 = {} /\ 0 + 1 = 1 /\ 1 \in 1 .. 1 /\ 0 \in 0 .. 0
      /\ 0 \in Nat /\ 0 = 0 + 0
      /\ \A i \in 1 .. 1 : i = 1
  OBVIOUS
<1>2. z \in [1 .. 1 -> 0 .. 0] /\ z[1] = 0
  BY <1>1
<1>3. none \in [{} -> Seq(Nat)]
  OBVIOUS
<1>4. WordParts(<<>>) = none /\ FdParts(<<>>) = none
  BY <1>1 DEF WordParts, FdParts
<1>5. AllFds(0) \in Seq(Nat) /\ Len(AllFds(0)) = 0
  BY FdNames
<1> HIDE DEF z, none
<1>6. Written(<<>>, <<>>, 0, <<>>, z, z, z)
  BY <1>1, <1>2 DEF Written
<1>7. Holds(<<>>, <<>>, 0, 0) /\ Holds(<<>>, AllFds(0), 0, 0)
  BY <1>1 DEF Holds
<1>8. \A i, j \in 1 .. 1 : i <= j => z[i] <= z[j]
  BY <1>1, <1>2
<1>9. Carries(0, none, <<>>, <<>>, z) /\ Carries(0, none, <<>>, AllFds(0), z)
  BY <1>1, <1>2, <1>3, <1>5, <1>7, <1>8 DEF Carries
<1>10. InTime(0, z, z, 0, z, z)
  BY <1>1 DEF InTime
<1>11. Streamed(<<>>, <<>>, 0, <<>>, <<>>, <<>>, <<>>, z, z, z, z, z)
  BY <1>1, <1>4, <1>6, <1>9, <1>10 DEF Streamed
<1>12. FdsOut(0, <<>>, <<>>, {})
  BY <1>1 DEF FdsOut
<1>13. Returned(<<>>, <<>>) /\ Arrived(<<>>, <<>>, {})
  BY <1>1 DEF Returned, Arrived
<1>14. Reading(<<>>, <<>>, z, z, 0, <<>>, 0)
  BY <1>1, <1>2 DEF Reading, ReadingOf
<1>15. AccountOf(<<>>, <<>>, 0, <<>>, <<>>, <<>>, <<>>, <<>>, <<>>, {}, FALSE,
                 FALSE, <<>>, z, z, z, z, z)
  BY <1>1, <1>2, <1>11, <1>12, <1>13, <1>14 DEF AccountOf
<1> QED
  BY <1>15, Zenon DEF Account

-----------------------------------------------------------------------------
(* The least element of a set of numbers. *)
LEMMA Least ==
    ASSUME NEW T, T \subseteq Nat, T # {}
    PROVE  \E x \in T : \A y \in T : x <= y
<1> DEFINE Less(a, b) == <<a, b>> \in OpToRel(<, Nat)
<1>1. IsWellFoundedOn(OpToRel(<, Nat), Nat)
  BY NatLessThanWellFounded, Zenon
<1>2. \E x \in T : \A y \in T : ~ Less(y, x)
  BY <1>1, WFMin, Zenon
<1>3. \A x, y \in Nat : x < y => Less(x, y)
  BY DEF OpToRel
<1> HIDE DEF Less
<1>4. PICK x \in T : \A y \in T : ~ Less(y, x)
  BY <1>2
<1>5. ASSUME NEW y \in T PROVE x <= y
  <2>1. x \in Nat /\ y \in Nat
    OBVIOUS
  <2> QED
    BY <1>3, <1>4, <2>1
<1> QED
  BY <1>5

(* The file descriptors that the client has not received: they are in      *)
(* order, and none is missing.                                             *)
LEMMA FdsWaiting ==
    ASSUME NEW queue \in Seq(Segments), NEW bfds, NEW m \in Nat, NEW c,
           Carries(Len(queue), FdParts(queue), bfds, AllFds(m), c)
    PROVE  /\ bfds \in Seq(Nat) /\ Len(queue) \in Nat
           /\ c \in [1 .. Len(queue) + 1 -> 0 .. m]
           /\ \A i, j \in 1 .. Len(queue) + 1 : i <= j => c[i] <= c[j]
           /\ \A j \in 1 .. Len(queue) :
                 /\ queue[j].fds \in Seq(Nat)
                 /\ c[j + 1] = c[j] + Len(queue[j].fds)
                 /\ \A i \in 1 .. Len(queue[j].fds) : queue[j].fds[i] = c[j] + i
           /\ m = c[Len(queue) + 1] + Len(bfds)
           /\ \A i \in 1 .. Len(bfds) : bfds[i] = c[Len(queue) + 1] + i
<1> DEFINE n == Len(queue)
           all == AllFds(m)
           ps == FdParts(queue)
<1>1. /\ n \in Nat /\ bfds \in Seq(Nat)
      /\ c \in [1 .. n + 1 -> 0 .. Len(all)]
      /\ \A i, j \in 1 .. n + 1 : i <= j => c[i] <= c[j]
      /\ \A j \in 1 .. n : Holds(ps[j], all, c[j], c[j + 1])
      /\ Holds(bfds, all, c[n + 1], Len(all))
  BY DEF Carries
<1>2. /\ Len(all) = m /\ \A k \in 1 .. m : all[k] = k
  BY FdNames
<1> HIDE DEF n, all, ps
<1>3. c \in [1 .. n + 1 -> 0 .. m]
  BY <1>1, <1>2
<1>4. ASSUME NEW j \in 1 .. n
      PROVE  /\ queue[j].fds \in Seq(Nat)
             /\ c[j + 1] = c[j] + Len(queue[j].fds)
             /\ \A i \in 1 .. Len(queue[j].fds) : queue[j].fds[i] = c[j] + i
  <2> DEFINE s == queue[j].fds
             l == Len(s)
             p == c[j]
             r == c[j + 1]
  <2>1. queue[j] \in Segments
    BY <1>4, ElementOfSeq DEF n
  <2>2. s \in Seq(Nat) /\ l \in Nat
    BY <2>1 DEF Segments
  <2>3. ps[j] = s
    BY <1>4 DEF ps, FdParts, n
  <2>4. p \in 0 .. m /\ r \in 0 .. m
    BY <1>1, <1>3, Between
  <2>5. r = p + l /\ \A k \in 1 .. l : s[k] = all[p + k]
    BY <1>1, <2>3 DEF Holds
  <2> HIDE DEF s, l, p, r
  <2>6. \A k \in 1 .. l : p + k \in 1 .. m
    <3>1. p \in Nat /\ l \in Nat /\ m \in Nat /\ p + l <= m
      BY <2>2, <2>4, <2>5
    <3> QED
      BY <3>1, InsideAll
  <2>7. \A k \in 1 .. l : s[k] = p + k
    BY <1>2, <2>5, <2>6
  <2> QED
    BY <2>2, <2>5, <2>7 DEF s, l, p, r
<1>5. /\ m = c[n + 1] + Len(bfds)
      /\ \A i \in 1 .. Len(bfds) : bfds[i] = c[n + 1] + i
  <2> DEFINE p == c[n + 1]
             l == Len(bfds)
  <2>1. m = p + l /\ \A k \in 1 .. l : bfds[k] = all[p + k]
    BY <1>1, <1>2 DEF Holds
  <2>2. p \in 0 .. m /\ l \in Nat
    <3>1. n + 1 \in 1 .. n + 1
      BY <1>1
    <3> QED
      BY <1>1, <1>3, <3>1
  <2> HIDE DEF p, l
  <2>3. \A k \in 1 .. l : p + k \in 1 .. m
    <3>1. p \in Nat /\ l \in Nat /\ m \in Nat /\ p + l <= m
      BY <2>1, <2>2
    <3> QED
      BY <3>1, InsideAll
  <2>4. \A k \in 1 .. l : bfds[k] = p + k
    BY <1>2, <2>1, <2>3
  <2> QED
    BY <2>1, <2>4 DEF p, l
<1> QED
  BY <1>1, <1>3, <1>4, <1>5 DEF n

(* A number behind the first cut is behind the last or between two. *)
LEMMA NoneMissing ==
    ASSUME NEW n \in Nat, NEW m \in Nat, NEW c \in [1 .. n + 1 -> 0 .. m],
           NEW x \in Nat, c[1] < x
    PROVE  \/ \E j \in 1 .. n : c[j] < x /\ x <= c[j + 1]
           \/ c[n + 1] < x
<1> DEFINE T == {j \in 1 .. n + 1 : x <= c[j]}
<1>1. CASE T = {}
  <2>1. n + 1 \in 1 .. n + 1
    OBVIOUS
  <2>2. ~ (x <= c[n + 1]) /\ c[n + 1] \in 0 .. m
    BY <1>1, <2>1
  <2> QED
    BY <2>2
<1>2. CASE T # {}
  <2>1. T \subseteq Nat
    OBVIOUS
  <2>2. PICK k \in T : \A y \in T : k <= y
    BY <1>2, <2>1, Least
  <2>3. k \in 1 .. n + 1 /\ x <= c[k]
    OBVIOUS
  <2>4. k # 1
    <3>1. 1 \in 1 .. n + 1
      OBVIOUS
    <3>2. c[1] \in 0 .. m
      BY <3>1
    <3> QED
      BY <2>3, <3>2
  <2> DEFINE j == k - 1
  <2>5. j \in 1 .. n /\ j + 1 = k /\ ~ (k <= j) /\ j \in 1 .. n + 1
    BY <2>3, <2>4
  <2> HIDE DEF j
  <2>6. ~ (x <= c[j])
    BY <2>2, <2>5
  <2>7. c[j] \in 0 .. m
    BY <2>5
  <2>8. c[j] < x
    BY <2>6, <2>7
  <2> QED
    BY <2>3, <2>5, <2>8
<1> QED
  BY <1>1, <1>2

-----------------------------------------------------------------------------

-----------------------------------------------------------------------------
(* The words and file descriptors of the call that has the lock. *)
Mine == IF recvLock.writer = None THEN <<>> ELSE words[recvLock.writer]
MyFds == IF recvLock.writer = None THEN <<>> ELSE held[recvLock.writer]

(* A reader has been told that the stream is over. *)
Over == hangup = "eof" /\ socket = <<>>

AccountNow == Account(sent, expected, made, socket, buffer, bufferFds, Mine,
                      MyFds, delivered, leaked, derailed, Over)

(* The inductive invariant. *)
StreamInv == RecvInv /\ AccountNow

(* The task that reads is the one that has the lock. *)
LEMMA Reader ==
    ASSUME RecvInv, NEW t \in Tasks, pc[t] \in {"header", "payload"}
    PROVE  recvLock.writer = t /\ Mine = words[t] /\ MyFds = held[t]
<1>1. recvLock.writer = t
  BY DEF RecvInv, TypeOK
<1> QED
  BY <1>1, NoneAssumption DEF Mine, MyFds

(* What becomes of them when a call ends. *)
LEMMA Left ==
    ASSUME RecvInv, NEW t \in Tasks,
           \/ pc[t] # "locking" /\ recvLock' = Release(recvLock, t)
           \/ recvLock' = Release(Withdraw(recvLock, t), t),
           words' = [words EXCEPT ![t] = <<>>],
           held' = [held EXCEPT ![t] = <<>>]
    PROVE  /\ Mine' = IF recvLock.writer = t THEN <<>> ELSE Mine
           /\ MyFds' = IF recvLock.writer = t THEN <<>> ELSE MyFds
<1>1. /\ recvLock.readers = {} /\ Distinct(recvLock) /\ recvLock \in Locks
      /\ LocalTypes
  BY TypeParts DEF RecvInv, QueueOK
<1>2. recvLock'.writer = IF recvLock.writer = t THEN None ELSE recvLock.writer
  <2>1. CASE pc[t] # "locking" /\ recvLock' = Release(recvLock, t)
    BY <1>1, <2>1, ReleaseLock, NotQueued
  <2>2. CASE recvLock' = Release(Withdraw(recvLock, t), t)
    <3> DEFINE left == Withdraw(recvLock, t)
    <3>1. /\ left \in Locks /\ left.writer = recvLock.writer
          /\ left.readers = {} /\ Distinct(left)
          /\ Range(left.waiting) = {r \in Range(recvLock.waiting) : r.task # t}
      BY <1>1, WithdrawLock
    <3>2. recvLock' = Release(left, t)
      BY <2>2
    <3> HIDE DEF left
    <3> QED
      BY <3>1, <3>2, ReleaseLock
  <2> QED
    BY <2>1, <2>2
<1>3. recvLock.writer \in Tasks \cup {None}
  BY <1>1, LockFields
<1>4. \A u \in Tasks \ {t} : words'[u] = words[u] /\ held'[u] = held[u]
  BY <1>1 DEF LocalTypes
<1> QED
  BY <1>2, <1>3, <1>4, NoneAssumption DEF Mine, MyFds

(* A step that leaves the call in progress alone. *)
LEMMA AccountOpen ==
    ASSUME AccountNow, hangup = "open" \/ socket # <<>>
    PROVE  Account(sent, expected, made, socket, buffer, bufferFds, Mine,
                   MyFds, delivered, leaked, derailed, FALSE)
<1>1. Over = FALSE
  BY DEF Over
<1> QED
  BY <1>1, Zenon DEF AccountNow

(* Step by step, the account is kept. *)
LEMMA WriteAccount ==
    ASSUME StreamInv, NEW e \in Events, Write(e)
    PROVE  AccountNow'
<1>1. /\ hangup = "open" /\ sent' = Append(sent, e)
      /\ expected' = ExpectedAfter(expected, e, made)
      /\ buffer' = WireAfter(buffer, e)
      /\ bufferFds' = bufferFds \o [i \in 1 .. e.fds |-> made + i]
      /\ made' = made + e.fds
      /\ UNCHANGED <<socket, hangup, recvLock, pc, words, held, delivered,
                     leaked, derailed>>
  BY DEF Write, ExpectedAfter, WireAfter
<1>2. Account(sent, expected, made, socket, buffer, bufferFds, Mine,
              MyFds, delivered, leaked, derailed, FALSE)
  BY <1>1, AccountOpen DEF StreamInv
<1>3. Account(sent', expected', made', socket, buffer', bufferFds', Mine,
              MyFds, delivered, leaked, derailed, FALSE)
  BY <1>1, <1>2, AccountWrite, Zenon
<1>4. Mine' = Mine /\ MyFds' = MyFds /\ socket' = socket
      /\ delivered' = delivered /\ leaked' = leaked /\ derailed' = derailed
  BY <1>1 DEF Mine, MyFds
<1>5. FALSE => Over'
  OBVIOUS
<1> QED
  BY <1>3, <1>4, <1>5, AccountLater, Zenon DEF AccountNow

LEMMA FlushAccount ==
    ASSUME StreamInv, NEW n \in 1 .. Len(buffer), Flush(n)
    PROVE  AccountNow'
<1>1. /\ hangup = "open"
      /\ socket' = Append(socket, Segment(SubSeq(buffer, 1, n), bufferFds))
      /\ buffer' = SubSeq(buffer, n + 1, Len(buffer))
      /\ bufferFds' = <<>>
      /\ UNCHANGED <<hangup, recvLock, pc, words, held, delivered, sent,
                     expected, made, leaked, derailed>>
  BY DEF Flush
<1>2. Account(sent, expected, made, socket, buffer, bufferFds, Mine,
              MyFds, delivered, leaked, derailed, FALSE)
  BY <1>1, AccountOpen DEF StreamInv
<1>3. Account(sent, expected, made, socket', buffer', bufferFds', Mine,
              MyFds, delivered, leaked, derailed, FALSE)
  BY <1>1, <1>2, AccountFlush, Zenon
<1>4. /\ Mine' = Mine /\ MyFds' = MyFds /\ sent' = sent
      /\ expected' = expected /\ made' = made
      /\ delivered' = delivered /\ leaked' = leaked /\ derailed' = derailed
  BY <1>1 DEF Mine, MyFds
<1>5. FALSE => Over'
  OBVIOUS
<1> QED
  BY <1>3, <1>4, <1>5, AccountLater, Zenon DEF AccountNow

(* A step that changes nothing of the account but whether it is over. *)
LEMMA SameAccount ==
    ASSUME AccountNow, UNCHANGED <<compositorVars, socket, delivered, leaked,
                                   derailed>>,
           Mine' = Mine, MyFds' = MyFds, hangup = "open" \/ hangup' = hangup
    PROVE  AccountNow'
<1>1. /\ sent' = sent /\ expected' = expected /\ made' = made
      /\ socket' = socket /\ buffer' = buffer /\ bufferFds' = bufferFds
      /\ delivered' = delivered /\ leaked' = leaked /\ derailed' = derailed
  BY DEF compositorVars
<1>2. CASE hangup = "open"
  <2>1. Account(sent, expected, made, socket, buffer, bufferFds, Mine,
                MyFds, delivered, leaked, derailed, FALSE)
    BY <1>2, AccountOpen
  <2>2. FALSE => Over'
    OBVIOUS
  <2> QED
    BY <1>1, <2>1, <2>2, AccountLater, Zenon DEF AccountNow
<1>3. CASE hangup' = hangup
  <2>1. Over' = Over
    BY <1>1, <1>3 DEF Over
  <2> QED
    BY <1>1, <2>1, Zenon DEF AccountNow
<1> QED
  BY <1>2, <1>3

LEMMA HangUpAccount ==
    ASSUME StreamInv, HangUp
    PROVE  AccountNow'
<1>1. Mine' = Mine /\ MyFds' = MyFds
  BY DEF HangUp, Mine, MyFds
<1> QED
  BY <1>1, SameAccount DEF StreamInv, HangUp

LEMMA CallAccount ==
    ASSUME StreamInv, NEW t \in Tasks, CallRecv(t)
    PROVE  AccountNow'
<1>1. recvLock'.writer = recvLock.writer
  <2>1. recvLock \in Locks
    BY DEF StreamInv, RecvInv, TypeOK
  <2> QED
    BY <2>1, RequestLock DEF CallRecv, Modes
<1>2. Mine' = Mine /\ MyFds' = MyFds
  BY <1>1 DEF CallRecv, Mine, MyFds
<1> QED
  BY <1>2, SameAccount DEF StreamInv, CallRecv

LEMMA LockAccount ==
    ASSUME StreamInv, NEW t \in Tasks, Lock(t)
    PROVE  AccountNow'
<1>1. /\ recvLock \in Locks /\ Distinct(recvLock) /\ TaskOK(t)
  BY TypeParts DEF StreamInv, RecvInv, QueueOK
<1>2. /\ pc[t] = "locking" /\ Grantable(recvLock, t)
      /\ recvLock' = Grant(recvLock)
  BY DEF Lock
<1>3. \A r \in Range(recvLock.waiting) : r.task = t => r.mode = "write"
  BY DEF StreamInv, RecvInv, QueueOK
<1>4. recvLock.writer = None /\ recvLock'.writer = t
  BY <1>1, <1>2, <1>3, GrantWrite
<1>5. words[t] = <<>> /\ held[t] = <<>>
  BY <1>1, <1>2 DEF TaskOK
<1>6. Mine' = Mine /\ MyFds' = MyFds
  BY <1>4, <1>5, NoneAssumption DEF Lock, Mine, MyFds
<1> QED
  BY <1>6, SameAccount DEF StreamInv, Lock

(* What a read makes of the account. *)
LEMMA ReadAccount ==
    ASSUME StreamInv, NEW t \in Tasks, pc[t] \in {"header", "payload"},
           socket # <<>>, NEW n \in Nat
    PROVE  Account(sent, expected, made, Receive(socket, n).queue, buffer,
                   bufferFds, words[t] \o Receive(socket, n).words,
                   held[t] \o Receive(socket, n).fds, delivered, leaked,
                   derailed, FALSE)
<1>1. Account(sent, expected, made, socket, buffer, bufferFds, words[t],
              held[t], delivered, leaked, derailed, FALSE)
  <2>1. Account(sent, expected, made, socket, buffer, bufferFds, Mine,
                MyFds, delivered, leaked, derailed, FALSE)
    BY AccountOpen DEF StreamInv
  <2>2. Mine = words[t] /\ MyFds = held[t]
    BY Reader DEF StreamInv
  <2> QED
    BY <2>1, <2>2, Zenon
<1> QED
  BY <1>1, AccountRead, Zenon

(* The call goes on, with what it has received. *)
LEMMA GoneOn ==
    ASSUME StreamInv, NEW t \in Tasks, pc[t] \in {"header", "payload"},
           NEW ws, NEW fds,
           words' = [words EXCEPT ![t] = ws], held' = [held EXCEPT ![t] = fds],
           UNCHANGED <<compositorVars, recvLock, delivered, leaked, derailed>>,
           Account(sent, expected, made, socket', buffer, bufferFds, ws, fds,
                   delivered, leaked, derailed, FALSE)
    PROVE  AccountNow'
<1>1. /\ sent' = sent /\ expected' = expected /\ made' = made
      /\ buffer' = buffer /\ bufferFds' = bufferFds
      /\ delivered' = delivered /\ leaked' = leaked /\ derailed' = derailed
  BY DEF compositorVars
<1>2. Mine' = ws /\ MyFds' = fds
  <2>1. recvLock.writer = t /\ LocalTypes
    BY Reader, TypeParts DEF StreamInv, RecvInv
  <2> QED
    BY <2>1, NoneAssumption DEF Mine, MyFds, LocalTypes
<1>3. FALSE => Over'
  OBVIOUS
<1> QED
  BY <1>1, <1>2, <1>3, AccountLater, Zenon DEF AccountNow

(* The call ends. *)
LEMMA GoneOut ==
    ASSUME StreamInv, NEW t \in Tasks, pc[t] \in {"header", "payload"},
           Leave(t), UNCHANGED compositorVars, NEW over, over => Over',
           Account(sent, expected, made, socket', buffer, bufferFds, <<>>, <<>>,
                   delivered', leaked', derailed', over)
    PROVE  AccountNow'
<1>1. /\ sent' = sent /\ expected' = expected /\ made' = made
      /\ buffer' = buffer /\ bufferFds' = bufferFds
  BY DEF compositorVars
<1>2. Mine' = <<>> /\ MyFds' = <<>>
  BY Reader, Left DEF StreamInv, Leave
<1>3. Account(sent, expected, made, socket', buffer, bufferFds, <<>>, <<>>,
              delivered', leaked', derailed', Over')
  BY AccountLater
<1> QED
  BY <1>1, <1>2, <1>3, Zenon DEF AccountNow

LEMMA ReadHeaderAccount ==
    ASSUME StreamInv, NEW t \in Tasks, ReadHeader(t)
    PROVE  AccountNow'
<1> DEFINE n == HeaderWords - Len(words[t])
           msg == Receive(socket, n)
           ws == words[t] \o msg.words
           fds == held[t] \o msg.fds
           long == SizeField(ws[2]) > HeaderBytes
<1>1. /\ pc[t] = "header" /\ socket # <<>> /\ socket' = msg.queue
      /\ UNCHANGED compositorVars
  BY DEF ReadHeader
<1>2. n \in Nat
  <2>1. LocalTypes /\ TaskOK(t)
    BY TypeParts DEF StreamInv, RecvInv
  <2>2. Len(words[t]) \in Nat /\ Len(words[t]) < 2
    BY <1>1, <2>1 DEF LocalTypes, TaskOK, HeaderWords
  <2> QED
    BY <2>2 DEF HeaderWords
<1>3. Account(sent, expected, made, socket', buffer, bufferFds, ws, fds,
              delivered, leaked, derailed, FALSE)
  BY <1>1, <1>2, ReadAccount
<1>4. \/ /\ words' = [words EXCEPT ![t] = ws]
         /\ held' = [held EXCEPT ![t] = fds]
         /\ UNCHANGED <<recvLock, delivered, leaked, derailed>>
      \/ Len(ws) = HeaderWords /\ Malformed(ws) /\ Fail(t, fds, long)
  BY DEF ReadHeader
<1> HIDE DEF n, msg, ws, fds
<1>5. CASE /\ words' = [words EXCEPT ![t] = ws]
           /\ held' = [held EXCEPT ![t] = fds]
           /\ UNCHANGED <<recvLock, delivered, leaked, derailed>>
  BY <1>1, <1>3, <1>5, GoneOn
<1>6. CASE Len(ws) = HeaderWords /\ Malformed(ws) /\ Fail(t, fds, long)
  <2>1. /\ Leave(t) /\ leaked' = leaked \cup Range(fds)
        /\ derailed' = (derailed \/ long) /\ delivered' = delivered
    BY <1>6 DEF Fail
  <2>2. Len(ws) = 2
    BY <1>6 DEF HeaderWords
  <2>3. MayDrop(ws, derailed, derailed', FALSE, FALSE)
    BY <1>6, <2>1, <2>2, Zenon DEF MayDrop, long
  <2>4. Account(sent, expected, made, socket', buffer, bufferFds, <<>>, <<>>,
                delivered, leaked \cup Range(fds), derailed', FALSE)
    BY <1>3, <2>3, AccountDrop, Zenon
  <2>5. Account(sent, expected, made, socket', buffer, bufferFds, <<>>, <<>>,
                delivered', leaked', derailed', FALSE)
    BY <2>1, <2>4, Zenon
  <2> QED
    BY <1>1, <2>1, <2>5, GoneOut
<1> QED
  BY <1>4, <1>5, <1>6

LEMMA ReadPayloadAccount ==
    ASSUME StreamInv, NEW t \in Tasks, ReadPayload(t)
    PROVE  AccountNow'
<1> DEFINE n == Missing(t)
           msg == Receive(socket, n)
           ws == words[t] \o msg.words
           fds == held[t] \o msg.fds
<1>1. /\ pc[t] = "payload" /\ socket # <<>> /\ socket' = msg.queue
      /\ UNCHANGED compositorVars
  BY DEF ReadPayload
<1>2. /\ words[t] \in Seq(Nat) /\ Len(words[t]) \in Nat
      /\ Len(words[t]) >= 2 /\ PayloadWords(words[t][2]) \in Nat
      /\ n = 2 + PayloadWords(words[t][2]) - Len(words[t])
      /\ n \in Nat /\ ~ Malformed(words[t])
      /\ socket \in Seq(Segments)
  <2>1. LocalTypes /\ TaskOK(t) /\ StreamTypes
    BY TypeParts DEF StreamInv, RecvInv
  <2>2. ~ Malformed(words[t]) /\ socket \in Seq(Segments)
    BY <1>1, <2>1 DEF TaskOK, StreamTypes
  <2> QED
    BY <1>1, <2>1, <2>2, MissingWords
<1> HIDE DEF n
<1>3. Account(sent, expected, made, socket', buffer, bufferFds, ws, fds,
              delivered, leaked, derailed, FALSE)
  BY <1>1, <1>2, ReadAccount
<1>4. msg.words \in Seq(Nat)
  BY <1>1, <1>2, ReceiveTypes
<1>5. \/ /\ words' = [words EXCEPT ![t] = ws]
         /\ held' = [held EXCEPT ![t] = fds]
         /\ UNCHANGED <<recvLock, delivered, leaked, derailed>>
      \/ Len(msg.words) = n /\ Deliver(t, ws, fds)
  BY DEF ReadPayload, n
<1> HIDE DEF msg
<1>6. CASE /\ words' = [words EXCEPT ![t] = ws]
           /\ held' = [held EXCEPT ![t] = fds]
           /\ UNCHANGED <<recvLock, delivered, leaked, derailed>>
  <2> HIDE DEF ws, fds
  <2> QED
    BY <1>1, <1>3, <1>6, GoneOn
<1>7. CASE Len(msg.words) = n /\ Deliver(t, ws, fds)
  <2>1. /\ Leave(t) /\ delivered' = Append(delivered, PacketFrom(ws, fds))
        /\ leaked' = leaked /\ derailed' = derailed
    BY <1>7, Zenon DEF Deliver, PacketFrom
  <2>2. /\ Len(ws) = Len(words[t]) + Len(msg.words)
        /\ ws[1] = words[t][1] /\ ws[2] = words[t][2]
    <3>1. 1 \in 1 .. Len(words[t]) /\ 2 \in 1 .. Len(words[t])
      BY <1>2
    <3>2. /\ Len(ws) = Len(words[t]) + Len(msg.words)
          /\ \A i \in 1 .. Len(words[t]) : ws[i] = words[t][i]
      BY <1>2, <1>4, PrefixOfConcat
    <3> HIDE DEF ws
    <3> QED
      BY <3>1, <3>2
  <2>3. Len(ws) >= 2 /\ ~ Malformed(ws) /\ Len(ws) = 2 + PayloadWords(ws[2])
    <3> DEFINE announced == PayloadWords(words[t][2])
               had == Len(words[t])
               got == Len(msg.words)
    <3>1. /\ had \in Nat /\ had >= 2 /\ announced \in Nat /\ got \in Nat
          /\ got = 2 + announced - had /\ Len(ws) = had + got
      BY <1>2, <1>4, <1>7, <2>2
    <3>2. PayloadWords(ws[2]) = announced /\ ~ Malformed(ws)
      BY <1>2, <2>2 DEF Malformed
    <3> HIDE DEF announced, had, got, ws
    <3> QED
      BY <3>1, <3>2
  <2> HIDE DEF ws, fds
  <2>4. Account(sent, expected, made, socket', buffer, bufferFds, <<>>, <<>>,
                Append(delivered, PacketFrom(ws, fds)), leaked, derailed, FALSE)
    BY <1>3, <2>3, AccountDeliver, Zenon
  <2>5. Account(sent, expected, made, socket', buffer, bufferFds, <<>>, <<>>,
                delivered', leaked', derailed', FALSE)
    BY <2>1, <2>4, Zenon
  <2> QED
    BY <1>1, <2>1, <2>5, GoneOut
<1> QED
  BY <1>5, <1>6, <1>7

LEMMA EndOfHeaderAccount ==
    ASSUME StreamInv, NEW t \in Tasks, EndOfHeader(t)
    PROVE  AccountNow'
<1>1. /\ pc[t] = "header" /\ socket = <<>> /\ hangup' = "eof"
      /\ Leave(t) /\ leaked' = leaked \cup Range(held[t])
      /\ derailed' = (derailed \/ FALSE) /\ delivered' = delivered
      /\ UNCHANGED compositorVars /\ socket' = socket
  BY DEF EndOfHeader, Fail
<1>2. Mine = words[t] /\ MyFds = held[t]
  BY <1>1, Reader DEF StreamInv
<1>3. Account(sent, expected, made, socket, buffer, bufferFds, words[t],
              held[t], delivered, leaked, derailed, Over)
  BY <1>2, Zenon DEF StreamInv, AccountNow
<1>4. MayDrop(words[t], derailed, derailed', Over, TRUE)
  BY <1>1, Zenon DEF MayDrop
<1>5. Account(sent, expected, made, socket, buffer, bufferFds, <<>>, <<>>,
              delivered, leaked \cup Range(held[t]), derailed', TRUE)
  BY <1>3, <1>4, AccountDrop, Zenon
<1>6. Account(sent, expected, made, socket', buffer, bufferFds, <<>>, <<>>,
              delivered', leaked', derailed', TRUE)
  BY <1>1, <1>5, Zenon
<1>7. TRUE => Over'
  BY <1>1 DEF Over
<1> QED
  BY <1>1, <1>6, <1>7, GoneOut

LEMMA EndOfPayloadAccount ==
    ASSUME StreamInv, NEW t \in Tasks, EndOfPayload(t)
    PROVE  AccountNow'
<1>1. /\ pc[t] = "payload" /\ socket = <<>> /\ hangup' = "eof"
      /\ UNCHANGED compositorVars /\ socket' = socket
  BY DEF EndOfPayload
<1>2. Mine = words[t] /\ MyFds = held[t]
  BY <1>1, Reader DEF StreamInv
<1>3. Account(sent, expected, made, socket, buffer, bufferFds, words[t],
              held[t], delivered, leaked, derailed, Over)
  BY <1>2, Zenon DEF StreamInv, AccountNow
<1>4. (TRUE => Over') /\ (Over => TRUE)
  BY <1>1 DEF Over
<1>5. CASE Missing(t) = 0 /\ Deliver(t, words[t], held[t])
  <2>1. /\ Leave(t)
        /\ delivered' = Append(delivered, PacketFrom(words[t], held[t]))
        /\ leaked' = leaked /\ derailed' = derailed
    BY <1>5, Zenon DEF Deliver, PacketFrom
  <2>2. /\ Len(words[t]) \in Nat
        /\ Len(words[t]) >= 2 /\ PayloadWords(words[t][2]) \in Nat
        /\ Missing(t) = 2 + PayloadWords(words[t][2]) - Len(words[t])
        /\ ~ Malformed(words[t])
    <3>1. LocalTypes /\ TaskOK(t)
      BY TypeParts DEF StreamInv, RecvInv
    <3>2. ~ Malformed(words[t])
      BY <1>1, <3>1 DEF TaskOK
    <3> QED
      BY <1>1, <3>1, <3>2, MissingWords
  <2>3. Len(words[t]) = 2 + PayloadWords(words[t][2])
    <3> DEFINE announced == PayloadWords(words[t][2])
               had == Len(words[t])
    <3>1. /\ had \in Nat /\ announced \in Nat
          /\ 0 = 2 + announced - had
      BY <1>5, <2>2
    <3> HIDE DEF announced, had
    <3>2. had = 2 + announced
      BY <3>1
    <3> QED
      BY <3>2 DEF announced, had
  <2>4. Account(sent, expected, made, socket, buffer, bufferFds, <<>>, <<>>,
                Append(delivered, PacketFrom(words[t], held[t])), leaked,
                derailed, Over)
    BY <1>3, <2>2, <2>3, AccountDeliver, Zenon
  <2>5. Account(sent, expected, made, socket, buffer, bufferFds, <<>>, <<>>,
                Append(delivered, PacketFrom(words[t], held[t])), leaked,
                derailed, TRUE)
    BY <1>4, <2>4, AccountLater, Zenon
  <2>6. Account(sent, expected, made, socket', buffer, bufferFds, <<>>, <<>>,
                delivered', leaked', derailed', TRUE)
    BY <1>1, <2>1, <2>5, Zenon
  <2> QED
    BY <1>1, <1>4, <2>1, <2>6, GoneOut
<1>6. CASE Fail(t, held[t], Missing(t) # 0)
  <2>1. /\ Leave(t) /\ leaked' = leaked \cup Range(held[t])
        /\ derailed' = (derailed \/ Missing(t) # 0)
        /\ delivered' = delivered
    BY <1>6 DEF Fail
  <2>2. MayDrop(words[t], derailed, derailed', Over, TRUE)
    BY <2>1, Zenon DEF MayDrop
  <2>3. Account(sent, expected, made, socket, buffer, bufferFds, <<>>, <<>>,
                delivered, leaked \cup Range(held[t]), derailed', TRUE)
    BY <1>3, <2>2, AccountDrop, Zenon
  <2>4. Account(sent, expected, made, socket', buffer, bufferFds, <<>>, <<>>,
                delivered', leaked', derailed', TRUE)
    BY <1>1, <2>1, <2>3, Zenon
  <2> QED
    BY <1>1, <1>4, <2>1, <2>4, GoneOut
<1> QED
  BY <1>5, <1>6 DEF EndOfPayload

LEMMA CancelAccount ==
    ASSUME StreamInv, NEW t \in Tasks, Cancel(t)
    PROVE  AccountNow'
<1>1. /\ pc[t] # "idle" /\ recvLock' = Release(Withdraw(recvLock, t), t)
      /\ pc' = [pc EXCEPT ![t] = "idle"]
      /\ words' = [words EXCEPT ![t] = <<>>]
      /\ held' = [held EXCEPT ![t] = <<>>]
      /\ leaked' = leaked \cup Range(held[t])
      /\ derailed' = (derailed \/ words[t] # <<>>)
      /\ UNCHANGED <<compositorVars, socket, hangup, delivered>>
  BY DEF Cancel
<1>2. /\ Mine' = IF recvLock.writer = t THEN <<>> ELSE Mine
      /\ MyFds' = IF recvLock.writer = t THEN <<>> ELSE MyFds
  BY <1>1, Left DEF StreamInv
<1>3. /\ sent' = sent /\ expected' = expected /\ made' = made
      /\ buffer' = buffer /\ bufferFds' = bufferFds /\ socket' = socket
      /\ delivered' = delivered /\ Over' = Over
  BY <1>1 DEF compositorVars, Over
<1>4. LocalTypes /\ TaskOK(t) /\ HistoryTypes
  BY TypeParts DEF StreamInv, RecvInv
<1>5. CASE recvLock.writer = t
  <2>1. Mine = words[t] /\ MyFds = held[t]
    BY <1>5, NoneAssumption DEF Mine, MyFds
  <2>2. Account(sent, expected, made, socket, buffer, bufferFds, words[t],
                held[t], delivered, leaked, derailed, Over)
    BY <2>1, Zenon DEF StreamInv, AccountNow
  <2>3. MayDrop(words[t], derailed, derailed', Over, Over)
    BY <1>1, Zenon DEF MayDrop
  <2>4. Account(sent, expected, made, socket, buffer, bufferFds, <<>>, <<>>,
                delivered, leaked \cup Range(held[t]), derailed', Over)
    BY <2>2, <2>3, AccountDrop, Zenon
  <2>5. Mine' = <<>> /\ MyFds' = <<>>
    BY <1>2, <1>5
  <2> QED
    BY <1>1, <1>3, <2>4, <2>5, Zenon DEF AccountNow
<1>6. CASE recvLock.writer # t
  <2>1. pc[t] = "locking"
    BY <1>1, <1>4, <1>6 DEF LocalTypes, Locations, TaskOK
  <2>2. words[t] = <<>> /\ held[t] = <<>>
    BY <1>4, <2>1 DEF TaskOK
  <2>3. Mine' = Mine /\ MyFds' = MyFds
    BY <1>2, <1>6
  <2>4. leaked' = leaked
    <3>1. Range(<<>>) = {}
      BY DEF Range
    <3> QED
      BY <1>1, <2>2, <3>1
  <2>5. derailed' = derailed
    <3>1. derailed' = (derailed \/ FALSE) /\ derailed \in BOOLEAN
      BY <1>1, <1>4, <2>2, Zenon DEF HistoryTypes
    <3> QED
      BY <3>1, Zenon
  <2> QED
    BY <1>3, <2>3, <2>4, <2>5, Zenon DEF StreamInv, AccountNow
<1> QED
  BY <1>5, <1>6

LEMMA StreamInvKept == StreamInv /\ [Next]_vars => StreamInv'
<1> SUFFICES ASSUME StreamInv, [Next]_vars PROVE StreamInv'
  OBVIOUS
<1>1. RecvInv'
  BY RecvInvKept DEF StreamInv
<1>2. CASE UNCHANGED vars
  <2>1. Mine' = Mine /\ MyFds' = MyFds
    BY <1>2 DEF vars, Mine, MyFds
  <2> QED
    BY <1>1, <1>2, <2>1, SameAccount DEF StreamInv, vars
<1>3. ASSUME NEW t \in Tasks, Recv(t) PROVE AccountNow'
  BY <1>3, LockAccount, ReadHeaderAccount, EndOfHeaderAccount,
     ReadPayloadAccount, EndOfPayloadAccount DEF Recv
<1> QED
  BY <1>1, <1>2, <1>3, WriteAccount, FlushAccount, HangUpAccount, CallAccount,
     CancelAccount DEF Next, StreamInv

LEMMA StreamInvInitially == Init => StreamInv
<1> SUFFICES ASSUME Init PROVE StreamInv
  OBVIOUS
<1>1. RecvInv
  BY RecvInvInitially
<1>2. recvLock.writer = None
  BY UnlockedLock DEF Init
<1>3. Mine = <<>> /\ MyFds = <<>>
  BY <1>2 DEF Mine, MyFds
<1>4. Over = FALSE
  BY DEF Init, Over
<1>5. AccountNow
  BY <1>3, <1>4, AccountInit, Zenon DEF AccountNow, Init
<1> QED
  BY <1>1, <1>5 DEF StreamInv

-----------------------------------------------------------------------------
(* The opcodes that OpcodeField keeps. *)
OpcodesFit == \A e \in Events : e.opcode < 256

ExpectedFit == \A i \in 1 .. Len(expected) : expected[i].opcode < 256

(* Events are written with the opcodes that there are. *)
LEMMA ExpectedFitKept ==
    ASSUME OpcodesFit, StreamInv, ExpectedFit, [Next]_vars
    PROVE  ExpectedFit'
<1>1. ASSUME NEW e \in Events, Write(e) PROVE ExpectedFit'
  <2>1. expected' = ExpectedAfter(expected, e, made)
    BY <1>1 DEF Write, ExpectedAfter
  <2>2. expected \in Seq(Packets) /\ made \in Nat
    BY DEF StreamInv, AccountNow, Account, AccountOf, Streamed, Written
  <2>3. CASE WellFormed(e)
    <3>1. expected' = Append(expected, Packet(e, made))
      BY <2>1, <2>3 DEF ExpectedAfter
    <3>2. Packet(e, made).opcode < 256
      BY DEF Packet, OpcodesFit
    <3>3. Packet(e, made) \in Packets
      BY <2>2, PacketOfEvent
    <3>4. /\ Len(expected') = Len(expected) + 1 /\ Len(expected) \in Nat
          /\ \A i \in 1 .. Len(expected) : expected'[i] = expected[i]
          /\ expected'[Len(expected) + 1] = Packet(e, made)
      BY <2>2, <3>1, <3>3, Longer
    <3> QED
      BY <3>2, <3>4 DEF ExpectedFit
  <2>4. CASE ~ WellFormed(e)
    BY <2>1, <2>4 DEF ExpectedAfter, ExpectedFit
  <2> QED
    BY <2>3, <2>4
<1>2. CASE expected' = expected
  BY <1>2 DEF ExpectedFit
<1>3. (\E e \in Events : Write(e)) \/ expected' = expected
  <2>1. ASSUME NEW t \in Tasks, Recv(t) PROVE expected' = expected
    BY <2>1 DEF Recv, Lock, ReadHeader, EndOfHeader, ReadPayload, EndOfPayload,
                compositorVars
  <2> QED
    BY <2>1 DEF Next, Flush, HangUp, CallRecv, Cancel, vars, compositorVars
<1> QED
  BY <1>1, <1>2, <1>3

(* The account says what was delivered, modulo 256. *)
LEMMA InOrder ==
    ASSUME StreamInv, ExpectedFit
    PROVE  /\ DeliveredInOrder
           /\ expected \in Seq(Packets) /\ delivered \in Seq(Packets)
<1>1. PICK wire, at, fat, rank, cuts, fcuts :
         AccountOf(sent, expected, made, socket, buffer, bufferFds, Mine, MyFds,
                   delivered, leaked, derailed, Over,
                   wire, at, fat, rank, cuts, fcuts)
  BY Zenon DEF StreamInv, AccountNow, Account
<1>2. expected \in Seq(Packets) /\ delivered \in Seq(Packets)
  BY <1>1 DEF AccountOf, Streamed, Written, FdsOut
<1>3. ASSUME ~ derailed
      PROVE  /\ Len(delivered) <= Len(expected)
             /\ \A i \in DOMAIN delivered :
                   /\ delivered[i].id = expected[i].id
                   /\ delivered[i].opcode = expected[i].opcode
                   /\ delivered[i].payload = expected[i].payload
  <2>1. Returned(expected, delivered)
    BY <1>1, <1>3, Zenon DEF AccountOf
  <2>2. Len(delivered) <= Len(expected) /\ Len(expected) \in Nat
        /\ Len(delivered) \in Nat /\ DOMAIN delivered = 1 .. Len(delivered)
    BY <1>2, <2>1 DEF Returned
  <2>3. ASSUME NEW i \in DOMAIN delivered
        PROVE  /\ delivered[i].id = expected[i].id
               /\ delivered[i].opcode = expected[i].opcode
               /\ delivered[i].payload = expected[i].payload
    <3>1. ReturnedAs(delivered[i], expected[i]) /\ i \in 1 .. Len(expected)
      BY <2>1, <2>2 DEF Returned
    <3>2. expected[i].opcode < 256 /\ expected[i] \in Packets
      BY <1>2, <3>1 DEF ExpectedFit
    <3>3. expected[i].opcode \in Nat
      BY <3>2 DEF Packets
    <3>4. expected[i].opcode % 256 = expected[i].opcode
      BY <3>2, <3>3
    <3> QED
      BY <3>1, <3>4 DEF ReturnedAs
  <2> QED
    BY <2>2, <2>3
<1> QED
  BY <1>2, <1>3 DEF DeliveredInOrder

(* None is expected yet. *)
LEMMA ExpectedFitInitially == Init => ExpectedFit
BY DEF Init, ExpectedFit

(* Whatever the opcodes, the packets returned are those written, in order, *)
(* but for the upper byte of their opcodes, until a call gives up in the   *)
(* middle of one.                                                          *)
THEOREM ReturnedInOrder == Spec => [](~ derailed => Returned(expected, delivered))
<1>1. StreamInv => (~ derailed => Returned(expected, delivered))
  <2> SUFFICES ASSUME StreamInv, ~ derailed PROVE Returned(expected, delivered)
    OBVIOUS
  <2>1. PICK wire, at, fat, rank, cuts, fcuts :
           AccountOf(sent, expected, made, socket, buffer, bufferFds, Mine,
                     MyFds, delivered, leaked, derailed, Over,
                     wire, at, fat, rank, cuts, fcuts)
    BY Zenon DEF StreamInv, AccountNow, Account
  <2> QED
    BY <2>1, Zenon DEF AccountOf
<1> QED
  BY <1>1, StreamInvInitially, StreamInvKept, PTL DEF Spec

(* DeliveredInOrder, by the account: recv_packet returns the packets that   *)
(* were written, in order, whole, whichever tasks read them and however    *)
(* they are cut, until a call gives up in the middle of one; of opcodes    *)
(* that fit the one byte that the code reads (see OpcodeKept).             *)
THEOREM InOrderCorrect ==
    ASSUME OpcodesFit
    PROVE  Spec => []DeliveredInOrder
<1>1. Init => StreamInv /\ ExpectedFit
  BY StreamInvInitially, ExpectedFitInitially
<1>2. (StreamInv /\ ExpectedFit) /\ [Next]_vars => (StreamInv /\ ExpectedFit)'
  BY StreamInvKept, ExpectedFitKept
<1>3. StreamInv /\ ExpectedFit => DeliveredInOrder
  BY InOrder
<1> QED
  BY <1>1, <1>2, <1>3, PTL DEF Spec

(* FdsNotLate, by the account: recv_with_fds takes all the file            *)
(* descriptors that a read brings, so that none comes later than its       *)
(* packet does.                                                            *)
THEOREM FdsNotLateCorrect == Spec => []FdsNotLate
<1>1. StreamInv => FdsNotLate
  <2> SUFFICES ASSUME StreamInv PROVE FdsNotLate
    OBVIOUS
  <2>1. PICK wire, at, fat, rank, cuts, fcuts :
           AccountOf(sent, expected, made, socket, buffer, bufferFds, Mine,
                     MyFds, delivered, leaked, derailed, Over,
                     wire, at, fat, rank, cuts, fcuts)
    BY Zenon DEF StreamInv, AccountNow, Account
  <2>2. delivered \in Seq(Packets)
    BY <2>1 DEF AccountOf, FdsOut
  <2>3. ~ derailed => Arrived(expected, delivered, leaked)
    BY <2>1, Zenon DEF AccountOf
  <2>4. DOMAIN delivered = 1 .. Len(delivered)
    BY <2>2
  <2> QED
    BY <2>3, <2>4, Zenon DEF FdsNotLate, Arrived
<1> QED
  BY <1>1, StreamInvInitially, StreamInvKept, PTL DEF Spec

-----------------------------------------------------------------------------
(* Bodies of packets, one by one. *)
Bodies(s) == [i \in DOMAIN s |-> Body(s[i])]

SomeBody == [id : Nat, opcode : Nat, payload : Seq(Nat)]

(* Bodies is a sequence as long. *)
LEMMA BodiesOf ==
    ASSUME NEW s \in Seq(Packets)
    PROVE  /\ Bodies(s) \in Seq(SomeBody) /\ Len(Bodies(s)) = Len(s)
           /\ Len(s) \in Nat
           /\ \A i \in 1 .. Len(s) : Bodies(s)[i] = Body(s[i])
<1>1. DOMAIN s = 1 .. Len(s) /\ Len(s) \in Nat
  OBVIOUS
<1>2. \A i \in 1 .. Len(s) : Body(s[i]) \in SomeBody
  <2> TAKE i \in 1 .. Len(s)
  <2>1. s[i] \in Packets
    OBVIOUS
  <2> QED
    BY <2>1 DEF Packets, SomeBody, Body
<1>3. Bodies(s) \in [1 .. Len(s) -> SomeBody]
  BY <1>1, <1>2 DEF Bodies
<1>4. Bodies(s) \in Seq(SomeBody)
  BY <1>1, <1>3, SeqDef
<1>5. Len(Bodies(s)) = Len(s)
  BY <1>1, <1>3, <1>4, LenProperties
<1> QED
  BY <1>1, <1>4, <1>5 DEF Bodies

(* One more packet, one more body ... *)
LEMMA BodiesMore ==
    ASSUME NEW s \in Seq(Packets), NEW p \in Packets
    PROVE  Bodies(Append(s, p)) = Append(Bodies(s), Body(p))
<1> DEFINE r == Append(s, p)
<1>1. /\ r \in Seq(Packets) /\ Len(r) = Len(s) + 1 /\ Len(s) \in Nat
      /\ r[Len(s) + 1] = p /\ \A i \in 1 .. Len(s) : r[i] = s[i]
  BY Longer
<1> HIDE DEF r
<1>2. /\ Bodies(r) \in Seq(SomeBody) /\ Len(Bodies(r)) = Len(s) + 1
      /\ \A i \in 1 .. Len(s) + 1 : Bodies(r)[i] = Body(r[i])
  BY <1>1, BodiesOf
<1>3. /\ Bodies(s) \in Seq(SomeBody) /\ Len(Bodies(s)) = Len(s)
      /\ \A i \in 1 .. Len(s) : Bodies(s)[i] = Body(s[i])
  BY BodiesOf
<1>4. Body(p) \in SomeBody
  BY DEF Packets, SomeBody, Body
<1> DEFINE b == Append(Bodies(s), Body(p))
<1>5. /\ b \in Seq(SomeBody) /\ Len(b) = Len(s) + 1 /\ b[Len(s) + 1] = Body(p)
      /\ \A i \in 1 .. Len(s) : b[i] = Body(s[i])
  BY <1>3, <1>4, Longer
<1> HIDE DEF b
<1>6. ASSUME NEW i \in 1 .. Len(s) + 1 PROVE Bodies(r)[i] = b[i]
  <2>1. CASE i \in 1 .. Len(s)
    BY <1>1, <1>2, <1>5, <2>1
  <2>2. CASE i = Len(s) + 1
    BY <1>1, <1>2, <1>5, <2>2
  <2> QED
    BY <1>1, <2>1, <2>2
<1>7. Bodies(r) = b
  BY <1>2, <1>5, <1>6, SeqEqual
<1> QED
  BY <1>7 DEF r, b

(* ... behind the bodies there were. *)
LEMMA BodiesPrefix ==
    ASSUME NEW s \in Seq(Packets), NEW p \in Packets
    PROVE  /\ Len(Bodies(Append(s, p))) = Len(Bodies(s)) + 1
           /\ SubSeq(Bodies(Append(s, p)), 1, Len(Bodies(s))) = Bodies(s)
<1> DEFINE b == Bodies(s)
           q == Body(p)
<1>1. b \in Seq(SomeBody) /\ q \in SomeBody
  BY BodiesOf DEF Packets, SomeBody, Body
<1>2. Bodies(Append(s, p)) = Append(b, q)
  BY BodiesMore
<1> HIDE DEF b, q
<1>3. Len(Append(b, q)) = Len(b) + 1
  BY <1>1
<1>4. SubSeq(Append(b, q), 1, Len(b)) = b
  <2> DEFINE r == Append(b, q)
             c == SubSeq(r, 1, Len(b))
  <2>1. /\ r \in Seq(SomeBody) /\ Len(r) = Len(b) + 1 /\ Len(b) \in Nat
        /\ \A i \in 1 .. Len(b) : r[i] = b[i]
    BY <1>1, Longer
  <2> HIDE DEF r
  <2>2. /\ c \in Seq(SomeBody)
        /\ Len(c) = IF 1 <= Len(b) THEN Len(b) - 1 + 1 ELSE 0
        /\ \A i \in 1 .. Len(b) - 1 + 1 : c[i] = r[1 + i - 1]
    <3>1. \A i \in 1 .. Len(b) : r[i] \in SomeBody
      BY <1>1, <2>1
    <3> QED
      BY <2>1, <3>1, SubSeqProperties
  <2> HIDE DEF c
  <2>3. Len(c) = Len(b) /\ \A i \in 1 .. Len(b) : c[i] = b[i]
    <3>1. Len(c) = Len(b) /\ Len(b) - 1 + 1 = Len(b)
      BY <2>1, <2>2
    <3>2. \A i \in 1 .. Len(b) : 1 + i - 1 = i
      BY <2>1
    <3> QED
      BY <2>1, <2>2, <3>1, <3>2
  <2>4. c = b
    BY <1>1, <2>2, <2>3, SeqEqual
  <2> QED
    BY <2>4 DEF c, r
<1> QED
  BY <1>2, <1>3, <1>4 DEF b

-----------------------------------------------------------------------------
(* The i-th file descriptor of place p is x, where c cuts all of them into *)
(* those read, those of each segment and those of the compositor.          *)
AtCompositor(c, p, i, x) ==
    /\ p = <<"compositor", 0>> /\ i \in 1 .. Len(bufferFds)
    /\ x = c[Len(socket) + 1] + i /\ x <= made
AtSocket(c, p, i, x) ==
    \E j \in 1 .. Len(socket) :
       /\ p = <<"socket", j>> /\ i \in 1 .. Len(socket[j].fds)
       /\ x = c[j] + i /\ x <= c[j + 1]
AtCall(c, p, i, x) ==
    /\ p = <<"call", recvLock.writer>> /\ i \in 1 .. Len(MyFds) /\ x = MyFds[i]
AtPacket(c, p, i, x) ==
    \E n \in 1 .. Len(delivered) :
       /\ p = <<"packet", n>> /\ i \in 1 .. Len(delivered[n].fds)
       /\ x = delivered[n].fds[i]

Spot(c, p, i, x) ==
    \/ AtCompositor(c, p, i, x) \/ AtSocket(c, p, i, x)
    \/ AtCall(c, p, i, x) \/ AtPacket(c, p, i, x)

FdsWhere(c) ==
    /\ RecvInv
    /\ Carries(Len(socket), FdParts(socket), bufferFds, AllFds(made), c)
    /\ FdsOut(c[1], MyFds, delivered, leaked)
    /\ socket \in Seq(Segments) /\ made \in Nat

(* What the cuts say. *)
LEMMA WhereFacts ==
    ASSUME NEW c, FdsWhere(c)
    PROVE  /\ bufferFds \in Seq(Nat) /\ Len(socket) \in Nat
           /\ c \in [1 .. Len(socket) + 1 -> 0 .. made]
           /\ \A i, j \in 1 .. Len(socket) + 1 : i <= j => c[i] <= c[j]
           /\ \A j \in 1 .. Len(socket) :
                 /\ socket[j].fds \in Seq(Nat)
                 /\ c[j + 1] = c[j] + Len(socket[j].fds)
                 /\ \A i \in 1 .. Len(socket[j].fds) :
                       socket[j].fds[i] = c[j] + i
           /\ made = c[Len(socket) + 1] + Len(bufferFds)
           /\ \A i \in 1 .. Len(bufferFds) :
                 bufferFds[i] = c[Len(socket) + 1] + i
<1>1. /\ Carries(Len(socket), FdParts(socket), bufferFds, AllFds(made), c)
      /\ socket \in Seq(Segments) /\ made \in Nat
  BY DEF FdsWhere
<1> QED
  BY <1>1, FdsWaiting

(* What a place holds. *)
LEMMA PlaceHolds ==
    ASSUME NEW c, FdsWhere(c), NEW p \in FdPlaces, NEW i \in DOMAIN FdsAt(p)
    PROVE  Spot(c, p, i, FdsAt(p)[i])
<1>1. CASE p = <<"compositor", 0>>
  <2>1. FdsAt(p) = bufferFds
    BY <1>1 DEF FdsAt
  <2>2. i \in 1 .. Len(bufferFds) /\ Len(bufferFds) \in Nat
    BY <2>1, WhereFacts
  <2>3. FdsAt(p)[i] = c[Len(socket) + 1] + i
    BY <2>1, <2>2, WhereFacts
  <2>4. made = c[Len(socket) + 1] + Len(bufferFds)
        /\ c[Len(socket) + 1] \in Nat
    <3>1. Len(socket) + 1 \in 1 .. Len(socket) + 1
      BY WhereFacts
    <3> QED
      BY <3>1, WhereFacts
  <2>5. c[Len(socket) + 1] + i <= made
    BY <2>2, <2>4
  <2> QED
    BY <1>1, <2>2, <2>3, <2>5 DEF AtCompositor, Spot
<1>2. ASSUME NEW j \in DOMAIN socket, p = <<"socket", j>>
      PROVE  Spot(c, p, i, FdsAt(p)[i])
  <2>1. FdsAt(p) = socket[j].fds
    BY <1>2 DEF FdsAt
  <2>2. j \in 1 .. Len(socket)
    BY DEF FdsWhere
  <2>3. /\ socket[j].fds \in Seq(Nat) /\ c[j + 1] = c[j] + Len(socket[j].fds)
        /\ \A k \in 1 .. Len(socket[j].fds) : socket[j].fds[k] = c[j] + k
    BY <2>2, WhereFacts
  <2>4. i \in 1 .. Len(socket[j].fds) /\ Len(socket[j].fds) \in Nat
    BY <2>1, <2>3
  <2>5. c[j] \in Nat
    <3>1. j \in 1 .. Len(socket) + 1
      BY <2>2, WhereFacts
    <3> QED
      BY <3>1, WhereFacts
  <2>6. FdsAt(p)[i] = c[j] + i /\ c[j] + i <= c[j + 1]
    BY <2>1, <2>3, <2>4, <2>5
  <2>7. AtSocket(c, p, i, FdsAt(p)[i])
    BY <1>2, <2>2, <2>4, <2>6, Zenon DEF AtSocket
  <2> QED
    BY <2>7 DEF Spot
<1>3. ASSUME NEW t \in Tasks, p = <<"call", t>>
      PROVE  Spot(c, p, i, FdsAt(p)[i])
  <2>1. FdsAt(p) = held[t]
    BY <1>3 DEF FdsAt
  <2>2. LocalTypes /\ TaskOK(t)
    BY TypeParts DEF FdsWhere, RecvInv
  <2>3. held[t] # <<>>
    BY <2>1
  <2>4. pc[t] \in {"header", "payload"}
    BY <2>2, <2>3 DEF LocalTypes, Locations, TaskOK
  <2>5. recvLock.writer = t /\ MyFds = held[t]
    BY <2>4, Reader DEF FdsWhere
  <2>6. i \in 1 .. Len(MyFds)
    BY <2>1, <2>2, <2>5 DEF LocalTypes
  <2> QED
    BY <1>3, <2>1, <2>5, <2>6 DEF AtCall, Spot
<1>4. ASSUME NEW n \in DOMAIN delivered, p = <<"packet", n>>
      PROVE  Spot(c, p, i, FdsAt(p)[i])
  <2>1. FdsAt(p) = delivered[n].fds
    BY <1>4 DEF FdsAt
  <2>2. delivered \in Seq(Packets)
    BY DEF FdsWhere, FdsOut
  <2>3. n \in 1 .. Len(delivered) /\ delivered[n].fds \in Seq(Nat)
    <3>1. n \in 1 .. Len(delivered) /\ delivered[n] \in Packets
      BY <2>2
    <3> QED
      BY <3>1 DEF Packets
  <2>4. i \in 1 .. Len(delivered[n].fds)
    BY <2>1, <2>3
  <2>5. AtPacket(c, p, i, FdsAt(p)[i])
    BY <1>4, <2>1, <2>3, <2>4, Zenon DEF AtPacket
  <2> QED
    BY <2>5 DEF Spot
<1> QED
  BY <1>1, <1>2, <1>3, <1>4 DEF FdPlaces

(* Which ones they are. *)
LEMMA SpotRange ==
    ASSUME NEW c, FdsWhere(c), NEW p, NEW i, NEW x, Spot(c, p, i, x)
    PROVE  /\ x \in (1 .. made) \ leaked
           /\ AtCompositor(c, p, i, x) => c[Len(socket) + 1] < x /\ c[1] < x
           /\ AtSocket(c, p, i, x) => c[1] < x /\ x <= c[Len(socket) + 1]
           /\ AtCall(c, p, i, x) => x <= c[1]
           /\ AtPacket(c, p, i, x) => x <= c[1]
<1> DEFINE l == Len(socket) + 1
           f == c[1]
           g == c[l]
<1>1. /\ f \in Nat /\ g \in Nat /\ made \in Nat /\ f <= g /\ g <= made
      /\ leaked \subseteq 1 .. f /\ Len(socket) \in Nat
  <2>1. /\ Len(socket) \in Nat /\ made \in Nat
        /\ leaked \subseteq 1 .. f
        /\ c \in [1 .. l -> 0 .. made]
        /\ \A i2, j2 \in 1 .. l : i2 <= j2 => c[i2] <= c[j2]
    BY WhereFacts DEF FdsWhere, FdsOut
  <2>2. 1 \in 1 .. l /\ l \in 1 .. l /\ 1 <= l
    BY <2>1
  <2>3. f \in 0 .. made /\ g \in 0 .. made /\ f <= g
    BY <2>1, <2>2
  <2> QED
    BY <2>1, <2>3
<1>2. CASE AtCompositor(c, p, i, x)
  <2>1. i \in 1 .. Len(bufferFds) /\ x = g + i /\ x <= made
    BY <1>2 DEF AtCompositor
  <2>2. i \in Nat /\ i >= 1
    BY <2>1, WhereFacts
  <2> HIDE DEF f, g
  <2>3. x \in 1 .. made /\ g < x /\ f < x
    BY <1>1, <2>1, <2>2
  <2>4. x \notin leaked
    BY <1>1, <2>3
  <2>5. ~ (x <= f) /\ ~ (x <= g)
    BY <1>1, <2>3
  <2>6. ~ AtCall(c, p, i, x) /\ ~ AtPacket(c, p, i, x) /\ ~ AtSocket(c, p, i, x)
    BY <1>2 DEF AtCompositor, AtCall, AtPacket, AtSocket
  <2> QED
    BY <2>3, <2>4, <2>6 DEF f, g, l
<1>3. CASE AtSocket(c, p, i, x)
  <2>1. PICK j \in 1 .. Len(socket) :
           /\ p = <<"socket", j>> /\ i \in 1 .. Len(socket[j].fds)
           /\ x = c[j] + i /\ x <= c[j + 1]
    BY <1>3 DEF AtSocket
  <2>2. i \in Nat /\ i >= 1
    BY <2>1, WhereFacts
  <2>3. c[j] \in Nat /\ c[j + 1] \in Nat /\ f <= c[j] /\ c[j + 1] <= g
    <3>1. j \in 1 .. l /\ j + 1 \in 1 .. l /\ 1 \in 1 .. l /\ l \in 1 .. l
          /\ 1 <= j /\ j + 1 <= l
      BY <1>1
    <3>2. /\ c \in [1 .. l -> 0 .. made]
          /\ \A i2, j2 \in 1 .. l : i2 <= j2 => c[i2] <= c[j2]
      BY WhereFacts
    <3> QED
      BY <3>1, <3>2
  <2> HIDE DEF f, g
  <2>4. x \in 1 .. made /\ f < x /\ x <= g
    BY <1>1, <2>1, <2>2, <2>3
  <2>5. x \notin leaked
    BY <1>1, <2>4
  <2>6. ~ AtCall(c, p, i, x) /\ ~ AtPacket(c, p, i, x)
        /\ ~ AtCompositor(c, p, i, x)
    BY <2>1 DEF AtCompositor, AtCall, AtPacket
  <2> QED
    BY <2>4, <2>5, <2>6 DEF f, g, l
<1>4. CASE AtCall(c, p, i, x) \/ AtPacket(c, p, i, x)
  <2>1. x \in (1 .. f) \ leaked
    BY <1>4 DEF AtCall, AtPacket, FdsWhere, FdsOut
  <2>2. ~ AtCompositor(c, p, i, x) /\ ~ AtSocket(c, p, i, x)
    BY <1>4 DEF AtCompositor, AtSocket, AtCall, AtPacket
  <2> HIDE DEF f, g
  <2>3. x \in 1 .. made /\ x <= f
    BY <1>1, <2>1
  <2> QED
    BY <2>1, <2>2, <2>3 DEF f
<1> QED
  BY <1>2, <1>3, <1>4 DEF Spot

(* Two places do not hold the same one: neither two segments, *)
LEMMA SocketSpots ==
    ASSUME NEW c, FdsWhere(c), NEW p, NEW q, NEW i, NEW j, NEW x,
           AtSocket(c, p, i, x), AtSocket(c, q, j, x)
    PROVE  p = q /\ i = j
<1> DEFINE n == Len(socket)
<1>1. PICK a \in 1 .. n :
         /\ p = <<"socket", a>> /\ i \in 1 .. Len(socket[a].fds)
         /\ x = c[a] + i /\ x <= c[a + 1]
  BY DEF AtSocket
<1>2. PICK b \in 1 .. n :
         /\ q = <<"socket", b>> /\ j \in 1 .. Len(socket[b].fds)
         /\ x = c[b] + j /\ x <= c[b + 1]
  BY DEF AtSocket
<1>3. /\ n \in Nat /\ i \in Nat /\ i >= 1 /\ j \in Nat /\ j >= 1
      /\ \A k \in 1 .. n + 1 : c[k] \in Nat
      /\ \A k, l \in 1 .. n + 1 : k <= l => c[k] <= c[l]
  <2>1. i \in Nat /\ i >= 1 /\ j \in Nat /\ j >= 1
    BY <1>1, <1>2, WhereFacts
  <2>2. /\ n \in Nat /\ c \in [1 .. n + 1 -> 0 .. made]
        /\ \A k, l \in 1 .. n + 1 : k <= l => c[k] <= c[l]
    BY WhereFacts
  <2> HIDE DEF n
  <2>3. \A k \in 1 .. n + 1 : c[k] \in Nat
    BY <2>2
  <2> QED
    BY <2>1, <2>2, <2>3
<1>4. /\ a \in 1 .. n + 1 /\ a + 1 \in 1 .. n + 1
      /\ b \in 1 .. n + 1 /\ b + 1 \in 1 .. n + 1
  BY <1>3
<1>5. ~ (a + 1 <= b)
  <2> SUFFICES ASSUME a + 1 <= b PROVE FALSE
    OBVIOUS
  <2>1. c[a + 1] <= c[b] /\ c[a + 1] \in Nat /\ c[b] \in Nat
    BY <1>3, <1>4
  <2> QED
    BY <1>1, <1>2, <1>3, <2>1
<1>6. ~ (b + 1 <= a)
  <2> SUFFICES ASSUME b + 1 <= a PROVE FALSE
    OBVIOUS
  <2>1. c[b + 1] <= c[a] /\ c[b + 1] \in Nat /\ c[a] \in Nat
    BY <1>3, <1>4
  <2> QED
    BY <1>1, <1>2, <1>3, <2>1
<1>7. a = b
  BY <1>3, <1>5, <1>6
<1>8. i = j
  <2>1. c[a] \in Nat
    BY <1>3, <1>4
  <2> QED
    BY <1>1, <1>2, <1>3, <1>7, <2>1
<1> QED
  BY <1>1, <1>2, <1>7, <1>8

(* nor two packets, *)
LEMMA PacketSpots ==
    ASSUME NEW c, FdsWhere(c), NEW p, NEW q, NEW i, NEW j, NEW x,
           AtPacket(c, p, i, x), AtPacket(c, q, j, x)
    PROVE  p = q /\ i = j
<1>1. PICK a \in 1 .. Len(delivered) :
         /\ p = <<"packet", a>> /\ i \in 1 .. Len(delivered[a].fds)
         /\ x = delivered[a].fds[i]
  BY DEF AtPacket
<1>2. PICK b \in 1 .. Len(delivered) :
         /\ q = <<"packet", b>> /\ j \in 1 .. Len(delivered[b].fds)
         /\ x = delivered[b].fds[j]
  BY DEF AtPacket
<1>3. \A m, n \in 1 .. Len(delivered) :
         \A k \in 1 .. Len(delivered[m].fds), l \in 1 .. Len(delivered[n].fds) :
            (m < n \/ (m = n /\ k < l)) => delivered[m].fds[k] < delivered[n].fds[l]
  BY DEF FdsWhere, FdsOut
<1>4. x \in Nat
  BY <1>1 DEF FdsWhere, FdsOut
<1>5. ~ (x < x)
  BY <1>4
<1>6. ~ (a < b \/ (a = b /\ i < j))
  BY <1>1, <1>2, <1>3, <1>5
<1>7. ~ (b < a \/ (b = a /\ j < i))
  BY <1>1, <1>2, <1>3, <1>5
<1>8. /\ a \in Nat /\ b \in Nat /\ i \in Nat /\ j \in Nat
  <2>1. delivered \in Seq(Packets)
    BY DEF FdsWhere, FdsOut
  <2>2. delivered[a] \in Packets /\ delivered[b] \in Packets
    BY <2>1
  <2>3. delivered[a].fds \in Seq(Nat) /\ delivered[b].fds \in Seq(Nat)
    BY <2>2 DEF Packets
  <2> QED
    BY <1>1, <1>2, <2>1, <2>3
<1>9. a = b /\ i = j
  BY <1>6, <1>7, <1>8
<1> QED
  BY <1>1, <1>2, <1>9

(* nor one of these twice. *)
LEMMA CallSpots ==
    ASSUME NEW c, FdsWhere(c), NEW p, NEW q, NEW i, NEW j, NEW x,
           AtCall(c, p, i, x), AtCall(c, q, j, x)
    PROVE  p = q /\ i = j
<1>1. /\ \A k, l \in 1 .. Len(MyFds) : k < l => MyFds[k] < MyFds[l]
      /\ MyFds \in Seq(Nat)
  BY DEF FdsWhere, FdsOut
<1>2. p = q /\ i \in 1 .. Len(MyFds) /\ j \in 1 .. Len(MyFds)
      /\ x = MyFds[i] /\ x = MyFds[j]
  BY DEF AtCall
<1>3. x \in Nat /\ i \in Nat /\ j \in Nat
  BY <1>1, <1>2
<1>4. ~ (x < x)
  BY <1>3
<1>5. ~ (i < j) /\ ~ (j < i)
  BY <1>1, <1>2, <1>4
<1> QED
  BY <1>2, <1>3, <1>5

LEMMA CompositorSpots ==
    ASSUME NEW c, FdsWhere(c), NEW p, NEW q, NEW i, NEW j, NEW x,
           AtCompositor(c, p, i, x), AtCompositor(c, q, j, x)
    PROVE  p = q /\ i = j
<1>1. c[Len(socket) + 1] \in Nat
  <2>1. Len(socket) + 1 \in 1 .. Len(socket) + 1
    BY WhereFacts
  <2> QED
    BY <2>1, WhereFacts
<1>2. /\ i \in 1 .. Len(bufferFds) /\ j \in 1 .. Len(bufferFds)
      /\ Len(bufferFds) \in Nat
      /\ x = c[Len(socket) + 1] + i /\ x = c[Len(socket) + 1] + j
  BY WhereFacts DEF AtCompositor
<1>3. i = j
  BY <1>1, <1>2
<1> QED
  BY <1>3 DEF AtCompositor

LEMMA CallOrPacket ==
    ASSUME NEW c, FdsWhere(c), NEW p, NEW q, NEW i, NEW j, NEW x,
           AtCall(c, p, i, x), AtPacket(c, q, j, x)
    PROVE  FALSE
<1>1. PICK n \in 1 .. Len(delivered) :
         /\ j \in 1 .. Len(delivered[n].fds) /\ x = delivered[n].fds[j]
  BY DEF AtPacket
<1>2. i \in 1 .. Len(MyFds) /\ x = MyFds[i]
  BY DEF AtCall
<1>3. x < x
  <2>1. \A k \in 1 .. Len(delivered) :
           \A l \in 1 .. Len(delivered[k].fds), o \in 1 .. Len(MyFds) :
              delivered[k].fds[l] < MyFds[o]
    BY DEF FdsWhere, FdsOut
  <2>2. delivered[n].fds[j] < MyFds[i]
    BY <1>1, <1>2, <2>1
  <2> QED
    BY <1>1, <1>2, <2>2
<1>4. x \in Nat
  BY <1>2 DEF FdsWhere, FdsOut
<1> QED
  BY <1>3, <1>4

(* Nor do places of two kinds. *)
LEMMA OneSpot ==
    ASSUME NEW c, FdsWhere(c), NEW p, NEW q, NEW i, NEW j, NEW x,
           Spot(c, p, i, x), Spot(c, q, j, x)
    PROVE  p = q /\ i = j
<1>1. /\ x \in Nat /\ c[1] \in Nat /\ c[Len(socket) + 1] \in Nat
  <2>1. 1 \in 1 .. Len(socket) + 1 /\ Len(socket) + 1 \in 1 .. Len(socket) + 1
    BY WhereFacts
  <2> QED
    BY <2>1, SpotRange, WhereFacts DEF FdsWhere
<1>2. ~ (c[1] < x /\ x <= c[1])
      /\ ~ (c[Len(socket) + 1] < x /\ x <= c[Len(socket) + 1])
  BY <1>1
<1>3. CASE AtCompositor(c, p, i, x)
  <2>1. c[Len(socket) + 1] < x /\ c[1] < x
    BY <1>3, SpotRange
  <2>2. AtCompositor(c, q, j, x)
    BY <1>2, <2>1, SpotRange DEF Spot
  <2> QED
    BY <1>3, <2>2, CompositorSpots
<1>4. CASE AtSocket(c, p, i, x)
  <2>1. c[1] < x /\ x <= c[Len(socket) + 1]
    BY <1>4, SpotRange
  <2>2. AtSocket(c, q, j, x)
    BY <1>2, <2>1, SpotRange DEF Spot
  <2> QED
    BY <1>4, <2>2, SocketSpots
<1>5. CASE AtCall(c, p, i, x)
  <2>1. x <= c[1]
    BY <1>5, SpotRange
  <2>2. AtCall(c, q, j, x) \/ AtPacket(c, q, j, x)
    BY <1>2, <2>1, SpotRange DEF Spot
  <2> QED
    BY <1>5, <2>2, CallSpots, CallOrPacket
<1>6. CASE AtPacket(c, p, i, x)
  <2>1. x <= c[1]
    BY <1>6, SpotRange
  <2>2. AtCall(c, q, j, x) \/ AtPacket(c, q, j, x)
    BY <1>2, <2>1, SpotRange DEF Spot
  <2> QED
    BY <1>6, <2>2, PacketSpots, CallOrPacket
<1> QED
  BY <1>3, <1>4, <1>5, <1>6 DEF Spot

(* Each one is somewhere. *)
LEMMA EachHasSpot ==
    ASSUME NEW c, FdsWhere(c), NEW x \in (1 .. made) \ leaked
    PROVE  \E p \in FdPlaces : \E i \in DOMAIN FdsAt(p) : x = FdsAt(p)[i]
<1> DEFINE n == Len(socket)
<1>1. n \in Nat /\ c \in [1 .. n + 1 -> 0 .. made] /\ made \in Nat
  BY WhereFacts DEF FdsWhere
<1>2. c[1] \in Nat /\ c[n + 1] \in Nat /\ x \in Nat /\ 1 <= x /\ x <= made
  <2>1. 1 \in 1 .. n + 1 /\ n + 1 \in 1 .. n + 1
    BY <1>1
  <2> QED
    BY <1>1, <2>1
<1>3. CASE x <= c[1]
  <2>1. x \in (1 .. c[1]) \ leaked
    BY <1>2, <1>3
  <2>2. \/ \E i \in 1 .. Len(MyFds) : MyFds[i] = x
        \/ \E k \in 1 .. Len(delivered) :
              \E i \in 1 .. Len(delivered[k].fds) : delivered[k].fds[i] = x
    BY <2>1 DEF FdsWhere, FdsOut
  <2>3. ASSUME NEW i \in 1 .. Len(MyFds), MyFds[i] = x
        PROVE  \E p \in FdPlaces : \E l \in DOMAIN FdsAt(p) : x = FdsAt(p)[l]
    <3> DEFINE t == recvLock.writer
    <3>1. t # None
      <4> SUFFICES ASSUME t = None PROVE FALSE
        OBVIOUS
      <4>1. MyFds = <<>>
        BY DEF MyFds
      <4> QED
        BY <2>3, <4>1
    <3>2. t \in Tasks /\ MyFds = held[t] /\ held[t] \in Seq(Nat)
      <4>1. LocalTypes /\ recvLock \in Locks
        BY TypeParts DEF FdsWhere, RecvInv
      <4>2. t \in Tasks \cup {None}
        BY <4>1, LockFields
      <4> QED
        BY <3>1, <4>1, <4>2 DEF MyFds, LocalTypes
    <3>3. <<"call", t>> \in FdPlaces /\ FdsAt(<<"call", t>>) = held[t]
      BY <3>2 DEF FdPlaces, FdsAt
    <3>4. i \in DOMAIN held[t] /\ x = held[t][i]
      BY <2>3, <3>2
    <3> QED
      BY <3>3, <3>4
  <2>4. ASSUME NEW k \in 1 .. Len(delivered),
               NEW i \in 1 .. Len(delivered[k].fds), delivered[k].fds[i] = x
        PROVE  \E p \in FdPlaces : \E l \in DOMAIN FdsAt(p) : x = FdsAt(p)[l]
    <3>1. delivered \in Seq(Packets)
      BY DEF FdsWhere, FdsOut
    <3>2. k \in DOMAIN delivered /\ i \in DOMAIN delivered[k].fds
      BY <3>1 DEF Packets
    <3>3. <<"packet", k>> \in FdPlaces
          /\ FdsAt(<<"packet", k>>) = delivered[k].fds
      BY <3>2 DEF FdPlaces, FdsAt
    <3> QED
      BY <2>4, <3>2, <3>3
  <2> QED
    BY <2>2, <2>3, <2>4
<1>4. CASE c[1] < x
  <2>1. \/ \E j \in 1 .. n : c[j] < x /\ x <= c[j + 1]
        \/ c[n + 1] < x
    BY <1>1, <1>2, <1>4, NoneMissing
  <2>2. ASSUME NEW j \in 1 .. n, c[j] < x, x <= c[j + 1]
        PROVE  \E p \in FdPlaces : \E l \in DOMAIN FdsAt(p) : x = FdsAt(p)[l]
    <3> DEFINE s == socket[j].fds
               k == c[j]
    <3>1. k \in Nat
      <4>1. j \in 1 .. n + 1
        BY <1>1
      <4> QED
        BY <1>1, <4>1
    <3>2. /\ s \in Seq(Nat) /\ Len(s) \in Nat
          /\ c[j + 1] = k + Len(s) /\ \A i \in 1 .. Len(s) : s[i] = k + i
      BY WhereFacts
    <3> HIDE DEF k, s
    <3>3. x - k \in 1 .. Len(s) /\ k + (x - k) = x
      BY <1>2, <2>2, <3>1, <3>2 DEF k
    <3>4. x - k \in DOMAIN s /\ x = s[x - k]
      BY <3>2, <3>3
    <3>5. j \in DOMAIN socket
      BY DEF FdsWhere
    <3>6. <<"socket", j>> \in FdPlaces /\ FdsAt(<<"socket", j>>) = s
      BY <3>5 DEF FdPlaces, FdsAt, s
    <3> QED
      BY <3>4, <3>6
  <2>3. CASE c[n + 1] < x
    <3> DEFINE k == c[n + 1]
    <3>1. /\ bufferFds \in Seq(Nat) /\ Len(bufferFds) \in Nat
          /\ made = k + Len(bufferFds)
          /\ \A i \in 1 .. Len(bufferFds) : bufferFds[i] = k + i
      BY WhereFacts
    <3>2. k \in Nat /\ k < x
      BY <1>2, <2>3
    <3> HIDE DEF k
    <3>3. x - k \in 1 .. Len(bufferFds) /\ k + (x - k) = x
      BY <1>2, <3>1, <3>2
    <3>4. x - k \in DOMAIN bufferFds /\ x = bufferFds[x - k]
      BY <3>1, <3>3
    <3>5. <<"compositor", 0>> \in FdPlaces
          /\ FdsAt(<<"compositor", 0>>) = bufferFds
      BY DEF FdPlaces, FdsAt
    <3> QED
      BY <3>4, <3>5
  <2> QED
    BY <2>1, <2>2, <2>3
<1> QED
  BY <1>2, <1>3, <1>4

(* FdsConserved, by the account: recv_packet neither loses a file           *)
(* descriptor but by leaking it nor returns one twice, nor two of them out *)
(* of order.                                                               *)
THEOREM FdsConservedCorrect == Spec => []FdsConserved
<1>1. StreamInv => FdsConserved
  <2> SUFFICES ASSUME StreamInv PROVE FdsConserved
    OBVIOUS
  <2>1. PICK wire, at, fat, rank, cuts, c :
           AccountOf(sent, expected, made, socket, buffer, bufferFds, Mine,
                     MyFds, delivered, leaked, derailed, Over,
                     wire, at, fat, rank, cuts, c)
    BY Zenon DEF StreamInv, AccountNow, Account
  <2>2. /\ Streamed(sent, expected, made, socket, buffer, bufferFds, wire, at,
                    fat, rank, cuts, c)
        /\ FdsOut(c[1], MyFds, delivered, leaked)
    BY <2>1, Zenon DEF AccountOf
  <2>3. FdsWhere(c)
    BY <2>2, StreamedFacts DEF Streamed, FdsWhere, StreamInv
  <2>4. \A p \in FdPlaces : \A i \in DOMAIN FdsAt(p) :
           FdsAt(p)[i] \in (1 .. made) \ leaked
    BY <2>3, PlaceHolds, SpotRange, Zenon
  <2>5. UNION {Range(FdsAt(p)) : p \in FdPlaces} = (1 .. made) \ leaked
    <3>1. ASSUME NEW x \in UNION {Range(FdsAt(p)) : p \in FdPlaces}
          PROVE  x \in (1 .. made) \ leaked
      <4>1. PICK p \in FdPlaces : x \in Range(FdsAt(p))
        OBVIOUS
      <4>2. PICK i \in DOMAIN FdsAt(p) : x = FdsAt(p)[i]
        BY <4>1 DEF Range
      <4> QED
        BY <2>4, <4>2
    <3>2. ASSUME NEW x \in (1 .. made) \ leaked
          PROVE  x \in UNION {Range(FdsAt(p)) : p \in FdPlaces}
      <4>1. PICK p \in FdPlaces : \E i \in DOMAIN FdsAt(p) : x = FdsAt(p)[i]
        BY <2>3, EachHasSpot
      <4>2. x \in Range(FdsAt(p))
        BY <4>1 DEF Range
      <4> QED
        BY <4>2
    <3> QED
      BY <3>1, <3>2
  <2>6. \A p, q \in FdPlaces :
           \A i \in DOMAIN FdsAt(p), j \in DOMAIN FdsAt(q) :
              FdsAt(p)[i] = FdsAt(q)[j] => p = q /\ i = j
    <3> TAKE p, q \in FdPlaces
    <3> TAKE i \in DOMAIN FdsAt(p), j \in DOMAIN FdsAt(q)
    <3> HAVE FdsAt(p)[i] = FdsAt(q)[j]
    <3>1. Spot(c, p, i, FdsAt(p)[i]) /\ Spot(c, q, j, FdsAt(p)[i])
      BY <2>3, PlaceHolds
    <3> QED
      BY <2>3, <3>1, OneSpot, Zenon
  <2>7. \A m, n \in DOMAIN delivered :
           \A i \in DOMAIN delivered[m].fds, j \in DOMAIN delivered[n].fds :
              (m < n \/ (m = n /\ i < j))
                 => delivered[m].fds[i] < delivered[n].fds[j]
    <3>1. /\ delivered \in Seq(Packets)
          /\ \A m, n \in 1 .. Len(delivered) :
                \A i \in 1 .. Len(delivered[m].fds),
                   j \in 1 .. Len(delivered[n].fds) :
                   (m < n \/ (m = n /\ i < j))
                      => delivered[m].fds[i] < delivered[n].fds[j]
      BY <2>2 DEF FdsOut
    <3>2. /\ DOMAIN delivered = 1 .. Len(delivered)
          /\ \A m \in 1 .. Len(delivered) :
                DOMAIN delivered[m].fds = 1 .. Len(delivered[m].fds)
      BY <3>1 DEF Packets
    <3> QED
      BY <3>1, <3>2, Zenon
  <2> QED
    BY <2>5, <2>6, <2>7, Zenon DEF FdsConserved
<1> QED
  BY <1>1, StreamInvInitially, StreamInvKept, PTL DEF Spec

-----------------------------------------------------------------------------
(* The tasks in recv_packet. *)
Calling == {t \in Tasks : pc[t] # "idle"}

(* What holds in every state and the steps need. *)
InOrderTyped ==
    /\ DeliveredInOrder
    /\ expected \in Seq(Packets) /\ delivered \in Seq(Packets)

(* Write(e) is Arrive, or nothing that the receiver sees. *)
LEMMA EventArrives ==
    ASSUME InOrderTyped, made \in Nat, NEW e \in Events, Write(e)
    PROVE  [Receiver!Next]_(Receiver!vars)
<1>1. pc' = pc /\ delivered' = delivered /\ derailed' = derailed
  BY DEF Write
<1>2. CASE WellFormed(e)
  <2>1. expected' = Append(expected, Packet(e, made))
    BY <1>2 DEF Write
  <2>2. Packet(e, made) \in Packets /\ expected \in Seq(Packets)
    BY PacketOfEvent DEF InOrderTyped
  <2>3. /\ Len(Bodies(expected')) = Len(Bodies(expected)) + 1
        /\ SubSeq(Bodies(expected'), 1, Len(Bodies(expected)))
              = Bodies(expected)
    BY <2>1, <2>2, BodiesPrefix
  <2>4. Receiver!Arrive
    BY <1>1, <2>3 DEF Receiver!Arrive, Bodies
  <2> QED
    BY <2>4 DEF Receiver!Next
<1>3. CASE ~ WellFormed(e)
  BY <1>1, <1>3 DEF Write, Receiver!vars
<1> QED
  BY <1>2, <1>3

(* A call starts, or one ends. *)
LEMMA CallStarts ==
    ASSUME pc \in [Tasks -> Locations], NEW t \in Tasks, CallRecv(t)
    PROVE  Receiver!Next
<1>1. /\ pc[t] = "idle" /\ pc' = [pc EXCEPT ![t] = "locking"]
      /\ expected' = expected /\ delivered' = delivered
      /\ derailed' = derailed
  BY DEF CallRecv, compositorVars
<1>2. Calling' = Calling \cup {t} /\ t \in Calling' \ Calling
  BY <1>1 DEF Calling
<1>3. Receiver!Call(t)
  BY <1>1, <1>2 DEF Receiver!Call, Calling
<1> QED
  BY <1>2, <1>3 DEF Receiver!Next, Calling

(* A call that ends is one less, *)
LEMMA CallOver ==
    ASSUME pc \in [Tasks -> Locations], NEW t \in Tasks, pc[t] # "idle",
           pc' = [pc EXCEPT ![t] = "idle"]
    PROVE  Calling' = Calling \ {t} /\ t \in Calling
BY DEF Calling

(* with an error, *)
LEMMA CallFails ==
    ASSUME pc \in [Tasks -> Locations], derailed \in BOOLEAN,
           NEW t \in Tasks, pc[t] # "idle",
           pc' = [pc EXCEPT ![t] = "idle"],
           NEW mid, mid \in BOOLEAN, derailed' = (derailed \/ mid),
           UNCHANGED <<expected, delivered>>
    PROVE  Receiver!Next
<1>1. Calling' = Calling \ {t} /\ t \in Calling
  BY CallOver
<1>2. derailed' \in {derailed, TRUE}
  OBVIOUS
<1>3. Receiver!Fail(t)
  BY <1>1, <1>2 DEF Receiver!Fail, Calling
<1> QED
  BY <1>1, <1>3 DEF Receiver!Next, Calling

(* or with the packet that is next in the stream; once a call has given up *)
(* in the middle of a packet, with any.                                    *)
LEMMA CallDelivers ==
    ASSUME pc \in [Tasks -> Locations], derailed \in BOOLEAN,
           InOrderTyped, InOrderTyped',
           NEW t \in Tasks, pc[t] # "idle",
           NEW ws, NEW fds, Deliver(t, ws, fds), expected' = expected
    PROVE  Receiver!Next
<1>1. /\ pc' = [pc EXCEPT ![t] = "idle"] /\ derailed' = derailed
      /\ delivered' = Append(delivered, PacketFrom(ws, fds))
  BY DEF Deliver, Leave, PacketFrom
<1>2. CASE derailed
  <2>1. Receiver!Broken
    BY <1>1, <1>2 DEF Receiver!Broken
  <2> QED
    BY <2>1 DEF Receiver!Next
<1>3. CASE ~ derailed
  <2> DEFINE d == Len(delivered)
             p == PacketFrom(ws, fds)
  <2>1. Calling' = Calling \ {t} /\ t \in Calling
    BY <1>1, CallOver
  <2>2. /\ delivered \in Seq(Packets) /\ delivered' \in Seq(Packets)
        /\ expected \in Seq(Packets) /\ d \in Nat /\ Len(expected) \in Nat
    BY DEF InOrderTyped
  <2>3. /\ Len(delivered') = d + 1 /\ DOMAIN delivered' = 1 .. d + 1
        /\ delivered'[d + 1] = p
    BY <1>1, <2>2
  <2>4. p \in Packets
    BY <2>2, <2>3
  <2>5. /\ Len(delivered') <= Len(expected)
        /\ \A i \in DOMAIN delivered' :
              /\ delivered'[i].id = expected[i].id
              /\ delivered'[i].opcode = expected[i].opcode
              /\ delivered'[i].payload = expected[i].payload
    BY <1>1, <1>3 DEF InOrderTyped, DeliveredInOrder
  <2>6. d + 1 \in DOMAIN delivered' /\ d + 1 \in 1 .. Len(expected)
        /\ d < Len(expected)
    BY <2>2, <2>3, <2>5
  <2>7. Body(p) = Body(expected[d + 1])
    BY <2>3, <2>5, <2>6 DEF Body
  <2>8. Bodies(delivered') = Append(Bodies(delivered), Body(p))
    BY <1>1, <2>2, <2>4, BodiesMore
  <2>9. /\ Len(Bodies(delivered)) = d /\ Len(Bodies(expected)) = Len(expected)
        /\ Bodies(expected)[d + 1] = Body(expected[d + 1])
    BY <2>2, <2>6, BodiesOf
  <2> HIDE DEF d, p
  <2>10. /\ Len(Bodies(delivered)) < Len(Bodies(expected))
         /\ Bodies(delivered') = Append(Bodies(delivered),
                          Bodies(expected)[Len(Bodies(delivered)) + 1])
         /\ Calling' = Calling \ {t}
         /\ Bodies(expected') = Bodies(expected) /\ derailed' = derailed
    BY <1>1, <2>1, <2>6, <2>7, <2>8, <2>9
  <2>11. Receiver!Take(t)
    BY <2>10 DEF Receiver!Take, Bodies, Calling
  <2> QED
    BY <2>1, <2>11 DEF Receiver!Next, Calling
<1> QED
  BY <1>2, <1>3

(* A step inside a call. *)
LEMMA SameCalls ==
    ASSUME pc \in [Tasks -> Locations], NEW t \in Tasks, pc[t] # "idle",
           NEW l \in Locations, l # "idle",
           pc' = [pc EXCEPT ![t] = l],
           UNCHANGED <<expected, delivered, derailed>>
    PROVE  UNCHANGED Receiver!vars
<1>1. Calling' = Calling
  BY DEF Calling
<1> QED
  BY <1>1 DEF Receiver!vars, Calling

(* Every step is one of the receiver's, or one that it does not see. *)
LEMMA StepImplementsReceiver ==
    ASSUME StreamInv, InOrderTyped, InOrderTyped', [Next]_vars
    PROVE  [Receiver!Next]_(Receiver!vars)
<1>1. /\ pc \in [Tasks -> Locations] /\ derailed \in BOOLEAN /\ made \in Nat
      /\ \A u \in Tasks : TaskOK(u)
  BY TypeParts DEF StreamInv, RecvInv, LocalTypes, HistoryTypes, StreamTypes
<1>2. ASSUME UNCHANGED <<pc, expected, delivered, derailed>>
      PROVE  UNCHANGED Receiver!vars
  BY <1>2 DEF Receiver!vars
<1>3. ASSUME NEW t \in Tasks, Lock(t)
      PROVE  UNCHANGED Receiver!vars
  BY <1>1, <1>3, SameCalls DEF Lock, Locations, compositorVars
<1>4. ASSUME NEW t \in Tasks, pc[t] # "idle", NEW fds, NEW mid,
             mid \in BOOLEAN, Fail(t, fds, mid), UNCHANGED compositorVars
      PROVE  Receiver!Next
  BY <1>1, <1>4, CallFails DEF Fail, Leave, compositorVars
<1>5. ASSUME NEW t \in Tasks, ReadHeader(t)
      PROVE  [Receiver!Next]_(Receiver!vars)
  <2> DEFINE msg == Receive(socket, HeaderWords - Len(words[t]))
             ws == words[t] \o msg.words
             fds == held[t] \o msg.fds
             long == SizeField(ws[2]) > HeaderBytes
  <2>1. pc[t] = "header" /\ UNCHANGED compositorVars
    BY <1>5 DEF ReadHeader
  <2>2. \/ UNCHANGED <<pc, delivered, derailed>>
        \/ pc' = [pc EXCEPT ![t] = "payload"] /\ UNCHANGED <<delivered, derailed>>
        \/ Fail(t, fds, long)
    BY <1>5 DEF ReadHeader
  <2>3. long \in BOOLEAN
    OBVIOUS
  <2> HIDE DEF msg, ws, fds, long
  <2>4. CASE UNCHANGED <<pc, delivered, derailed>>
    BY <1>2, <2>1, <2>4 DEF compositorVars
  <2>5. CASE pc' = [pc EXCEPT ![t] = "payload"]
             /\ UNCHANGED <<delivered, derailed>>
    BY <1>1, <2>1, <2>5, SameCalls DEF Locations, compositorVars
  <2>6. CASE Fail(t, fds, long)
    BY <1>4, <2>1, <2>3, <2>6
  <2> QED
    BY <2>2, <2>4, <2>5, <2>6
<1>6. ASSUME NEW t \in Tasks, EndOfHeader(t)
      PROVE  Receiver!Next
  BY <1>4, <1>6 DEF EndOfHeader
<1>7. ASSUME NEW t \in Tasks, pc[t] = "payload", NEW ws, NEW fds,
             Deliver(t, ws, fds), UNCHANGED compositorVars
      PROVE  Receiver!Next
  <2>1. pc[t] # "idle" /\ expected' = expected
    BY <1>7 DEF compositorVars
  <2> QED
    BY <1>1, <1>7, <2>1, CallDelivers
<1>8. ASSUME NEW t \in Tasks, ReadPayload(t)
      PROVE  [Receiver!Next]_(Receiver!vars)
  <2> DEFINE msg == Receive(socket, Missing(t))
             ws == words[t] \o msg.words
             fds == held[t] \o msg.fds
  <2>1. pc[t] = "payload" /\ UNCHANGED compositorVars
    BY <1>8 DEF ReadPayload
  <2>2. UNCHANGED <<pc, delivered, derailed>> \/ Deliver(t, ws, fds)
    BY <1>8 DEF ReadPayload
  <2> HIDE DEF msg, ws, fds
  <2>3. CASE UNCHANGED <<pc, delivered, derailed>>
    BY <1>2, <2>1, <2>3 DEF compositorVars
  <2>4. CASE Deliver(t, ws, fds)
    BY <1>7, <2>1, <2>4
  <2> QED
    BY <2>2, <2>3, <2>4
<1>9. ASSUME NEW t \in Tasks, EndOfPayload(t)
      PROVE  Receiver!Next
  <2>1. pc[t] = "payload" /\ UNCHANGED compositorVars
    BY <1>9 DEF EndOfPayload
  <2>2. \/ Deliver(t, words[t], held[t])
        \/ Fail(t, held[t], Missing(t) # 0)
    BY <1>9 DEF EndOfPayload
  <2>3. (Missing(t) # 0) \in BOOLEAN
    OBVIOUS
  <2>4. CASE Deliver(t, words[t], held[t])
    BY <1>7, <2>1, <2>4
  <2>5. CASE Fail(t, held[t], Missing(t) # 0)
    BY <1>4, <2>1, <2>3, <2>5
  <2> QED
    BY <2>2, <2>4, <2>5
<1>10. ASSUME NEW t \in Tasks, Cancel(t)
       PROVE  Receiver!Next
  <2>1. /\ pc[t] # "idle" /\ pc' = [pc EXCEPT ![t] = "idle"]
        /\ derailed' = (derailed \/ words[t] # <<>>)
        /\ UNCHANGED <<expected, delivered>>
    BY <1>10 DEF Cancel, compositorVars
  <2>2. (words[t] # <<>>) \in BOOLEAN
    OBVIOUS
  <2> QED
    BY <1>1, <2>1, <2>2, CallFails
<1>11. ASSUME NEW e \in Events, Write(e)
       PROVE  [Receiver!Next]_(Receiver!vars)
  BY <1>1, <1>11, EventArrives
<1>12. ASSUME NEW t \in Tasks, CallRecv(t)
       PROVE  Receiver!Next
  BY <1>1, <1>12, CallStarts
<1>13. ASSUME (\E n \in 1 .. Len(buffer) : Flush(n)) \/ HangUp
              \/ UNCHANGED vars
       PROVE  UNCHANGED Receiver!vars
  BY <1>2, <1>13 DEF Flush, HangUp, vars, compositorVars
<1> QED
  BY <1>3, <1>5, <1>6, <1>8, <1>9, <1>10, <1>11, <1>12, <1>13 DEF Next, Recv

(* And it starts as the receiver does. *)
LEMMA InitImplementsReceiver == Init => Receiver!Init
<1> SUFFICES ASSUME Init PROVE Receiver!Init
  OBVIOUS
<1>1. expected = <<>> /\ delivered = <<>> /\ derailed = FALSE
      /\ \A t \in Tasks : pc[t] = "idle"
  BY DEF Init
<1>2. [i \in DOMAIN expected |-> Body(expected[i])] = <<>>
  BY <1>1
<1>3. [i \in DOMAIN delivered |-> Body(delivered[i])] = <<>>
  BY <1>1
<1> QED
  BY <1>1, <1>2, <1>3 DEF Receiver!Init

(* ImplementsReceiver: to its callers recv_packet is the queue of packets   *)
(* of PacketReceiver, though tasks come and go, are dropped, take turns at *)
(* the lock and read piece by piece.                                       *)
THEOREM RecvPathImplementsReceiver ==
    ASSUME OpcodesFit
    PROVE  Spec => ImplementsReceiver
<1>1. Init => StreamInv /\ ExpectedFit
  BY StreamInvInitially, ExpectedFitInitially
<1>2. (StreamInv /\ ExpectedFit) /\ [Next]_vars => (StreamInv /\ ExpectedFit)'
  BY StreamInvKept, ExpectedFitKept
<1>3. StreamInv /\ ExpectedFit => InOrderTyped
  BY InOrder DEF InOrderTyped
<1>4. StreamInv /\ InOrderTyped /\ InOrderTyped' /\ [Next]_vars
      => [Receiver!Next]_(Receiver!vars)
  BY StepImplementsReceiver
<1> QED
  BY <1>1, <1>2, <1>3, <1>4, InitImplementsReceiver, PTL
     DEF Spec, ImplementsReceiver, Receiver!Spec

-----------------------------------------------------------------------------
(* A task that awaits recv_lock has its request in the queue: what a call  *)
(* takes out when it ends or is dropped is its own.                        *)
Queued ==
    \A t \in Tasks : pc[t] = "locking" =>
       \E r \in Range(recvLock.waiting) : r.task = t

(* A step of t that takes no request but t's own out of the queue.         *)
LEMMA QueuedStill ==
    ASSUME Queued, NEW t \in Tasks,
           \A u \in Tasks \ {t} : pc'[u] = pc[u],
           \A r \in Range(recvLock.waiting) :
              r.task # t => r \in Range(recvLock'.waiting),
           pc'[t] = "locking" => \E r \in Range(recvLock'.waiting) : r.task = t
    PROVE  Queued'
<1> SUFFICES ASSUME NEW u \in Tasks, pc'[u] = "locking"
             PROVE  \E r \in Range(recvLock'.waiting) : r.task = u
  BY DEF Queued
<1>1. CASE u = t
  BY <1>1
<1>2. CASE u # t
  <2>1. pc[u] = "locking"
    BY <1>2
  <2>2. PICK r \in Range(recvLock.waiting) : r.task = u
    BY <2>1 DEF Queued
  <2> QED
    BY <1>2, <2>2
<1> QED
  BY <1>1, <1>2

(* Where the reads leave a call: where it was, in the payload, or at its   *)
(* end.                                                                    *)
LEMMA ReadingEnds ==
    ASSUME NEW t \in Tasks,
           ReadHeader(t) \/ EndOfHeader(t) \/ ReadPayload(t) \/ EndOfPayload(t)
    PROVE  \/ UNCHANGED <<pc, recvLock>>
           \/ pc' = [pc EXCEPT ![t] = "payload"] /\ UNCHANGED recvLock
           \/ Leave(t)
<1>1. CASE ReadHeader(t)
  BY <1>1 DEF ReadHeader, Fail
<1>2. CASE EndOfHeader(t)
  BY <1>2 DEF EndOfHeader, Fail
<1>3. CASE ReadPayload(t)
  BY <1>3 DEF ReadPayload, Deliver
<1>4. CASE EndOfPayload(t)
  BY <1>4 DEF EndOfPayload, Deliver, Fail
<1> QED
  BY <1>1, <1>2, <1>3, <1>4

LEMMA QueuedKept == RecvInv /\ Queued /\ [Next]_vars => Queued'
<1> SUFFICES ASSUME RecvInv, Queued, [Next]_vars PROVE Queued'
  OBVIOUS
<1>1. /\ recvLock \in Locks /\ Distinct(recvLock)
      /\ pc \in [Tasks -> Locations]
  BY DEF RecvInv, TypeOK, QueueOK
<1>2. ASSUME UNCHANGED <<pc, recvLock>> PROVE Queued'
  BY <1>2 DEF Queued
<1>3. ASSUME NEW t \in Tasks, NEW l, l # "locking", pc' = [pc EXCEPT ![t] = l],
             recvLock'.waiting = recvLock.waiting
      PROVE  Queued'
  BY <1>1, <1>3, QueuedStill
<1>4. ASSUME NEW t \in Tasks, CallRecv(t) PROVE Queued'
  <2>1. /\ pc' = [pc EXCEPT ![t] = "locking"]
        /\ recvLock' = Request(recvLock, t, "write")
    BY <1>4 DEF CallRecv
  <2>2. Range(recvLock'.waiting)
          = Range(recvLock.waiting) \cup {[task |-> t, mode |-> "write"]}
    BY <1>1, <2>1, RequestLock DEF Modes
  <2>3. \E r \in Range(recvLock'.waiting) : r.task = t
    <3>1. [task |-> t, mode |-> "write"] \in Range(recvLock'.waiting)
      BY <2>2
    <3>2. [task |-> t, mode |-> "write"].task = t
      OBVIOUS
    <3> QED
      BY Zenon, <3>1, <3>2
  <2>4. \A u \in Tasks \ {t} : pc'[u] = pc[u]
    BY <1>1, <2>1
  <2>5. \A r \in Range(recvLock.waiting) :
           r.task # t => r \in Range(recvLock'.waiting)
    BY <2>2
  <2> QED
    BY Zenon, <2>3, <2>4, <2>5, QueuedStill
<1>5. ASSUME NEW t \in Tasks, Lock(t) PROVE Queued'
  <2>1. /\ pc' = [pc EXCEPT ![t] = "header"] /\ Grantable(recvLock, t)
        /\ recvLock' = Grant(recvLock)
    BY <1>5 DEF Lock
  <2>2. Range(recvLock'.waiting) = {q \in Range(recvLock.waiting) : q.task # t}
    BY <1>1, <2>1, GrantLock
  <2>3. pc'[t] # "locking" /\ \A u \in Tasks \ {t} : pc'[u] = pc[u]
    BY <1>1, <2>1
  <2> QED
    BY <2>2, <2>3, QueuedStill
<1>6. ASSUME NEW t \in Tasks, Leave(t) PROVE Queued'
  <2>1. recvLock'.waiting = recvLock.waiting
    BY <1>1, <1>6, ReleaseLock DEF Leave
  <2> QED
    BY <1>3, <1>6, <2>1 DEF Leave
<1>7. ASSUME NEW t \in Tasks, Recv(t) PROVE Queued'
  BY <1>2, <1>3, <1>5, <1>6, <1>7, ReadingEnds DEF Recv
<1>8. ASSUME NEW t \in Tasks, Cancel(t) PROVE Queued'
  <2>1. /\ pc' = [pc EXCEPT ![t] = "idle"]
        /\ recvLock' = Release(Withdraw(recvLock, t), t)
    BY <1>8 DEF Cancel
  <2>2. Range(recvLock'.waiting) = {q \in Range(recvLock.waiting) : q.task # t}
    BY <1>1, <2>1, WithdrawLock, ReleaseLock
  <2>3. pc'[t] # "locking" /\ \A u \in Tasks \ {t} : pc'[u] = pc[u]
    BY <1>1, <2>1
  <2> QED
    BY <2>2, <2>3, QueuedStill
<1>9. CASE \/ \E e \in Events : Write(e)
           \/ \E n \in 1 .. Len(buffer) : Flush(n)
           \/ HangUp
  BY <1>2, <1>9 DEF Write, Flush, HangUp
<1>10. CASE UNCHANGED vars
  BY <1>2, <1>10 DEF vars
<1> QED
  BY <1>4, <1>7, <1>8, <1>9, <1>10 DEF Next

(* However many tasks call recv_packet, and whether their calls return a   *)
(* packet, fail or are dropped while they wait or read: nobody waits for a *)
(* recv_lock that nobody has and nobody will take.                         *)
THEOREM RecvNeverStuck == Spec => []NeverStuck
<1>1. Init => Queued
  BY DEF Init, Queued
<1>2. ASSUME RecvInv, Queued PROVE NeverStuck
  <2> SUFFICES ASSUME NEW t \in Tasks, pc[t] = "locking",
                      \A u \in Tasks : pc[u] \notin {"header", "payload"}
               PROVE  \E u \in Tasks : pc[u] = "locking" /\ Grantable(recvLock, u)
    BY DEF NeverStuck
  <2>1. /\ recvLock \in Locks /\ recvLock.readers = {}
        /\ \A r \in Range(recvLock.waiting) :
              r.mode = "write" /\ pc[r.task] = "locking"
        /\ \A u \in Tasks : pc[u] \in {"header", "payload"} <=> recvLock.writer = u
    BY <1>2 DEF RecvInv, TypeOK, QueueOK
  <2>2. recvLock.waiting \in Seq(Requests) /\ recvLock.writer = None
    BY <2>1, LockFields
  <2>3. recvLock.waiting # <<>>
    BY <1>2 DEF Queued, Range
  <2>4. Head(recvLock.waiting) \in Requests
        /\ Head(recvLock.waiting) \in Range(recvLock.waiting)
    BY <2>2, <2>3 DEF Range
  <2>5. Head(recvLock.waiting).task \in Tasks
    BY <2>4 DEF Requests
  <2> QED
    BY <2>1, <2>2, <2>3, <2>4, <2>5 DEF Grantable
<1> QED
  BY <1>1, <1>2, QueuedKept, RecvInvInitially, RecvInvKept, PTL DEF Spec

-----------------------------------------------------------------------------
(* No read comes back empty-handed: there is a word in every segment.      *)
Full(queue) == \A i \in DOMAIN queue : queue[i].words # <<>>

LEMMA ReceiveSome ==
    ASSUME NEW queue \in Seq(Segments), queue # <<>>, Full(queue), NEW n \in Nat
    PROVE  /\ n > 0 => Len(Receive(queue, n).words) > 0
           /\ Full(Receive(queue, n).queue)
<1> DEFINE first == Head(queue)
           ws == first.words
           size == Len(ws)
           k == IF n < size THEN n ELSE size
           taken == SubSeq(ws, 1, k)
           left == SubSeq(ws, k + 1, size)
           remainder == Segment(left, <<>>)
           after == IF k = size THEN Tail(queue)
                                ELSE <<remainder>> \o Tail(queue)
<1>1. /\ first \in Segments /\ Tail(queue) \in Seq(Segments)
      /\ Len(Tail(queue)) = Len(queue) - 1 /\ first = queue[1]
      /\ \A i \in 1 .. Len(Tail(queue)) : Tail(queue)[i] = queue[i + 1]
  BY HeadTailProperties
<1>2. ws \in Seq(Nat)
  BY <1>1 DEF Segments
<1>3. ws # <<>>
  BY <1>1 DEF Full
<1>4. Receive(queue, n) = [words |-> taken, fds |-> first.fds, queue |-> after]
  BY Zenon DEF Receive
<1> HIDE DEF first
<1>5. size \in Nat /\ size > 0
  BY <1>2, <1>3
<1> HIDE DEF ws
<1>6. k \in Nat /\ k <= size /\ (n > 0 => k > 0)
  BY <1>5
<1>7. size = Len(ws)
  OBVIOUS
<1> HIDE DEF k, size
<1>8. n > 0 => Len(taken) > 0
  <2>1. Len(taken) = IF 1 <= k THEN k - 1 + 1 ELSE 0
    BY <1>2, <1>6, <1>7, SliceOfSeq
  <2> QED
    BY <1>6, <2>1
<1>9. left \in Seq(Nat) /\ (k # size => left # <<>>)
  <2>1. k + 1 \in Nat \ {0} /\ size <= Len(ws) /\ size \in Nat
    BY <1>5, <1>6, <1>7
  <2>2. /\ left \in Seq(Nat)
        /\ Len(left) = IF k + 1 <= size THEN size - (k + 1) + 1 ELSE 0
    BY <1>2, <2>1, SliceOfSeq
  <2>3. k # size => Len(left) > 0
    BY <1>5, <1>6, <2>2
  <2>4. left \in Seq(Nat)
    BY <2>2
  <2> HIDE DEF left
  <2> QED
    BY <2>3, <2>4
<1> HIDE DEF taken, left
<1>10. remainder \in Segments /\ (k # size => remainder.words # <<>>)
  BY <1>9 DEF Segment, Segments
<1> HIDE DEF remainder
<1>11. Full(Tail(queue))
  <2>1. DOMAIN queue = 1 .. Len(queue) /\ Len(queue) \in Nat
    OBVIOUS
  <2>2. DOMAIN Tail(queue) = 1 .. Len(Tail(queue))
    BY <1>1
  <2>3. ASSUME NEW i \in DOMAIN Tail(queue) PROVE Tail(queue)[i].words # <<>>
    <3>1. i + 1 \in DOMAIN queue /\ Tail(queue)[i] = queue[i + 1]
      BY <1>1, <2>1, <2>2, <2>3
    <3> QED
      BY <3>1 DEF Full
  <2> QED
    BY <2>3 DEF Full
<1>12. CASE k # size
  <2> DEFINE rest == Tail(queue)
             all == <<remainder>> \o rest
  <2>1. rest \in Seq(Segments) /\ Full(rest)
    BY <1>1, <1>11
  <2> HIDE DEF rest
  <2>2. /\ DOMAIN all = 1 .. Len(rest) + 1
        /\ all[1] = remainder
        /\ \A i \in 1 .. Len(rest) : all[i + 1] = rest[i]
    BY <1>10, <2>1
  <2> HIDE DEF all
  <2>3. ASSUME NEW i \in DOMAIN all PROVE all[i].words # <<>>
    <3>1. CASE i = 1
      BY <1>10, <1>12, <2>2, <3>1
    <3>2. CASE i # 1
      <4>1. i - 1 \in 1 .. Len(rest) /\ i = (i - 1) + 1
        BY <2>1, <2>2, <3>2
      <4>2. i - 1 \in DOMAIN rest /\ all[i] = rest[i - 1]
        BY <2>1, <2>2, <4>1
      <4> QED
        BY <2>1, <4>2 DEF Full
    <3> QED
      BY <3>1, <3>2
  <2> QED
    BY <1>4, <1>8, <1>12, <2>3 DEF Full, all, rest
<1>13. CASE k = size
  BY <1>4, <1>8, <1>11, <1>13
<1> QED
  BY <1>12, <1>13

(* What a call asks for, and what it gets.                                 *)
LEMMA HeaderRoom ==
    ASSUME NEW t \in Tasks, LocalTypes, TaskOK(t), pc[t] = "header"
    PROVE  HeaderWords - Len(words[t]) \in Nat \ {0}
<1>1. Len(words[t]) \in Nat /\ Len(words[t]) < HeaderWords
  BY DEF LocalTypes, TaskOK
<1> QED
  BY <1>1 DEF HeaderWords

LEMMA FullKept == RecvInv /\ Full(socket) /\ [Next]_vars => Full(socket)'
<1> SUFFICES ASSUME RecvInv, Full(socket), [Next]_vars PROVE Full(socket)'
  OBVIOUS
<1>1. LocalTypes /\ StreamTypes /\ \A t \in Tasks : TaskOK(t)
  BY TypeParts DEF RecvInv
<1>2. buffer \in Seq(Nat) /\ socket \in Seq(Segments)
  BY <1>1 DEF StreamTypes
<1>3. ASSUME UNCHANGED socket PROVE Full(socket)'
  BY <1>3 DEF Full
<1>4. ASSUME NEW n \in 1 .. Len(buffer), Flush(n) PROVE Full(socket)'
  <2> DEFINE s == Segment(SubSeq(buffer, 1, n), bufferFds)
  <2>1. socket' = Append(socket, s)
    BY <1>4 DEF Flush
  <2>2. Len(SubSeq(buffer, 1, n)) = IF 1 <= n THEN n - 1 + 1 ELSE 0
    BY <1>2, <1>4, SliceOfSeq
  <2>3. SubSeq(buffer, 1, n) # <<>>
    BY <1>2, <1>4, <2>2
  <2>4. s.words # <<>>
    BY <2>3 DEF Segment
  <2> HIDE DEF s
  <2>5. /\ DOMAIN socket' = 1 .. Len(socket) + 1
        /\ socket'[Len(socket) + 1] = s
        /\ \A i \in 1 .. Len(socket) : socket'[i] = socket[i]
    BY <1>2, <2>1
  <2>6. ASSUME NEW i \in DOMAIN socket' PROVE socket'[i].words # <<>>
    <3>1. i = Len(socket) + 1 \/ i \in 1 .. Len(socket)
      BY <1>2, <2>5, <2>6
    <3>2. DOMAIN socket = 1 .. Len(socket)
      BY <1>2
    <3> QED
      BY <2>4, <2>5, <3>1, <3>2 DEF Full
  <2> QED
    BY <2>6 DEF Full
<1>5. ASSUME NEW t \in Tasks, ReadHeader(t) PROVE Full(socket)'
  <2> DEFINE n == HeaderWords - Len(words[t])
  <2>1. socket # <<>> /\ socket' = Receive(socket, n).queue
    BY <1>5 DEF ReadHeader
  <2>2. n \in Nat
    BY <1>1, <1>5, HeaderRoom DEF ReadHeader
  <2> HIDE DEF n
  <2> QED
    BY <1>2, <2>1, <2>2, ReceiveSome
<1>6. ASSUME NEW t \in Tasks, ReadPayload(t) PROVE Full(socket)'
  <2>1. socket # <<>> /\ socket' = Receive(socket, Missing(t)).queue
    BY <1>6 DEF ReadPayload
  <2>2. Missing(t) \in Nat
    BY <1>1, <1>6, MissingWords DEF ReadPayload
  <2> QED
    BY <1>2, <2>1, <2>2, ReceiveSome
<1>7. ASSUME NEW t \in Tasks, CallRecv(t) \/ Lock(t) \/ Cancel(t) PROVE Full(socket)'
  BY <1>3, <1>7 DEF CallRecv, Lock, Cancel
<1>8. ASSUME NEW t \in Tasks, EndOfHeader(t) \/ EndOfPayload(t) PROVE Full(socket)'
  BY <1>3, <1>8 DEF EndOfHeader, EndOfPayload
<1>9. CASE (\E e \in Events : Write(e)) \/ HangUp
  BY <1>3, <1>9 DEF Write, HangUp
<1>10. CASE UNCHANGED vars
  BY <1>3, <1>10 DEF vars
<1> QED
  BY <1>4, <1>5, <1>6, <1>7, <1>8, <1>9, <1>10 DEF Next, Recv

(* A call passes on to a later part of it.                                 *)
LEMMA PassingOn ==
    ASSUME LocalTypes, NEW t \in Tasks, pc[t] # "idle",
           \/ pc' = [pc EXCEPT ![t] = "idle"]
           \/ pc[t] = "header" /\ pc' = [pc EXCEPT ![t] = "payload"]
           \/ pc[t] = "locking" /\ pc' = [pc EXCEPT ![t] = "header"]
    PROVE  Advances(t)
<1>1. pc[t] \in {"locking", "header", "payload"} /\ pc \in [Tasks -> Locations]
  BY DEF LocalTypes, Locations
<1>2. /\ Stages["idle"] = 0 /\ Stages["payload"] = 1
      /\ Stages["header"] = 2 /\ Stages["locking"] = 3
  BY DEF Stages
<1>3. \/ pc'[t] = "idle"
      \/ pc[t] = "header" /\ pc'[t] = "payload"
      \/ pc[t] = "locking" /\ pc'[t] = "header"
  BY <1>1
<1> HIDE DEF Stages
<1>4. Stages[pc'[t]] < Stages[pc[t]]
  BY <1>1, <1>2, <1>3
<1> QED
  BY <1>4 DEF Advances

(* A call stays where it is with more words.                               *)
LEMMA MoreWords ==
    ASSUME LocalTypes, NEW t \in Tasks, NEW more \in Seq(Nat), Len(more) > 0,
           UNCHANGED pc, words' = [words EXCEPT ![t] = words[t] \o more]
    PROVE  Advances(t)
<1>1. words[t] \in Seq(Nat) /\ words'[t] = words[t] \o more
  BY DEF LocalTypes
<1>2. Len(words'[t]) > Len(words[t])
  BY <1>1
<1> QED
  BY <1>2 DEF Advances

LEMMA RecvAdvances ==
    ASSUME RecvInv, Full(socket), NEW t \in Tasks, Recv(t)
    PROVE  Advances(t)
<1>1. /\ LocalTypes /\ StreamTypes /\ TaskOK(t)
      /\ socket \in Seq(Segments) /\ words[t] \in Seq(Nat)
  BY TypeParts DEF RecvInv, StreamTypes, LocalTypes
<1>2. ASSUME pc[t] # "idle", Leave(t) PROVE Advances(t)
  BY <1>1, <1>2, PassingOn DEF Leave
<1>3. CASE Lock(t)
  BY <1>1, <1>3, PassingOn DEF Lock
<1>4. CASE ReadHeader(t)
  <2> DEFINE n == HeaderWords - Len(words[t])
             msg == Receive(socket, n)
             ws == words[t] \o msg.words
  <2>1. /\ pc[t] = "header" /\ socket # <<>>
        /\ \/ words' = [words EXCEPT ![t] = ws] /\ UNCHANGED pc
           \/ pc' = [pc EXCEPT ![t] = "payload"]
           \/ Leave(t)
    BY <1>4 DEF ReadHeader, Fail
  <2>2. n \in Nat /\ n > 0
    BY <1>1, <2>1, HeaderRoom
  <2> HIDE DEF n
  <2>3. msg.words \in Seq(Nat) /\ Len(msg.words) > 0
    BY <1>1, <2>1, <2>2, ReceiveTypes, ReceiveSome
  <2> HIDE DEF msg
  <2>4. CASE words' = [words EXCEPT ![t] = ws] /\ UNCHANGED pc
    BY <1>1, <2>3, <2>4, MoreWords
  <2>5. CASE pc' = [pc EXCEPT ![t] = "payload"]
    BY <1>1, <2>1, <2>5, PassingOn
  <2> QED
    BY <1>2, <2>1, <2>4, <2>5
<1>5. CASE EndOfHeader(t)
  BY <1>2, <1>5 DEF EndOfHeader, Fail
<1>6. CASE ReadPayload(t)
  <2> DEFINE n == Missing(t)
             msg == Receive(socket, n)
             ws == words[t] \o msg.words
  <2>1. /\ pc[t] = "payload" /\ socket # <<>>
        /\ \/ /\ Len(msg.words) < n
              /\ words' = [words EXCEPT ![t] = ws] /\ UNCHANGED pc
           \/ Leave(t)
    BY <1>6 DEF ReadPayload, Deliver
  <2>2. n \in Nat
    BY <1>1, <2>1, MissingWords
  <2> HIDE DEF n
  <2>3. msg.words \in Seq(Nat) /\ (n > 0 => Len(msg.words) > 0)
    BY <1>1, <2>1, <2>2, ReceiveTypes, ReceiveSome
  <2> HIDE DEF msg
  <2>4. CASE /\ Len(msg.words) < n
             /\ words' = [words EXCEPT ![t] = ws] /\ UNCHANGED pc
    <3>1. n > 0
      BY <2>2, <2>3, <2>4
    <3> QED
      BY <1>1, <2>3, <2>4, <3>1, MoreWords
  <2> QED
    BY <1>2, <2>1, <2>4
<1>7. CASE EndOfPayload(t)
  BY <1>2, <1>7 DEF EndOfPayload, Deliver, Fail
<1> QED
  BY <1>3, <1>4, <1>5, <1>6, <1>7 DEF Recv

(* A step of another task, or of the compositor, leaves a call as it is.   *)
LEMMA OthersLeave ==
    ASSUME RecvInv, NEW t \in Tasks, pc[t] # "idle", [Next]_vars, ~ Recv(t),
           ~ Cancel(t)
    PROVE  UNCHANGED <<pc[t], words[t], held[t]>>
<1>1. LocalTypes
  BY TypeParts DEF RecvInv
<1>2. ASSUME UNCHANGED <<pc, words, held>> PROVE UNCHANGED <<pc[t], words[t], held[t]>>
  BY <1>2
<1>3. ASSUME NEW u \in Tasks \ {t},
             CallRecv(u) \/ Lock(u) \/ Cancel(u)
      PROVE  UNCHANGED <<pc[t], words[t], held[t]>>
  BY <1>1, <1>3 DEF LocalTypes, CallRecv, Lock, Cancel
<1>4. ASSUME NEW u \in Tasks \ {t}, Leave(u)
      PROVE  UNCHANGED <<pc[t], words[t], held[t]>>
  BY <1>1, <1>4 DEF LocalTypes, Leave
<1>5. ASSUME NEW u \in Tasks \ {t}, NEW ws, NEW fds,
             words' = [words EXCEPT ![u] = ws], held' = [held EXCEPT ![u] = fds],
             pc' = pc \/ pc' = [pc EXCEPT ![u] = "payload"]
      PROVE  UNCHANGED <<pc[t], words[t], held[t]>>
  BY <1>1, <1>5 DEF LocalTypes
<1>6. ASSUME NEW u \in Tasks \ {t}, ReadHeader(u) \/ ReadPayload(u)
      PROVE  UNCHANGED <<pc[t], words[t], held[t]>>
  <2>1. \/ Leave(u)
        \/ \E ws, fds : /\ words' = [words EXCEPT ![u] = ws]
                        /\ held' = [held EXCEPT ![u] = fds]
                        /\ pc' = pc \/ pc' = [pc EXCEPT ![u] = "payload"]
    <3>1. CASE ReadHeader(u)
      BY Zenon, <3>1 DEF ReadHeader, Fail
    <3>2. CASE ReadPayload(u)
      BY Zenon, <3>2 DEF ReadPayload, Deliver
    <3> QED
      BY <1>6, <3>1, <3>2
  <2> QED
    BY <1>4, <1>5, <2>1
<1>7. ASSUME NEW u \in Tasks \ {t}, EndOfHeader(u) \/ EndOfPayload(u)
      PROVE  UNCHANGED <<pc[t], words[t], held[t]>>
  BY <1>4, <1>7 DEF EndOfHeader, EndOfPayload, Fail, Deliver
<1>8. CASE \/ \E e \in Events : Write(e)
           \/ \E n \in 1 .. Len(buffer) : Flush(n)
           \/ HangUp
  BY <1>2, <1>8 DEF Write, Flush, HangUp
<1>9. CASE UNCHANGED vars
  BY <1>2, <1>9 DEF vars
<1>10. ~ CallRecv(t)
  BY DEF CallRecv
<1> QED
  BY <1>3, <1>6, <1>7, <1>8, <1>9, <1>10 DEF Next, Recv

(* The variant of a call, for any tasks, events and ways to flush them:    *)
(* each step of it comes nearer to its end, and nothing sets it back.      *)
(* With RecvNeverStuck this is what the end of a call has besides          *)
(* fairness and a compositor that sends what it has announced.             *)
THEOREM CallAdvancesCorrect == Spec => CallAdvances
<1>1. Init => Full(socket)
  BY DEF Init, Full
<1>2. RecvInv /\ Full(socket) /\ [Next]_vars
        => [\A t \in Tasks : pc[t] # "idle" =>
              /\ Advances(t) \/ UNCHANGED <<pc[t], words[t], held[t]>>
              /\ Recv(t) => Advances(t)]_vars
  <2> SUFFICES ASSUME RecvInv, Full(socket), [Next]_vars,
                      NEW t \in Tasks, pc[t] # "idle"
               PROVE  /\ Advances(t) \/ UNCHANGED <<pc[t], words[t], held[t]>>
                      /\ Recv(t) => Advances(t)
    OBVIOUS
  <2>1. CASE Cancel(t)
    <3>1. LocalTypes
      BY TypeParts DEF RecvInv
    <3>2. pc' = [pc EXCEPT ![t] = "idle"]
      BY <2>1 DEF Cancel
    <3>3. Advances(t)
      BY <3>1, <3>2, PassingOn
    <3> QED
      BY <3>3
  <2>2. CASE ~ Cancel(t)
    BY Zenon, <2>2, RecvAdvances, OthersLeave
  <2> QED
    BY <2>1, <2>2
<1> QED
  BY <1>1, <1>2, FullKept, RecvInvInitially, RecvInvKept, PTL DEF Spec, CallAdvances

=============================================================================
