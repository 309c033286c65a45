-------------------------- MODULE TokioLockProofs --------------------------
(***************************************************************************)
(* What the operators of TokioLock do to the guards that are out and to    *)
(* the set of waiting requests.  With these lemmas a proof about a user of *)
(* the lock never looks at the positions of the queue again.               *)
(***************************************************************************)
EXTENDS TokioLock, SequenceTheorems, TLAPS

(* The fields of a lock have their types, and they determine it. *)
LEMMA LockFields ==
    ASSUME NEW lock \in Locks
    PROVE  /\ lock.writer \in Tasks \cup {None}
           /\ lock.readers \subseteq Tasks
           /\ lock.waiting \in Seq(Requests)
           /\ Range(lock.waiting) \subseteq Requests
           /\ lock = [writer |-> lock.writer, readers |-> lock.readers,
                      waiting |-> lock.waiting]
<1>1. /\ lock.writer \in Tasks \cup {None}
      /\ lock.readers \subseteq Tasks
      /\ lock.waiting \in Seq(Requests)
      /\ lock = [writer |-> lock.writer, readers |-> lock.readers,
                 waiting |-> lock.waiting]
  BY DEF Locks
<1>2. Range(lock.waiting) \subseteq Requests
  BY <1>1, RangeOfSeq
<1>3. QED
  BY <1>1, <1>2

(* Replacing the queue leaves the other fields. *)
LEMMA Requeue ==
    ASSUME NEW lock \in Locks, NEW q
    PROVE  [lock EXCEPT !.waiting = q]
             = [writer |-> lock.writer, readers |-> lock.readers, waiting |-> q]
BY DEF Locks

(* The initial lock is a lock with nothing out and nobody waiting. *)
LEMMA UnlockedLock ==
    /\ Unlocked \in Locks
    /\ Distinct(Unlocked)
    /\ Range(Unlocked.waiting) = {}
    /\ Unlocked.writer = None
    /\ Unlocked.readers = {}
BY DEF Unlocked, Locks, Distinct, Range

(* A call of read() or write() adds a request and changes no guard. *)
LEMMA RequestLock ==
    ASSUME NEW lock \in Locks, NEW t \in Tasks, NEW mode \in Modes
    PROVE  /\ Request(lock, t, mode) \in Locks
           /\ Request(lock, t, mode).writer = lock.writer
           /\ Request(lock, t, mode).readers = lock.readers
           /\ Range(Request(lock, t, mode).waiting)
                = Range(lock.waiting) \cup {[task |-> t, mode |-> mode]}
           /\ Distinct(lock) /\ (\A r \in Range(lock.waiting) : r.task # t)
              => Distinct(Request(lock, t, mode))
<1> DEFINE q == lock.waiting
           e == [task |-> t, mode |-> mode]
           n == Append(q, e)
<1>1. q \in Seq(Requests) /\ e \in Requests
  BY LockFields DEF Requests
<1>2. /\ n \in Seq(Requests)
      /\ Len(n) = Len(q) + 1
      /\ \A i \in 1 .. Len(q) : n[i] = q[i]
      /\ n[Len(q) + 1] = e
  BY <1>1, AppendProperties
<1>3. /\ Len(q) \in Nat
      /\ DOMAIN q = 1 .. Len(q)
      /\ DOMAIN n = 1 .. Len(q) + 1
  BY <1>1, <1>2, LenProperties
<1>4. Request(lock, t, mode) = [writer |-> lock.writer,
                                readers |-> lock.readers, waiting |-> n]
  BY Requeue DEF Request
<1>5. Request(lock, t, mode) \in Locks
  BY <1>2, <1>4, LockFields DEF Locks
<1>6. Range(n) = Range(q) \cup {e}
  BY <1>2, <1>3 DEF Range
<1>7. ASSUME Distinct(lock), \A r \in Range(q) : r.task # t
      PROVE  Distinct(Request(lock, t, mode))
  <2>1. \A i \in 1 .. Len(q) : n[i].task # t
    BY <1>2, <1>3, <1>7 DEF Range
  <2>2. \A i, j \in 1 .. Len(q) : n[i].task = n[j].task => i = j
    BY <1>2, <1>3, <1>7 DEF Distinct
  <2>3. \A i, j \in DOMAIN n : n[i].task = n[j].task => i = j
    BY <1>2, <1>3, <2>1, <2>2
  <2>4. QED
    BY <1>4, <2>3 DEF Distinct
<1>8. QED
  BY <1>4, <1>5, <1>6, <1>7

(* A grant hands out the guard that the first request asks for and takes   *)
(* that request, the only one of its task, out of the queue.               *)
LEMMA GrantLock ==
    ASSUME NEW lock \in Locks, NEW t \in Tasks, Grantable(lock, t)
    PROVE  LET r == Head(lock.waiting)
           IN  /\ r \in Range(lock.waiting)
               /\ r \in Requests
               /\ r.task = t
               /\ lock.writer = None
               /\ r.mode = "write" => lock.readers = {}
               /\ Grant(lock) \in Locks
               /\ Grant(lock).writer = IF r.mode = "write" THEN t ELSE None
               /\ Grant(lock).readers = IF r.mode = "read"
                                        THEN lock.readers \cup {t}
                                        ELSE lock.readers
               /\ Distinct(lock)
                  => /\ Distinct(Grant(lock))
                     /\ Range(Grant(lock).waiting)
                          = {q \in Range(lock.waiting) : q.task # t}
<1> DEFINE q == lock.waiting
           r == Head(q)
           n == Tail(q)
<1>1. q \in Seq(Requests) /\ q # <<>> /\ r.task = t
  BY LockFields DEF Grantable
<1>2. /\ r \in Requests
      /\ n \in Seq(Requests)
      /\ Len(n) = Len(q) - 1
      /\ \A i \in 1 .. Len(n) : n[i] = q[i + 1]
  BY <1>1, HeadTailProperties
<1>3. /\ Len(q) \in Nat \ {0}
      /\ DOMAIN q = 1 .. Len(q)
      /\ DOMAIN n = 1 .. Len(q) - 1
  BY <1>1, <1>2, LenProperties, EmptySeq
<1>4. r = q[1]
  BY <1>1
<1>5. r \in Range(q)
  BY <1>3, <1>4 DEF Range
<1>6. /\ Grant(lock).writer = IF r.mode = "write" THEN t ELSE None
      /\ Grant(lock).readers = IF r.mode = "read"
                               THEN lock.readers \cup {t} ELSE lock.readers
      /\ Grant(lock).waiting = n
  BY <1>1 DEF Grant, Grantable
<1>7. Grant(lock) \in Locks
  BY <1>1, <1>2, LockFields DEF Grant, Locks
<1>8. ASSUME Distinct(lock)
      PROVE  /\ Distinct(Grant(lock))
             /\ Range(n) = {s \in Range(q) : s.task # t}
  <2>1. \A i, j \in 1 .. Len(q) : q[i].task = q[j].task => i = j
    BY <1>3, <1>8 DEF Distinct
  <2> HIDE DEF n, q, r
  <2>2. \A i \in DOMAIN n : n[i] = q[i + 1] /\ i + 1 \in 2 .. Len(q)
    BY <1>2, <1>3
  <2>3. \A i, j \in DOMAIN n : n[i].task = n[j].task => i = j
    <3> TAKE i, j \in DOMAIN n
    <3> HAVE n[i].task = n[j].task
    <3>1. /\ i + 1 \in 1 .. Len(q) /\ j + 1 \in 1 .. Len(q)
          /\ q[i + 1].task = q[j + 1].task
      BY <1>3, <2>2
    <3>2. i + 1 = j + 1
      BY <2>1, <3>1
    <3>3. QED
      BY <1>3, <3>2
  <2>4. \A i \in 2 .. Len(q) : i - 1 \in DOMAIN n /\ n[i - 1] = q[i]
    BY <1>2, <1>3
  <2>5. \A i \in 1 .. Len(q) : q[i].task # t <=> i \in 2 .. Len(q)
    BY <1>1, <1>3, <1>4, <2>1
  <2>6. \A s \in Range(n) : s \in Range(q) /\ s.task # t
    BY <1>3, <2>2, <2>5 DEF Range
  <2>7. \A s \in Range(q) : s.task # t => s \in Range(n)
    BY <1>3, <2>4, <2>5 DEF Range
  <2>8. Range(n) = {s \in Range(q) : s.task # t}
    BY <2>6, <2>7
  <2>9. QED
    BY <1>6, <2>3, <2>8 DEF Distinct
<1>9. QED
  BY <1>1, <1>2, <1>5, <1>6, <1>7, <1>8 DEF Grantable

(* When all requests of the task are for writing, it has the lock alone.   *)
LEMMA GrantWrite ==
    ASSUME NEW lock \in Locks, NEW t \in Tasks, Grantable(lock, t),
           Distinct(lock),
           \A r \in Range(lock.waiting) : r.task = t => r.mode = "write"
    PROVE  /\ lock.writer = None
           /\ lock.readers = {}
           /\ Grant(lock) \in Locks
           /\ Grant(lock).writer = t
           /\ Grant(lock).readers = {}
           /\ Distinct(Grant(lock))
           /\ Range(Grant(lock).waiting)
                = {q \in Range(lock.waiting) : q.task # t}
<1>1. Head(lock.waiting).mode = "write"
  BY GrantLock
<1>2. QED
  BY <1>1, GrantLock

(* When all requests of the task are for reading, it joins the readers.    *)
LEMMA GrantRead ==
    ASSUME NEW lock \in Locks, NEW t \in Tasks, Grantable(lock, t),
           Distinct(lock),
           \A r \in Range(lock.waiting) : r.task = t => r.mode = "read"
    PROVE  /\ lock.writer = None
           /\ Grant(lock) \in Locks
           /\ Grant(lock).writer = None
           /\ Grant(lock).readers = lock.readers \cup {t}
           /\ Distinct(Grant(lock))
           /\ Range(Grant(lock).waiting)
                = {q \in Range(lock.waiting) : q.task # t}
<1>1. Head(lock.waiting).mode = "read"
  BY GrantLock
<1>2. QED
  BY <1>1, GrantLock

(* Dropping a guard changes nothing but the guards of its holder. *)
LEMMA ReleaseLock ==
    ASSUME NEW lock \in Locks, NEW t \in Tasks
    PROVE  /\ Release(lock, t) \in Locks
           /\ Release(lock, t).writer = IF lock.writer = t THEN None
                                                           ELSE lock.writer
           /\ Release(lock, t).readers = lock.readers \ {t}
           /\ Release(lock, t).waiting = lock.waiting
           /\ Distinct(lock) => Distinct(Release(lock, t))
BY LockFields DEF Release, Locks, Distinct

(* Dropping a pending future takes the task's request out of the queue and *)
(* changes no guard.                                                       *)
LEMMA WithdrawLock ==
    ASSUME NEW lock \in Locks, NEW t \in Tasks
    PROVE  /\ Withdraw(lock, t) \in Locks
           /\ Withdraw(lock, t).writer = lock.writer
           /\ Withdraw(lock, t).readers = lock.readers
           /\ Distinct(lock)
              => /\ Distinct(Withdraw(lock, t))
                 /\ Range(Withdraw(lock, t).waiting)
                      = {r \in Range(lock.waiting) : r.task # t}
<1> DEFINE q == lock.waiting
<1>1. q \in Seq(Requests) /\ Len(q) \in Nat /\ DOMAIN q = 1 .. Len(q)
  BY LockFields, LenProperties
<1>2. CASE Places(lock, t) = {}
  <2>1. Withdraw(lock, t) = lock
    BY <1>2 DEF Withdraw
  <2>2. \A r \in Range(q) : r.task # t
    BY <1>2 DEF Places, Range
  <2>3. QED
    BY <2>1, <2>2
<1>3. CASE Places(lock, t) # {}
  <2> DEFINE k == CHOOSE i \in Places(lock, t) : TRUE
             a == SubSeq(q, 1, k - 1)
             b == SubSeq(q, k + 1, Len(q))
             n == a \o b
  <2>1. k \in 1 .. Len(q) /\ q[k].task = t
    BY <1>1, <1>3 DEF Places
  <2>2. Withdraw(lock, t) = [writer |-> lock.writer,
                             readers |-> lock.readers, waiting |-> n]
    <3>1. Withdraw(lock, t) = [lock EXCEPT !.waiting = RemoveAt(q, k)]
      BY <1>3, Zenon DEF Withdraw
    <3>2. RemoveAt(q, k) = n
      BY Zenon DEF RemoveAt
    <3>3. QED
      BY <3>1, <3>2, Requeue, Zenon
  <2> HIDE DEF k
  <2>3. /\ a \in Seq(Requests) /\ Len(a) = k - 1
        /\ \A i \in 1 .. k - 1 : a[i] = q[i]
    <3>1. \A i \in 1 .. k - 1 : q[i] \in Requests
      BY <1>1, <2>1, ElementOfSeq
    <3>2. QED
      BY <2>1, <3>1, SubSeqProperties
  <2>4. /\ b \in Seq(Requests) /\ Len(b) = Len(q) - k
        /\ \A i \in 1 .. Len(q) - k : b[i] = q[k + i]
    <3>1. \A i \in k + 1 .. Len(q) : q[i] \in Requests
      BY <1>1, <2>1, ElementOfSeq
    <3>2. /\ b \in Seq(Requests)
          /\ Len(b) = IF k + 1 <= Len(q) THEN Len(q) - (k + 1) + 1 ELSE 0
          /\ \A i \in 1 .. Len(q) - (k + 1) + 1 : b[i] = q[(k + 1) + i - 1]
      BY <1>1, <2>1, <3>1, SubSeqProperties
    <3>3. QED
      BY <1>1, <2>1, <3>2
  <2>5. /\ n \in Seq(Requests) /\ Len(n) = Len(q) - 1
        /\ \A i \in 1 .. Len(q) - 1 :
              n[i] = IF i < k THEN q[i] ELSE q[i + 1]
    <3>1. /\ n \in Seq(Requests) /\ Len(n) = Len(a) + Len(b)
          /\ \A i \in 1 .. Len(a) + Len(b) :
                n[i] = IF i <= Len(a) THEN a[i] ELSE b[i - Len(a)]
      BY <2>3, <2>4, ConcatProperties
    <3> HIDE DEF n, a, b
    <3>2. \A i \in 1 .. Len(q) - 1 : i < k => n[i] = q[i]
      BY <1>1, <2>1, <2>3, <2>4, <3>1
    <3>3. \A i \in 1 .. Len(q) - 1 : ~(i < k) => n[i] = q[i + 1]
      <4> TAKE i \in 1 .. Len(q) - 1
      <4> HAVE ~(i < k)
      <4>1. /\ i - (k - 1) \in 1 .. Len(q) - k
            /\ k + (i - (k - 1)) = i + 1
            /\ i \in 1 .. (k - 1) + (Len(q) - k) /\ ~(i <= k - 1)
        BY <1>1, <2>1
      <4>2. n[i] = b[i - (k - 1)]
        BY <2>3, <2>4, <3>1, <4>1
      <4>3. QED
        BY <2>4, <4>1, <4>2
    <3>4. QED
      BY <1>1, <2>1, <2>3, <2>4, <3>1, <3>2, <3>3
  <2> HIDE DEF n
  <2>6. Withdraw(lock, t) \in Locks
    BY <2>5, <2>2, LockFields DEF Locks
  <2>7. DOMAIN n = 1 .. Len(q) - 1
    BY <1>1, <2>5, LenProperties
  <2>8. ASSUME Distinct(lock)
        PROVE  /\ Distinct(Withdraw(lock, t))
               /\ Range(n) = {r \in Range(q) : r.task # t}
    <3>1. \A i, j \in 1 .. Len(q) : q[i].task = q[j].task => i = j
      BY <1>1, <2>8 DEF Distinct
    <3>2. \A i, j \in DOMAIN n : n[i].task = n[j].task => i = j
      <4> TAKE i, j \in DOMAIN n
      <4> HAVE n[i].task = n[j].task
      <4> DEFINE place(x) == IF x < k THEN x ELSE x + 1
      <4>1. /\ i \in 1 .. Len(q) - 1 /\ n[i] = q[place(i)]
            /\ j \in 1 .. Len(q) - 1 /\ n[j] = q[place(j)]
        BY <2>5, <2>7
      <4>2. place(i) \in 1 .. Len(q) /\ place(j) \in 1 .. Len(q)
        BY <1>1, <2>1, <4>1
      <4>3. place(i) = place(j)
        <5> HIDE DEF place
        <5>1. QED
          BY <3>1, <4>1, <4>2
      <4>4. QED
        BY <2>1, <4>1, <4>3
    <3>3. \A i \in DOMAIN n : \E j \in 1 .. Len(q) \ {k} : n[i] = q[j]
      BY <1>1, <2>1, <2>5, <2>7
    <3>4. \A j \in 1 .. Len(q) \ {k} : \E i \in DOMAIN n : n[i] = q[j]
      <4> TAKE j \in 1 .. Len(q) \ {k}
      <4>1. CASE j < k
        BY <1>1, <2>1, <2>5, <2>7, <4>1
      <4>2. CASE j > k
        <5>1. j - 1 \in 1 .. Len(q) - 1 /\ ~(j - 1 < k) /\ (j - 1) + 1 = j
          BY <1>1, <2>1, <4>2
        <5>2. n[j - 1] = q[j]
          BY <2>5, <5>1
        <5>3. QED
          BY <2>7, <5>1, <5>2
      <4>3. QED
        BY <1>1, <2>1, <4>1, <4>2
    <3>5. \A j \in 1 .. Len(q) : q[j].task # t <=> j # k
      BY <2>1, <3>1
    <3>6. Range(n) = {r \in Range(q) : r.task # t}
      BY <1>1, <3>3, <3>4, <3>5 DEF Range
    <3>7. QED
      BY <2>2, <3>2, <3>6 DEF Distinct
  <2>9. QED
    BY <2>2, <2>6, <2>8
<1>4. QED
  BY <1>2, <1>3

=============================================================================
