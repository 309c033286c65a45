----------------------------- MODULE TokioLock -----------------------------
(***************************************************************************)
(* The tokio::sync::RwLock and tokio::sync::Mutex that Connection is built *)
(* on.  The code is a library; it is modelled from what connection.rs      *)
(* relies on: guards that exclude each other, released when they are       *)
(* dropped, and a fair queue in which nobody overtakes (a waiting writer   *)
(* holds back the readers that come after it).                             *)
(*                                                                         *)
(* A lock is a record: the task holding the write guard, the tasks holding *)
(* read guards, and the requests that wait, oldest first.  A Mutex is a    *)
(* lock that is only ever requested for writing.                           *)
(***************************************************************************)
EXTENDS Naturals, SequencesExt

CONSTANTS Tasks,   \* the tasks that may hold or await a guard
          None     \* no task, no object, no handler

ASSUME NoneAssumption == None \notin Tasks

Modes == {"read", "write"}
Requests == [task : Tasks, mode : Modes]

Locks == [writer  : Tasks \cup {None},
          readers : SUBSET Tasks,
          waiting : Seq(Requests)]

Unlocked == [writer |-> None, readers |-> {}, waiting |-> <<>>]

(* `lock.read()` or `lock.write()` is called; the future joins the queue. *)
Request(lock, t, mode) ==
    [lock EXCEPT !.waiting = Append(@, [task |-> t, mode |-> mode])]

(* Task t is first in the queue and its guard is compatible with the       *)
(* guards that are out.                                                    *)
Grantable(lock, t) ==
    /\ lock.waiting # <<>>
    /\ Head(lock.waiting).task = t
    /\ lock.writer = None
    /\ Head(lock.waiting).mode = "write" => lock.readers = {}

(* The future of the task that is first in the queue resolves to a guard.  *)
Grant(lock) ==
    LET first == Head(lock.waiting)
    IN  [writer  |-> IF first.mode = "write" THEN first.task ELSE lock.writer,
         readers |-> IF first.mode = "read" THEN lock.readers \cup {first.task}
                                            ELSE lock.readers,
         waiting |-> Tail(lock.waiting)]

(* Whatever guard t has is dropped. *)
Release(lock, t) ==
    [writer  |-> IF lock.writer = t THEN None ELSE lock.writer,
     readers |-> lock.readers \ {t},
     waiting |-> lock.waiting]

(* The positions of t's requests in the queue. *)
Places(lock, t) == {i \in DOMAIN lock.waiting : lock.waiting[i].task = t}

(* A pending `read()` or `write()` future of t is dropped before it        *)
(* resolved: its request leaves the queue.                                 *)
Withdraw(lock, t) ==
    IF Places(lock, t) = {}
    THEN lock
    ELSE [lock EXCEPT !.waiting = RemoveAt(@, CHOOSE i \in Places(lock, t) : TRUE)]

(* No task has two requests in the queue. *)
Distinct(lock) ==
    \A i, j \in DOMAIN lock.waiting :
       lock.waiting[i].task = lock.waiting[j].task => i = j

(* Task t waits for a guard that the guard u holds excludes. *)
BlockedBy(lock, t, u) ==
    \E r \in Range(lock.waiting) :
       /\ r.task = t
       /\ u = lock.writer \/ (r.mode = "write" /\ u \in lock.readers)

=============================================================================
