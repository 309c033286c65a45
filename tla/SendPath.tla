------------------------------ MODULE SendPath ------------------------------
(***************************************************************************)
(* The way of a request to the compositor: a task may take a new object id *)
(* from the Connection, calls a send_... method of a request proxy, which  *)
(* upgrades its weak reference to the Connection, and send_packet writes   *)
(* the packet, under send_lock, in as many pieces as the socket takes.     *)
(*                                                                         *)
(* The compositor at the other end is external: it reads words from the    *)
(* socket and may hang up.                                                 *)
(***************************************************************************)
EXTENDS TokioLock, WireFormat, ObjectIds

CONSTANTS
    Calls,       \* [object, opcode, new, args, fds]: the requests tasks make
    MaxCalls,    \* bound: the number of requests made
    Capacity,    \* the words that the socket holds
    Cancellable  \* the tasks whose pending calls may be dropped

(* A request with `new` introduces an object: a new id follows its args.   *)
ASSUME SendAssumption ==
    /\ Allocators \subseteq Tasks /\ Cancellable \subseteq Tasks
    /\ \A c \in Calls :
          /\ c # None
          /\ c.object \in Nat /\ c.opcode \in Opcodes /\ c.new \in BOOLEAN
          /\ c.args \in Seq(Nat) /\ c.fds \in Seq(Nat)
    /\ MaxCalls \in Nat /\ Capacity \in Nat \ {0}

VARIABLES
    handles,   \* the tasks that own a Connection
    pc,        \* where each task is in a request
    call,      \* the request it makes
    newId,     \* the id it got for it, or 0
    total,     \* total_sent, the words of its packet that are written
    sendLock,  \* send_lock
    inFlight,  \* the words in the socket
    hangup,    \* the compositor has closed its end
    made,      \* history: the number of requests made
    stream,    \* history: the words written, each with the fds sent with it
    begun,     \* history: the packets of which something was written, in order
    starts,    \* history: where each of them begins, after how many words
    lost,      \* history: the ids of requests of which nothing was written
    torn       \* history: a call gave up in the middle of a packet

socketVars == <<inFlight, hangup, stream, begun, starts, torn>>
vars == <<idVars, handles, pc, call, newId, total, sendLock, made, lost,
          socketVars>>

Locations == {"idle", "asking", "ready", "locking", "writing"}

Init ==
    /\ IdsInit
    /\ handles \in SUBSET Tasks \ {{}}
    /\ pc = [t \in Tasks |-> "idle"]
    /\ call = [t \in Tasks |-> None]
    /\ newId = [t \in Tasks |-> 0]
    /\ total = [t \in Tasks |-> 0]
    /\ sendLock = Unlocked
    /\ inFlight = 0 /\ hangup = FALSE
    /\ made = 0 /\ stream = <<>> /\ begun = <<>> /\ starts = <<>>
    /\ lost = {} /\ torn = FALSE

-----------------------------------------------------------------------------
(* The Arc<InnerConnection> is shared by the Connections that tasks own    *)
(* and by those that a proxy has upgraded to for the length of a call.     *)
Alive == handles # {} \/ \E t \in Tasks : pc[t] \in {"locking", "writing"}

(* WeakConnection::upgrade, by a task that has one. *)
TakeHandle(t) ==
    /\ Alive
    /\ t \notin handles
    /\ handles' = handles \cup {t}
    /\ UNCHANGED <<idVars, pc, call, newId, total, sendLock, made, lost,
                   socketVars>>

(* A task drops its Connection, which the loop for an id still borrows.    *)
DropHandle(t) ==
    /\ t \in handles
    /\ pc[t] # "asking"
    /\ handles' = handles \ {t}
    /\ UNCHANGED <<idVars, pc, call, newId, total, sendLock, made, lost,
                   socketVars>>

-----------------------------------------------------------------------------
(* The packet of t's request, its words and its file descriptors. *)
PacketOf(t) ==
    [words |-> Serialize([id      |-> call[t].object,
                          opcode  |-> call[t].opcode,
                          payload |-> call[t].args \o
                              IF call[t].new THEN <<newId[t]>> ELSE <<>>]),
     fds   |-> call[t].fds,
     newId |-> newId[t],
     by    |-> t]

TooLongFor(t) == WordBytes * Len(PacketOf(t).words) > MaxSize

(* A task decides on a request; if that makes an object, it asks for an id.*)
Decide(t, c) ==
    /\ pc[t] = "idle"
    /\ made < MaxCalls
    /\ made' = made + 1
    /\ call' = [call EXCEPT ![t] = c]
    /\ \/ /\ ~ c.new
          /\ pc' = [pc EXCEPT ![t] = "ready"]
          /\ UNCHANGED idVars
       \/ /\ c.new /\ t \in Allocators \cap handles
          /\ pc' = [pc EXCEPT ![t] = "asking"]
          /\ Ask(t)
    /\ UNCHANGED <<handles, newId, total, sendLock, lost, socketVars>>

Allocate(t) ==
    /\ pc[t] = "asking"
    /\ FetchAdd(t)
    /\ \/ t \in asking' /\ UNCHANGED <<pc, newId>>
       \/ /\ t \notin asking'
          /\ pc' = [pc EXCEPT ![t] = "ready"]
          /\ newId' = [newId EXCEPT ![t] = Last(issued').id]
    /\ UNCHANGED <<handles, call, total, sendLock, made, lost, socketVars>>

(* The request is over, with so many words of it on the wire; if there are *)
(* none, its new id is lost.                                               *)
Return(t, written) ==
    /\ pc' = [pc EXCEPT ![t] = "idle"]
    /\ call' = [call EXCEPT ![t] = None]
    /\ newId' = [newId EXCEPT ![t] = 0]
    /\ total' = [total EXCEPT ![t] = 0]
    /\ lost' = IF written = 0 THEN lost \cup ({newId[t]} \ {0}) ELSE lost

(* The proxy's method: ConnectionDeleted, PacketTooLong, or the queue of   *)
(* send_lock.                                                              *)
CallProxy(t) ==
    /\ pc[t] = "ready"
    /\ \/ /\ ~ Alive \/ TooLongFor(t)
          /\ Return(t, 0)
          /\ UNCHANGED sendLock
       \/ /\ Alive /\ ~ TooLongFor(t)
          /\ sendLock' = Request(sendLock, t, "write")
          /\ pc' = [pc EXCEPT ![t] = "locking"]
          /\ UNCHANGED <<call, newId, total, lost>>
    /\ UNCHANGED <<idVars, handles, made, socketVars>>

(* A mutant: no lock. *)
Lock_Unguarded(t) ==
    /\ pc[t] = "locking"
    /\ sendLock' = Withdraw(sendLock, t)
    /\ pc' = [pc EXCEPT ![t] = "writing"]
    /\ UNCHANGED <<idVars, handles, call, newId, total, made, lost, socketVars>>

Lock(t) ==
    /\ pc[t] = "locking"
    /\ Grantable(sendLock, t)
    /\ sendLock' = Grant(sendLock)
    /\ pc' = [pc EXCEPT ![t] = "writing"]
    /\ UNCHANGED <<idVars, handles, call, newId, total, made, lost, socketVars>>

(* A mutant: send_with_fds in the loop, too. *)
Piece_FdsAgain(t, k) ==
    [i \in 1 .. k |->
       [word |-> PacketOf(t).words[total[t] + i],
        fds  |-> IF i = 1 THEN PacketOf(t).fds ELSE <<>>]]

(* The k words of t's packet from the first unsent one, the fds with the   *)
(* first word of the packet (only send_with_fds takes them).               *)
Piece(t, k) ==
    [i \in 1 .. k |->
       [word |-> PacketOf(t).words[total[t] + i],
        fds  |-> IF total[t] + i = 1 THEN PacketOf(t).fds ELSE <<>>]]

Finish(t, written) ==
    /\ Return(t, written)
    /\ sendLock' = Release(sendLock, t)

(* send_with_fds, then send until nothing is left: each writes some words, *)
(* at most what the socket has room for.                                   *)
Write(t, k) ==
    /\ pc[t] = "writing" /\ ~ hangup
    /\ inFlight + k <= Capacity
    /\ total[t] + k <= Len(PacketOf(t).words)
    /\ inFlight' = inFlight + k
    /\ stream' = stream \o Piece(t, k)
    /\ begun' = IF total[t] = 0 THEN Append(begun, PacketOf(t)) ELSE begun
    /\ starts' = IF total[t] = 0 THEN Append(starts, Len(stream)) ELSE starts
    /\ \/ /\ total[t] + k < Len(PacketOf(t).words)
          /\ total' = [total EXCEPT ![t] = @ + k]
          /\ UNCHANGED <<pc, call, newId, sendLock, lost>>
       \/ /\ total[t] + k = Len(PacketOf(t).words)
          /\ Finish(t, total[t] + k)
    /\ UNCHANGED <<idVars, handles, made, hangup, torn>>

(* A mutant: the lock is forgotten on the way of an error. *)
WriteFails_Locked(t) ==
    /\ pc[t] = "writing" /\ hangup
    /\ Return(t, total[t])
    /\ torn' = (torn \/ total[t] > 0)
    /\ UNCHANGED <<idVars, handles, made, sendLock, inFlight, hangup, stream, begun,
                   starts>>

(* EPIPE: the error of the write, returned with `?`. *)
WriteFails(t) ==
    /\ pc[t] = "writing" /\ hangup
    /\ Finish(t, total[t])
    /\ torn' = (torn \/ total[t] > 0)
    /\ UNCHANGED <<idVars, handles, made, inFlight, hangup, stream, begun,
                   starts>>

(* A task does not send after all, or its pending send is dropped.         *)
Cancel(t) ==
    /\ t \in Cancellable
    /\ pc[t] \in {"ready", "locking", "writing"}
    /\ Return(t, total[t])
    /\ sendLock' = Release(Withdraw(sendLock, t), t)
    /\ torn' = (torn \/ total[t] > 0)
    /\ UNCHANGED <<idVars, handles, made, inFlight, hangup, stream, begun,
                   starts>>

-----------------------------------------------------------------------------
(* The compositor. *)

Consume ==
    /\ inFlight > 0 /\ ~ hangup
    /\ inFlight' = 0
    /\ UNCHANGED <<idVars, handles, pc, call, newId, total, sendLock, made,
                   lost, hangup, stream, begun, starts, torn>>

HangUp ==
    /\ ~ hangup
    /\ hangup' = TRUE
    /\ UNCHANGED <<idVars, handles, pc, call, newId, total, sendLock, made,
                   lost, inFlight, stream, begun, starts, torn>>

-----------------------------------------------------------------------------
Send(t) ==
    \/ Allocate(t) \/ CallProxy(t) \/ Lock(t)
    \/ \E k \in 1 .. Capacity : Write(t, k)
    \/ WriteFails(t)

Next ==
    \/ \E t \in Tasks : \/ TakeHandle(t) \/ DropHandle(t)
                        \/ \E c \in Calls : Decide(t, c)
                        \/ Send(t) \/ Cancel(t)
    \/ Consume \/ HangUp

Spec == Init /\ [][Next]_vars

(* The runtime polls a task whose lock or socket is ready, and the         *)
(* compositor reads what it is sent.                                       *)
FairSpec ==
    /\ Spec
    /\ \A t \in Tasks : WF_vars(Send(t))
    /\ WF_vars(Consume)

-----------------------------------------------------------------------------
(* Types; a task has written words only while it writes, and writes only   *)
(* while it has send_lock.                                                 *)
TypeOK ==
    /\ IdsTypeOK
    /\ handles \subseteq Tasks
    /\ pc \in [Tasks -> Locations]
    /\ call \in [Tasks -> Calls \cup {None}]
    /\ newId \in [Tasks -> Ids \cup {0}]
    /\ total \in [Tasks -> Nat]
    /\ sendLock \in Locks
    /\ inFlight \in 0 .. Capacity /\ hangup \in BOOLEAN /\ torn \in BOOLEAN
    /\ made \in 0 .. MaxCalls
    /\ lost \subseteq Ids
    /\ \A t \in Tasks :
          /\ pc[t] = "idle" <=> call[t] = None
          /\ pc[t] = "asking" <=> t \in asking
          /\ pc[t] = "writing" <=> sendLock.writer = t
          /\ pc[t] # "writing" => total[t] = 0
          /\ pc[t] = "writing" => total[t] < Len(PacketOf(t).words)

(* A packet as it should be on the wire. *)
Whole(p) == [i \in DOMAIN p.words |->
               [word |-> p.words[i], fds |-> IF i = 1 THEN p.fds ELSE <<>>]]

Unwritten == IF sendLock.writer = None \/ total[sendLock.writer] = 0
             THEN 0
             ELSE Len(PacketOf(sendLock.writer).words) - total[sendLock.writer]

(* What is on the wire is one packet after another, each whole and with    *)
(* its file descriptors on its first word, but for the rest of the one     *)
(* that is being written: tasks do not write into each other's packets and *)
(* no call returns early; unless a call has given up halfway.              *)
StreamIsPackets ==
    LET ends == Append(starts, Len(stream) + Unwritten)
        words(i) == 1 .. Len(begun[i].words)
    IN  ~ torn =>
        /\ ends[1] = 0
        /\ \A i \in DOMAIN begun :
              /\ ends[i + 1] = ends[i] + Len(begun[i].words)
              /\ \A k \in words(i) :
                    ends[i] + k \in DOMAIN stream =>
                       stream[ends[i] + k] = Whole(begun[i])[k]

(* The packets that are there for a reader who goes by the sizes in the    *)
(* headers: their words, with the fds that came with each.                 *)
HeaderSays(at) == SizeField(stream[at + 2].word) \div WordBytes

Arrived(at) == /\ at + HeaderWords <= Len(stream)
               /\ at + HeaderSays(at) <= Len(stream)

Packets == [i \in {j \in DOMAIN starts : Arrived(starts[j])} |->
              [k \in 1 .. HeaderSays(starts[i]) |-> stream[starts[i] + k]]]

(* What t's call of send_packet is to put on the wire. *)
NoPacket == <<>>

Sending(t) == IF pc[t] \in {"ready", "locking", "writing"}
              THEN Whole(PacketOf(t)) ELSE NoPacket

(* SendPath implements PacketSender: what a reader of the wire finds are   *)
(* the packets of calls, each once, whole and with its own descriptors,    *)
(* put there at one instant while its call was in progress.                *)
Sender == INSTANCE PacketSender WITH
    None   <- NoPacket,
    calls  <- [t \in Tasks |-> Sending(t)],
    stream <- Packets,
    broken <- torn

ImplementsSender == Sender!Spec

(* Every id taken is introduced by exactly one packet on the wire, or is   *)
(* with a task that is about to, or belongs to a call that failed: with no *)
(* failure and no call in progress the ids introduced have no gap.         *)
IdsAccounted ==
    LET introduced == {i \in DOMAIN begun : begun[i].newId # 0}
        pending == {t \in Tasks : newId[t] # 0 /\ total[t] = 0}
    IN  Len(issued) < Modulus =>
        /\ {issued[i].id : i \in DOMAIN issued} =
              {begun[i].newId : i \in introduced}
                 \cup {newId[t] : t \in pending} \cup lost
        /\ Len(issued) = Cardinality(introduced) + Cardinality(pending)
                            + Cardinality(lost)

(* While one task makes all the objects and none of its calls has failed,  *)
(* each id is introduced right after its predecessor, which is what        *)
(* libwayland's map of client objects asks for; after a wrap the 0 is left *)
(* out.                                                                    *)
IntroducedInOrder ==
    LET introduced == {i \in DOMAIN begun : begun[i].newId # 0}
        makers == {begun[i].by : i \in introduced}
                     \cup {t \in Tasks : newId[t] # 0 \/ pc[t] = "asking"}
        successor(id) == IF id = Modulus - 1 THEN 1 ELSE id + 1
    IN  (\A t, u \in makers : t = u) /\ lost = {} =>
        \A j \in introduced :
           \/ /\ \A i \in introduced : j <= i
              /\ begun[j].newId = 2
           \/ \E i \in introduced :
                 /\ i < j /\ \A h \in introduced : h <= i \/ j <= h
                 /\ begun[j].newId = successor(begun[i].newId)

(* Whatever becomes of the calls before it, a task that waits for          *)
(* send_lock waits for one that is writing, or the next one may have it.   *)
NeverStuck ==
    \A t \in Tasks : pc[t] = "locking" =>
       \E u \in Tasks : \/ pc[u] = "writing"
                        \/ pc[u] = "locking" /\ Grantable(sendLock, u)

(* How far t's request is from its end: the words still to be written and  *)
(* the steps before the first of them.                                     *)
Left(t) ==
    LET length == Len(PacketOf(t).words)
    IN  CASE pc[t] = "idle"    -> 0
          [] pc[t] = "writing" -> length - total[t]
          [] pc[t] = "locking" -> length + 1
          [] pc[t] = "ready"   -> length + 2
          [] pc[t] = "asking"  -> length + 3

(* Every step of a request brings it nearer to its end, but for fetch_add  *)
(* at 0, and nothing sets it back: the loop of send_packet cannot go round *)
(* for nothing, whatever other tasks and the compositor do meanwhile.      *)
RequestAdvances ==
    [][\A t \in Tasks : pc[t] # "idle" =>
          /\ Left(t)' <= Left(t)
          /\ Send(t) => Left(t)' < Left(t) \/ nextObjectId = 0]_vars

(* Every request ends, well or with an error, as long as the compositor    *)
(* reads or hangs up, also for tasks that wait for the lock behind others. *)
RequestsEnd == \A t \in Tasks : (pc[t] # "idle") ~> (pc[t] = "idle")

=============================================================================
