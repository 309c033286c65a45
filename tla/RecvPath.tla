------------------------------ MODULE RecvPath ------------------------------
(***************************************************************************)
(* Connection::recv_packet: the tasks of the client take turns, under      *)
(* recv_lock, at reading one packet from the socket, first the header and  *)
(* then as many words of payload as it announces.                          *)
(*                                                                         *)
(* The compositor at the other end is external: it writes events into a    *)
(* buffer and flushes any number of words of it at a time, all waiting     *)
(* file descriptors with the first of them, as libwayland does.            *)
(***************************************************************************)
EXTENDS TokioLock, WireFormat, UnixSocket

CONSTANTS
    Events,      \* [id, size, opcode, payload, fds : Nat]: what may be sent
    MaxEvents,   \* bound: the number of events sent
    Cancellable  \* the tasks whose pending recv_packet may be dropped

ASSUME RecvAssumption ==
    /\ \A e \in Events :
          /\ e.id \in Nat /\ e.size \in Nat /\ e.opcode \in Opcodes
          /\ e.payload \in Seq(Nat) /\ e.fds \in Nat
          /\ e.size >= HeaderBytes
                => e.size = HeaderBytes + WordBytes * Len(e.payload)
          /\ e.size < HeaderBytes => e.payload = <<>>
    /\ MaxEvents \in Nat
    /\ Cancellable \subseteq Tasks

VARIABLES
    buffer,     \* the compositor's words that are not flushed yet
    bufferFds,  \* and its file descriptors
    socket,     \* the segments in the client's receive queue
    hangup,     \* "open", then at once or after one error ("reset") "eof"
    recvLock,   \* recv_lock
    pc,         \* where each task is in recv_packet
    words,      \* the words its call has received
    held,       \* the fds its call has received
    delivered,  \* history: the packets returned, in order
    sent,       \* history: the events the compositor wrote, in order
    expected,   \* history: what recv_packet should return, call by call
    made,       \* history: the number of its fds, which are called 1, 2, ...
    leaked,     \* history: the fds in a Vec that was dropped
    derailed    \* history: a call gave up in the middle of a packet

compositorVars == <<buffer, bufferFds, sent, expected, made>>
vars == <<compositorVars, socket, hangup, recvLock, pc, words, held,
          delivered, leaked, derailed>>

Locations == {"idle", "locking", "header", "payload"}

Init ==
    /\ buffer = <<>> /\ bufferFds = <<>> /\ sent = <<>> /\ expected = <<>>
    /\ made = 0
    /\ socket = <<>> /\ hangup = "open"
    /\ recvLock = Unlocked
    /\ pc = [t \in Tasks |-> "idle"]
    /\ words = [t \in Tasks |-> <<>>]
    /\ held = [t \in Tasks |-> <<>>]
    /\ delivered = <<>> /\ leaked = {} /\ derailed = FALSE

-----------------------------------------------------------------------------
(* The compositor. *)

WellFormed(e) == e.id # 0 /\ e.size >= HeaderBytes

(* The packet that the event should come out as. *)
Packet(e, first) == [id |-> e.id, opcode |-> e.opcode, payload |-> e.payload,
                     fds |-> [i \in 1 .. e.fds |-> first + i]]

Write(e) ==
    /\ hangup = "open"
    /\ Len(sent) < MaxEvents
    /\ sent' = Append(sent, e)
    /\ expected' = IF WellFormed(e) THEN Append(expected, Packet(e, made))
                                    ELSE expected
    /\ buffer' = buffer \o <<e.id, SizeAndOpcode(e.size, e.opcode)>> \o e.payload
    /\ bufferFds' = bufferFds \o [i \in 1 .. e.fds |-> made + i]
    /\ made' = made + e.fds
    /\ UNCHANGED <<socket, hangup, recvLock, pc, words, held, delivered,
                   leaked, derailed>>

Flush(n) ==
    /\ hangup = "open"
    /\ socket' = Append(socket, Segment(SubSeq(buffer, 1, n), bufferFds))
    /\ buffer' = SubSeq(buffer, n + 1, Len(buffer))
    /\ bufferFds' = <<>>
    /\ UNCHANGED <<hangup, recvLock, pc, words, held, delivered, sent, expected,
                   made, leaked, derailed>>

(* It closes its end, maybe with requests of the client unread (a reset).  *)
HangUp ==
    /\ hangup = "open"
    /\ hangup' \in {"reset", "eof"}
    /\ UNCHANGED <<compositorVars, socket, recvLock, pc, words, held, delivered,
                   leaked, derailed>>

-----------------------------------------------------------------------------
(* recv_packet *)

CallRecv(t) ==
    /\ pc[t] = "idle"
    /\ recvLock' = Request(recvLock, t, "write")
    /\ pc' = [pc EXCEPT ![t] = "locking"]
    /\ UNCHANGED <<compositorVars, socket, hangup, words, held, delivered,
                   leaked, derailed>>

Lock(t) ==
    /\ pc[t] = "locking"
    /\ Grantable(recvLock, t)
    /\ recvLock' = Grant(recvLock)
    /\ pc' = [pc EXCEPT ![t] = "header"]
    /\ UNCHANGED <<compositorVars, socket, hangup, words, held, delivered,
                   leaked, derailed>>

(* A mutant: the buffers outlive the call. *)
Leave_KeepsBuffers(t) ==
    /\ recvLock' = Release(recvLock, t)
    /\ pc' = [pc EXCEPT ![t] = "idle"]
    /\ UNCHANGED <<words, held>>

(* recv_packet is over: the guard and the two buffers are gone. *)
Leave(t) ==
    /\ recvLock' = Release(recvLock, t)
    /\ pc' = [pc EXCEPT ![t] = "idle"]
    /\ words' = [words EXCEPT ![t] = <<>>]
    /\ held' = [held EXCEPT ![t] = <<>>]

(* The fds of a call that returns no packet are dropped and never closed.  *)
Fail(t, fds, midPacket) ==
    /\ Leave(t)
    /\ leaked' = leaked \cup Range(fds)
    /\ derailed' = (derailed \/ midPacket)
    /\ UNCHANGED delivered

Deliver(t, ws, fds) ==
    /\ Leave(t)
    /\ delivered' = Append(delivered,
                           [id      |-> ws[1],
                            opcode  |-> OpcodeField(ws[2]),
                            payload |-> SubSeq(ws, HeaderWords + 1, Len(ws)),
                            fds     |-> fds])
    /\ UNCHANGED <<leaked, derailed>>

(* The header says that the packet is shorter than its header (the         *)
(* PacketTooShort error) or that its object is NULL (ZeroObjectId).        *)
Malformed(ws) == SizeField(ws[2]) < HeaderBytes \/ ws[1] = 0

(* A mutant: recv, which takes no file descriptors, reads the header. *)
ReadHeader_NoFds(t) ==
    /\ pc[t] = "header"
    /\ socket # <<>>
    /\ LET msg == Receive(socket, HeaderWords - Len(words[t]))
           ws == words[t] \o msg.words
       IN  /\ socket' = msg.queue
           /\ \/ /\ Len(ws) = HeaderWords
                 /\ Malformed(ws)
                 /\ Fail(t, held[t], SizeField(ws[2]) > HeaderBytes)
              \/ /\ Len(ws) = HeaderWords => ~ Malformed(ws)
                 /\ words' = [words EXCEPT ![t] = ws]
                 /\ pc' = [pc EXCEPT ![t] = IF Len(ws) < HeaderWords
                                               THEN "header" ELSE "payload"]
                 /\ UNCHANGED <<recvLock, held, delivered, leaked, derailed>>
    /\ UNCHANGED <<compositorVars, hangup>>

(* A recv_with_fds into what is missing of the header. *)
ReadHeader(t) ==
    /\ pc[t] = "header"
    /\ socket # <<>>
    /\ LET msg == Receive(socket, HeaderWords - Len(words[t]))
           ws == words[t] \o msg.words
           fds == held[t] \o msg.fds
       IN  /\ socket' = msg.queue
           /\ \/ /\ Len(ws) < HeaderWords
                 /\ words' = [words EXCEPT ![t] = ws]
                 /\ held' = [held EXCEPT ![t] = fds]
                 /\ UNCHANGED <<recvLock, pc, delivered, leaked, derailed>>
              \/ /\ Len(ws) = HeaderWords
                 /\ ~ Malformed(ws)
                 /\ words' = [words EXCEPT ![t] = ws]
                 /\ held' = [held EXCEPT ![t] = fds]
                 /\ pc' = [pc EXCEPT ![t] = "payload"]
                 /\ UNCHANGED <<recvLock, delivered, leaked, derailed>>
              \/ /\ Len(ws) = HeaderWords
                 /\ Malformed(ws)
                 /\ Fail(t, fds, SizeField(ws[2]) > HeaderBytes)
    /\ UNCHANGED <<compositorVars, hangup>>

(* A mutant: no check for having received nothing. *)
EndOfHeader_OnlyReset(t) ==
    /\ pc[t] = "header"
    /\ socket = <<>> /\ hangup = "reset"
    /\ hangup' = "eof"
    /\ Fail(t, held[t], FALSE)
    /\ UNCHANGED <<compositorVars, socket>>

(* It receives nothing (UnexpectedEof), or the error of the reset. *)
EndOfHeader(t) ==
    /\ pc[t] = "header"
    /\ socket = <<>> /\ hangup # "open"
    /\ hangup' = "eof"
    /\ Fail(t, held[t], FALSE)
    /\ UNCHANGED <<compositorVars, socket>>

(* The words of payload that a call is still to receive. *)
Missing(t) == HeaderWords + PayloadWords(words[t][2]) - Len(words[t])

(* Mutants: one read, however little it gives; a loop that compares what   *)
(* the last read gave with all of the payload; a recv without fds.         *)
ReadPayload_Once(t) ==
    /\ pc[t] = "payload"
    /\ socket # <<>>
    /\ LET msg == Receive(socket, Missing(t))
       IN  /\ socket' = msg.queue
           /\ Deliver(t, words[t] \o msg.words, held[t] \o msg.fds)
    /\ UNCHANGED <<compositorVars, hangup>>

ReadPayload_ComparesLast(t) ==
    /\ pc[t] = "payload"
    /\ socket # <<>>
    /\ LET msg == Receive(socket, Missing(t))
           ws == words[t] \o msg.words
           fds == held[t] \o msg.fds
       IN  /\ socket' = msg.queue
           /\ \/ /\ Len(msg.words) < PayloadWords(words[t][2])
                 /\ words' = [words EXCEPT ![t] = ws]
                 /\ held' = [held EXCEPT ![t] = fds]
                 /\ UNCHANGED <<recvLock, pc, delivered, leaked, derailed>>
              \/ /\ Len(msg.words) = PayloadWords(words[t][2])
                 /\ Deliver(t, ws, fds)
    /\ UNCHANGED <<compositorVars, hangup>>

ReadPayload_NoFds(t) ==
    /\ pc[t] = "payload"
    /\ socket # <<>>
    /\ LET msg == Receive(socket, Missing(t))
           ws == words[t] \o msg.words
       IN  /\ socket' = msg.queue
           /\ \/ /\ Len(msg.words) < Missing(t)
                 /\ words' = [words EXCEPT ![t] = ws]
                 /\ UNCHANGED <<held, recvLock, pc, delivered, leaked, derailed>>
              \/ /\ Len(msg.words) = Missing(t)
                 /\ Deliver(t, ws, held[t])
    /\ UNCHANGED <<compositorVars, hangup>>

(* A recv_with_fds into what is missing of the payload; the first is done  *)
(* even when nothing is missing.                                           *)
ReadPayload(t) ==
    /\ pc[t] = "payload"
    /\ socket # <<>>
    /\ LET msg == Receive(socket, Missing(t))
           ws == words[t] \o msg.words
           fds == held[t] \o msg.fds
       IN  /\ socket' = msg.queue
           /\ \/ /\ Len(msg.words) < Missing(t)
                 /\ words' = [words EXCEPT ![t] = ws]
                 /\ held' = [held EXCEPT ![t] = fds]
                 /\ UNCHANGED <<recvLock, pc, delivered, leaked, derailed>>
              \/ /\ Len(msg.words) = Missing(t)
                 /\ Deliver(t, ws, fds)
    /\ UNCHANGED <<compositorVars, hangup>>

(* At the end of the stream it receives nothing; that is all a packet      *)
(* without payload waits for.  The loop does not look for the end: when    *)
(* something is missing it goes round and round (no step of the model).    *)
EndOfPayload(t) ==
    /\ pc[t] = "payload"
    /\ socket = <<>> /\ hangup # "open"
    /\ \/ hangup = "eof" /\ Missing(t) = 0 /\ Deliver(t, words[t], held[t])
       \/ hangup = "reset" /\ Fail(t, held[t], Missing(t) # 0)
    /\ hangup' = "eof"
    /\ UNCHANGED <<compositorVars, socket>>

(* The future of a recv_packet that waits is dropped (a timeout, a         *)
(* select!): what it has received is gone.                                 *)
Cancel(t) ==
    /\ t \in Cancellable
    /\ pc[t] # "idle"
    /\ recvLock' = Release(Withdraw(recvLock, t), t)
    /\ pc' = [pc EXCEPT ![t] = "idle"]
    /\ words' = [words EXCEPT ![t] = <<>>]
    /\ held' = [held EXCEPT ![t] = <<>>]
    /\ leaked' = leaked \cup Range(held[t])
    /\ derailed' = (derailed \/ words[t] # <<>>)
    /\ UNCHANGED <<compositorVars, socket, hangup, delivered>>

-----------------------------------------------------------------------------
Recv(t) ==
    \/ Lock(t)
    \/ ReadHeader(t) \/ EndOfHeader(t)
    \/ ReadPayload(t) \/ EndOfPayload(t)

Next ==
    \/ \E e \in Events : Write(e)
    \/ \E n \in 1 .. Len(buffer) : Flush(n)
    \/ HangUp
    \/ \E t \in Tasks : CallRecv(t) \/ Recv(t) \/ Cancel(t)

Spec == Init /\ [][Next]_vars

(* The runtime polls a task whose lock or socket is ready; the compositor  *)
(* owes the client nothing.                                                *)
FairSpec == Spec /\ \A t \in Tasks : WF_vars(Recv(t))

-----------------------------------------------------------------------------
(* Types; a call has words only while it has the lock, and in "payload" it *)
(* has the header and not yet all of the packet.                           *)
TypeOK ==
    /\ buffer \in Seq(Nat) /\ bufferFds \in Seq(Nat) /\ sent \in Seq(Events)
    /\ made \in Nat
    /\ socket \in Seq([words : Seq(Nat), fds : Seq(Nat)])
    /\ hangup \in {"open", "reset", "eof"}
    /\ recvLock \in Locks
    /\ pc \in [Tasks -> Locations]
    /\ words \in [Tasks -> Seq(Nat)] /\ held \in [Tasks -> Seq(Nat)]
    /\ leaked \subseteq Nat /\ derailed \in BOOLEAN
    /\ \A t \in Tasks :
          /\ pc[t] \in {"header", "payload"} <=> recvLock.writer = t
          /\ pc[t] \in {"idle", "locking"} => words[t] = <<>> /\ held[t] = <<>>
          /\ pc[t] = "header" => Len(words[t]) < HeaderWords
          /\ pc[t] = "payload" => /\ Len(words[t]) >= HeaderWords
                                  /\ ~ Malformed(words[t])
                                  /\ Missing(t) > 0 \/ Len(words[t]) = HeaderWords

(* The packets that recv_packet returns are those the compositor wrote, in *)
(* that order, none lost, split, merged or mixed with another's words,     *)
(* however many tasks read and however the words are flushed; unless a     *)
(* call has given up in the middle of one.                                 *)
DeliveredInOrder ==
    ~ derailed =>
       /\ Len(delivered) <= Len(expected)
       /\ \A i \in DOMAIN delivered :
             /\ delivered[i].id = expected[i].id
             /\ delivered[i].opcode = expected[i].opcode
             /\ delivered[i].payload = expected[i].payload

(* RecvPath implements the queue of packets of PacketReceiver: however    *)
(* many tasks call and whatever becomes of their calls, each takes at most *)
(* one packet, the first that no other call took, and one that fails takes *)
(* none, up to the first that gives up in the middle of a packet.          *)
Body(p) == [id |-> p.id, opcode |-> p.opcode, payload |-> p.payload]

Receiver == INSTANCE PacketReceiver WITH
    calls  <- {t \in Tasks : pc[t] # "idle"},
    stream <- [i \in DOMAIN expected |-> Body(expected[i])],
    taken  <- [i \in DOMAIN delivered |-> Body(delivered[i])],
    broken <- derailed

ImplementsReceiver == Receiver!Spec

(* No file descriptor comes after its packet (recv_with_fds collects those *)
(* of every read): the reader of a packet can count on it having arrived,  *)
(* though maybe with an earlier packet, unless a call that failed or was   *)
(* dropped has lost it.                                                    *)
FdsNotLate ==
    ~ derailed =>
       \A n \in DOMAIN delivered :
          \A fd \in Range(expected[n].fds) \ leaked :
             \E k \in 1 .. n : fd \in Range(delivered[k].fds)

(* Where file descriptors are, and which ones. *)
FdPlaces == {<<"compositor", 0>>} \cup {"socket"} \X DOMAIN socket
             \cup {"call"} \X Tasks \cup {"packet"} \X DOMAIN delivered

FdsAt(place) == CASE place[1] = "compositor" -> bufferFds
                  [] place[1] = "socket"     -> socket[place[2]].fds
                  [] place[1] = "call"       -> held[place[2]]
                  [] place[1] = "packet"     -> delivered[place[2]].fds

(* Every file descriptor is in one place: with the compositor, in flight,  *)
(* with the call in progress, in a packet returned, or leaked; and they    *)
(* come out in the order they went in, also where words are lost.          *)
FdsConserved ==
    /\ UNION {Range(FdsAt(p)) : p \in FdPlaces} = (1 .. made) \ leaked
    /\ \A p, q \in FdPlaces :
          \A i \in DOMAIN FdsAt(p), j \in DOMAIN FdsAt(q) :
             FdsAt(p)[i] = FdsAt(q)[j] => p = q /\ i = j
    /\ \A m, n \in DOMAIN delivered :
          \A i \in DOMAIN delivered[m].fds, j \in DOMAIN delivered[n].fds :
             (m < n \/ (m = n /\ i < j))
                => delivered[m].fds[i] < delivered[n].fds[j]

(* Whatever becomes of the calls before it, one that waits for recv_lock   *)
(* waits for one that is reading, or the next one may have it.             *)
NeverStuck ==
    \A t \in Tasks : pc[t] = "locking" =>
       \E u \in Tasks : \/ pc[u] \in {"header", "payload"}
                        \/ pc[u] = "locking" /\ Grantable(recvLock, u)

(* A call comes nearer to its end: it passes on to the next of its parts,  *)
(* or a read has given it something.                                       *)
Stages == [idle |-> 0, payload |-> 1, header |-> 2, locking |-> 3]

Advances(t) ==
    \/ Stages[pc'[t]] < Stages[pc[t]]
    \/ pc'[t] = pc[t] /\ Len(words'[t]) > Len(words[t])

(* Every step of a call brings it nearer to its end, and nothing sets it   *)
(* back: with a size that the header bounds, neither of the two loops goes *)
(* round for nothing as long as there is something to read, or an error.   *)
CallAdvances ==
    [][\A t \in Tasks : pc[t] # "idle" =>
          /\ Advances(t) \/ UNCHANGED <<pc[t], words[t], held[t]>>
          /\ Recv(t) => Advances(t)]_vars

(* The words in the receive queue. *)
Available == FoldFunction(LAMBDA s, n : Len(s.words) + n, 0, socket)

(* A call that waits for payload returns once the payload is there.        *)
PayloadReturns ==
    \A t \in Tasks :
       (pc[t] = "payload" /\ Missing(t) \in 1 .. Available) ~> (pc[t] = "idle")

(* A loop that reads nothing for ever: the stream ended inside a payload.  *)
Spinning(t) ==
    pc[t] = "payload" /\ socket = <<>> /\ hangup = "eof" /\ Missing(t) > 0

(* After the compositor has hung up every call returns, an error if        *)
(* nothing else, but for the loop that ReadPayload gets into when the      *)
(* stream ends inside a payload, which keeps the lock from all others.     *)
CallsEndOrSpin ==
    \A t \in Tasks :
       (hangup # "open" /\ pc[t] # "idle")
          ~> (pc[t] = "idle" \/ \E u \in Tasks : Spinning(u))

-----------------------------------------------------------------------------
(* What the repository says of recv_packet and the code does not do. *)

(* packet.rs declares `opcode: u16` ("merged with size in protocol", 16    *)
(* bits each) and serializes it so: what is sent is what is received.      *)
OpcodeKept ==
    ~ derailed => \A i \in DOMAIN delivered :
                     delivered[i].opcode = expected[i].opcode

(* connection.rs: "8 bytes are the fixed header and thereby the minimum":  *)
(* a packet is complete when the bytes its size says have been received,   *)
(* and a call that has them all returns it.                                *)
CompleteReturns ==
    \A t \in Tasks :
       (pc[t] = "payload" /\ Missing(t) <= Available) ~> (pc[t] = "idle")

(* PacketReader::finish refuses a packet that brought file descriptors its *)
(* event does not have: a packet has the file descriptors of its event.    *)
FdsBelong ==
    ~ derailed => \A i \in DOMAIN delivered :
                     delivered[i].fds = expected[i].fds

=============================================================================
