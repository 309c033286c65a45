------------------------------ MODULE Bindings ------------------------------
(***************************************************************************)
(* The generated bindings at work: the arguments of a message are pushed   *)
(* into a packet, by a request proxy or an event's argument struct, and    *)
(* read from it, by a request's argument struct or an event handler, which *)
(* goes by the opcode.                                                     *)
(*                                                                         *)
(* On the way the packet may suffer what recv_packet can do to it: it gets *)
(* the file descriptors of another packet, or loses its own, or both; and  *)
(* after a call that gave up halfway its words and its opcode are          *)
(* anything, here a prefix of its words and any opcode.                    *)
(***************************************************************************)
EXTENDS PacketCodec, Wlproto

CONSTANTS
    Interfaces,  \* interface name |-> Interface(...)
    Variants,    \* a set of functions from kinds to argument values
    Strays,      \* the fds of other packets that a packet may arrive with
    Cuts,        \* the lengths that payloads may be cut to
    Nullables    \* <<interface, event>>: a string of it may be NULL

ASSUME BindingsAssumption ==
    /\ \A strays \in Strays : strays \in Seq(Nat)
    /\ \A n \in Cuts : n \in Nat /\ n % 4 = 0
    /\ \A v \in Variants : \A kind \in Kinds : v[kind] \in Pushable(kind)
    /\ \A i \in DOMAIN Interfaces :
          /\ \A m \in DOMAIN Interfaces[i].requests :
                /\ Interfaces[i].requests[m].kinds \in Seq(Kinds)
                /\ Interfaces[i].request_args[m].reads \in Seq(Kinds)
          /\ \A m \in DOMAIN Interfaces[i].events :
                Interfaces[i].events[m].kinds \in Seq(Kinds)
          /\ \A m \in DOMAIN Interfaces[i].event_args :
                Interfaces[i].event_args[m].pushes \in Seq(Kinds)

(* The proxies, handlers and argument structs agree on every message. *)
TablesAgree ==
    \A i \in DOMAIN Interfaces :
       /\ \A m \in DOMAIN Interfaces[i].requests :
             Interfaces[i].request_args[m].reads = Interfaces[i].requests[m].kinds
       /\ \A m \in DOMAIN Interfaces[i].event_args :
             /\ m \in DOMAIN Interfaces[i].events
             /\ Interfaces[i].events[m].opcode = Interfaces[i].event_args[m].opcode
             /\ Interfaces[i].events[m].kinds = Interfaces[i].event_args[m].pushes
       /\ \A m, n \in DOMAIN Interfaces[i].events :
             Interfaces[i].events[m].opcode = Interfaces[i].events[n].opcode => m = n

VARIABLES
    phase,    \* "push", "transit", "read"; then the outcome
    incoming, \* is it an event?
    names,    \* the interface and the name of the message
    values,   \* what its arguments are
    opcode,   \* the opcode of the packet
    packet,   \* its payload and fds
    intact,   \* has it arrived as it was sent?
    pushed,   \* the kinds of the arguments pushed so far
    unread,   \* the kinds of the arguments that are to be read
    reader,   \* the PacketReader
    args      \* the values read so far

vars == <<phase, incoming, names, values, opcode, packet, intact, pushed,
          unread, reader, args>>

Outcomes == Errors \cup {"IncompleteRead", "unknown_event", "delivered"}

-----------------------------------------------------------------------------
Table(part) == Interfaces[names[1]][part]

(* The kinds that the sender of the message pushes and its opcode. *)
Sent(interface, event, name) ==
    IF event
    THEN [opcode |-> Interfaces[interface].event_args[name].opcode,
          kinds  |-> Interfaces[interface].event_args[name].pushes]
    ELSE Interfaces[interface].requests[name]

Init ==
    /\ phase = "push"
    /\ incoming \in BOOLEAN
    /\ \E i \in DOMAIN Interfaces :
          \E n \in DOMAIN IF incoming THEN Interfaces[i].event_args
                                      ELSE Interfaces[i].requests :
             /\ names = <<i, n>>
             /\ opcode = Sent(i, incoming, n).opcode
    /\ values \in Variants
    /\ packet = EmptyPacket
    /\ intact = TRUE
    /\ pushed = <<>> /\ unread = <<>> /\ reader = NewReader /\ args = <<>>

Pushes == Sent(names[1], incoming, names[2]).kinds

PushNext ==
    /\ phase = "push"
    /\ Len(pushed) < Len(Pushes)
    /\ LET kind == Pushes[Len(pushed) + 1]
       IN  /\ packet' = Push(packet, kind, values[kind])
           /\ pushed' = Append(pushed, kind)
    /\ UNCHANGED <<phase, incoming, names, values, opcode, intact, unread,
                   reader, args>>

(* A compositor may send NULL for a string: length 0, and no bytes.  The   *)
(* proxies cannot, they take a &str.                                       *)
PushNull ==
    /\ phase = "push" /\ incoming /\ names \in Nullables
    /\ Len(pushed) < Len(Pushes) /\ Pushes[Len(pushed) + 1] = "string"
    /\ packet' = PushUint(packet, 0)
    /\ pushed' = Append(pushed, "null")
    /\ UNCHANGED <<phase, incoming, names, values, opcode, intact, unread,
                   reader, args>>

SendPacket ==
    /\ phase = "push"
    /\ Len(pushed) = Len(Pushes)
    /\ phase' = "transit"
    /\ UNCHANGED <<incoming, names, values, opcode, packet, intact, pushed,
                   unread, reader, args>>

-----------------------------------------------------------------------------
(* It loses its own fds, gets those of others, or both. *)
MisplaceFds ==
    /\ phase = "transit" /\ intact
    /\ \E kept \in {<<>>, packet.fds}, strays \in Strays :
          packet' = [packet EXCEPT !.fds = kept \o strays]
    /\ intact' = (packet' = packet)
    /\ UNCHANGED <<phase, incoming, names, values, opcode, pushed, unread,
                   reader, args>>

Derail ==
    /\ phase = "transit" /\ intact /\ incoming
    /\ \E n \in Cuts :
          /\ n <= Len(packet.payload)
          /\ packet' = [packet EXCEPT !.payload = SubSeq(@, 1, n)]
    /\ opcode' \in {Table("events")[m].opcode : m \in DOMAIN Table("events")}
                     \cup {255}
    /\ intact' = FALSE
    /\ UNCHANGED <<phase, incoming, names, values, pushed, unread, reader, args>>

-----------------------------------------------------------------------------
(* The arms of handle_event that match. *)
Arms == {m \in DOMAIN Table("events") : Table("events")[m].opcode = opcode}

(* handle_event: an opcode without an arm is not an error. *)
HandleEvent ==
    /\ phase = "transit" /\ incoming
    /\ \/ \E m \in Arms :
             /\ unread' = Table("events")[m].kinds
             /\ phase' = "read"
       \/ /\ Arms = {}
          /\ phase' = "unknown_event"
          /\ UNCHANGED unread
    /\ UNCHANGED <<incoming, names, values, opcode, packet, intact, pushed,
                   reader, args>>

(* try_from_packet of the request's argument struct. *)
TryFromPacket ==
    /\ phase = "transit" /\ ~ incoming
    /\ unread' = Table("request_args")[names[2]].reads
    /\ phase' = "read"
    /\ UNCHANGED <<incoming, names, values, opcode, packet, intact, pushed,
                   reader, args>>

ReadNext ==
    /\ phase = "read"
    /\ unread # <<>>
    /\ LET got == Read(packet, reader, Head(unread))
       IN  /\ reader' = got.reader
           /\ \/ /\ got.error = "none"
                 /\ unread' = Tail(unread)
                 /\ args' = Append(args, got.value)
                 /\ UNCHANGED phase
              \/ /\ got.error # "none"
                 /\ phase' = got.error
                 /\ UNCHANGED <<unread, args>>
    /\ UNCHANGED <<incoming, names, values, opcode, packet, intact, pushed>>

(* A mutant: finish looks at the payload only. *)
Finish_IgnoresFds ==
    /\ phase = "read"
    /\ unread = <<>>
    /\ phase' = IF reader.pos >= Len(packet.payload) THEN "delivered"
                                                     ELSE "IncompleteRead"
    /\ UNCHANGED <<incoming, names, values, opcode, packet, intact, pushed,
                   unread, reader, args>>

(* finish, and then the method of the handler. *)
Finish ==
    /\ phase = "read"
    /\ unread = <<>>
    /\ phase' = IF AllRead(packet, reader) THEN "delivered" ELSE "IncompleteRead"
    /\ UNCHANGED <<incoming, names, values, opcode, packet, intact, pushed,
                   unread, reader, args>>

Next ==
    \/ PushNext \/ PushNull \/ SendPacket
    \/ MisplaceFds \/ Derail
    \/ HandleEvent \/ TryFromPacket \/ ReadNext \/ Finish

Spec == Init /\ [][Next]_vars

-----------------------------------------------------------------------------
(* Types.  A payload is whole words, which is why RecvPath and SendPath    *)
(* can count in words; a reader never gets beyond the payload.             *)
TypeOK ==
    /\ phase \in {"push", "transit", "read"} \cup Outcomes
    /\ incoming \in BOOLEAN /\ intact \in BOOLEAN
    /\ packet \in Packets
    /\ Len(packet.payload) % 4 = 0
    /\ pushed \in Seq(Kinds \cup {"null"}) /\ unread \in Seq(Kinds)
    /\ reader \in Readers
    /\ reader.pos <= Len(packet.payload)
    /\ reader.fdPos <= Len(packet.fds)

WithNull == \E i \in DOMAIN pushed : pushed[i] = "null"

(* A message that arrives as it was sent is delivered, never an error nor  *)
(* an event that is unknown, unless a string of it is NULL, and with the   *)
(* arguments it was sent with: for every message of the three protocols    *)
(* the proxies, handlers and argument structs agree on opcode, number,     *)
(* order and encoding of the arguments.                                    *)
IntactArrives ==
    intact /\ ~ WithNull =>
       /\ phase \in {"push", "transit", "read", "delivered"}
       /\ args = [i \in DOMAIN args |-> values[pushed[i]]]
       /\ phase = "delivered" => Len(args) = Len(pushed)

(* A NULL string is never taken for an empty one, or for the bytes that    *)
(* come next: its message is not delivered, but ends in an error (or a     *)
(* panic, where overflow is checked), an event that is legal included.     *)
NullRefused ==
    WithNull =>
       /\ phase = "delivered" =>
             opcode # Sent(names[1], incoming, names[2]).opcode
       /\ intact => phase \in {"push", "transit", "read", "EmptyString"}

(* Whatever happens on the way, a handler or struct that gets a packet     *)
(* with the right opcode gets the arguments that were sent, or an error; a *)
(* packet cut short is refused.  Of the descriptors it gets all that came  *)
(* with the packet, in order, and as many as were sent: one too many or    *)
(* too few is an error, but those of another packet are taken for its own. *)
DeliveredWhole ==
    phase = "delivered" /\ opcode = Sent(names[1], incoming, names[2]).opcode
       /\ ~ WithNull
       => LET FdsTo(n) == {i \in 1 .. n : pushed[i] = "fd"}
          IN  /\ Len(args) = Len(pushed)
              /\ Len(packet.fds) = Cardinality(FdsTo(Len(pushed)))
              /\ \A i \in 1 .. Len(pushed) :
                    args[i] = IF pushed[i] = "fd"
                              THEN packet.fds[Cardinality(FdsTo(i))]
                              ELSE values[pushed[i]]

(* The tables of an interface are what wlproto makes of a protocol: the    *)
(* opcodes are the positions of its messages, the same in proxy or handler *)
(* and in the argument struct, and every argument has one type, of which   *)
(* come the methods that write it and that read it, in both directions.    *)
TablesGenerated ==
    Interfaces[names[1]] = TokenizeInterface(InterfaceOf(Interfaces[names[1]]))

=============================================================================
