--------------------------- MODULE ProtocolTables ---------------------------
(***************************************************************************)
(* What the code that wlproto has generated does with the arguments of a   *)
(* message, as tables: an argument's kind stands for the pair of a push_   *)
(* and a read_ method of packet.rs that handles it ("new_id" for the       *)
(* methods ..._new_id_known_interface, "new_object" for                    *)
(* ..._new_id_unknown_interface, "string" for ..._str).                    *)
(***************************************************************************)
EXTENDS Naturals, Sequences, TLC

Kinds == {"uint", "int", "fixed", "string", "array", "object", "new_id",
          "new_object", "fd"}

(* A method of a request proxy, with the kinds it pushes, or an arm of the *)
(* match in a handle_event, with the kinds it reads.                       *)
Message(opcode, kinds) == [opcode |-> opcode, kinds |-> kinds]

(* A struct ..._args, with the kinds that its try_from_packet reads and    *)
(* its try_into_packet pushes.                                             *)
ArgsOf(opcode, reads, pushes) ==
    [opcode |-> opcode, reads |-> reads, pushes |-> pushes]
Args(opcode, kinds) == ArgsOf(opcode, kinds, kinds)

NoMessages == <<>>

(* The messages of an interface, by name. *)
Interface(requests, events, request_args, event_args) ==
    [requests |-> requests, events |-> events,
     request_args |-> request_args, event_args |-> event_args]

=============================================================================
