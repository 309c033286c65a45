----------------------------- MODULE MCRecvPath -----------------------------
(* RecvPath with two tasks and a compositor that sends a few events. *)
EXTENDS RecvPath

CONSTANTS t1, t2

(* wl_buffer.release, which is all header; an event with a file descriptor *)
(* and a word that, out of step, reads as the NULL object; an event with   *)
(* an opcode of more than 8 bits.                                          *)
Release8 == [id |-> 1, size |-> 8, opcode |-> 0, payload |-> <<>>, fds |-> 0]
Keymap == [id |-> 2, size |-> 12, opcode |-> 1, payload |-> <<0>>, fds |-> 1]
Configure == [id |-> 3, size |-> 16, opcode |-> 2, payload |-> <<5, 655361>>,
              fds |-> 0]
HighOpcode == [id |-> 2, size |-> 8, opcode |-> 256, payload |-> <<>>, fds |-> 0]

(* What a broken compositor might send: a size below that of the header,   *)
(* the NULL object.                                                        *)
Short == [id |-> 1, size |-> 4, opcode |-> 0, payload |-> <<>>, fds |-> 0]
Null == [id |-> 0, size |-> 12, opcode |-> 0, payload |-> <<1>>, fds |-> 1]

AllEvents == {Release8, Keymap, Configure, Short, Null}
GoodEvents == {Release8, Configure}
FdEvents == {Release8, Keymap}
OpcodeEvents == {HighOpcode}

=============================================================================
