----------------------------- MODULE MCSendPath -----------------------------
(* SendPath with two tasks, packets of two to four words, and a limit that *)
(* only the longest of them exceeds.                                       *)
EXTENDS SendPath

CONSTANTS t1, t2

CreatePool == [object |-> 3, opcode |-> 0, new |-> TRUE, args |-> <<>>,
               fds |-> <<9>>]
Commit == [object |-> 4, opcode |-> 6, new |-> FALSE, args |-> <<>>,
           fds |-> <<>>]
LongBind == [object |-> 6, opcode |-> 0, new |-> TRUE, args |-> <<7>>,
             fds |-> <<>>]

AllCalls == {CreatePool, Commit, LongBind}

=============================================================================
