---------------------------- MODULE PacketSender ----------------------------
(***************************************************************************)
(* What send_packet promises its callers: each call puts its packet on the *)
(* wire, whole, at one instant before it returns, or returns an error with *)
(* nothing put there.  Only a call that gives up with a part of its packet *)
(* written breaks the promise, and from then on for everyone.              *)
(***************************************************************************)
EXTENDS Naturals, Sequences

CONSTANTS Tasks, None

VARIABLES
    calls,   \* task |-> the packet it is sending, or None
    stream,  \* the packets on the wire, as a reader takes them off it
    broken   \* a call has given up in the middle of a packet

vars == <<calls, stream, broken>>

Init ==
    /\ calls = [t \in Tasks |-> None]
    /\ stream = <<>>
    /\ broken = FALSE

Call(t) ==
    /\ calls[t] = None
    /\ calls'[t] # None
    /\ calls' = [calls EXCEPT ![t] = calls'[t]]
    /\ UNCHANGED <<stream, broken>>

Succeed(t) ==
    /\ calls[t] # None
    /\ calls' = [calls EXCEPT ![t] = None]
    /\ stream' = Append(stream, calls[t])
    /\ UNCHANGED broken

Fail(t) ==
    /\ calls[t] # None
    /\ calls' = [calls EXCEPT ![t] = None]
    /\ broken' \in {broken, TRUE}
    /\ UNCHANGED stream

Broken == broken /\ broken'

Next == Broken \/ \E t \in Tasks : Call(t) \/ Succeed(t) \/ Fail(t)

Spec == Init /\ [][Next]_vars

=============================================================================
