--------------------------- MODULE PacketReceiver ---------------------------
(***************************************************************************)
(* What recv_packet promises its callers: the packets the compositor has   *)
(* sent are a queue, from which each call takes the first, whole, or       *)
(* returns an error and takes none; unless a call gives up in the middle   *)
(* of a packet, which breaks the promise for all calls to come.            *)
(***************************************************************************)
EXTENDS Naturals, Sequences

VARIABLES
    calls,   \* the tasks in recv_packet
    stream,  \* the packets sent, in order
    taken,   \* those returned, in order
    broken   \* a call has given up in the middle of a packet

vars == <<calls, stream, taken, broken>>

Init == calls = {} /\ stream = <<>> /\ taken = <<>> /\ broken = FALSE

Arrive ==
    /\ Len(stream') = Len(stream) + 1
    /\ SubSeq(stream', 1, Len(stream)) = stream
    /\ UNCHANGED <<calls, taken, broken>>

Call(t) == calls' = calls \cup {t} /\ UNCHANGED <<stream, taken, broken>>

Take(t) ==
    /\ Len(taken) < Len(stream)
    /\ taken' = Append(taken, stream[Len(taken) + 1])
    /\ calls' = calls \ {t}
    /\ UNCHANGED <<stream, broken>>

Fail(t) ==
    /\ calls' = calls \ {t}
    /\ broken' \in {broken, TRUE}
    /\ UNCHANGED <<stream, taken>>

Broken == broken /\ broken'

Next ==
    \/ Arrive \/ Broken
    \/ \E t \in calls : Take(t) \/ Fail(t)
    \/ \E t \in calls' \ calls : Call(t)

Spec == Init /\ [][Next]_vars

=============================================================================
