----------------------------- MODULE UnixSocket -----------------------------
(***************************************************************************)
(* One direction of an AF_UNIX stream socket, as the kernel behaves toward *)
(* sendmsg and recvmsg of socket_fd_ext.rs.  The receive queue holds one   *)
(* segment per send; the file descriptors sent with it belong to the       *)
(* segment as a whole and go to the first recvmsg that touches it, one     *)
(* with an empty buffer included.  The unit of data is the 4-byte word.    *)
(*                                                                         *)
(* A recvmsg of the kernel may run on into the next segment; here it stops *)
(* at the end of the first, since every caller reads in a loop until its   *)
(* buffer is full.                                                         *)
(***************************************************************************)
EXTENDS Naturals, Sequences

Segment(words, fds) == [words |-> words, fds |-> fds]

(* What recvmsg with room for n words takes from a queue that is not       *)
(* empty, and the queue it leaves.                                         *)
Receive(queue, n) ==
    LET first == Head(queue)
        size == Len(first.words)
        k == IF n < size THEN n ELSE size
        remainder == Segment(SubSeq(first.words, k + 1, size), <<>>)
    IN  [words |-> SubSeq(first.words, 1, k),
         fds   |-> first.fds,
         queue |-> IF k = size THEN Tail(queue)
                               ELSE <<remainder>> \o Tail(queue)]

=============================================================================
