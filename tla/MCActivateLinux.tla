-------------------------- MODULE MCActivateLinux --------------------------
(* Each global is announced once, the compositor even twice, in any order. *)
EXTENDS ActivateLinux, TLC

Announcements ==
    [wl_compositor |-> 2, zwlr_layer_shell_v1 |-> 1, wl_shm |-> 1]

(* With scale 2 the text must be rounded up. *)
Texts == (1 :> 3) @@ (2 :> 5)

=============================================================================
