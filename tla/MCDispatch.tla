----------------------------- MODULE MCDispatch -----------------------------
(* Dispatch with three tasks; the .cfg files say what each of them does.   *)
EXTENDS Dispatch

CONSTANTS t1, t2, t3
=============================================================================
