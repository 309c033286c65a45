---------------------------- MODULE HandlerTable ----------------------------
(***************************************************************************)
(* What the event handler registry of a Connection promises its users,     *)
(* with no lock and no queue in sight: register_handler and drop_handler   *)
(* take effect at one instant; nothing else changes the table; and a       *)
(* dispatch runs a handler that was registered for the packet's object at  *)
(* some instant between the call of dispatch and the start of the handler. *)
(***************************************************************************)
CONSTANTS Tasks, Objects, Handlers, None

VARIABLES
    table,    \* table[o]: the handler registered for o, or None
    wanted,   \* wanted[t]: the object whose handler t's dispatch looks for
    seen,     \* seen[t]: what was registered for it since the dispatch began
    running   \* running[t]: the handler that the dispatch of t is running

vars == <<table, wanted, seen, running>>

Init ==
    /\ table = [o \in Objects |-> None]
    /\ wanted = [t \in Tasks |-> None]
    /\ seen = [t \in Tasks |-> {}]
    /\ running = [t \in Tasks |-> None]

(* register_handler (h a handler) or drop_handler (h = None); the lookups  *)
(* in progress for the object may answer with the old or the new value.    *)
Set(o, h) ==
    /\ table' = [table EXCEPT ![o] = h]
    /\ seen' = [t \in Tasks |-> IF wanted[t] = o THEN seen[t] \cup {h}
                                                 ELSE seen[t]]
    /\ UNCHANGED <<wanted, running>>

(* dispatch is called with a packet for object o. *)
Begin(t, o) ==
    /\ wanted[t] = None
    /\ wanted' = [wanted EXCEPT ![t] = o]
    /\ seen' = [seen EXCEPT ![t] = {table[o]}]
    /\ UNCHANGED <<table, running>>

(* The lookup of t is over, one way or another. *)
End(t) ==
    /\ wanted[t] # None
    /\ wanted' = [wanted EXCEPT ![t] = None]
    /\ seen' = [seen EXCEPT ![t] = {}]
    /\ UNCHANGED table

(* The handler of the packet starts; it was registered during the call. *)
Serve(t) ==
    /\ running[t] = None
    /\ \E h \in seen[t] \ {None} : running' = [running EXCEPT ![t] = h]
    /\ End(t)

(* dispatch returns NoEventHandler; there was none at some instant of it. *)
Miss(t) ==
    /\ None \in seen[t]
    /\ End(t)
    /\ UNCHANGED running

(* The handler returns and with it dispatch. *)
Return(t) ==
    /\ running[t] # None
    /\ running' = [running EXCEPT ![t] = None]
    /\ UNCHANGED <<table, wanted, seen>>

(* The future of a dispatch that is looking for its handler is dropped,    *)
(* alone or with the dispatch whose handler made the call.                 *)
Abort(t) ==
    /\ End(t)
    /\ running' \in {running, [running EXCEPT ![t] = None]}

Next ==
    \/ \E o \in Objects, h \in Handlers \cup {None} : Set(o, h)
    \/ \E t \in Tasks :
          \/ \E o \in Objects : Begin(t, o)
          \/ Serve(t) \/ Miss(t) \/ Return(t) \/ Abort(t)

Spec == Init /\ [][Next]_vars

=============================================================================
