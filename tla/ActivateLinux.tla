--------------------------- MODULE ActivateLinux ---------------------------
(***************************************************************************)
(* activate-linux, a client with one task: it gets an event, dispatches    *)
(* it to the handler of its object and gets the next.  What a handler does *)
(* is one action: nothing else in the program runs meanwhile, and what the *)
(* compositor does meanwhile it might as well do before or after, for all  *)
(* that the handler puts into the channel.  For one task a handler is      *)
(* registered as soon as register_handler returns (HandlerTable).          *)
(***************************************************************************)
EXTENDS WaylandServer

CONSTANT TextSize  \* scale |-> the size of the text as draw_text renders it

ASSUME TextAssumption == TextSize \in [Scales \cup {1} -> Nat \ {0}]

VARIABLES
    status,   \* "start", "loop" or "panicked"
    next_id,  \* the connection's next_object_id
    handlers, \* id |-> what kind of handler is registered for it
    display   \* DISPLAY_STATE, without the fields that are never read

clientVars == <<status, next_id, handlers, display>>
vars == <<serverVars, clientVars>>

Wanted == {"wl_compositor", "zwlr_layer_shell_v1", "wl_shm"}

(* A compositor without one of them announces it 0 times.                  *)
ASSUME WantedAssumption == Wanted \subseteq DOMAIN MaxAnnounced

Init ==
    /\ ServerInit
    /\ status = "start"
    /\ next_id = 2
    /\ handlers = <<>>
    /\ display = [wl_compositor |-> 0, zwlr_layer_shell_v1 |-> 0, wl_shm |-> 0,
                  surface |-> 0, layer_surface |-> 0, preferred_scale |-> 1]

Submit(rs) == requests' = requests \o rs

Run ==
    /\ status = "start"
    /\ status' = "loop"
    /\ handlers' = Put(Put(handlers, 1, "display"), next_id, "registry")
    /\ Submit(<<Request("get_registry", 1, next_id, 0)>>)
    /\ next_id' = next_id + 1
    /\ UNCHANGED <<events, objects, announced, preferred, configured, scale_at,
                   notices, shown, fault, display>>

-----------------------------------------------------------------------------
(* The event at the head of the channel gets to the handler of its object. *)
Dispatch(kind, op) ==
    /\ status = "loop"
    /\ events # <<>>
    /\ Head(events).on \in DOMAIN handlers
    /\ handlers[Head(events).on] = kind
    /\ Head(events).op = op
    /\ events' = Tail(events)
    /\ UNCHANGED <<objects, announced, preferred, configured, scale_at, notices,
                   shown, fault, status>>

(* recv_packet fails when the compositor has closed the connection and all *)
(* its events are read, dispatch when the object has no handler.           *)
LoopFails == IF events = <<>> THEN fault # "none"
                              ELSE Head(events).on \notin DOMAIN handlers

(* The events whose handlers send requests.                                *)
Answered(e) == e.op = "configure" \/ (e.op = "global" /\ e.arg \in Wanted)

(* handle_configure unwraps these.                                         *)
UnwrapFails ==
    \E f \in {"layer_surface", "wl_compositor", "wl_shm", "surface"} :
       display[f] = 0

(* A send fails (it may) when the compositor has closed the connection.    *)
HandlerFails ==
    /\ events # <<>> /\ Head(events).on \in DOMAIN handlers
    /\ \/ Answered(Head(events)) /\ fault # "none"
       \/ /\ Head(events).op = "configure" /\ UnwrapFails
          /\ handlers[Head(events).on] = "layer_surface"

(* The `expect` behind either call, or in a handler: the last step of the  *)
(* program, so what else the handler has done is left out.                 *)
Panic ==
    /\ status = "loop"
    /\ LoopFails \/ HandlerFails
    /\ status' = "panicked"
    /\ UNCHANGED <<serverVars, next_id, handlers, display>>

(* A mutant: any two of the globals are enough. *)
Complete_TwoOfThree(d) == \E g \in Wanted : \A h \in Wanted \ {g} : d[h] # 0

Complete(d) == \A g \in Wanted : d[g] # 0

(* A mutant: the empty surface is not committed. *)
Rigmarole_NoCommit(d) ==
    <<Request("create_surface", d.wl_compositor, d.surface, 0),
      Request("get_layer_surface", d.zwlr_layer_shell_v1, d.layer_surface,
              d.surface)>>

(* The requests of surface_creation_rigmarole. *)
Rigmarole(d) ==
    <<Request("create_surface", d.wl_compositor, d.surface, 0),
      Request("get_layer_surface", d.zwlr_layer_shell_v1, d.layer_surface,
              d.surface),
      Request("commit", d.surface, 0, 0)>>

(* How each global is bound. *)
Binding == [wl_compositor |-> "bind_wl_compositor",
            zwlr_layer_shell_v1 |-> "bind_zwlr_layer_shell_v1",
            wl_shm |-> "bind_wl_shm"]

Global(g) ==
    LET bound == [display EXCEPT ![g] = next_id]
        bind == <<Request(Binding[g], Head(events).on, next_id, 0)>>
        known == IF g = "wl_shm" THEN Put(handlers, next_id, "shm") ELSE handlers
        d == [bound EXCEPT !.surface = next_id + 1, !.layer_surface = next_id + 2]
    IN  \/ /\ ~ Complete(bound)
           /\ display' = bound
           /\ handlers' = known
           /\ next_id' = next_id + 1
           /\ Submit(bind)
        \/ /\ Complete(bound)
           /\ display' = d
           /\ handlers' = Put(Put(known, d.surface, "surface"),
                              d.layer_surface, "layer_surface")
           /\ next_id' = next_id + 3
           /\ Submit(bind \o Rigmarole(d))

HandleGlobal ==
    /\ Dispatch("registry", "global")
    /\ \/ Head(events).arg \in Wanted /\ Global(Head(events).arg)
       \/ /\ Head(events).arg \notin Wanted
          /\ UNCHANGED <<requests, next_id, handlers, display>>

(* A mutant: the factor is logged only. *)
HandlePreferredScale_Logs ==
    /\ Dispatch("surface", "preferred_buffer_scale")
    /\ UNCHANGED <<requests, next_id, handlers, display>>

HandlePreferredScale ==
    /\ Dispatch("surface", "preferred_buffer_scale")
    /\ display' = [display EXCEPT !.preferred_scale = Head(events).arg]
    /\ UNCHANGED <<requests, next_id, handlers>>

(* A mutant: the size is not rounded. *)
RoundedUp_Not(size, scale) == size

(* The next multiple of the scale. *)
RoundedUp(size, scale) == scale * ((size + scale - 1) \div scale)

(* A mutant: the handler of the buffer is not registered. *)
BufferHandler_Forgotten(buffer) == handlers

BufferHandler(buffer) == Put(handlers, buffer, "buffer")

(* The anchor: BOTTOM | RIGHT. *)
BottomRight == 10

HandleConfigure ==
    /\ Dispatch("layer_surface", "configure")
    /\ ~ UnwrapFails
    /\ LET region == next_id
           pool == next_id + 1
           buffer == next_id + 2
           scale == display.preferred_scale
           size == RoundedUp(TextSize[scale], scale)
       IN  /\ Submit(
                <<Request("ack_configure", display.layer_surface, 0, Head(events).arg),
                  Request("set_size", display.layer_surface, 0, size \div scale),
                  Request("set_anchor", display.layer_surface, 0, BottomRight),
                  Request("create_region", display.wl_compositor, region, 0),
                  Request("create_pool", display.wl_shm, pool, size),
                  Request("create_buffer", pool, buffer, size),
                  Request("attach", display.surface, buffer, 0),
                  Request("set_buffer_scale", display.surface, 0, scale),
                  Request("set_input_region", display.surface, region, 0),
                  Request("commit", display.surface, 0, 0)>>)
           /\ handlers' = BufferHandler(buffer)
           /\ next_id' = next_id + 3
    /\ UNCHANGED display

(* The events that are only logged. *)
HandleNotice ==
    /\ \E kind \in {"display", "registry", "shm", "surface", "layer_surface",
                   "buffer"} :
          Dispatch(kind, "notice")
    /\ UNCHANGED <<requests, next_id, handlers, display>>

ClientNext ==
    \/ Run \/ Panic
    \/ HandleGlobal \/ HandlePreferredScale \/ HandleConfigure \/ HandleNotice

ServerStep == ServerNext /\ UNCHANGED clientVars

Next == ClientNext \/ ServerStep

(* The task runs when there is an event to read; the compositor serves     *)
(* requests and configures a layer surface after its first commit.         *)
Fairness ==
    /\ WF_vars(ClientNext)
    /\ WF_vars(Serve /\ UNCHANGED clientVars)
    /\ WF_vars(/\ \E l \in Of("zwlr_layer_surface_v1") : Configure(l)
               /\ UNCHANGED clientVars)

Spec == Init /\ [][Next]_vars /\ Fairness

-----------------------------------------------------------------------------
Ids == 1 .. next_id - 1

(* Types, and the ids in DISPLAY_STATE are those of objects made. *)
TypeOK ==
    /\ status \in {"start", "loop", "panicked"}
    /\ DOMAIN objects \subseteq Ids
    /\ status # "start" => DOMAIN handlers \subseteq Ids
    /\ \A f \in DOMAIN display \ {"preferred_scale"} : display[f] \in Ids \cup {0}
    /\ display.preferred_scale \in Scales \cup {1}
    /\ display.layer_surface # 0 => \A g \in Wanted : display[g] # 0

(* When a global is announced for the second time the program makes a      *)
(* second surface and forgets the first, whose configure events it answers *)
(* on the second.                                                          *)
AnnouncedOnce == \A g \in Wanted : announced[g] <= 1

(* Whatever the order of the globals and of everything else, there is one  *)
(* request only that a compositor may take for a protocol error: the first *)
(* commit, of a layer surface that has neither a size nor an anchor yet.   *)
(* All others are right: every object they name exists and has the right   *)
(* interface, ids are introduced in order, no picture is committed before  *)
(* a configure event is acknowledged or without a size, serials are        *)
(* acknowledged where they came from, and pictures fit their pools and are *)
(* divisible by the scale.                                                 *)
NoFault ==
    AnnouncedOnce /\ fault # "none" =>
       fault = "unsized" /\ configured = 0 /\ shown = Nothing

(* Every event finds a handler, also those of the objects that the handler *)
(* of another event is making, and what a handler unwraps is there: the    *)
(* program ends only when the compositor has closed the connection, after  *)
(* all its events or at the first that asks for an answer.                 *)
NoPanic ==
    status = "panicked" =>
       fault # "none" /\ (events = <<>> \/ Answered(Head(events)))

(* The picture on the screen has the scale that the compositor preferred   *)
(* when it sent the configure event the picture answers.                   *)
PictureFollowsConfigure ==
    shown # Nothing /\ AnnouncedOnce => shown.scale = scale_at[shown.serial]

(* Nothing is ever given back, so every configure event costs three ids (a *)
(* region, a pool and a buffer with its handler), but only once; nothing   *)
(* else takes any after the first eight, and no configure event is left    *)
(* without an answer when all events are read.                             *)
Growth ==
    AnnouncedOnce =>
       /\ next_id <= 8 + 3 * configured
       /\ events = <<>> /\ display.layer_surface # 0 =>
             next_id = 8 + 3 * configured

(* Once the three globals have been announced, in any order, a picture is  *)
(* shown, unless the compositor objects to the size of the empty surface.  *)
Shows ==
    (\A g \in Wanted : announced[g] = 1) ~>
       (shown # Nothing \/ fault = "unsized" \/ ~ AnnouncedOnce)

=============================================================================
