--------------------------- MODULE WaylandServer ---------------------------
(***************************************************************************)
(* The compositor that activate-linux talks to: which requests it expects, *)
(* which events it sends and when it ends the connection with a protocol   *)
(* error.  It is not part of the repository; what it does follows from how *)
(* the program uses it and from the enumerations of error codes in the     *)
(* generated bindings.                                                     *)
(*                                                                         *)
(* Requests and events are records in two first-in-first-out channels; the *)
(* size of a picture stands for its width and, in the same way, its height *)
(* and its length in bytes.                                                *)
(***************************************************************************)
EXTENDS Naturals, Sequences, FiniteSets

CONSTANTS
    Scales,       \* scaling factors that the compositor may prefer
    MaxAnnounced, \* global |-> how often it may be announced
    MaxPreferred, \* how often the compositor changes its preferred scale
    MaxConfigured, \* how many configure events it sends
    MaxNotices    \* how many events it sends that are only logged

ASSUME ServerAssumption ==
    /\ Scales \subseteq Nat \ {0}
    /\ \A g \in DOMAIN MaxAnnounced : MaxAnnounced[g] \in Nat
    /\ {MaxPreferred, MaxConfigured, MaxNotices} \subseteq Nat

VARIABLES
    requests,  \* from the client
    events,    \* to the client
    objects,   \* the client's objects, by id
    announced, \* how often each global has been announced
    preferred, \* the preferred scales so far, the current one last
    configured, \* the number of configure events sent
    scale_at,  \* scale_at[n]: the scale that was preferred at the n-th of them
    notices,   \* the number of events sent that are only logged
    shown,     \* the content of the screen: the last picture committed
    fault      \* the protocol error that ended the connection

serverVars == <<requests, events, objects, announced, preferred, configured,
                scale_at, notices, shown, fault>>

(* A request for object `on`, about an id (a new one, or another object)   *)
(* and a number; an event for an object.                                   *)
Request(op, on, id, n) == [op |-> op, on |-> on, id |-> id, n |-> n]
Event(op, on, arg) == [op |-> op, on |-> on, arg |-> arg]

Object(interface, of, size) ==
    [interface |-> interface, of |-> of, size |-> size,
     buffer |-> 0, scale |-> 1,             \* of a surface: its next picture
     owed |-> {}, acked |-> 0, committed |-> FALSE, \* of a layer surface:
     extent |-> 0, edges |-> 0]                    \* its size and its anchor

Nothing == [surface |-> 0, scale |-> 0, serial |-> 0]

(* f with v for x, which may be new. *)
Put(f, x, v) == [y \in DOMAIN f \cup {x} |-> IF y = x THEN v ELSE f[y]]

ServerInit ==
    /\ requests = <<>> /\ events = <<>>
    /\ objects = [o \in {1} |-> Object("wl_display", 0, 0)]
    /\ announced = [g \in DOMAIN MaxAnnounced |-> 0]
    /\ preferred = <<1>>
    /\ configured = 0 /\ scale_at = <<>> /\ notices = 0
    /\ shown = Nothing
    /\ fault = "none"

Of(interface) == {o \in DOMAIN objects : objects[o].interface = interface}
Is(o, interface) == o \in Of(interface)

-----------------------------------------------------------------------------
(* The interface of the object a request is for and of the one it is       *)
(* about, that of a new object last.                                       *)
Signature == [
    get_registry      |-> <<"wl_display", "none", "wl_registry">>,
    create_surface    |-> <<"wl_compositor", "none", "wl_surface">>,
    create_region     |-> <<"wl_compositor", "none", "wl_region">>,
    create_pool       |-> <<"wl_shm", "none", "wl_shm_pool">>,
    create_buffer     |-> <<"wl_shm_pool", "none", "wl_buffer">>,
    get_layer_surface |-> <<"zwlr_layer_shell_v1", "none",
                            "zwlr_layer_surface_v1">>,
    bind_wl_compositor       |-> <<"wl_registry", "none", "wl_compositor">>,
    bind_wl_shm              |-> <<"wl_registry", "none", "wl_shm">>,
    bind_zwlr_layer_shell_v1 |-> <<"wl_registry", "none", "zwlr_layer_shell_v1">>,
    ack_configure     |-> <<"zwlr_layer_surface_v1", "none", "none">>,
    set_size          |-> <<"zwlr_layer_surface_v1", "none", "none">>,
    set_anchor        |-> <<"zwlr_layer_surface_v1", "none", "none">>,
    attach            |-> <<"wl_surface", "wl_buffer", "none">>,
    set_buffer_scale  |-> <<"wl_surface", "none", "none">>,
    set_input_region  |-> <<"wl_surface", "wl_region", "none">>,
    commit            |-> <<"wl_surface", "none", "none">>]

LayerSurfacesOf(s) == {l \in Of("zwlr_layer_surface_v1") : objects[l].of = s}

(* The edges that a layer surface may be anchored to are a bit field: top  *)
(* 1, bottom 2, left 4, right 8.                                           *)
AllEdges == 15

(* A layer surface begins without a size, and may only leave a dimension   *)
(* to the compositor when it is anchored to both of its ends.              *)
Unsized(l) == objects[l].extent = 0 /\ objects[l].edges # AllEdges

(* Why the compositor may end the connection when it gets the request: the *)
(* codes of the enumerations that a request of the program could deserve.  *)
(* "unsized" is the layer surface's INVALID_SIZE, "invalid_size" that of   *)
(* the surface.                                                            *)
Faults(r) ==
    LET made == Signature[r.op][3] IN
    {f \in {"invalid_object", "invalid_id", "already_constructed",
            "invalid_serial", "invalid_surface_state", "invalid_size",
            "invalid_stride", "invalid_anchor", "unsized"} :
       CASE f = "invalid_object" ->
              \/ ~ Is(r.on, Signature[r.op][1])
              \/ Signature[r.op][2] # "none" /\ ~ Is(r.id, Signature[r.op][2])
              \/ r.op = "get_layer_surface" /\ ~ Is(r.n, "wl_surface")
         [] f = "invalid_id" ->
              made # "none" /\ r.id # Cardinality(DOMAIN objects) + 1
         [] f = "already_constructed" ->
              /\ r.op = "get_layer_surface" /\ Is(r.n, "wl_surface")
              /\ LayerSurfacesOf(r.n) # {} \/ objects[r.n].buffer # 0
         [] f = "invalid_serial" ->
              /\ r.op = "ack_configure" /\ Is(r.on, "zwlr_layer_surface_v1")
              /\ r.n \notin objects[r.on].owed
         [] f = "invalid_surface_state" ->
              /\ r.op = "commit" /\ Is(r.on, "wl_surface")
              /\ objects[r.on].buffer # 0
              /\ \A l \in LayerSurfacesOf(r.on) : objects[l].acked = 0
         [] f = "invalid_size" ->
              /\ r.op = "commit" /\ Is(r.on, "wl_surface")
              /\ objects[r.on].buffer # 0
              /\ objects[objects[r.on].buffer].size % objects[r.on].scale # 0
         [] f = "invalid_stride" ->
              /\ r.op = "create_buffer" /\ Is(r.on, "wl_shm_pool")
              /\ r.n > objects[r.on].size
         [] f = "invalid_anchor" ->
              r.op = "set_anchor" /\ r.n > AllEdges
         [] f = "unsized" ->
              /\ r.op = "commit" /\ Is(r.on, "wl_surface")
              /\ \E l \in LayerSurfacesOf(r.on) : Unsized(l)}

(* The state of a surface is checked when it is committed.  At the commit  *)
(* of an empty surface a compositor may let the missing size pass, for     *)
(* there is nothing to place yet: the program depends on it (main.rs:150). *)
PassedOver(r) ==
    IF r.op = "commit" /\ Is(r.on, "wl_surface") /\ objects[r.on].buffer = 0
    THEN {"unsized"} ELSE {}

Accept(r) ==
    /\ requests # <<>> /\ fault = "none"
    /\ r = Head(requests)
    /\ Faults(r) \subseteq PassedOver(r)
    /\ requests' = Tail(requests)
    /\ UNCHANGED <<events, announced, preferred, configured, scale_at, notices,
                   fault>>

Reject(r) ==
    /\ requests # <<>> /\ fault = "none"
    /\ r = Head(requests)
    /\ fault' \in Faults(r)
    /\ UNCHANGED <<requests, events, objects, announced, preferred, configured,
                   scale_at, notices, shown>>

(* An object is made; a buffer or a pool has a size, a layer surface its   *)
(* surface.                                                                *)
Make(r) ==
    /\ Signature[r.op][3] # "none"
    /\ Accept(r)
    /\ objects' = Put(objects, r.id, Object(Signature[r.op][3], r.n, r.n))
    /\ UNCHANGED shown

(* An acknowledgement answers the configure events up to its serial. *)
Acknowledge(r) ==
    /\ r.op = "ack_configure"
    /\ Accept(r)
    /\ objects' = [objects EXCEPT ![r.on].acked = r.n,
                                      ![r.on].owed = {m \in @ : m > r.n}]
    /\ UNCHANGED shown

SetState(r) ==
    /\ r.op \in {"attach", "set_buffer_scale", "set_size", "set_anchor",
                 "set_input_region"}
    /\ Accept(r)
    /\ objects' = CASE r.op = "attach" -> [objects EXCEPT ![r.on].buffer = r.id]
                    [] r.op = "set_buffer_scale" ->
                         [objects EXCEPT ![r.on].scale = r.n]
                    [] r.op = "set_size" -> [objects EXCEPT ![r.on].extent = r.n]
                    [] r.op = "set_anchor" -> [objects EXCEPT ![r.on].edges = r.n]
                    [] OTHER -> objects
    /\ UNCHANGED shown

Commit(r) ==
    /\ r.op = "commit"
    /\ Accept(r)
    /\ objects' = [o \in DOMAIN objects |->
                     IF o \in LayerSurfacesOf(r.on)
                     THEN [objects[o] EXCEPT !.committed = TRUE] ELSE objects[o]]
    /\ IF objects[r.on].buffer = 0 THEN UNCHANGED shown
       ELSE \E l \in LayerSurfacesOf(r.on) :
               shown' = [surface |-> r.on, scale |-> objects[r.on].scale,
                         serial |-> objects[l].acked]

Serve == \E r \in {requests[i] : i \in DOMAIN requests} :
            Reject(r) \/ Make(r) \/ Acknowledge(r) \/ SetState(r) \/ Commit(r)

-----------------------------------------------------------------------------
Emit(e) ==
    /\ fault = "none"
    /\ events' = Append(events, e)
    /\ UNCHANGED <<requests, shown, fault>>

Announce(g) ==
    /\ announced[g] < MaxAnnounced[g]
    /\ announced' = [announced EXCEPT ![g] = @ + 1]
    /\ \E o \in Of("wl_registry") : Emit(Event("global", o, g))
    /\ UNCHANGED <<objects, preferred, configured, scale_at, notices>>

Prefer(s, n) ==
    /\ Len(preferred) <= MaxPreferred
    /\ preferred' = Append(preferred, n)
    /\ Emit(Event("preferred_buffer_scale", s, n))
    /\ UNCHANGED <<objects, announced, configured, scale_at, notices>>

(* After the first commit of a layer surface, and whenever its size is to  *)
(* change.                                                                 *)
Configure(l) ==
    /\ configured < MaxConfigured
    /\ objects[l].committed
    /\ configured' = configured + 1
    /\ scale_at' = Append(scale_at, preferred[Len(preferred)])
    /\ objects' = [objects EXCEPT ![l].owed = @ \cup {configured'}]
    /\ Emit(Event("configure", l, configured'))
    /\ UNCHANGED <<announced, preferred, notices>>

(* format, enter, leave, preferred_buffer_transform, closed, release,      *)
(* global_remove, error, delete_id; or a global of no interest.            *)
Notify(o) ==
    /\ notices < MaxNotices
    /\ notices' = notices + 1
    /\ \/ Emit(Event("notice", o, 0))
       \/ Is(o, "wl_registry") /\ Emit(Event("global", o, "wl_output"))
    /\ UNCHANGED <<objects, announced, preferred, configured, scale_at>>

Notified == Of("wl_shm") \cup Of("wl_surface") \cup Of("wl_buffer")
               \cup Of("zwlr_layer_surface_v1") \cup Of("wl_display")
               \cup Of("wl_registry")

ServerNext ==
    \/ Serve
    \/ \E g \in DOMAIN MaxAnnounced : Announce(g)
    \/ \E s \in Of("wl_surface"), n \in Scales : Prefer(s, n)
    \/ \E l \in Of("zwlr_layer_surface_v1") : Configure(l)
    \/ \E o \in Notified : Notify(o)

=============================================================================
