------------------------ MODULE ActivateLinuxProofs ------------------------
(***************************************************************************)
(* Theorems about activate-linux, for any scales, any size of the text at  *)
(* each, any number of announcements, of changes of the scale, of          *)
(* configure events and of events that are only logged.                    *)
(***************************************************************************)
EXTENDS ActivateLinux, FiniteSetTheorems, SequenceTheorems, TLAPS

(* The size of the picture is a multiple of the scale that holds the text, *)
(* and less than a scale wider.                                            *)
THEOREM RoundedUpFits ==
    ASSUME NEW size \in Nat, NEW scale \in Nat \ {0}
    PROVE  LET whole == RoundedUp(size, scale)
           IN  /\ whole \in Nat /\ whole \div scale \in Nat
               /\ whole = scale * (whole \div scale)
               /\ size <= whole /\ whole < size + scale
<1> DEFINE a == size + scale - 1
           q == a \div scale
<1>1. a \in Nat
  OBVIOUS
<1> HIDE DEF a
<1>2. q \in Nat /\ a = scale * q + (a % scale) /\ a % scale \in 0 .. scale - 1
  BY <1>1
<1> HIDE DEF q
<1>3. scale * q \in Nat
  BY <1>2
<1>4. (scale * q) \div scale = q
  BY <1>2, Z3
<1>5. RoundedUp(size, scale) = scale * q
  BY DEF RoundedUp, a, q
<1>6. size <= scale * q /\ scale * q < size + scale
  <2>1. a = size + scale - 1
    BY DEF a
  <2> QED
    BY <1>2, <1>3, <2>1
<1>7. RoundedUp(size, scale) \div scale = q
  BY <1>4, <1>5
<1> DEFINE w == RoundedUp(size, scale)
           d == RoundedUp(size, scale) \div scale
<1>8. /\ w \in Nat /\ d \in Nat /\ w = scale * d
      /\ size <= w /\ w < size + scale
  <2>1. w = scale * q /\ d = q
    BY <1>5, <1>7
  <2> HIDE DEF w, d
  <2> QED
    BY <1>2, <1>3, <1>6, <2>1
<1> QED
  BY <1>8, Zenon

-----------------------------------------------------------------------------
(* The interfaces whose objects get events. *)
Listened == {"wl_display", "wl_registry", "wl_shm", "wl_surface", "wl_buffer",
             "zwlr_layer_surface_v1"}

RequestRecords == [op : DOMAIN Signature, on : Nat, id : Nat, n : Nat]

EventRecords ==
    [op : {"preferred_buffer_scale"}, on : Nat, arg : Scales]
       \cup [op : {"configure"}, on : Nat, arg : Nat]
       \cup [op : {"global"}, on : Nat,
             arg : DOMAIN MaxAnnounced \cup {"wl_output"}]
       \cup [op : {"notice"}, on : Nat, arg : {0}]

(* An event for the object finds its handler; before the program has begun *)
(* there is only the display.                                              *)
Known(o) == o \in DOMAIN handlers \/ (status = "start" /\ o = 1)

(* The id of an object that a request is to make has been taken; if the    *)
(* object will get events, its handler is registered already.              *)
GoodRequests ==
    {r \in RequestRecords :
       /\ Signature[r.op][3] # "none" => r.id \in Ids
       /\ Signature[r.op][3] \in Listened => r.id \in DOMAIN handlers}

GoodEvents == {e \in EventRecords : e.on \in Ids /\ Known(e.on)}

ObjectsOK ==
    /\ DOMAIN objects \subseteq Ids
    /\ \A o \in DOMAIN objects :
          /\ "interface" \in DOMAIN objects[o]
          /\ objects[o].interface \in Listened => Known(o)

ChannelsOK == requests \in Seq(GoodRequests) /\ events \in Seq(GoodEvents)

Fields == Wanted \cup {"surface", "layer_surface", "preferred_scale"}

DisplayOK ==
    /\ DOMAIN display = Fields
    /\ \A f \in Fields \ {"preferred_scale"} : display[f] \in Ids \cup {0}
    /\ display.preferred_scale \in Scales \cup {1}
    /\ display.layer_surface # 0 => \A g \in Wanted : display[g] # 0

StatusOK ==
    /\ status \in {"start", "loop", "panicked"}
    /\ next_id \in Nat /\ next_id >= 2
    /\ status = "start" => DOMAIN handlers = {}
    /\ DOMAIN handlers \subseteq Ids
    /\ configured \in Nat

ClientInv == StatusOK /\ DisplayOK /\ ObjectsOK /\ ChannelsOK /\ NoPanic

(* Whoever handles configure events finds what it unwraps.                 *)
Armed ==
    \A o \in DOMAIN handlers : handlers[o] = "layer_surface" => ~ UnwrapFails

-----------------------------------------------------------------------------
(* What Put does.                                                          *)
LEMMA PutProperties ==
    ASSUME NEW f, NEW x, NEW v
    PROVE  /\ DOMAIN Put(f, x, v) = DOMAIN f \cup {x}
           /\ Put(f, x, v)[x] = v
           /\ \A y \in DOMAIN f \ {x} : Put(f, x, v)[y] = f[y]
BY DEF Put

(* An id is in use if it is below the next one.                            *)
LEMMA IdsMeaning ==
    \A n \in Nat : 1 .. n - 1 = {i \in Nat \ {0} : i < n}
OBVIOUS

(* More ids are in use when the next one grows.                            *)
LEMMA IdsSets ==
    /\ next_id \in Nat => Ids = {i \in Nat \ {0} : i < next_id}
    /\ next_id' \in Nat => Ids' = {i \in Nat \ {0} : i < next_id'}
BY IdsMeaning DEF Ids

(* Ids and handlers only ever become more. *)
Grows ==
    /\ next_id' \in Nat /\ next_id' >= next_id
    /\ DOMAIN handlers \subseteq DOMAIN handlers'
    /\ DOMAIN handlers' \subseteq Ids'
    /\ status = "start" => status' = status \/ 1 \in DOMAIN handlers'
    /\ status' = "start" => DOMAIN handlers' = {}
    /\ status' \in {"start", "loop", "panicked"}

(* Requests, events and objects stay good when ids and handlers are added. *)
LEMMA StillGood ==
    ASSUME StatusOK, Grows
    PROVE  /\ Ids \subseteq Ids'
           /\ \A o : Known(o) => Known(o)'
           /\ GoodRequests \subseteq GoodRequests'
           /\ GoodEvents \subseteq GoodEvents'
<1>1. Ids \subseteq Ids'
  BY IdsSets DEF StatusOK, Grows
<1>2. ASSUME NEW o, Known(o) PROVE Known(o)'
  BY <1>2 DEF Known, Grows
<1>3. GoodRequests \subseteq GoodRequests'
  BY <1>1 DEF GoodRequests, Grows
<1>4. GoodEvents \subseteq GoodEvents'
  BY <1>1, <1>2 DEF GoodEvents
<1> QED
  BY <1>1, <1>2, <1>3, <1>4

-----------------------------------------------------------------------------
(* The steps of the compositor. *)

(* The compositor stops at a fault.                                        *)
LEMMA ServerActs == ServerNext => fault = "none"
BY DEF ServerNext, Serve, Reject, Make, Acknowledge, SetState, Commit, Accept,
       Announce, Prefer, Configure, Notify, Emit

(* What is unchanged with the variables of the client.                     *)
LEMMA SameClient ==
    ASSUME UNCHANGED clientVars
    PROVE  /\ Ids' = Ids /\ GoodRequests' = GoodRequests
           /\ GoodEvents' = GoodEvents /\ DisplayOK' = DisplayOK
           /\ \A o : Known(o)' <=> Known(o)
           /\ status' = status
<1>1. Ids' = Ids
  BY DEF clientVars, Ids
<1>2. \A o : Known(o)' <=> Known(o)
  BY DEF clientVars, Known
<1>3. GoodRequests' = GoodRequests
  BY <1>1 DEF clientVars, GoodRequests
<1>4. GoodEvents' = GoodEvents
  BY <1>1, <1>2 DEF GoodEvents
<1>5. DisplayOK' = DisplayOK
  BY <1>1 DEF clientVars, DisplayOK
<1> QED
  BY <1>1, <1>2, <1>3, <1>4, <1>5 DEF clientVars

(* A step of the compositor keeps the invariant if its own part does.      *)
LEMMA ServerKeeps ==
    ASSUME ClientInv, UNCHANGED clientVars, fault = "none", ObjectsOK',
           requests' \in Seq(GoodRequests), events' \in Seq(GoodEvents),
           configured' \in Nat
    PROVE  ClientInv'
<1>1. StatusOK'
  BY SameClient DEF ClientInv, StatusOK, clientVars
<1>2. DisplayOK' /\ ChannelsOK'
  BY SameClient DEF ClientInv, ChannelsOK
<1>3. NoPanic'
  BY DEF ClientInv, NoPanic, clientVars
<1> QED
  BY <1>1, <1>2, <1>3 DEF ClientInv

(* An event more.                                                          *)
LEMMA Emitted ==
    ASSUME ClientInv, UNCHANGED clientVars, ObjectsOK', configured' \in Nat,
           NEW e \in GoodEvents, Emit(e)
    PROVE  ClientInv'
<1>1. events' \in Seq(GoodEvents)
  BY DEF ClientInv, ChannelsOK, Emit
<1> QED
  BY <1>1, ServerKeeps DEF ClientInv, ChannelsOK, Emit

(* The request at the head has its type.                                   *)
LEMMA AcceptedRequest ==
    ASSUME ClientInv, NEW r, Accept(r)
    PROVE  r \in GoodRequests /\ requests' \in Seq(GoodRequests)
<1>1. requests \in Seq(GoodRequests) /\ requests # <<>> /\ r = Head(requests)
      /\ requests' = Tail(requests)
  BY DEF ClientInv, ChannelsOK, Accept
<1> QED
  BY <1>1, HeadTailProperties

(* A request less.                                                         *)
LEMMA Accepted ==
    ASSUME ClientInv, UNCHANGED clientVars, ObjectsOK', NEW r, Accept(r)
    PROVE  ClientInv'
<1>1. requests' \in Seq(GoodRequests)
  BY AcceptedRequest
<1>2. events' \in Seq(GoodEvents) /\ fault = "none" /\ configured' \in Nat
  BY DEF ClientInv, ChannelsOK, Accept, StatusOK
<1> QED
  BY <1>1, <1>2, ServerKeeps

(* Objects keep their interfaces. *)
LEMMA SameInterfaces ==
    ASSUME ObjectsOK, UNCHANGED clientVars, DOMAIN objects' = DOMAIN objects,
           \A o \in DOMAIN objects :
              /\ "interface" \in DOMAIN objects'[o]
              /\ objects'[o].interface = objects[o].interface
    PROVE  ObjectsOK'
BY SameClient DEF ObjectsOK

(* An object is made.                                                      *)
LEMMA MakeStep ==
    ASSUME ClientInv, UNCHANGED clientVars, NEW r, Make(r)
    PROVE  ClientInv'
<1> DEFINE new == Object(Signature[r.op][3], r.n, r.n)
<1>1. /\ Accept(r) /\ Signature[r.op][3] # "none"
      /\ objects' = Put(objects, r.id, new)
  BY DEF Make
<1>2. r \in GoodRequests
  BY <1>1, AcceptedRequest
<1>3. r.id \in Ids /\ (Signature[r.op][3] \in Listened => Known(r.id))
  BY <1>1, <1>2 DEF GoodRequests, Known
<1>4. "interface" \in DOMAIN new /\ new.interface = Signature[r.op][3]
  BY DEF Object
<1> HIDE DEF new
<1>5. /\ DOMAIN objects' = DOMAIN objects \cup {r.id}
      /\ objects'[r.id] = new
      /\ \A o \in DOMAIN objects \ {r.id} : objects'[o] = objects[o]
  <2>1. objects' = Put(objects, r.id, new)
    BY <1>1
  <2>2. DOMAIN objects' = DOMAIN objects \cup {r.id}
    BY <2>1 DEF Put
  <2>3. objects'[r.id] = new
    BY <2>1 DEF Put
  <2>4. \A o \in DOMAIN objects \ {r.id} : objects'[o] = objects[o]
    BY <2>1 DEF Put
  <2> QED
    BY <2>2, <2>3, <2>4
<1>6. ObjectsOK'
  BY <1>3, <1>4, <1>5, SameClient DEF ClientInv, ObjectsOK
<1> QED
  BY <1>1, <1>6, Accepted

(* A configure event is acknowledged.                                      *)
LEMMA AcknowledgeStep ==
    ASSUME ClientInv, UNCHANGED clientVars, NEW r, Acknowledge(r)
    PROVE  ClientInv'
<1>1. Accept(r)
  BY DEF Acknowledge
<1>2. DOMAIN objects' = DOMAIN objects
  BY DEF Acknowledge
<1>3. \A o \in DOMAIN objects :
         /\ "interface" \in DOMAIN objects'[o]
         /\ objects'[o].interface = objects[o].interface
  BY DEF Acknowledge, ClientInv, ObjectsOK
<1> QED
  BY <1>1, <1>2, <1>3, SameInterfaces, Accepted DEF ClientInv

(* A field of an object is set.                                            *)
LEMMA SetStateStep ==
    ASSUME ClientInv, UNCHANGED clientVars, NEW r, SetState(r)
    PROVE  ClientInv'
<1>1. Accept(r)
  BY DEF SetState
<1>2. \/ objects' = [objects EXCEPT ![r.on].buffer = r.id]
      \/ objects' = [objects EXCEPT ![r.on].scale = r.n]
      \/ objects' = [objects EXCEPT ![r.on].extent = r.n]
      \/ objects' = [objects EXCEPT ![r.on].edges = r.n]
      \/ objects' = objects
  BY DEF SetState
<1>3. DOMAIN objects' = DOMAIN objects
  BY <1>2
<1>4. \A o \in DOMAIN objects :
         /\ "interface" \in DOMAIN objects'[o]
         /\ objects'[o].interface = objects[o].interface
  BY <1>2 DEF ClientInv, ObjectsOK
<1> QED
  BY <1>1, <1>3, <1>4, SameInterfaces, Accepted DEF ClientInv

(* A surface is committed.                                                 *)
LEMMA CommitStep ==
    ASSUME ClientInv, UNCHANGED clientVars, NEW r, Commit(r)
    PROVE  ClientInv'
<1>1. Accept(r)
  BY DEF Commit
<1>2. DOMAIN objects' = DOMAIN objects
  BY DEF Commit
<1>3. \A o \in DOMAIN objects :
         \/ objects'[o] = objects[o]
         \/ objects'[o] = [objects[o] EXCEPT !.committed = TRUE]
  BY DEF Commit
<1>4. \A o \in DOMAIN objects :
         /\ "interface" \in DOMAIN objects'[o]
         /\ objects'[o].interface = objects[o].interface
  BY <1>3 DEF ClientInv, ObjectsOK
<1> QED
  BY <1>1, <1>2, <1>4, SameInterfaces, Accepted DEF ClientInv

(* A request is an error.                                                  *)
LEMMA RejectStep ==
    ASSUME ClientInv, UNCHANGED clientVars, NEW r, Reject(r)
    PROVE  ClientInv'
<1>1. ObjectsOK'
  BY SameClient DEF Reject, ClientInv, ObjectsOK
<1> QED
  BY <1>1, ServerKeeps DEF Reject, ClientInv, ChannelsOK, StatusOK

(* Events go to objects whose handlers are registered. *)
LEMMA Listening ==
    ASSUME ClientInv, NEW o \in DOMAIN objects, objects[o].interface \in Listened
    PROVE  o \in Ids /\ o \in Nat /\ Known(o)
BY IdsSets DEF ClientInv, ObjectsOK, StatusOK

(* An event is sent to an object that has a handler.                       *)
LEMMA EventStep ==
    ASSUME ClientInv, UNCHANGED clientVars,
           \/ \E g \in DOMAIN MaxAnnounced : Announce(g)
           \/ \E s \in Of("wl_surface"), n \in Scales : Prefer(s, n)
           \/ \E o \in Notified : Notify(o)
    PROVE  ClientInv'
<1>1. UNCHANGED objects /\ UNCHANGED configured
  BY DEF Announce, Prefer, Notify
<1>2. ObjectsOK' /\ configured' \in Nat
  BY <1>1, SameClient DEF ClientInv, ObjectsOK, StatusOK
<1>3. CASE \E g \in DOMAIN MaxAnnounced : Announce(g)
  <2>1. PICK g \in DOMAIN MaxAnnounced, o \in Of("wl_registry") :
           Emit(Event("global", o, g))
    BY <1>3 DEF Announce
  <2>2. Event("global", o, g) \in GoodEvents
    BY Listening DEF Of, Listened, Event, GoodEvents, EventRecords
  <2> QED
    BY <1>2, <2>1, <2>2, Emitted
<1>4. CASE \E s \in Of("wl_surface"), n \in Scales : Prefer(s, n)
  <2>1. PICK s \in Of("wl_surface"), n \in Scales :
           Emit(Event("preferred_buffer_scale", s, n))
    BY <1>4 DEF Prefer
  <2>2. Event("preferred_buffer_scale", s, n) \in GoodEvents
    BY Listening DEF Of, Listened, Event, GoodEvents, EventRecords
  <2> QED
    BY <1>2, <2>1, <2>2, Emitted
<1>5. CASE \E o \in Notified : Notify(o)
  <2>1. PICK o \in Notified : \/ Emit(Event("notice", o, 0))
                              \/ Emit(Event("global", o, "wl_output"))
    BY <1>5 DEF Notify
  <2>2. /\ Event("notice", o, 0) \in GoodEvents
        /\ Event("global", o, "wl_output") \in GoodEvents
    <3>1. o \in DOMAIN objects /\ objects[o].interface \in Listened
      BY DEF Notified, Of, Listened
    <3> QED
      BY <3>1, Listening DEF Event, GoodEvents, EventRecords
  <2> QED
    BY <1>2, <2>1, <2>2, Emitted
<1> QED
  BY <1>3, <1>4, <1>5

(* A layer surface is configured.                                          *)
LEMMA ConfigureStep ==
    ASSUME ClientInv, UNCHANGED clientVars,
           NEW l \in Of("zwlr_layer_surface_v1"), Configure(l)
    PROVE  ClientInv'
<1>1. /\ configured' \in Nat /\ Emit(Event("configure", l, configured'))
      /\ objects' = [objects EXCEPT ![l].owed = @ \cup {configured'}]
  BY DEF Configure, ClientInv, StatusOK
<1>2. DOMAIN objects' = DOMAIN objects
  BY <1>1
<1>3. \A o \in DOMAIN objects :
         /\ "interface" \in DOMAIN objects'[o]
         /\ objects'[o].interface = objects[o].interface
  BY <1>1 DEF ClientInv, ObjectsOK
<1>4. ObjectsOK'
  BY <1>2, <1>3, SameInterfaces DEF ClientInv
<1>5. Event("configure", l, configured') \in GoodEvents
  BY <1>1, Listening DEF Of, Listened, Event, GoodEvents, EventRecords
<1> QED
  BY <1>1, <1>4, <1>5, Emitted

(* Every step of the compositor keeps the invariant.                       *)
LEMMA ServerStepKept ==
    ASSUME ClientInv, ServerStep
    PROVE  ClientInv'
BY MakeStep, AcknowledgeStep, SetStateStep, CommitStep, RejectStep, EventStep,
   ConfigureStep DEF ServerStep, ServerNext, Serve

-----------------------------------------------------------------------------
(* The steps of the program. *)

(* What each request makes. *)
LEMMA Makes ==
    /\ {"get_registry", "create_surface", "create_region", "create_pool",
        "create_buffer", "get_layer_surface", "bind_wl_compositor",
        "bind_wl_shm", "bind_zwlr_layer_shell_v1", "ack_configure",
        "set_size", "set_anchor", "attach", "set_buffer_scale",
        "set_input_region", "commit"} \subseteq DOMAIN Signature
    /\ Signature["get_registry"][3] = "wl_registry"
    /\ Signature["create_surface"][3] = "wl_surface"
    /\ Signature["create_region"][3] = "wl_region"
    /\ Signature["create_pool"][3] = "wl_shm_pool"
    /\ Signature["create_buffer"][3] = "wl_buffer"
    /\ Signature["get_layer_surface"][3] = "zwlr_layer_surface_v1"
    /\ Signature["bind_wl_compositor"][3] = "wl_compositor"
    /\ Signature["bind_wl_shm"][3] = "wl_shm"
    /\ Signature["bind_zwlr_layer_shell_v1"][3] = "zwlr_layer_shell_v1"
    /\ Signature["ack_configure"][3] = "none"
    /\ Signature["set_size"][3] = "none"
    /\ Signature["set_anchor"][3] = "none"
    /\ Signature["attach"][3] = "none"
    /\ Signature["set_buffer_scale"][3] = "none"
    /\ Signature["set_input_region"][3] = "none"
    /\ Signature["commit"][3] = "none"
BY DEF Signature

(* A request that makes nothing, an object that gets no events, an object  *)
(* that does.                                                              *)
LEMMA PlainRequest ==
    ASSUME NEW op \in DOMAIN Signature, Signature[op][3] = "none",
           NEW on \in Nat, NEW id \in Nat, NEW n \in Nat
    PROVE  Request(op, on, id, n) \in GoodRequests'
BY DEF Request, GoodRequests, RequestRecords, Listened

(* A request that makes an object without events.                          *)
LEMMA SilentRequest ==
    ASSUME NEW op \in DOMAIN Signature, Signature[op][3] \notin Listened,
           NEW on \in Nat, NEW id \in Nat, NEW n \in Nat, id \in Ids'
    PROVE  Request(op, on, id, n) \in GoodRequests'
BY DEF Request, GoodRequests, RequestRecords

(* A request that makes an object with a handler.                          *)
LEMMA HandledRequest ==
    ASSUME NEW op \in DOMAIN Signature,
           NEW on \in Nat, NEW id \in Nat, NEW n \in Nat, id \in Ids',
           id \in DOMAIN handlers'
    PROVE  Request(op, on, id, n) \in GoodRequests'
BY DEF Request, GoodRequests, RequestRecords

(* The event at the head has its type.                                     *)
LEMMA EventAtHead ==
    ASSUME ClientInv, NEW kind, NEW op, Dispatch(kind, op)
    PROVE  /\ Head(events) \in EventRecords /\ Head(events).op = op
           /\ Head(events).on \in Nat
           /\ events' \in Seq(GoodEvents)
<1>1. events \in Seq(GoodEvents) /\ events # <<>> /\ events' = Tail(events)
      /\ Head(events).op = op
  BY DEF ClientInv, ChannelsOK, Dispatch
<1>2. Head(events) \in GoodEvents /\ events' \in Seq(GoodEvents)
  BY <1>1, HeadTailProperties
<1>3. Head(events).on \in Nat /\ Head(events) \in EventRecords
  BY <1>2, IdsSets DEF GoodEvents, ClientInv, StatusOK
<1> QED
  BY <1>1, <1>2, <1>3

(* A step of the program keeps what it has no part in.                     *)
LEMMA ClientKeeps ==
    ASSUME ClientInv, Grows, status # "panicked", status' # "panicked",
           DisplayOK', UNCHANGED <<objects, configured>>,
           requests' \in Seq(GoodRequests'),
           events' \in Seq(GoodEvents)
    PROVE  ClientInv'
<1>1. StatusOK /\ ObjectsOK
  BY DEF ClientInv
<1>2. StatusOK'
  <2>1. next_id' \in Nat /\ next_id' >= 2
    BY <1>1 DEF Grows, StatusOK
  <2> QED
    BY <1>1, <2>1 DEF StatusOK, Grows
<1>3. ObjectsOK'
  BY <1>1, StillGood DEF ObjectsOK
<1>4. ChannelsOK'
  <2>1. events' \in Seq(GoodEvents')
    BY <1>1, StillGood, SeqMonotonic
  <2> QED
    BY <2>1 DEF ChannelsOK
<1>5. NoPanic'
  BY DEF NoPanic
<1> QED
  BY <1>2, <1>3, <1>4, <1>5 DEF ClientInv

(* Requests more.                                                          *)
LEMMA Submitted ==
    ASSUME ClientInv, Grows, NEW rs \in Seq(GoodRequests'), Submit(rs)
    PROVE  requests' \in Seq(GoodRequests')
<1>1. requests \in Seq(GoodRequests')
  BY StillGood, SeqMonotonic DEF ClientInv, ChannelsOK
<1> QED
  BY <1>1 DEF Submit

(* The program begins.                                                     *)
LEMMA RunStep ==
    ASSUME ClientInv, Run
    PROVE  ClientInv'
<1>1. /\ StatusOK /\ status = "start" /\ status' = "loop"
      /\ next_id \in Nat /\ next_id >= 2
      /\ next_id' = next_id + 1
      /\ DOMAIN handlers' = DOMAIN handlers \cup {1, next_id}
      /\ DOMAIN handlers \subseteq Ids
  BY DEF ClientInv, StatusOK, Run, Put
<1>2. next_id' \in Nat /\ next_id' >= next_id
  BY <1>1
<1>3. {1, next_id} \subseteq Ids' /\ Ids \subseteq Ids'
  BY <1>1, <1>2, IdsSets
<1>4. Grows
  BY <1>1, <1>2, <1>3 DEF Grows
<1>5. Request("get_registry", 1, next_id, 0) \in GoodRequests'
  BY <1>1, <1>3, Makes, HandledRequest
<1>6. requests' \in Seq(GoodRequests')
  <2> DEFINE rs == <<Request("get_registry", 1, next_id, 0)>>
  <2>1. rs \in Seq(GoodRequests') /\ Submit(rs)
    BY <1>5 DEF Run
  <2> HIDE DEF rs
  <2> QED
    BY <1>4, <2>1, Submitted
<1>7. DisplayOK'
  BY <1>3 DEF ClientInv, DisplayOK, Run
<1> QED
  BY <1>1, <1>4, <1>6, <1>7, ClientKeeps DEF Run, ClientInv, ChannelsOK

(* The program panics only when the connection is closed and it reads on,  *)
(* or answers.                                                             *)
LEMMA PanicStep ==
    ASSUME ClientInv, Armed, Panic
    PROVE  ClientInv'
<1>1. StatusOK /\ DisplayOK /\ ObjectsOK /\ ChannelsOK /\ status = "loop"
  BY DEF ClientInv, Panic
<1>2. fault # "none" /\ (events = <<>> \/ Answered(Head(events)))
  <2>1. CASE events # <<>>
    <3>1. Head(events) \in GoodEvents
      BY <1>1, <2>1, HeadTailProperties DEF ChannelsOK
    <3>2. ~ LoopFails
      BY <1>1, <2>1, <3>1 DEF LoopFails, GoodEvents, Known
    <3>3. HandlerFails
      BY <3>2 DEF Panic
    <3> QED
      BY <3>3 DEF HandlerFails, Armed
  <2>2. CASE events = <<>>
    BY <2>2 DEF Panic, LoopFails, HandlerFails
  <2> QED
    BY <2>1, <2>2
<1>3. Grows
  <2>1. UNCHANGED <<next_id, handlers>> /\ status' = "panicked" /\ Ids' = Ids
    BY DEF Panic, Ids
  <2> QED
    BY <1>1, <2>1 DEF Grows, StatusOK
<1>4. /\ UNCHANGED <<serverVars, next_id, handlers, display>>
      /\ status' = "panicked"
  BY DEF Panic
<1>5. StatusOK'
  BY <1>1, <1>3, <1>4 DEF StatusOK, Ids, serverVars
<1>6. ObjectsOK'
  BY <1>1, <1>3, <1>4, StillGood DEF ObjectsOK, serverVars
<1>7. ChannelsOK'
  <2>1. requests \in Seq(GoodRequests') /\ events \in Seq(GoodEvents')
    BY <1>1, <1>3, StillGood, SeqMonotonic DEF ChannelsOK
  <2> QED
    BY <1>4, <2>1 DEF ChannelsOK, serverVars
<1>8. DisplayOK'
  BY <1>1, <1>4 DEF DisplayOK, Ids
<1>9. NoPanic'
  <2>1. events' = events /\ fault' = fault
    BY <1>4 DEF serverVars
  <2> QED
    BY <1>2, <2>1 DEF NoPanic, Answered
<1> QED
  BY <1>5, <1>6, <1>7, <1>8, <1>9 DEF ClientInv

(* A handler that sends nothing and takes no id. *)
LEMMA QuietStep ==
    ASSUME ClientInv, NEW kind, NEW op, Dispatch(kind, op), DisplayOK',
           UNCHANGED <<requests, next_id, handlers>>
    PROVE  ClientInv'
<1>1. StatusOK /\ status = "loop" /\ status' = status
      /\ UNCHANGED <<objects, configured>>
  BY DEF ClientInv, Dispatch
<1>2. Grows
  BY <1>1 DEF Grows, StatusOK, Ids
<1>3. requests' \in Seq(GoodRequests')
  BY <1>1, <1>2, StillGood, SeqMonotonic DEF ClientInv, ChannelsOK
<1>4. events' \in Seq(GoodEvents)
  BY EventAtHead
<1> QED
  BY <1>1, <1>2, <1>3, <1>4, ClientKeeps

(* The preferred scale is taken over.                                      *)
LEMMA PreferredScaleStep ==
    ASSUME ClientInv, HandlePreferredScale
    PROVE  ClientInv'
<1>1. Dispatch("surface", "preferred_buffer_scale")
      /\ display' = [display EXCEPT !.preferred_scale = Head(events).arg]
      /\ UNCHANGED <<requests, next_id, handlers>>
  BY DEF HandlePreferredScale
<1>2. Head(events).arg \in Scales
  BY <1>1, EventAtHead DEF EventRecords
<1>3. DisplayOK /\ Ids' = Ids
  BY <1>1 DEF ClientInv, Ids
<1>4. DOMAIN display = Fields /\ DOMAIN display' = Fields
  BY <1>1, <1>3 DEF DisplayOK
<1>5. /\ display'["preferred_scale"] \in Scales
      /\ \A f \in Fields \ {"preferred_scale"} : display'[f] = display[f]
  BY <1>1, <1>2, <1>4 DEF Fields
<1>6. DisplayOK'
  BY <1>3, <1>4, <1>5 DEF DisplayOK, Fields, Wanted
<1> QED
  BY <1>1, <1>6, QuietStep

(* An event is logged.                                                     *)
LEMMA NoticeStep ==
    ASSUME ClientInv, HandleNotice
    PROVE  ClientInv'
<1>1. PICK kind : Dispatch(kind, "notice")
  BY DEF HandleNotice
<1>2. UNCHANGED <<requests, next_id, handlers, display>>
  BY DEF HandleNotice
<1>3. DisplayOK'
  BY <1>2 DEF ClientInv, DisplayOK, Ids
<1> QED
  BY <1>1, <1>2, <1>3, QuietStep

(* A configure event is answered.                                          *)
LEMMA ConfigureHandled ==
    ASSUME ClientInv, HandleConfigure
    PROVE  ClientInv'
<1> DEFINE region == next_id
           pool == next_id + 1
           buffer == next_id + 2
           scale == display.preferred_scale
           size == RoundedUp(TextSize[scale], scale)
           serial == Head(events).arg
           rs == <<Request("ack_configure", display.layer_surface, 0, serial),
                   Request("set_size", display.layer_surface, 0, size \div scale),
                   Request("set_anchor", display.layer_surface, 0, BottomRight),
                   Request("create_region", display.wl_compositor, region, 0),
                   Request("create_pool", display.wl_shm, pool, size),
                   Request("create_buffer", pool, buffer, size),
                   Request("attach", display.surface, buffer, 0),
                   Request("set_buffer_scale", display.surface, 0, scale),
                   Request("set_input_region", display.surface, region, 0),
                   Request("commit", display.surface, 0, 0)>>
<1>1. /\ StatusOK /\ DisplayOK /\ status = "loop" /\ status' = status
      /\ Dispatch("layer_surface", "configure")
      /\ UNCHANGED <<objects, configured, display>>
      /\ next_id' = next_id + 3 /\ next_id \in Nat
      /\ DOMAIN handlers' = DOMAIN handlers \cup {buffer}
      /\ DOMAIN handlers \subseteq Ids
  BY DEF ClientInv, HandleConfigure, Dispatch, BufferHandler, Put, StatusOK
<1>2. Submit(rs)
  BY DEF HandleConfigure
<1>3. /\ region \in Nat /\ pool \in Nat /\ buffer \in Nat
      /\ next_id' \in Nat /\ next_id' >= next_id
  BY <1>1
<1>4. {region, pool, buffer} \subseteq Ids' /\ Ids \subseteq Ids'
  BY <1>1, <1>3, IdsSets DEF StatusOK
<1>5. Grows
  BY <1>1, <1>3, <1>4 DEF Grows, StatusOK
<1>6. /\ display.layer_surface \in Nat /\ display.wl_compositor \in Nat
      /\ display.wl_shm \in Nat /\ display.surface \in Nat
  BY <1>1, IdsSets DEF DisplayOK, Fields, Wanted
<1>7. scale \in Nat \ {0} /\ TextSize[scale] \in Nat
  <2>1. scale \in Scales \cup {1}
    BY <1>1 DEF DisplayOK
  <2> HIDE DEF scale
  <2>2. scale \in Nat \ {0}
    BY <2>1, ServerAssumption
  <2>3. TextSize[scale] \in Nat
    BY <2>1, TextAssumption
  <2> QED
    BY <2>2, <2>3
<1>8. serial \in Nat
  BY <1>1, EventAtHead DEF EventRecords
<1>9. size \in Nat /\ size \div scale \in Nat
  BY <1>7, RoundedUpFits
<1>10. buffer \in DOMAIN handlers'
  BY <1>1
<1> HIDE DEF region, pool, buffer, scale, size, serial
<1>11. rs \in Seq(GoodRequests')
  <2>1. /\ Request("ack_configure", display.layer_surface, 0, serial)
             \in GoodRequests'
        /\ Request("set_size", display.layer_surface, 0, size \div scale)
             \in GoodRequests'
        /\ Request("set_anchor", display.layer_surface, 0, BottomRight)
             \in GoodRequests'
        /\ Request("attach", display.surface, buffer, 0) \in GoodRequests'
        /\ Request("set_buffer_scale", display.surface, 0, scale)
             \in GoodRequests'
        /\ Request("set_input_region", display.surface, region, 0)
             \in GoodRequests'
        /\ Request("commit", display.surface, 0, 0) \in GoodRequests'
    BY <1>3, <1>6, <1>7, <1>8, <1>9, Makes, PlainRequest DEF BottomRight
  <2>2. /\ Request("create_region", display.wl_compositor, region, 0)
             \in GoodRequests'
        /\ Request("create_pool", display.wl_shm, pool, size)
             \in GoodRequests'
    BY <1>3, <1>4, <1>6, <1>9, Makes, SilentRequest DEF Listened
  <2>3. Request("create_buffer", pool, buffer, size) \in GoodRequests'
    BY <1>3, <1>4, <1>9, <1>10, Makes, HandledRequest
  <2> QED
    BY <2>1, <2>2, <2>3
<1>12. requests' \in Seq(GoodRequests')
  <2> HIDE DEF rs
  <2> QED
    BY <1>2, <1>5, <1>11, Submitted
<1>13. DisplayOK'
  BY <1>1, <1>4 DEF DisplayOK
<1>14. events' \in Seq(GoodEvents)
  BY <1>1, EventAtHead
<1> QED
  BY <1>1, <1>5, <1>12, <1>13, <1>14, ClientKeeps

(* A global is bound, and the surface is set up if it is the last.         *)
LEMMA GlobalStep ==
    ASSUME ClientInv, NEW g \in Wanted, Dispatch("registry", "global"), Global(g)
    PROVE  ClientInv'
<1> DEFINE bound == [display EXCEPT ![g] = next_id]
           on == Head(events).on
           bind == Request(Binding[g], on, next_id, 0)
           known == IF g = "wl_shm" THEN Put(handlers, next_id, "shm")
                                    ELSE handlers
           surface == next_id + 1
           layer == next_id + 2
           d == [bound EXCEPT !.surface = surface, !.layer_surface = layer]
<1>1. /\ StatusOK /\ DisplayOK /\ status = "loop" /\ status' = status
      /\ UNCHANGED <<objects, configured>>
      /\ next_id \in Nat /\ DOMAIN handlers \subseteq Ids
  BY DEF ClientInv, Dispatch, StatusOK
<1>2. on \in Nat /\ events' \in Seq(GoodEvents)
  BY EventAtHead
<1>3. /\ DOMAIN bound = Fields /\ bound[g] = next_id
      /\ \A f \in Fields \ {g} : bound[f] = display[f]
  BY <1>1 DEF DisplayOK, Fields, Wanted
<1>4. /\ DOMAIN known = DOMAIN handlers \cup
                          (IF g = "wl_shm" THEN {next_id} ELSE {})
  BY DEF Put
<1>5. /\ Binding[g] \in DOMAIN Signature
      /\ Signature[Binding[g]][3] = g
      /\ g \in Listened => g = "wl_shm"
  BY Makes DEF Binding, Wanted, Listened
<1> HIDE DEF on, known
<1>6. CASE /\ ~ Complete(bound)
           /\ display' = bound
           /\ handlers' = known
           /\ next_id' = next_id + 1
           /\ Submit(<<bind>>)
  <2>1. next_id' \in Nat /\ next_id' >= next_id
    BY <1>1, <1>6
  <2>2. next_id \in Ids' /\ Ids \subseteq Ids'
    BY <1>1, <1>6, <2>1, IdsSets DEF StatusOK
  <2>3. Grows
    BY <1>1, <1>4, <1>6, <2>1, <2>2 DEF Grows, StatusOK
  <2>4. bind \in GoodRequests'
    <3>1. CASE g = "wl_shm"
      BY <1>1, <1>2, <1>4, <1>5, <1>6, <2>2, <3>1, HandledRequest
    <3>2. CASE g # "wl_shm"
      BY <1>1, <1>2, <1>5, <2>2, <3>2, SilentRequest
    <3> QED
      BY <3>1, <3>2
  <2>5. requests' \in Seq(GoodRequests')
    <3> HIDE DEF bind
    <3> DEFINE rs == <<bind>>
    <3>1. rs \in Seq(GoodRequests') /\ Submit(rs)
      BY <1>6, <2>4
    <3> HIDE DEF rs
    <3> QED
      BY <2>3, <3>1, Submitted
  <2>6. DisplayOK'
    <3>1. display'.layer_surface = 0 \/ \A h \in Wanted : display'[h] # 0
      BY <1>1, <1>3, <1>6 DEF DisplayOK, Fields, Wanted, StatusOK
    <3> QED
      BY <1>1, <1>3, <1>6, <2>2, <3>1 DEF DisplayOK, Fields, Wanted
  <2> QED
    BY <1>1, <1>2, <2>3, <2>5, <2>6, ClientKeeps
<1>7. CASE /\ Complete(bound)
           /\ display' = d
           /\ handlers' = Put(Put(known, d.surface, "surface"),
                              d.layer_surface, "layer_surface")
           /\ next_id' = next_id + 3
           /\ Submit(<<bind>> \o Rigmarole(d))
  <2>1. /\ next_id' \in Nat /\ next_id' >= next_id
        /\ surface \in Nat /\ layer \in Nat
        /\ next_id < next_id' /\ surface < next_id' /\ layer < next_id'
        /\ surface # 0 /\ layer # 0
    <3>1. next_id' = next_id + 3 /\ next_id \in Nat
      BY <1>1, <1>7
    <3> QED
      BY <3>1
  <2> HIDE DEF surface, layer, bound
  <2>2. {next_id, surface, layer} \subseteq Ids' /\ Ids \subseteq Ids'
    <3>1. next_id \in Nat /\ next_id >= 2
      BY <1>1 DEF StatusOK
    <3> QED
      BY <2>1, <3>1, IdsSets
  <2>3. /\ DOMAIN d = Fields /\ d["surface"] = surface
        /\ d["layer_surface"] = layer
        /\ \A f \in Fields \ {"surface", "layer_surface"} : d[f] = bound[f]
    BY <1>3 DEF Fields
  <2> HIDE DEF d
  <2>4. DOMAIN handlers' = DOMAIN known \cup {surface, layer}
    BY <1>7, <2>3 DEF Put
  <2>5. Grows
    BY <1>1, <1>4, <1>7, <2>1, <2>2, <2>4 DEF Grows, StatusOK
  <2>6. bind \in GoodRequests'
    <3>1. CASE g = "wl_shm"
      BY <1>1, <1>2, <1>4, <1>5, <2>2, <2>4, <3>1, HandledRequest
    <3>2. CASE g # "wl_shm"
      BY <1>1, <1>2, <1>5, <2>2, <3>2, SilentRequest
    <3> QED
      BY <3>1, <3>2
  <2>7. \A h \in Wanted : d[h] \in Nat /\ d[h] # 0 /\ d[h] \in Ids'
    BY <1>1, <1>3, <1>7, <2>2, <2>3, IdsSets
       DEF Complete, DisplayOK, Fields, Wanted
  <2>8. Rigmarole(d) \in Seq(GoodRequests')
    <3>1. d.wl_compositor \in Nat /\ d.zwlr_layer_shell_v1 \in Nat
      BY <2>7 DEF Wanted
    <3>2. Request("create_surface", d.wl_compositor, d.surface, 0)
            \in GoodRequests'
      BY <2>1, <2>2, <2>3, <2>4, <3>1, Makes, HandledRequest
    <3>3. Request("get_layer_surface", d.zwlr_layer_shell_v1, d.layer_surface,
                  d.surface) \in GoodRequests'
      BY <2>1, <2>2, <2>3, <2>4, <3>1, Makes, HandledRequest
    <3>4. Request("commit", d.surface, 0, 0) \in GoodRequests'
      BY <2>1, <2>3, Makes, PlainRequest
    <3> QED
      BY <3>2, <3>3, <3>4 DEF Rigmarole
  <2>9. requests' \in Seq(GoodRequests')
    <3> HIDE DEF bind
    <3> DEFINE rs == <<bind>> \o Rigmarole(d)
    <3>1. <<bind>> \in Seq(GoodRequests')
      BY <2>6
    <3>2. rs \in Seq(GoodRequests') /\ Submit(rs)
      BY <1>7, <2>8, <3>1
    <3> HIDE DEF rs
    <3> QED
      BY <2>5, <3>2, Submitted
  <2>10. DisplayOK'
    <3>1. \A f \in Fields \ {"preferred_scale"} : d[f] \in Ids' \cup {0}
      BY <1>1, <1>3, <2>2, <2>3 DEF DisplayOK, Fields, Wanted
    <3>2. d.preferred_scale \in Scales \cup {1}
      BY <1>1, <1>3, <2>3 DEF DisplayOK, Fields, Wanted
    <3> QED
      BY <1>7, <2>3, <2>7, <3>1, <3>2 DEF DisplayOK
  <2> QED
    BY <1>1, <1>2, <2>5, <2>9, <2>10, ClientKeeps
<1> QED
  BY <1>6, <1>7 DEF Global, bound, on, bind, known, d, surface, layer

(* The handler of the registry.                                            *)
LEMMA GlobalHandled ==
    ASSUME ClientInv, HandleGlobal
    PROVE  ClientInv'
<1>1. Dispatch("registry", "global")
  BY DEF HandleGlobal
<1>2. CASE Head(events).arg \in Wanted /\ Global(Head(events).arg)
  BY <1>1, <1>2, GlobalStep
<1>3. CASE UNCHANGED <<requests, next_id, handlers, display>>
  <2>1. DisplayOK'
    BY <1>3 DEF ClientInv, DisplayOK, Ids
  <2> QED
    BY <1>1, <1>3, <2>1, QuietStep
<1> QED
  BY <1>2, <1>3 DEF HandleGlobal

(* A layer surface gets its handler when all the rest is there.            *)
LEMMA ArmedByGlobal ==
    ASSUME ClientInv, Armed, NEW g \in Wanted,
           Dispatch("registry", "global"), Global(g)
    PROVE  Armed'
<1> DEFINE bound == [display EXCEPT ![g] = next_id]
           known == IF g = "wl_shm" THEN Put(handlers, next_id, "shm")
                                    ELSE handlers
           d == [bound EXCEPT !.surface = next_id + 1, !.layer_surface = next_id + 2]
<1>1. /\ DOMAIN display = Fields /\ next_id \in Nat /\ next_id >= 2
  BY DEF ClientInv, DisplayOK, StatusOK
<1>2. /\ DOMAIN bound = Fields /\ bound[g] = next_id
      /\ \A f \in Fields \ {g} : bound[f] = display[f]
  BY <1>1 DEF Fields, Wanted
<1>3. \A f \in Fields : display[f] # 0 => bound[f] # 0
  BY <1>1, <1>2
<1>4. \A o \in DOMAIN known : known[o] = "layer_surface" =>
         o \in DOMAIN handlers /\ handlers[o] = "layer_surface"
  BY DEF Put
<1>5. CASE ~ Complete(bound) /\ display' = bound /\ handlers' = known
  <2>1. ASSUME NEW o \in DOMAIN handlers', handlers'[o] = "layer_surface"
        PROVE  ~ UnwrapFails'
    <3>1. ~ UnwrapFails
      BY <1>4, <1>5, <2>1 DEF Armed
    <3> HIDE DEF bound
    <3> QED
      BY <1>3, <1>5, <3>1 DEF UnwrapFails, Fields, Wanted
  <2> QED
    BY <2>1 DEF Armed
<1>6. CASE Complete(bound) /\ display' = d
  <2>1. /\ d.surface = next_id + 1 /\ d.layer_surface = next_id + 2
        /\ \A w \in Wanted : d[w] = bound[w]
    BY <1>2 DEF Fields, Wanted
  <2> HIDE DEF d, bound
  <2>3. \A w \in Wanted : bound[w] # 0
    BY <1>6 DEF Complete
  <2>4. next_id + 1 # 0 /\ next_id + 2 # 0
    BY <1>1
  <2>2. d.surface # 0 /\ d.layer_surface # 0 /\ \A w \in Wanted : d[w] # 0
    BY <2>1, <2>3, <2>4
  <2>5. ~ UnwrapFails'
    BY <1>6, <2>2 DEF UnwrapFails, Wanted
  <2> QED
    BY <2>5 DEF Armed
<1> QED
  BY <1>5, <1>6 DEF Global, bound, known, d

LEMMA ArmedStill ==
    ASSUME Armed, UNCHANGED <<handlers, display>>
    PROVE  Armed'
BY DEF Armed, UnwrapFails

LEMMA ArmedKept == ClientInv /\ Armed /\ [Next]_vars => Armed'
<1> SUFFICES ASSUME ClientInv, Armed, [Next]_vars PROVE Armed'
  OBVIOUS
<1>1. CASE UNCHANGED clientVars
  BY <1>1, ArmedStill DEF clientVars
<1>2. CASE Run
  <2>1. DOMAIN handlers = {}
    BY <1>2 DEF ClientInv, StatusOK, Run
  <2>2. \A o \in DOMAIN handlers' : handlers'[o] \in {"display", "registry"}
    BY <1>2, <2>1 DEF Run, Put
  <2> QED
    BY <2>2 DEF Armed
<1>3. CASE Panic
  BY <1>3, ArmedStill DEF Panic
<1>4. CASE HandleGlobal
  <2>1. CASE Head(events).arg \in Wanted /\ Global(Head(events).arg)
    BY <1>4, <2>1, ArmedByGlobal DEF HandleGlobal
  <2>2. CASE UNCHANGED <<handlers, display>>
    BY <2>2, ArmedStill
  <2> QED
    BY <1>4, <2>1, <2>2 DEF HandleGlobal
<1>5. CASE HandlePreferredScale
  <2>1. handlers' = handlers /\ DOMAIN display = Fields
    BY <1>5 DEF HandlePreferredScale, ClientInv, DisplayOK
  <2>2. UnwrapFails' <=> UnwrapFails
    BY <1>5, <2>1 DEF HandlePreferredScale, UnwrapFails, Fields, Wanted
  <2> QED
    BY <2>1, <2>2 DEF Armed
<1>6. CASE HandleConfigure
  <2>1. ~ UnwrapFails /\ display' = display
    BY <1>6 DEF HandleConfigure
  <2> QED
    BY <2>1 DEF Armed, UnwrapFails
<1>7. CASE HandleNotice
  BY <1>7, ArmedStill DEF HandleNotice
<1> QED
  BY <1>1, <1>2, <1>3, <1>4, <1>5, <1>6, <1>7
     DEF Next, ClientNext, ServerStep, vars

(* Every step keeps the invariant.                                         *)
LEMMA ClientInvKept == ClientInv /\ Armed /\ [Next]_vars => ClientInv'
<1> SUFFICES ASSUME ClientInv, Armed, [Next]_vars PROVE ClientInv'
  OBVIOUS
<1>1. CASE UNCHANGED vars
  <2>1. UNCHANGED clientVars /\ UNCHANGED serverVars
    BY <1>1 DEF vars
  <2>2. ObjectsOK' /\ StatusOK' /\ ChannelsOK' /\ DisplayOK' /\ NoPanic'
    BY <2>1, SameClient DEF ClientInv, ObjectsOK, StatusOK, ChannelsOK, NoPanic,
                            Answered, clientVars, serverVars
  <2> QED
    BY <2>2 DEF ClientInv
<1>2. CASE ClientNext
  BY <1>2, RunStep, PanicStep, GlobalHandled, PreferredScaleStep,
     ConfigureHandled, NoticeStep DEF ClientNext
<1>3. CASE ServerStep
  BY <1>3, ServerStepKept
<1> QED
  BY <1>1, <1>2, <1>3 DEF Next

(* The invariant holds at first.                                           *)
LEMMA ClientInvInitially == Init => ClientInv
<1> SUFFICES ASSUME Init PROVE ClientInv
  OBVIOUS
<1>1. next_id = 2 /\ Ids = {1} /\ handlers = <<>> /\ DOMAIN handlers = {}
  BY DEF Init, Ids
<1>2. StatusOK
  BY <1>1 DEF Init, ServerInit, StatusOK
<1>3. DisplayOK
  BY DEF Init, DisplayOK, Fields, Wanted
<1>4. ObjectsOK
  BY <1>1 DEF Init, ServerInit, ObjectsOK, Object, Known
<1>5. ChannelsOK /\ NoPanic
  BY DEF Init, ServerInit, ChannelsOK, NoPanic
<1> QED
  BY <1>2, <1>3, <1>4, <1>5 DEF ClientInv

(* And so it always does.                                                  *)
LEMMA ClientInvAlways == Spec => []ClientInv
<1>1. Init => Armed
  BY DEF Init, Armed
<1> QED
  BY <1>1, ClientInvInitially, ClientInvKept, ArmedKept, PTL DEF Spec

(* Types; every id in use, in DISPLAY_STATE, with a handler or at the      *)
(* compositor, was taken from the connection, and there is no layer        *)
(* surface before all three globals are bound.                             *)
THEOREM ClientTypeCorrect == Spec => []TypeOK
<1>1. ClientInv => TypeOK
  BY DEF ClientInv, TypeOK, StatusOK, DisplayOK, ObjectsOK, Fields
<1> QED
  BY <1>1, ClientInvAlways, PTL

(* Every event finds its handler, however often globals are announced and  *)
(* scales change: the handler of an object is registered before the        *)
(* program reads another event, and that of a layer surface when all that  *)
(* it unwraps is there.  So the program panics only after the compositor   *)
(* has closed the connection, with no event left or at one that it answers. *)
THEOREM ClientNeverPanics == Spec => []NoPanic
<1>1. ClientInv => NoPanic
  BY DEF ClientInv
<1> QED
  BY <1>1, ClientInvAlways, PTL

-----------------------------------------------------------------------------
(***************************************************************************)
(* The program asks long before the compositor serves: a request is judged *)
(* by the objects there are when its turn comes.  So the invariant has the *)
(* objects that each of the requests on their way will find, from those of *)
(* the compositor now to those the program takes for made (Sound), and, in *)
(* the same way, what the program will have heard after each of the events *)
(* on their way, from what it has answered now to what the compositor has  *)
(* said (Told).  Each request is fine where it will be served.             *)
(***************************************************************************)

(* What the compositor will know of the objects as it serves the requests. *)
Kinds == {"none"} \cup {Signature[op][i] : op \in DOMAIN Signature, i \in 1 .. 3}

Things == [interface : Kinds, of : Nat, size : Nat, buffer : Nat, scale : Nat,
           acked : Nat, committed : BOOLEAN, extent : Nat, edges : Nat]

Thing(interface, of, size) ==
    [interface |-> interface, of |-> of, size |-> size, buffer |-> 0,
     scale |-> 1, acked |-> 0, committed |-> FALSE, extent |-> 0, edges |-> 0]

View(objs) ==
    [o \in DOMAIN objs |->
       [interface |-> objs[o].interface, of |-> objs[o].of,
        size |-> objs[o].size, buffer |-> objs[o].buffer,
        scale |-> objs[o].scale, acked |-> objs[o].acked,
        committed |-> objs[o].committed, extent |-> objs[o].extent,
        edges |-> objs[o].edges]]

State(s) == \E m \in Nat : s \in [1 .. m -> Things]

Named(s, o, interface) == o \in DOMAIN s /\ s[o].interface = interface

LayersOf(s, o) ==
    {l \in DOMAIN s : s[l].interface = "zwlr_layer_surface_v1" /\ s[l].of = o}

(* A request that is no error, if it comes when the objects are s; the     *)
(* configure events so far had the scales sat.                             *)
FineTarget(r, s) ==
    /\ Named(s, r.on, Signature[r.op][1])
    /\ Signature[r.op][2] # "none" => Named(s, r.id, Signature[r.op][2])

FineNew(r, s) ==
    Signature[r.op][3] # "none" => DOMAIN s = 1 .. r.id - 1 /\ r.id \in Nat \ {0}

FineLayer(r, s) ==
    r.op = "get_layer_surface" =>
       Named(s, r.n, "wl_surface") /\ s[r.n].buffer = 0 /\ LayersOf(s, r.n) = {}

FineAck(r, s, sat) ==
    r.op = "ack_configure" => r.n = s[r.on].acked + 1 /\ r.n \in DOMAIN sat

FineBuffer(r, s) == r.op = "create_buffer" => r.n <= s[r.on].size

FineAnchor(r) == r.op = "set_anchor" => ~ (r.n > AllEdges)

(* The surface is committed without a picture once, before all else. *)
FineFirst(r, s) ==
    r.op = "commit" /\ s[r.on].buffer = 0 =>
       \A l \in LayersOf(s, r.on) : s[l].committed = FALSE

FineCommit(r, s, sat) ==
    r.op = "commit" /\ s[r.on].buffer # 0 =>
       /\ LayersOf(s, r.on) # {}
       /\ \A l \in LayersOf(s, r.on) :
             /\ s[l].acked # 0 /\ s[l].acked \in DOMAIN sat
             /\ sat[s[l].acked] = s[r.on].scale
             /\ s[l].extent # 0
       /\ s[r.on].buffer \in DOMAIN s
       /\ s[s[r.on].buffer].size % s[r.on].scale = 0

Fine(r, s, sat) ==
    /\ FineTarget(r, s) /\ FineNew(r, s) /\ FineLayer(r, s)
    /\ FineAck(r, s, sat) /\ FineBuffer(r, s) /\ FineCommit(r, s, sat)
    /\ FineAnchor(r) /\ FineFirst(r, s)

(* The objects after it. *)
WithAcked(s, o, v) == [s EXCEPT ![o].acked = v]
WithBuffer(s, o, v) == [s EXCEPT ![o].buffer = v]
WithScale(s, o, v) == [s EXCEPT ![o].scale = v]
WithExtent(s, o, v) == [s EXCEPT ![o].extent = v]
WithEdges(s, o, v) == [s EXCEPT ![o].edges = v]
AsCommitted(t) ==
    [interface |-> t.interface, of |-> t.of, size |-> t.size,
     buffer |-> t.buffer, scale |-> t.scale, acked |-> t.acked,
     committed |-> TRUE, extent |-> t.extent, edges |-> t.edges]
WithCommitted(s, o) ==
    [l \in DOMAIN s |-> IF l \in LayersOf(s, o) THEN AsCommitted(s[l]) ELSE s[l]]

After(r, s) ==
    IF Signature[r.op][3] # "none"
    THEN Put(s, r.id, Thing(Signature[r.op][3], r.n, r.n))
    ELSE IF r.op = "ack_configure" THEN WithAcked(s, r.on, r.n)
    ELSE IF r.op = "attach" THEN WithBuffer(s, r.on, r.id)
    ELSE IF r.op = "set_buffer_scale" THEN WithScale(s, r.on, r.n)
    ELSE IF r.op = "set_size" THEN WithExtent(s, r.on, r.n)
    ELSE IF r.op = "set_anchor" THEN WithEdges(s, r.on, r.n)
    ELSE IF r.op = "commit" THEN WithCommitted(s, r.on)
    ELSE s

(* There is one layer surface at most, and the registry has the second id. *)
Lone(s, ls) ==
    /\ State(s)
    /\ \A o \in DOMAIN s :
          /\ s[o].interface = "zwlr_layer_surface_v1" => o = ls
          /\ s[o].interface = "wl_registry" => o = 2

(* The first n of the requests rs lead from the objects `from` to the      *)
(* objects `to`.                                                           *)
SoundBy(st, rs, n, from, to, sat, ls) ==
    /\ st[1] = from /\ st[n + 1] = to
    /\ \A i \in 1 .. n + 1 : Lone(st[i], ls)
    /\ \A i \in 1 .. n : Fine(rs[i], st[i], sat) /\ st[i + 1] = After(rs[i], st[i])

SoundUpTo(rs, n, from, to, sat, ls) == \E st : SoundBy(st, rs, n, from, to, sat, ls)

Sound(rs, from, to, sat, ls) == SoundUpTo(rs, Len(rs), from, to, sat, ls)

(* What the program will find when all it asked for is done: the objects   *)
(* are what it takes them for.                                             *)
Arranged(s, d, n) ==
    /\ DOMAIN s = 1 .. n - 1
    /\ Named(s, 1, "wl_display")
    /\ n > 2 => Named(s, 2, "wl_registry")
    /\ \A g \in Wanted : d[g] # 0 => Named(s, d[g], g)
    /\ d.layer_surface # 0 =>
          /\ Named(s, d.surface, "wl_surface")
          /\ Named(s, d.layer_surface, "zwlr_layer_surface_v1")
          /\ s[d.layer_surface].of = d.surface

-----------------------------------------------------------------------------
(* The events on their way count configure events and change the scale.    *)
Tells(e, a, b, sat) ==
    /\ e.op = "configure" =>
          /\ e.arg = a.serial + 1 /\ e.arg \in DOMAIN sat
          /\ sat[e.arg] = a.scale
          /\ b = [serial |-> e.arg, scale |-> a.scale]
    /\ e.op = "preferred_buffer_scale" =>
          b = [serial |-> a.serial, scale |-> e.arg]
    /\ e.op \notin {"configure", "preferred_buffer_scale"} => b = a

News == [serial : Nat, scale : Nat]

ToldBy(c, evs, from, to, sat) ==
    /\ c[1] = from /\ c[Len(evs) + 1] = to
    /\ \A i \in 1 .. Len(evs) + 1 : c[i] \in News
    /\ \A i \in 1 .. Len(evs) : Tells(evs[i], c[i], c[i + 1], sat)

Told(evs, from, to, sat) == \E c : ToldBy(c, evs, from, to, sat)

(* What the program has heard and answered, and what was said. *)
Heard(s, d) ==
    [serial |-> IF d.layer_surface = 0 THEN 0 ELSE s[d.layer_surface].acked,
     scale |-> d.preferred_scale]

Said == [serial |-> configured, scale |-> preferred[Len(preferred)]]

(* A global on its way is not bound yet, and is not announced twice.       *)
GlobalsNew(evs, ann, d) ==
    /\ \A i \in 1 .. Len(evs) : evs[i].op = "global" =>
          /\ evs[i].on = 2
          /\ evs[i].arg \in Wanted => ann[evs[i].arg] >= 1 /\ d[evs[i].arg] = 0
    /\ \A i, j \in 1 .. Len(evs) :
          (/\ evs[i].op = "global" /\ evs[j].op = "global"
           /\ evs[i].arg \in Wanted /\ evs[j].arg = evs[i].arg) => i = j
    /\ \A g \in Wanted : d[g] # 0 => ann[g] >= 1

ObjectRecords ==
    [interface : Kinds, of : Nat, size : Nat, buffer : Nat, scale : Nat,
     owed : SUBSET Nat, acked : Nat, committed : BOOLEAN, extent : Nat,
     edges : Nat]

(* Only a layer surface is configured, and what it has still to            *)
(* acknowledge is what was configured since.                               *)
OwedIs(objs, n) ==
    /\ \E m \in Nat : objs \in [1 .. m -> ObjectRecords]
    /\ n # 0 => \E l \in DOMAIN objs :
                  /\ objs[l].interface = "zwlr_layer_surface_v1"
                  /\ objs[l].committed = TRUE
    /\ \A l \in DOMAIN objs :
          objs[l].interface = "zwlr_layer_surface_v1" =>
             objs[l].owed = objs[l].acked + 1 .. n /\ objs[l].acked <= n

ShownIs(sh, sat) ==
    sh # Nothing => sh.serial \in DOMAIN sat /\ sh.scale = sat[sh.serial]

ServerTypes ==
    /\ announced \in [DOMAIN MaxAnnounced -> Nat]
    /\ preferred \in Seq(Nat) /\ preferred # <<>>
    /\ configured \in Nat
    /\ scale_at \in Seq(Nat) /\ Len(scale_at) = configured
    /\ status = "start" <=> next_id = 2

Harmony(to) ==
    /\ Sound(requests, View(objects), to, scale_at, display.layer_surface)
    /\ Arranged(to, display, next_id)
    /\ Told(events, Heard(to, display), Said, scale_at)

(* Nothing but the first commit has been found wrong.                      *)
Faultless == fault # "none" => fault = "unsized" /\ configured = 0

Agreement ==
    /\ Faultless
    /\ \E to : Harmony(to)
    /\ GlobalsNew(events, announced, display)
    /\ OwedIs(objects, configured)
    /\ ShownIs(shown, scale_at)

AgreementInv == AnnouncedOnce => Agreement

-----------------------------------------------------------------------------
(* The first request is served. *)
LEMMA SoundHead ==
    ASSUME NEW rs, Len(rs) \in Nat, Len(rs) # 0, NEW rest,
           Len(rest) = Len(rs) - 1,
           \A i \in 1 .. Len(rest) : rest[i] = rs[i + 1],
           NEW from, NEW to, NEW sat, NEW ls, Sound(rs, from, to, sat, ls)
    PROVE  /\ Fine(rs[1], from, sat) /\ Lone(from, ls)
           /\ Lone(After(rs[1], from), ls)
           /\ Sound(rest, After(rs[1], from), to, sat, ls)
<1>1. PICK st : SoundBy(st, rs, Len(rs), from, to, sat, ls)
  BY DEF Sound, SoundUpTo
<1> DEFINE n == Len(rest)
           st2 == [i \in 1 .. n + 1 |-> st[i + 1]]
<1>2. n \in Nat /\ Len(rs) = n + 1
  OBVIOUS
<1>3. /\ st[1] = from /\ st[(n + 1) + 1] = to
      /\ \A i \in 1 .. (n + 1) + 1 : Lone(st[i], ls)
      /\ \A i \in 1 .. n + 1 :
            Fine(rs[i], st[i], sat) /\ st[i + 1] = After(rs[i], st[i])
  BY <1>1, <1>2, Zenon DEF SoundBy
<1>4. 1 \in 1 .. n + 1 /\ 1 \in 1 .. (n + 1) + 1 /\ 1 + 1 \in 1 .. (n + 1) + 1
  BY <1>2
<1>5. /\ Fine(rs[1], from, sat) /\ Lone(from, ls)
      /\ st[1 + 1] = After(rs[1], from) /\ Lone(st[1 + 1], ls)
  BY <1>3, <1>4, Zenon
<1> HIDE DEF n
<1>6. \A i \in 1 .. n + 1 : st2[i] = st[i + 1]
  OBVIOUS
<1>7. st2[1] = After(rs[1], from) /\ st2[n + 1] = to
  <2>1. n + 1 \in 1 .. n + 1
    BY <1>2
  <2> QED
    BY <1>3, <1>4, <1>5, <1>6, <2>1, Zenon
<1> HIDE DEF st2
<1>8. ASSUME NEW i \in 1 .. n + 1 PROVE Lone(st2[i], ls)
  <2>1. i + 1 \in 1 .. (n + 1) + 1
    BY <1>2
  <2> QED
    BY <1>3, <1>6, <2>1, Zenon
<1>9. ASSUME NEW i \in 1 .. n
      PROVE  Fine(rest[i], st2[i], sat) /\ st2[i + 1] = After(rest[i], st2[i])
  <2>1. i + 1 \in 1 .. n + 1 /\ i \in 1 .. n + 1
    BY <1>2
  <2>2. rest[i] = rs[i + 1] /\ st2[i] = st[i + 1] /\ st2[i + 1] = st[(i + 1) + 1]
    BY <1>6, <2>1, Zenon DEF n
  <2> QED
    BY <1>3, <2>1, <2>2, Zenon
<1>10. SoundBy(st2, rest, Len(rest), After(rs[1], from), to, sat, ls)
  BY <1>7, <1>8, <1>9, Zenon DEF SoundBy, n
<1> QED
  BY <1>5, <1>10, Zenon DEF Sound, SoundUpTo

(* One request more. *)
LEMMA SoundMore ==
    ASSUME NEW rs, NEW n \in Nat, NEW r, rs[n + 1] = r,
           NEW from, NEW to, NEW sat, NEW ls, SoundUpTo(rs, n, from, to, sat, ls),
           Fine(r, to, sat), Lone(After(r, to), ls)
    PROVE  SoundUpTo(rs, n + 1, from, After(r, to), sat, ls)
<1>1. PICK st : SoundBy(st, rs, n, from, to, sat, ls)
  BY DEF SoundUpTo
<1> DEFINE last == After(r, to)
           st2 == [i \in 1 .. (n + 1) + 1 |-> IF i = (n + 1) + 1 THEN last ELSE st[i]]
<1>2. /\ st[1] = from /\ st[n + 1] = to
      /\ \A i \in 1 .. n + 1 : Lone(st[i], ls)
      /\ \A i \in 1 .. n :
            Fine(rs[i], st[i], sat) /\ st[i + 1] = After(rs[i], st[i])
  BY <1>1, Zenon DEF SoundBy
<1> HIDE DEF last
<1>3. st2[(n + 1) + 1] = last /\ \A i \in 1 .. n + 1 : st2[i] = st[i]
  <2>1. (n + 1) + 1 \in 1 .. (n + 1) + 1
    OBVIOUS
  <2>2. \A i \in 1 .. n + 1 : i \in 1 .. (n + 1) + 1 /\ i # (n + 1) + 1
    OBVIOUS
  <2> QED
    BY <2>1, <2>2
<1> HIDE DEF st2
<1>4. 1 \in 1 .. n + 1 /\ n + 1 \in 1 .. n + 1
  OBVIOUS
<1>5. st2[1] = from /\ st2[n + 1] = to
  BY <1>2, <1>3, <1>4, Zenon
<1>6. ASSUME NEW i \in 1 .. (n + 1) + 1 PROVE Lone(st2[i], ls)
  <2>1. i = (n + 1) + 1 \/ i \in 1 .. n + 1
    OBVIOUS
  <2> QED
    BY <1>2, <1>3, <2>1, Zenon DEF last
<1>7. ASSUME NEW i \in 1 .. n + 1
      PROVE  Fine(rs[i], st2[i], sat) /\ st2[i + 1] = After(rs[i], st2[i])
  <2>1. i = n + 1 \/ (i \in 1 .. n /\ i + 1 \in 1 .. n + 1)
    OBVIOUS
  <2>2. CASE i = n + 1
    BY <1>3, <1>5, <2>2, Zenon DEF last
  <2>3. CASE i \in 1 .. n /\ i + 1 \in 1 .. n + 1
    BY <1>2, <1>3, <2>3, Zenon
  <2> QED
    BY <2>1, <2>2, <2>3
<1>8. SoundBy(st2, rs, n + 1, from, last, sat, ls)
  BY <1>3, <1>5, <1>6, <1>7, Zenon DEF SoundBy
<1> QED
  BY <1>8, Zenon DEF SoundUpTo, last

(* The requests made before stay as they were. *)
LEMMA SoundSame ==
    ASSUME NEW rs, NEW more, \A i \in 1 .. Len(rs) : more[i] = rs[i],
           NEW from, NEW to, NEW sat, NEW ls, Sound(rs, from, to, sat, ls)
    PROVE  SoundUpTo(more, Len(rs), from, to, sat, ls)
BY Zenon DEF Sound, SoundUpTo, SoundBy

(* Nothing is asked. *)
LEMMA SoundNone ==
    ASSUME NEW s, NEW sat, NEW ls, Lone(s, ls), NEW rs, Len(rs) = 0
    PROVE  Sound(rs, s, s, sat, ls)
<1> DEFINE st == [i \in {1} |-> s]
<1>1. st[1] = s
  OBVIOUS
<1> HIDE DEF st
<1>2. SoundBy(st, rs, Len(rs), s, s, sat, ls)
  <2>1. 1 .. Len(rs) = {} /\ 1 .. Len(rs) + 1 = {1} /\ Len(rs) + 1 = 1
    OBVIOUS
  <2> QED
    BY <1>1, <2>1, Zenon DEF SoundBy
<1> QED
  BY <1>2, Zenon DEF Sound, SoundUpTo

(* More configure events, or the first layer surface to be made. *)
LEMMA FineStill ==
    ASSUME NEW r, NEW s, NEW sat, NEW sat2, Fine(r, s, sat),
           DOMAIN sat \subseteq DOMAIN sat2,
           \A n \in DOMAIN sat : sat2[n] = sat[n]
    PROVE  Fine(r, s, sat2)
<1>1. FineAck(r, s, sat2)
  BY Zenon DEF Fine, FineAck
<1>2. FineCommit(r, s, sat2)
  <2>1. SUFFICES ASSUME r.op = "commit" /\ s[r.on].buffer # 0
                 PROVE  /\ LayersOf(s, r.on) # {}
                        /\ \A l \in LayersOf(s, r.on) :
                              /\ s[l].acked # 0 /\ s[l].acked \in DOMAIN sat2
                              /\ sat2[s[l].acked] = s[r.on].scale
                              /\ s[l].extent # 0
                        /\ s[r.on].buffer \in DOMAIN s
                        /\ s[s[r.on].buffer].size % s[r.on].scale = 0
    BY Zenon DEF FineCommit
  <2>2. /\ LayersOf(s, r.on) # {}
        /\ \A l \in LayersOf(s, r.on) :
              /\ s[l].acked # 0 /\ s[l].acked \in DOMAIN sat
              /\ sat[s[l].acked] = s[r.on].scale
              /\ s[l].extent # 0
        /\ s[r.on].buffer \in DOMAIN s
        /\ s[s[r.on].buffer].size % s[r.on].scale = 0
    BY <2>1, Zenon DEF Fine, FineCommit
  <2>3. ASSUME NEW l \in LayersOf(s, r.on)
        PROVE  /\ s[l].acked # 0 /\ s[l].acked \in DOMAIN sat2
               /\ sat2[s[l].acked] = s[r.on].scale /\ s[l].extent # 0
    <3>1. /\ s[l].acked # 0 /\ s[l].acked \in DOMAIN sat
          /\ sat[s[l].acked] = s[r.on].scale /\ s[l].extent # 0
      BY <2>2, Zenon
    <3> QED
      BY <3>1, Zenon
  <2> QED
    BY <2>2, <2>3, Zenon
<1> QED
  BY <1>1, <1>2, Zenon DEF Fine

(* More configure events or a first layer surface leave requests sound.    *)
LEMMA SoundStill ==
    ASSUME NEW rs, NEW from, NEW to, NEW sat, NEW ls, NEW sat2, NEW ls2,
           Sound(rs, from, to, sat, ls),
           DOMAIN sat \subseteq DOMAIN sat2,
           \A n \in DOMAIN sat : sat2[n] = sat[n],
           ls2 = ls \/ ls = 0
    PROVE  Sound(rs, from, to, sat2, ls2)
<1>1. PICK st : SoundBy(st, rs, Len(rs), from, to, sat, ls)
  BY DEF Sound, SoundUpTo
<1>2. ASSUME NEW s, Lone(s, ls) PROVE Lone(s, ls2)
  <2>1. CASE ls2 = ls
    BY <1>2, <2>1
  <2>2. CASE ls = 0
    <3>1. PICK m \in Nat : s \in [1 .. m -> Things]
      BY <1>2 DEF Lone, State
    <3>2. \A o \in DOMAIN s : o # 0
      BY <3>1
    <3> QED
      BY <1>2, <2>2, <3>2, Zenon DEF Lone
  <2> QED
    BY <2>1, <2>2
<1>3. SoundBy(st, rs, Len(rs), from, to, sat2, ls2)
  BY <1>1, <1>2, FineStill, Zenon DEF SoundBy
<1> QED
  BY <1>3, Zenon DEF Sound, SoundUpTo

-----------------------------------------------------------------------------
(* What the compositor knows of its objects, field by field. *)
LEMMA ViewFields ==
    ASSUME NEW objs
    PROVE  /\ DOMAIN View(objs) = DOMAIN objs
           /\ \A o \in DOMAIN objs :
                 /\ View(objs)[o].interface = objs[o].interface
                 /\ View(objs)[o].of = objs[o].of
                 /\ View(objs)[o].size = objs[o].size
                 /\ View(objs)[o].buffer = objs[o].buffer
                 /\ View(objs)[o].scale = objs[o].scale
                 /\ View(objs)[o].acked = objs[o].acked
                 /\ View(objs)[o].committed = objs[o].committed
                 /\ View(objs)[o].extent = objs[o].extent
                 /\ View(objs)[o].edges = objs[o].edges
BY DEF View

(* The view has the interfaces of the objects.                             *)
LEMMA ViewNamed ==
    ASSUME NEW o, NEW interface
    PROVE  Named(View(objects), o, interface) <=> Is(o, interface)
<1>1. DOMAIN View(objects) = DOMAIN objects
  BY DEF View
<1>2. \A x \in DOMAIN objects : View(objects)[x].interface = objects[x].interface
  BY ViewFields, Zenon
<1> QED
  BY <1>1, <1>2 DEF Named, Is, Of

(* The view has their layer surfaces.                                      *)
LEMMA ViewLayers ==
    ASSUME NEW o PROVE LayersOf(View(objects), o) = LayerSurfacesOf(o)
<1>1. /\ DOMAIN View(objects) = DOMAIN objects
      /\ \A x \in DOMAIN objects :
            /\ View(objects)[x].interface = objects[x].interface
            /\ View(objects)[x].of = objects[x].of
  BY ViewFields, Zenon
<1> QED
  BY <1>1 DEF LayersOf, LayerSurfacesOf, Of

(* A request that is fine is no protocol error, but for a first commit that *)
(* comes before any configure event.                                       *)
LEMMA NoFaults ==
    ASSUME OwedIs(objects, configured), NEW r \in RequestRecords,
           scale_at \in Seq(Nat), Len(scale_at) = configured, NEW ls,
           Lone(View(objects), ls), Fine(r, View(objects), scale_at)
    PROVE  /\ Faults(r) \subseteq {"unsized"}
           /\ "unsized" \in Faults(r) => configured = 0
<1> DEFINE s == View(objects)
<1>1. /\ DOMAIN s = DOMAIN objects
      /\ \A o \in DOMAIN objects :
            /\ s[o].interface = objects[o].interface
            /\ s[o].of = objects[o].of
            /\ s[o].size = objects[o].size
            /\ s[o].buffer = objects[o].buffer
            /\ s[o].scale = objects[o].scale
            /\ s[o].acked = objects[o].acked
            /\ s[o].committed = objects[o].committed
            /\ s[o].extent = objects[o].extent
  BY ViewFields, Zenon
<1>2. /\ \A o, interface : Named(s, o, interface) <=> Is(o, interface)
      /\ \A o : LayersOf(s, o) = LayerSurfacesOf(o)
      /\ \A o, interface : Is(o, interface) => o \in DOMAIN objects
  BY ViewNamed, ViewLayers DEF Is, Of
<1>3. /\ FineTarget(r, s) /\ FineNew(r, s) /\ FineLayer(r, s)
      /\ FineAck(r, s, scale_at) /\ FineBuffer(r, s) /\ FineCommit(r, s, scale_at)
      /\ FineAnchor(r) /\ FineFirst(r, s)
  BY Zenon DEF Fine
<1> HIDE DEF s
<1>4. Is(r.on, Signature[r.op][1]) /\ r.on \in DOMAIN objects
  BY <1>2, <1>3, Zenon DEF FineTarget
<1>5. "invalid_object" \notin Faults(r)
  <2>1. Signature[r.op][2] # "none" => Is(r.id, Signature[r.op][2])
    BY <1>2, <1>3, Zenon DEF FineTarget
  <2>2. r.op = "get_layer_surface" => Is(r.n, "wl_surface")
    BY <1>2, <1>3, Zenon DEF FineLayer
  <2> QED
    BY <1>4, <2>1, <2>2 DEF Faults
<1>6. "invalid_id" \notin Faults(r)
  <2>1. Signature[r.op][3] # "none" => r.id = Cardinality(DOMAIN objects) + 1
    <3>1. SUFFICES ASSUME Signature[r.op][3] # "none"
                   PROVE  r.id = Cardinality(DOMAIN objects) + 1
      OBVIOUS
    <3>2. DOMAIN objects = 1 .. r.id - 1 /\ r.id \in Nat \ {0}
      BY <1>1, <1>3, <3>1, Zenon DEF FineNew
    <3>3. Cardinality(1 .. r.id - 1) = r.id - 1
      <4>1. 1 \in Int /\ r.id - 1 \in Int
        BY <3>2
      <4>2. Cardinality(1 .. r.id - 1)
               = IF 1 > r.id - 1 THEN 0 ELSE (r.id - 1) - 1 + 1
        BY <4>1, FS_Interval
      <4> QED
        BY <3>2, <4>2
    <3> QED
      BY <3>2, <3>3
  <2> QED
    BY <2>1 DEF Faults
<1>7. "already_constructed" \notin Faults(r)
  <2>1. r.op = "get_layer_surface" =>
           LayerSurfacesOf(r.n) = {} /\ objects[r.n].buffer = 0
    <3>1. SUFFICES ASSUME r.op = "get_layer_surface"
                   PROVE  LayerSurfacesOf(r.n) = {} /\ objects[r.n].buffer = 0
      OBVIOUS
    <3>2. Named(s, r.n, "wl_surface") /\ s[r.n].buffer = 0 /\ LayersOf(s, r.n) = {}
      BY <1>3, <3>1, Zenon DEF FineLayer
    <3>3. r.n \in DOMAIN objects
      BY <1>2, <3>2, Zenon
    <3> QED
      BY <1>1, <1>2, <3>2, <3>3, Zenon
  <2> QED
    BY <2>1 DEF Faults
<1>8. "invalid_serial" \notin Faults(r)
  <2>1. r.op = "ack_configure" /\ Is(r.on, "zwlr_layer_surface_v1") =>
           r.n \in objects[r.on].owed
    <3>1. SUFFICES ASSUME r.op = "ack_configure", Is(r.on, "zwlr_layer_surface_v1")
                   PROVE  r.n \in objects[r.on].owed
      OBVIOUS
    <3>2. r.n = s[r.on].acked + 1 /\ r.n \in DOMAIN scale_at
      BY <1>3, <3>1, Zenon DEF FineAck
    <3>3. objects[r.on].owed = objects[r.on].acked + 1 .. configured
      BY <1>4, <3>1 DEF OwedIs, Is, Of
    <3>4. s[r.on].acked = objects[r.on].acked /\ objects[r.on].acked \in Nat
      <4>1. PICK m \in Nat : objects \in [1 .. m -> ObjectRecords]
        BY DEF OwedIs
      <4>2. objects[r.on] \in ObjectRecords
        BY <1>4, <4>1
      <4> QED
        BY <1>1, <1>4, <4>2 DEF ObjectRecords
    <3>5. r.n \in Nat /\ r.n <= configured /\ configured \in Nat
      BY <3>2
    <3> QED
      BY <3>2, <3>3, <3>4, <3>5
  <2> QED
    BY <2>1 DEF Faults
<1>9. /\ "invalid_surface_state" \notin Faults(r)
      /\ "invalid_size" \notin Faults(r)
  <2>1. SUFFICES ASSUME r.op = "commit", Is(r.on, "wl_surface"),
                        objects[r.on].buffer # 0
                 PROVE  /\ \E l \in LayerSurfacesOf(r.on) : objects[l].acked # 0
                        /\ objects[objects[r.on].buffer].size % objects[r.on].scale = 0
    BY DEF Faults
  <2>2. s[r.on].buffer # 0 /\ s[r.on].buffer = objects[r.on].buffer
        /\ s[r.on].scale = objects[r.on].scale
    BY <1>1, <1>4, <2>1, Zenon
  <2>3. /\ LayersOf(s, r.on) # {}
        /\ \A l \in LayersOf(s, r.on) : s[l].acked # 0
        /\ s[r.on].buffer \in DOMAIN s
        /\ s[s[r.on].buffer].size % s[r.on].scale = 0
    BY <1>3, <2>1, <2>2, Zenon DEF FineCommit
  <2>4. \E l \in LayerSurfacesOf(r.on) : objects[l].acked # 0
    <3>1. PICK l \in LayersOf(s, r.on) : s[l].acked # 0
      BY <2>3
    <3>2. l \in LayerSurfacesOf(r.on) /\ l \in DOMAIN objects
      BY <1>2, <3>1 DEF LayerSurfacesOf, Of
    <3> QED
      BY <1>1, <3>1, <3>2
  <2>5. s[objects[r.on].buffer].size = objects[objects[r.on].buffer].size
    BY <1>1, <2>2, <2>3, Zenon
  <2> QED
    BY <2>2, <2>3, <2>4, <2>5, Zenon
<1>10. "invalid_stride" \notin Faults(r)
  <2>1. r.op = "create_buffer" => r.n <= objects[r.on].size
    BY <1>1, <1>3, <1>4, Zenon DEF FineBuffer
  <2>2. r.op = "create_buffer" => ~ (r.n > objects[r.on].size)
    <3>1. r.n \in Nat
      BY DEF RequestRecords
    <3>2. objects[r.on].size \in Nat
      <4>1. PICK m \in Nat : objects \in [1 .. m -> ObjectRecords]
        BY DEF OwedIs
      <4>2. objects[r.on] \in ObjectRecords
        BY <1>4, <4>1
      <4> QED
        BY <4>2 DEF ObjectRecords
    <3> QED
      BY <2>1, <3>1, <3>2
  <2> QED
    BY <2>2 DEF Faults
<1>11. Faults(r) \subseteq
         {"invalid_object", "invalid_id", "already_constructed",
          "invalid_serial", "invalid_surface_state", "invalid_size",
          "invalid_stride", "invalid_anchor", "unsized"}
  BY DEF Faults
<1>12. "invalid_anchor" \notin Faults(r)
  BY <1>3 DEF FineAnchor, Faults
<1>13. ASSUME "unsized" \in Faults(r) PROVE configured = 0
  <2>1. /\ r.op = "commit"
        /\ \E l \in LayerSurfacesOf(r.on) : Unsized(l)
    BY <1>13 DEF Faults
  <2>2. PICK l \in LayerSurfacesOf(r.on) : Unsized(l)
    BY <2>1
  <2>3. l \in LayersOf(s, r.on) /\ l \in DOMAIN objects /\ s[l].extent = 0
        /\ l \in DOMAIN s /\ s[l].interface = "zwlr_layer_surface_v1"
    <3>1. l \in DOMAIN objects /\ objects[l].interface = "zwlr_layer_surface_v1"
      BY <2>2 DEF LayerSurfacesOf, Of
    <3>2. objects[l].extent = 0
      BY <2>2 DEF Unsized
    <3> QED
      BY <1>1, <1>2, <2>2, <3>1, <3>2, Zenon
  <2>4. s[r.on].buffer = 0
    BY <1>3, <2>1, <2>3, Zenon DEF FineCommit
  <2>5. objects[l].committed = FALSE
    BY <1>1, <1>3, <2>1, <2>3, <2>4, Zenon DEF FineFirst
  <2>6. ASSUME NEW o \in DOMAIN objects,
               objects[o].interface = "zwlr_layer_surface_v1"
        PROVE  o = l
    <3>1. o \in DOMAIN s /\ s[o].interface = "zwlr_layer_surface_v1"
      BY <1>1, <2>6, Zenon
    <3>2. o = ls /\ l = ls
      BY <2>3, <3>1, Zenon DEF Lone, s
    <3> QED
      BY <3>2
  <2>7. ~ \E o \in DOMAIN objects :
             /\ objects[o].interface = "zwlr_layer_surface_v1"
             /\ objects[o].committed = TRUE
    <3>1. ASSUME NEW o \in DOMAIN objects,
                 objects[o].interface = "zwlr_layer_surface_v1",
                 objects[o].committed = TRUE
          PROVE  FALSE
      <4>1. objects[l].committed = TRUE
        BY <2>6, <3>1, Zenon
      <4> QED
        BY <2>5, <4>1, Zenon
    <3> QED
      BY <3>1, Zenon
  <2> QED
    BY <2>7, Zenon DEF OwedIs
<1> QED
  BY <1>5, <1>6, <1>7, <1>8, <1>9, <1>10, <1>11, <1>12, <1>13

-----------------------------------------------------------------------------
(* What becomes of it all when a request is served. *)
SignatureKinds ==
    \A op \in DOMAIN Signature, i \in 1 .. 3 : Signature[op][i] \in Kinds

(* The kinds are the interfaces of the signatures.                         *)
LEMMA KindsOfSignature == SignatureKinds
BY DEF SignatureKinds, Kinds

(* Two of them.                                                            *)
LEMMA LayerIsKind == "zwlr_layer_surface_v1" \in Kinds /\ "wl_display" \in Kinds
BY DEF Kinds, Signature

(* The view is the same if what it shows is.                               *)
LEMMA SameView ==
    ASSUME NEW objs, NEW objs2, DOMAIN objs2 = DOMAIN objs,
           \A o \in DOMAIN objs :
              /\ objs2[o].interface = objs[o].interface
              /\ objs2[o].of = objs[o].of
              /\ objs2[o].size = objs[o].size
              /\ objs2[o].buffer = objs[o].buffer
              /\ objs2[o].scale = objs[o].scale
              /\ objs2[o].acked = objs[o].acked
              /\ objs2[o].committed = objs[o].committed
              /\ objs2[o].extent = objs[o].extent
              /\ objs2[o].edges = objs[o].edges
    PROVE  View(objs2) = View(objs)
BY DEF View

(* The compositor makes an object: its view of them becomes what it was to.*)
LEMMA ServedMake ==
    ASSUME OwedIs(objects, configured), configured \in Nat,
           NEW r \in RequestRecords, NEW ls, NEW sat,
           Lone(View(objects), ls), Fine(r, View(objects), sat),
           Lone(After(r, View(objects)), ls), Make(r)
    PROVE  /\ View(objects') = After(r, View(objects))
           /\ OwedIs(objects', configured)
<1> DEFINE k == Signature[r.op][3]
           new == Object(k, r.n, r.n)
           thing == Thing(k, r.n, r.n)
           s == View(objects)
<1>1. k # "none" /\ objects' = Put(objects, r.id, new)
  BY DEF Make
<1>2. DOMAIN s = 1 .. r.id - 1 /\ r.id \in Nat \ {0} /\ DOMAIN s = DOMAIN objects
  BY <1>1 DEF Fine, FineNew, View
<1>3. r.id \notin DOMAIN objects /\ DOMAIN objects \cup {r.id} = 1 .. r.id
  BY <1>2
<1>4. k \in Kinds /\ r.n \in Nat
  BY KindsOfSignature DEF SignatureKinds, RequestRecords, Signature
<1> HIDE DEF k
<1>5. /\ new \in ObjectRecords
      /\ new.interface = k /\ new.of = r.n /\ new.size = r.n /\ new.buffer = 0
      /\ new.scale = 1 /\ new.acked = 0 /\ new.owed = {}
      /\ new.committed = FALSE /\ new.extent = 0 /\ new.edges = 0
  BY <1>4 DEF Object, ObjectRecords
<1> HIDE DEF new
<1>6. /\ DOMAIN objects' = 1 .. r.id
      /\ objects'[r.id] = new
      /\ \A o \in DOMAIN objects : objects'[o] = objects[o]
  BY <1>1, <1>3 DEF Put
<1>7. objects' = [o \in 1 .. r.id |-> objects'[o]]
  BY <1>1, <1>3 DEF Put
<1>8. After(r, s) = Put(s, r.id, thing)
  BY <1>1 DEF After, k
<1>9. View(objects') = After(r, s)
  <2> DEFINE v == View(objects')
             w == Put(s, r.id, thing)
  <2>1. /\ v = [o \in 1 .. r.id |-> v[o]] /\ w = [o \in 1 .. r.id |-> w[o]]
    BY <1>2, <1>3, <1>6 DEF View, Put
  <2>2. v[r.id] = w[r.id]
    <3>1. r.id \in DOMAIN objects'
      BY <1>2, <1>6
    <3>2. v[r.id] = thing
      BY <1>5, <1>6, <3>1 DEF View, Thing
    <3>3. w[r.id] = thing
      BY DEF Put
    <3> QED
      BY <3>2, <3>3, Zenon
  <2>3. ASSUME NEW o \in DOMAIN objects PROVE v[o] = w[o]
    <3>1. o \in DOMAIN objects' /\ objects'[o] = objects[o]
      BY <1>3, <1>6
    <3>2. v[o] = s[o]
      BY <3>1 DEF View
    <3>3. w[o] = s[o]
      BY <1>2, <1>3 DEF Put
    <3> QED
      BY <3>2, <3>3, Zenon
  <2>4. \A o \in 1 .. r.id : v[o] = w[o]
    BY <1>3, <2>2, <2>3
  <2> HIDE DEF v, w
  <2>5. v = w
    BY <2>1, <2>4
  <2> QED
    BY <1>8, <2>5 DEF v, w
<1>10. OwedIs(objects', configured)
  <2>1. objects' \in [1 .. r.id -> ObjectRecords]
    <3>1. PICK m \in Nat : objects \in [1 .. m -> ObjectRecords]
      BY DEF OwedIs
    <3>2. \A o \in DOMAIN objects : objects[o] \in ObjectRecords
      BY <3>1
    <3>3. \A o \in 1 .. r.id : objects'[o] \in ObjectRecords
      BY <1>3, <1>5, <1>6, <3>2
    <3> QED
      BY <1>7, <3>3
  <2>2. configured # 0 => \E l \in DOMAIN objects' :
                             /\ objects'[l].interface = "zwlr_layer_surface_v1"
                             /\ objects'[l].committed = TRUE
    <3>1. SUFFICES ASSUME configured # 0
                   PROVE  \E l \in DOMAIN objects' :
                             /\ objects'[l].interface = "zwlr_layer_surface_v1"
                             /\ objects'[l].committed = TRUE
      BY Zenon
    <3>2. PICK l \in DOMAIN objects :
             /\ objects[l].interface = "zwlr_layer_surface_v1"
             /\ objects[l].committed = TRUE
      BY <3>1, Zenon DEF OwedIs
    <3>3. l \in DOMAIN objects' /\ objects'[l] = objects[l]
      BY <1>3, <1>6
    <3> QED
      BY <3>2, <3>3, Zenon
  <2>3. ASSUME NEW l \in DOMAIN objects',
               objects'[l].interface = "zwlr_layer_surface_v1"
        PROVE  /\ objects'[l].owed = objects'[l].acked + 1 .. configured
               /\ objects'[l].acked <= configured
    <3>1. CASE l \in DOMAIN objects
      BY <1>6, <2>3, <3>1 DEF OwedIs
    <3>2. CASE l = r.id
      <4>1. k = "zwlr_layer_surface_v1"
        BY <1>5, <1>6, <2>3, <3>2
      <4>2. ASSUME NEW o \in DOMAIN objects,
                   objects[o].interface = "zwlr_layer_surface_v1"
            PROVE  FALSE
        <5>1. s[o].interface = "zwlr_layer_surface_v1" /\ o \in DOMAIN s
          BY <1>2, <4>2, ViewFields
        <5>2. o = ls
          BY <5>1, Zenon DEF Lone
        <5>3. /\ After(r, s)[r.id].interface = "zwlr_layer_surface_v1"
              /\ r.id \in DOMAIN After(r, s)
          BY <1>8, <4>1 DEF Put, Thing
        <5>4. r.id = ls
          BY <5>3, Zenon DEF Lone
        <5> QED
          BY <1>3, <5>2, <5>4
      <4>3. configured = 0
        BY <4>2 DEF OwedIs
      <4>4. objects'[l].owed = {} /\ objects'[l].acked = 0
        BY <1>5, <1>6, <3>2
      <4> QED
        BY <4>3, <4>4
    <3> QED
      BY <1>3, <1>6, <3>1, <3>2
  <2> QED
    BY <1>2, <2>1, <2>2, <2>3 DEF OwedIs
<1> QED
  BY <1>9, <1>10

(* A change of one field of an object. *)
LEMMA ServedSet ==
    ASSUME OwedIs(objects, configured), NEW r \in RequestRecords, NEW sat,
           Fine(r, View(objects), sat), SetState(r)
    PROVE  /\ View(objects') = After(r, View(objects))
           /\ OwedIs(objects', configured)
<1> DEFINE s == View(objects)
<1>1. PICK m \in Nat : objects \in [1 .. m -> ObjectRecords]
  BY DEF OwedIs
<1>2. /\ r.op \in {"attach", "set_buffer_scale", "set_size", "set_anchor",
                   "set_input_region"}
      /\ Signature[r.op][3] = "none"
  BY DEF SetState, Signature
<1>3. r.on \in DOMAIN objects /\ r.id \in Nat /\ r.n \in Nat
  <2>1. r.on \in DOMAIN s
    BY Zenon DEF Fine, FineTarget, Named
  <2> QED
    BY <2>1 DEF View, RequestRecords
<1>4. CASE r.op = "attach"
  <2>1. objects' = [objects EXCEPT ![r.on].buffer = r.id]
    BY <1>4 DEF SetState
  <2>2. After(r, s) = [s EXCEPT ![r.on].buffer = r.id]
    BY <1>2, <1>4 DEF After, WithBuffer
  <2>3. objects' \in [1 .. m -> ObjectRecords]
    BY <1>1, <1>3, <2>1 DEF ObjectRecords
  <2>4. View(objects') = [s EXCEPT ![r.on].buffer = r.id]
    BY <1>1, <1>3, <2>1, ZenonT(40) DEF View, ObjectRecords
  <2>5. \A l \in DOMAIN objects : /\ objects'[l].interface = objects[l].interface
                                  /\ objects'[l].owed = objects[l].owed
                                  /\ objects'[l].acked = objects[l].acked
                                  /\ objects'[l].committed = objects[l].committed
    BY <1>1, <1>3, <2>1 DEF ObjectRecords
  <2> QED
    BY <1>1, <2>2, <2>3, <2>4, <2>5 DEF OwedIs
<1>5. CASE r.op = "set_buffer_scale"
  <2>1. objects' = [objects EXCEPT ![r.on].scale = r.n]
    BY <1>5 DEF SetState
  <2>2. After(r, s) = [s EXCEPT ![r.on].scale = r.n]
    BY <1>2, <1>5 DEF After, WithScale
  <2>3. objects' \in [1 .. m -> ObjectRecords]
    BY <1>1, <1>3, <2>1 DEF ObjectRecords
  <2>4. View(objects') = [s EXCEPT ![r.on].scale = r.n]
    BY <1>1, <1>3, <2>1, ZenonT(40) DEF View, ObjectRecords
  <2>5. \A l \in DOMAIN objects : /\ objects'[l].interface = objects[l].interface
                                  /\ objects'[l].owed = objects[l].owed
                                  /\ objects'[l].acked = objects[l].acked
                                  /\ objects'[l].committed = objects[l].committed
    BY <1>1, <1>3, <2>1 DEF ObjectRecords
  <2> QED
    BY <1>1, <2>2, <2>3, <2>4, <2>5 DEF OwedIs
<1>6. CASE r.op = "set_size"
  <2>1. objects' = [objects EXCEPT ![r.on].extent = r.n]
    BY <1>6 DEF SetState
  <2>2. After(r, s) = [s EXCEPT ![r.on].extent = r.n]
    BY <1>2, <1>6 DEF After, WithExtent
  <2>3. objects' \in [1 .. m -> ObjectRecords]
    BY <1>1, <1>3, <2>1 DEF ObjectRecords
  <2>4. View(objects') = [s EXCEPT ![r.on].extent = r.n]
    BY <1>1, <1>3, <2>1, ZenonT(40) DEF View, ObjectRecords
  <2>5. \A l \in DOMAIN objects : /\ objects'[l].interface = objects[l].interface
                                  /\ objects'[l].owed = objects[l].owed
                                  /\ objects'[l].acked = objects[l].acked
                                  /\ objects'[l].committed = objects[l].committed
    BY <1>1, <1>3, <2>1 DEF ObjectRecords
  <2> QED
    BY <1>1, <2>2, <2>3, <2>4, <2>5 DEF OwedIs
<1>7. CASE r.op = "set_anchor"
  <2>1. objects' = [objects EXCEPT ![r.on].edges = r.n]
    BY <1>7 DEF SetState
  <2>2. After(r, s) = [s EXCEPT ![r.on].edges = r.n]
    BY <1>2, <1>7 DEF After, WithEdges
  <2>3. objects' \in [1 .. m -> ObjectRecords]
    BY <1>1, <1>3, <2>1 DEF ObjectRecords
  <2>4. View(objects') = [s EXCEPT ![r.on].edges = r.n]
    BY <1>1, <1>3, <2>1, ZenonT(40) DEF View, ObjectRecords
  <2>5. \A l \in DOMAIN objects : /\ objects'[l].interface = objects[l].interface
                                  /\ objects'[l].owed = objects[l].owed
                                  /\ objects'[l].acked = objects[l].acked
                                  /\ objects'[l].committed = objects[l].committed
    BY <1>1, <1>3, <2>1 DEF ObjectRecords
  <2> QED
    BY <1>1, <2>2, <2>3, <2>4, <2>5 DEF OwedIs
<1>8. CASE r.op = "set_input_region"
  <2>1. objects' = objects
    BY <1>8 DEF SetState
  <2>2. After(r, s) = s
    BY <1>2, <1>8 DEF After
  <2> QED
    BY <2>1, <2>2
<1> QED
  BY <1>2, <1>4, <1>5, <1>6, <1>7, <1>8

(* It takes note of an acknowledgement.                                    *)
LEMMA ServedAcknowledge ==
    ASSUME OwedIs(objects, configured), configured \in Nat,
           NEW r \in RequestRecords, NEW sat,
           DOMAIN sat = 1 .. configured,
           Fine(r, View(objects), sat), Acknowledge(r)
    PROVE  /\ View(objects') = After(r, View(objects))
           /\ OwedIs(objects', configured)
<1> DEFINE s == View(objects)
<1>1. PICK m \in Nat : objects \in [1 .. m -> ObjectRecords]
  BY DEF OwedIs
<1>2. r.op = "ack_configure" /\ Signature[r.op][3] = "none"
  BY DEF Acknowledge, Signature
<1>3. /\ r.on \in DOMAIN objects /\ r.n \in Nat
      /\ s[r.on].interface = "zwlr_layer_surface_v1"
      /\ r.n = s[r.on].acked + 1 /\ r.n <= configured
  <2>1. r.on \in DOMAIN s /\ s[r.on].interface = Signature[r.op][1]
    BY Zenon DEF Fine, FineTarget, Named
  <2>2. r.n = s[r.on].acked + 1 /\ r.n \in DOMAIN sat
    BY <1>2, Zenon DEF Fine, FineAck
  <2>3. r.n \in Nat
    BY DEF RequestRecords
  <2> QED
    BY <1>2, <2>1, <2>2, <2>3 DEF View, Signature
<1>4. objects' = [objects EXCEPT ![r.on].acked = r.n,
                                 ![r.on].owed = {x \in @ : x > r.n}]
  BY DEF Acknowledge
<1>5. After(r, s) = [s EXCEPT ![r.on].acked = r.n]
  BY <1>2 DEF After, WithAcked
<1>6. objects' \in [1 .. m -> ObjectRecords]
  BY <1>1, <1>3, <1>4, ZenonT(40) DEF ObjectRecords
<1>7. View(objects') = [s EXCEPT ![r.on].acked = r.n]
  <2>1. /\ DOMAIN objects' = DOMAIN objects
        /\ \A o \in DOMAIN objects :
              /\ objects'[o].interface = objects[o].interface
              /\ objects'[o].of = objects[o].of
              /\ objects'[o].size = objects[o].size
              /\ objects'[o].buffer = objects[o].buffer
              /\ objects'[o].scale = objects[o].scale
              /\ objects'[o].acked = IF o = r.on THEN r.n ELSE objects[o].acked
              /\ objects'[o].committed = objects[o].committed
              /\ objects'[o].extent = objects[o].extent
              /\ objects'[o].edges = objects[o].edges
    BY <1>1, <1>3, <1>4 DEF ObjectRecords
  <2> QED
    BY <1>3, <2>1, SMTT(30) DEF View
<1>8. /\ \A l \in DOMAIN objects :
            /\ objects'[l].interface = objects[l].interface
            /\ objects'[l].committed = objects[l].committed
            /\ l # r.on => /\ objects'[l].owed = objects[l].owed
                           /\ objects'[l].acked = objects[l].acked
      /\ objects'[r.on].owed = {x \in objects[r.on].owed : x > r.n}
      /\ objects'[r.on].acked = r.n
      /\ DOMAIN objects' = DOMAIN objects
  BY <1>1, <1>3, <1>4 DEF ObjectRecords
<1>9. /\ objects'[r.on].owed = objects'[r.on].acked + 1 .. configured
      /\ objects'[r.on].acked <= configured
  <2>1. /\ objects[r.on].interface = "zwlr_layer_surface_v1"
        /\ r.n = objects[r.on].acked + 1
    BY <1>3, ViewFields, Zenon
  <2>2. objects[r.on].owed = objects[r.on].acked + 1 .. configured
    BY <1>3, <2>1 DEF OwedIs
  <2>3. objects[r.on].owed = r.n .. configured
    BY <2>1, <2>2
  <2> QED
    BY <1>3, <1>8, <2>3
<1> QED
  BY <1>5, <1>6, <1>7, <1>8, <1>9 DEF OwedIs

(* It commits a surface, and what it shows then has the right scale.       *)
LEMMA ServedCommit ==
    ASSUME OwedIs(objects, configured), NEW r \in RequestRecords, NEW sat,
           Fine(r, View(objects), sat), Commit(r), ShownIs(shown, sat)
    PROVE  /\ View(objects') = After(r, View(objects))
           /\ OwedIs(objects', configured)
           /\ ShownIs(shown', sat)
<1> DEFINE s == View(objects)
<1>1. PICK m \in Nat : objects \in [1 .. m -> ObjectRecords]
  BY DEF OwedIs
<1>2. r.op = "commit" /\ Signature[r.op][3] = "none"
  BY DEF Commit, Signature
<1>3. r.on \in DOMAIN objects
  <2>1. r.on \in DOMAIN s
    BY Zenon DEF Fine, FineTarget, Named
  <2> QED
    BY <2>1 DEF View
<1>4. /\ objects' \in [1 .. m -> ObjectRecords]
      /\ DOMAIN objects' = DOMAIN objects
      /\ \A o \in DOMAIN objects :
            objects'[o] = IF o \in LayerSurfacesOf(r.on)
                          THEN [objects[o] EXCEPT !.committed = TRUE] ELSE objects[o]
  BY <1>1 DEF Commit, ObjectRecords
<1>5. \A o \in DOMAIN objects :
         /\ objects'[o].interface = objects[o].interface
         /\ objects'[o].of = objects[o].of
         /\ objects'[o].size = objects[o].size
         /\ objects'[o].buffer = objects[o].buffer
         /\ objects'[o].scale = objects[o].scale
         /\ objects'[o].acked = objects[o].acked
         /\ objects'[o].owed = objects[o].owed
         /\ objects'[o].extent = objects[o].extent
         /\ objects'[o].edges = objects[o].edges
         /\ o \in LayerSurfacesOf(r.on) => objects'[o].committed = TRUE
         /\ o \notin LayerSurfacesOf(r.on) =>
               objects'[o].committed = objects[o].committed
  <2>1. ASSUME NEW x \in ObjectRecords
        PROVE  LET y == [x EXCEPT !.committed = TRUE]
               IN  /\ y.interface = x.interface /\ y.of = x.of /\ y.size = x.size
                   /\ y.buffer = x.buffer /\ y.scale = x.scale
                   /\ y.acked = x.acked /\ y.owed = x.owed
                   /\ y.extent = x.extent /\ y.edges = x.edges
                   /\ y.committed = TRUE
    BY DEF ObjectRecords
  <2>2. \A o \in DOMAIN objects : objects[o] \in ObjectRecords
    BY <1>1
  <2> SUFFICES ASSUME NEW o \in DOMAIN objects
               PROVE  /\ objects'[o].interface = objects[o].interface
                      /\ objects'[o].of = objects[o].of
                      /\ objects'[o].size = objects[o].size
                      /\ objects'[o].buffer = objects[o].buffer
                      /\ objects'[o].scale = objects[o].scale
                      /\ objects'[o].acked = objects[o].acked
                      /\ objects'[o].owed = objects[o].owed
                      /\ objects'[o].extent = objects[o].extent
                      /\ objects'[o].edges = objects[o].edges
                      /\ (o \in LayerSurfacesOf(r.on) => objects'[o].committed = TRUE)
                      /\ (o \notin LayerSurfacesOf(r.on) =>
                             objects'[o].committed = objects[o].committed)
    BY Zenon
  <2>3. CASE o \in LayerSurfacesOf(r.on)
    <3>1. objects'[o] = [objects[o] EXCEPT !.committed = TRUE]
      BY <1>4, <2>3, Zenon
    <3> QED
      BY <2>1, <2>2, <2>3, <3>1, Zenon
  <2>4. CASE o \notin LayerSurfacesOf(r.on)
    <3>1. objects'[o] = objects[o]
      BY <1>4, <2>4, Zenon
    <3> QED
      BY <2>4, <3>1, Zenon
  <2> QED
    BY <2>3, <2>4
<1>6. View(objects') = WithCommitted(s, r.on)
  <2>1. DOMAIN s = DOMAIN objects
    BY DEF View
  <2>2. \A o : o \in LayersOf(s, r.on) <=> o \in LayerSurfacesOf(r.on)
    BY ViewLayers
  <2>3. ASSUME NEW o \in DOMAIN objects
        PROVE  View(objects')[o] = WithCommitted(s, r.on)[o]
    <3>1. CASE o \in LayerSurfacesOf(r.on)
      <4>1. WithCommitted(s, r.on)[o] = AsCommitted(s[o])
        BY <2>1, <2>2, <3>1 DEF WithCommitted
      <4>2. /\ s[o].interface = objects[o].interface /\ s[o].of = objects[o].of
            /\ s[o].size = objects[o].size /\ s[o].buffer = objects[o].buffer
            /\ s[o].scale = objects[o].scale /\ s[o].acked = objects[o].acked
            /\ s[o].extent = objects[o].extent /\ s[o].edges = objects[o].edges
        BY DEF View
      <4>3. View(objects')[o]
               = [interface |-> objects[o].interface, of |-> objects[o].of,
                  size |-> objects[o].size, buffer |-> objects[o].buffer,
                  scale |-> objects[o].scale, acked |-> objects[o].acked,
                  committed |-> TRUE,
                  extent |-> objects[o].extent, edges |-> objects[o].edges]
        BY <1>4, <1>5, <3>1 DEF View
      <4> HIDE DEF s
      <4> QED
        BY <4>1, <4>2, <4>3, Zenon DEF AsCommitted
    <3>2. CASE o \notin LayerSurfacesOf(r.on)
      <4>1. WithCommitted(s, r.on)[o] = s[o]
        BY <2>1, <2>2, <3>2 DEF WithCommitted
      <4>2. objects'[o] = objects[o]
        BY <1>4, <3>2
      <4>3. View(objects')[o] = s[o]
        BY <1>4, <4>2, Zenon DEF View
      <4> QED
        BY <4>1, <4>3, Zenon
    <3> QED
      BY <3>1, <3>2, Zenon
  <2>4. /\ View(objects') = [o \in DOMAIN objects |-> View(objects')[o]]
        /\ WithCommitted(s, r.on)
             = [o \in DOMAIN objects |-> WithCommitted(s, r.on)[o]]
    BY <1>4, <2>1 DEF View, WithCommitted
  <2> QED
    BY <2>3, <2>4
<1>7. After(r, s) = WithCommitted(s, r.on)
  BY <1>2 DEF After
<1>8. OwedIs(objects', configured)
  <2>1. \A o \in DOMAIN objects :
           objects[o].committed = TRUE => objects'[o].committed = TRUE
    BY <1>5, Zenon
  <2>2. configured # 0 => \E l \in DOMAIN objects' :
                             /\ objects'[l].interface = "zwlr_layer_surface_v1"
                             /\ objects'[l].committed = TRUE
    BY <1>4, <1>5, <2>1, Zenon DEF OwedIs
  <2>3. \A l \in DOMAIN objects' :
           objects'[l].interface = "zwlr_layer_surface_v1" =>
              /\ objects'[l].owed = objects'[l].acked + 1 .. configured
              /\ objects'[l].acked <= configured
    BY <1>4, <1>5 DEF OwedIs
  <2> QED
    BY <1>4, <2>2, <2>3, Zenon DEF OwedIs
<1>9. ShownIs(shown', sat)
  <2>1. CASE objects[r.on].buffer = 0
    BY <2>1 DEF Commit
  <2>2. CASE objects[r.on].buffer # 0
    <3>1. PICK l \in LayerSurfacesOf(r.on) :
             shown' = [surface |-> r.on, scale |-> objects[r.on].scale,
                       serial |-> objects[l].acked]
      BY <2>2 DEF Commit
    <3>2. l \in LayersOf(s, r.on) /\ l \in DOMAIN objects
      BY ViewLayers DEF LayersOf, View
    <3>3. s[r.on].buffer # 0 /\ s[r.on].scale = objects[r.on].scale
          /\ s[l].acked = objects[l].acked
      BY <1>3, <2>2, <3>2, ViewFields, Zenon
    <3>4. s[l].acked \in DOMAIN sat /\ sat[s[l].acked] = s[r.on].scale
      BY <1>2, <3>2, <3>3, Zenon DEF Fine, FineCommit
    <3> QED
      BY <3>1, <3>3, <3>4 DEF ShownIs
  <2> QED
    BY <2>1, <2>2
<1> QED
  BY <1>6, <1>7, <1>8, <1>9, Zenon

-----------------------------------------------------------------------------
(* The objects now and those to come have one layer surface at most. *)
LEMMA SoundEnds ==
    ASSUME NEW rs, Len(rs) \in Nat, NEW from, NEW to, NEW sat, NEW ls,
           Sound(rs, from, to, sat, ls)
    PROVE  Lone(from, ls) /\ Lone(to, ls)
<1>1. PICK st : SoundBy(st, rs, Len(rs), from, to, sat, ls)
  BY DEF Sound, SoundUpTo
<1>2. 1 \in 1 .. Len(rs) + 1 /\ Len(rs) + 1 \in 1 .. Len(rs) + 1
  OBVIOUS
<1> QED
  BY <1>1, <1>2, Zenon DEF SoundBy

(* The first event is heard. *)
LEMMA ToldHead ==
    ASSUME NEW evs, Len(evs) \in Nat, Len(evs) # 0, NEW rest,
           Len(rest) = Len(evs) - 1,
           \A i \in 1 .. Len(rest) : rest[i] = evs[i + 1],
           NEW from, NEW to, NEW sat, Told(evs, from, to, sat)
    PROVE  \E mid \in News :
              Tells(evs[1], from, mid, sat) /\ Told(rest, mid, to, sat)
<1>1. PICK c : ToldBy(c, evs, from, to, sat)
  BY DEF Told
<1> DEFINE n == Len(rest)
           c2 == [i \in 1 .. n + 1 |-> c[i + 1]]
<1>2. n \in Nat /\ Len(evs) = n + 1
  OBVIOUS
<1>3. /\ c[1] = from /\ c[(n + 1) + 1] = to
      /\ \A i \in 1 .. (n + 1) + 1 : c[i] \in News
      /\ \A i \in 1 .. n + 1 : Tells(evs[i], c[i], c[i + 1], sat)
  BY <1>1, <1>2, Zenon DEF ToldBy
<1>4. 1 \in 1 .. n + 1 /\ n + 1 \in 1 .. n + 1 /\ 1 + 1 \in 1 .. (n + 1) + 1
  BY <1>2
<1> HIDE DEF n
<1>5. \A i \in 1 .. n + 1 : c2[i] = c[i + 1]
  OBVIOUS
<1> HIDE DEF c2
<1>6. c2[1] = c[1 + 1] /\ c2[n + 1] = to
  BY <1>3, <1>4, <1>5, Zenon
<1>7. ASSUME NEW i \in 1 .. n + 1 PROVE c2[i] \in News
  <2>1. i + 1 \in 1 .. (n + 1) + 1
    BY <1>2
  <2> QED
    BY <1>3, <1>5, <2>1, Zenon
<1>8. ASSUME NEW i \in 1 .. n PROVE Tells(rest[i], c2[i], c2[i + 1], sat)
  <2>1. i + 1 \in 1 .. n + 1 /\ i \in 1 .. n + 1
    BY <1>2
  <2>2. rest[i] = evs[i + 1] /\ c2[i] = c[i + 1] /\ c2[i + 1] = c[(i + 1) + 1]
    BY <1>5, <2>1, Zenon DEF n
  <2> QED
    BY <1>3, <2>1, <2>2, Zenon
<1>9. ToldBy(c2, rest, c[1 + 1], to, sat)
  BY <1>6, <1>7, <1>8, Zenon DEF ToldBy, n
<1>10. Tells(evs[1], from, c[1 + 1], sat) /\ c[1 + 1] \in News
  BY <1>3, <1>4, Zenon
<1> QED
  BY <1>9, <1>10, Zenon DEF Told

(* One event more. *)
LEMMA ToldMore ==
    ASSUME NEW evs, Len(evs) \in Nat, NEW more, NEW e,
           Len(more) = Len(evs) + 1, more[Len(evs) + 1] = e,
           \A i \in 1 .. Len(evs) : more[i] = evs[i],
           NEW from, NEW mid, NEW to \in News, NEW sat,
           Told(evs, from, mid, sat), Tells(e, mid, to, sat)
    PROVE  Told(more, from, to, sat)
<1>1. PICK c : ToldBy(c, evs, from, mid, sat)
  BY DEF Told
<1> DEFINE n == Len(evs)
           c2 == [i \in 1 .. (n + 1) + 1 |-> IF i = (n + 1) + 1 THEN to ELSE c[i]]
<1>2. n \in Nat
  OBVIOUS
<1>3. /\ c[1] = from /\ c[n + 1] = mid
      /\ \A i \in 1 .. n + 1 : c[i] \in News
      /\ \A i \in 1 .. n : Tells(evs[i], c[i], c[i + 1], sat)
  BY <1>1, Zenon DEF ToldBy
<1> HIDE DEF n
<1>4. c2[(n + 1) + 1] = to /\ \A i \in 1 .. n + 1 : c2[i] = c[i]
  <2>1. (n + 1) + 1 \in 1 .. (n + 1) + 1
    BY <1>2
  <2>2. \A i \in 1 .. n + 1 : i \in 1 .. (n + 1) + 1 /\ i # (n + 1) + 1
    BY <1>2
  <2> QED
    BY <2>1, <2>2
<1> HIDE DEF c2
<1>5. 1 \in 1 .. n + 1 /\ n + 1 \in 1 .. n + 1
  BY <1>2
<1>6. c2[1] = from /\ c2[n + 1] = mid
  BY <1>3, <1>4, <1>5, Zenon
<1>7. ASSUME NEW i \in 1 .. (n + 1) + 1 PROVE c2[i] \in News
  <2>1. i = (n + 1) + 1 \/ i \in 1 .. n + 1
    BY <1>2
  <2> QED
    BY <1>3, <1>4, <2>1, Zenon
<1>8. ASSUME NEW i \in 1 .. n + 1 PROVE Tells(more[i], c2[i], c2[i + 1], sat)
  <2>1. i = n + 1 \/ (i \in 1 .. n /\ i + 1 \in 1 .. n + 1)
    BY <1>2
  <2>2. CASE i = n + 1
    BY <1>4, <1>6, <2>2, Zenon DEF n
  <2>3. CASE i \in 1 .. n /\ i + 1 \in 1 .. n + 1
    <3>1. more[i] = evs[i]
      BY <2>3, Zenon DEF n
    <3> QED
      BY <1>3, <1>4, <2>3, <3>1, Zenon
  <2> QED
    BY <2>1, <2>2, <2>3
<1>9. ToldBy(c2, more, from, to, sat)
  <2>1. Len(more) = n + 1
    BY DEF n
  <2> QED
    BY <1>4, <1>6, <1>7, <1>8, <2>1, Zenon DEF ToldBy
<1> QED
  BY <1>9, Zenon DEF Told

(* No event tells nothing.                                                 *)
LEMMA ToldNone ==
    ASSUME NEW a \in News, NEW sat, NEW evs, Len(evs) = 0
    PROVE  Told(evs, a, a, sat)
<1> DEFINE c == [i \in {1} |-> a]
<1>1. c[1] = a
  OBVIOUS
<1> HIDE DEF c
<1>2. ToldBy(c, evs, a, a, sat)
  <2>1. 1 .. Len(evs) = {} /\ 1 .. Len(evs) + 1 = {1} /\ Len(evs) + 1 = 1
    OBVIOUS
  <2> QED
    BY <1>1, <2>1, Zenon DEF ToldBy
<1> QED
  BY <1>2, Zenon DEF Told

(* More configure events do not change what was told. *)
LEMMA ToldStill ==
    ASSUME NEW evs, NEW from, NEW to, NEW sat, NEW sat2,
           Told(evs, from, to, sat), DOMAIN sat \subseteq DOMAIN sat2,
           \A n \in DOMAIN sat : sat2[n] = sat[n]
    PROVE  Told(evs, from, to, sat2)
<1>1. PICK c : ToldBy(c, evs, from, to, sat)
  BY DEF Told
<1>2. ASSUME NEW e, NEW a, NEW b, Tells(e, a, b, sat) PROVE Tells(e, a, b, sat2)
  BY <1>2, Zenon DEF Tells
<1>3. ToldBy(c, evs, from, to, sat2)
  BY <1>1, <1>2, Zenon DEF ToldBy
<1> QED
  BY <1>3, Zenon DEF Told

-----------------------------------------------------------------------------
(* The globals on their way. *)
LEMMA GlobalsMore ==
    ASSUME NEW evs, Len(evs) \in Nat, NEW more, NEW e,
           Len(more) = Len(evs) + 1, more[Len(evs) + 1] = e,
           \A i \in 1 .. Len(evs) : more[i] = evs[i],
           NEW ann, NEW d, GlobalsNew(evs, ann, d),
           e.op = "global" => e.on = 2 /\ e.arg \notin Wanted
    PROVE  GlobalsNew(more, ann, d)
<1>1. \A i \in 1 .. Len(more) :
         \/ i \in 1 .. Len(evs) /\ more[i] = evs[i]
         \/ i = Len(evs) + 1 /\ more[i] = e
  OBVIOUS
<1> QED
  BY <1>1, Zenon DEF GlobalsNew

(* A global is announced for the first time.                               *)
LEMMA GlobalsAnnounced ==
    ASSUME NEW evs, Len(evs) \in Nat, NEW more, NEW g,
           Len(more) = Len(evs) + 1, more[Len(evs) + 1] = Event("global", 2, g),
           \A i \in 1 .. Len(evs) : more[i] = evs[i],
           NEW ann, NEW ann2, NEW d, GlobalsNew(evs, ann, d),
           g \in Wanted => ann[g] = 0 /\ ann2[g] = 1,
           \A h \in Wanted : h # g => ann2[h] = ann[h]
    PROVE  GlobalsNew(more, ann2, d)
<1> DEFINE e == more[Len(evs) + 1]
<1>1. \A i \in 1 .. Len(more) :
         \/ i \in 1 .. Len(evs) /\ more[i] = evs[i]
         \/ i = Len(evs) + 1 /\ more[i] = e
  OBVIOUS
<1>2. e.op = "global" /\ e.on = 2 /\ e.arg = g
  BY DEF Event
<1> HIDE DEF e
<1>3. ~ (0 >= 1) /\ 1 >= 1
  OBVIOUS
<1>4. g \in Wanted => /\ d[g] = 0
                      /\ \A i \in 1 .. Len(evs) :
                            evs[i].op = "global" => evs[i].arg # g
  BY <1>3, Zenon DEF GlobalsNew
<1>5. ASSUME NEW i \in 1 .. Len(more), more[i].op = "global"
      PROVE  /\ more[i].on = 2
             /\ more[i].arg \in Wanted => ann2[more[i].arg] >= 1 /\ d[more[i].arg] = 0
  <2>1. CASE i \in 1 .. Len(evs) /\ more[i] = evs[i]
    <3>1. /\ evs[i].on = 2
          /\ evs[i].arg \in Wanted => ann[evs[i].arg] >= 1 /\ d[evs[i].arg] = 0
      BY <1>5, <2>1, Zenon DEF GlobalsNew
    <3>2. evs[i].arg \in Wanted => evs[i].arg # g
      BY <1>4, <1>5, <2>1, Zenon
    <3> QED
      BY <2>1, <3>1, <3>2, Zenon
  <2>2. CASE more[i] = e
    <3>1. more[i].on = 2 /\ more[i].arg = g
      BY <1>2, <2>2, Zenon
    <3>2. g \in Wanted => ann2[g] >= 1 /\ d[g] = 0
      BY <1>4
    <3> QED
      BY <3>1, <3>2, Zenon
  <2> QED
    BY <1>1, <2>1, <2>2, Zenon
<1>6. ASSUME NEW i \in 1 .. Len(more), NEW j \in 1 .. Len(more),
             more[i].op = "global", more[j].op = "global",
             more[i].arg \in Wanted, more[j].arg = more[i].arg
      PROVE  i = j
  <2>1. CASE i \in 1 .. Len(evs) /\ more[i] = evs[i]
    <3>1. more[i].arg # g
      BY <1>4, <1>6, <2>1, Zenon
    <3>2. j \in 1 .. Len(evs) /\ more[j] = evs[j]
      BY <1>1, <1>2, <1>6, <3>1, Zenon
    <3>3. /\ evs[i].op = "global" /\ evs[j].op = "global"
          /\ evs[i].arg \in Wanted /\ evs[j].arg = evs[i].arg
          /\ i \in 1 .. Len(evs) /\ j \in 1 .. Len(evs)
      BY <1>6, <2>1, <3>2, Zenon
    <3> QED
      BY <3>3, Zenon DEF GlobalsNew
  <2>2. CASE i = Len(evs) + 1 /\ more[i] = e
    <3>1. ~ (j \in 1 .. Len(evs) /\ more[j] = evs[j])
      BY <1>2, <1>4, <1>6, <2>2, Zenon
    <3> QED
      BY <1>1, <2>2, <3>1, Zenon
  <2> QED
    BY <1>1, <2>1, <2>2, Zenon
<1>7. \A h \in Wanted : d[h] # 0 => ann2[h] >= 1
  BY <1>4, Zenon DEF GlobalsNew
<1> QED
  BY <1>5, <1>6, <1>7, Zenon DEF GlobalsNew

(* The first of the events is handled; a global that it announces may be   *)
(* bound now.                                                              *)
LEMMA GlobalsHead ==
    ASSUME NEW evs, Len(evs) \in Nat, Len(evs) # 0, NEW rest,
           Len(rest) = Len(evs) - 1,
           \A i \in 1 .. Len(rest) : rest[i] = evs[i + 1],
           NEW ann, NEW d, NEW d2, GlobalsNew(evs, ann, d),
           \A h \in Wanted :
              d2[h] = d[h] \/ (evs[1].op = "global" /\ evs[1].arg = h)
    PROVE  GlobalsNew(rest, ann, d2)
<1>1. \A i \in 1 .. Len(rest) :
         i + 1 \in 1 .. Len(evs) /\ rest[i] = evs[i + 1] /\ i + 1 # 1
  OBVIOUS
<1>2. 1 \in 1 .. Len(evs)
  OBVIOUS
<1>3. ASSUME NEW i \in 1 .. Len(rest), rest[i].op = "global"
      PROVE  /\ rest[i].on = 2
             /\ rest[i].arg \in Wanted => ann[rest[i].arg] >= 1 /\ d2[rest[i].arg] = 0
  <2>1. /\ rest[i].on = 2
        /\ rest[i].arg \in Wanted => ann[rest[i].arg] >= 1 /\ d[rest[i].arg] = 0
    <3>1. i + 1 \in 1 .. Len(evs) /\ rest[i] = evs[i + 1]
      BY <1>1, Zenon
    <3>2. evs[i + 1].op = "global"
      BY <1>3, <3>1, Zenon
    <3>3. /\ evs[i + 1].on = 2
          /\ evs[i + 1].arg \in Wanted =>
                ann[evs[i + 1].arg] >= 1 /\ d[evs[i + 1].arg] = 0
      BY <3>1, <3>2, Zenon DEF GlobalsNew
    <3> QED
      BY <3>1, <3>3, Zenon
  <2>2. ASSUME rest[i].arg \in Wanted PROVE d2[rest[i].arg] = d[rest[i].arg]
    <3>1. ~ (evs[1].op = "global" /\ evs[1].arg = rest[i].arg)
      BY <1>1, <1>2, <1>3, <2>2, Zenon DEF GlobalsNew
    <3> QED
      BY <2>2, <3>1, Zenon
  <2> QED
    BY <2>1, <2>2, Zenon
<1>4. ASSUME NEW i \in 1 .. Len(rest), NEW j \in 1 .. Len(rest),
             rest[i].op = "global", rest[j].op = "global",
             rest[i].arg \in Wanted, rest[j].arg = rest[i].arg
      PROVE  i = j
  <2>1. /\ i + 1 \in 1 .. Len(evs) /\ rest[i] = evs[i + 1]
        /\ j + 1 \in 1 .. Len(evs) /\ rest[j] = evs[j + 1]
    BY <1>1, Zenon
  <2>2. /\ evs[i + 1].op = "global" /\ evs[j + 1].op = "global"
        /\ evs[i + 1].arg \in Wanted /\ evs[j + 1].arg = evs[i + 1].arg
    BY <1>4, <2>1, Zenon
  <2>3. i + 1 = j + 1
    BY <2>1, <2>2, Zenon DEF GlobalsNew
  <2> QED
    BY <2>3
<1>5. ASSUME NEW h \in Wanted, d2[h] # 0 PROVE ann[h] >= 1
  <2>1. CASE d2[h] = d[h]
    BY <1>5, <2>1, Zenon DEF GlobalsNew
  <2>2. CASE evs[1].op = "global" /\ evs[1].arg = h
    BY <1>2, <2>2, Zenon DEF GlobalsNew
  <2> QED
    BY <2>1, <2>2, Zenon
<1> QED
  BY <1>3, <1>4, <1>5, Zenon DEF GlobalsNew

-----------------------------------------------------------------------------
(* The program leaves the compositor's counts alone, and the other way     *)
(* round.                                                                  *)
LEMMA ServesQuietly ==
    Serve => UNCHANGED <<events, announced, preferred, configured, scale_at,
                         notices>>
BY DEF Serve, Reject, Make, Acknowledge, SetState, Commit, Accept

(* The program leaves the counts of the compositor alone.                  *)
LEMMA ClientCounts ==
    ClientNext => UNCHANGED <<announced, preferred, configured, scale_at, fault,
                              objects, shown>>
BY DEF ClientNext, Run, Panic, HandleGlobal, HandlePreferredScale,
       HandleConfigure, HandleNotice, Dispatch, serverVars

(* The first id is taken as the program begins.                            *)
LEMMA ClientStarts ==
    ASSUME ClientInv, ServerTypes, ClientNext
    PROVE  status' = "start" <=> next_id' = 2
<1>1. next_id \in Nat /\ next_id >= 2 /\ (status = "start" <=> next_id = 2)
  BY DEF ClientInv, StatusOK, ServerTypes
<1>2. CASE Run
  BY <1>1, <1>2 DEF Run
<1>3. CASE Panic
  BY <1>1, <1>3 DEF Panic
<1>4. CASE HandleGlobal
  <2>1. status = "loop" /\ status' = status
    BY <1>4 DEF HandleGlobal, Dispatch
  <2>2. \/ next_id' = next_id \/ next_id' = next_id + 1
        \/ next_id' = next_id + 3
    BY <1>4 DEF HandleGlobal, Global
  <2> QED
    BY <1>1, <2>1, <2>2
<1>5. CASE HandlePreferredScale \/ HandleNotice
  <2>1. status = "loop" /\ status' = status /\ next_id' = next_id
    BY <1>5 DEF HandlePreferredScale, HandleNotice, Dispatch
  <2> QED
    BY <1>1, <2>1
<1>6. CASE HandleConfigure
  <2>1. status = "loop" /\ status' = status /\ next_id' = next_id + 3
    BY <1>6 DEF HandleConfigure, Dispatch
  <2> QED
    BY <1>1, <2>1
<1> QED
  BY <1>2, <1>3, <1>4, <1>5, <1>6 DEF ClientNext

(* The types are kept.                                                     *)
LEMMA ServerTypesKept ==
    ASSUME ClientInv, ServerTypes, [Next]_vars
    PROVE  ServerTypes'
<1>1. CASE UNCHANGED vars
  BY <1>1 DEF ServerTypes, vars, serverVars, clientVars
<1>2. CASE ClientNext
  BY <1>2, ClientCounts, ClientStarts DEF ServerTypes
<1>3. CASE ServerStep
  <2>1. (status = "start" <=> next_id = 2)'
    BY <1>3 DEF ServerStep, clientVars, ServerTypes
  <2>2. CASE Serve
    BY <2>1, <2>2, ServesQuietly DEF ServerTypes
  <2>3. ASSUME NEW g \in DOMAIN MaxAnnounced, Announce(g) PROVE ServerTypes'
    BY <2>1, <2>3 DEF Announce, ServerTypes
  <2>4. ASSUME NEW s, NEW n \in Scales, Prefer(s, n) PROVE ServerTypes'
    <3>1. n \in Nat
      BY ServerAssumption
    <3>2. preferred' \in Seq(Nat) /\ preferred' # <<>>
      <4>1. preferred \in Seq(Nat) /\ preferred' = Append(preferred, n)
        BY <2>4 DEF Prefer, ServerTypes
      <4>2. preferred' \in Seq(Nat) /\ Len(preferred') = Len(preferred) + 1
        BY <3>1, <4>1
      <4> QED
        BY <4>1, <4>2
    <3> QED
      BY <2>1, <2>4, <3>2, Zenon DEF Prefer, ServerTypes
  <2>5. ASSUME NEW l, Configure(l) PROVE ServerTypes'
    <3>1. preferred[Len(preferred)] \in Nat
      BY DEF ServerTypes
    <3>2. /\ scale_at' \in Seq(Nat) /\ Len(scale_at') = configured'
          /\ configured' \in Nat
      <4>1. /\ scale_at \in Seq(Nat) /\ Len(scale_at) = configured
            /\ configured \in Nat
        BY DEF ServerTypes
      <4>2. /\ scale_at' = Append(scale_at, preferred[Len(preferred)])
            /\ configured' = configured + 1
        BY <2>5 DEF Configure
      <4> QED
        BY <3>1, <4>1, <4>2
    <3> QED
      BY <2>1, <2>5, <3>2 DEF Configure, ServerTypes
  <2>6. ASSUME NEW o, Notify(o) PROVE ServerTypes'
    BY <2>1, <2>6 DEF Notify, ServerTypes
  <2> QED
    BY <1>3, <2>2, <2>3, <2>4, <2>5, <2>6 DEF ServerStep, ServerNext
<1> QED
  BY <1>1, <1>2, <1>3 DEF Next

(* What is announced once now was not announced more often before. *)
LEMMA OnceBefore ==
    ASSUME ServerTypes, [Next]_vars, AnnouncedOnce'
    PROVE  AnnouncedOnce
<1>1. CASE announced' = announced
  BY <1>1 DEF AnnouncedOnce
<1>2. ASSUME NEW g \in DOMAIN MaxAnnounced, Announce(g) PROVE AnnouncedOnce
  <2>1. announced \in [DOMAIN MaxAnnounced -> Nat]
    BY DEF ServerTypes
  <2>2. announced' = [announced EXCEPT ![g] = @ + 1]
    BY <1>2 DEF Announce
  <2>3. \A h \in Wanted : announced[h] \in Nat /\ announced'[h] >= announced[h]
    BY <2>1, <2>2, WantedAssumption
  <2>4. \A h \in Wanted : announced'[h] \in Nat /\ announced'[h] <= 1
    BY <2>1, <2>2, WantedAssumption DEF AnnouncedOnce
  <2> QED
    BY <2>3, <2>4 DEF AnnouncedOnce
<1>3. CASE UNCHANGED vars
  BY <1>1, <1>3 DEF vars, serverVars
<1>4. CASE ClientNext
  BY <1>1, <1>4, ClientCounts
<1>5. CASE ServerStep
  <2>1. CASE Serve
    BY <1>1, <2>1, ServesQuietly
  <2>2. ASSUME NEW s, NEW n, Prefer(s, n) PROVE AnnouncedOnce
    BY <1>1, <2>2 DEF Prefer
  <2>3. ASSUME NEW l, Configure(l) PROVE AnnouncedOnce
    BY <1>1, <2>3 DEF Configure
  <2>4. ASSUME NEW o, Notify(o) PROVE AnnouncedOnce
    BY <1>1, <2>4 DEF Notify
  <2> QED
    BY <1>2, <1>5, <2>1, <2>2, <2>3, <2>4 DEF ServerStep, ServerNext
<1> QED
  BY <1>3, <1>4, <1>5 DEF Next

-----------------------------------------------------------------------------
(* The compositor's steps keep the agreement. *)
LEMMA HeadAndTail ==
    ASSUME NEW S, NEW seq \in Seq(S), seq # <<>>
    PROVE  /\ seq[1] = Head(seq) /\ Head(seq) \in S
           /\ Len(seq) \in Nat /\ Len(seq) # 0
           /\ Len(Tail(seq)) = Len(seq) - 1
           /\ \A i \in 1 .. Len(Tail(seq)) : Tail(seq)[i] = seq[i + 1]
OBVIOUS

(* The task ends, or nothing happens: neither side is disturbed.           *)
LEMMA StillAgrees ==
    ASSUME Agreement, UNCHANGED <<requests, events, objects, announced, preferred,
                                  configured, scale_at, shown, next_id, display>>,
           Faultless'
    PROVE  Agreement'
<1>1. PICK to : Harmony(to)
  BY DEF Agreement
<1>2. Harmony(to)'
  BY <1>1, Zenon DEF Harmony, Said
<1> QED
  BY <1>2, Zenon DEF Agreement

(* A request is served.                                                    *)
LEMMA ServeAgrees ==
    ASSUME ClientInv, ServerTypes, Agreement, Serve, UNCHANGED clientVars
    PROVE  Agreement'
<1> DEFINE s == View(objects)
           ls == display.layer_surface
<1>1. PICK r : Reject(r) \/ Make(r) \/ Acknowledge(r) \/ SetState(r) \/ Commit(r)
  BY DEF Serve
<1>2. requests # <<>> /\ r = Head(requests)
  BY <1>1 DEF Reject, Make, Acknowledge, SetState, Commit, Accept
<1>3. PICK to : Harmony(to)
  BY DEF Agreement
<1>4. Sound(requests, s, to, scale_at, ls)
  BY <1>3 DEF Harmony
<1>5. requests \in Seq(GoodRequests) /\ GoodRequests \subseteq RequestRecords
  BY DEF ClientInv, ChannelsOK, GoodRequests
<1>6. /\ requests[1] = r /\ r \in RequestRecords
      /\ Len(requests) \in Nat /\ Len(requests) # 0
      /\ Len(Tail(requests)) = Len(requests) - 1
      /\ \A i \in 1 .. Len(Tail(requests)) : Tail(requests)[i] = requests[i + 1]
  BY <1>2, <1>5, HeadAndTail
<1>7. /\ Fine(r, s, scale_at) /\ Lone(s, ls) /\ Lone(After(r, s), ls)
      /\ Sound(Tail(requests), After(r, s), to, scale_at, ls)
  <2> HIDE DEF s, ls
  <2> QED
    BY <1>4, <1>6, SoundHead, Zenon
<1>8. OwedIs(objects, configured) /\ ShownIs(shown, scale_at) /\ Faultless
  BY DEF Agreement
<1>9. configured \in Nat /\ scale_at \in Seq(Nat) /\ Len(scale_at) = configured
  BY DEF ServerTypes
<1>10. CASE Reject(r)
  <2>1. fault' \in Faults(r) /\ configured' = configured
    BY <1>10 DEF Reject
  <2>2. Faults(r) \subseteq {"unsized"} /\ ("unsized" \in Faults(r) => configured = 0)
    <3> HIDE DEF s, ls
    <3>1. Fine(r, View(objects), scale_at) /\ Lone(View(objects), ls)
      BY <1>7, Zenon DEF s
    <3> QED
      BY <1>6, <1>8, <1>9, <3>1, NoFaults
  <2>3. fault' = "unsized" /\ configured' = 0
    BY <2>1, <2>2
  <2>4. Faultless'
    BY <2>3, Zenon DEF Faultless
  <2>5. UNCHANGED <<requests, events, objects, announced, preferred,
                    configured, scale_at, shown, next_id, display>>
    BY <1>10 DEF Reject, clientVars
  <2> QED
    BY <2>4, <2>5, StillAgrees
<1>11. SUFFICES ASSUME ~ Reject(r) PROVE Agreement'
  BY <1>10, Zenon
<1>12. /\ View(objects') = After(r, s) /\ OwedIs(objects', configured)
       /\ ShownIs(shown', scale_at) /\ Accept(r)
  <2>1. CASE Make(r)
    <3>1. shown' = shown /\ Accept(r)
      BY <2>1 DEF Make
    <3>2. View(objects') = After(r, s) /\ OwedIs(objects', configured)
      BY <1>6, <1>7, <1>8, <1>9, <2>1, ServedMake
    <3> QED
      BY <1>8, <3>1, <3>2
  <2>2. CASE Acknowledge(r)
    <3>1. shown' = shown /\ Accept(r)
      BY <2>2 DEF Acknowledge
    <3>2. View(objects') = After(r, s) /\ OwedIs(objects', configured)
      <4>1. DOMAIN scale_at = 1 .. configured
        BY <1>9
      <4> QED
        BY <1>6, <1>7, <1>8, <1>9, <2>2, <4>1, ServedAcknowledge
    <3> QED
      BY <1>8, <3>1, <3>2
  <2>3. CASE SetState(r)
    <3>1. shown' = shown /\ Accept(r)
      BY <2>3 DEF SetState
    <3>2. View(objects') = After(r, s) /\ OwedIs(objects', configured)
      BY <1>6, <1>7, <1>8, <2>3, ServedSet
    <3> QED
      BY <1>8, <3>1, <3>2
  <2>4. CASE Commit(r)
    <3>1. Accept(r)
      BY <2>4 DEF Commit
    <3>2. /\ View(objects') = After(r, s) /\ OwedIs(objects', configured)
          /\ ShownIs(shown', scale_at)
      BY <1>6, <1>7, <1>8, <2>4, ServedCommit
    <3> QED
      BY <3>1, <3>2
  <2> QED
    BY <1>1, <1>11, <2>1, <2>2, <2>3, <2>4
<1>13. /\ requests' = Tail(requests) /\ fault' = fault
       /\ UNCHANGED <<events, announced, preferred, configured, scale_at>>
       /\ UNCHANGED <<display, next_id>>
  BY <1>12 DEF Accept, clientVars
<1> HIDE DEF s, ls
<1>14. Harmony(to)'
  <2>1. (Sound(requests, View(objects), to, scale_at, display.layer_surface))'
    BY <1>7, <1>12, <1>13, Zenon DEF ls
  <2>2. (Arranged(to, display, next_id))'
    BY <1>3, <1>13, Zenon DEF Harmony
  <2>3. (Told(events, Heard(to, display), Said, scale_at))'
    BY <1>3, <1>13, Zenon DEF Harmony, Said
  <2> QED
    BY <2>1, <2>2, <2>3 DEF Harmony
<1>15. (GlobalsNew(events, announced, display))'
  BY <1>13, Zenon DEF Agreement
<1>16. Faultless'
  BY <1>8, <1>13, Zenon DEF Faultless
<1> QED
  BY <1>12, <1>13, <1>14, <1>15, <1>16, Zenon DEF Agreement

-----------------------------------------------------------------------------
(* An event that is told last. *)
LEMMA OneMore ==
    ASSUME NEW S, NEW seq \in Seq(S), NEW e
    PROVE  /\ Len(seq) \in Nat /\ Len(Append(seq, e)) = Len(seq) + 1
           /\ Append(seq, e)[Len(seq) + 1] = e
           /\ \A i \in 1 .. Len(seq) : Append(seq, e)[i] = seq[i]
OBVIOUS

(* What was said has its type.                                             *)
LEMMA SaidIsNews == ServerTypes => Said \in News
BY DEF ServerTypes, Said, News

(* An event is sent that tells nothing or something new.                   *)
LEMMA EmitAgrees ==
    ASSUME ClientInv, Agreement, NEW e, Emit(e), UNCHANGED clientVars,
           View(objects') = View(objects), OwedIs(objects', configured'),
           DOMAIN scale_at \subseteq DOMAIN scale_at',
           \A n \in DOMAIN scale_at : scale_at'[n] = scale_at[n],
           NEW said \in News, Said' = said,
           Tells(e, Said, said, scale_at'),
           (GlobalsNew(events, announced, display))'
    PROVE  Agreement'
<1> DEFINE ls == display.layer_surface
<1>1. PICK to : Harmony(to)
  BY DEF Agreement
<1>2. /\ events \in Seq(GoodEvents) /\ events' = Append(events, e)
      /\ UNCHANGED <<requests, shown, fault, display, next_id>>
  BY DEF ClientInv, ChannelsOK, Emit, clientVars
<1>3. /\ Len(events) \in Nat /\ Len(events') = Len(events) + 1
      /\ events'[Len(events) + 1] = e
      /\ \A i \in 1 .. Len(events) : events'[i] = events[i]
  BY <1>2, OneMore
<1>4. Sound(requests, View(objects), to, scale_at', ls)
  <2>1. Sound(requests, View(objects), to, scale_at, ls)
    BY <1>1 DEF Harmony
  <2> HIDE DEF ls
  <2> QED
    BY <2>1, SoundStill, Zenon
<1>5. Told(events', Heard(to, display), said, scale_at')
  <2>1. Told(events, Heard(to, display), Said, scale_at)
    BY <1>1 DEF Harmony
  <2>2. Told(events, Heard(to, display), Said, scale_at')
    BY <2>1, ToldStill, Zenon
  <2> QED
    BY <1>3, <2>2, ToldMore, Zenon
<1> HIDE DEF ls
<1>6. Harmony(to)'
  <2>1. (Sound(requests, View(objects), to, scale_at, display.layer_surface))'
    BY <1>2, <1>4, Zenon DEF ls
  <2>2. (Arranged(to, display, next_id))'
    BY <1>1, <1>2, Zenon DEF Harmony
  <2>3. (Told(events, Heard(to, display), Said, scale_at))'
    BY <1>2, <1>5, Zenon
  <2> QED
    BY <2>1, <2>2, <2>3 DEF Harmony
<1>7. (ShownIs(shown, scale_at))'
  <2>1. ShownIs(shown, scale_at) /\ shown' = shown
    BY <1>2 DEF Agreement
  <2> QED
    BY <2>1, Zenon DEF ShownIs
<1>8. Faultless'
  BY DEF Emit, Faultless
<1> QED
  BY <1>2, <1>6, <1>7, <1>8, Zenon DEF Agreement

(* The registry is the second object, the layer surface the one the        *)
(* program knows.                                                          *)
LEMMA TheOnes ==
    ASSUME ClientInv, Agreement
    PROVE  /\ Lone(View(objects), display.layer_surface)
           /\ \A o \in Of("wl_registry") : o = 2
<1>1. PICK to : Harmony(to)
  BY DEF Agreement
<1>2. Len(requests) \in Nat
  BY DEF ClientInv, ChannelsOK
<1>3. Lone(View(objects), display.layer_surface)
  BY <1>1, <1>2, SoundEnds, Zenon DEF Harmony
<1>4. ASSUME NEW o \in Of("wl_registry") PROVE o = 2
  <2>1. o \in DOMAIN objects /\ objects[o].interface = "wl_registry"
    BY <1>4 DEF Of
  <2>2. o \in DOMAIN View(objects) /\ View(objects)[o].interface = "wl_registry"
    BY <2>1, ViewFields
  <2> QED
    BY <1>3, <2>2, Zenon DEF Lone
<1> QED
  BY <1>3, <1>4

(* A global is announced.                                                  *)
LEMMA AnnounceAgrees ==
    ASSUME ClientInv, ServerTypes, Agreement, NEW g \in DOMAIN MaxAnnounced,
           Announce(g), AnnouncedOnce', UNCHANGED clientVars
    PROVE  Agreement'
<1>1. /\ announced' = [announced EXCEPT ![g] = @ + 1]
      /\ UNCHANGED <<objects, preferred, configured, scale_at>>
  BY DEF Announce
<1>2. PICK o \in Of("wl_registry") : Emit(Event("global", o, g))
  BY DEF Announce
<1>3. o = 2
  BY TheOnes
<1> DEFINE e == Event("global", 2, g)
<1>4. Emit(e)
  BY <1>2, <1>3
<1>5. e.op = "global"
  BY DEF Event
<1>6. announced \in [DOMAIN MaxAnnounced -> Nat]
  BY DEF ServerTypes
<1>7. /\ g \in Wanted => announced[g] = 0 /\ announced'[g] = 1
      /\ \A h \in Wanted : h # g => announced'[h] = announced[h]
  BY <1>1, <1>6, WantedAssumption DEF AnnouncedOnce
<1>8. events \in Seq(GoodEvents) /\ events' = Append(events, e) /\ display' = display
  BY <1>4 DEF ClientInv, ChannelsOK, Emit, clientVars
<1>9. /\ Len(events) \in Nat /\ Len(events') = Len(events) + 1
      /\ events'[Len(events) + 1] = e
      /\ \A i \in 1 .. Len(events) : events'[i] = events[i]
  BY <1>8, OneMore
<1>10. GlobalsNew(events, announced, display)
  BY DEF Agreement
<1>11. GlobalsNew(events', announced', display)
  <2>1. g \in Wanted => announced[g] = 0 /\ announced'[g] = 1
    BY <1>7, Zenon
  <2>2. \A h \in Wanted : h # g => announced'[h] = announced[h]
    BY <1>7, Zenon
  <2>3. events'[Len(events) + 1] = Event("global", 2, g)
    BY <1>9, Zenon
  <2> HIDE DEF e
  <2> QED
    BY <1>9, <1>10, <2>1, <2>2, <2>3, GlobalsAnnounced
<1> HIDE DEF e
<1>12. (GlobalsNew(events, announced, display))'
  BY <1>8, <1>11, Zenon
<1>13. Tells(e, Said, Said, scale_at')
  BY <1>5 DEF Tells
<1>14. Said' = Said /\ Said \in News
  BY <1>1, SaidIsNews DEF Said
<1>15. View(objects') = View(objects) /\ OwedIs(objects', configured')
  BY <1>1, Zenon DEF Agreement
<1> QED
  BY <1>1, <1>4, <1>12, <1>13, <1>14, <1>15, EmitAgrees, Zenon

(* An event that announces no global of interest. *)
LEMMA OtherGlobals ==
    ASSUME ClientInv, Agreement, NEW e, Emit(e), UNCHANGED <<announced, clientVars>>,
           e.op = "global" => e.on = 2 /\ e.arg \notin Wanted
    PROVE  (GlobalsNew(events, announced, display))'
<1>1. /\ events \in Seq(GoodEvents) /\ events' = Append(events, e)
      /\ display' = display /\ announced' = announced
  BY DEF ClientInv, ChannelsOK, Emit, clientVars
<1>2. /\ Len(events) \in Nat /\ Len(events') = Len(events) + 1
      /\ events'[Len(events) + 1] = e
      /\ \A i \in 1 .. Len(events) : events'[i] = events[i]
  BY <1>1, OneMore
<1>3. GlobalsNew(events, announced, display)
  BY DEF Agreement
<1>4. GlobalsNew(events', announced, display)
  BY <1>2, <1>3, GlobalsMore, Zenon
<1> QED
  BY <1>1, <1>4, Zenon

(* A scale is preferred.                                                   *)
LEMMA PreferAgrees ==
    ASSUME ClientInv, ServerTypes, Agreement, NEW s, NEW n \in Scales,
           Prefer(s, n), UNCHANGED clientVars
    PROVE  Agreement'
<1> DEFINE e == Event("preferred_buffer_scale", s, n)
           said == [serial |-> configured, scale |-> n]
<1>1. /\ preferred' = Append(preferred, n) /\ Emit(e)
      /\ UNCHANGED <<objects, announced, configured, scale_at>>
  BY DEF Prefer
<1>2. n \in Nat /\ preferred \in Seq(Nat) /\ configured \in Nat
  BY ServerAssumption DEF ServerTypes
<1>3. preferred'[Len(preferred')] = n
  BY <1>1, <1>2
<1>4. Said' = said /\ said \in News
  BY <1>1, <1>2, <1>3 DEF Said, News
<1>5. Tells(e, Said, said, scale_at') /\ e.op # "global"
  BY DEF Tells, Event, Said
<1> HIDE DEF e, said
<1>6. (GlobalsNew(events, announced, display))'
  BY <1>1, <1>5, OtherGlobals
<1>7. View(objects') = View(objects) /\ OwedIs(objects', configured')
  BY <1>1, Zenon DEF Agreement
<1> QED
  BY <1>1, <1>4, <1>5, <1>6, <1>7, EmitAgrees, Zenon

(* An event is sent that is logged only.                                   *)
LEMMA NotifyAgrees ==
    ASSUME ClientInv, ServerTypes, Agreement, NEW o, Notify(o), UNCHANGED clientVars
    PROVE  Agreement'
<1>1. UNCHANGED <<objects, announced, preferred, configured, scale_at>>
  BY DEF Notify
<1>2. PICK e : /\ Emit(e)
               /\ \/ e = Event("notice", o, 0)
                  \/ e = Event("global", o, "wl_output") /\ Is(o, "wl_registry")
  BY DEF Notify
<1>3. /\ e.op = "global" => e.on = 2 /\ e.arg \notin Wanted
      /\ e.op \notin {"configure", "preferred_buffer_scale"}
  <2>1. CASE e = Event("notice", o, 0)
    BY <2>1 DEF Event
  <2>2. CASE e = Event("global", o, "wl_output") /\ Is(o, "wl_registry")
    BY <2>2, TheOnes DEF Event, Is, Wanted
  <2> QED
    BY <1>2, <2>1, <2>2
<1>4. Tells(e, Said, Said, scale_at')
  BY <1>3 DEF Tells
<1>5. Said' = Said /\ Said \in News
  BY <1>1, SaidIsNews DEF Said
<1>6. (GlobalsNew(events, announced, display))'
  BY <1>1, <1>2, <1>3, OtherGlobals
<1>7. View(objects') = View(objects) /\ OwedIs(objects', configured')
  BY <1>1, Zenon DEF Agreement
<1> QED
  BY <1>1, <1>2, <1>4, <1>5, <1>6, <1>7, EmitAgrees, Zenon

(* A layer surface is configured.                                          *)
LEMMA ConfigureAgrees ==
    ASSUME ClientInv, ServerTypes, Agreement, NEW l \in Of("zwlr_layer_surface_v1"),
           Configure(l), UNCHANGED clientVars
    PROVE  Agreement'
<1> DEFINE next == configured + 1
           scale == preferred[Len(preferred)]
           e == Event("configure", l, next)
           said == [serial |-> next, scale |-> scale]
<1>1. /\ configured' = next /\ scale_at' = Append(scale_at, scale)
      /\ objects' = [objects EXCEPT ![l].owed = @ \cup {next}]
      /\ Emit(e)
      /\ UNCHANGED <<announced, preferred>>
  BY DEF Configure
<1>2. /\ scale \in Nat /\ scale_at \in Seq(Nat) /\ Len(scale_at) = configured
      /\ configured \in Nat /\ next \in Nat
  BY DEF ServerTypes
<1>3. PICK m \in Nat : objects \in [1 .. m -> ObjectRecords]
  BY DEF Agreement, OwedIs
<1>4. l \in DOMAIN objects /\ objects[l].interface = "zwlr_layer_surface_v1"
  BY DEF Of
<1>5. /\ DOMAIN scale_at \subseteq DOMAIN scale_at'
      /\ \A n \in DOMAIN scale_at : scale_at'[n] = scale_at[n]
      /\ next \in DOMAIN scale_at' /\ scale_at'[next] = scale
  BY <1>1, <1>2
<1>6. /\ objects' \in [1 .. m -> ObjectRecords]
      /\ DOMAIN objects' = DOMAIN objects
      /\ \A o \in DOMAIN objects :
            /\ objects'[o].interface = objects[o].interface
            /\ objects'[o].of = objects[o].of
            /\ objects'[o].size = objects[o].size
            /\ objects'[o].buffer = objects[o].buffer
            /\ objects'[o].scale = objects[o].scale
            /\ objects'[o].acked = objects[o].acked
            /\ objects'[o].committed = objects[o].committed
            /\ objects'[o].extent = objects[o].extent
            /\ objects'[o].edges = objects[o].edges
            /\ o # l => objects'[o].owed = objects[o].owed
      /\ objects'[l].owed = objects[l].owed \cup {next}
  <2> HIDE DEF next
  <2> QED
    BY <1>1, <1>2, <1>3, <1>4 DEF ObjectRecords
<1>7. View(objects') = View(objects)
  BY <1>6, SameView, Zenon
<1>8. OwedIs(objects', configured')
  <2>1. /\ objects[l].owed = objects[l].acked + 1 .. configured
        /\ objects[l].acked <= configured /\ objects[l].acked \in Nat
    BY <1>3, <1>4 DEF Agreement, OwedIs, ObjectRecords
  <2>2. /\ objects'[l].owed = objects'[l].acked + 1 .. configured'
        /\ objects'[l].acked <= configured'
    <3>1. objects'[l].acked = objects[l].acked
      BY <1>4, <1>6
    <3>2. (objects[l].acked + 1 .. configured) \cup {next}
             = objects[l].acked + 1 .. next
      BY <1>2, <2>1
    <3> QED
      BY <1>1, <1>2, <1>6, <2>1, <3>1, <3>2
  <2>3. ASSUME NEW o \in DOMAIN objects,
               objects[o].interface = "zwlr_layer_surface_v1"
        PROVE  o = l
    <3>1. /\ o \in DOMAIN View(objects) /\ l \in DOMAIN View(objects)
          /\ View(objects)[o].interface = "zwlr_layer_surface_v1"
          /\ View(objects)[l].interface = "zwlr_layer_surface_v1"
      BY <1>4, <2>3, ViewFields
    <3>2. Lone(View(objects), display.layer_surface)
      BY TheOnes
    <3> QED
      BY <3>1, <3>2, Zenon DEF Lone
  <2>4. objects[l].committed = TRUE
    <3>1. objects[l].committed \in BOOLEAN
      BY <1>3, <1>4 DEF ObjectRecords
    <3> QED
      BY <3>1 DEF Configure
  <2> QED
    BY <1>4, <1>6, <2>2, <2>3, <2>4 DEF OwedIs
<1>9. Said' = said /\ said \in News
  BY <1>1, <1>2 DEF Said, News
<1>10. Tells(e, Said, said, scale_at') /\ e.op # "global"
  BY <1>5 DEF Tells, Event, Said
<1> HIDE DEF e, said
<1>11. (GlobalsNew(events, announced, display))'
  BY <1>1, <1>10, OtherGlobals
<1> QED
  BY <1>1, <1>5, <1>7, <1>8, <1>9, <1>10, <1>11, EmitAgrees, Zenon

-----------------------------------------------------------------------------
(* The program's steps. *)
LEMMA Submitting ==
    ASSUME NEW S, NEW seq \in Seq(S), NEW rs \in Seq(S)
    PROVE  /\ Len(seq) \in Nat /\ Len(seq \o rs) = Len(seq) + Len(rs)
           /\ \A i \in 1 .. Len(seq) : (seq \o rs)[i] = seq[i]
           /\ \A i \in 1 .. Len(rs) : (seq \o rs)[Len(seq) + i] = rs[i]
OBVIOUS

(* An event is handled: the requests lead to the objects to2. *)
LEMMA HandledAgrees ==
    ASSUME ClientInv, Agreement, events # <<>>, events' = Tail(events),
           UNCHANGED <<objects, announced, preferred, configured, scale_at, shown,
                       fault>>,
           NEW to, Harmony(to), NEW to2,
           (Sound(requests, View(objects), to2, scale_at, display.layer_surface))',
           (Arranged(to2, display, next_id))',
           \A mid \in News : Tells(Head(events), Heard(to, display), mid, scale_at)
                                => (Heard(to2, display))' = mid,
           \A h \in Wanted : \/ display'[h] = display[h]
                             \/ Head(events).op = "global" /\ Head(events).arg = h
    PROVE  Agreement'
<1>1. events \in Seq(GoodEvents)
  BY DEF ClientInv, ChannelsOK
<1>2. /\ events[1] = Head(events) /\ Len(events) \in Nat /\ Len(events) # 0
      /\ Len(Tail(events)) = Len(events) - 1
      /\ \A i \in 1 .. Len(Tail(events)) : Tail(events)[i] = events[i + 1]
  BY <1>1, HeadAndTail
<1>3. PICK mid \in News : /\ Tells(events[1], Heard(to, display), mid, scale_at)
                          /\ Told(Tail(events), mid, Said, scale_at)
  <2>1. Told(events, Heard(to, display), Said, scale_at)
    BY DEF Harmony
  <2> QED
    BY <1>2, <2>1, ToldHead, Zenon
<1>4. (Heard(to2, display))' = mid
  BY <1>2, <1>3, Zenon
<1>5. (Told(events, Heard(to2, display), Said, scale_at))'
  <2>1. Said' = Said
    BY DEF Said
  <2> QED
    BY <1>3, <1>4, <2>1, Zenon
<1>6. Harmony(to2)'
  BY <1>5 DEF Harmony
<1>7. (GlobalsNew(events, announced, display))'
  <2>1. GlobalsNew(events, announced, display)
    BY DEF Agreement
  <2>2. \A h \in Wanted : \/ display'[h] = display[h]
                          \/ events[1].op = "global" /\ events[1].arg = h
    BY <1>2, Zenon
  <2> DEFINE rest == Tail(events)
             d2 == display'
  <2>3. GlobalsNew(rest, announced, d2)
    <3>1. /\ Len(events) \in Nat /\ Len(events) # 0 /\ Len(rest) = Len(events) - 1
          /\ \A i \in 1 .. Len(rest) : rest[i] = events[i + 1]
      BY <1>2
    <3> HIDE DEF rest, d2
    <3>2. \A h \in Wanted : \/ d2[h] = display[h]
                            \/ events[1].op = "global" /\ events[1].arg = h
      BY <2>2, Zenon DEF d2
    <3> QED
      BY <2>1, <3>1, <3>2, GlobalsHead
  <2> QED
    BY <2>3, Zenon
<1>8. (OwedIs(objects, configured) /\ ShownIs(shown, scale_at) /\ Faultless)'
  BY Zenon DEF Agreement, Faultless
<1> QED
  BY <1>6, <1>7, <1>8, Zenon DEF Agreement

-----------------------------------------------------------------------------
(* What the requests do to objects that are arranged. *)
Lasting(s, s2) ==
    /\ DOMAIN s \subseteq DOMAIN s2 /\ State(s2)
    /\ \A o \in DOMAIN s : s2[o].interface = s[o].interface /\ s2[o].of = s[o].of

(* More objects leave the old ones arranged.                               *)
LEMMA StillArranged ==
    ASSUME NEW s, NEW s2, Lasting(s, s2), NEW d, NEW n \in Nat, n > 2,
           NEW n2 \in Nat, Arranged(s, d, n), DOMAIN s2 = 1 .. n2 - 1
    PROVE  Arranged(s2, d, n2)
<1>1. \A o, k : Named(s, o, k) => Named(s2, o, k)
  BY Zenon DEF Lasting, Named
<1>2. Named(s, 1, "wl_display") /\ Named(s, 2, "wl_registry")
  BY DEF Arranged
<1>3. \A g \in Wanted : d[g] # 0 => Named(s2, d[g], g)
  BY <1>1, Zenon DEF Arranged
<1>4. d.layer_surface # 0 =>
          /\ Named(s2, d.surface, "wl_surface")
          /\ Named(s2, d.layer_surface, "zwlr_layer_surface_v1")
          /\ s2[d.layer_surface].of = d.surface
  BY <1>1, Zenon DEF Arranged, Lasting, Named
<1> QED
  BY <1>1, <1>2, <1>3, <1>4, Zenon DEF Arranged

(* A field is changed. *)
Changed(s, s2, ls) == Lasting(s, s2) /\ Lone(s2, ls) /\ DOMAIN s2 = DOMAIN s

(* Nothing else is lost by the change of a field.                          *)
LEMMA FieldChanged ==
    ASSUME NEW s, State(s), NEW o \in DOMAIN s, NEW v \in Nat, NEW ls, Lone(s, ls)
    PROVE  /\ Changed(s, WithAcked(s, o, v), ls)
           /\ Changed(s, WithBuffer(s, o, v), ls)
           /\ Changed(s, WithScale(s, o, v), ls)
           /\ Changed(s, WithExtent(s, o, v), ls)
           /\ Changed(s, WithEdges(s, o, v), ls)
           /\ WithAcked(s, o, v)[o].acked = v
           /\ WithExtent(s, o, v)[o].extent = v
           /\ WithExtent(s, o, v)[o].acked = s[o].acked
           /\ WithEdges(s, o, v)[o].extent = s[o].extent
           /\ WithEdges(s, o, v)[o].acked = s[o].acked
<1>1. PICK m \in Nat : s \in [1 .. m -> Things]
  BY DEF State
<1>2. ASSUME NEW s2 \in [1 .. m -> Things],
             \A x \in 1 .. m : s2[x].interface = s[x].interface /\ s2[x].of = s[x].of
      PROVE  Changed(s, s2, ls)
  BY <1>1, <1>2 DEF Changed, Lasting, Lone, State
<1>3. Changed(s, WithAcked(s, o, v), ls)
  BY <1>1, <1>2 DEF Things, WithAcked
<1>4. Changed(s, WithBuffer(s, o, v), ls)
  BY <1>1, <1>2 DEF Things, WithBuffer
<1>5. Changed(s, WithScale(s, o, v), ls)
  BY <1>1, <1>2 DEF Things, WithScale
<1>6. Changed(s, WithExtent(s, o, v), ls)
  BY <1>1, <1>2 DEF Things, WithExtent
<1>7. Changed(s, WithEdges(s, o, v), ls)
  BY <1>1, <1>2 DEF Things, WithEdges
<1>8. WithAcked(s, o, v)[o].acked = v
  BY <1>1 DEF Things, WithAcked
<1>9. /\ WithExtent(s, o, v)[o].extent = v
      /\ WithExtent(s, o, v)[o].acked = s[o].acked
  BY <1>1 DEF Things, WithExtent
<1>10. /\ WithEdges(s, o, v)[o].extent = s[o].extent
       /\ WithEdges(s, o, v)[o].acked = s[o].acked
  BY <1>1 DEF Things, WithEdges
<1> QED
  BY <1>3, <1>4, <1>5, <1>6, <1>7, <1>8, <1>9, <1>10, Zenon

(* Nor by a commit.                                                        *)
LEMMA CommitChanges ==
    ASSUME NEW s, State(s), NEW o, NEW ls, Lone(s, ls)
    PROVE  /\ Changed(s, WithCommitted(s, o), ls)
           /\ \A x \in DOMAIN s : WithCommitted(s, o)[x].acked = s[x].acked
<1> DEFINE s2 == WithCommitted(s, o)
<1>1. PICK m \in Nat : s \in [1 .. m -> Things]
  BY DEF State
<1>2. \A t \in Things : /\ AsCommitted(t) \in Things
                        /\ AsCommitted(t).interface = t.interface
                        /\ AsCommitted(t).of = t.of
                        /\ AsCommitted(t).acked = t.acked
  BY DEF AsCommitted, Things
<1>3. DOMAIN s2 = 1 .. m /\ s2 = [x \in 1 .. m |-> s2[x]]
  BY <1>1 DEF WithCommitted
<1>4. \A x \in 1 .. m : s2[x] = s[x] \/ s2[x] = AsCommitted(s[x])
  BY <1>1 DEF WithCommitted
<1> HIDE DEF s2
<1>5. \A x \in 1 .. m : /\ s2[x] \in Things
                        /\ s2[x].interface = s[x].interface
                        /\ s2[x].of = s[x].of
                        /\ s2[x].acked = s[x].acked
  BY <1>1, <1>2, <1>4
<1>6. s2 \in [1 .. m -> Things]
  BY <1>3, <1>5
<1>7. Changed(s, s2, ls)
  BY <1>1, <1>5, <1>6 DEF Changed, Lasting, Lone, State
<1> QED
  BY <1>1, <1>5, <1>7 DEF s2

(* An object is made. *)
Made(s, n, t, ls, s2) ==
    /\ Lasting(s, s2) /\ Lone(s2, ls) /\ DOMAIN s2 = 1 .. (n + 1) - 1
    /\ s2[n] = t /\ n \in DOMAIN s2
    /\ \A o \in DOMAIN s : s2[o] = s[o]

(* Nothing is lost by an object more.                                      *)
LEMMA ObjectMade ==
    ASSUME NEW s, NEW n \in Nat, DOMAIN s = 1 .. n - 1, n # 0,
           NEW kind \in Kinds, NEW of \in Nat, NEW size \in Nat, NEW ls, Lone(s, ls),
           kind # "wl_registry" \/ n = 2,
           kind # "zwlr_layer_surface_v1" \/ n = ls
    PROVE  Made(s, n, Thing(kind, of, size), ls, Put(s, n, Thing(kind, of, size)))
<1> DEFINE t == Thing(kind, of, size)
           s2 == Put(s, n, t)
<1>1. PICK m \in Nat : s \in [1 .. m -> Things]
  BY DEF State, Lone
<1>2. t \in Things /\ t.interface = kind
  BY DEF Thing, Things
<1> HIDE DEF t
<1>3. n \notin DOMAIN s /\ DOMAIN s \cup {n} = 1 .. n
  OBVIOUS
<1>4. /\ s2[n] = t /\ DOMAIN s2 = 1 .. n /\ \A o \in DOMAIN s : s2[o] = s[o]
      /\ s2 = [o \in 1 .. n |-> s2[o]]
  BY <1>3 DEF Put
<1> HIDE DEF s2
<1>5. \A o \in 1 .. n : s2[o] \in Things
  BY <1>1, <1>2, <1>3, <1>4
<1>6. s2 \in [1 .. n -> Things]
  BY <1>4, <1>5
<1>7. State(s2)
  BY <1>6 DEF State
<1>8. Lone(s2, ls)
  BY <1>2, <1>3, <1>4, <1>7 DEF Lone
<1>9. Lasting(s, s2)
  BY <1>3, <1>4, <1>7 DEF Lasting
<1>10. (n + 1) - 1 = n /\ n \in 1 .. n
  OBVIOUS
<1>11. Made(s, n, t, ls, s2)
  BY <1>4, <1>8, <1>9, <1>10, Zenon DEF Made
<1> QED
  BY <1>11 DEF t, s2

-----------------------------------------------------------------------------
(* What handle_configure asks for. *)
LEMMA PlainFine ==
    ASSUME NEW r, NEW s, NEW sat,
           r.op \notin {"get_layer_surface", "ack_configure", "set_anchor",
                        "create_buffer", "commit"},
           FineTarget(r, s), FineNew(r, s)
    PROVE  Fine(r, s, sat)
BY DEF Fine, FineLayer, FineAck, FineBuffer, FineCommit, FineAnchor, FineFirst

(* A request that makes an object is fine when the id is the next one.     *)
LEMMA MakeFine ==
    ASSUME NEW op \in {"get_registry", "create_surface", "create_region", "create_pool",
                       "bind_wl_compositor", "bind_wl_shm",
                       "bind_zwlr_layer_shell_v1"},
           NEW on, NEW id \in Nat, NEW n, NEW s, NEW sat,
           DOMAIN s = 1 .. id - 1, id # 0, Named(s, on, Signature[op][1])
    PROVE  /\ Fine(Request(op, on, id, n), s, sat)
           /\ After(Request(op, on, id, n), s)
                = Put(s, id, Thing(Signature[op][3], n, n))
<1> DEFINE r == Request(op, on, id, n)
<1>1. r.op = op /\ r.on = on /\ r.id = id /\ r.n = n
  BY DEF Request
<1>2. Signature[op][2] = "none" /\ Signature[op][3] # "none"
  BY DEF Signature
<1> HIDE DEF r
<1>3. FineTarget(r, s)
  BY <1>1, <1>2, Zenon DEF FineTarget
<1>4. FineNew(r, s)
  BY <1>1 DEF FineNew
<1>5. Fine(r, s, sat)
  BY <1>1, <1>3, <1>4, PlainFine
<1>6. After(r, s) = Put(s, id, Thing(Signature[op][3], n, n))
  BY <1>1, <1>2, Zenon DEF After
<1> QED
  BY <1>5, <1>6 DEF r

(* An acknowledgement is fine when it is of the next configure event.      *)
LEMMA AckFine ==
    ASSUME NEW on, NEW n, NEW s, NEW sat, Named(s, on, "zwlr_layer_surface_v1"),
           n = s[on].acked + 1, n \in DOMAIN sat
    PROVE  /\ Fine(Request("ack_configure", on, 0, n), s, sat)
           /\ After(Request("ack_configure", on, 0, n), s)
                = WithAcked(s, on, n)
<1> DEFINE r == Request("ack_configure", on, 0, n)
<1>1. r.op = "ack_configure" /\ r.on = on /\ r.n = n
  BY DEF Request
<1>2. Signature[r.op] = <<"zwlr_layer_surface_v1", "none", "none">>
  BY <1>1 DEF Signature
<1> HIDE DEF r
<1>3. /\ FineTarget(r, s) /\ FineNew(r, s) /\ FineLayer(r, s) /\ FineAck(r, s, sat)
      /\ FineBuffer(r, s) /\ FineCommit(r, s, sat) /\ FineAnchor(r) /\ FineFirst(r, s)
  BY <1>1, <1>2 DEF FineTarget, FineNew, FineLayer, FineAck, FineBuffer, FineCommit,
                    FineAnchor, FineFirst
<1>4. After(r, s) = WithAcked(s, on, n)
  BY <1>1, <1>2 DEF After
<1> QED
  BY <1>3, <1>4, Zenon DEF Fine, r

(* The size of a layer surface may be set.                                 *)
LEMMA SizeFine ==
    ASSUME NEW on, NEW n, NEW s, NEW sat, Named(s, on, "zwlr_layer_surface_v1")
    PROVE  /\ Fine(Request("set_size", on, 0, n), s, sat)
           /\ After(Request("set_size", on, 0, n), s) = WithExtent(s, on, n)
<1> DEFINE r == Request("set_size", on, 0, n)
<1>1. r.op = "set_size" /\ r.on = on /\ r.n = n
  BY DEF Request
<1>2. Signature[r.op] = <<"zwlr_layer_surface_v1", "none", "none">>
  BY <1>1 DEF Signature
<1> HIDE DEF r
<1>3. FineTarget(r, s) /\ FineNew(r, s) /\ After(r, s) = WithExtent(s, on, n)
  BY <1>1, <1>2 DEF FineTarget, FineNew, After
<1> QED
  BY <1>1, <1>3, PlainFine DEF r

(* So may its anchor, to edges that there are.                             *)
LEMMA AnchorFine ==
    ASSUME NEW on, NEW n, ~ (n > AllEdges), NEW s, NEW sat,
           Named(s, on, "zwlr_layer_surface_v1")
    PROVE  /\ Fine(Request("set_anchor", on, 0, n), s, sat)
           /\ After(Request("set_anchor", on, 0, n), s) = WithEdges(s, on, n)
<1> DEFINE r == Request("set_anchor", on, 0, n)
<1>1. r.op = "set_anchor" /\ r.on = on /\ r.n = n
  BY DEF Request
<1>2. Signature[r.op] = <<"zwlr_layer_surface_v1", "none", "none">>
  BY <1>1 DEF Signature
<1> HIDE DEF r
<1>3. /\ FineTarget(r, s) /\ FineNew(r, s) /\ FineLayer(r, s) /\ FineAck(r, s, sat)
      /\ FineBuffer(r, s) /\ FineCommit(r, s, sat) /\ FineFirst(r, s)
  BY <1>1, <1>2 DEF FineTarget, FineNew, FineLayer, FineAck, FineBuffer, FineCommit,
                    FineFirst
<1>4. FineAnchor(r)
  BY <1>1, Zenon DEF FineAnchor
<1>5. After(r, s) = WithEdges(s, on, n)
  BY <1>1, <1>2 DEF After
<1> QED
  BY <1>3, <1>4, <1>5, Zenon DEF Fine, r

(* A buffer that fits its pool is fine.                                    *)
LEMMA BufferFine ==
    ASSUME NEW on, NEW id \in Nat, NEW n \in Nat, NEW s, NEW sat,
           Named(s, on, "wl_shm_pool"), s[on].size = n,
           DOMAIN s = 1 .. id - 1, id # 0
    PROVE  /\ Fine(Request("create_buffer", on, id, n), s, sat)
           /\ After(Request("create_buffer", on, id, n), s)
                = Put(s, id, Thing("wl_buffer", n, n))
<1> DEFINE r == Request("create_buffer", on, id, n)
<1>1. r.op = "create_buffer" /\ r.on = on /\ r.n = n /\ r.id = id
  BY DEF Request
<1>2. Signature[r.op] = <<"wl_shm_pool", "none", "wl_buffer">>
  BY <1>1 DEF Signature
<1> HIDE DEF r
<1>3. /\ FineTarget(r, s) /\ FineNew(r, s) /\ FineLayer(r, s) /\ FineAck(r, s, sat)
      /\ FineBuffer(r, s) /\ FineCommit(r, s, sat) /\ FineAnchor(r) /\ FineFirst(r, s)
  BY <1>1, <1>2 DEF FineTarget, FineNew, FineLayer, FineAck, FineBuffer, FineCommit,
                    FineAnchor, FineFirst
<1>4. After(r, s) = Put(s, id, Thing("wl_buffer", n, n))
  BY <1>1, <1>2 DEF After
<1> QED
  BY <1>3, <1>4, Zenon DEF Fine, r

(* A buffer may be attached.                                               *)
LEMMA AttachFine ==
    ASSUME NEW on, NEW id, NEW s, NEW sat,
           Named(s, on, "wl_surface"), Named(s, id, "wl_buffer")
    PROVE  /\ Fine(Request("attach", on, id, 0), s, sat)
           /\ After(Request("attach", on, id, 0), s) = WithBuffer(s, on, id)
<1> DEFINE r == Request("attach", on, id, 0)
<1>1. r.op = "attach" /\ r.on = on /\ r.id = id
  BY DEF Request
<1>2. Signature[r.op] = <<"wl_surface", "wl_buffer", "none">>
  BY <1>1 DEF Signature
<1> HIDE DEF r
<1>3. /\ FineTarget(r, s) /\ FineNew(r, s)
      /\ After(r, s) = WithBuffer(s, on, id)
  BY <1>1, <1>2 DEF FineTarget, FineNew, After
<1> QED
  BY <1>1, <1>3, PlainFine DEF r

(* The scale of a surface may be set.                                      *)
LEMMA ScaleFine ==
    ASSUME NEW on, NEW n, NEW s, NEW sat, Named(s, on, "wl_surface")
    PROVE  /\ Fine(Request("set_buffer_scale", on, 0, n), s, sat)
           /\ After(Request("set_buffer_scale", on, 0, n), s) = WithScale(s, on, n)
<1> DEFINE r == Request("set_buffer_scale", on, 0, n)
<1>1. r.op = "set_buffer_scale" /\ r.on = on /\ r.n = n
  BY DEF Request
<1>2. Signature[r.op] = <<"wl_surface", "none", "none">>
  BY <1>1 DEF Signature
<1> HIDE DEF r
<1>3. /\ FineTarget(r, s) /\ FineNew(r, s)
      /\ After(r, s) = WithScale(s, on, n)
  BY <1>1, <1>2 DEF FineTarget, FineNew, After
<1> QED
  BY <1>1, <1>3, PlainFine DEF r

(* A region may be set.                                                    *)
LEMMA RegionFine ==
    ASSUME NEW on, NEW id, NEW s, NEW sat,
           Named(s, on, "wl_surface"), Named(s, id, "wl_region")
    PROVE  /\ Fine(Request("set_input_region", on, id, 0), s, sat)
           /\ After(Request("set_input_region", on, id, 0), s) = s
<1> DEFINE r == Request("set_input_region", on, id, 0)
<1>1. r.op = "set_input_region" /\ r.on = on /\ r.id = id
  BY DEF Request
<1>2. Signature[r.op] = <<"wl_surface", "wl_region", "none">>
  BY <1>1 DEF Signature
<1> HIDE DEF r
<1>3. FineTarget(r, s) /\ FineNew(r, s) /\ After(r, s) = s
  BY <1>1, <1>2 DEF FineTarget, FineNew, After
<1> QED
  BY <1>1, <1>3, PlainFine DEF r

(* A commit is fine when it is the first and shows nothing, or when the    *)
(* scale is that of the configure event answered.                          *)
LEMMA CommitFine ==
    ASSUME NEW on, NEW s, NEW sat, Named(s, on, "wl_surface"),
           \/ /\ s[on].buffer = 0
              /\ \A l \in LayersOf(s, on) : s[l].committed = FALSE
           \/ /\ s[on].buffer # 0
              /\ LayersOf(s, on) # {}
              /\ \A l \in LayersOf(s, on) :
                    /\ s[l].acked # 0 /\ s[l].acked \in DOMAIN sat
                    /\ sat[s[l].acked] = s[on].scale
                    /\ s[l].extent # 0
              /\ s[on].buffer \in DOMAIN s
              /\ s[s[on].buffer].size % s[on].scale = 0
    PROVE  /\ Fine(Request("commit", on, 0, 0), s, sat)
           /\ After(Request("commit", on, 0, 0), s) = WithCommitted(s, on)
<1> DEFINE r == Request("commit", on, 0, 0)
<1>1. r.op = "commit" /\ r.on = on
  BY DEF Request
<1>2. Signature[r.op] = <<"wl_surface", "none", "none">>
  BY <1>1 DEF Signature
<1> HIDE DEF r
<1>3. /\ FineTarget(r, s) /\ FineNew(r, s) /\ FineLayer(r, s) /\ FineAck(r, s, sat)
      /\ FineBuffer(r, s) /\ FineAnchor(r) /\ After(r, s) = WithCommitted(s, on)
  BY <1>1, <1>2 DEF FineTarget, FineNew, FineLayer, FineAck, FineBuffer, FineAnchor,
                    After
<1>4. FineCommit(r, s, sat)
  BY <1>1, Zenon DEF FineCommit
<1>5. FineFirst(r, s)
  BY <1>1, Zenon DEF FineFirst
<1> QED
  BY <1>3, <1>4, <1>5, Zenon DEF Fine, r

(* A surface that has no role yet may have one. *)
RoleFree(s, on, id, n) ==
    /\ Named(s, on, "zwlr_layer_shell_v1") /\ Named(s, n, "wl_surface")
    /\ s[n].buffer = 0 /\ LayersOf(s, n) = {}
    /\ DOMAIN s = 1 .. id - 1 /\ id \in Nat \ {0}

RoleTaken(s, on, id, n, sat) ==
    /\ Fine(Request("get_layer_surface", on, id, n), s, sat)
    /\ After(Request("get_layer_surface", on, id, n), s)
         = Put(s, id, Thing("zwlr_layer_surface_v1", n, n))

(* A layer surface is fine for a surface without a role.                   *)
LEMMA LayerFine ==
    ASSUME NEW on, NEW id, NEW n, NEW s, NEW sat, RoleFree(s, on, id, n)
    PROVE  RoleTaken(s, on, id, n, sat)
<1>0. /\ Named(s, on, "zwlr_layer_shell_v1") /\ Named(s, n, "wl_surface")
      /\ s[n].buffer = 0 /\ LayersOf(s, n) = {}
      /\ DOMAIN s = 1 .. id - 1 /\ id \in Nat \ {0}
  BY DEF RoleFree
<1> DEFINE r == Request("get_layer_surface", on, id, n)
<1>1. r.op = "get_layer_surface" /\ r.on = on /\ r.n = n /\ r.id = id
  BY DEF Request
<1>2. Signature[r.op] = <<"zwlr_layer_shell_v1", "none", "zwlr_layer_surface_v1">>
  BY <1>1 DEF Signature
<1> HIDE DEF r
<1>3. FineTarget(r, s) /\ FineNew(r, s) /\ FineLayer(r, s)
  BY <1>0, <1>1, <1>2 DEF FineTarget, FineNew, FineLayer
<1>4. /\ FineAck(r, s, sat) /\ FineBuffer(r, s) /\ FineCommit(r, s, sat)
      /\ FineAnchor(r) /\ FineFirst(r, s)
  BY <1>1 DEF FineAck, FineBuffer, FineCommit, FineAnchor, FineFirst
<1>5. After(r, s) = Put(s, id, Thing("zwlr_layer_surface_v1", n, n))
  BY <1>1, <1>2 DEF After
<1> QED
  BY <1>3, <1>4, <1>5, Zenon DEF Fine, r, RoleTaken

(* One request more, at the next place.                                    *)
LEMMA SoundNext ==
    ASSUME NEW rs, NEW n \in Nat, NEW n2, n2 = n + 1,
           NEW from, NEW s, NEW s2, NEW sat, NEW ls,
           SoundUpTo(rs, n, from, s, sat, ls),
           Fine(rs[n2], s, sat), After(rs[n2], s) = s2, Lone(s2, ls)
    PROVE  SoundUpTo(rs, n2, from, s2, sat, ls)
BY SoundMore

(* The ten requests of handle_configure, after the first m of rs, for what *)
(* the program knows.                                                      *)
Places(rs, m, d, c, scale, size) ==
    /\ rs[m + 1] = Request("ack_configure", d.layer_surface, 0, c)
    /\ rs[m + 2] = Request("set_size", d.layer_surface, 0, size \div scale)
    /\ rs[m + 3] = Request("set_anchor", d.layer_surface, 0, BottomRight)

Begins(rs, m, d, n, size) ==
    /\ rs[m + 4] = Request("create_region", d.wl_compositor, n, 0)
    /\ rs[m + 5] = Request("create_pool", d.wl_shm, n + 1, size)

Ends(rs, m, d, n, scale, size) ==
    /\ rs[m + 6] = Request("create_buffer", n + 1, n + 2, size)
    /\ rs[m + 7] = Request("attach", d.surface, n + 2, 0)
    /\ rs[m + 8] = Request("set_buffer_scale", d.surface, 0, scale)
    /\ rs[m + 9] = Request("set_input_region", d.surface, n, 0)
    /\ rs[m + 10] = Request("commit", d.surface, 0, 0)

SetTo(q, s, o, s2, buffer, scale) ==
    /\ s2 \in [1 .. q -> Things]
    /\ s2[o].buffer = buffer /\ s2[o].scale = scale
    /\ s2[o].interface = s[o].interface
    /\ \A x \in 1 .. q : x # o => s2[x] = s[x]

(* A field is set and the objects stay arranged.                           *)
LEMMA FieldSet ==
    ASSUME NEW q, NEW s \in [1 .. q -> Things], NEW o \in 1 .. q, NEW v \in Nat
    PROVE  /\ SetTo(q, s, o, WithBuffer(s, o, v), v, s[o].scale)
           /\ SetTo(q, s, o, WithScale(s, o, v), s[o].buffer, v)
<1>1. s[o] \in Things
  OBVIOUS
<1>2. SetTo(q, s, o, WithBuffer(s, o, v), v, s[o].scale)
  BY <1>1 DEF Things, WithBuffer, SetTo
<1>3. SetTo(q, s, o, WithScale(s, o, v), s[o].buffer, v)
  BY <1>1 DEF Things, WithScale, SetTo
<1> QED
  BY <1>2, <1>3

(* Before the first of them, and after the third and the fifth. *)
Addressed(d, n, sat, c, scale, size, m) ==
    /\ d.layer_surface # 0 /\ d.wl_compositor # 0 /\ d.wl_shm # 0
    /\ n \in Nat /\ n > 2 /\ m \in Nat
    /\ c \in DOMAIN sat /\ c \in Nat /\ c # 0 /\ sat[c] = scale
    /\ scale \in Nat /\ size \in Nat /\ size % scale = 0
    /\ size \div scale \in Nat \ {0}

Answering(d, n, s, c) ==
    /\ Arranged(s, d, n) /\ Lone(s, d.layer_surface)
    /\ c = s[d.layer_surface].acked + 1

Placed(d, n, s, c) ==
    /\ Arranged(s, d, n) /\ Lone(s, d.layer_surface)
    /\ s[d.layer_surface].acked = c /\ s[d.layer_surface].extent # 0

Pooled(d, n, s, c, size) ==
    /\ Placed(d, n + 2, s, c)
    /\ Named(s, n, "wl_region")
    /\ Named(s, n + 1, "wl_shm_pool") /\ s[n + 1].size = size

(* The first three of them acknowledge and set the size and the anchor.    *)
LEMMA AnswerPlaced ==
    ASSUME NEW d, NEW n, NEW s, NEW sat, NEW c, NEW scale, NEW size,
           NEW rs, NEW m, NEW from,
           Addressed(d, n, sat, c, scale, size, m), Answering(d, n, s, c),
           SoundUpTo(rs, m, from, s, sat, d.layer_surface),
           Places(rs, m, d, c, scale, size)
    PROVE  \E s2 : /\ SoundUpTo(rs, m + 3, from, s2, sat, d.layer_surface)
                   /\ Placed(d, n, s2, c)
<1> DEFINE ls == d.layer_surface
           w == size \div scale
           s1 == WithAcked(s, ls, c)
           s2 == WithExtent(s1, ls, w)
           s3 == WithEdges(s2, ls, BottomRight)
<1>1. /\ ls # 0 /\ n \in Nat /\ n > 2 /\ m \in Nat
      /\ c \in DOMAIN sat /\ c \in Nat /\ w \in Nat /\ w # 0
      /\ Arranged(s, d, n) /\ Lone(s, ls) /\ c = s[ls].acked + 1
      /\ SoundUpTo(rs, m, from, s, sat, ls)
      /\ BottomRight \in Nat /\ ~ (BottomRight > AllEdges)
  BY DEF Addressed, Answering, BottomRight, AllEdges
<1>2. /\ rs[m + 1] = Request("ack_configure", ls, 0, c)
      /\ rs[m + 2] = Request("set_size", ls, 0, w)
      /\ rs[m + 3] = Request("set_anchor", ls, 0, BottomRight)
  BY Zenon DEF Places
<1>3. Named(s, ls, "zwlr_layer_surface_v1") /\ ls \in DOMAIN s /\ State(s)
      /\ DOMAIN s = 1 .. n - 1
  BY <1>1 DEF Arranged, Lone, Named
<1> HIDE DEF ls, w
<1>4. /\ Fine(rs[m + 1], s, sat) /\ After(rs[m + 1], s) = s1
      /\ Changed(s, s1, ls) /\ s1[ls].acked = c
  <2>1. /\ Fine(Request("ack_configure", ls, 0, c), s, sat)
        /\ After(Request("ack_configure", ls, 0, c), s) = s1
    BY <1>1, <1>3, AckFine, Zenon
  <2>2. Changed(s, s1, ls) /\ s1[ls].acked = c
    <3>1. State(s) /\ ls \in DOMAIN s /\ c \in Nat /\ Lone(s, ls)
      BY <1>1, <1>3, Zenon
    <3> QED
      BY <3>1, FieldChanged, ZenonT(30)
  <2> QED
    BY <1>2, <2>1, <2>2, Zenon
<1> HIDE DEF s1
<1>5. /\ DOMAIN s1 = 1 .. n - 1 /\ Lone(s1, ls) /\ State(s1) /\ ls \in DOMAIN s1
      /\ Arranged(s1, d, n)
  <2>1. DOMAIN s1 = 1 .. n - 1 /\ Lone(s1, ls) /\ State(s1) /\ ls \in DOMAIN s1
    BY <1>3, <1>4, Zenon DEF Changed, Lone
  <2> QED
    BY <1>1, <1>4, <2>1, StillArranged, Zenon DEF Changed
<1>6. Named(s1, ls, "zwlr_layer_surface_v1")
  BY <1>3, <1>4, <1>5, Zenon DEF Named, Changed, Lasting
<1>7. /\ Fine(rs[m + 2], s1, sat) /\ After(rs[m + 2], s1) = s2
      /\ Changed(s1, s2, ls) /\ s2[ls].extent = w /\ s2[ls].acked = c
  <2>1. /\ Fine(Request("set_size", ls, 0, w), s1, sat)
        /\ After(Request("set_size", ls, 0, w), s1) = s2
    BY <1>6, SizeFine, Zenon
  <2>2. Changed(s1, s2, ls) /\ s2[ls].extent = w /\ s2[ls].acked = s1[ls].acked
    <3>1. State(s1) /\ ls \in DOMAIN s1 /\ w \in Nat /\ Lone(s1, ls)
      BY <1>1, <1>5, Zenon
    <3> QED
      BY <3>1, FieldChanged, ZenonT(30)
  <2> QED
    BY <1>2, <1>4, <2>1, <2>2, Zenon
<1> HIDE DEF s2
<1>8. /\ DOMAIN s2 = 1 .. n - 1 /\ Lone(s2, ls) /\ State(s2) /\ ls \in DOMAIN s2
      /\ Arranged(s2, d, n)
  <2>1. DOMAIN s2 = 1 .. n - 1 /\ Lone(s2, ls) /\ State(s2) /\ ls \in DOMAIN s2
    BY <1>5, <1>7, Zenon DEF Changed, Lone
  <2> QED
    BY <1>1, <1>5, <1>7, <2>1, StillArranged, Zenon DEF Changed
<1>9. Named(s2, ls, "zwlr_layer_surface_v1")
  BY <1>5, <1>6, <1>7, <1>8, Zenon DEF Named, Changed, Lasting
<1>10. /\ Fine(rs[m + 3], s2, sat) /\ After(rs[m + 3], s2) = s3
       /\ Changed(s2, s3, ls) /\ s3[ls].extent = w /\ s3[ls].acked = c
  <2>1. /\ Fine(Request("set_anchor", ls, 0, BottomRight), s2, sat)
        /\ After(Request("set_anchor", ls, 0, BottomRight), s2) = s3
    BY <1>1, <1>9, AnchorFine, Zenon
  <2>2. /\ Changed(s2, s3, ls) /\ s3[ls].extent = s2[ls].extent
        /\ s3[ls].acked = s2[ls].acked
    <3>1. State(s2) /\ ls \in DOMAIN s2 /\ BottomRight \in Nat /\ Lone(s2, ls)
      BY <1>1, <1>8, Zenon
    <3> QED
      BY <3>1, FieldChanged, ZenonT(30)
  <2> QED
    BY <1>2, <1>7, <2>1, <2>2, Zenon
<1> HIDE DEF s3
<1>11. Lone(s3, ls) /\ Arranged(s3, d, n)
  <2>1. DOMAIN s3 = 1 .. n - 1 /\ Lone(s3, ls)
    BY <1>8, <1>10, Zenon DEF Changed
  <2> QED
    BY <1>1, <1>8, <1>10, <2>1, StillArranged, Zenon DEF Changed
<1>12. SoundUpTo(rs, m + 1, from, s1, sat, ls)
  <2>1. m + 1 = m + 1
    OBVIOUS
  <2>2. SoundUpTo(rs, m, from, s, sat, ls) /\ m \in Nat
    BY <1>1, Zenon
  <2>3. Fine(rs[m + 1], s, sat) /\ After(rs[m + 1], s) = s1 /\ Lone(s1, ls)
    BY <1>4, <1>5, Zenon
  <2> QED
    BY <2>1, <2>2, <2>3, SoundNext
<1>13. SoundUpTo(rs, m + 2, from, s2, sat, ls)
  <2>1. m + 1 \in Nat /\ m + 2 = (m + 1) + 1
    BY <1>1
  <2>2. Fine(rs[m + 2], s1, sat) /\ After(rs[m + 2], s1) = s2 /\ Lone(s2, ls)
    BY <1>7, <1>8, Zenon
  <2> QED
    BY <1>12, <2>1, <2>2, SoundNext
<1>14. SoundUpTo(rs, m + 3, from, s3, sat, ls)
  <2>1. m + 2 \in Nat /\ m + 3 = (m + 2) + 1
    BY <1>1
  <2>2. Fine(rs[m + 3], s2, sat) /\ After(rs[m + 3], s2) = s3 /\ Lone(s3, ls)
    BY <1>10, <1>11, Zenon
  <2> QED
    BY <1>13, <2>1, <2>2, SoundNext
<1>15. s3[ls].acked = c /\ s3[ls].extent # 0
  BY <1>1, <1>10, Zenon
<1> QED
  BY <1>11, <1>14, <1>15, Zenon DEF ls, Placed

(* The next two make a region and a pool.                                  *)
LEMMA AnswerBegun ==
    ASSUME NEW d, NEW n, NEW s, NEW sat, NEW c, NEW scale, NEW size,
           NEW rs, NEW m, NEW from,
           Addressed(d, n, sat, c, scale, size, m), Placed(d, n, s, c),
           SoundUpTo(rs, m + 3, from, s, sat, d.layer_surface),
           Begins(rs, m, d, n, size)
    PROVE  \E s2 : /\ SoundUpTo(rs, m + 5, from, s2, sat, d.layer_surface)
                   /\ Pooled(d, n, s2, c, size)
<1>0. /\ d.layer_surface # 0 /\ d.wl_compositor # 0 /\ d.wl_shm # 0
      /\ n \in Nat /\ n > 2 /\ m \in Nat
      /\ c \in DOMAIN sat /\ c \in Nat /\ size \in Nat
      /\ Arranged(s, d, n) /\ Lone(s, d.layer_surface)
      /\ s[d.layer_surface].acked = c /\ s[d.layer_surface].extent # 0
  BY DEF Addressed, Placed
<1> USE <1>0
<1> DEFINE ls == d.layer_surface
           t2 == Thing("wl_region", 0, 0)
           s2 == Put(s, n, t2)
           t3 == Thing("wl_shm_pool", size, size)
           s3 == Put(s2, n + 1, t3)
<1>1. /\ DOMAIN s = 1 .. n - 1 /\ State(s)
      /\ Named(s, ls, "zwlr_layer_surface_v1") /\ ls \in DOMAIN s
      /\ Named(s, d.wl_compositor, "wl_compositor") /\ Named(s, d.wl_shm, "wl_shm")
  BY DEF Arranged, Wanted, Lone, Named
<1>2. /\ "wl_region" \in Kinds /\ "wl_shm_pool" \in Kinds
      /\ Signature["create_region"] = <<"wl_compositor", "none", "wl_region">>
      /\ Signature["create_pool"] = <<"wl_shm", "none", "wl_shm_pool">>
  BY DEF Kinds, Signature
<1>3. /\ n + 1 \in Nat /\ n # 0 /\ n + 1 # 0 /\ n + 1 > 2
      /\ DOMAIN s = 1 .. n - 1 /\ (n + 1) + 1 = n + 2 /\ n + 2 \in Nat
      /\ m + 3 \in Nat /\ m + 4 \in Nat
      /\ m + 4 = (m + 3) + 1 /\ m + 5 = (m + 4) + 1
  BY <1>1
<1>4. t2.interface = "wl_region" /\ t3.interface = "wl_shm_pool" /\ t3.size = size
  BY DEF Thing
<1> HIDE DEF t2, t3
<1>5. Fine(rs[m + 4], s, sat) /\ After(rs[m + 4], s) = s2
  <2>1. Named(s, d.wl_compositor, Signature["create_region"][1])
    BY <1>2, <1>1
  <2>2. Put(s, n, Thing(Signature["create_region"][3], 0, 0)) = s2
    BY <1>2 DEF t2
  <2>3. rs[m + 4] = Request("create_region", d.wl_compositor, n, 0)
    BY DEF Begins
  <2> HIDE DEF s2
  <2>4. DOMAIN s = 1 .. n - 1 /\ n \in Nat /\ n # 0
    BY <1>3, <1>1, Zenon
  <2>5. /\ Fine(Request("create_region", d.wl_compositor, n, 0), s, sat)
        /\ After(Request("create_region", d.wl_compositor, n, 0), s)
             = Put(s, n, Thing(Signature["create_region"][3], 0, 0))
    BY <2>1, <2>4, MakeFine
  <2> QED
    BY <2>2, <2>3, <2>5, Zenon
<1>6. Made(s, n, t2, ls, s2)
  <2>1. Made(s, n, Thing("wl_region", 0, 0), ls, Put(s, n, Thing("wl_region", 0, 0)))
    BY <1>2, <1>3, <1>1, ObjectMade
  <2> QED
    BY <2>1 DEF t2
<1> HIDE DEF s2
<1>7. /\ Lasting(s, s2) /\ Lone(s2, ls) /\ DOMAIN s2 = 1 .. (n + 1) - 1
       /\ s2[n] = t2 /\ n \in DOMAIN s2 /\ \A o \in DOMAIN s : s2[o] = s[o]
  BY <1>6, Zenon DEF Made
<1>8. Arranged(s2, d, n + 1)
  BY <1>3, <1>0, <1>7, StillArranged
<1>9. Named(s2, d.wl_shm, "wl_shm") /\ s2[ls].acked = c /\ s2[ls].extent # 0
  <2>1. Named(s2, d.wl_shm, "wl_shm")
    BY <1>8 DEF Arranged, Wanted
  <2> QED
    BY <1>0, <1>1, <1>7, <2>1, Zenon
<1>10. Fine(rs[m + 5], s2, sat) /\ After(rs[m + 5], s2) = s3
  <2>1. Named(s2, d.wl_shm, Signature["create_pool"][1])
    BY <1>2, <1>9
  <2>2. Put(s2, n + 1, Thing(Signature["create_pool"][3], size, size)) = s3
    BY <1>2 DEF t3
  <2>3. rs[m + 5] = Request("create_pool", d.wl_shm, n + 1, size)
    BY DEF Begins
  <2> HIDE DEF s3
  <2>4. DOMAIN s2 = 1 .. (n + 1) - 1 /\ n + 1 \in Nat /\ n + 1 # 0
    BY <1>3, <1>7, Zenon
  <2>5. /\ Fine(Request("create_pool", d.wl_shm, n + 1, size), s2, sat)
        /\ After(Request("create_pool", d.wl_shm, n + 1, size), s2)
             = Put(s2, n + 1, Thing(Signature["create_pool"][3], size, size))
    BY <2>1, <2>4, MakeFine
  <2> QED
    BY <2>2, <2>3, <2>5, Zenon
<1>11. Made(s2, n + 1, t3, ls, s3)
  <2>1. Made(s2, n + 1, Thing("wl_shm_pool", size, size), ls,
             Put(s2, n + 1, Thing("wl_shm_pool", size, size)))
    BY <1>2, <1>3, <1>7, ObjectMade
  <2> QED
    BY <2>1 DEF t3
<1> HIDE DEF s3
<1>12. /\ Lasting(s2, s3) /\ Lone(s3, ls) /\ DOMAIN s3 = 1 .. ((n + 1) + 1) - 1
       /\ s3[n + 1] = t3 /\ n + 1 \in DOMAIN s3 /\ \A o \in DOMAIN s2 : s3[o] = s2[o]
  BY <1>11, Zenon DEF Made
<1>13. Arranged(s3, d, n + 2)
  <2>1. DOMAIN s3 = 1 .. (n + 2) - 1
    BY <1>3, <1>12
  <2> QED
    BY <1>3, <1>8, <1>12, <2>1, StillArranged
<1>14. /\ Named(s3, n, "wl_region") /\ Named(s3, n + 1, "wl_shm_pool")
       /\ s3[n + 1].size = size /\ s3[ls].acked = c /\ s3[ls].extent # 0
  <2>1. ls \in DOMAIN s2 /\ n \in DOMAIN s3
    BY <1>1, <1>7, <1>12, Zenon DEF Lasting
  <2>2. s3[ls] = s2[ls] /\ s3[n] = t2
    BY <1>7, <1>12, <2>1, Zenon
  <2> QED
    BY <1>4, <1>9, <1>12, <2>1, <2>2, Zenon DEF Named
<1> HIDE DEF ls
<1>15. SoundUpTo(rs, m + 4, from, s2, sat, ls)
  <2>1. m + 3 \in Nat /\ m + 4 = (m + 3) + 1
    BY <1>3
  <2>2. SoundUpTo(rs, m + 3, from, s, sat, ls)
    BY DEF ls
  <2>3. Fine(rs[m + 4], s, sat) /\ After(rs[m + 4], s) = s2 /\ Lone(s2, ls)
    BY <1>5, <1>7, Zenon
  <2> QED
    BY <2>1, <2>2, <2>3, SoundNext
<1>16. SoundUpTo(rs, m + 5, from, s3, sat, ls)
  <2>1. m + 4 \in Nat /\ m + 5 = (m + 4) + 1
    BY <1>3
  <2>2. Fine(rs[m + 5], s2, sat) /\ After(rs[m + 5], s2) = s3 /\ Lone(s3, ls)
    BY <1>10, <1>12, Zenon
  <2> QED
    BY <1>15, <2>1, <2>2, SoundNext
<1> QED
  BY <1>12, <1>13, <1>14, <1>16, Zenon DEF ls, Pooled, Placed

(* Before the last five of them, and after them. *)
Ending(rs, m, d, n, from, s, sat, c, scale, size) ==
    /\ Addressed(d, n, sat, c, scale, size, m) /\ Pooled(d, n, s, c, size)
    /\ SoundUpTo(rs, m + 5, from, s, sat, d.layer_surface)
    /\ Ends(rs, m, d, n, scale, size)

Ended(rs, m, d, n, from, sat, c) ==
    \E s2 : /\ SoundUpTo(rs, m + 10, from, s2, sat, d.layer_surface)
            /\ Arranged(s2, d, n + 3) /\ s2[d.layer_surface].acked = c

(* The other five make a buffer in the pool and show it.                   *)
LEMMA AnswerEnded ==
    ASSUME NEW d, NEW n, NEW s, NEW sat, NEW c, NEW scale, NEW size,
           NEW rs, NEW m, NEW from,
           Ending(rs, m, d, n, from, s, sat, c, scale, size)
    PROVE  Ended(rs, m, d, n, from, sat, c)
<1>0. /\ d.layer_surface # 0 /\ n \in Nat /\ n > 2 /\ m \in Nat
      /\ c \in DOMAIN sat /\ c # 0 /\ sat[c] = scale
      /\ scale \in Nat /\ size \in Nat /\ size % scale = 0
      /\ Arranged(s, d, n + 2) /\ Lone(s, d.layer_surface)
      /\ s[d.layer_surface].acked = c /\ s[d.layer_surface].extent # 0
      /\ Named(s, n, "wl_region")
      /\ Named(s, n + 1, "wl_shm_pool") /\ s[n + 1].size = size
      /\ SoundUpTo(rs, m + 5, from, s, sat, d.layer_surface)
      /\ Ends(rs, m, d, n, scale, size)
  BY DEF Ending, Addressed, Pooled, Placed
<1> USE <1>0
<1> DEFINE ls == d.layer_surface
           sf == d.surface
           bf == n + 2
           t == Thing("wl_buffer", size, size)
           s1 == Put(s, bf, t)
           s2 == WithBuffer(s1, sf, bf)
           s3 == WithScale(s2, sf, scale)
           s4 == WithCommitted(s3, sf)
<1>1. /\ bf \in Nat /\ bf # 0 /\ bf # 2 /\ bf > 2 /\ DOMAIN s = 1 .. bf - 1
      /\ bf \notin DOMAIN s /\ "wl_buffer" \in Kinds
  BY DEF Arranged, Kinds, Signature
<1>2. /\ m + 5 \in Nat /\ m + 6 \in Nat /\ m + 7 \in Nat /\ m + 8 \in Nat
      /\ m + 9 \in Nat
      /\ m + 6 = (m + 5) + 1 /\ m + 7 = (m + 6) + 1 /\ m + 8 = (m + 7) + 1
      /\ m + 9 = (m + 8) + 1 /\ m + 10 = (m + 9) + 1
      /\ n + 3 = bf + 1 /\ n + 3 \in Nat /\ n + 2 = bf
  OBVIOUS
<1> HIDE DEF bf
<1>3. /\ rs[m + 6] = Request("create_buffer", n + 1, bf, size)
      /\ rs[m + 7] = Request("attach", sf, bf, 0)
      /\ rs[m + 8] = Request("set_buffer_scale", sf, 0, scale)
      /\ rs[m + 9] = Request("set_input_region", sf, n, 0)
      /\ rs[m + 10] = Request("commit", sf, 0, 0)
  BY <1>2, Zenon DEF Ends
<1>4. /\ Named(s, sf, "wl_surface") /\ Named(s, ls, "zwlr_layer_surface_v1")
      /\ s[ls].of = sf /\ Arranged(s, d, bf)
  BY <1>2 DEF Arranged
<1> HIDE DEF sf, ls
<1>5. Fine(rs[m + 6], s, sat) /\ After(rs[m + 6], s) = s1
  <2>1. /\ Fine(Request("create_buffer", n + 1, bf, size), s, sat)
        /\ After(Request("create_buffer", n + 1, bf, size), s) = s1
    <3>1. /\ Named(s, n + 1, "wl_shm_pool") /\ s[n + 1].size = size /\ size \in Nat
          /\ bf \in Nat /\ DOMAIN s = 1 .. bf - 1 /\ bf # 0
      BY <1>0, <1>1, Zenon
    <3> HIDE DEF t, s1
    <3>2. /\ Fine(Request("create_buffer", n + 1, bf, size), s, sat)
          /\ After(Request("create_buffer", n + 1, bf, size), s)
               = Put(s, bf, Thing("wl_buffer", size, size))
      BY <3>1, BufferFine, SMTT(30)
    <3>3. s1 = Put(s, bf, Thing("wl_buffer", size, size))
      BY DEF s1, t
    <3> QED
      BY <3>2, <3>3, Zenon
  <2> QED
    BY <1>3, <2>1, Zenon
<1>6. Made(s, bf, t, ls, s1)
  BY <1>1, ObjectMade DEF ls
<1>7. t.size = size /\ t.interface = "wl_buffer"
  BY DEF Thing
<1> HIDE DEF s1, t
<1>8. /\ Lasting(s, s1) /\ Lone(s1, ls) /\ DOMAIN s1 = 1 .. (bf + 1) - 1
      /\ s1[bf] = t /\ bf \in DOMAIN s1 /\ \A o \in DOMAIN s : s1[o] = s[o]
  BY <1>6, Zenon DEF Made
<1>9. Arranged(s1, d, n + 3)
  <2>1. bf \in Nat /\ bf > 2 /\ n + 3 \in Nat /\ DOMAIN s1 = 1 .. (n + 3) - 1
    BY <1>1, <1>2, <1>8, Zenon
  <2> QED
    BY <1>4, <1>8, <2>1, StillArranged
<1>10. /\ State(s1) /\ Named(s1, sf, "wl_surface") /\ Named(s1, bf, "wl_buffer")
       /\ Named(s1, n, "wl_region") /\ Named(s1, ls, "zwlr_layer_surface_v1")
       /\ s1[ls].of = sf /\ s1[ls].acked = c /\ s1[ls].extent # 0
       /\ s1[bf].size = size
  <2>1. sf \in DOMAIN s /\ n \in DOMAIN s /\ ls \in DOMAIN s
    BY <1>4, Zenon DEF Named
  <2>2. /\ s1[sf] = s[sf] /\ s1[n] = s[n] /\ s1[ls] = s[ls]
        /\ sf \in DOMAIN s1 /\ n \in DOMAIN s1 /\ ls \in DOMAIN s1
    BY <1>8, <2>1, Zenon DEF Lasting
  <2>3. s1[bf].size = size /\ Named(s1, bf, "wl_buffer")
    BY <1>7, <1>8, Zenon DEF Named
  <2>4. State(s1)
    BY <1>8, Zenon DEF Lone
  <2>5. /\ Named(s1, sf, "wl_surface") /\ Named(s1, n, "wl_region")
        /\ Named(s1, ls, "zwlr_layer_surface_v1")
    BY <1>4, <2>1, <2>2, Zenon DEF Named
  <2>6. s1[ls].of = sf /\ s1[ls].acked = c /\ s1[ls].extent # 0
    BY <1>4, <2>2, Zenon DEF ls
  <2> QED
    BY <2>3, <2>4, <2>5, <2>6
<1>11. Fine(rs[m + 7], s1, sat) /\ After(rs[m + 7], s1) = s2
  <2>1. /\ Fine(Request("attach", sf, bf, 0), s1, sat)
        /\ After(Request("attach", sf, bf, 0), s1) = s2
    BY <1>10, AttachFine, Zenon
  <2> QED
    BY <1>3, <2>1, Zenon
<1>12. PICK q \in Nat : s1 \in [1 .. q -> Things]
  BY <1>10 DEF State
<1>13. sf \in 1 .. q /\ ls \in 1 .. q /\ bf \in 1 .. q /\ n \in 1 .. q /\ sf # ls
       /\ sf # bf /\ n # sf
  BY <1>10, <1>12 DEF Named
<1>14. /\ s2 \in [1 .. q -> Things] /\ s2[sf].buffer = bf
       /\ s2[sf].interface = "wl_surface"
       /\ \A o \in 1 .. q : o # sf => s2[o] = s1[o]
  <2>1. s1[sf].interface = "wl_surface"
    BY <1>10, Zenon DEF Named
  <2>2. SetTo(q, s1, sf, s2, bf, s1[sf].scale)
    BY <1>1, <1>12, <1>13, FieldSet, Zenon
  <2> HIDE DEF s2
  <2> QED
    BY <2>1, <2>2, Zenon DEF SetTo
<1>15. Changed(s1, s2, ls)
  <2>1. sf \in DOMAIN s1
    BY <1>10, Zenon DEF Named
  <2> QED
    BY <1>1, <1>8, <1>10, <2>1, FieldChanged, Zenon
<1> HIDE DEF s2
<1>16. Named(s2, sf, "wl_surface") /\ State(s2) /\ Lone(s2, ls) /\ sf \in DOMAIN s2
  BY <1>13, <1>14, <1>15 DEF Named, State, Changed
<1>17. Fine(rs[m + 8], s2, sat) /\ After(rs[m + 8], s2) = s3
  <2>1. /\ Fine(Request("set_buffer_scale", sf, 0, scale), s2, sat)
        /\ After(Request("set_buffer_scale", sf, 0, scale), s2) = s3
    <3>1. Named(s2, sf, "wl_surface")
      BY <1>16, Zenon
    <3> QED
      BY <3>1, ScaleFine
  <2> QED
    BY <1>3, <2>1, Zenon
<1>18. /\ s3 \in [1 .. q -> Things] /\ s3[sf].buffer = bf /\ s3[sf].scale = scale
       /\ s3[sf].interface = "wl_surface"
       /\ \A o \in 1 .. q : o # sf => s3[o] = s1[o]
  <2>1. SetTo(q, s2, sf, s3, s2[sf].buffer, scale)
    BY <1>13, <1>14, FieldSet, Zenon
  <2> HIDE DEF s3
  <2> QED
    BY <1>14, <2>1, Zenon DEF SetTo
<1>19. Changed(s2, s3, ls)
  BY <1>16, FieldChanged, Zenon
<1> HIDE DEF s3
<1>20. /\ Named(s3, sf, "wl_surface") /\ Named(s3, n, "wl_region")
       /\ s3[ls].of = sf /\ s3[ls].acked = c /\ s3[ls].extent # 0
       /\ s3[bf].size = size
       /\ s3[ls].interface = "zwlr_layer_surface_v1"
       /\ Lone(s3, ls)
  <2>1. s3[ls] = s1[ls] /\ s3[bf] = s1[bf] /\ s3[n] = s1[n]
    BY <1>13, <1>18
  <2>2. DOMAIN s3 = 1 .. q
    BY <1>18
  <2> QED
    BY <1>10, <1>13, <1>18, <1>19, <2>1, <2>2, Zenon DEF Named, Changed
<1>21. Fine(rs[m + 9], s3, sat) /\ After(rs[m + 9], s3) = s3
  BY <1>3, <1>20, RegionFine
<1>22. Fine(rs[m + 10], s3, sat) /\ After(rs[m + 10], s3) = s4
  <2>1. ls \in LayersOf(s3, sf)
    BY <1>13, <1>18, <1>20 DEF LayersOf
  <2>2. ASSUME NEW l \in LayersOf(s3, sf) PROVE l = ls
    BY <1>20, <2>2 DEF Lone, LayersOf
  <2>3. s3[sf].buffer \in DOMAIN s3 /\ s3[s3[sf].buffer].size % s3[sf].scale = 0
    <3>1. s3[s3[sf].buffer].size = size
      BY <1>18, <1>20, Zenon
    <3>2. s3[sf].buffer \in DOMAIN s3
      BY <1>13, <1>18
    <3> QED
      BY <1>18, <3>1, <3>2, Zenon
  <2>4. /\ LayersOf(s3, sf) # {}
        /\ \A l \in LayersOf(s3, sf) :
              /\ s3[l].acked # 0 /\ s3[l].acked \in DOMAIN sat
              /\ sat[s3[l].acked] = s3[sf].scale
              /\ s3[l].extent # 0
    BY <1>18, <1>20, <2>1, <2>2
  <2>5. /\ Fine(Request("commit", sf, 0, 0), s3, sat)
        /\ After(Request("commit", sf, 0, 0), s3) = s4
    <3>1. s3[sf].buffer # 0
      BY <1>1, <1>18
    <3> HIDE DEF s4
    <3>2. /\ Fine(Request("commit", sf, 0, 0), s3, sat)
          /\ After(Request("commit", sf, 0, 0), s3) = WithCommitted(s3, sf)
      BY <1>20, <2>3, <2>4, <3>1, CommitFine, ZenonT(30)
    <3> QED
      BY <3>2, Zenon DEF s4
  <2> QED
    BY <1>3, <2>5, Zenon
<1>23. Changed(s3, s4, ls) /\ s4[ls].acked = c
  <2>1. State(s3) /\ Lone(s3, ls) /\ ls \in DOMAIN s3
    BY <1>13, <1>18, <1>20 DEF State
  <2> QED
    BY <1>20, <2>1, CommitChanges, Zenon
<1> HIDE DEF s4
<1>24. Arranged(s4, d, n + 3) /\ Lone(s4, ls)
  <2>1. /\ DOMAIN s1 = 1 .. (n + 3) - 1 /\ DOMAIN s2 = 1 .. (n + 3) - 1
        /\ DOMAIN s3 = 1 .. (n + 3) - 1 /\ DOMAIN s4 = 1 .. (n + 3) - 1
        /\ Lasting(s1, s2) /\ Lasting(s2, s3) /\ Lasting(s3, s4) /\ Lone(s4, ls)
    BY <1>9, <1>15, <1>19, <1>23, Zenon DEF Changed, Arranged
  <2>2. n + 3 > 2 /\ n + 3 \in Nat
    OBVIOUS
  <2> DEFINE k == n + 3
  <2> HIDE DEF k
  <2>3. /\ DOMAIN s2 = 1 .. k - 1 /\ DOMAIN s3 = 1 .. k - 1 /\ DOMAIN s4 = 1 .. k - 1
        /\ k > 2 /\ k \in Nat /\ Arranged(s1, d, k)
    BY <1>9, <2>1, <2>2, Zenon DEF k
  <2>4. Arranged(s2, d, k)
    BY <2>1, <2>3, StillArranged
  <2>5. Arranged(s3, d, k)
    BY <2>1, <2>3, <2>4, StillArranged
  <2>6. Arranged(s4, d, k)
    BY <2>1, <2>3, <2>5, StillArranged
  <2> QED
    BY <2>1, <2>6, Zenon DEF k
<1>25. SoundUpTo(rs, m + 6, from, s1, sat, ls)
  <2>1. m + 5 \in Nat /\ m + 6 = (m + 5) + 1
    BY <1>2
  <2>2. /\ Fine(rs[m + 6], s, sat) /\ After(rs[m + 6], s) = s1
        /\ Lone(s1, ls)
    BY <1>5, <1>8, Zenon
  <2>3. SoundUpTo(rs, m + 5, from, s, sat, ls)
    BY DEF ls
  <2> QED
    BY <2>3, <2>1, <2>2, SoundNext
<1>26. SoundUpTo(rs, m + 7, from, s2, sat, ls)
  <2>1. m + 6 \in Nat /\ m + 7 = (m + 6) + 1
    BY <1>2
  <2>2. /\ Fine(rs[m + 7], s1, sat) /\ After(rs[m + 7], s1) = s2
        /\ Lone(s2, ls)
    BY <1>11, <1>16, Zenon
  <2> QED
    BY <1>25, <2>1, <2>2, SoundNext
<1>27. SoundUpTo(rs, m + 8, from, s3, sat, ls)
  <2>1. m + 7 \in Nat /\ m + 8 = (m + 7) + 1
    BY <1>2
  <2>2. /\ Fine(rs[m + 8], s2, sat) /\ After(rs[m + 8], s2) = s3
        /\ Lone(s3, ls)
    BY <1>17, <1>20, Zenon
  <2> QED
    BY <1>26, <2>1, <2>2, SoundNext
<1>28. SoundUpTo(rs, m + 9, from, s3, sat, ls)
  <2>1. m + 8 \in Nat /\ m + 9 = (m + 8) + 1
    BY <1>2
  <2>2. /\ Fine(rs[m + 9], s3, sat) /\ After(rs[m + 9], s3) = s3
        /\ Lone(s3, ls)
    BY <1>20, <1>21, Zenon
  <2> QED
    BY <1>27, <2>1, <2>2, SoundNext
<1>29. SoundUpTo(rs, m + 10, from, s4, sat, ls)
  <2>1. m + 9 \in Nat /\ m + 10 = (m + 9) + 1
    BY <1>2
  <2>2. /\ Fine(rs[m + 10], s3, sat) /\ After(rs[m + 10], s3) = s4
        /\ Lone(s4, ls)
    BY <1>22, <1>24, Zenon
  <2> QED
    BY <1>28, <2>1, <2>2, SoundNext
<1> QED
  BY <1>23, <1>24, <1>29, Zenon DEF ls, Ended

(* Ten requests more at the end.                                           *)
LEMMA TenMore ==
    ASSUME NEW S, NEW seq \in Seq(S), NEW a, NEW b, NEW c, NEW d, NEW e, NEW f,
           NEW g, NEW h, NEW i, NEW k, NEW more,
           more = seq \o <<a, b, c, d, e, f, g, h, i, k>>
    PROVE  /\ Len(seq) \in Nat /\ Len(more) = Len(seq) + 10
           /\ \A j \in 1 .. Len(seq) : more[j] = seq[j]
           /\ more[Len(seq) + 1] = a /\ more[Len(seq) + 2] = b
           /\ more[Len(seq) + 3] = c /\ more[Len(seq) + 4] = d
           /\ more[Len(seq) + 5] = e /\ more[Len(seq) + 6] = f
           /\ more[Len(seq) + 7] = g /\ more[Len(seq) + 8] = h
           /\ more[Len(seq) + 9] = i /\ more[Len(seq) + 10] = k
<1> DEFINE T == S \cup {a, b, c, d, e, f, g, h, i, k}
           rs == <<a, b, c, d, e, f, g, h, i, k>>
<1>1. seq \in Seq(T)
  <2>1. S \subseteq T
    OBVIOUS
  <2> HIDE DEF T
  <2> QED
    BY <2>1
<1>2. rs \in Seq(T)
  <2>1. a \in T /\ b \in T /\ c \in T /\ d \in T /\ e \in T /\ f \in T /\ g \in T
        /\ h \in T /\ i \in T /\ k \in T
    OBVIOUS
  <2> HIDE DEF T
  <2> QED
    BY <2>1
<1>3. /\ Len(rs) = 10 /\ rs[1] = a /\ rs[2] = b /\ rs[3] = c /\ rs[4] = d
      /\ rs[5] = e /\ rs[6] = f /\ rs[7] = g /\ rs[8] = h /\ rs[9] = i
      /\ rs[10] = k
  OBVIOUS
<1> HIDE DEF T, rs
<1>4. /\ Len(seq) \in Nat /\ Len(more) = Len(seq) + Len(rs)
      /\ \A j \in 1 .. Len(seq) : more[j] = seq[j]
      /\ \A j \in 1 .. Len(rs) : more[Len(seq) + j] = rs[j]
  <2>1. more = seq \o rs
    BY DEF rs
  <2> QED
    <3>1. /\ Len(seq) \in Nat /\ Len(seq \o rs) = Len(seq) + Len(rs)
          /\ \A j \in 1 .. Len(seq) : (seq \o rs)[j] = seq[j]
          /\ \A j \in 1 .. Len(rs) : (seq \o rs)[Len(seq) + j] = rs[j]
      BY <1>1, <1>2, Submitting
    <3> QED
      BY <2>1, <3>1, Zenon
<1>5. \A j \in 1 .. 10 : more[Len(seq) + j] = rs[j]
  BY <1>3, <1>4
<1>6. /\ 1 \in 1 .. 10 /\ 2 \in 1 .. 10 /\ 3 \in 1 .. 10 /\ 4 \in 1 .. 10
      /\ 5 \in 1 .. 10 /\ 6 \in 1 .. 10 /\ 7 \in 1 .. 10 /\ 8 \in 1 .. 10
      /\ 9 \in 1 .. 10 /\ 10 \in 1 .. 10
  OBVIOUS
<1>7. /\ more[Len(seq) + 1] = a /\ more[Len(seq) + 2] = b /\ more[Len(seq) + 3] = c
      /\ more[Len(seq) + 4] = d /\ more[Len(seq) + 5] = e /\ more[Len(seq) + 6] = f
      /\ more[Len(seq) + 7] = g /\ more[Len(seq) + 8] = h /\ more[Len(seq) + 9] = i
      /\ more[Len(seq) + 10] = k
  BY <1>3, <1>5, <1>6, Zenon
<1> QED
  BY <1>3, <1>4, <1>7

(* The first event on its way tells what it says. *)
LEMMA HeadTells ==
    ASSUME ClientInv, events # <<>>, NEW from, Told(events, from, Said, scale_at)
    PROVE  \E mid \in News : Tells(Head(events), from, mid, scale_at)
<1>1. events \in Seq(GoodEvents)
  BY DEF ClientInv, ChannelsOK
<1>2. /\ events[1] = Head(events) /\ Len(events) \in Nat /\ Len(events) # 0
      /\ Len(Tail(events)) = Len(events) - 1
      /\ \A i \in 1 .. Len(Tail(events)) : Tail(events)[i] = events[i + 1]
  BY <1>1, HeadAndTail
<1>3. PICK mid \in News : Tells(events[1], from, mid, scale_at)
  BY <1>2, ToldHead, Zenon
<1> QED
  BY <1>2, <1>3, Zenon

(* The program takes ids after the second once it has begun.               *)
LEMMA Looping ==
    ASSUME ClientInv, ServerTypes, status = "loop"
    PROVE  next_id \in Nat /\ next_id > 2
BY DEF ClientInv, StatusOK, ServerTypes

(* The size of the picture that is drawn. *)
LEMMA PictureFits ==
    ASSUME ClientInv
    PROVE  LET scale == display.preferred_scale
               size == RoundedUp(TextSize[scale], scale)
           IN  /\ scale \in Nat /\ size \in Nat /\ size % scale = 0
               /\ size \div scale \in Nat \ {0}
<1> DEFINE scale == display.preferred_scale
           size == RoundedUp(TextSize[scale], scale)
           w == size \div scale
<1>1. scale \in Scales \cup {1}
  BY DEF ClientInv, DisplayOK
<1>2. scale \in Nat \ {0} /\ TextSize[scale] \in Nat \ {0}
  <2> HIDE DEF scale
  <2> QED
    BY <1>1, ServerAssumption, TextAssumption
<1>3. size \in Nat /\ w \in Nat /\ size = scale * w /\ w # 0
  <2> DEFINE text == TextSize[scale]
  <2>1. text \in Nat \ {0} /\ scale \in Nat \ {0}
    BY <1>2
  <2> HIDE DEF scale, text
  <2>2. /\ RoundedUp(text, scale) \in Nat /\ RoundedUp(text, scale) \div scale \in Nat
        /\ RoundedUp(text, scale) = scale * (RoundedUp(text, scale) \div scale)
        /\ text <= RoundedUp(text, scale)
    BY <2>1, RoundedUpFits
  <2>3. /\ size \in Nat /\ w \in Nat /\ size = scale * w /\ text <= size
    BY <2>2, Zenon DEF text
  <2> HIDE DEF w, size
  <2>4. size # 0
    BY <2>1, <2>3
  <2>5. w = 0 => scale * w = 0
    BY <2>1
  <2> QED
    BY <2>3, <2>4, <2>5
<1> HIDE DEF scale, size, w
<1>4. size % scale = 0
  <2>1. size = scale * (size \div scale) + (size % scale) /\ size % scale \in Nat
    BY <1>2, <1>3
  <2>2. size = scale * w + (size % scale)
    BY <2>1 DEF w
  <2>3. scale * w \in Nat
    BY <1>3
  <2> QED
    BY <1>3, <2>1, <2>2, <2>3
<1>5. scale \in Nat /\ size \in Nat /\ size % scale = 0 /\ w \in Nat \ {0}
  BY <1>2, <1>3, <1>4
<1> QED
  BY <1>5 DEF scale, size, w

(* A configure event is answered.                                          *)
LEMMA AnswerAgrees ==
    ASSUME ClientInv, ServerTypes, Agreement, HandleConfigure
    PROVE  Agreement'
<1> DEFINE d == display
           ls == display.layer_surface
           n == next_id
           m == Len(requests)
           c == Head(events).arg
           scale == display.preferred_scale
           size == RoundedUp(TextSize[scale], scale)
           from == View(objects)
<1>1. /\ events # <<>> /\ events' = Tail(events) /\ Head(events).op = "configure"
      /\ status = "loop" /\ display' = display /\ next_id' = n + 3
      /\ UNCHANGED <<objects, announced, preferred, configured, scale_at, shown, fault>>
      /\ requests' = requests \o
            <<Request("ack_configure", d.layer_surface, 0, c),
              Request("set_size", d.layer_surface, 0, size \div scale),
              Request("set_anchor", d.layer_surface, 0, BottomRight),
              Request("create_region", d.wl_compositor, n, 0),
              Request("create_pool", d.wl_shm, n + 1, size),
              Request("create_buffer", n + 1, n + 2, size),
              Request("attach", d.surface, n + 2, 0),
              Request("set_buffer_scale", d.surface, 0, scale),
              Request("set_input_region", d.surface, n, 0),
              Request("commit", d.surface, 0, 0)>>
  BY DEF HandleConfigure, Dispatch, Submit
<1>2. requests \in Seq(GoodRequests)
  BY DEF ClientInv, ChannelsOK
<1> HIDE DEF size, d, n, c
<1>3. /\ m \in Nat /\ Len(requests') = m + 10
      /\ \A j \in 1 .. m : requests'[j] = requests[j]
      /\ Places(requests', m, d, c, scale, size)
      /\ Begins(requests', m, d, n, size)
      /\ Ends(requests', m, d, n, scale, size)
  BY <1>1, <1>2, TenMore, SMTT(30) DEF Places, Begins, Ends
<1>4. PICK to : Harmony(to)
  BY DEF Agreement
<1>5. /\ Sound(requests, from, to, scale_at, ls) /\ Arranged(to, d, n)
      /\ Told(events, Heard(to, d), Said, scale_at)
  BY <1>4 DEF Harmony, d, n
<1>6. PICK mid \in News : Tells(Head(events), Heard(to, d), mid, scale_at)
  BY <1>1, <1>5, HeadTells, Zenon
<1>7. /\ c = Heard(to, d).serial + 1 /\ c \in DOMAIN scale_at
      /\ scale_at[c] = Heard(to, d).scale
  BY <1>1, <1>6, Zenon DEF Tells, c
<1>8. /\ scale_at \in Seq(Nat) /\ Len(scale_at) = configured /\ configured \in Nat
      /\ c \in Nat /\ c # 0 /\ configured # 0
  <2>1. scale_at \in Seq(Nat) /\ Len(scale_at) = configured /\ configured \in Nat
    BY DEF ServerTypes
  <2> QED
    BY <1>7, <2>1
<1>9. Lone(from, ls) /\ Lone(to, ls)
  BY <1>3, <1>5, SoundEnds
<1>10. ls # 0
  <2>1. PICK l \in DOMAIN objects : objects[l].interface = "zwlr_layer_surface_v1"
    BY <1>8 DEF Agreement, OwedIs
  <2>2. l # 0
    BY <2>1 DEF Agreement, OwedIs
  <2>3. l \in DOMAIN from /\ from[l].interface = "zwlr_layer_surface_v1"
    BY <2>1, ViewFields
  <2>4. l = ls
    BY <1>9, <2>3, Zenon DEF Lone
  <2> QED
    BY <2>2, <2>4
<1>11. d.layer_surface # 0 /\ d.wl_compositor # 0 /\ d.wl_shm # 0 /\ ls = d.layer_surface
  BY <1>10 DEF ClientInv, DisplayOK, Wanted, d
<1>12. /\ Heard(to, d).serial = to[ls].acked /\ Heard(to, d).scale = scale
       /\ Heard(to, d) = [serial |-> to[ls].acked, scale |-> scale]
  BY <1>11 DEF Heard, d
<1>13. n \in Nat /\ n > 2
  BY <1>1, Looping DEF n
<1>14. /\ scale \in Nat /\ size \in Nat /\ size % scale = 0
       /\ size \div scale \in Nat \ {0}
  BY PictureFits DEF size
<1> HIDE DEF ls, scale, m, from
<1>15. SoundUpTo(requests', m, from, to, scale_at, d.layer_surface)
  <2>1. \A j \in 1 .. Len(requests) : requests'[j] = requests[j]
    BY <1>3 DEF m
  <2> QED
    BY <1>5, <1>11, <2>1, SoundSame, Zenon DEF m
<1>16. Addressed(d, n, scale_at, c, scale, size, m)
  <2>1. scale_at[c] = scale
    BY <1>7, <1>12
  <2> QED
    BY <1>3, <1>7, <1>8, <1>11, <1>13, <1>14, <2>1, Zenon DEF Addressed
<1>17. PICK s3 :
          /\ SoundUpTo(requests', m + 10, from, s3, scale_at, d.layer_surface)
          /\ Arranged(s3, d, n + 3) /\ s3[d.layer_surface].acked = c
  <2>1. Answering(d, n, to, c)
    BY <1>5, <1>7, <1>9, <1>11, <1>12 DEF Answering
  <2>2. /\ Places(requests', m, d, c, scale, size)
        /\ Begins(requests', m, d, n, size)
        /\ Ends(requests', m, d, n, scale, size)
    BY <1>3, Zenon
  <2>3. PICK s1 : /\ SoundUpTo(requests', m + 3, from, s1, scale_at, d.layer_surface)
                  /\ Placed(d, n, s1, c)
    BY <1>15, <1>16, <2>1, <2>2, AnswerPlaced
  <2>4. PICK s2 : /\ SoundUpTo(requests', m + 5, from, s2, scale_at, d.layer_surface)
                  /\ Pooled(d, n, s2, c, size)
    BY <1>16, <2>2, <2>3, AnswerBegun
  <2>5. Ends(requests', m, d, n, scale, size)
    BY <2>2, Zenon
  <2>6. /\ Addressed(d, n, scale_at, c, scale, size, m) /\ Pooled(d, n, s2, c, size)
        /\ SoundUpTo(requests', m + 5, from, s2, scale_at, d.layer_surface)
    BY <1>16, <2>4, Zenon
  <2> QED
    <3>1. Ending(requests', m, d, n, from, s2, scale_at, c, scale, size)
      BY <2>5, <2>6, Zenon DEF Ending
    <3>2. Ended(requests', m, d, n, from, scale_at, c)
      BY <3>1, AnswerEnded, Zenon
    <3> QED
      BY <3>2, Zenon DEF Ended
<1>18. (Sound(requests, View(objects), s3, scale_at, display.layer_surface))'
  <2>1. Sound(requests', from, s3, scale_at, d.layer_surface)
    BY <1>3, <1>17 DEF Sound
  <2> QED
    BY <1>1, <2>1, Zenon DEF from, d
<1>19. (Arranged(s3, display, next_id))'
  BY <1>1, <1>17, Zenon DEF d
<1>20. ASSUME NEW b \in News, Tells(Head(events), Heard(to, display), b, scale_at)
       PROVE  (Heard(s3, display))' = b
  <2>1. b = [serial |-> c, scale |-> Heard(to, d).scale]
    BY <1>1, <1>20 DEF Tells, c, d
  <2>2. (Heard(s3, display))' = [serial |-> c, scale |-> scale]
    BY <1>1, <1>11, <1>17 DEF Heard, d, scale
  <2> QED
    BY <1>12, <2>1, <2>2
<1> QED
  BY <1>1, <1>4, <1>18, <1>19, <1>20, HandledAgrees, Zenon

-----------------------------------------------------------------------------
(* The handlers that ask for nothing. *)
LEMMA QuietAgrees ==
    ASSUME ClientInv, Agreement, events # <<>>, events' = Tail(events),
           UNCHANGED <<objects, announced, preferred, configured, scale_at, shown,
                       fault, requests, next_id>>,
           \A f \in Wanted : display'[f] = display[f],
           display'.surface = display.surface,
           display'.layer_surface = display.layer_surface,
           IF Head(events).op = "preferred_buffer_scale"
           THEN display'.preferred_scale = Head(events).arg
           ELSE /\ Head(events).op # "configure"
                /\ display'.preferred_scale = display.preferred_scale
    PROVE  Agreement'
<1>1. PICK to : Harmony(to)
  BY DEF Agreement
<1>2. (Sound(requests, View(objects), to, scale_at, display.layer_surface))'
  BY <1>1, Zenon DEF Harmony
<1>3. (Arranged(to, display, next_id))'
  <2>1. Arranged(to, display, next_id)
    BY <1>1, Zenon DEF Harmony
  <2> QED
    BY <2>1, Zenon DEF Arranged
<1>4. ASSUME NEW mid \in News, Tells(Head(events), Heard(to, display), mid, scale_at)
      PROVE  (Heard(to, display))' = mid
  <2> DEFINE e == Head(events)
             serial == IF display.layer_surface = 0 THEN 0
                       ELSE to[display.layer_surface].acked
  <2>1. Heard(to, display) = [serial |-> serial, scale |-> display.preferred_scale]
    BY Zenon DEF Heard
  <2>2. (Heard(to, display))' = [serial |-> serial, scale |-> display'.preferred_scale]
    BY Zenon DEF Heard
  <2>3. CASE e.op = "preferred_buffer_scale"
    <3>1. mid = [serial |-> Heard(to, display).serial, scale |-> e.arg]
      BY <1>4, <2>3, Zenon DEF Tells
    <3>2. Heard(to, display).serial = serial
      <4> HIDE DEF serial
      <4> QED
        BY <2>1
    <3> QED
      BY <2>2, <2>3, <3>1, <3>2, Zenon
  <2>4. CASE e.op # "preferred_buffer_scale"
    <3>1. mid = Heard(to, display)
      <4>1. e.op \notin {"configure", "preferred_buffer_scale"}
        BY <2>4
      <4> QED
        BY <1>4, <4>1, Zenon DEF Tells
    <3>2. display'.preferred_scale = display.preferred_scale
      BY <2>4
    <3> HIDE DEF serial
    <3> QED
      BY <2>1, <2>2, <3>1, <3>2
  <2> QED
    BY <2>3, <2>4, Zenon
<1> QED
  BY <1>1, <1>2, <1>3, <1>4, HandledAgrees

(* An event is logged.                                                     *)
LEMMA NoticeAgrees ==
    ASSUME ClientInv, Agreement, HandleNotice
    PROVE  Agreement'
<1>1. /\ events # <<>> /\ events' = Tail(events) /\ Head(events).op = "notice"
      /\ UNCHANGED <<objects, announced, preferred, configured, scale_at, shown,
                     fault, requests, next_id, display>>
  BY DEF HandleNotice, Dispatch
<1>2. IF Head(events).op = "preferred_buffer_scale"
      THEN display'.preferred_scale = Head(events).arg
      ELSE /\ Head(events).op # "configure"
           /\ display'.preferred_scale = display.preferred_scale
  BY <1>1
<1> QED
  BY <1>1, <1>2, QuietAgrees

(* The preferred scale is taken over.                                      *)
LEMMA PreferredScaleAgrees ==
    ASSUME ClientInv, Agreement, HandlePreferredScale
    PROVE  Agreement'
<1>1. /\ events # <<>> /\ events' = Tail(events)
      /\ Head(events).op = "preferred_buffer_scale"
      /\ UNCHANGED <<objects, announced, preferred, configured, scale_at, shown,
                     fault, requests, next_id>>
      /\ display' = [display EXCEPT !.preferred_scale = Head(events).arg]
  BY DEF HandlePreferredScale, Dispatch
<1>2. DOMAIN display = Fields
  BY DEF ClientInv, DisplayOK
<1>3. /\ \A f \in Wanted : display'[f] = display[f]
      /\ display'.surface = display.surface
      /\ display'.layer_surface = display.layer_surface
      /\ display'.preferred_scale = Head(events).arg
  BY <1>1, <1>2 DEF Fields, Wanted
<1> QED
  BY <1>1, <1>3, QuietAgrees

-----------------------------------------------------------------------------
(* Requests that are made one at a time, or four at once. *)
LEMMA OneRequest ==
    ASSUME NEW S, NEW seq \in Seq(S), NEW a, NEW more, more = seq \o <<a>>
    PROVE  /\ Len(seq) \in Nat /\ Len(more) = Len(seq) + 1
           /\ \A j \in 1 .. Len(seq) : more[j] = seq[j]
           /\ more[Len(seq) + 1] = a
<1> DEFINE T == S \cup {a}
           rs == <<a>>
<1>1. seq \in Seq(T) /\ rs \in Seq(T)
  <2>1. S \subseteq T /\ a \in T
    OBVIOUS
  <2> HIDE DEF T
  <2> QED
    BY <2>1
<1>2. Len(rs) = 1 /\ rs[1] = a /\ 1 \in 1 .. Len(rs)
  OBVIOUS
<1> HIDE DEF T, rs
<1>3. /\ Len(seq) \in Nat /\ Len(seq \o rs) = Len(seq) + Len(rs)
      /\ \A j \in 1 .. Len(seq) : (seq \o rs)[j] = seq[j]
      /\ \A j \in 1 .. Len(rs) : (seq \o rs)[Len(seq) + j] = rs[j]
  BY <1>1, Submitting
<1>4. more = seq \o rs
  BY DEF rs
<1> QED
  BY <1>2, <1>3, <1>4, Zenon

FourMore(seq, a, b, c, d, more) ==
    /\ Len(seq) \in Nat /\ Len(more) = Len(seq) + 4
    /\ \A j \in 1 .. Len(seq) : more[j] = seq[j]
    /\ more[Len(seq) + 1] = a /\ more[Len(seq) + 2] = b
    /\ more[Len(seq) + 3] = c /\ more[Len(seq) + 4] = d

(* Four requests more at the end.                                          *)
LEMMA FourRequests ==
    ASSUME NEW S, NEW seq \in Seq(S), NEW a, NEW b, NEW c, NEW d
    PROVE  FourMore(seq, a, b, c, d, seq \o (<<a>> \o <<b, c, d>>))
<1> DEFINE T == S \cup {a, b, c, d}
           one == <<a>>
           three == <<b, c, d>>
           rs == one \o three
           more == seq \o (<<a>> \o <<b, c, d>>)
<1>1. seq \in Seq(T) /\ one \in Seq(T) /\ three \in Seq(T)
  <2>1. S \subseteq T /\ a \in T /\ b \in T /\ c \in T /\ d \in T
    OBVIOUS
  <2> HIDE DEF T
  <2> QED
    BY <2>1
<1>2. /\ Len(one) = 1 /\ one[1] = a
      /\ Len(three) = 3 /\ three[1] = b /\ three[2] = c /\ three[3] = d
  OBVIOUS
<1> HIDE DEF T, one, three
<1>3. Len(rs) = 4 /\ rs[1] = a /\ rs[2] = b /\ rs[3] = c /\ rs[4] = d
  <2>1. /\ Len(rs) = Len(one) + Len(three)
        /\ \A j \in 1 .. Len(one) : rs[j] = one[j]
        /\ \A j \in 1 .. Len(three) : rs[Len(one) + j] = three[j]
    BY <1>1, Submitting
  <2> HIDE DEF rs
  <2> QED
    BY <1>2, <2>1
<1>4. /\ Len(seq) \in Nat /\ Len(more) = Len(seq) + Len(rs)
      /\ \A j \in 1 .. Len(seq) : more[j] = seq[j]
      /\ \A j \in 1 .. Len(rs) : more[Len(seq) + j] = rs[j]
  <2>1. rs \in Seq(T)
    BY <1>1
  <2>2. more = seq \o rs
    BY DEF one, three
  <2> HIDE DEF rs
  <2> QED
    BY <1>1, <2>1, <2>2, Submitting, SMTT(30)
<1> HIDE DEF rs
<1>5. \A j \in 1 .. 4 : more[Len(seq) + j] = rs[j]
  BY <1>3, <1>4
<1>6. 1 \in 1 .. 4 /\ 2 \in 1 .. 4 /\ 3 \in 1 .. 4 /\ 4 \in 1 .. 4
  OBVIOUS
<1>7. /\ more[Len(seq) + 1] = a /\ more[Len(seq) + 2] = b
      /\ more[Len(seq) + 3] = c /\ more[Len(seq) + 4] = d
  BY <1>3, <1>5, <1>6, Zenon
<1>8. Len(more) = Len(seq) + 4
  BY <1>3, <1>4, Zenon
<1> QED
  BY <1>4, <1>7, <1>8, Zenon DEF FourMore

-----------------------------------------------------------------------------
(* The program begins: it asks for the registry. *)
LEMMA RunAgrees ==
    ASSUME ClientInv, ServerTypes, Agreement, Run
    PROVE  Agreement'
<1> DEFINE ls == display.layer_surface
           r == Request("get_registry", 1, 2, 0)
           from == View(objects)
           m == Len(requests)
<1>1. /\ next_id = 2 /\ next_id' = 3 /\ requests' = requests \o <<r>>
      /\ UNCHANGED <<events, objects, announced, preferred, configured, scale_at,
                     shown, fault, display>>
  BY DEF Run, Submit, ServerTypes
<1>2. requests \in Seq(GoodRequests)
  BY DEF ClientInv, ChannelsOK
<1> HIDE DEF r
<1>3. /\ m \in Nat /\ Len(requests') = m + 1 /\ requests'[m + 1] = r
      /\ \A j \in 1 .. Len(requests) : requests'[j] = requests[j]
  BY <1>1, <1>2, OneRequest
<1>4. PICK to : Harmony(to)
  BY DEF Agreement
<1>5. /\ Sound(requests, from, to, scale_at, ls) /\ Arranged(to, display, 2)
      /\ Told(events, Heard(to, display), Said, scale_at)
  BY <1>1, <1>4, Zenon DEF Harmony
<1>6. Lone(to, ls)
  BY <1>3, <1>5, SoundEnds
<1> DEFINE t == Thing("wl_registry", 0, 0)
           to2 == Put(to, 2, t)
<1> HIDE DEF ls, m, from
<1>7. DOMAIN to = 1 .. 2 - 1 /\ Named(to, 1, "wl_display")
  BY <1>5, Zenon DEF Arranged
<1>8. Fine(r, to, scale_at) /\ After(r, to) = to2
  <2>1. Signature["get_registry"] = <<"wl_display", "none", "wl_registry">>
    BY DEF Signature
  <2>2. Named(to, 1, Signature["get_registry"][1])
    BY <1>7, <2>1
  <2>3. /\ Fine(r, to, scale_at)
        /\ After(r, to) = Put(to, 2, Thing(Signature["get_registry"][3], 0, 0))
    <3> DEFINE two == 2
    <3>1. DOMAIN to = 1 .. two - 1 /\ two \in Nat /\ two # 0
      BY <1>7
    <3>2. r = Request("get_registry", 1, two, 0)
      BY DEF r
    <3> HIDE DEF two
    <3>3. /\ Fine(r, to, scale_at)
          /\ After(r, to) = Put(to, two, Thing(Signature["get_registry"][3], 0, 0))
      BY <2>2, <3>1, <3>2, MakeFine
    <3> QED
      BY <3>3, Zenon DEF two
  <2> QED
    BY <2>1, <2>3
<1>9. Made(to, 2, t, ls, to2)
  <2>1. "wl_registry" \in Kinds
    BY DEF Kinds, Signature
  <2> QED
    <3>1. DOMAIN to = 1 .. 2 - 1 /\ 2 \in Nat /\ 2 # 0 /\ 0 \in Nat
      BY <1>7
    <3> QED
      BY <1>6, <2>1, <3>1, ObjectMade, Zenon
<1>10. t.interface = "wl_registry"
  BY DEF Thing
<1> HIDE DEF to2, t
<1>11. /\ Lasting(to, to2) /\ Lone(to2, ls) /\ DOMAIN to2 = 1 .. (2 + 1) - 1
       /\ to2[2] = t /\ 2 \in DOMAIN to2 /\ \A o \in DOMAIN to : to2[o] = to[o]
  BY <1>9, Zenon DEF Made
<1>12. Arranged(to2, display, 3)
  <2>1. \A o, k : Named(to, o, k) => Named(to2, o, k)
    BY <1>11, Zenon DEF Lasting, Named
  <2>2. DOMAIN to2 = 1 .. 3 - 1 /\ Named(to2, 2, "wl_registry")
    BY <1>10, <1>11 DEF Named
  <2>3. Named(to2, 1, "wl_display")
    BY <1>7, <2>1, Zenon
  <2>4. \A g \in Wanted : display[g] # 0 => Named(to2, display[g], g)
    BY <1>5, <2>1, Zenon DEF Arranged
  <2>5. display.layer_surface # 0 =>
          /\ Named(to2, display.surface, "wl_surface")
          /\ Named(to2, display.layer_surface, "zwlr_layer_surface_v1")
          /\ to2[display.layer_surface].of = display.surface
    BY <1>5, <1>11, <2>1, Zenon DEF Arranged, Lasting, Named
  <2> QED
    BY <2>2, <2>3, <2>4, <2>5, Zenon DEF Arranged
<1>13. Sound(requests', from, to2, scale_at, ls)
  <2>1. SoundUpTo(requests', m, from, to, scale_at, ls)
    BY <1>3, <1>5, SoundSame, Zenon DEF m
  <2>2. Fine(requests'[m + 1], to, scale_at) /\ After(requests'[m + 1], to) = to2
    BY <1>3, <1>8, Zenon
  <2>3. SoundUpTo(requests', m + 1, from, to2, scale_at, ls)
    BY <1>3, <1>11, <2>1, <2>2, SoundNext
  <2> QED
    BY <1>3, <2>3, Zenon DEF Sound
<1>14. Heard(to2, display) = Heard(to, display)
  <2>1. ls # 0 => to2[ls] = to[ls]
    BY <1>5, <1>11, Zenon DEF Arranged, Named, ls
  <2> QED
    BY <2>1, Zenon DEF Heard, ls
<1>15. Harmony(to2)'
  <2>1. (Sound(requests, View(objects), to2, scale_at, display.layer_surface))'
    BY <1>1, <1>13, Zenon DEF from, ls
  <2>2. (Arranged(to2, display, next_id))'
    BY <1>1, <1>12, Zenon
  <2>3. Said' = Said
    BY <1>1, Zenon DEF Said
  <2>4. (Told(events, Heard(to2, display), Said, scale_at))'
    BY <1>1, <1>5, <1>14, <2>3, Zenon
  <2> QED
    BY <2>1, <2>2, <2>4, Zenon DEF Harmony
<1> QED
  BY <1>1, <1>15, Zenon DEF Agreement, Faultless

-----------------------------------------------------------------------------
(* A global is bound.                                                      *)
Bindable(s, d, n) ==
    /\ DOMAIN d = Fields /\ d.layer_surface = 0
    /\ n \in Nat /\ n > 2 /\ Arranged(s, d, n)

Binds(s, d, n, g, sat) ==
    LET r == Request(Binding[g], 2, n, 0)
        s2 == Put(s, n, Thing(g, 0, 0))
    IN  /\ Fine(r, s, sat) /\ After(r, s) = s2
        /\ \A ls : Lone(s, ls) => Made(s, n, Thing(g, 0, 0), ls, s2)
        /\ Arranged(s2, [d EXCEPT ![g] = n], n + 1)

(* The request that binds a global that is not bound yet is fine.          *)
LEMMA BindFine ==
    ASSUME NEW g \in Wanted, NEW d, NEW n, NEW s, Bindable(s, d, n), NEW sat
    PROVE  Binds(s, d, n, g, sat)
<1> DEFINE r == Request(Binding[g], 2, n, 0)
           t == Thing(g, 0, 0)
           s2 == Put(s, n, t)
           d2 == [d EXCEPT ![g] = n]
           op == Binding[g]
<1>0. /\ DOMAIN d = Fields /\ d.layer_surface = 0
      /\ n \in Nat /\ n > 2 /\ Arranged(s, d, n)
  BY DEF Bindable
<1>1. /\ DOMAIN s = 1 .. n - 1 /\ Named(s, 2, "wl_registry") /\ n # 0 /\ n # 2
      /\ 0 \in Nat
  BY <1>0 DEF Arranged
<1>2. /\ op \in {"get_registry", "create_surface", "create_region", "create_pool",
                 "bind_wl_compositor", "bind_wl_shm", "bind_zwlr_layer_shell_v1"}
      /\ Signature[op][1] = "wl_registry" /\ Signature[op][3] = g
      /\ g \in Kinds /\ g # "wl_registry" /\ g # "zwlr_layer_surface_v1"
  BY DEF Wanted, Binding, Signature, Kinds
<1>3. t.interface = g
  BY DEF Thing
<1>4. \A ls : Lone(s, ls) => Made(s, n, t, ls, s2)
  BY <1>0, <1>1, <1>2, ObjectMade
<1> HIDE DEF op, t
<1>5. Fine(r, s, sat) /\ After(r, s) = s2
  <2>1. Named(s, 2, Signature[op][1])
    BY <1>1, <1>2
  <2>2. /\ Fine(Request(op, 2, n, 0), s, sat)
        /\ After(Request(op, 2, n, 0), s) = Put(s, n, Thing(Signature[op][3], 0, 0))
    <3> DEFINE zero == 0
    <3>1. /\ op \in {"get_registry", "create_surface", "create_region", "create_pool",
                     "bind_wl_compositor", "bind_wl_shm",
                     "bind_zwlr_layer_shell_v1"}
          /\ DOMAIN s = 1 .. n - 1 /\ n # 0
      BY <1>1, <1>2
    <3> HIDE DEF zero
    <3>2. /\ Fine(Request(op, 2, n, zero), s, sat)
          /\ After(Request(op, 2, n, zero), s)
               = Put(s, n, Thing(Signature[op][3], zero, zero))
      BY <1>0, <2>1, <3>1, MakeFine, SMTT(30)
    <3> QED
      BY <3>2, Zenon DEF zero
  <2>3. r = Request(op, 2, n, 0)
    BY DEF op
  <2> QED
    BY <1>2, <2>2, <2>3, Zenon DEF t
<1>6. /\ DOMAIN s2 = 1 .. (n + 1) - 1 /\ s2[n] = t /\ n \in DOMAIN s2
      /\ \A o \in DOMAIN s : s2[o] = s[o] /\ o \in DOMAIN s2
  <2>1. n \notin DOMAIN s /\ DOMAIN s \cup {n} = 1 .. (n + 1) - 1
    BY <1>0, <1>1
  <2> QED
    BY <2>1 DEF Put
<1>7. /\ d2.layer_surface = 0 /\ d2[g] = n
      /\ \A h \in Wanted : h # g => d2[h] = d[h]
  BY <1>0 DEF Fields, Wanted
<1> HIDE DEF s2, d2
<1>8. Arranged(s2, d2, n + 1)
  <2>1. \A o, k : Named(s, o, k) => Named(s2, o, k)
    BY <1>6, Zenon DEF Named
  <2>2. Named(s2, 1, "wl_display") /\ Named(s2, 2, "wl_registry")
    BY <1>0, <1>1, <2>1, Zenon DEF Arranged
  <2>3. ASSUME NEW h \in Wanted, d2[h] # 0 PROVE Named(s2, d2[h], h)
    <3>1. CASE h = g
      BY <1>3, <1>6, <1>7, <3>1, Zenon DEF Named
    <3>2. CASE h # g
      BY <1>0, <1>7, <2>1, <2>3, <3>2, Zenon DEF Arranged
    <3> QED
      BY <3>1, <3>2
  <2> QED
    BY <1>6, <1>7, <2>2, <2>3, Zenon DEF Arranged
<1> QED
  BY <1>4, <1>5, <1>8, Zenon DEF r, s2, t, d2, Binds

(* The requests of surface_creation_rigmarole, after the first m of rs. *)
Rigged(rs, m, d, n) ==
    /\ rs[m + 1] = Request("create_surface", d.wl_compositor, n, 0)
    /\ rs[m + 2] = Request("get_layer_surface", d.zwlr_layer_shell_v1, n + 1, n)
    /\ rs[m + 3] = Request("commit", n, 0, 0)

Rigging(rs, m, d, n, from, s, sat) ==
    /\ d.layer_surface = 0 /\ d.wl_compositor # 0 /\ d.zwlr_layer_shell_v1 # 0
    /\ n \in Nat /\ n > 2 /\ m \in Nat
    /\ Arranged(s, d, n) /\ Lone(s, n + 1)
    /\ SoundUpTo(rs, m, from, s, sat, n + 1) /\ Rigged(rs, m, d, n)

RiggedTo(rs, m, d, n, from, s2, sat) ==
    /\ SoundUpTo(rs, m + 3, from, s2, sat, n + 1)
    /\ Arranged(s2, d, n + 2)
    /\ Named(s2, n, "wl_surface")
    /\ Named(s2, n + 1, "zwlr_layer_surface_v1")
    /\ s2[n + 1].of = n /\ s2[n + 1].acked = 0

(* The three requests that set the layer surface up are fine.              *)
LEMMA RigmaroleFine ==
    ASSUME NEW rs, NEW m, NEW d, NEW n, NEW from, NEW s, NEW sat,
           Rigging(rs, m, d, n, from, s, sat)
    PROVE  \E s2 : RiggedTo(rs, m, d, n, from, s2, sat)
<1> DEFINE ls == n + 1
           t1 == Thing("wl_surface", 0, 0)
           s1 == Put(s, n, t1)
           t2 == Thing("zwlr_layer_surface_v1", n, n)
           s2 == Put(s1, ls, t2)
           s3 == WithCommitted(s2, n)
<1>0. /\ d.layer_surface = 0 /\ d.wl_compositor # 0 /\ d.zwlr_layer_shell_v1 # 0
      /\ n \in Nat /\ n > 2 /\ m \in Nat
      /\ Arranged(s, d, n) /\ Lone(s, n + 1)
      /\ SoundUpTo(rs, m, from, s, sat, n + 1) /\ Rigged(rs, m, d, n)
  BY DEF Rigging
<1> USE <1>0
<1>1. /\ DOMAIN s = 1 .. n - 1 /\ n # 0 /\ n # 2 /\ 0 \in Nat
      /\ Named(s, d.wl_compositor, "wl_compositor")
      /\ Named(s, d.zwlr_layer_shell_v1, "zwlr_layer_shell_v1")
  BY DEF Arranged, Wanted
<1>2. /\ "wl_surface" \in Kinds /\ "zwlr_layer_surface_v1" \in Kinds
      /\ Signature["create_surface"] = <<"wl_compositor", "none", "wl_surface">>
  BY DEF Kinds, Signature
<1>3. /\ t1.interface = "wl_surface" /\ t1.buffer = 0
      /\ t2.interface = "zwlr_layer_surface_v1" /\ t2.of = n /\ t2.acked = 0
      /\ t2.committed = FALSE
  BY DEF Thing
<1>4. /\ ls \in Nat /\ ls # 0 /\ ls # 2 /\ ls > 2 /\ n + 2 \in Nat
      /\ (n + 1) - 1 = n /\ ls \notin 1 .. n /\ ls = n + 1 /\ ls + 1 = n + 2
      /\ m + 1 \in Nat /\ m + 2 \in Nat
      /\ m + 2 = (m + 1) + 1 /\ m + 3 = (m + 2) + 1
  OBVIOUS
<1>5. Made(s, n, t1, ls, s1)
  BY <1>1, <1>2, ObjectMade
<1>6. Fine(rs[m + 1], s, sat) /\ After(rs[m + 1], s) = s1
  <2>1. Named(s, d.wl_compositor, Signature["create_surface"][1])
    BY <1>1, <1>2
  <2>2. Put(s, n, Thing(Signature["create_surface"][3], 0, 0)) = s1
    BY <1>2
  <2> HIDE DEF s1
  <2>3. /\ Fine(Request("create_surface", d.wl_compositor, n, 0), s, sat)
        /\ After(Request("create_surface", d.wl_compositor, n, 0), s)
             = Put(s, n, Thing(Signature["create_surface"][3], 0, 0))
    BY <1>1, <2>1, MakeFine
  <2>4. rs[m + 1] = Request("create_surface", d.wl_compositor, n, 0)
    BY DEF Rigged
  <2> QED
    BY <2>2, <2>3, <2>4, Zenon
<1> HIDE DEF s1, t1, ls
<1>7. /\ Lasting(s, s1) /\ Lone(s1, ls) /\ DOMAIN s1 = 1 .. (n + 1) - 1
      /\ s1[n] = t1 /\ n \in DOMAIN s1 /\ \A o \in DOMAIN s : s1[o] = s[o]
  BY <1>5, Zenon DEF Made
<1>8. Arranged(s1, d, ls)
  <2>1. DOMAIN s1 = 1 .. ls - 1
    BY <1>4, <1>7
  <2> QED
    BY <1>4, <1>7, <2>1, StillArranged
<1>9. /\ Named(s1, d.zwlr_layer_shell_v1, "zwlr_layer_shell_v1")
      /\ Named(s1, n, "wl_surface") /\ s1[n].buffer = 0 /\ LayersOf(s1, n) = {}
  <2>1. Named(s1, d.zwlr_layer_shell_v1, "zwlr_layer_shell_v1")
    BY <1>1, <1>7, Zenon DEF Lasting, Named
  <2>2. Named(s1, n, "wl_surface") /\ s1[n].buffer = 0
    BY <1>3, <1>7, Zenon DEF Named
  <2>3. ls \notin DOMAIN s1
    BY <1>4, <1>7
  <2>4. LayersOf(s1, n) = {}
    BY <1>7, <2>3 DEF Lone, LayersOf
  <2> QED
    BY <2>1, <2>2, <2>4
<1>10. Fine(rs[m + 2], s1, sat) /\ After(rs[m + 2], s1) = s2
  <2>1. DOMAIN s1 = 1 .. ls - 1
    BY <1>4, <1>7
  <2> HIDE DEF s2
  <2>2. /\ Fine(Request("get_layer_surface", d.zwlr_layer_shell_v1, ls, n), s1, sat)
        /\ After(Request("get_layer_surface", d.zwlr_layer_shell_v1, ls, n), s1)
             = Put(s1, ls, Thing("zwlr_layer_surface_v1", n, n))
    <3>1. RoleFree(s1, d.zwlr_layer_shell_v1, ls, n)
      BY <1>4, <1>9, <2>1 DEF RoleFree
    <3>2. RoleTaken(s1, d.zwlr_layer_shell_v1, ls, n, sat)
      BY <3>1, LayerFine, Zenon
    <3> QED
      BY <3>2, Zenon DEF RoleTaken
  <2>3. rs[m + 2] = Request("get_layer_surface", d.zwlr_layer_shell_v1, ls, n)
    BY <1>4 DEF Rigged
  <2> QED
    BY <2>2, <2>3, Zenon DEF s2
<1>11. Made(s1, ls, t2, ls, s2)
  <2>1. DOMAIN s1 = 1 .. ls - 1
    BY <1>4, <1>7
  <2> QED
    BY <1>2, <1>4, <1>7, <2>1, ObjectMade
<1> HIDE DEF s2, t2
<1>12. /\ Lasting(s1, s2) /\ Lone(s2, ls) /\ DOMAIN s2 = 1 .. (ls + 1) - 1
       /\ s2[ls] = t2 /\ ls \in DOMAIN s2 /\ \A o \in DOMAIN s1 : s2[o] = s1[o]
  BY <1>11, Zenon DEF Made
<1>13. Arranged(s2, d, n + 2)
  <2>1. DOMAIN s2 = 1 .. (n + 2) - 1
    BY <1>4, <1>12
  <2> QED
    BY <1>4, <1>8, <1>12, <2>1, StillArranged
<1>14. /\ Named(s2, n, "wl_surface") /\ Named(s2, ls, "zwlr_layer_surface_v1")
       /\ s2[ls].of = n /\ s2[ls].acked = 0 /\ s2[n].buffer = 0
       /\ s2[ls].committed = FALSE
  <2>1. s2[n] = s1[n] /\ n \in DOMAIN s2
    BY <1>7, <1>12, Zenon DEF Lasting
  <2> QED
    BY <1>3, <1>7, <1>12, <2>1, Zenon DEF Named
<1>15. Fine(rs[m + 3], s2, sat) /\ After(rs[m + 3], s2) = s3
  <2>1. \A l \in LayersOf(s2, n) : l = ls
    BY <1>12 DEF Lone, LayersOf
  <2>2. \A l \in LayersOf(s2, n) : s2[l].committed = FALSE
    BY <1>14, <2>1, Zenon
  <2> HIDE DEF s3
  <2>3. /\ Fine(Request("commit", n, 0, 0), s2, sat)
        /\ After(Request("commit", n, 0, 0), s2) = WithCommitted(s2, n)
    BY <1>14, <2>2, CommitFine, Zenon
  <2> QED
    BY <2>3, Zenon DEF Rigged, s3
<1>16. Changed(s2, s3, ls) /\ s3[ls].acked = 0
  <2>1. State(s2) /\ Lone(s2, ls) /\ ls \in DOMAIN s2
    BY <1>12, Zenon DEF Lone
  <2> QED
    BY <1>14, <2>1, CommitChanges, Zenon
<1> HIDE DEF s3
<1>17. Arranged(s3, d, n + 2) /\ Lone(s3, ls)
  <2>1. DOMAIN s3 = 1 .. (n + 2) - 1 /\ Lasting(s2, s3) /\ Lone(s3, ls)
    BY <1>13, <1>16, Zenon DEF Changed, Arranged
  <2>2. n + 2 \in Nat /\ n + 2 > 2
    BY <1>4
  <2> QED
    BY <1>13, <2>1, <2>2, StillArranged
<1>18. /\ Named(s3, n, "wl_surface") /\ Named(s3, ls, "zwlr_layer_surface_v1")
       /\ s3[ls].of = n
  BY <1>14, <1>16, Zenon DEF Changed, Lasting, Named
<1>19. SoundUpTo(rs, m + 1, from, s1, sat, ls)
  <2>1. SoundUpTo(rs, m, from, s, sat, ls) /\ m + 1 = m + 1
    BY <1>4
  <2>2. /\ Fine(rs[m + 1], s, sat) /\ After(rs[m + 1], s) = s1 /\ Lone(s1, ls)
    BY <1>6, <1>7, Zenon
  <2> QED
    BY <2>1, <2>2, SoundNext
<1>20. SoundUpTo(rs, m + 2, from, s2, sat, ls)
  <2>1. m + 1 \in Nat /\ m + 2 = (m + 1) + 1
    BY <1>4
  <2>2. /\ Fine(rs[m + 2], s1, sat) /\ After(rs[m + 2], s1) = s2 /\ Lone(s2, ls)
    BY <1>10, <1>12, Zenon
  <2> QED
    BY <1>19, <2>1, <2>2, SoundNext
<1>21. SoundUpTo(rs, m + 3, from, s3, sat, ls)
  <2>1. m + 2 \in Nat /\ m + 3 = (m + 2) + 1
    BY <1>4
  <2>2. /\ Fine(rs[m + 3], s2, sat) /\ After(rs[m + 3], s2) = s3 /\ Lone(s3, ls)
    BY <1>15, <1>17, Zenon
  <2> QED
    BY <1>20, <2>1, <2>2, SoundNext
<1> QED
  BY <1>16, <1>17, <1>18, <1>21, Zenon DEF ls, RiggedTo

-----------------------------------------------------------------------------
(* The registry announces a global: if it is wanted, it is not bound yet.  *)
LEMMA FirstGlobal ==
    ASSUME ClientInv, Agreement, Dispatch("registry", "global")
    PROVE  /\ events # <<>> /\ events' = Tail(events) /\ Head(events).op = "global"
           /\ Head(events).on = 2
           /\ Head(events).arg \in Wanted => display[Head(events).arg] = 0
           /\ status = "loop"
           /\ UNCHANGED <<objects, announced, preferred, configured, scale_at, shown,
                          fault>>
<1>1. /\ events # <<>> /\ events' = Tail(events) /\ Head(events).op = "global"
      /\ status = "loop"
      /\ UNCHANGED <<objects, announced, preferred, configured, scale_at, shown, fault>>
  BY DEF Dispatch
<1>2. events[1] = Head(events) /\ 1 \in 1 .. Len(events)
  <2>1. events \in Seq(GoodEvents)
    BY DEF ClientInv, ChannelsOK
  <2>2. events[1] = Head(events) /\ Len(events) \in Nat /\ Len(events) # 0
    BY <1>1, <2>1, HeadAndTail
  <2> QED
    BY <2>2
<1>3. GlobalsNew(events, announced, display)
  BY DEF Agreement
<1>4. /\ events[1].on = 2
      /\ events[1].arg \in Wanted => display[events[1].arg] = 0
  BY <1>1, <1>2, <1>3, Zenon DEF GlobalsNew
<1> QED
  BY <1>1, <1>2, <1>4, Zenon

(* When one of the globals is missing there is no surface yet.             *)
LEMMA NoSurface ==
    ASSUME ClientInv, NEW g \in Wanted, display[g] = 0
    PROVE  display.layer_surface = 0 /\ DOMAIN display = Fields
BY DEF ClientInv, DisplayOK

(* A global is announced that the program does not want.                   *)
LEMMA OtherGlobalAgrees ==
    ASSUME ClientInv, Agreement, Dispatch("registry", "global"),
           UNCHANGED <<requests, next_id, handlers, display>>
    PROVE  Agreement'
<1>1. /\ events # <<>> /\ events' = Tail(events) /\ Head(events).op = "global"
      /\ UNCHANGED <<objects, announced, preferred, configured, scale_at, shown,
                     fault, requests, next_id, display>>
  BY FirstGlobal
<1>2. IF Head(events).op = "preferred_buffer_scale"
      THEN display'.preferred_scale = Head(events).arg
      ELSE /\ Head(events).op # "configure"
           /\ display'.preferred_scale = display.preferred_scale
  BY <1>1
<1> QED
  BY <1>1, <1>2, QuietAgrees

-----------------------------------------------------------------------------
(* A global is bound, the surface is set up when it is the last: the       *)
(* objects will be to2.                                                    *)
LEMMA BoundAgrees ==
    ASSUME ClientInv, Agreement, Dispatch("registry", "global"),
           NEW g \in Wanted, Head(events).arg = g,
           NEW to, Harmony(to), NEW to2,
           Sound(requests', View(objects), to2, scale_at, display'.layer_surface),
           Arranged(to2, display', next_id'),
           display.layer_surface = 0,
           display'.layer_surface # 0 => to2[display'.layer_surface].acked = 0,
           display'.preferred_scale = display.preferred_scale,
           \A h \in Wanted : h # g => display'[h] = display[h]
    PROVE  Agreement'
<1>1. /\ events # <<>> /\ events' = Tail(events) /\ Head(events).op = "global"
      /\ UNCHANGED <<objects, announced, preferred, configured, scale_at, shown,
                     fault>>
  BY FirstGlobal
<1>2. (Sound(requests, View(objects), to2, scale_at, display.layer_surface))'
  BY <1>1, Zenon
<1>3. (Arranged(to2, display, next_id))'
  BY Zenon
<1>4. ASSUME NEW mid \in News, Tells(Head(events), Heard(to, display), mid, scale_at)
      PROVE  (Heard(to2, display))' = mid
  <2>1. mid = Heard(to, display)
    <3>1. Head(events).op \notin {"configure", "preferred_buffer_scale"}
      BY <1>1
    <3> QED
      BY <1>4, <3>1, Zenon DEF Tells
  <2>2. Heard(to, display) = [serial |-> 0, scale |-> display.preferred_scale]
    BY Zenon DEF Heard
  <2>3. (Heard(to2, display))' = [serial |-> 0, scale |-> display'.preferred_scale]
    BY Zenon DEF Heard
  <2> QED
    BY <2>1, <2>2, <2>3, Zenon
<1>5. \A h \in Wanted : \/ display'[h] = display[h]
                        \/ Head(events).op = "global" /\ Head(events).arg = h
  BY <1>1, Zenon
<1> QED
  BY <1>1, <1>2, <1>3, <1>4, <1>5, HandledAgrees

(* One of the globals is still missing.                                    *)
LEMMA PartAgrees ==
    ASSUME ClientInv, ServerTypes, Agreement, Dispatch("registry", "global"),
           NEW g \in Wanted, Head(events).arg = g,
           display' = [display EXCEPT ![g] = next_id], next_id' = next_id + 1,
           Submit(<<Request(Binding[g], Head(events).on, next_id, 0)>>)
    PROVE  Agreement'
<1> DEFINE n == next_id
           r == Request(Binding[g], 2, n, 0)
           t == Thing(g, 0, 0)
           bound == [display EXCEPT ![g] = n]
           from == View(objects)
           m == Len(requests)
<1>1. /\ display[g] = 0 /\ status = "loop" /\ Head(events).on = 2
      /\ n \in Nat /\ n > 2
  BY FirstGlobal, Looping
<1>2. display.layer_surface = 0 /\ DOMAIN display = Fields
  BY <1>1, NoSurface
<1>3. requests \in Seq(GoodRequests) /\ requests' = requests \o <<r>>
  BY <1>1 DEF ClientInv, ChannelsOK, Submit
<1> HIDE DEF r
<1>4. /\ m \in Nat /\ Len(requests') = m + 1 /\ requests'[m + 1] = r
      /\ \A j \in 1 .. Len(requests) : requests'[j] = requests[j]
  BY <1>3, OneRequest
<1>5. PICK to : Harmony(to)
  BY DEF Agreement
<1> DEFINE to2 == Put(to, n, t)
<1>6. Sound(requests, from, to, scale_at, 0) /\ Arranged(to, display, n)
  BY <1>2, <1>5, Zenon DEF Harmony
<1> HIDE DEF m, from
<1>7. Lone(to, 0)
  BY <1>4, <1>6, SoundEnds DEF m
<1>8. /\ Fine(r, to, scale_at) /\ After(r, to) = to2
      /\ \A ls : Lone(to, ls) => Made(to, n, t, ls, to2)
      /\ Arranged(to2, bound, n + 1)
  <2>1. Bindable(to, display, n)
    BY <1>1, <1>2, <1>6, Zenon DEF Bindable
  <2>2. Binds(to, display, n, g, scale_at)
    BY <2>1, BindFine, Zenon
  <2> QED
    BY <2>2, Zenon DEF Binds, r
<1> HIDE DEF to2, t
<1>9. Lone(to2, 0)
  BY <1>7, <1>8, Zenon DEF Made
<1>10. Sound(requests', from, to2, scale_at, 0)
  <2>1. SoundUpTo(requests', m, from, to, scale_at, 0)
    BY <1>4, <1>6, SoundSame, Zenon DEF m
  <2>2. Fine(requests'[m + 1], to, scale_at) /\ After(requests'[m + 1], to) = to2
    BY <1>4, <1>8, Zenon
  <2>3. SoundUpTo(requests', m + 1, from, to2, scale_at, 0)
    BY <1>4, <1>9, <2>1, <2>2, SoundNext
  <2> QED
    BY <1>4, <2>3, Zenon DEF Sound
<1>11. /\ bound.layer_surface = 0 /\ bound.preferred_scale = display.preferred_scale
       /\ \A h \in Wanted : h # g => bound[h] = display[h]
  BY <1>2 DEF Fields, Wanted
<1> HIDE DEF bound
<1>12. display' = bound
  BY DEF bound
<1>13. /\ Sound(requests', View(objects), to2, scale_at, display'.layer_surface)
       /\ Arranged(to2, display', next_id')
       /\ display'.layer_surface = 0
       /\ display'.preferred_scale = display.preferred_scale
       /\ \A h \in Wanted : h # g => display'[h] = display[h]
  BY <1>8, <1>10, <1>11, <1>12, Zenon DEF from
<1> QED
  BY <1>2, <1>5, <1>13, BoundAgrees

-----------------------------------------------------------------------------
(* The ids and the places of these requests.                               *)
LEMMA Counting ==
    ASSUME NEW m \in Nat, NEW n \in Nat, n > 2
    PROVE  /\ m + 1 \in Nat /\ n + 1 \in Nat /\ n + 1 > 2
           /\ (n + 1) + 1 = n + 2 /\ (n + 1) + 2 = n + 3
           /\ (m + 1) + 1 = m + 2 /\ (m + 1) + 2 = m + 3 /\ (m + 1) + 3 = m + 4
OBVIOUS

(* The last global is bound, and the program makes its layer surface.      *)
LEMMA AllBoundAgrees ==
    ASSUME ClientInv, ServerTypes, Agreement, Dispatch("registry", "global"),
           NEW g \in Wanted, Head(events).arg = g,
           NEW bound, bound = [display EXCEPT ![g] = next_id], Complete(bound),
           NEW d, d = [bound EXCEPT !.surface = next_id + 1,
                                    !.layer_surface = next_id + 2],
           display' = d, next_id' = next_id + 3,
           Submit(<<Request(Binding[g], Head(events).on, next_id, 0)>>
                    \o Rigmarole(d))
    PROVE  Agreement'
<1> DEFINE n == next_id
           ls == n + 2
           r == Request(Binding[g], 2, n, 0)
           t == Thing(g, 0, 0)
           from == View(objects)
           m == Len(requests)
           r2 == Request("create_surface", bound.wl_compositor, n + 1, 0)
           r3 == Request("get_layer_surface", bound.zwlr_layer_shell_v1, n + 2, n + 1)
           r4 == Request("commit", n + 1, 0, 0)
<1>1. /\ display[g] = 0 /\ status = "loop" /\ Head(events).on = 2
      /\ n \in Nat /\ n > 2
  BY FirstGlobal, Looping
<1>2. display.layer_surface = 0 /\ DOMAIN display = Fields
  BY <1>1, NoSurface
<1>3. /\ bound.layer_surface = 0 /\ bound.preferred_scale = display.preferred_scale
      /\ DOMAIN bound = Fields
      /\ \A h \in Wanted : h # g => bound[h] = display[h]
      /\ bound.wl_compositor # 0 /\ bound.zwlr_layer_shell_v1 # 0
  BY <1>2 DEF Fields, Wanted, Complete
<1>4. /\ d.surface = n + 1 /\ d.layer_surface = ls
      /\ d.preferred_scale = bound.preferred_scale
      /\ \A h \in Wanted : d[h] = bound[h]
      /\ d.wl_compositor = bound.wl_compositor
      /\ d.zwlr_layer_shell_v1 = bound.zwlr_layer_shell_v1
  BY <1>3 DEF Fields, Wanted
<1>5. requests \in Seq(GoodRequests) /\ requests' = requests \o (<<r>> \o <<r2, r3, r4>>)
  <2>1. requests \in Seq(GoodRequests)
    BY DEF ClientInv, ChannelsOK
  <2>2. requests' = requests \o (<<Request(Binding[g], Head(events).on, next_id, 0)>>
                                  \o Rigmarole(d))
    BY DEF Submit
  <2>3. Rigmarole(d) = <<r2, r3, r4>>
    BY <1>4, Zenon DEF Rigmarole
  <2>4. Request(Binding[g], Head(events).on, next_id, 0) = r
    BY <1>1, Zenon
  <2> HIDE DEF r, r2, r3, r4
  <2> QED
    BY <2>1, <2>2, <2>3, <2>4
<1> HIDE DEF r, r2, r3, r4
<1>6. /\ m \in Nat /\ Len(requests') = m + 4
      /\ \A j \in 1 .. Len(requests) : requests'[j] = requests[j]
      /\ requests'[m + 1] = r /\ requests'[m + 2] = r2
      /\ requests'[m + 3] = r3 /\ requests'[m + 4] = r4
  <2>1. FourMore(requests, r, r2, r3, r4, requests')
    BY <1>5, FourRequests, Zenon
  <2> QED
    BY <2>1, Zenon DEF FourMore
<1>7. PICK to : Harmony(to)
  BY DEF Agreement
<1> DEFINE to1 == Put(to, n, t)
<1>8. Sound(requests, from, to, scale_at, 0) /\ Arranged(to, display, n)
  BY <1>2, <1>7, Zenon DEF Harmony
<1> HIDE DEF m, from, ls
<1>9. Sound(requests, from, to, scale_at, ls)
  <2> DEFINE none == 0
  <2>1. Sound(requests, from, to, scale_at, none) /\ (ls = none \/ none = 0)
    BY <1>8
  <2> HIDE DEF none
  <2> QED
    BY <2>1, SoundStill
<1>10. Lone(to, ls)
  BY <1>6, <1>9, SoundEnds DEF m
<1>11. /\ Fine(r, to, scale_at) /\ After(r, to) = to1
       /\ \A k : Lone(to, k) => Made(to, n, t, k, to1)
       /\ Arranged(to1, bound, n + 1)
  <2>1. Bindable(to, display, n)
    BY <1>1, <1>2, <1>8, Zenon DEF Bindable
  <2>2. Binds(to, display, n, g, scale_at)
    BY <2>1, BindFine, Zenon
  <2> QED
    BY <2>2, Zenon DEF Binds, r
<1> HIDE DEF to1, t
<1>12. Lone(to1, ls)
  BY <1>10, <1>11, Zenon DEF Made
<1>13. SoundUpTo(requests', m + 1, from, to1, scale_at, ls)
  <2>1. SoundUpTo(requests', m, from, to, scale_at, ls)
    BY <1>6, <1>9, SoundSame, Zenon DEF m
  <2>2. Fine(requests'[m + 1], to, scale_at) /\ After(requests'[m + 1], to) = to1
    BY <1>6, <1>11, Zenon
  <2>3. m \in Nat
    BY <1>6
  <2> QED
    BY <1>12, <2>1, <2>2, <2>3, SoundNext
<1>14. PICK to2 :
          /\ SoundUpTo(requests', m + 4, from, to2, scale_at, ls)
          /\ Arranged(to2, bound, n + 3)
          /\ Named(to2, n + 1, "wl_surface")
          /\ Named(to2, ls, "zwlr_layer_surface_v1")
          /\ to2[ls].of = n + 1 /\ to2[ls].acked = 0
  <2> DEFINE k == n + 1
             m1 == m + 1
  <2> HIDE DEF n
  <2>1. /\ m1 \in Nat /\ k \in Nat /\ k > 2 /\ k + 1 = ls /\ k + 2 = n + 3
        /\ m1 + 1 = m + 2 /\ m1 + 2 = m + 3 /\ m1 + 3 = m + 4 /\ n + 2 = ls
    <3>1. n \in Nat /\ n > 2 /\ m \in Nat
      BY <1>1, <1>6
    <3> QED
      BY <3>1, Counting, Zenon DEF ls
  <2>2. Rigged(requests', m1, bound, k)
    <3>1. /\ requests'[m1 + 1] = r2 /\ requests'[m1 + 2] = r3
          /\ requests'[m1 + 3] = r4
      <4> HIDE DEF m1
      <4> QED
        BY <1>6, <2>1, Zenon
    <3>2. /\ r2 = Request("create_surface", bound.wl_compositor, k, 0)
          /\ r3 = Request("get_layer_surface", bound.zwlr_layer_shell_v1, k + 1, k)
          /\ r4 = Request("commit", k, 0, 0)
      BY <2>1, Zenon DEF r2, r3, r4
    <3> HIDE DEF m1, k
    <3> QED
      BY <3>1, <3>2, Zenon DEF Rigged
  <2>3. Arranged(to1, bound, k) /\ Lone(to1, k + 1)
        /\ SoundUpTo(requests', m1, from, to1, scale_at, k + 1)
    BY <1>11, <1>12, <1>13, <2>1, Zenon
  <2> HIDE DEF k, m1
  <2>4. Rigging(requests', m1, bound, k, from, to1, scale_at)
    BY <1>3, <2>1, <2>2, <2>3, Zenon DEF Rigging
  <2>5. PICK s2 : RiggedTo(requests', m1, bound, k, from, s2, scale_at)
    BY <2>4, RigmaroleFine, Zenon
  <2>6. /\ SoundUpTo(requests', m + 4, from, s2, scale_at, ls)
        /\ Arranged(s2, bound, n + 3)
        /\ Named(s2, k, "wl_surface")
        /\ Named(s2, ls, "zwlr_layer_surface_v1")
        /\ s2[ls].of = k /\ s2[ls].acked = 0
    BY <2>1, <2>5, Zenon DEF RiggedTo
  <2> QED
    BY <2>6, Zenon DEF k, n
<1>15. Arranged(to2, d, n + 3)
  <2>1. /\ DOMAIN to2 = 1 .. (n + 3) - 1 /\ Named(to2, 1, "wl_display")
        /\ n + 3 > 2 => Named(to2, 2, "wl_registry")
        /\ \A h \in Wanted : d[h] # 0 => Named(to2, d[h], h)
    BY <1>4, <1>14, Zenon DEF Arranged
  <2>2. /\ Named(to2, d.surface, "wl_surface")
        /\ Named(to2, d.layer_surface, "zwlr_layer_surface_v1")
        /\ to2[d.layer_surface].of = d.surface
    BY <1>4, <1>14, Zenon
  <2> QED
    BY <2>1, <2>2, Zenon DEF Arranged
<1>16. /\ Sound(requests', View(objects), to2, scale_at, display'.layer_surface)
       /\ Arranged(to2, display', next_id')
       /\ to2[display'.layer_surface].acked = 0
       /\ display'.preferred_scale = display.preferred_scale
       /\ \A h \in Wanted : h # g => display'[h] = display[h]
  BY <1>3, <1>4, <1>6, <1>14, <1>15, Zenon DEF Sound, from
<1> QED
  BY <1>2, <1>7, <1>16, BoundAgrees

(* The handler of the registry, whatever is announced.                     *)
LEMMA GlobalAgrees ==
    ASSUME ClientInv, ServerTypes, Agreement, HandleGlobal
    PROVE  Agreement'
<1>1. Dispatch("registry", "global")
  BY DEF HandleGlobal
<1>2. CASE Head(events).arg \notin Wanted
  BY <1>1, <1>2, OtherGlobalAgrees DEF HandleGlobal
<1>3. CASE Head(events).arg \in Wanted
  <2> DEFINE g == Head(events).arg
             bound == [display EXCEPT ![g] = next_id]
             d == [bound EXCEPT !.surface = next_id + 1,
                                !.layer_surface = next_id + 2]
  <2>1. Global(g)
    BY <1>3 DEF HandleGlobal
  <2>2. CASE ~ Complete(bound)
    <3>1. /\ display' = bound /\ next_id' = next_id + 1
          /\ Submit(<<Request(Binding[g], Head(events).on, next_id, 0)>>)
      BY <2>1, <2>2 DEF Global
    <3> QED
      BY <1>1, <1>3, <3>1, PartAgrees
  <2>3. CASE Complete(bound)
    <3>1. /\ display' = d /\ next_id' = next_id + 3
          /\ Submit(<<Request(Binding[g], Head(events).on, next_id, 0)>>
                      \o Rigmarole(d))
      BY <2>1, <2>3 DEF Global
    <3> QED
      BY <1>1, <1>3, <2>3, <3>1, AllBoundAgrees
  <2> QED
    BY <2>2, <2>3
<1> QED
  BY <1>2, <1>3

-----------------------------------------------------------------------------
(* Whatever happens, while no global is announced twice the two agree.     *)
LEMMA AgreementKept ==
    ClientInv /\ ServerTypes /\ AgreementInv /\ [Next]_vars => AgreementInv'
<1> SUFFICES ASSUME ClientInv, ServerTypes, AgreementInv, [Next]_vars, AnnouncedOnce'
             PROVE  Agreement'
  BY Zenon DEF AgreementInv
<1>1. Agreement
  BY OnceBefore, Zenon DEF AgreementInv
<1>2. CASE Run
  BY <1>1, <1>2, RunAgrees
<1>3. CASE Panic
  BY <1>1, <1>3, StillAgrees DEF Panic, serverVars, Agreement, Faultless
<1>4. CASE HandleGlobal
  BY <1>1, <1>4, GlobalAgrees
<1>5. CASE HandlePreferredScale
  BY <1>1, <1>5, PreferredScaleAgrees
<1>6. CASE HandleConfigure
  BY <1>1, <1>6, AnswerAgrees
<1>7. CASE HandleNotice
  BY <1>1, <1>7, NoticeAgrees
<1>8. CASE ServerStep
  <2>1. ServerNext /\ UNCHANGED clientVars
    BY <1>8 DEF ServerStep
  <2>2. CASE Serve
    BY <1>1, <2>1, <2>2, ServeAgrees
  <2>3. ASSUME NEW g \in DOMAIN MaxAnnounced, Announce(g) PROVE Agreement'
    BY <1>1, <2>1, <2>3, AnnounceAgrees
  <2>4. ASSUME NEW s \in Of("wl_surface"), NEW n \in Scales, Prefer(s, n)
        PROVE  Agreement'
    BY <1>1, <2>1, <2>4, PreferAgrees
  <2>5. ASSUME NEW o \in Notified, Notify(o) PROVE Agreement'
    BY <1>1, <2>1, <2>5, NotifyAgrees
  <2>6. ASSUME NEW l \in Of("zwlr_layer_surface_v1"), Configure(l)
        PROVE  Agreement'
    BY <1>1, <2>1, <2>6, ConfigureAgrees
  <2> QED
    BY <2>1, <2>2, <2>3, <2>4, <2>5, <2>6, Zenon DEF ServerNext
<1>9. CASE UNCHANGED vars
  BY <1>1, <1>9, StillAgrees DEF vars, serverVars, clientVars, Agreement, Faultless
<1> QED
  BY <1>2, <1>3, <1>4, <1>5, <1>6, <1>7, <1>8, <1>9, Zenon DEF Next, ClientNext

-----------------------------------------------------------------------------
(* The two agree as they begin.                                            *)
LEMMA AgreementInitially == Init => ServerTypes /\ AgreementInv
<1> SUFFICES ASSUME Init PROVE ServerTypes /\ Agreement
  BY DEF AgreementInv
<1>1. /\ requests = <<>> /\ events = <<>> /\ next_id = 2 /\ status = "start"
      /\ objects = [o \in {1} |-> Object("wl_display", 0, 0)]
      /\ announced = [g \in DOMAIN MaxAnnounced |-> 0]
      /\ preferred = <<1>> /\ configured = 0 /\ scale_at = <<>>
      /\ shown = Nothing /\ fault = "none"
      /\ display.layer_surface = 0 /\ display.preferred_scale = 1
      /\ \A g \in Wanted : display[g] = 0
  BY DEF Init, ServerInit, Wanted
<1>2. ServerTypes
  BY <1>1 DEF ServerTypes
<1> DEFINE to == View(objects)
           t == Thing("wl_display", 0, 0)
<1>3. DOMAIN to = {1} /\ to[1] = t /\ to \in [1 .. 1 -> Things]
  <2>1. t \in Things
    <3>1. "wl_display" \in Kinds
      BY LayerIsKind
    <3> QED
      BY <3>1 DEF Things, Thing
  <2>2. to = [o \in {1} |-> t]
    BY <1>1 DEF View, Object, Thing
  <2> HIDE DEF t, to
  <2> QED
    BY <2>1, <2>2
<1>4. t.interface = "wl_display"
  BY DEF Thing
<1> HIDE DEF t, to
<1>5. Lone(to, 0)
  <2>1. State(to)
    BY <1>3 DEF State
  <2> QED
    BY <1>3, <1>4, <2>1 DEF Lone
<1>6. Sound(requests, to, to, scale_at, 0)
  BY <1>1, <1>5, SoundNone
<1>7. Arranged(to, display, 2)
  BY <1>1, <1>3, <1>4 DEF Arranged, Named
<1>8. Told(events, Heard(to, display), Said, scale_at)
  <2>1. Heard(to, display) = [serial |-> 0, scale |-> 1] /\ Said = [serial |-> 0, scale |-> 1]
    BY <1>1 DEF Heard, Said
  <2>2. [serial |-> 0, scale |-> 1] \in News /\ Len(events) = 0
    BY <1>1 DEF News
  <2> QED
    BY <2>1, <2>2, ToldNone
<1>9. Harmony(to)
  BY <1>1, <1>6, <1>7, <1>8, Zenon DEF Harmony, to
<1>10. GlobalsNew(events, announced, display)
  BY <1>1 DEF GlobalsNew
<1>11. OwedIs(objects, configured)
  <2>1. Object("wl_display", 0, 0) \in ObjectRecords
    BY LayerIsKind DEF Object, ObjectRecords
  <2>2. objects \in [1 .. 1 -> ObjectRecords]
    BY <1>1, <2>1
  <2>3. \A l \in DOMAIN objects : objects[l].interface # "zwlr_layer_surface_v1"
    BY <1>1 DEF Object
  <2> QED
    BY <1>1, <2>2, <2>3 DEF OwedIs
<1>12. ShownIs(shown, scale_at)
  BY <1>1 DEF ShownIs
<1>13. Faultless
  BY <1>1 DEF Faultless
<1> QED
  BY <1>2, <1>9, <1>10, <1>11, <1>12, <1>13, Zenon DEF Agreement

(* And so they always do.                                                  *)
LEMMA AgreementAlways == Spec => []AgreementInv
<1>1. ClientInv /\ ServerTypes /\ [Next]_vars => ServerTypes'
  BY ServerTypesKept
<1> QED
  BY <1>1, ClientInvAlways, AgreementInitially, AgreementKept, PTL DEF Spec

(* However events are delayed, globals ordered and scales changed, and     *)
(* however many requests the compositor has yet to serve when the program  *)
(* makes more: as long as no global is announced twice, only one of its    *)
(* requests can be taken for a protocol error, the commit of the empty     *)
(* layer surface that has no size yet; and if it is, the compositor has    *)
(* configured and shown nothing, and never will.                           *)
THEOREM NoFaultCorrect == Spec => []NoFault
<1>1. ServerTypes /\ AgreementInv => NoFault
  <2> SUFFICES ASSUME ServerTypes, AgreementInv, AnnouncedOnce, fault # "none"
               PROVE  fault = "unsized" /\ configured = 0 /\ shown = Nothing
    BY Zenon DEF NoFault
  <2>1. fault = "unsized" /\ configured = 0 /\ ShownIs(shown, scale_at)
    BY Zenon DEF AgreementInv, Agreement, Faultless
  <2>2. DOMAIN scale_at = {}
    BY <2>1 DEF ServerTypes
  <2> QED
    BY <2>1, <2>2 DEF ShownIs
<1>2. ClientInv /\ ServerTypes /\ [Next]_vars => ServerTypes'
  BY ServerTypesKept
<1>3. Init => ServerTypes
  BY AgreementInitially
<1>4. Spec => []ServerTypes
  BY <1>2, <1>3, ClientInvAlways, PTL DEF Spec
<1> QED
  BY <1>1, <1>4, AgreementAlways, PTL

(* Every picture shown has the scale that the compositor preferred when it *)
(* sent the configure event that the picture answers, even if the scale    *)
(* has changed since or changes before the picture is committed.           *)
THEOREM PictureFollowsConfigureCorrect == Spec => []PictureFollowsConfigure
<1>1. AgreementInv => PictureFollowsConfigure
  BY DEF AgreementInv, Agreement, ShownIs, PictureFollowsConfigure
<1> QED
  BY <1>1, AgreementAlways, PTL

-----------------------------------------------------------------------------
(* Of b configure events, a have been read and the others are under way.   *)
Weight(e) == IF e.op = "configure" THEN 1 ELSE 0

UnreadBy(c, evs, a, b) ==
    /\ c[1] = a /\ c[Len(evs) + 1] = b
    /\ \A i \in 1 .. Len(evs) + 1 : c[i] \in 0 .. b
    /\ \A i \in 1 .. Len(evs) : c[i + 1] = c[i] + Weight(evs[i])

Unread(evs, a, b) == \E c : UnreadBy(c, evs, a, b)

One(id) == IF id = 0 THEN 0 ELSE 1

(* The ids that are taken but for those of pictures: the display, the      *)
(* registry, the globals bound and the two surfaces.                       *)
Globals(d) == One(d.wl_compositor) + One(d.zwlr_layer_shell_v1) + One(d.wl_shm)

Surfaces(d) == IF d.layer_surface = 0 THEN 0 ELSE 2

Base(st, d) == IF st = "start" THEN 2 ELSE 3 + Globals(d) + Surfaces(d)

Taking ==
    /\ status = "start" => \A f \in Fields \ {"preferred_scale"} : display[f] = 0
    /\ \E a \in Nat : /\ next_id = Base(status, display) + 3 * a
                      /\ Unread(events, a, configured)

TakingInv == AnnouncedOnce => Taking

(* The event at the head is read.                                          *)
LEMMA UnreadHead ==
    ASSUME NEW evs, Len(evs) \in Nat, Len(evs) # 0, NEW rest,
           Len(rest) = Len(evs) - 1,
           \A i \in 1 .. Len(rest) : rest[i] = evs[i + 1],
           NEW a, NEW b, Unread(evs, a, b)
    PROVE  Unread(rest, a + Weight(evs[1]), b)
<1>1. PICK c : UnreadBy(c, evs, a, b)
  BY DEF Unread
<1> DEFINE n == Len(rest)
           c2 == [i \in 1 .. n + 1 |-> c[i + 1]]
<1>2. n \in Nat /\ Len(evs) = n + 1
  OBVIOUS
<1>3. /\ c[1] = a /\ c[(n + 1) + 1] = b
      /\ \A i \in 1 .. (n + 1) + 1 : c[i] \in 0 .. b
      /\ \A i \in 1 .. n + 1 : c[i + 1] = c[i] + Weight(evs[i])
  BY <1>1, <1>2, Zenon DEF UnreadBy
<1>4. 1 \in 1 .. n + 1 /\ n + 1 \in 1 .. n + 1
  BY <1>2
<1> HIDE DEF n
<1>5. \A i \in 1 .. n + 1 : c2[i] = c[i + 1]
  OBVIOUS
<1> HIDE DEF c2
<1>6. c2[1] = a + Weight(evs[1]) /\ c2[n + 1] = b
  BY <1>3, <1>4, <1>5, Zenon
<1>7. ASSUME NEW i \in 1 .. n + 1 PROVE c2[i] \in 0 .. b
  <2>1. i + 1 \in 1 .. (n + 1) + 1
    BY <1>2
  <2> QED
    BY <1>3, <1>5, <2>1, Zenon
<1>8. ASSUME NEW i \in 1 .. n PROVE c2[i + 1] = c2[i] + Weight(rest[i])
  <2>1. i + 1 \in 1 .. n + 1 /\ i \in 1 .. n + 1
    BY <1>2
  <2>2. rest[i] = evs[i + 1] /\ c2[i] = c[i + 1] /\ c2[i + 1] = c[(i + 1) + 1]
    BY <1>5, <2>1, Zenon DEF n
  <2> QED
    BY <1>3, <2>1, <2>2, Zenon
<1>9. UnreadBy(c2, rest, a + Weight(evs[1]), b)
  BY <1>6, <1>7, <1>8, Zenon DEF UnreadBy, n
<1> QED
  BY <1>9, Zenon DEF Unread

(* An event is sent.                                                       *)
LEMMA UnreadMore ==
    ASSUME NEW evs, Len(evs) \in Nat, NEW more, NEW e,
           Len(more) = Len(evs) + 1, more[Len(evs) + 1] = e,
           \A i \in 1 .. Len(evs) : more[i] = evs[i],
           NEW a, NEW b \in Nat, Unread(evs, a, b)
    PROVE  Unread(more, a, b + Weight(e))
<1>1. PICK c : UnreadBy(c, evs, a, b)
  BY DEF Unread
<1> DEFINE n == Len(evs)
           to == b + Weight(e)
           c2 == [i \in 1 .. (n + 1) + 1 |-> IF i = (n + 1) + 1 THEN to ELSE c[i]]
<1>2. n \in Nat /\ to \in Nat /\ b <= to
  BY DEF Weight
<1>3. /\ c[1] = a /\ c[n + 1] = b
      /\ \A i \in 1 .. n + 1 : c[i] \in 0 .. b
      /\ \A i \in 1 .. n : c[i + 1] = c[i] + Weight(evs[i])
  BY <1>1, Zenon DEF UnreadBy
<1> HIDE DEF n
<1>4. c2[(n + 1) + 1] = to /\ \A i \in 1 .. n + 1 : c2[i] = c[i]
  <2> HIDE DEF to
  <2>1. (n + 1) + 1 \in 1 .. (n + 1) + 1
    BY <1>2
  <2>2. \A i \in 1 .. n + 1 : i \in 1 .. (n + 1) + 1 /\ i # (n + 1) + 1
    BY <1>2
  <2> QED
    BY <2>1, <2>2
<1> HIDE DEF c2
<1>5. 1 \in 1 .. n + 1 /\ n + 1 \in 1 .. n + 1
  BY <1>2
<1>6. c2[1] = a /\ c2[n + 1] = b
  BY <1>3, <1>4, <1>5, Zenon
<1>7. ASSUME NEW i \in 1 .. (n + 1) + 1 PROVE c2[i] \in 0 .. to
  <2> HIDE DEF to
  <2>1. CASE i = (n + 1) + 1
    BY <1>2, <1>4, <2>1
  <2>2. CASE i \in 1 .. n + 1
    <3>1. c2[i] \in 0 .. b
      BY <1>3, <1>4, <2>2, Zenon
    <3> QED
      BY <1>2, <3>1
  <2> QED
    BY <1>2, <2>1, <2>2
<1>8. ASSUME NEW i \in 1 .. n + 1 PROVE c2[i + 1] = c2[i] + Weight(more[i])
  <2>1. i = n + 1 \/ (i \in 1 .. n /\ i + 1 \in 1 .. n + 1)
    BY <1>2
  <2>2. CASE i = n + 1
    BY <1>4, <1>6, <2>2, Zenon DEF n
  <2>3. CASE i \in 1 .. n /\ i + 1 \in 1 .. n + 1
    <3>1. more[i] = evs[i]
      BY <2>3, Zenon DEF n
    <3> QED
      BY <1>3, <1>4, <2>3, <3>1, Zenon
  <2> QED
    BY <2>1, <2>2, <2>3
<1>9. UnreadBy(c2, more, a, to)
  <2>1. Len(more) = n + 1
    BY DEF n
  <2> HIDE DEF to
  <2> QED
    BY <1>4, <1>6, <1>7, <1>8, <2>1, Zenon DEF UnreadBy
<1> QED
  BY <1>9, Zenon DEF Unread

(* When nothing is under way all is read.                                  *)
LEMMA UnreadNone ==
    ASSUME NEW evs, Len(evs) = 0, NEW n \in Nat
    PROVE  /\ Unread(evs, n, n)
           /\ \A a : Unread(evs, a, n) => a = n
<1>1. Len(evs) + 1 = 1 /\ 1 .. Len(evs) = {} /\ 1 .. Len(evs) + 1 = {1}
  OBVIOUS
<1>2. Unread(evs, n, n)
  <2> DEFINE c == [i \in {1} |-> n]
  <2>1. c[1] = n /\ n \in 0 .. n
    OBVIOUS
  <2> HIDE DEF c
  <2>2. UnreadBy(c, evs, n, n)
    BY <1>1, <2>1, Zenon DEF UnreadBy
  <2> QED
    BY <2>2, Zenon DEF Unread
<1>3. ASSUME NEW a, Unread(evs, a, n) PROVE a = n
  <2>1. PICK c : UnreadBy(c, evs, a, n)
    BY <1>3 DEF Unread
  <2> QED
    BY <1>1, <2>1, Zenon DEF UnreadBy
<1> QED
  BY <1>2, <1>3

(* No more are read than were sent.                                        *)
LEMMA UnreadBound ==
    ASSUME NEW evs, Len(evs) \in Nat, NEW a, NEW b, Unread(evs, a, b)
    PROVE  a \in 0 .. b
<1>1. PICK c : UnreadBy(c, evs, a, b)
  BY DEF Unread
<1>2. 1 \in 1 .. Len(evs) + 1
  OBVIOUS
<1> QED
  BY <1>1, <1>2, Zenon DEF UnreadBy

-----------------------------------------------------------------------------
(* The program handles an event, and takes as many ids as it should.       *)
LEMMA ReadTakes ==
    ASSUME ClientInv, ServerTypes, Taking, status = "loop", status' = "loop",
           events # <<>>, events' = Tail(events), configured' = configured,
           next_id' = next_id + (Base(status, display') - Base(status, display))
                         + 3 * Weight(Head(events))
    PROVE  Taking'
<1>1. PICK a \in Nat : /\ next_id = Base(status, display) + 3 * a
                       /\ Unread(events, a, configured)
  BY DEF Taking
<1> DEFINE w == Weight(Head(events))
<1>2. events \in Seq(GoodEvents)
  BY DEF ClientInv, ChannelsOK
<1>3. /\ events[1] = Head(events) /\ Len(events) \in Nat /\ Len(events) # 0
      /\ Len(Tail(events)) = Len(events) - 1
      /\ \A i \in 1 .. Len(Tail(events)) : Tail(events)[i] = events[i + 1]
  BY <1>2, HeadAndTail
<1>4. Unread(Tail(events), a + Weight(events[1]), configured)
  BY <1>1, <1>3, UnreadHead
<1>5. Unread(events', a + w, configured')
  BY <1>3, <1>4, Zenon
<1>6. w \in Nat
  BY DEF Weight
<1>7. Base(status, display) \in Nat /\ Base(status', display') \in Nat
      /\ Base(status, display') = Base(status', display')
  BY DEF Base, Globals, Surfaces, One
<1>8. next_id' = Base(status', display') + 3 * (a + w)
  <2> DEFINE x == Base(status, display)
             y == Base(status', display')
  <2>1. next_id' = next_id + (y - x) + 3 * w /\ next_id = x + 3 * a
    BY <1>1, <1>7
  <2>2. x \in Nat /\ y \in Nat
    BY <1>7
  <2> HIDE DEF x, y, w
  <2>3. next_id' = y + 3 * (a + w)
    BY <1>6, <2>1, <2>2
  <2> QED
    BY <2>3 DEF y
<1>9. a + w \in Nat
  BY <1>6
<1> HIDE DEF w
<1> QED
  BY <1>5, <1>8, <1>9, Zenon DEF Taking

(* The compositor sends an event.                                          *)
LEMMA SendTakes ==
    ASSUME ClientInv, ServerTypes, Taking, UNCHANGED clientVars,
           NEW e, Emit(e), configured' = configured + Weight(e)
    PROVE  Taking'
<1>1. PICK a \in Nat : /\ next_id = Base(status, display) + 3 * a
                       /\ Unread(events, a, configured)
  BY DEF Taking
<1>2. events \in Seq(GoodEvents) /\ events' = Append(events, e)
  BY DEF ClientInv, ChannelsOK, Emit
<1>3. /\ Len(events) \in Nat /\ Len(events') = Len(events) + 1
      /\ events'[Len(events) + 1] = e
      /\ \A i \in 1 .. Len(events) : events'[i] = events[i]
  BY <1>2, OneMore
<1>4. configured \in Nat
  BY DEF ServerTypes
<1>5. Unread(events', a, configured')
  <2>1. Unread(events', a, configured + Weight(e))
    BY <1>1, <1>3, <1>4, UnreadMore
  <2> QED
    BY <2>1
<1>6. UNCHANGED <<status, display, next_id>>
  BY DEF clientVars
<1> QED
  BY <1>1, <1>5, <1>6, Zenon DEF Taking

(* Neither happens.                                                        *)
LEMMA QuietTakes ==
    ASSUME Taking, UNCHANGED <<next_id, display, events, configured>>,
           status' = status \/ (status # "start" /\ status' # "start")
    PROVE  Taking'
<1>1. PICK a \in Nat : /\ next_id = Base(status, display) + 3 * a
                       /\ Unread(events, a, configured)
  BY DEF Taking
<1>2. Base(status', display') = Base(status, display)
  BY Zenon DEF Base
<1>3. status' = "start" => status = "start"
  OBVIOUS
<1> QED
  BY <1>1, <1>2, <1>3, Zenon DEF Taking

(* A global takes one id, the last also two for the surfaces.              *)
LEMMA GlobalTakes ==
    ASSUME ClientInv, ServerTypes, Agreement, Taking, HandleGlobal
    PROVE  Taking'
<1> DEFINE g == Head(events).arg
           bound == [display EXCEPT ![g] = next_id]
           d == [bound EXCEPT !.surface = next_id + 1, !.layer_surface = next_id + 2]
           more == Base(status, display') - Base(status, display)
<1>1. Dispatch("registry", "global")
  BY DEF HandleGlobal
<1>2. /\ events # <<>> /\ events' = Tail(events) /\ configured' = configured
      /\ status = "loop" /\ status' = "loop" /\ Head(events).op = "global"
      /\ g \in Wanted => display[g] = 0
  BY <1>1, FirstGlobal DEF Dispatch
<1>3. Weight(Head(events)) = 0
  BY <1>2 DEF Weight
<1>4. DOMAIN display = Fields /\ next_id \in Nat /\ next_id >= 2
  BY DEF ClientInv, DisplayOK, StatusOK
<1>5. next_id' = next_id + more
  <2>1. CASE g \notin Wanted
    <3>1. next_id' = next_id /\ display' = display
      BY <2>1 DEF HandleGlobal
    <3>2. Base(status, display) \in Nat
      BY DEF Base, Globals, Surfaces, One
    <3> QED
      BY <1>4, <3>1, <3>2
  <2>2. CASE g \in Wanted
    <3>1. display[g] = 0 /\ display.layer_surface = 0
      BY <1>2, <2>2, NoSurface
    <3>2. /\ g \in {"wl_compositor", "zwlr_layer_shell_v1", "wl_shm"}
          /\ \A f \in Fields : bound[f] = IF f = g THEN next_id ELSE display[f]
          /\ DOMAIN bound = Fields
      BY <1>4, <2>2 DEF Wanted
    <3>3. /\ d.layer_surface = next_id + 2
          /\ \A w \in Wanted : d[w] = bound[w]
      BY <3>2 DEF Fields, Wanted
    <3>4. \/ display' = bound /\ next_id' = next_id + 1
          \/ display' = d /\ next_id' = next_id + 3
      BY <2>2 DEF HandleGlobal, Global
    <3>5. {"wl_compositor", "zwlr_layer_shell_v1", "wl_shm"} \subseteq Wanted
          /\ Wanted \subseteq Fields /\ "layer_surface" \in Fields
          /\ "layer_surface" \notin Wanted
      BY DEF Wanted, Fields
    <3> HIDE DEF d, bound, g
    <3>6. /\ bound.layer_surface = 0
          /\ Globals(bound) = Globals(display) + 1
      BY <1>4, <3>1, <3>2, <3>5 DEF Globals, One
    <3>7. Globals(d) = Globals(bound)
      BY <3>3, <3>5 DEF Globals
    <3>8. d.layer_surface # 0
      BY <1>4, <3>3
    <3>9. Globals(display) \in Nat
      BY DEF Globals, One
    <3>10. Surfaces(display) = 0 /\ Surfaces(bound) = 0 /\ Surfaces(d) = 2
      BY <3>1, <3>6, <3>8 DEF Surfaces
    <3>11. \A x : Base(status, x) = 3 + Globals(x) + Surfaces(x)
      BY <1>2 DEF Base
    <3>12. /\ Base(status, display) = 3 + Globals(display)
           /\ Base(status, bound) = 3 + Globals(display) + 1
           /\ Base(status, d) = 3 + Globals(display) + 3
      BY <3>6, <3>7, <3>9, <3>10, <3>11
    <3>13. CASE display' = bound /\ next_id' = next_id + 1
      <4>1. Base(status, display') = Base(status, bound)
        BY <3>13
      <4> QED
        BY <1>4, <3>9, <3>12, <3>13, <4>1
    <3>14. CASE display' = d /\ next_id' = next_id + 3
      <4>1. Base(status, display') = Base(status, d)
        BY <3>14
      <4> QED
        BY <1>4, <3>9, <3>12, <3>14, <4>1
    <3> QED
      BY <3>4, <3>13, <3>14
  <2> QED
    BY <2>1, <2>2
<1>6. Base(status, display) \in Nat /\ Base(status, display') \in Nat
  BY DEF Base, Globals, Surfaces, One
<1>7. next_id' = next_id + (Base(status, display') - Base(status, display))
                   + 3 * Weight(Head(events))
  BY <1>3, <1>4, <1>5, <1>6
<1> QED
  BY <1>2, <1>7, ReadTakes

(* The other handlers: only a configure event takes ids, three.            *)
LEMMA HandlerTakes ==
    ASSUME ClientInv, ServerTypes, Taking,
           HandlePreferredScale \/ HandleConfigure \/ HandleNotice
    PROVE  Taking'
<1>1. /\ events # <<>> /\ events' = Tail(events) /\ configured' = configured
      /\ status = "loop" /\ status' = "loop"
  BY DEF HandlePreferredScale, HandleConfigure, HandleNotice, Dispatch
<1>2. next_id' = next_id + 3 * Weight(Head(events))
  <2>1. next_id \in Nat
    BY DEF ClientInv, StatusOK
  <2>2. CASE HandleConfigure
    <3>1. next_id' = next_id + 3 /\ Weight(Head(events)) = 1
      BY <2>2 DEF HandleConfigure, Dispatch, Weight
    <3> QED
      BY <2>1, <3>1
  <2>3. CASE HandlePreferredScale \/ HandleNotice
    <3>1. next_id' = next_id /\ Weight(Head(events)) = 0
      BY <2>3 DEF HandlePreferredScale, HandleNotice, Dispatch, Weight
    <3> QED
      BY <2>1, <3>1
  <2> QED
    BY <2>2, <2>3
<1>3. Base(status, display') = Base(status, display)
  <2>1. DOMAIN display = Fields
    BY DEF ClientInv, DisplayOK
  <2>2. \A f \in Fields \ {"preferred_scale"} : display'[f] = display[f]
    BY <2>1 DEF HandlePreferredScale, HandleConfigure, HandleNotice
  <2> QED
    BY <2>2 DEF Base, Globals, Surfaces, Fields, Wanted
<1>4. Base(status, display) \in Nat /\ next_id \in Nat /\ Weight(Head(events)) \in Nat
  BY DEF Base, Globals, Surfaces, One, ClientInv, StatusOK, Weight
<1>5. next_id' = next_id + (Base(status, display') - Base(status, display))
                   + 3 * Weight(Head(events))
  BY <1>2, <1>3, <1>4
<1> QED
  BY <1>1, <1>5, ReadTakes

(* The compositor acts.                                                    *)
LEMMA ServerTakes ==
    ASSUME ClientInv, ServerTypes, Taking, ServerStep
    PROVE  Taking'
<1>1. ServerNext /\ UNCHANGED clientVars /\ configured \in Nat
  BY DEF ServerStep, ServerTypes
<1>2. UNCHANGED <<status, display, next_id>>
  BY <1>1 DEF clientVars
<1>3. CASE Serve
  BY <1>2, <1>3, ServesQuietly, QuietTakes
<1>4. ASSUME NEW g \in DOMAIN MaxAnnounced, Announce(g) PROVE Taking'
  <2>1. PICK o : Emit(Event("global", o, g))
    BY <1>4 DEF Announce
  <2>2. configured' = configured + Weight(Event("global", o, g))
    BY <1>1, <1>4 DEF Announce, Weight, Event
  <2> QED
    BY <1>1, <2>1, <2>2, SendTakes
<1>5. ASSUME NEW s, NEW n, Prefer(s, n) PROVE Taking'
  <2>1. /\ Emit(Event("preferred_buffer_scale", s, n))
        /\ configured' = configured + Weight(Event("preferred_buffer_scale", s, n))
    BY <1>1, <1>5 DEF Prefer, Weight, Event
  <2> QED
    BY <1>1, <2>1, SendTakes
<1>6. ASSUME NEW l, Configure(l) PROVE Taking'
  <2>1. /\ Emit(Event("configure", l, configured'))
        /\ configured' = configured + Weight(Event("configure", l, configured'))
    BY <1>1, <1>6 DEF Configure, Weight, Event
  <2> QED
    BY <1>1, <2>1, SendTakes
<1>7. ASSUME NEW o, Notify(o) PROVE Taking'
  <2>1. configured' = configured
    BY <1>7 DEF Notify
  <2>2. CASE Emit(Event("notice", o, 0))
    <3>1. configured' = configured + Weight(Event("notice", o, 0))
      BY <1>1, <2>1 DEF Weight, Event
    <3> QED
      BY <1>1, <2>2, <3>1, SendTakes
  <2>3. CASE Emit(Event("global", o, "wl_output"))
    <3>1. configured' = configured + Weight(Event("global", o, "wl_output"))
      BY <1>1, <2>1 DEF Weight, Event
    <3> QED
      BY <1>1, <2>3, <3>1, SendTakes
  <2> QED
    BY <1>7, <2>2, <2>3 DEF Notify
<1> QED
  BY <1>1, <1>3, <1>4, <1>5, <1>6, <1>7, Zenon DEF ServerNext

(* While no global is announced twice, every step takes what it should.    *)
LEMMA TakingKept ==
    ClientInv /\ ServerTypes /\ AgreementInv /\ TakingInv /\ [Next]_vars
       => TakingInv'
<1> SUFFICES ASSUME ClientInv, ServerTypes, AgreementInv, TakingInv, [Next]_vars,
                    AnnouncedOnce'
             PROVE  Taking'
  BY Zenon DEF TakingInv
<1>1. Agreement /\ Taking
  BY OnceBefore, Zenon DEF AgreementInv, TakingInv
<1>2. CASE Run
  <2>1. PICK a \in Nat : /\ next_id = Base(status, display) + 3 * a
                         /\ Unread(events, a, configured)
    BY <1>1 DEF Taking
  <2>2. /\ status = "start" /\ status' = "loop" /\ next_id' = next_id + 1
        /\ UNCHANGED <<display, events, configured>>
    BY <1>2 DEF Run
  <2>3. \A f \in Fields \ {"preferred_scale"} : display[f] = 0
    BY <1>1, <2>2 DEF Taking
  <2>4. Base(status, display) = 2 /\ Base(status', display') = 3
    BY <2>2, <2>3 DEF Base, Globals, Surfaces, One, Fields, Wanted
  <2>5. next_id' = Base(status', display') + 3 * a
    BY <2>1, <2>2, <2>4
  <2> QED
    BY <2>1, <2>2, <2>5 DEF Taking
<1>3. CASE Panic
  BY <1>1, <1>3, QuietTakes DEF Panic, serverVars
<1>4. CASE HandleGlobal
  BY <1>1, <1>4, GlobalTakes
<1>5. CASE HandlePreferredScale \/ HandleConfigure \/ HandleNotice
  BY <1>1, <1>5, HandlerTakes
<1>6. CASE ServerStep
  BY <1>1, <1>6, ServerTakes
<1>7. CASE UNCHANGED vars
  BY <1>1, <1>7, QuietTakes DEF vars, serverVars, clientVars
<1> QED
  BY <1>2, <1>3, <1>4, <1>5, <1>6, <1>7, Zenon DEF Next, ClientNext

(* Every configure event is answered once, with three ids, and nothing     *)
(* else takes ids after the first eight: what the program uses grows with  *)
(* the number of configure events, however they come, and with that alone. *)
THEOREM GrowthCorrect == Spec => []Growth
<1>1. Init => TakingInv
  <2> SUFFICES ASSUME Init PROVE Taking
    BY DEF TakingInv
  <2>1. /\ status = "start" /\ next_id = 2 /\ Len(events) = 0 /\ configured = 0
        /\ \A f \in Fields \ {"preferred_scale"} : display[f] = 0
    BY DEF Init, ServerInit, Fields, Wanted
  <2>2. Unread(events, 0, configured) /\ next_id = Base(status, display) + 3 * 0
    BY <2>1, UnreadNone DEF Base
  <2> QED
    BY <2>1, <2>2 DEF Taking
<1>2. ASSUME ClientInv, ServerTypes, TakingInv PROVE Growth
  <2> SUFFICES ASSUME Taking PROVE Growth
    BY <1>2 DEF TakingInv, Growth
  <2>1. PICK a \in Nat : /\ next_id = Base(status, display) + 3 * a
                         /\ Unread(events, a, configured)
    BY DEF Taking
  <2>2. events \in Seq(GoodEvents) /\ configured \in Nat
    BY <1>2 DEF ClientInv, ChannelsOK, ServerTypes
  <2>3. a \in 0 .. configured
    BY <2>1, <2>2, UnreadBound
  <2>4. Base(status, display) \in Nat /\ Base(status, display) <= 8
    BY DEF Base, Globals, Surfaces, One
  <2>5. next_id <= 8 + 3 * configured
    BY <2>1, <2>2, <2>3, <2>4
  <2>6. ASSUME events = <<>>, display.layer_surface # 0
        PROVE  next_id = 8 + 3 * configured
    <3>1. Len(events) = 0
      BY <2>6
    <3>2. a = configured
      BY <2>1, <2>2, <3>1, UnreadNone
    <3>3. status # "start"
      BY <2>6 DEF Taking, Fields
    <3>4. \A w \in Wanted : display[w] # 0
      BY <1>2, <2>6 DEF ClientInv, DisplayOK
    <3>5. Base(status, display) = 8
      BY <2>6, <3>3, <3>4 DEF Base, Globals, Surfaces, One, Wanted
    <3> QED
      BY <2>1, <3>2, <3>5
  <2> QED
    BY <2>5, <2>6 DEF Growth
<1>3. ClientInv /\ ServerTypes /\ [Next]_vars => ServerTypes'
  BY ServerTypesKept
<1> QED
  BY <1>1, <1>2, <1>3, ClientInvAlways, AgreementAlways, AgreementInitially,
     TakingKept, PTL DEF Spec

=============================================================================
