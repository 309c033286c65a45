# whale-land in TLA+

A verification development of whale-land, an asynchronous Wayland client
library in Rust, of the generator `wlproto` that writes its protocol bindings,
and of the example program `activate-linux`. Paths below are relative to the
repository; `connection.rs`, `packet.rs` and so on are in `whale-land/src/`.
The repository has no tests and no documents; what it says of itself is in its
comments, types and error values, and those are what the findings quote.

## The system

### Components, state, operations

| component | source | state it keeps | operations |
|---|---|---|---|
| Event handler registry | `connection.rs` 151-198 | map object -> handler, queue of pending operations, a `tokio::sync::RwLock` around each | `register_handler`, `drop_handler`, `dispatch` (which calls `update_event_handler_registrations`) |
| Object id allocator | `connection.rs` 138-145 | `AtomicU32` | `get_and_increment_next_object_id` |
| Send path | `connection.rs` 53-73, `socket_fd_ext.rs` 100-194 | `send_lock`, the socket's send buffer | `send_packet` |
| Receive path | `connection.rs` 75-136, `socket_fd_ext.rs` 196-295 | `recv_lock`, the socket's receive queue and its file descriptors | `recv_packet` |
| Connection lifetime | `connection.rs` 28-51, 147-149, 200-213 | the `Arc` of the inner connection | `new_from_env`, `new_from_socket_path`, `get_display_proxy`, `downgrade`, `upgrade` |
| Packet codec | `packet.rs` | payload and fds of a packet, read position | `push_*`, `serialize`, `read_*`, `finish` |
| Fixed-point numbers | `fixed.rs` | none | conversions from and to integers and floats |
| Shared memory | `shared_memory.rs` | one file descriptor | `open`, `set_length`, `map_*`, `close`, `Drop`, `unlink` |
| Protocol bindings | `protocol/*.rs` (generated) | an object id and a weak connection per proxy | one request method per request, one event decoder per interface |
| Generator | `wlproto/src/*.rs` | none | XML to model (`process_*`), model to Rust (`tokenize_*`) |
| Example program | `examples/activate-linux/src/main.rs` | `DISPLAY_STATE` behind a mutex | the event handlers, `run` |
| Text rendering | `examples/activate-linux/src/draw_text.rs` | none | `draw_text` |
| Errors, re-exports | `error.rs`, `lib.rs`, `protocol/mod.rs` | none | none |

Interaction: a proxy method builds a packet (codec), upgrades its weak
connection and calls `send_packet`. A user's loop calls `recv_packet` and hands
the packet to `dispatch`, which runs the registered handler; the generated
handler reads the arguments (codec) and calls the user's method, which may
register handlers, allocate ids and send requests again. The parts share the
connection's locks, its id counter and its socket.

### What is hard about them, and what makes them correct

- **Registry.** Two locks, taken one after the other by `update_...` and one of
  them kept by `dispatch` while the handler runs. Handlers call back. Correct:
  lookups are never stale, a running handler is never replaced or freed, one
  dispatching task can never hang, and all of it looks like one atomic table.
- **Allocator and send path.** An id is taken in one step and introduced in
  another, packets go out in pieces between awaits, futures are dropped.
  Correct: ids are unique, packets are whole, descriptors go out once, ids are
  introduced in order when one task makes the objects.
- **Receive path.** Header and payload come in several reads; the kernel hands
  out descriptors by flush and not by packet; the stream may end anywhere.
  Correct: packets whole and in order, descriptors not late and not lost, calls
  return.
- **Codec and bindings.** Four places know each message, and a compositor may
  send what no proxy can (a NULL string). Correct: they agree, what is damaged
  on the way is refused, NULL is never taken for something else.
- **Fixed-point numbers.** Shifts wrap, floats round, casts saturate. Correct:
  what a `Fixed` can hold it holds exactly, the rest is refused, conversions to
  and fro do not drift.
- **Shared memory.** The kernel reuses descriptor numbers, `close` may fail, a
  packet holds a bare number, ranges are computed on `i64`. Correct: each
  descriptor is closed once, by its owner; a packet sends the file that was
  meant; a mapping is of its range, and stays backed.
- **activate-linux.** Globals, scales and configure events in any order against
  a compositor that ends the connection at the first mistake. Correct: no
  mistake, no panic, a picture of the right scale, in the end.

PROJECT.json lists the hazards one by one, at their lines.

## The modules

| module | models | how |
|---|---|---|
| `TokioLock` | `tokio::sync::RwLock`, `Mutex` (external) | a lock as a record: writer, readers, fair queue of requests; operators `Request`, `Grant`, `Release`, `Withdraw` |
| `HandlerTable` | what the registry promises | one table, changed atomically; a dispatch runs what was registered at some instant of its call |
| `Dispatch` | the registry | one action per stretch between two awaits of `register_handler`, `drop_handler`, `dispatch`; `handlers` and `operations` are the two maps, `pc` the await points; handlers make calls of their own; calls and handlers can be cancelled, that is, their futures dropped |
| `ObjectIds` | the allocator | `Ask` is the call, `FetchAdd` one turn of its loop; `Modulus` stands for 2^32 |
| `WireFormat`, `UnixSocket` | header words; segments with descriptors (the kernel as `socket_fd_ext.rs` uses it) | operators on words |
| `PacketSender`, `PacketReceiver` | what `send_packet` and `recv_packet` promise | a stream of whole packets, to which a call appends one or none, or from which it takes the first or none, until a call gives up halfway |
| `SendPath` | proxies, `send_packet`, `Connection`/`WeakConnection` | extends `ObjectIds`; `Allocate`, `CallProxy`, `Lock`, `Write`, `WriteFails`, `Cancel`; one `Write` is one `sendmsg`; `starts` is a history of where in the stream each packet begins |
| `RecvPath` | `recv_packet` | `ReadHeader` and `ReadPayload` are one `recvmsg` each; `EndOf...` a reset or the end of the stream; the compositor writes, flushes and hangs up; `expected` is a history of the packets that `recv_packet` should return for what was written |
| `PacketCodec` | `push_*`, `read_*`, `finish` | operators on payloads of bytes |
| `ProtocolTables`, `WaylandProtocol`, `ExtDataControl`, `WlrLayerShell` | the generated bindings | for every message the opcode and the calls of `push_`/`read_` methods of proxy, handler arm and argument struct, as data |
| `Wlproto` | the generator, from the model of a protocol to the tables of its bindings (`tokenize_...` of `output.rs`) | one operator per part of its output; `InterfaceOf` reads a protocol back from tables |
| `Bindings` | a message from the proxy to the handler | pushes (also of a NULL string, by a compositor), damage on the way, reads, `finish` |
| `WaylandServer` | the compositor (external) | checks each request against the error codes of the bindings (`Faults`); may let the missing size of an empty surface pass (`PassedOver`); announces, configures, prefers scales |
| `ActivateLinux` | the example program | extends `WaylandServer`; one action per event handled: the program has one task, and what it puts into a channel is seen in the same order whether it is put there at once or piece by piece |
| `FixedNumbers` | the conversions of `fixed.rs` | a `Fixed` is made from a number of any type or a word of a packet, turned into another type, taken back, and so on; widths are parameters |
| `SharedMemory` | `shared_memory.rs` | the descriptor table, files and names (external: the kernel), objects that own a descriptor, their mappings, a packet that holds a number, another part of the process; one action per method, `CloseFails` for the error path of `close` |
| `TokioLockProofs`, `DispatchProofs`, `SendPathProofs` (and of `ObjectIds`), `RecvPathProofs`, `BindingsProofs`, `ActivateLinuxProofs`, `SharedMemoryProofs`, `FixedNumbersProofs` | theorems | see below |
| `MC...` | instances for TLC | |

`SendPath` composes the lock, the allocator, the wire format and the client's
handles on the connection; `RecvPath` the lock, the wire format and the socket;
`Dispatch` two locks. `Bindings` composes the codec with the tables and with the generator that they
are compared with. The
modules meet at packets: what `RecvPath` can do to one, `Bindings` does to
every message of the three protocols, and a payload is whole words
(`Bindings!TypeOK`), which is why the two paths count in words. `ActivateLinux`
uses the registry as `HandlerTable` promises it, which for one task is a
function. Three abstract specifications are implemented by detailed ones:
`HandlerTable` by `Dispatch`, `PacketSender` by `SendPath` and `PacketReceiver`
by `RecvPath` (TLC and TLAPS); a fourth, `ObjectIds`, by `SendPath` (TLAPS: its
ids are taken as that module says).

## The runs

Every run finishes within a few minutes on a small machine.

| run | question | answer |
|---|---|---|
| `dispatch_safety` | Are lookups fresh, running handlers pinned, and is the registry an atomic table, with cancellations? | yes |
| `dispatch_concurrent` | Can calls hang? | not while one dispatch is in progress; otherwise only in a circular wait through a handler that calls the registry (which is reachable) |
| `recv` | Do packets come whole and in order, where do the descriptors go, and do calls return? | yes, as from a queue of packets (`PacketReceiver`); descriptors never late, leaked only by calls that fail or are dropped; a call returns once its payload is there, and after a hang-up, unless the stream ended inside a payload: that loop spins with the lock held |
| `recv_opcode`, `recv_complete`, `recv_fds` | see Findings | violated |
| `send` | Are the stream and the ids right, also across a wrap, errors and dropped futures, and do requests end? | yes, up to the first call that gives up inside a packet (`PacketSender`); ids are introduced in order while one task makes objects; every request ends |
| `bindings` | Do all places that know a message agree, and is damage refused? | yes; a descriptor of another packet in the place of its own cannot be told; an event with a NULL string is lost |
| `activate_linux` | Does the client ever offend the compositor or lack a handler, take more ids than three per configure event, and does it show its picture? | if no global is announced twice: its first commit may offend, nothing else does; no handler is missing, no id too many; yes, if that commit is let pass |
| `fixed` | Does a `Fixed` hold what it can hold, and do conversions drift? | exactly; floats too, but for the one just above the greatest; no |
| `fixed_shift` | see Findings | violated |
| `shared_memory` | Is each descriptor closed once, is the file sent that was meant, the range mapped, the mapping backed? | yes while no `close` fails; each failed one leads at most one owner astray at a time, and no descriptor leaks |

### Bounds

- `dispatch_*`: three tasks, of which two dispatch: one to be served, one to
  update, one to register, the smallest number at which every pair of calls
  overlaps with a third; two objects, as the queue is applied entry by entry;
  one object where only the locks matter.
- `send`: two tasks, since all that a third adds is a longer queue; both make
  objects, one may be cancelled, three calls; packets of two to four words
  against a buffer of two, so that every packet but the shortest is written in
  pieces; a limit of 12 bytes that one packet exceeds; a counter of 4 ids that
  wraps.
- `recv`: two tasks, which may be cancelled; two events out of: only a header,
  one payload word with a descriptor, two payload words, a size below 8, the
  NULL object; in all splits by the compositor's flushes and by the reads.
- `bindings`: all messages of the three protocols with two sets of arguments:
  empty strings and arrays and least numbers, and strings and arrays of
  lengths around a multiple of four with greatest numbers; bytes of four values
  (a word is then 0 .. 255), of which one is not UTF-8; payloads cut to 0-3 words.
- `activate_linux`: three globals, `wl_compositor` perhaps twice; one change of
  the scale to 2, with a text size that is not a multiple of it; two configure
  events; one event that is only logged, of any object at any time.
- `fixed*`: a `Fixed` of 4.2 bits; integer types of 2, 3, 6 and 12 bits for 8,
  16, 32 and 64, so that the narrow ones always fit and the wide ones may not;
  an f32 of 4 significant bits, fewer than a `Fixed` has, as in the code, and an
  f64 of 9, more; all integers of these types and all words; floats to twice the
  range, so that rounding at the limits happens.
- `shared_memory`: two objects, one name and another part of the process at
  three descriptors; three files; one failing `close`; an `i64` of 4 bits and
  pages of 2 bytes; eleven ranges, among them ones that overflow, are negative,
  empty or start inside a page. The objects are symmetric. One of them is mapped
  at a time: mappings are only read by their own object, which is what the
  constraint relies on.

### Fairness

Tokio polls a task whose lock has been granted or whose socket is ready: weak
fairness of each task's own steps (`Progress`, `Recv`, `Send`). A handler's
return is strongly fair in `dispatch_concurrent`: user code that is not stuck
in a call of the registry returns in the end, also if it makes calls in
between. The compositor owes the receive path nothing; for `RequestsEnd` it
reads what it is sent (or hangs up, which ends requests as well), and for
`Shows` it serves requests and configures a layer surface after its first
commit, as the layer-shell protocol has it. Whether it takes that commit for an
error is its choice, commit by commit and without fairness: both outcomes are
followed.

## What is proved

By TLAPS, for every value of the constants (any tasks, objects, handlers, any
width of the counter), from the assumptions on constants named in the modules:

- `DispatchProofs!TypeCorrect`, `GuardsCorrect`: `GuardsMatch` says which guard
  is out at which await point; with the types it is inductive, and everything
  else about the registry rests on it. The lemmas on lock records it needs
  (`TokioLockProofs`) say what `Request`, `Grant`, `Release` and `Withdraw` do
  to readers, writer and queue.
- `HandlerIsPinned`: a step that changes the map has the write guard; a running
  handler has the read guard; `GuardsMatch` excludes both at once.
- `CycleNeedsAHandler`: the queue's lock is taken before the map's, so without
  a handler in a call there is a task with a guard that waits for nothing.
- `NoCycleWithOneDispatch`: with one dispatch at most, the only task that can be
  waited for is one that has both or waits for none.
- `LookupFresh`: `GuardsMatch` does not say enough. `FreshInv` adds that what
  is registered now, counting the queue (`Effective`), is among what the call
  has seen, and that after its own update the map's entry is, too; it is
  inductive with types and guards.
- `RegistryImplementsTable`: each step of `Dispatch` is a step of
  `HandlerTable` or a stutter, under the mapping `table <- Effective`; uses
  `FreshInv` and `GuardsMatch` in the unprimed state.
- `SendPathProofs!IdsTypeCorrect`, `IdsUniqueInLap`: the inductive invariant
  adds that all ids of the current lap are below the counter (`BehindCounter`).

- `SendTypeCorrect`, of the same module, `RecvPathProofs!RecvTypeCorrect`: types,
  with who has the lock. Each needs `QueueOK`: the requests in the lock's queue
  are for writing, of tasks that await it, each once; the lemmas of
  `TokioLockProofs` apply as they are.
- `SendTakesIds`: every step of `SendPath` is one of `ObjectIds` or leaves its
  variables alone. `SendUniqueInLap` is then `IdsUniqueInLap`, cited.
- `SendAccountsForIds`: an id taken is introduced to the compositor, pending in
  its call, or lost with a call that was dropped or failed, and counted once.
  The invariant says that the three sets together are the ids issued
  (`Complete`) and do not overlap (`Apart`); that a new id is in none of them is
  `BehindCounter`, as long as there was no wrap.
- `StreamIsPacketsCorrect`, of `SendPathProofs`: `WireInv` says that the packets
  begun lie one after another in the stream, each from where `starts` has it to
  where the next one starts, that only the last may lack a rest, and that the
  rest is what the task with the lock has still to write. A claim about the
  whole stream that would otherwise need a parser is so one about positions.
- `SendPathImplementsSender`: each step is one of `PacketSender` or a stutter.
  The stream of the abstract module is what a reader finds in that of the
  socket, packet by packet (`ReaderInv`: the packets that have ended), so that
  the last `Write` of a packet is the step at which it appears, and the ones
  before it are stutters.
- `IntroducedInOrderCorrect`: while one task makes all objects, the id in its
  call is the one after the last one introduced, or nothing is pending and the
  counter is (`OrderInv`), also across the wrap, where 0 is skipped: nothing but
  that task moves the counter.
- `SendNeverStuck`, `RecvNeverStuck`: nobody waits for a `send_lock` or
  `recv_lock` that nobody has and nobody will take. `QueueOK` has who is in the
  queue; what it lacks is `Queued`, that a task that waits is in it, which a
  dropped future or a guard that outlives its call would break.
- `RequestAdvancesCorrect`, `CallAdvancesCorrect`: the variants of the loops of
  `send_packet` and `recv_packet`, as action properties. For requests it is a
  number (`Left`), which no step of others raises; that no read comes back
  empty-handed needs an invariant on the socket (`Full`: a segment has a word),
  and that something is missing while the payload loop runs, the types. A number
  that falls and a queue that moves are what `RequestsEnd` and `CallsEndOrSpin`
  have besides fairness. `NeverStuck` and the
  variants, like `GuardsMatch`, are in no cfg: TLC found nothing against them on
  the instances of the runs, and the theorems say more.
- `RecvPathProofs!InOrderCorrect`, `ReturnedInOrder`, `FdsNotLateCorrect`,
  `FdsConservedCorrect`: one invariant (`StreamInv`) accounts for every word and
  every descriptor: there is one line of words, and one of descriptors, that the
  compositor has written event by event, of which what was returned, what the
  call has, the segments of the socket and the buffer of the compositor are
  consecutive pieces. `ReturnedInOrder` is for all opcodes, modulo 256; the
  property the run checks is for those below 256 (the finding `recv_opcode` is
  about the others).
- `RecvPathImplementsReceiver`: each step is one of `PacketReceiver` or a
  stutter; a packet enters the queue when the compositor writes it (`expected`)
  and leaves it when `recv_packet` returns it. For opcodes below 256 as well.
- `BindingsProofs!PushedIsRead`: what a `push_` method wrote is what the
  `read_` method reads there, for every kind of argument, value, length and
  number of values of a byte; from `NumberOfDigits` (four bytes put together
  again are the word) and what padding does to lengths. A parameter of kind
  "string" is one without NUL that is UTF-8 and whose length fits a word.
- `BindingsTypeCorrect`: payloads are whole words and no read leaves them,
  whatever is in them (`ReadStays`).
- `BindingsIntactArrives`: for tables in which the places that know a message
  agree (`TablesAgree`, which TLC evaluates for the three protocols), what
  arrives as it was sent is delivered with its arguments. The invariant has the
  places of the reader before and after each argument (`Chain`) and says that
  the reader is at the one that belongs to the number of arguments read.
- `BindingsNullRefused`, `BindingsDeliveredWhole`: for the same tables, and
  packets cut or with other descriptors. `WholeInv` has, for every argument,
  where it would be if all had arrived (the layout), whether or not the packet
  gets that far; a read that succeeds on a packet cut short found everything it
  needs before the cut (`CutRead`), and one that finds NULL says so (`NullRead`).
  `finish` then has to find the end where the layout has it.
- `GeneratedTablesAgree`, `GeneratedBindingsWork`: `TablesAgree` holds of
  whatever wlproto generates, for every protocol, and with it the three theorems
  above. Opcodes differ since `enumerate` counts and names do not repeat (in
  Rust, that would be two functions of one name: `IsProcedures`); the methods
  that write and read an argument go by the same type (`KindsOfProcedure`).
- `TablesGeneratedCorrect`: the run compares the checked-in tables with what
  wlproto makes of the protocol read back from them (the XML files are not in the
  repository). This is a test that every output of wlproto passes: reading back
  finds the procedures in their order, as there are as many names as procedures
  (`AsManyNames`) and no two have one opcode, and gives arguments that the
  methods do not tell from the original ones (`GeneratedAgain`).
- `ActivateLinuxProofs!ClientTypeCorrect`, `ClientNeverPanics`: every event
  finds its handler, what `handle_configure` unwraps is there (`Armed`: whoever
  registers a layer surface's handler has filled `DISPLAY_STATE`, and nothing
  empties it), and no `expect` fails unless the compositor has closed the
  connection. The invariant (`ClientInv`) says of each request and event under
  way which ids and handlers it relies on (`ChannelsOK`), of the compositor's
  objects that those which can send events have a handler (`ObjectsOK`), and
  what `DISPLAY_STATE` has (`DisplayOK`); it assumes nothing of the order of
  announcements, scales and configure events. `RoundedUpFits`: the size of the
  picture, that of the text rounded up to a multiple of the scale, holds it.
- `NoFaultCorrect`, `PictureFollowsConfigureCorrect`: what a request finds at the
  compositor depends on every request before it that has not been served, and
  what an event says on every event sent before it. `AgreementInv` therefore
  says that there is a sequence of states of the compositor's objects, one for
  each request under way, from what they are now to what they will be, in which
  every request is sound and of which the last is what `DISPLAY_STATE` takes the
  objects for; the one request that is sound and may yet be refused is a commit
  before all configure events, as nothing but that first commit makes a layer
  surface be configured (`FineFirst`, `Faultless`); and that the serials and
  scales the events under way tell lead from what the program has answered to
  what the compositor has said. It holds
  while no global has been announced twice; where one is, the code does make
  mistakes. `Wanted` is assumed to be among the globals that can be announced.
- `GrowthCorrect`: nothing is ever destroyed, so what the program holds is what
  it has taken. Of the configure events sent so many have been read (`Unread`
  counts along the channel, event by event), and the next id is what the globals
  bound and the surfaces account for plus three for each of those (`Taking`);
  that a global is bound once only comes from `AgreementInv`.
- `SharedMemoryProofs!OwnershipCorrect`: a `close` that fails adds at most one
  owner to those astray, and every other step none; one that lost its
  descriptor and gets its number's new file closed takes the new owner's place,
  which keeps the count. `NoLeak` and `OwnersHaveTheirs` are inductive with it.
- `SentCorrect`: a number in a packet whose object is kept, is of that object
  (`PacketIsOfObject`), which has not been closed under it.
- `MapsCorrect`: for every range of `i64`, whatever its bounds, what `mmap`
  accepts is exactly the range: sums that leave the 64 bits are off by 2^64
  (`Wrapping`), a start that wraps is negative, an end that wraps lies before
  the start or too far behind it. `Half` stands for 2^63.
- `BackedCorrect`: an anonymous file is behind one number only and has no name
  (`AnonymousInv`); the one that has the number lends it to the mapping, so
  nobody can set its length.

- `FixedNumbersProofs!RepresentableCorrect`, `FloatsCorrect`, `NoDriftCorrect`:
  for types of any widths, floats of any precision and any number of bits behind
  the point. Rounding gives the nearest multiple of the last bit (`RoundIs`),
  which is one of the floats (`RoundFloat`), and floats are left as they are
  (`FloatRounds`), so that rounding twice is rounding once; the range is left by
  one at most (`RoundInRange`), and the limits are rounded outward
  (`LimitsRound`, `GreatestRounds`), so that what was rounded up beyond the range
  is taken back. `DriftInv` then says that there always is a Fixed, the one made
  or that one rounded once, and that what it was turned into can be taken back.
  That one type of float at most is shorter than a Fixed is assumed: with two
  of them roundings could add up.

That the powers of two exist, and add up as they should, is by induction
(`SetInduction`), from the well-foundedness of `<` in the library: `Power` is a
recursive function, and a set, unlike a formula with a parameter, can be put
into a lemma.

Sequences are where more induction over data would come in: what a stream of
words holds is said by parsing it. The proofs above avoid it with history variables
(`starts`, `expected`), which record what a step adds at the moment at which it
adds it; the definitions that parse are left to runs.

Only model-checked: that the checked-in tables are such outputs (a fact about
them and no others: `ProtocolsAgree`, and `TablesGenerated` where nothing is
assumed of `Interfaces`), and all liveness (`CallsReturn` and the like), which
with ENABLED is out of the prover's reach; of `RequestsEnd` and `CallsEndOrSpin`
the safety halves are proved. Where the payload loop spins at the end of the
stream there is no step of the model, and nothing of it in `CallAdvances`: that
this is the one place where a call may stay is `CallsEndOrSpin`.

## Findings

- `recv_opcode` - `recv_packet` keeps 8 bits of the opcode (`connection.rs:104`),
  which is declared and sent with 16 (`packet.rs:13`, 124-126). No message of the
  three protocols has one above 255.
- `recv_complete` - a packet of 8 bytes, "the minimum", is complete with its
  header, yet the call waits for a read into the empty payload
  (`connection.rs:117`): the event is delivered when the next one comes.
- `recv_fds` - a packet keeps the descriptors of all events flushed together
  with it (`connection.rs:84`), and `finish` (`packet.rs:281`) then refuses both
  it and the event that lacks them.
- `fixed_shift` - an integer that needs more than the 24 bits a `Fixed` has
  (`// 24.8`, `fixed.rs:3`) is to be refused (`.ok_or(())`, `fixed.rs:37`), but
  `checked_shl` (`fixed.rs:36`) fails only for shifts as wide as the type: bits
  shifted out are lost, and 2^24 becomes 0.

Noted and not counted as findings, since the repository promises nothing about
them: a wait cycle of two dispatching tasks, the endless loop when the stream
ends inside a payload, half a packet left on the wire by a dropped future, the
wrap of the id counter, the second announcement of a global in activate-linux,
an event lost (or a panic) because a string of it is NULL (`packet.rs:208`), the
second close of a descriptor whose first one failed (`shared_memory.rs:131`).

The first commit of activate-linux belongs here too. It commits its surface
"once while it's empty" (`main.rs:145`), with no size and no anchor yet, and the
layer surface has an error for a size of 0 without anchors to both opposite
edges (`INVALID_SIZE`, `wlr_layer_shell_unstable_v1.rs:1015-1016`). `set_size`
and `set_anchor` (`main.rs:352`, 359) are only sent in answer to a configure
event, which is to follow that commit. A compositor that checks the size there
closes the connection and nothing is ever shown; the program depends on one that
lets it pass. The model has both compositors: `NoFault` says that this is the
one error and that it comes before anything was configured or shown, `Shows`
that without it a picture is shown.

What the properties excuse, since the code does go wrong there: what is read
after a `recv_packet` that gave up inside a packet (`derailed`), what is written
after a `send_packet` that did (`torn`); ids after a whole lap of the counter; the requests that follow a
second announcement of a global (`AnnouncedOnce`); a packet whose object was
dropped before it was sent (`kept`). The runs include these situations (but for
dropped objects, which leave the packet out of account), so that what is claimed
before or besides them is claimed in their presence; the hazards they belong to
are listed in PROJECT.json without a property, each with its reason.

## Not modelled

- The search for the socket in the environment (`new_from_env`): it reads two
  variables and keeps no state; a fresh connection is the `Init` of the models.
- Reading XML in wlproto (`main.rs`) and the wording of its Rust: a conversion
  of text to text. What it decides, the methods for each type, the numbering of
  opcodes and the parts of its output, is `Wlproto`, and the checked-in output
  is compared with it interface by interface.
- Text rendering (`draw_text.rs`): floating-point coverage of glyphs from an
  external library; the client takes the size of its result as a constant.
- Owner and mode of shared memory files; what the compositor does with a
  descriptor it was sent (it may truncate the file, which is why
  `BackedMapping` speaks of objects that have not been given a name, and of this
  process).
- The layout of control messages in `socket_fd_ext.rs`; that descriptors come
  with the first byte of a segment is modelled.
- `set_margin` of activate-linux: no check of the compositor depends on it. Width
  and height of a picture go together and are one number.
- A preferred scale of 0, by which activate-linux would divide (`main.rs:343`),
  or below 0: the compositor model sends positive ones, as compositors do.
- Enum constants of the protocols, newtypes that nothing branches on.

The memory model of the machine is not an issue: the atomic counter is one
operation, everything else is behind locks.

## Plan

1. `TokioLock`, `HandlerTable`, `Dispatch` with its refinement and proofs: done.
2. `RecvPath` with `WireFormat`, `UnixSocket`: done.
3. `ObjectIds` (with proofs), `SendPath`: done.
4. `PacketCodec`, the protocol tables, `Bindings`, `Wlproto`: done.
5. `WaylandServer`, `ActivateLinux`: done.
6. `PacketSender`, `PacketReceiver` and their refinements: done.
7. `FixedNumbers`, `SharedMemory`: done.
8. Proofs of the types, the safety properties and the refinements: done for
   all components, with the exceptions named above.
