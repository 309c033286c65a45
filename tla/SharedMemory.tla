---------------------------- MODULE SharedMemory ----------------------------
(***************************************************************************)
(* shared_memory.rs: objects of shared memory, the descriptors they own,   *)
(* and their mappings, in a process that has other descriptors as well.    *)
(* The kernel is external: a table of descriptors of which an open takes   *)
(* the lowest free number, files, and names for some of them.              *)
(*                                                                         *)
(* A mapping borrows its object mutably (SharedMemoryMapping<'s>): while   *)
(* there is one the object can be neither mapped again nor resized, given  *)
(* away, closed or dropped.  A descriptor in a packet is a number and      *)
(* borrows nothing.  Calls that fail change nothing and are left out, but  *)
(* for close.  Owners and modes of files are left out.                     *)
(***************************************************************************)
EXTENDS Integers, Sequences, FiniteSets

CONSTANTS
    Objects,      \* objects of shared memory
    Other,        \* another part of the process, with a file of its own
    Names,        \* names of shared memory
    Options,      \* the OpenOptions used
    Ranges,       \* the ranges mapped
    Lengths,      \* the lengths set
    Half,         \* 2^63: an i64 is in -Half .. Half - 1
    PageSize,
    Descriptors,  \* bound: numbers in the table
    MaxFiles,     \* bound: files made
    MaxFailures,  \* bound: calls of close that fail
    None          \* no object, descriptor, file, mapping, packet

Unbounded == <<"Unbounded">>
Greatest == Half - 1      \* i64::MAX
Sizes == 0 .. Greatest    \* the lengths a file can have, an off_t

(* The bounds a range of i64 can have. *)
Bounds == {Unbounded} \cup ({"Included", "Excluded"} \X (-Half .. Greatest))

ASSUME SharedMemoryAssumption ==
    /\ Other \notin Objects /\ None \notin Objects
    /\ IsFiniteSet(Objects)
    /\ Options \subseteq [write : BOOLEAN, truncate : BOOLEAN,
                          create : BOOLEAN, create_new : BOOLEAN]
    /\ Half \in Nat \ {0} /\ PageSize \in Nat \ {0}
    /\ Ranges \subseteq [start : Bounds, end : Bounds]
    /\ Lengths \subseteq Sizes /\ Descriptors \in Nat
    /\ MaxFiles \in Nat /\ MaxFailures \in Nat

VARIABLES
    table,     \* number |-> the open file behind it
    lengths,   \* the lengths of the files made so far
    names,     \* name |-> file
    owned,     \* owner |-> its file_descriptor, and whether close() is
               \* over with an error, so that only Drop is left to run
    mapping,   \* object |-> its mapping
    packet,    \* a packet that waits to be sent, with the number pushed
    failures   \* history: how often close has failed

vars == <<table, lengths, names, owned, mapping, packet, failures>>

Owners == Objects \cup {Other}
Numbers == 0 .. Descriptors - 1
Files == 1 .. Len(lengths)

(* An open file of the table, what an owner has, a packet. *)
OpenFiles == [owner : Owners, file : Nat, writable : BOOLEAN,
              via : {"anonymous", "open", "other"}]
Ownerships == [file_descriptor : Numbers, ended : BOOLEAN]
Packets == [of : Objects, number : Numbers, meant : Nat, kept : BOOLEAN]

ASSUME NoneAssumption == None \notin OpenFiles \cup Ownerships \cup Nat

-----------------------------------------------------------------------------
(* The kernel. *)
Opened(w, file, via, writable) ==
    [owner |-> w, file |-> file, via |-> via, writable |-> writable]

(* w opens a file and gets the lowest free number for it. *)
OpenFile(w, file, via, writable) ==
    \E n \in Numbers :
       /\ table[n] = None /\ \A k \in 0 .. n - 1 : table[k] # None
       /\ table' = [table EXCEPT ![n] = Opened(w, file, via, writable)]
       /\ owned' = [owned EXCEPT ![w] = [file_descriptor |-> n,
                                         ended |-> FALSE]]

MakeFile ==
    /\ Len(lengths) < MaxFiles
    /\ lengths' = Append(lengths, 0)

NewFile == Len(lengths) + 1
OthersFile == 1

ShmOpen(w, name, flags, via) ==
    LET file == names[name]
        writable == "O_RDWR" \in flags
    IN  \/ /\ file # None /\ "O_EXCL" \notin flags
           /\ OpenFile(w, file, via, writable)
           /\ lengths' = IF "O_TRUNC" \in flags
                         THEN [lengths EXCEPT ![file] = 0] ELSE lengths
           /\ UNCHANGED names
        \/ /\ file = None /\ "O_CREAT" \in flags
           /\ MakeFile
           /\ OpenFile(w, NewFile, via, writable)
           /\ names' = [names EXCEPT ![name] = NewFile]

(* close takes the number out of the table, also where it returns an error *)
(* (EIO, EINTR); only EBADF leaves the table as it is.                     *)
Released(n) == [table EXCEPT ![n] = None]

CanMmap(n, offset, length, writes) ==
    /\ table[n] # None
    /\ length > 0
    /\ offset >= 0 /\ offset % PageSize = 0
    /\ offset + length <= Greatest
    /\ writes => table[n].writable

-----------------------------------------------------------------------------
Alive(w) == owned[w] # None /\ ~owned[w].ended

(* An object that nothing borrows. *)
Free(w) == Alive(w) /\ (w \in Objects => mapping[w] = None)

Init ==
    /\ table = [n \in Numbers |-> None]
    /\ lengths = <<0>>
    /\ names = [name \in Names |-> None]
    /\ owned = [w \in Owners |-> None]
    /\ mapping = [o \in Objects |-> None]
    /\ packet = None
    /\ failures = 0

NewAnonymous(o) ==
    /\ owned[o] = None
    /\ MakeFile
    /\ OpenFile(o, NewFile, "anonymous", TRUE)
    /\ UNCHANGED <<names, mapping, packet, failures>>

Flags(options) ==
    {IF options.write THEN "O_RDWR" ELSE "O_RDONLY"}
    \cup (IF options.create_new THEN {"O_CREAT", "O_EXCL"}
          ELSE (IF options.create THEN {"O_CREAT"} ELSE {})
               \cup (IF options.truncate THEN {"O_TRUNC"} ELSE {}))

Open(o, name, options) ==
    /\ owned[o] = None
    /\ ShmOpen(o, name, Flags(options), "open")
    /\ UNCHANGED <<mapping, packet, failures>>

Unlink(name) ==
    /\ names[name] # None
    /\ names' = [names EXCEPT ![name] = None]
    /\ UNCHANGED <<table, lengths, owned, mapping, packet, failures>>

(* A mutant: set_length takes &self, like set_mode does. *)
SetLength_Borrowed(o, new_length) ==
    /\ Alive(o)
    /\ LET opened == table[owned[o].file_descriptor]
       IN  /\ opened # None /\ opened.writable
           /\ lengths' = [lengths EXCEPT ![opened.file] = new_length]
    /\ UNCHANGED <<table, names, owned, mapping, packet, failures>>

SetLength(o, new_length) ==
    /\ Free(o)
    /\ LET opened == table[owned[o].file_descriptor]
       IN  /\ opened # None /\ opened.writable
           /\ lengths' = [lengths EXCEPT ![opened.file] = new_length]
    /\ UNCHANGED <<table, names, owned, mapping, packet, failures>>

-----------------------------------------------------------------------------
(* Mapping.  The sums wrap around, as a release build's do (a debug build  *)
(* panics, and maps nothing).                                              *)
Wrap(n) == ((n + Half) % (2 * Half)) - Half

(* A mutant: the end of `a ..= b` is taken to be outside. *)
OffsetAndLength_Short(range, length) ==
    LET offset == CASE range.start[1] = "Included" -> range.start[2]
                    [] range.start[1] = "Excluded" -> Wrap(range.start[2] + 1)
                    [] range.start = Unbounded -> 0
        end == IF range.end = Unbounded THEN length ELSE range.end[2]
    IN  <<offset, Wrap(end - offset)>>

OffsetAndLength(range, length) ==
    LET offset == CASE range.start[1] = "Included" -> range.start[2]
                    [] range.start[1] = "Excluded" -> Wrap(range.start[2] + 1)
                    [] range.start = Unbounded -> 0
        end == CASE range.end[1] = "Included" -> Wrap(range.end[2] + 1)
                 [] range.end[1] = "Excluded" -> range.end[2]
                 [] range.end = Unbounded -> length
    IN  <<offset, Wrap(end - offset)>>

(* map_read_only and map_read_write.  A negative length is FileTooLarge,   *)
(* the other errors are the kernel's.  That the length is read before the  *)
(* file is mapped makes no step of its own: who can make the file shorter  *)
(* in between can do so afterwards.                                        *)
Map(o, range, writes) ==
    /\ Free(o)
    /\ LET n == owned[o].file_descriptor
           file == table[n].file
           mapped == OffsetAndLength(range, lengths[file])
       IN  /\ table[n] # None
           /\ mapped[2] >= 0
           /\ CanMmap(n, mapped[1], mapped[2], writes)
           /\ mapping' = [mapping EXCEPT ![o] =
                             [file |-> file, offset |-> mapped[1],
                              length |-> mapped[2], range |-> range,
                              seen |-> IF range.end = Unbounded
                                       THEN lengths[file] ELSE Greatest]]
    /\ UNCHANGED <<table, lengths, names, owned, packet, failures>>

Unmap(o) ==
    /\ mapping[o] # None
    /\ mapping' = [mapping EXCEPT ![o] = None]
    /\ UNCHANGED <<table, lengths, names, owned, packet, failures>>

-----------------------------------------------------------------------------
(* A packet that holds w's number no longer holds a number w answers for.  *)
GivenUp(w) ==
    IF packet # None /\ packet.of = w THEN [packet EXCEPT !.kept = FALSE]
                                      ELSE packet

(* A mutant: the number stays in the object, and Drop closes it again. *)
Close_KeepsNumber(w) ==
    /\ Free(w)
    /\ table[owned[w].file_descriptor] # None
    /\ table' = Released(owned[w].file_descriptor)
    /\ owned' = [owned EXCEPT ![w].ended = TRUE]
    /\ packet' = GivenUp(w)
    /\ UNCHANGED <<lengths, names, mapping, failures>>

(* close(): the number is forgotten, and Drop does nothing. *)
Close(w) ==
    /\ Free(w)
    /\ table[owned[w].file_descriptor] # None
    /\ table' = Released(owned[w].file_descriptor)
    /\ owned' = [owned EXCEPT ![w] = None]
    /\ packet' = GivenUp(w)
    /\ UNCHANGED <<lengths, names, mapping, failures>>

(* close(): the error leaves the number to Drop, which runs when close()   *)
(* returns; other threads may have used the number by then.                *)
CloseFails(o) ==
    /\ Free(o)
    /\ \/ /\ table[owned[o].file_descriptor] = None
          /\ UNCHANGED <<table, failures>>
       \/ /\ table[owned[o].file_descriptor] # None
          /\ failures < MaxFailures
          /\ table' = Released(owned[o].file_descriptor)
          /\ failures' = failures + 1
    /\ owned' = [owned EXCEPT ![o].ended = TRUE]
    /\ packet' = GivenUp(o)
    /\ UNCHANGED <<lengths, names, mapping>>

(* A mutant: a mapping does not borrow its object. *)
Drop_Mapped(o) ==
    /\ owned[o] # None
    /\ table' = Released(owned[o].file_descriptor)
    /\ owned' = [owned EXCEPT ![o] = None]
    /\ packet' = GivenUp(o)
    /\ UNCHANGED <<lengths, names, mapping, failures>>

Drop(o) ==
    /\ owned[o] # None /\ mapping[o] = None
    /\ table' = Released(owned[o].file_descriptor)
    /\ owned' = [owned EXCEPT ![o] = None]
    /\ packet' = GivenUp(o)
    /\ UNCHANGED <<lengths, names, mapping, failures>>

(* as_raw_fd and push_fd: the number goes into a packet. *)
Push(o) ==
    /\ Free(o) /\ packet = None
    /\ LET n == owned[o].file_descriptor
       IN  /\ table[n] # None
           /\ packet' = [of |-> o, number |-> n, meant |-> table[n].file,
                         kept |-> TRUE]
    /\ UNCHANGED <<table, lengths, names, owned, mapping, failures>>

(* sendmsg passes what is behind the number now; nothing is an error. *)
Send ==
    /\ packet # None
    /\ packet' = None
    /\ UNCHANGED <<table, lengths, names, owned, mapping, failures>>

(* Another part of the process opens a file, and closes it. *)
OtherOpens ==
    /\ owned[Other] = None
    /\ OpenFile(Other, OthersFile, "other", TRUE)
    /\ UNCHANGED <<lengths, names, mapping, packet, failures>>

OtherCloses ==
    /\ owned[Other] # None
    /\ table' = Released(owned[Other].file_descriptor)
    /\ owned' = [owned EXCEPT ![Other] = None]
    /\ UNCHANGED <<lengths, names, mapping, packet, failures>>

Next ==
    \/ \E o \in Objects :
          \/ NewAnonymous(o)
          \/ \E name \in Names, options \in Options : Open(o, name, options)
          \/ \E new_length \in Lengths : SetLength(o, new_length)
          \/ \E range \in Ranges, writes \in BOOLEAN : Map(o, range, writes)
          \/ Unmap(o) \/ Close(o) \/ CloseFails(o) \/ Drop(o) \/ Push(o)
    \/ \E name \in Names : Unlink(name)
    \/ Send
    \/ OtherOpens
    \/ OtherCloses

Spec == Init /\ [][Next]_vars

-----------------------------------------------------------------------------
(* Types: numbers in the table, files that have been made, mappings of      *)
(* objects that are there.                                                 *)
TypeOK ==
    /\ table \in [Numbers -> OpenFiles \cup {None}]
    /\ lengths \in Seq(Sizes) /\ OthersFile \in Files
    /\ names \in [Names -> Files \cup {None}]
    /\ owned \in [Owners -> Ownerships \cup {None}]
    /\ packet \in Packets \cup {None} /\ failures \in Nat
    /\ DOMAIN mapping = Objects
    /\ \A n \in Numbers : table[n] # None => table[n].file \in Files
    /\ \A o \in Objects : mapping[o] # None => Alive(o)

(* The owners whose number is not the one they were given, but closed, or  *)
(* someone else's by now.                                                  *)
Astray ==
    {w \in Owners : /\ owned[w] # None
                    /\ LET opened == table[owned[w].file_descriptor]
                       IN  opened = None \/ opened.owner # w}

(* Whatever has gone wrong, who opened a descriptor still has its number,  *)
(* and is going to close it.                                               *)
NoLeak ==
    \A n \in Numbers : table[n] # None =>
       LET w == table[n].owner
       IN  owned[w] # None /\ owned[w].file_descriptor = n

(* Descriptors are closed once, by who opened them: as long as close does  *)
(* not fail every owner has its own, and every open one its owner.         *)
(* A close that fails leads at most one owner astray at a time; who lost   *)
(* its descriptor that way may take the next one's, but never two.         *)
DescriptorsOwned == Cardinality(Astray) <= failures /\ NoLeak

(* A number that waits in a packet still stands for the file it stood for  *)
(* when it was pushed, as long as its object is kept, and no close failed: *)
(* that file is sent.                                                      *)
SentIsMeant ==
    packet # None /\ packet.kept /\ failures = 0 =>
       LET opened == table[packet.number]
       IN  opened # None /\ opened.file = packet.meant

Contains(range, k) ==
    /\ CASE range.start[1] = "Included" -> range.start[2] <= k
         [] range.start[1] = "Excluded" -> range.start[2] < k
         [] range.start = Unbounded -> k >= 0
    /\ CASE range.end[1] = "Included" -> k <= range.end[2]
         [] range.end[1] = "Excluded" -> k < range.end[2]
         [] range.end = Unbounded -> TRUE

(* What is mapped is the range: its bytes, all of them and in their places *)
(* (up to the end of the file, where the range has none), also where the   *)
(* sums overflow.                                                          *)
MapsTheRange ==
    \A o \in Objects : mapping[o] # None =>
       \A k \in -Half .. Greatest :
          k \in mapping[o].offset .. mapping[o].offset + mapping[o].length - 1
          <=> Contains(mapping[o].range, k) /\ k < mapping[o].seen

(* Memory of an anonymous object mapped to the end of the file stays there *)
(* for as long as it is mapped: no access to it fails (SIGBUS).  Files     *)
(* with a name can be made shorter by others.                              *)
BackedMapping ==
    \A o \in Objects :
       /\ mapping[o] # None /\ failures = 0
       /\ table[owned[o].file_descriptor].via = "anonymous"
       /\ mapping[o].range.end = Unbounded
       => mapping[o].offset + mapping[o].length <= lengths[mapping[o].file]

=============================================================================
