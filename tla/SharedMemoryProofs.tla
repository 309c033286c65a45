------------------------- MODULE SharedMemoryProofs -------------------------
(***************************************************************************)
(* Theorems about SharedMemory, for any number of objects, names and       *)
(* descriptors, any options, ranges and lengths.                           *)
(***************************************************************************)
EXTENDS SharedMemory, FiniteSetTheorems, TLAPS

LEMMA ZeroIsSize == 0 \in Sizes
BY SharedMemoryAssumption DEF Sizes, Greatest

(* What opening a file leaves: one number that was free is taken. *)
LEMMA Opening ==
    ASSUME TypeOK, NEW w \in Owners, NEW file \in Nat,
           NEW via \in {"anonymous", "open", "other"},
           NEW writable \in BOOLEAN, OpenFile(w, file, via, writable)
    PROVE  \E n \in Numbers :
              /\ table[n] = None
              /\ table' = [table EXCEPT ![n] = Opened(w, file, via, writable)]
              /\ owned' = [owned EXCEPT ![w] = [file_descriptor |-> n,
                                                ended |-> FALSE]]
              /\ table' \in [Numbers -> OpenFiles \cup {None}]
              /\ owned' \in [Owners -> Ownerships \cup {None}]
              /\ table'[n] # None /\ owned'[w] # None
<1>1. PICK n \in Numbers :
         /\ table[n] = None
         /\ table' = [table EXCEPT ![n] = Opened(w, file, via, writable)]
         /\ owned' = [owned EXCEPT ![w] = [file_descriptor |-> n,
                                           ended |-> FALSE]]
  BY DEF OpenFile
<1>2. Opened(w, file, via, writable) \in OpenFiles
  BY DEF Opened, OpenFiles
<1>3. [file_descriptor |-> n, ended |-> FALSE] \in Ownerships
  BY DEF Ownerships
<1>4. /\ table' \in [Numbers -> OpenFiles \cup {None}]
      /\ owned' \in [Owners -> Ownerships \cup {None}]
  BY <1>1, <1>2, <1>3 DEF TypeOK
<1>5. table'[n] # None /\ owned'[w] # None
  BY <1>1, <1>2, <1>3, NoneAssumption DEF TypeOK
<1> QED
  BY <1>1, <1>4, <1>5

(* A file that is made is one more, of no length. *)
LEMMA Making ==
    ASSUME TypeOK, MakeFile
    PROVE  /\ lengths' \in Seq(Sizes) /\ Files \subseteq Files'
           /\ NewFile \in Files' /\ NewFile \in Nat
<1>1. lengths \in Seq(Sizes) /\ lengths' = Append(lengths, 0)
  BY DEF TypeOK, MakeFile
<1>2. /\ lengths' \in Seq(Sizes) /\ Len(lengths') = Len(lengths) + 1
      /\ Len(lengths) \in Nat
  BY <1>1, ZeroIsSize
<1> QED
  BY <1>2 DEF Files, NewFile

(* The ways into the process: one owner, which had nothing, opens a file.  *)
Acquires(w) ==
    /\ owned[w] = None
    /\ \E file \in Files', writable \in BOOLEAN,
          via \in {"anonymous", "open", "other"} :
          OpenFile(w, file, via, writable)
    /\ lengths' \in Seq(Sizes) /\ Files \subseteq Files'
    /\ names' \in [Names -> Files' \cup {None}]
    /\ UNCHANGED <<mapping, packet, failures>>

LEMMA AcquiresByObject ==
    ASSUME TypeOK, NEW o \in Objects,
           \/ NewAnonymous(o)
           \/ \E name \in Names, options \in Options : Open(o, name, options)
    PROVE  Acquires(o)
<1> USE DEF TypeOK
<1>1. CASE NewAnonymous(o)
  <2>1. /\ lengths' \in Seq(Sizes) /\ Files \subseteq Files'
        /\ NewFile \in Files'
    BY <1>1, Making DEF NewAnonymous
  <2> QED
    BY <1>1, <2>1 DEF NewAnonymous, Acquires
<1>2. ASSUME NEW name \in Names, NEW options \in Options,
             Open(o, name, options)
      PROVE  Acquires(o)
  <2> DEFINE flags == Flags(options)
             file == names[name]
             via == "open"
             writable == "O_RDWR" \in flags
  <2>1. ShmOpen(o, name, flags, via) /\ owned[o] = None
        /\ UNCHANGED <<mapping, packet, failures>>
    BY <1>2 DEF Open
  <2>2. via \in {"anonymous", "open", "other"}
    OBVIOUS
  <2>3. writable \in BOOLEAN
    OBVIOUS
  <2>4. CASE /\ file # None
             /\ OpenFile(o, file, via, writable)
             /\ lengths' = IF "O_TRUNC" \in flags
                           THEN [lengths EXCEPT ![file] = 0] ELSE lengths
             /\ UNCHANGED names
    <3>1. file \in Files
      BY <2>4
    <3>2. lengths' \in Seq(Sizes) /\ Len(lengths') = Len(lengths)
      BY <2>4, <3>1, ZeroIsSize DEF Files
    <3>3. Files' = Files
      BY <3>2 DEF Files
    <3> QED
      BY <2>1, <2>2, <2>3, <2>4, <3>1, <3>2, <3>3 DEF Acquires
  <2>5. CASE /\ MakeFile
             /\ OpenFile(o, NewFile, via, writable)
             /\ names' = [names EXCEPT ![name] = NewFile]
    <3>1. /\ lengths' \in Seq(Sizes) /\ Files \subseteq Files'
          /\ NewFile \in Files'
      BY <2>5, Making
    <3>2. names' \in [Names -> Files' \cup {None}]
      BY <2>5, <3>1
    <3> QED
      BY <2>1, <2>2, <2>3, <2>5, <3>1, <3>2 DEF Acquires
  <2> HIDE DEF flags, via, file, writable
  <2> QED
    BY <2>1, <2>4, <2>5 DEF ShmOpen, file, writable
<1> QED
  BY <1>1, <1>2

LEMMA AcquiresByOther ==
    ASSUME TypeOK, OtherOpens
    PROVE  Acquires(Other)
BY DEF TypeOK, OtherOpens, Acquires, Files

(* The ways out: a number is closed and given up. *)
Releases(w) ==
    /\ owned[w] # None
    /\ w \in Objects => mapping[w] = None
    /\ table' = Released(owned[w].file_descriptor)
    /\ owned' = [owned EXCEPT ![w] = None]
    /\ packet' = GivenUp(w)
    /\ UNCHANGED <<lengths, names, mapping, failures>>

LEMMA ReleasesBySteps ==
    ASSUME TypeOK
    PROVE  /\ \A o \in Objects : Close(o) \/ Drop(o) => Releases(o)
           /\ OtherCloses => Releases(Other)
<1>1. \A o \in Objects : Close(o) \/ Drop(o) => Releases(o)
  BY DEF Close, Drop, Releases, Free, Alive
<1>2. ASSUME OtherCloses PROVE GivenUp(Other) = packet
  BY SharedMemoryAssumption DEF TypeOK, GivenUp, Packets
<1> QED
  BY <1>1, <1>2, SharedMemoryAssumption DEF OtherCloses, Releases

(* What is left touches neither the table nor what is owned. *)
Keeps == UNCHANGED <<table, owned, failures>>

LEMMA GivenUpType ==
    ASSUME TypeOK, NEW w
    PROVE  /\ GivenUp(w) \in Packets \cup {None}
           /\ GivenUp(w) # None /\ GivenUp(w).kept =>
                 packet # None /\ GivenUp(w) = packet /\ packet.of # w
BY DEF TypeOK, GivenUp, Packets

-----------------------------------------------------------------------------
(* TypeOK: numbers lie in the table, open files and names are of files     *)
(* that have been made, and what is mapped is an object that is there.     *)
THEOREM TypeCorrect == Spec => []TypeOK
<1>1. Init => TypeOK
  BY ZeroIsSize DEF Init, TypeOK, Files, OthersFile, Owners
<1>2. TypeOK /\ [Next]_vars => TypeOK'
  <2> SUFFICES ASSUME TypeOK, [Next]_vars
               PROVE  TypeOK'
    OBVIOUS
  <2> USE DEF TypeOK
  <2>1. ASSUME NEW w \in Owners, Acquires(w)
        PROVE  TypeOK'
    <3>1. PICK file \in Files', writable \in BOOLEAN,
               via \in {"anonymous", "open", "other"} :
             OpenFile(w, file, via, writable)
      BY <2>1 DEF Acquires
    <3>2. file \in Nat
      BY <3>1 DEF Files
    <3>3. PICK n \in Numbers :
             /\ table' = [table EXCEPT ![n] =
                             Opened(w, file, via, writable)]
             /\ owned' = [owned EXCEPT ![w] = [file_descriptor |-> n,
                                               ended |-> FALSE]]
             /\ table' \in [Numbers -> OpenFiles \cup {None}]
             /\ owned' \in [Owners -> Ownerships \cup {None}]
             /\ owned'[w] # None
      BY <3>1, <3>2, Opening
    <3>4. \A k \in Numbers : table'[k] # None => table'[k].file \in Files'
      BY <2>1, <3>1, <3>3 DEF Acquires, Opened
    <3>5. \A o \in Objects : mapping'[o] # None => Alive(o)'
      BY <2>1, <3>3 DEF Acquires, Alive, Owners
    <3> QED
      BY <2>1, <3>3, <3>4, <3>5 DEF Acquires, OthersFile
  <2>2. ASSUME NEW w \in Owners, Releases(w)
        PROVE  TypeOK'
    <3>1. packet' \in Packets \cup {None}
      BY <2>2, GivenUpType DEF Releases
    <3>2. \A o \in Objects : mapping'[o] # None => Alive(o)'
      BY <2>2 DEF Releases, Alive, Owners
    <3> QED
      BY <2>2, <3>1, <3>2 DEF Releases, Released, Files, OthersFile
  <2>3. ASSUME NEW o \in Objects, CloseFails(o)
        PROVE  TypeOK'
    <3>1. packet' \in Packets \cup {None}
      BY <2>3, GivenUpType DEF CloseFails
    <3>2. owned[o] \in Ownerships /\ mapping[o] = None
      BY <2>3 DEF CloseFails, Free, Alive, Owners
    <3>3. owned' \in [Owners -> Ownerships \cup {None}]
      BY <2>3, <3>2 DEF CloseFails, Ownerships
    <3>4. \A p \in Objects : mapping'[p] # None => Alive(p)'
      BY <2>3, <3>2 DEF CloseFails, Alive, Owners
    <3>5. table' \in [Numbers -> OpenFiles \cup {None}] /\ failures' \in Nat
      <4>1. CASE UNCHANGED <<table, failures>>
        BY <4>1
      <4>2. CASE /\ table' = Released(owned[o].file_descriptor)
                 /\ failures' = failures + 1
        <5>1. table' \in [Numbers -> OpenFiles \cup {None}]
          BY <4>2 DEF Released
        <5> QED
          BY <4>2, <5>1
      <4> QED
        BY <2>3, <4>1, <4>2 DEF CloseFails
    <3>6. \A n \in Numbers : table'[n] # None => table'[n].file \in Files'
      BY <2>3 DEF CloseFails, Released, Files
    <3> QED
      BY <2>3, <3>1, <3>3, <3>4, <3>5, <3>6
         DEF CloseFails, Files, OthersFile
  <2>4. ASSUME NEW o \in Objects, NEW new_length \in Lengths,
               SetLength(o, new_length)
        PROVE  TypeOK'
    <3>1. owned[o] \in Ownerships
      BY <2>4 DEF SetLength, Free, Alive, Owners
    <3>2. PICK file \in Files :
             lengths' = [lengths EXCEPT ![file] = new_length]
      BY <2>4, <3>1 DEF SetLength, Ownerships
    <3>3. lengths' \in Seq(Sizes) /\ Files' = Files
      BY <3>2, SharedMemoryAssumption DEF Files
    <3> QED
      BY <2>4, <3>3 DEF SetLength, Alive, OthersFile
  <2>5. ASSUME NEW o \in Objects, NEW range \in Ranges, NEW writes \in BOOLEAN,
               Map(o, range, writes)
        PROVE  TypeOK'
    BY <2>5 DEF Map, Free, Alive, Files, OthersFile
  <2>6. ASSUME NEW o \in Objects, Unmap(o)
        PROVE  TypeOK'
    BY <2>6 DEF Unmap, Alive, Files, OthersFile
  <2>7. ASSUME NEW o \in Objects, Push(o)
        PROVE  TypeOK'
    <3>1. owned[o] \in Ownerships
      BY <2>7 DEF Push, Free, Alive, Owners
    <3>2. packet' \in Packets
      BY <2>7, <3>1 DEF Push, Ownerships, Packets, OpenFiles
    <3> QED
      BY <2>7, <3>2 DEF Push, Alive, Files, OthersFile
  <2>8. CASE \E name \in Names : Unlink(name)
    BY <2>8 DEF Unlink, Alive, Files, OthersFile
  <2>9. CASE Send
    BY <2>9 DEF Send, Alive, Files, OthersFile
  <2>10. CASE UNCHANGED vars
    BY <2>10 DEF vars, Alive, Files, OthersFile
  <2> QED
    BY <2>1, <2>2, <2>3, <2>4, <2>5, <2>6, <2>7, <2>8, <2>9, <2>10,
       AcquiresByObject, AcquiresByOther, ReleasesBySteps
       DEF Next, Owners
<1> QED
  BY <1>1, <1>2, PTL DEF Spec

-----------------------------------------------------------------------------
(* As long as close has not failed, an owner's number is of a file that    *)
(* the owner has opened.                                                   *)
OwnersHaveTheirs ==
    failures = 0 =>
       \A w \in Owners : owned[w] # None =>
          LET n == owned[w].file_descriptor
          IN  /\ ~owned[w].ended
              /\ n \in Numbers /\ table[n] # None /\ table[n].owner = w

(* The number in a packet is that of its object while that is kept, and    *)
(* stands for the file that is meant.                                      *)
PacketIsOfObject ==
    packet # None /\ packet.kept /\ failures = 0 =>
       LET n == packet.number
       IN  /\ owned[packet.of] # None /\ owned[packet.of].file_descriptor = n
           /\ table[n] # None /\ table[n].file = packet.meant

(* The three parts together are inductive: that an owner's number is taken *)
(* by nobody else follows from the owner recorded in the table.            *)
DescriptorInv == NoLeak /\ OwnersHaveTheirs /\ PacketIsOfObject

LEMMA InvAcquires ==
    ASSUME TypeOK, DescriptorInv, NEW w \in Owners, Acquires(w)
    PROVE  DescriptorInv'
<1> USE DEF TypeOK
<1>1. PICK file \in Files', writable \in BOOLEAN,
           via \in {"anonymous", "open", "other"} :
         OpenFile(w, file, via, writable)
  BY DEF Acquires
<1>2. file \in Nat
  BY <1>1 DEF Files
<1>3. PICK n \in Numbers :
         /\ table[n] = None
         /\ table' = [table EXCEPT ![n] = Opened(w, file, via, writable)]
         /\ owned' = [owned EXCEPT ![w] = [file_descriptor |-> n,
                                           ended |-> FALSE]]
         /\ table'[n] # None /\ owned'[w] # None
  BY <1>1, <1>2, Opening
<1>4. owned[w] = None /\ UNCHANGED <<packet, failures>>
  BY DEF Acquires
<1>5. /\ table'[n].owner = w /\ table'[n].file = file
      /\ owned'[w].file_descriptor = n /\ ~owned'[w].ended
      /\ \A k \in Numbers : k # n => table'[k] = table[k]
      /\ \A v \in Owners : v # w => owned'[v] = owned[v]
  BY <1>3 DEF Opened
<1>6. NoLeak'
  <2> SUFFICES ASSUME NEW k \in Numbers, table'[k] # None
               PROVE  /\ owned'[table'[k].owner] # None
                      /\ owned'[table'[k].owner].file_descriptor = k
    BY DEF NoLeak
  <2>1. CASE k = n
    BY <2>1, <1>3, <1>5
  <2>2. CASE k # n
    <3>1. /\ table'[k] = table[k] /\ table[k] # None
          /\ owned[table[k].owner] # None
          /\ owned[table[k].owner].file_descriptor = k
          /\ table[k].owner \in Owners
      BY <2>2, <1>5 DEF DescriptorInv, NoLeak, OpenFiles
    <3> QED
      BY <3>1, <1>4, <1>5
  <2> QED
    BY <2>1, <2>2
<1>7. OwnersHaveTheirs'
  <2> SUFFICES ASSUME failures = 0, NEW v \in Owners, owned'[v] # None
               PROVE  LET k == owned'[v].file_descriptor
                      IN  /\ ~owned'[v].ended /\ k \in Numbers
                          /\ table'[k] # None /\ table'[k].owner = v
    BY <1>4 DEF OwnersHaveTheirs
  <2>1. CASE v = w
    BY <2>1, <1>3, <1>5
  <2>2. CASE v # w
    BY <2>2, <1>3, <1>5 DEF DescriptorInv, OwnersHaveTheirs
  <2> QED
    BY <2>1, <2>2
<1>8. PacketIsOfObject'
  <2> SUFFICES ASSUME packet # None, packet.kept, failures = 0
               PROVE  LET k == packet.number
                      IN  /\ owned'[packet.of] # None
                          /\ owned'[packet.of].file_descriptor = k
                          /\ table'[k] # None /\ table'[k].file = packet.meant
    BY <1>4 DEF PacketIsOfObject
  <2>1. packet.number \in Numbers /\ packet.of \in Owners
    BY DEF Packets, Owners
  <2> QED
    BY <2>1, <1>3, <1>4, <1>5 DEF DescriptorInv, PacketIsOfObject
<1> QED
  BY <1>6, <1>7, <1>8 DEF DescriptorInv

LEMMA InvReleases ==
    ASSUME TypeOK, DescriptorInv, NEW w \in Owners, Releases(w)
    PROVE  DescriptorInv'
<1> DEFINE n == owned[w].file_descriptor
<1> USE DEF TypeOK
<1>1. /\ owned[w] # None /\ n \in Numbers
      /\ failures' = failures /\ packet' = GivenUp(w)
      /\ table'[n] = None /\ owned'[w] = None
      /\ \A k \in Numbers : k # n => table'[k] = table[k]
      /\ \A v \in Owners : v # w => owned'[v] = owned[v]
  BY DEF Releases, Released, Ownerships
<1> HIDE DEF n
<1>2. NoLeak'
  <2> SUFFICES ASSUME NEW k \in Numbers, table'[k] # None
               PROVE  /\ owned'[table'[k].owner] # None
                      /\ owned'[table'[k].owner].file_descriptor = k
    BY DEF NoLeak
  <2>1. /\ k # n /\ table'[k] = table[k] /\ table[k].owner \in Owners
        /\ owned[table[k].owner] # None
        /\ owned[table[k].owner].file_descriptor = k
    BY <1>1 DEF DescriptorInv, NoLeak, OpenFiles
  <2>2. table[k].owner # w
    BY <2>1 DEF n
  <2> QED
    BY <1>1, <2>1, <2>2
<1>3. OwnersHaveTheirs'
  <2> SUFFICES ASSUME failures = 0, NEW v \in Owners, owned'[v] # None
               PROVE  LET k == owned'[v].file_descriptor
                      IN  /\ ~owned'[v].ended /\ k \in Numbers
                          /\ table'[k] # None /\ table'[k].owner = v
    BY <1>1 DEF OwnersHaveTheirs
  <2>1. v # w /\ owned'[v] = owned[v]
    BY <1>1
  <2>2. LET k == owned[v].file_descriptor
        IN  /\ ~owned[v].ended /\ k \in Numbers
            /\ table[k] # None /\ table[k].owner = v
    BY <2>1 DEF DescriptorInv, OwnersHaveTheirs
  <2>3. table[n].owner = w
    BY <1>1 DEF DescriptorInv, OwnersHaveTheirs, n
  <2> QED
    BY <1>1, <2>1, <2>2, <2>3
<1>4. PacketIsOfObject'
  <2> SUFFICES ASSUME packet' # None, packet'.kept, failures = 0
               PROVE  LET k == packet'.number
                      IN  /\ owned'[packet'.of] # None
                          /\ owned'[packet'.of].file_descriptor = k
                          /\ table'[k] # None
                          /\ table'[k].file = packet'.meant
    BY <1>1 DEF PacketIsOfObject
  <2>1. packet' = packet /\ packet.of # w
    BY <1>1, GivenUpType
  <2>2. packet.number \in Numbers /\ packet.of \in Owners
    BY <2>1 DEF Packets, Owners
  <2>3. /\ owned[packet.of] # None
        /\ owned[packet.of].file_descriptor = packet.number
        /\ table[packet.number] # None
        /\ table[packet.number].file = packet.meant
    BY <2>1 DEF DescriptorInv, PacketIsOfObject
  <2>4. table[packet.number].owner = packet.of /\ table[n].owner = w
    BY <1>1, <2>2, <2>3 DEF DescriptorInv, OwnersHaveTheirs, n
  <2> QED
    BY <1>1, <2>1, <2>2, <2>3, <2>4
<1> QED
  BY <1>2, <1>3, <1>4 DEF DescriptorInv

(* A close that fails leaves two things: no number of another's, and a     *)
(* count that is not 0 any more.                                           *)
LEMMA InvCloseFails ==
    ASSUME TypeOK, DescriptorInv, NEW o \in Objects, CloseFails(o)
    PROVE  DescriptorInv'
<1> DEFINE n == owned[o].file_descriptor
<1> USE DEF TypeOK
<1>1. /\ owned[o] # None /\ owned[o] \in Ownerships /\ n \in Numbers
      /\ o \in Owners
  BY DEF CloseFails, Free, Alive, Owners, Ownerships
<1>2. /\ owned'[o] = [owned[o] EXCEPT !.ended = TRUE]
      /\ \A v \in Owners : v # o => owned'[v] = owned[v]
      /\ \A k \in Numbers : k # n => table'[k] = table[k]
  BY <1>1 DEF CloseFails, Released
<1>3. owned'[o] # None /\ owned'[o].file_descriptor = n
  BY <1>1, <1>2, NoneAssumption DEF Ownerships
<1>4. table'[n] = None
  BY <1>1 DEF CloseFails, Released
<1>5. failures' # 0
  <2>1. CASE table[n] = None
    <3>1. failures # 0 /\ failures' = failures
      BY <1>1, <2>1 DEF CloseFails, DescriptorInv, OwnersHaveTheirs
    <3> QED
      BY <3>1
  <2>2. CASE table[n] # None
    BY <2>2 DEF CloseFails
  <2> QED
    BY <2>1, <2>2
<1> HIDE DEF n
<1>6. NoLeak'
  <2> SUFFICES ASSUME NEW k \in Numbers, table'[k] # None
               PROVE  /\ owned'[table'[k].owner] # None
                      /\ owned'[table'[k].owner].file_descriptor = k
    BY DEF NoLeak
  <2>1. /\ k # n /\ table'[k] = table[k] /\ table[k].owner \in Owners
        /\ owned[table[k].owner] # None
        /\ owned[table[k].owner].file_descriptor = k
    BY <1>2, <1>4 DEF DescriptorInv, NoLeak, OpenFiles
  <2> QED
    BY <1>2, <1>3, <2>1
<1> QED
  BY <1>5, <1>6 DEF DescriptorInv, OwnersHaveTheirs, PacketIsOfObject

(* What leaves the table and the owners alone, and puts into a packet only *)
(* the number of an object that is there.                                  *)
LEMMA InvKeeps ==
    ASSUME TypeOK, DescriptorInv, Keeps,
           \/ packet' = packet \/ packet' = None
           \/ \E o \in Objects : Push(o)
    PROVE  DescriptorInv'
<1>1. NoLeak' /\ OwnersHaveTheirs'
  BY DEF DescriptorInv, Keeps, NoLeak, OwnersHaveTheirs
<1>2. CASE packet' = packet \/ packet' = None
  BY <1>1, <1>2 DEF DescriptorInv, Keeps, PacketIsOfObject
<1>3. ASSUME NEW o \in Objects, Push(o) PROVE PacketIsOfObject'
  BY <1>3 DEF Push, Keeps, PacketIsOfObject, Free, Alive
<1> QED
  BY <1>1, <1>2, <1>3 DEF DescriptorInv

(* DescriptorInv: no descriptor is lost sight of, and without errors of    *)
(* close owners and packets have the descriptors they were given.          *)
THEOREM DescriptorsCorrect == Spec => []DescriptorInv
<1>1. Init => DescriptorInv
  BY DEF Init, DescriptorInv, NoLeak, OwnersHaveTheirs, PacketIsOfObject
<1>2. TypeOK /\ DescriptorInv /\ [Next]_vars => DescriptorInv'
  <2> SUFFICES ASSUME TypeOK, DescriptorInv, [Next]_vars
               PROVE  DescriptorInv'
    OBVIOUS
  <2>1. \A w \in Owners : Acquires(w) => DescriptorInv'
    BY InvAcquires
  <2>2. \A w \in Owners : Releases(w) => DescriptorInv'
    BY InvReleases
  <2>3. \A o \in Objects : CloseFails(o) => DescriptorInv'
    BY InvCloseFails
  <2>4. ASSUME NEW o \in Objects,
               \/ \E new_length \in Lengths : SetLength(o, new_length)
               \/ \E range \in Ranges, writes \in BOOLEAN :
                     Map(o, range, writes)
               \/ Unmap(o) \/ Push(o)
        PROVE  DescriptorInv'
    BY <2>4, InvKeeps DEF Keeps, SetLength, Map, Unmap, Push
  <2>5. CASE \/ \E name \in Names : Unlink(name)
             \/ Send \/ UNCHANGED vars
    BY <2>5, InvKeeps DEF Keeps, Unlink, Send, vars
  <2> QED
    BY <2>1, <2>2, <2>3, <2>4, <2>5,
       AcquiresByObject, AcquiresByOther, ReleasesBySteps DEF Next, Owners
<1> QED
  BY <1>1, <1>2, TypeCorrect, PTL DEF Spec

(* SentIsMeant: a number that waits in a packet stands for the file that   *)
(* was meant for as long as its object is kept and close does not fail.    *)
THEOREM SentCorrect == Spec => []SentIsMeant
<1>1. DescriptorInv => SentIsMeant
  BY DEF DescriptorInv, PacketIsOfObject, SentIsMeant
<1> QED
  BY <1>1, DescriptorsCorrect, PTL

(* The first part of DescriptorsOwned, whatever fails: who has opened a    *)
(* descriptor that is open still has its number.                           *)
THEOREM NothingLeaks == Spec => []NoLeak
<1>1. DescriptorInv => NoLeak
  BY DEF DescriptorInv
<1> QED
  BY <1>1, DescriptorsCorrect, PTL

-----------------------------------------------------------------------------
LEMMA AstrayFinite == IsFiniteSet(Astray)
<1>1. IsFiniteSet(Owners)
  BY SharedMemoryAssumption, FS_AddElement DEF Owners
<1>2. Astray \subseteq Owners
  BY DEF Astray
<1> QED
  BY <1>1, <1>2, FS_Subset

(* Opening a file leads nobody astray.                                     *)
LEMMA AstrayAcquires ==
    ASSUME TypeOK, NEW w \in Owners, Acquires(w)
    PROVE  Astray' \subseteq Astray
<1> USE DEF TypeOK
<1>1. PICK file \in Files', writable \in BOOLEAN,
           via \in {"anonymous", "open", "other"} :
         OpenFile(w, file, via, writable)
  BY DEF Acquires
<1>2. file \in Nat
  BY <1>1 DEF Files
<1>3. PICK n \in Numbers :
         /\ table[n] = None
         /\ table' = [table EXCEPT ![n] = Opened(w, file, via, writable)]
         /\ owned' = [owned EXCEPT ![w] = [file_descriptor |-> n,
                                           ended |-> FALSE]]
         /\ table'[n] # None
  BY <1>1, <1>2, Opening
<1>4. w \notin Astray'
  BY <1>3 DEF Astray, Opened
<1>5. ASSUME NEW v \in Owners, v # w, v \in Astray'
      PROVE  v \in Astray
  <2>1. owned'[v] = owned[v] /\ owned[v] # None
    BY <1>3, <1>5 DEF Astray
  <2>2. owned[v].file_descriptor \in Numbers
    BY <2>1 DEF Ownerships
  <2> QED
    BY <1>3, <1>5, <2>1, <2>2 DEF Astray
<1> QED
  BY <1>4, <1>5 DEF Astray

(* Closing a number leads astray only the one who has opened it, ...       *)
LEMMA AstrayReleases ==
    ASSUME TypeOK, NEW n \in Numbers,
           table' = Released(n),
           \A v \in Owners : owned'[v] # None =>
              /\ owned[v] # None
              /\ owned'[v].file_descriptor = owned[v].file_descriptor
    PROVE  Astray' \subseteq
              Astray \cup (IF table[n] = None THEN {} ELSE {table[n].owner})
<1> SUFFICES ASSUME NEW v \in Owners, v \in Astray', v \notin Astray
             PROVE  table[n] # None /\ v = table[n].owner
  BY DEF Astray
<1> DEFINE k == owned[v].file_descriptor
<1>1. /\ owned[v] # None /\ owned'[v].file_descriptor = k
      /\ table'[k] = None \/ table'[k].owner # v
  BY DEF Astray
<1>2. k \in Numbers
  BY <1>1 DEF TypeOK, Ownerships
<1>3. table[k] # None /\ table[k].owner = v
  BY <1>1 DEF Astray
<1>4. k = n
  BY <1>1, <1>2, <1>3 DEF TypeOK, Released
<1> QED
  BY <1>3, <1>4

(* ... and where that is not the one who closes it, it takes that one's    *)
(* place.                                                                  *)
LEMMA AstrayCount ==
    ASSUME TypeOK, NEW w \in Owners, Releases(w)
    PROVE  Cardinality(Astray') <= Cardinality(Astray)
<1> DEFINE n == owned[w].file_descriptor
           u == table[n].owner
<1>1. /\ owned[w] # None /\ n \in Numbers
      /\ table' = Released(n) /\ owned'[w] = None
      /\ \A v \in Owners : v # w => owned'[v] = owned[v]
  BY DEF TypeOK, Releases, Ownerships
<1>2. Astray' \subseteq Astray \cup (IF table[n] = None THEN {} ELSE {u})
  <2>1. \A v \in Owners : owned'[v] # None =>
           /\ owned[v] # None
           /\ owned'[v].file_descriptor = owned[v].file_descriptor
    BY <1>1
  <2> HIDE DEF n
  <2> QED
    BY <1>1, <2>1, AstrayReleases
<1>3. w \notin Astray'
  BY <1>1 DEF Astray
<1>4. CASE w \notin Astray
  <2>1. table[n] # None /\ u = w
    BY <1>1, <1>4 DEF Astray
  <2>2. Astray' \subseteq Astray
    BY <1>2, <1>3, <2>1
  <2> QED
    BY <2>2, AstrayFinite, FS_Subset
<1>5. CASE w \in Astray
  <2> DEFINE others == Astray \ {w}
  <2>1. /\ IsFiniteSet(others)
        /\ Cardinality(others) = Cardinality(Astray) - 1
    BY <1>5, AstrayFinite, FS_RemoveElement
  <2>2. /\ IsFiniteSet(others \cup {u})
        /\ Cardinality(others \cup {u}) <= Cardinality(Astray)
    <3>1. Cardinality(Astray) \in Nat
      BY AstrayFinite, FS_CardinalityType
    <3>2. /\ IsFiniteSet(others \cup {u})
          /\ \/ Cardinality(others \cup {u}) = Cardinality(others)
             \/ Cardinality(others \cup {u}) = Cardinality(others) + 1
      <4> HIDE DEF others, u
      <4> QED
        BY <2>1, FS_AddElement
    <3> HIDE DEF others, u
    <3> QED
      BY <2>1, <3>1, <3>2
  <2>3. Astray' \subseteq others \cup {u}
    BY <1>2, <1>3
  <2>4. Cardinality(Astray') <= Cardinality(others \cup {u})
    BY <2>2, <2>3, FS_Subset
  <2>5. /\ IsFiniteSet(Astray')
        /\ Cardinality(others \cup {u}) \in Nat /\ Cardinality(Astray) \in Nat
    BY <2>2, <2>3, AstrayFinite, FS_Subset, FS_CardinalityType
  <2>6. Cardinality(Astray') \in Nat
    BY <2>5, FS_CardinalityType
  <2> QED
    BY <2>2, <2>4, <2>5, <2>6
<1> QED
  BY <1>4, <1>5

(* A close that fails leads at most one owner more astray.                 *)
LEMMA AstrayFails ==
    ASSUME TypeOK, NEW o \in Objects, CloseFails(o),
           Cardinality(Astray) <= failures
    PROVE  Cardinality(Astray') <= failures'
<1> DEFINE n == owned[o].file_descriptor
<1>1. /\ owned[o] # None /\ owned[o] \in Ownerships /\ n \in Numbers
      /\ o \in Owners
  BY DEF TypeOK, CloseFails, Free, Alive, Owners, Ownerships
<1>2. table' = Released(n)
  <2>1. CASE table[n] = None
    <3>1. Released(n) = table
      BY <1>1, <2>1 DEF TypeOK, Released
    <3> QED
      BY <2>1, <3>1 DEF CloseFails
  <2>2. CASE table[n] # None
    BY <2>2 DEF CloseFails
  <2> QED
    BY <2>1, <2>2
<1>3. \A v \in Owners : owned'[v] # None =>
         /\ owned[v] # None
         /\ owned'[v].file_descriptor = owned[v].file_descriptor
  BY <1>1 DEF TypeOK, CloseFails, Ownerships
<1>4. Astray' \subseteq Astray \cup (IF table[n] = None THEN {}
                                      ELSE {table[n].owner})
  <2> HIDE DEF n
  <2> QED
    BY <1>1, <1>2, <1>3, AstrayReleases
<1>5. failures \in Nat /\ Cardinality(Astray) \in Nat
  BY AstrayFinite, FS_CardinalityType DEF TypeOK
<1>6. CASE table[n] = None
  <2>1. Astray' \subseteq Astray
    BY <1>4, <1>6
  <2>2. Cardinality(Astray') <= Cardinality(Astray) /\ IsFiniteSet(Astray')
    BY <2>1, AstrayFinite, FS_Subset
  <2>3. Cardinality(Astray') \in Nat
    BY <2>2, FS_CardinalityType
  <2>4. failures' = failures
    BY <1>6 DEF CloseFails
  <2> QED
    BY <1>5, <2>2, <2>3, <2>4
<1>7. CASE table[n] # None
  <2> DEFINE more == Astray \cup {table[n].owner}
  <2>1. IsFiniteSet(more) /\ Cardinality(more) <= Cardinality(Astray) + 1
    <3> DEFINE u == table[n].owner
    <3>1. /\ IsFiniteSet(Astray \cup {u})
          /\ \/ Cardinality(Astray \cup {u}) = Cardinality(Astray)
             \/ Cardinality(Astray \cup {u}) = Cardinality(Astray) + 1
      <4> HIDE DEF u
      <4> QED
        BY AstrayFinite, FS_AddElement
    <3> HIDE DEF u
    <3>2. Cardinality(Astray \cup {u}) <= Cardinality(Astray) + 1
      BY <1>5, <3>1
    <3> QED
      BY <3>1, <3>2 DEF u
  <2>2. Astray' \subseteq more
    BY <1>4, <1>7
  <2>3. Cardinality(Astray') <= Cardinality(more) /\ IsFiniteSet(Astray')
    BY <2>1, <2>2, FS_Subset
  <2>4. Cardinality(Astray') \in Nat /\ Cardinality(more) \in Nat
    BY <2>1, <2>3, FS_CardinalityType
  <2>5. failures' = failures + 1
    BY <1>7 DEF CloseFails
  <2> QED
    BY <1>5, <2>1, <2>3, <2>4, <2>5
<1> QED
  BY <1>6, <1>7

(* DescriptorsOwned: there are never more owners astray than calls of      *)
(* close have failed, so none without; and nothing leaks.                  *)
THEOREM OwnershipCorrect == Spec => []DescriptorsOwned
<1> DEFINE Few == Cardinality(Astray) <= failures
<1>1. Init => Few
  <2> SUFFICES ASSUME Init PROVE Few
    OBVIOUS
  <2>1. Astray = {}
    BY DEF Init, Astray, Owners
  <2> QED
    BY <2>1, FS_EmptySet DEF Init
<1>2. TypeOK /\ Few /\ [Next]_vars => Few'
  <2> SUFFICES ASSUME TypeOK, Few, [Next]_vars
               PROVE  Few'
    OBVIOUS
  <2>1. failures \in Nat /\ Cardinality(Astray) \in Nat
    BY AstrayFinite, FS_CardinalityType DEF TypeOK
  <2>2. ASSUME Astray' \subseteq Astray, failures' = failures
        PROVE  Few'
    <3>1. Cardinality(Astray') <= Cardinality(Astray) /\ IsFiniteSet(Astray')
      BY <2>2, AstrayFinite, FS_Subset
    <3>2. Cardinality(Astray') \in Nat
      BY <3>1, FS_CardinalityType
    <3> QED
      BY <2>1, <2>2, <3>1, <3>2
  <2>3. ASSUME NEW w \in Owners, Acquires(w)
        PROVE  Few'
    BY <2>2, <2>3, AstrayAcquires DEF Acquires
  <2>4. ASSUME NEW w \in Owners, Releases(w)
        PROVE  Few'
    <3>1. Cardinality(Astray') <= Cardinality(Astray) /\ failures' = failures
      BY <2>4, AstrayCount DEF Releases
    <3>2. Cardinality(Astray') \in Nat
      <4>1. Astray' \subseteq Owners' /\ Owners' = Owners
        BY DEF Astray, Owners
      <4>2. IsFiniteSet(Owners)
        BY SharedMemoryAssumption, FS_AddElement DEF Owners
      <4> QED
        BY <4>1, <4>2, FS_Subset, FS_CardinalityType
    <3> QED
      BY <2>1, <3>1, <3>2
  <2>5. ASSUME NEW o \in Objects, CloseFails(o)
        PROVE  Few'
    BY <2>5, AstrayFails
  <2>6. ASSUME Keeps PROVE Few'
    BY <2>2, <2>6 DEF Keeps, Astray
  <2>7. ASSUME NEW o \in Objects,
               \/ \E new_length \in Lengths : SetLength(o, new_length)
               \/ \E range \in Ranges, writes \in BOOLEAN :
                     Map(o, range, writes)
               \/ Unmap(o) \/ Push(o)
        PROVE  Keeps
    BY <2>7 DEF Keeps, SetLength, Map, Unmap, Push
  <2>8. ASSUME \/ \E name \in Names : Unlink(name)
               \/ Send \/ UNCHANGED vars
        PROVE  Keeps
    BY <2>8 DEF Keeps, Unlink, Send, vars
  <2> HIDE DEF Few
  <2> QED
    BY <2>3, <2>4, <2>5, <2>6, <2>7, <2>8,
       AcquiresByObject, AcquiresByOther, ReleasesBySteps DEF Next, Owners
<1>3. Few /\ DescriptorInv => DescriptorsOwned
  BY DEF DescriptorsOwned, DescriptorInv
<1> QED
  BY <1>1, <1>2, <1>3, TypeCorrect, DescriptorsCorrect, PTL DEF Spec

-----------------------------------------------------------------------------
(* The sums of a mapping.  What does not fit an i64 is off by 2 ^ 64, and  *)
(* no sum here is off by more.                                             *)
LEMMA Remainder ==
    ASSUME NEW m \in Nat \ {0}, NEW x \in 0 .. m - 1, NEW q \in {-1, 0, 1}
    PROVE  (x + q * m) % m = x
<1> DEFINE y == x + q * m
           d == y \div m
           r == y % m
<1>1. y \in Int /\ d \in Int /\ r \in 0 .. m - 1 /\ y = m * d + r
  BY Z3
<1>2. m * (d - q) = x - r
  BY <1>1, Z3
<1>3. x - r < m /\ x - r > -m
  BY <1>1, Z3
<1> HIDE DEF y, d, r
<1> DEFINE e == d - q
<1>4. e \in Int /\ m * e < m /\ m * e > -m
  BY <1>1, <1>2, <1>3
<1> HIDE DEF e
<1>5. e = 0
  <2>1. CASE e >= 1
    <3>1. m * e >= m
      BY <1>4, <2>1, Z3
    <3> QED
      BY <1>4, <3>1
  <2>2. CASE e <= -1
    <3>1. m * e <= -m
      BY <1>4, <2>2, Z3
    <3> QED
      BY <1>4, <3>1
  <2> QED
    BY <1>4, <2>1, <2>2
<1>6. m * 0 = 0
  OBVIOUS
<1>7. x = r
  BY <1>1, <1>2, <1>5, <1>6 DEF e
<1> QED
  BY <1>7 DEF y, r

LEMMA Wrapping ==
    ASSUME NEW n \in Int
    PROVE  /\ n \in -Half .. Greatest => Wrap(n) = n
           /\ n \in Half .. 3 * Half - 1 => Wrap(n) = n - 2 * Half
           /\ n \in -3 * Half .. -Half - 1 => Wrap(n) = n + 2 * Half
<1> DEFINE m == 2 * Half
           x == n + Half
<1>1. m \in Nat \ {0} /\ x \in Int /\ Half \in Nat \ {0}
  BY SharedMemoryAssumption
<1>2. ASSUME n \in -Half .. Greatest PROVE x % m = x
  <2>1. x \in 0 .. m - 1 /\ x + 0 * m = x
    BY <1>1, <1>2 DEF Greatest
  <2> HIDE DEF x, m
  <2>2. (x + 0 * m) % m = x
    BY <1>1, <2>1, Remainder
  <2> QED
    BY <2>1, <2>2
<1>3. ASSUME n \in Half .. 3 * Half - 1 PROVE x % m = x - m
  <2> DEFINE y == x - m
  <2>1. y \in 0 .. m - 1 /\ y + 1 * m = x
    BY <1>1, <1>3
  <2> HIDE DEF x, m, y
  <2>2. (y + 1 * m) % m = y
    BY <1>1, <2>1, Remainder
  <2> QED
    BY <2>1, <2>2 DEF y
<1>4. ASSUME n \in -3 * Half .. -Half - 1 PROVE x % m = x + m
  <2> DEFINE y == x + m
  <2>1. y \in 0 .. m - 1 /\ y + (-1) * m = x
    BY <1>1, <1>4
  <2> HIDE DEF x, m, y
  <2>2. (y + (-1) * m) % m = y
    BY <1>1, <2>1, Remainder
  <2> QED
    BY <2>1, <2>2 DEF y
<1>5. Wrap(n) = (x % m) - Half
  BY DEF Wrap
<1> QED
  BY <1>1, <1>2, <1>3, <1>4, <1>5

(* Where a range starts, and the sum that says where it ends. *)
Start(range) ==
    CASE range.start[1] = "Included" -> range.start[2]
      [] range.start[1] = "Excluded" -> Wrap(range.start[2] + 1)
      [] range.start = Unbounded -> 0

End(range, length) ==
    CASE range.end[1] = "Included" -> Wrap(range.end[2] + 1)
      [] range.end[1] = "Excluded" -> range.end[2]
      [] range.end = Unbounded -> length

(* That k does not lie before the range, and not behind it. *)
NotBefore(range, k) ==
    CASE range.start[1] = "Included" -> range.start[2] <= k
      [] range.start[1] = "Excluded" -> range.start[2] < k
      [] range.start = Unbounded -> k >= 0

NotBehind(range, k) ==
    CASE range.end[1] = "Included" -> k <= range.end[2]
      [] range.end[1] = "Excluded" -> k < range.end[2]
      [] range.end = Unbounded -> TRUE

RangeOfI64 == [start : Bounds, end : Bounds]

LEMMA BoundCases ==
    ASSUME NEW b \in Bounds
    PROVE  \/ b = Unbounded /\ b[1] # "Included" /\ b[1] # "Excluded"
           \/ /\ b[1] = "Included" /\ b[1] # "Excluded" /\ b # Unbounded
              /\ b[2] \in -Half .. Greatest
           \/ /\ b[1] = "Excluded" /\ b[1] # "Included" /\ b # Unbounded
              /\ b[2] \in -Half .. Greatest
<1>1. CASE b = Unbounded
  BY <1>1 DEF Unbounded
<1>2. ASSUME NEW kind \in {"Included", "Excluded"},
             NEW i \in -Half .. Greatest, b = <<kind, i>>
      PROVE  b[1] = kind /\ b[2] = i /\ b # Unbounded
  <2>1. b[1] = kind /\ b[2] = i
    BY <1>2
  <2>2. Unbounded[1] = "Unbounded"
    BY DEF Unbounded
  <2> QED
    BY <2>1, <2>2
<1> QED
  BY <1>1, <1>2 DEF Bounds

(* One more than an i64: itself but for the greatest, where it is the      *)
(* least.                                                                  *)
LEMMA OneMore ==
    ASSUME NEW i \in -Half .. Greatest
    PROVE  /\ i # Greatest => Wrap(i + 1) = i + 1
           /\ i = Greatest => Wrap(i + 1) = -Half
<1>1. Half \in Nat \ {0} /\ i + 1 \in Int
  BY SharedMemoryAssumption DEF Greatest
<1>2. i # Greatest => i + 1 \in -Half .. Greatest
  BY <1>1 DEF Greatest
<1>3. i = Greatest => i + 1 \in Half .. 3 * Half - 1
                      /\ i + 1 - 2 * Half = -Half
  BY <1>1 DEF Greatest
<1>4. i = Greatest => Wrap(i + 1) = i + 1 - 2 * Half
  BY <1>1, <1>3, Wrapping
<1> QED
  BY <1>1, <1>2, <1>3, <1>4, Wrapping

(* A start that is not refused is where the range starts. *)
LEMMA StartIsStart ==
    ASSUME NEW range \in RangeOfI64, Start(range) >= 0
    PROVE  /\ Start(range) \in 0 .. Greatest
           /\ \A k \in -Half .. Greatest :
                 Start(range) <= k <=> NotBefore(range, k)
<1> DEFINE b == range.start
<1>1. b \in Bounds /\ Half \in Nat \ {0}
  BY SharedMemoryAssumption DEF RangeOfI64
<1>2. CASE b = Unbounded /\ b[1] # "Included" /\ b[1] # "Excluded"
  <2>1. Start(range) = 0 /\ \A k : NotBefore(range, k) <=> k >= 0
    BY <1>2 DEF Start, NotBefore
  <2> QED
    BY <1>1, <1>2, <2>1 DEF Greatest
<1>3. CASE /\ b[1] = "Included" /\ b[1] # "Excluded" /\ b # Unbounded
           /\ b[2] \in -Half .. Greatest
  <2>1. Start(range) = b[2] /\ \A k : NotBefore(range, k) <=> b[2] <= k
    BY <1>3 DEF Start, NotBefore
  <2> DEFINE i == b[2]
  <2>2. i \in -Half .. Greatest /\ Start(range) = i
        /\ \A k : NotBefore(range, k) <=> i <= k
    BY <1>3, <2>1
  <2> HIDE DEF i
  <2> QED
    BY <1>1, <2>2 DEF Greatest
<1>4. CASE /\ b[1] = "Excluded" /\ b[1] # "Included" /\ b # Unbounded
           /\ b[2] \in -Half .. Greatest
  <2>1. /\ Start(range) = Wrap(b[2] + 1)
        /\ \A k : NotBefore(range, k) <=> b[2] < k
    BY <1>4 DEF Start, NotBefore
  <2> DEFINE i == b[2]
  <2>2. /\ i \in -Half .. Greatest /\ Start(range) = Wrap(i + 1)
        /\ \A k : NotBefore(range, k) <=> i < k
    BY <1>4, <2>1
  <2> HIDE DEF i
  <2>3. i # Greatest
    BY <1>1, <2>2, OneMore DEF Greatest
  <2>4. Start(range) = i + 1
    BY <2>2, <2>3, OneMore
  <2> QED
    BY <1>1, <2>2, <2>3, <2>4 DEF Greatest
<1> QED
  BY <1>1, <1>2, <1>3, <1>4, BoundCases

(* An end that is not refused is where the range ends. *)
LEMMA EndIsEnd ==
    ASSUME NEW range \in RangeOfI64, NEW length \in 0 .. Greatest,
           End(range, length) >= 0
    PROVE  /\ End(range, length) \in 0 .. Greatest
           /\ range.end = Unbounded => End(range, length) = length
           /\ \A k \in -Half .. Greatest :
                 k < End(range, length) <=>
                    /\ NotBehind(range, k)
                    /\ k < IF range.end = Unbounded THEN length ELSE Greatest
<1> DEFINE b == range.end
<1>1. b \in Bounds /\ Half \in Nat \ {0}
  BY SharedMemoryAssumption DEF RangeOfI64
<1>2. CASE b = Unbounded /\ b[1] # "Included" /\ b[1] # "Excluded"
  <2>1. /\ End(range, length) = length
        /\ \A k : NotBehind(range, k)
    BY <1>2 DEF End, NotBehind
  <2> QED
    BY <1>1, <1>2, <2>1 DEF Greatest
<1>3. CASE /\ b[1] = "Included" /\ b[1] # "Excluded" /\ b # Unbounded
           /\ b[2] \in -Half .. Greatest
  <2>1. /\ End(range, length) = Wrap(b[2] + 1)
        /\ \A k : NotBehind(range, k) <=> k <= b[2]
    BY <1>3 DEF End, NotBehind
  <2> DEFINE i == b[2]
  <2>2. /\ i \in -Half .. Greatest /\ End(range, length) = Wrap(i + 1)
        /\ \A k : NotBehind(range, k) <=> k <= i
        /\ range.end # Unbounded
    BY <1>3, <2>1
  <2> HIDE DEF i
  <2>3. i # Greatest
    BY <1>1, <2>2, OneMore DEF Greatest
  <2>4. End(range, length) = i + 1
    BY <2>2, <2>3, OneMore
  <2> QED
    BY <1>1, <2>2, <2>3, <2>4 DEF Greatest
<1>4. CASE /\ b[1] = "Excluded" /\ b[1] # "Included" /\ b # Unbounded
           /\ b[2] \in -Half .. Greatest
  <2>1. /\ End(range, length) = b[2]
        /\ \A k : NotBehind(range, k) <=> k < b[2]
    BY <1>4 DEF End, NotBehind
  <2> DEFINE i == b[2]
  <2>2. /\ i \in -Half .. Greatest /\ End(range, length) = i
        /\ \A k : NotBehind(range, k) <=> k < i
        /\ range.end # Unbounded
    BY <1>4, <2>1
  <2> HIDE DEF i
  <2> QED
    BY <1>1, <2>2 DEF Greatest
<1> QED
  BY <1>1, <1>2, <1>3, <1>4, BoundCases

LEMMA EndType ==
    ASSUME NEW range \in RangeOfI64, NEW length \in 0 .. Greatest
    PROVE  End(range, length) \in -Half .. Greatest
<1> DEFINE b == range.end
<1>1. b \in Bounds /\ Half \in Nat \ {0}
  BY SharedMemoryAssumption DEF RangeOfI64
<1>2. CASE b = Unbounded /\ b[1] # "Included" /\ b[1] # "Excluded"
  BY <1>1, <1>2 DEF End, Greatest
<1>3. CASE /\ b[1] = "Included" /\ b[1] # "Excluded" /\ b # Unbounded
           /\ b[2] \in -Half .. Greatest
  <2> DEFINE i == b[2]
  <2>1. End(range, length) = Wrap(i + 1) /\ i \in -Half .. Greatest
    BY <1>3 DEF End
  <2> HIDE DEF i
  <2> QED
    BY <1>1, <2>1, OneMore DEF Greatest
<1>4. CASE /\ b[1] = "Excluded" /\ b[1] # "Included" /\ b # Unbounded
           /\ b[2] \in -Half .. Greatest
  BY <1>4 DEF End
<1> QED
  BY <1>1, <1>2, <1>3, <1>4, BoundCases

(* The length that mmap accepts is the difference of the two. *)
LEMMA LengthIsLength ==
    ASSUME NEW start \in 0 .. Greatest, NEW end \in -Half .. Greatest,
           Wrap(end - start) > 0, start + Wrap(end - start) <= Greatest
    PROVE  Wrap(end - start) = end - start /\ end > start
<1>1. Half \in Nat \ {0} /\ Greatest = Half - 1 /\ end - start \in Int
  BY SharedMemoryAssumption DEF Greatest
<1>2. CASE end - start \in -Half .. Greatest
  <2>1. Wrap(end - start) = end - start
    BY <1>1, <1>2, Wrapping
  <2> QED
    BY <1>1, <2>1
<1>3. CASE end - start < -Half
  <2>1. end - start \in -3 * Half .. -Half - 1
    BY <1>1, <1>3
  <2>2. Wrap(end - start) = end - start + 2 * Half
    BY <1>1, <2>1, Wrapping
  <2> QED
    BY <1>1, <2>2
<1> QED
  BY <1>1, <1>2, <1>3

-----------------------------------------------------------------------------
(* What a mapping m gives is its range. *)
IsTheRange(m) ==
    \A k \in -Half .. Greatest :
       k \in m.offset .. m.offset + m.length - 1
       <=> Contains(m.range, k) /\ k < m.seen

(* What is mapped is the range, and it ends at the end of the file where   *)
(* the range has no end.                                                   *)
LEMMA Mapping ==
    ASSUME NEW range \in RangeOfI64, NEW length \in 0 .. Greatest,
           NEW file,
           LET mapped == OffsetAndLength(range, length)
           IN  /\ mapped[1] >= 0 /\ mapped[2] > 0
               /\ mapped[1] + mapped[2] <= Greatest
    PROVE  LET mapped == OffsetAndLength(range, length)
               m == [file |-> file, offset |-> mapped[1],
                     length |-> mapped[2], range |-> range,
                     seen |-> IF range.end = Unbounded
                              THEN length ELSE Greatest]
           IN  /\ IsTheRange(m)
               /\ range.end = Unbounded => m.offset + m.length = length
<1> DEFINE start == Start(range)
           end == End(range, length)
           sum == Wrap(end - start)
           seen == IF range.end = Unbounded THEN length ELSE Greatest
           m == [file |-> file, offset |-> start, length |-> sum,
                 range |-> range, seen |-> seen]
<1>1. OffsetAndLength(range, length) = <<start, sum>>
  BY DEF OffsetAndLength, Start, End
<1>2. start >= 0 /\ sum > 0 /\ start + sum <= Greatest
  BY <1>1
<1>3. start \in 0 .. Greatest
  BY <1>2, StartIsStart
<1>4. end \in -Half .. Greatest
  BY EndType
<1>5. Half \in Nat \ {0} /\ Greatest = Half - 1
  BY SharedMemoryAssumption DEF Greatest
<1>6. sum = end - start /\ end > start
  <2> HIDE DEF start, end
  <2> QED
    BY <1>2, <1>3, <1>4, LengthIsLength
<1>7. end >= 0
  <2> HIDE DEF start, end, sum
  <2> QED
    BY <1>3, <1>4, <1>5, <1>6
<1>8. ASSUME NEW k \in -Half .. Greatest
      PROVE  start <= k /\ k < end <=> Contains(range, k) /\ k < seen
  <2>1. Contains(range, k) <=> NotBefore(range, k) /\ NotBehind(range, k)
    BY DEF Contains, NotBefore, NotBehind
  <2>2. start <= k <=> NotBefore(range, k)
    BY <1>2, StartIsStart
  <2>3. k < end <=> NotBehind(range, k) /\ k < seen
    BY <1>7, EndIsEnd
  <2> HIDE DEF start, end, seen
  <2> QED
    BY <2>1, <2>2, <2>3
<1>9. range.end = Unbounded => end = length
  BY <1>7, EndIsEnd
<1>10. start + sum = end
  <2> HIDE DEF start, end, sum
  <2> QED
    BY <1>3, <1>4, <1>5, <1>6
<1>11. IsTheRange(m)
  <2>1. ASSUME NEW k \in -Half .. Greatest
        PROVE  k \in start .. start + sum - 1
               <=> Contains(range, k) /\ k < seen
    <3> HIDE DEF start, end, sum, seen, m
    <3>1. k \in start .. end - 1 <=> start <= k /\ k < end
      BY <1>3, <1>4, <1>5
    <3>2. start <= k /\ k < end <=> Contains(range, k) /\ k < seen
      BY <1>8, Zenon
    <3>3. start + sum - 1 = end - 1
      BY <1>3, <1>4, <1>5, <1>6
    <3> QED
      BY <3>1, <3>2, <3>3, Zenon
  <2>2. /\ m.offset = start /\ m.length = sum
        /\ m.range = range /\ m.seen = seen
    OBVIOUS
  <2> HIDE DEF start, sum, seen, m
  <2> QED
    BY <2>1, <2>2 DEF IsTheRange
<1> HIDE DEF start, end, sum
<1> QED
  BY <1>1, <1>9, <1>10, <1>11

(* What Map makes is such a mapping, of the file its object's number       *)
(* stands for.                                                             *)
LEMMA MapMaps ==
    ASSUME TypeOK, NEW o \in Objects, NEW range \in Ranges,
           NEW writes \in BOOLEAN, Map(o, range, writes)
    PROVE  LET n == owned[o].file_descriptor
           IN  /\ owned[o] # None /\ n \in Numbers /\ table[n] # None
               /\ mapping'[o].file = table[n].file
               /\ mapping'[o].range = range
               /\ IsTheRange(mapping'[o])
               /\ range.end = Unbounded =>
                     mapping'[o].offset + mapping'[o].length
                        = lengths[mapping'[o].file]
               /\ DOMAIN mapping' = Objects
               /\ \A p \in Objects : p # o => mapping'[p] = mapping[p]
<1> DEFINE n == owned[o].file_descriptor
           file == table[n].file
           mapped == OffsetAndLength(range, lengths[file])
           m == [file |-> file, offset |-> mapped[1],
                 length |-> mapped[2], range |-> range,
                 seen |-> IF range.end = Unbounded
                          THEN lengths[file] ELSE Greatest]
<1>1. /\ Free(o) /\ table[n] # None
      /\ CanMmap(n, mapped[1], mapped[2], writes)
      /\ mapping' = [mapping EXCEPT ![o] = m]
  BY DEF Map
<1>2. owned[o] # None /\ n \in Numbers
  BY <1>1 DEF Free, Alive, TypeOK, Ownerships, Owners
<1>3. lengths[file] \in Sizes
  <2>1. file \in Files
    BY <1>1, <1>2 DEF TypeOK
  <2>2. lengths \in Seq(Sizes)
    BY DEF TypeOK
  <2> HIDE DEF file
  <2> QED
    BY <2>1, <2>2 DEF Files
<1>4. range \in RangeOfI64
  BY SharedMemoryAssumption DEF RangeOfI64
<1>5. mapped[1] >= 0 /\ mapped[2] > 0 /\ mapped[1] + mapped[2] <= Greatest
  <2> HIDE DEF n, mapped, m
  <2> QED
    BY <1>1, Zenon DEF CanMmap
<1>6. IsTheRange(m) /\ (range.end = Unbounded =>
                           m.offset + m.length = lengths[file])
  <2> DEFINE length == lengths[file]
  <2>1. length \in 0 .. Greatest
        /\ LET mapd == OffsetAndLength(range, length)
           IN  /\ mapd[1] >= 0 /\ mapd[2] > 0
               /\ mapd[1] + mapd[2] <= Greatest
    BY <1>3, <1>5 DEF Sizes
  <2> HIDE DEF length, file
  <2> DEFINE mapd == OffsetAndLength(range, length)
             w == [file |-> file, offset |-> mapd[1],
                   length |-> mapd[2], range |-> range,
                   seen |-> IF range.end = Unbounded
                            THEN length ELSE Greatest]
  <2>2. /\ IsTheRange(w)
        /\ range.end = Unbounded => w.offset + w.length = length
    BY <2>1, <1>4, Mapping
  <2> QED
    BY <2>2 DEF length
<1>7. m.file = file /\ m.range = range
  OBVIOUS
<1> HIDE DEF m, mapped
<1>8. /\ mapping'[o] = m /\ DOMAIN mapping' = Objects
      /\ \A p \in Objects : p # o => mapping'[p] = mapping[p]
  BY <1>1 DEF TypeOK
<1> QED
  BY <1>1, <1>2, <1>6, <1>7, <1>8

(* MapsTheRange: what a mapping gives are the bytes of its range, all of   *)
(* them and no others, for every range of numbers of 64 bits, also where   *)
(* the sums wrap around.                                                   *)
THEOREM MapsCorrect == Spec => []MapsTheRange
<1>1. Init => MapsTheRange
  BY DEF Init, MapsTheRange
<1>2. TypeOK /\ MapsTheRange /\ [Next]_vars => MapsTheRange'
  <2> SUFFICES ASSUME TypeOK, MapsTheRange, [Next]_vars,
                      NEW o \in Objects, mapping'[o] # None
               PROVE  IsTheRange(mapping'[o])
    BY DEF MapsTheRange, IsTheRange
  <2>1. ASSUME mapping'[o] = mapping[o]
        PROVE  IsTheRange(mapping'[o])
    BY <2>1 DEF MapsTheRange, IsTheRange
  <2>2. ASSUME NEW p \in Objects, NEW range \in Ranges, NEW writes \in BOOLEAN,
               Map(p, range, writes)
        PROVE  IsTheRange(mapping'[o])
    <3>1. CASE o = p
      BY <2>2, <3>1, MapMaps
    <3>2. CASE o # p
      BY <2>1, <2>2, <3>2, MapMaps
    <3> QED
      BY <3>1, <3>2
  <2>3. ASSUME NEW p \in Objects, Unmap(p)
        PROVE  IsTheRange(mapping'[o])
    BY <2>1, <2>3 DEF Unmap, TypeOK
  <2>4. ASSUME NEW w \in Owners, Acquires(w) \/ Releases(w)
        PROVE  mapping' = mapping
    BY <2>4 DEF Acquires, Releases
  <2>5. ASSUME NEW p \in Objects,
               \/ \E new_length \in Lengths : SetLength(p, new_length)
               \/ CloseFails(p) \/ Push(p)
        PROVE  mapping' = mapping
    BY <2>5 DEF SetLength, CloseFails, Push
  <2>6. ASSUME \/ \E name \in Names : Unlink(name)
               \/ Send \/ UNCHANGED vars
        PROVE  mapping' = mapping
    BY <2>6 DEF Unlink, Send, vars
  <2> QED
    BY <2>1, <2>2, <2>3, <2>4, <2>5, <2>6,
       AcquiresByObject, AcquiresByOther, ReleasesBySteps DEF Next, Owners
<1> QED
  BY <1>1, <1>2, TypeCorrect, PTL DEF Spec

-----------------------------------------------------------------------------
IsAnonymous(n) == table[n] # None /\ table[n].via = "anonymous"

(* The file of an anonymous object is behind one number, and nobody else   *)
(* gets to it: it has no name, and is not the other part's.                *)
AnonymousInv ==
    \A n \in Numbers : IsAnonymous(n) =>
       /\ table[n].file # OthersFile
       /\ \A name \in Names : names[name] # table[n].file
       /\ \A m \in Numbers :
             m # n /\ table[m] # None => table[m].file # table[n].file

(* As long as close has not failed, what is mapped is the file behind the  *)
(* number of its object, and an anonymous one reaches to where it did.     *)
IsBacked(o) ==
    mapping[o] # None /\ failures = 0 =>
       LET n == owned[o].file_descriptor
       IN  /\ mapping[o].file = table[n].file
           /\ table[n].via = "anonymous" /\ mapping[o].range.end = Unbounded =>
                 mapping[o].offset + mapping[o].length
                    <= lengths[mapping[o].file]

BackedInv == AnonymousInv /\ \A o \in Objects : IsBacked(o)

(* A step that leaves what is open, and the length of an anonymous file. *)
LeavesOpen ==
    \A n \in Numbers : table[n] # None =>
       /\ table'[n] = table[n]
       /\ IsAnonymous(n) => lengths'[table[n].file] = lengths[table[n].file]

LEMMA AnonymousOpens ==
    ASSUME TypeOK, AnonymousInv, NEW w \in Owners, NEW file \in Nat,
           NEW via \in {"anonymous", "open", "other"},
           NEW writable \in BOOLEAN, OpenFile(w, file, via, writable),
           \A n \in Numbers : IsAnonymous(n) => table[n].file # file,
           \A name \in Names : names'[name] \in {names[name], file, None},
           via = "anonymous" =>
              /\ file # OthersFile
              /\ \A name \in Names : names'[name] # file
              /\ \A n \in Numbers : table[n] # None => table[n].file # file
    PROVE  AnonymousInv'
<1>1. PICK n \in Numbers :
         /\ table[n] = None
         /\ table' = [table EXCEPT ![n] = Opened(w, file, via, writable)]
  BY Opening
<1>2. /\ table'[n] = Opened(w, file, via, writable)
      /\ table'[n].file = file /\ table'[n].via = via
      /\ \A m \in Numbers : m # n => table'[m] = table[m]
  BY <1>1 DEF TypeOK, Opened
<1> SUFFICES ASSUME NEW k \in Numbers, table'[k] # None,
                    table'[k].via = "anonymous"
             PROVE  /\ table'[k].file # OthersFile
                    /\ \A name \in Names : names'[name] # table'[k].file
                    /\ \A m \in Numbers :
                          m # k /\ table'[m] # None =>
                             table'[m].file # table'[k].file
  BY DEF AnonymousInv, IsAnonymous, OthersFile
<1>3. CASE k = n
  BY <1>2, <1>3
<1>4. CASE k # n
  <2>1. IsAnonymous(k) /\ table'[k] = table[k] /\ table[k].file # file
    BY <1>2, <1>4 DEF IsAnonymous
  <2>2. /\ table[k].file # OthersFile
        /\ \A name \in Names : names[name] # table[k].file
        /\ \A m \in Numbers :
              m # k /\ table[m] # None => table[m].file # table[k].file
    BY <2>1 DEF AnonymousInv
  <2>3. table[k].file # None
    BY <2>1, NoneAssumption DEF TypeOK, OpenFiles, IsAnonymous
  <2> QED
    BY <1>2, <2>1, <2>2, <2>3
<1> QED
  BY <1>3, <1>4

(* The ways in: nobody opens an anonymous file again, or makes one shorter.*)
LEMMA AnonymousAcquires ==
    ASSUME TypeOK, AnonymousInv, NEW w \in Owners,
           \/ w \in Objects /\ NewAnonymous(w)
           \/ w \in Objects /\ \E name \in Names, options \in Options :
                                  Open(w, name, options)
           \/ w = Other /\ OtherOpens
    PROVE  AnonymousInv' /\ LeavesOpen
<1>1. lengths \in Seq(Sizes) /\ Len(lengths) \in Nat
      /\ Files = 1 .. Len(lengths) /\ OthersFile \in Files
      /\ names \in [Names -> Files \cup {None}]
  BY DEF TypeOK, Files
<1>2. \A n \in Numbers : table[n] # None =>
         table[n].file \in Files
  BY DEF TypeOK
<1>3. NewFile \notin Files /\ NewFile \in Nat /\ NewFile # OthersFile
  BY <1>1 DEF NewFile
<1>4. None \notin Nat
  BY NoneAssumption
<1>5. ASSUME NEW file \in Nat, NEW via \in {"anonymous", "open", "other"},
             NEW writable \in BOOLEAN, OpenFile(w, file, via, writable)
      PROVE  \A n \in Numbers : table[n] # None => table'[n] = table[n]
  <2>1. PICK n \in Numbers :
           /\ table[n] = None
           /\ table' = [table EXCEPT ![n] = Opened(w, file, via, writable)]
    BY <1>5, Opening
  <2> QED
    BY <2>1 DEF TypeOK
<1>6. ASSUME MakeFile
      PROVE  \A i \in Files : lengths'[i] = lengths[i]
  BY <1>1, <1>6, ZeroIsSize DEF MakeFile
<1>7. ASSUME w \in Objects, NewAnonymous(w)
      PROVE  AnonymousInv' /\ LeavesOpen
  <2>1. /\ MakeFile /\ OpenFile(w, NewFile, "anonymous", TRUE)
        /\ names' = names
    BY <1>7 DEF NewAnonymous
  <2>2. \A name \in Names : names'[name] # NewFile
    BY <1>1, <1>3, <1>4, <2>1
  <2>3. AnonymousInv'
    BY <1>2, <1>3, <2>1, <2>2, AnonymousOpens DEF IsAnonymous
  <2> QED
    BY <1>2, <1>3, <1>5, <1>6, <2>1, <2>3 DEF LeavesOpen, IsAnonymous
<1>8. ASSUME w \in Objects, NEW name \in Names, NEW options \in Options,
             Open(w, name, options)
      PROVE  AnonymousInv' /\ LeavesOpen
  <2> DEFINE flags == Flags(options)
             file == names[name]
             writable == "O_RDWR" \in flags
  <2>1. ShmOpen(w, name, flags, "open") /\ writable \in BOOLEAN
    BY <1>8 DEF Open
  <2>2. CASE /\ file # None
             /\ OpenFile(w, file, "open", writable)
             /\ lengths' = IF "O_TRUNC" \in flags
                           THEN [lengths EXCEPT ![file] = 0] ELSE lengths
             /\ UNCHANGED names
    <3>1. file \in Files /\ file \in Nat
      BY <1>1, <2>2
    <3>2. \A n \in Numbers : IsAnonymous(n) => table[n].file # file
      BY DEF AnonymousInv
    <3>3. \A i \in Files : i # file => lengths'[i] = lengths[i]
      BY <1>1, <2>2
    <3>4. AnonymousInv'
      <4> HIDE DEF file, writable
      <4> QED
        BY <2>1, <2>2, <3>1, <3>2, AnonymousOpens
    <3> QED
      BY <1>2, <1>5, <2>1, <2>2, <3>1, <3>2, <3>3, <3>4
         DEF LeavesOpen, IsAnonymous
  <2>3. CASE /\ MakeFile
             /\ OpenFile(w, NewFile, "open", writable)
             /\ names' = [names EXCEPT ![name] = NewFile]
    <3>1. \A n \in Numbers : IsAnonymous(n) => table[n].file # NewFile
      BY <1>2, <1>3 DEF IsAnonymous
    <3>2. \A other \in Names : names'[other] \in {names[other], NewFile, None}
      BY <1>1, <2>3
    <3>3. AnonymousInv'
      <4> HIDE DEF file, writable
      <4> QED
        BY <1>3, <2>1, <2>3, <3>1, <3>2, AnonymousOpens
    <3> QED
      BY <1>2, <1>3, <1>5, <1>6, <2>1, <2>3, <3>3 DEF LeavesOpen, IsAnonymous
  <2> HIDE DEF flags, file, writable
  <2> QED
    BY <2>1, <2>2, <2>3 DEF ShmOpen, file, writable
<1>9. ASSUME w = Other, OtherOpens
      PROVE  AnonymousInv' /\ LeavesOpen
  <2>1. /\ OpenFile(w, OthersFile, "other", TRUE)
        /\ names' = names /\ lengths' = lengths /\ OthersFile \in Nat
    BY <1>9 DEF OtherOpens, OthersFile
  <2>2. AnonymousInv'
    BY <2>1, AnonymousOpens DEF AnonymousInv
  <2> QED
    BY <1>5, <2>1, <2>2 DEF LeavesOpen, IsAnonymous
<1> QED
  BY <1>7, <1>8, <1>9

(* Closing a number, or taking a name away, gives nobody else a file. *)
LEMMA AnonymousStays ==
    ASSUME TypeOK, AnonymousInv,
           \A n \in Numbers : table'[n] = table[n] \/ table'[n] = None,
           \A name \in Names : names'[name] \in {names[name], None}
    PROVE  AnonymousInv'
<1> SUFFICES ASSUME NEW k \in Numbers, table'[k] # None,
                    table'[k].via = "anonymous"
             PROVE  /\ table'[k].file # OthersFile
                    /\ \A name \in Names : names'[name] # table'[k].file
                    /\ \A m \in Numbers :
                          m # k /\ table'[m] # None =>
                             table'[m].file # table'[k].file
  BY DEF AnonymousInv, IsAnonymous, OthersFile
<1>1. table'[k] = table[k] /\ IsAnonymous(k)
  BY DEF IsAnonymous
<1>2. table[k].file # None
  BY <1>1, NoneAssumption DEF TypeOK, OpenFiles, IsAnonymous
<1> QED
  BY <1>1, <1>2 DEF AnonymousInv

(* What is mapped stays backed while its object keeps its number, the      *)
(* number its file, and an anonymous file its length.                      *)
LEMMA StaysBacked ==
    ASSUME TypeOK, NEW o \in Objects, IsBacked(o),
           failures' = 0 => failures = 0,
           mapping'[o] # None /\ failures = 0 =>
              LET n == owned[o].file_descriptor
              IN  /\ mapping'[o] = mapping[o] /\ owned'[o] = owned[o]
                  /\ n \in Numbers /\ table[n] # None /\ table'[n] = table[n]
                  /\ IsAnonymous(n) =>
                        lengths'[table[n].file] = lengths[table[n].file]
    PROVE  IsBacked(o)'
<1> DEFINE n == owned[o].file_descriptor
<1> SUFFICES ASSUME mapping'[o] # None, failures' = 0
             PROVE  /\ mapping'[o].file = table'[n].file
                    /\ table'[n].via = "anonymous"
                       /\ mapping'[o].range.end = Unbounded =>
                          mapping'[o].offset + mapping'[o].length
                             <= lengths'[mapping'[o].file]
  BY DEF IsBacked, Unbounded
<1>1. /\ mapping'[o] = mapping[o] /\ failures = 0 /\ table[n] # None
      /\ table'[n] = table[n]
      /\ table[n].via = "anonymous" =>
            lengths'[table[n].file] = lengths[table[n].file]
  BY DEF IsAnonymous
<1> HIDE DEF n
<1>2. /\ mapping[o].file = table[n].file
      /\ table[n].via = "anonymous" /\ mapping[o].range.end = Unbounded =>
            mapping[o].offset + mapping[o].length <= lengths[mapping[o].file]
  BY <1>1 DEF IsBacked, n
<1> QED
  BY <1>1, <1>2

(* While close has not failed a mapped object has a number of its own.     *)
LEMMA MappedOwns ==
    ASSUME TypeOK, DescriptorInv, NEW o \in Objects, mapping[o] # None,
           failures = 0
    PROVE  LET n == owned[o].file_descriptor
           IN  /\ owned[o] # None /\ n \in Numbers /\ table[n] # None
               /\ \A w \in Owners : w # o /\ owned[w] # None =>
                     owned[w].file_descriptor # n
<1>1. o \in Owners /\ owned[o] # None
  BY DEF TypeOK, Alive, Owners
<1>2. \A w \in Owners : owned[w] # None =>
         LET n == owned[w].file_descriptor
         IN  n \in Numbers /\ table[n] # None /\ table[n].owner = w
  BY DEF DescriptorInv, OwnersHaveTheirs
<1> QED
  BY <1>1, <1>2

LEMMA BackedAcquires ==
    ASSUME TypeOK, DescriptorInv, BackedInv, NEW w \in Owners, Acquires(w),
           AnonymousInv', LeavesOpen
    PROVE  BackedInv'
<1>1. PICK file \in Files', writable \in BOOLEAN,
           via \in {"anonymous", "open", "other"} :
         OpenFile(w, file, via, writable)
  BY DEF Acquires
<1>2. file \in Nat
  BY <1>1 DEF TypeOK, Files, Acquires
<1>3. \A v \in Owners : v # w => owned'[v] = owned[v]
  BY <1>1, <1>2, Opening DEF TypeOK
<1>4. owned[w] = None /\ UNCHANGED <<mapping, failures>>
  BY DEF Acquires
<1>5. ASSUME NEW o \in Objects PROVE IsBacked(o)'
  <2> DEFINE n == owned[o].file_descriptor
  <2>1. ASSUME mapping'[o] # None, failures = 0
        PROVE  /\ mapping'[o] = mapping[o] /\ owned'[o] = owned[o]
               /\ n \in Numbers /\ table[n] # None /\ table'[n] = table[n]
               /\ IsAnonymous(n) =>
                     lengths'[table[n].file] = lengths[table[n].file]
    <3>1. owned[o] # None /\ n \in Numbers /\ table[n] # None
      BY <1>4, <2>1, MappedOwns
    <3> HIDE DEF n
    <3> QED
      BY <1>3, <1>4, <3>1 DEF LeavesOpen, Owners
  <2> QED
    BY <1>4, <2>1, StaysBacked DEF BackedInv
<1> QED
  BY <1>5 DEF BackedInv

LEMMA BackedReleases ==
    ASSUME TypeOK, DescriptorInv, BackedInv, NEW w \in Owners, Releases(w)
    PROVE  BackedInv'
<1> DEFINE m == owned[w].file_descriptor
<1>1. /\ owned[w] # None
      /\ w \in Objects => mapping[w] = None
      /\ table' = [table EXCEPT ![m] = None]
      /\ owned' = [owned EXCEPT ![w] = None]
      /\ UNCHANGED <<lengths, names, mapping, failures>>
  BY DEF Releases, Released
<1>2. AnonymousInv'
  BY <1>1, AnonymousStays DEF BackedInv, TypeOK
<1>3. ASSUME NEW o \in Objects PROVE IsBacked(o)'
  <2> DEFINE n == owned[o].file_descriptor
  <2>1. ASSUME mapping'[o] # None, failures = 0
        PROVE  /\ mapping'[o] = mapping[o] /\ owned'[o] = owned[o]
               /\ n \in Numbers /\ table[n] # None /\ table'[n] = table[n]
    <3>1. o # w /\ mapping'[o] = mapping[o] /\ owned'[o] = owned[o]
      BY <1>1, <2>1 DEF TypeOK, Owners
    <3>2. /\ n \in Numbers /\ table[n] # None /\ m # n
      BY <1>1, <2>1, <3>1, MappedOwns
    <3> HIDE DEF n, m
    <3> QED
      BY <1>1, <3>1, <3>2 DEF TypeOK
  <2> QED
    BY <1>1, <2>1, StaysBacked DEF BackedInv
<1> QED
  BY <1>2, <1>3 DEF BackedInv

(* A close that fails ends what is said about mappings. *)
LEMMA BackedCloseFails ==
    ASSUME TypeOK, DescriptorInv, BackedInv, NEW o \in Objects, CloseFails(o)
    PROVE  BackedInv'
<1> DEFINE m == owned[o].file_descriptor
<1>1. owned[o] # None /\ o \in Owners /\ m \in Numbers
  BY DEF TypeOK, CloseFails, Free, Alive, Owners, Ownerships
<1>2. failures' # 0
  <2>1. CASE table[m] = None
    <3>1. failures # 0 /\ failures' = failures
      BY <1>1, <2>1 DEF CloseFails, DescriptorInv, OwnersHaveTheirs
    <3> QED
      BY <3>1
  <2>2. CASE table[m] # None
    BY <2>2 DEF CloseFails, TypeOK
  <2> QED
    BY <2>1, <2>2
<1>3. AnonymousInv'
  <2>1. \A n \in Numbers : table'[n] = table[n] \/ table'[n] = None
    BY DEF CloseFails, Released, TypeOK
  <2>2. names' = names
    BY DEF CloseFails
  <2> QED
    BY <2>1, <2>2, AnonymousStays DEF BackedInv
<1> QED
  BY <1>2, <1>3 DEF BackedInv, IsBacked

(* Only the length of an object that is not mapped can be set, and an      *)
(* anonymous file is behind no other object.                               *)
LEMMA BackedSetLength ==
    ASSUME TypeOK, DescriptorInv, BackedInv, NEW p \in Objects,
           NEW new_length \in Lengths, SetLength(p, new_length)
    PROVE  BackedInv'
<1> DEFINE m == owned[p].file_descriptor
<1>1. /\ owned[p] # None /\ mapping[p] = None /\ table[m] # None
      /\ lengths' = [lengths EXCEPT ![table[m].file] = new_length]
      /\ UNCHANGED <<table, names, owned, mapping, failures>>
  BY DEF SetLength, Free, Alive
<1>2. m \in Numbers
  BY <1>1 DEF TypeOK, Ownerships, Owners
<1>3. AnonymousInv'
  BY <1>1, AnonymousStays DEF BackedInv
<1>4. ASSUME NEW o \in Objects PROVE IsBacked(o)'
  <2> DEFINE n == owned[o].file_descriptor
  <2>1. ASSUME mapping'[o] # None, failures = 0
        PROVE  /\ mapping'[o] = mapping[o] /\ owned'[o] = owned[o]
               /\ n \in Numbers /\ table[n] # None /\ table'[n] = table[n]
               /\ IsAnonymous(n) =>
                     lengths'[table[n].file] = lengths[table[n].file]
    <3>1. o # p /\ n \in Numbers /\ table[n] # None /\ m # n
      BY <1>1, <2>1, MappedOwns DEF Owners
    <3>2. IsAnonymous(n) => table[m].file # table[n].file
      <4> HIDE DEF m, n
      <4> QED
        BY <1>1, <1>2, <3>1 DEF BackedInv, AnonymousInv
    <3>3. table[n].file \in Files
      <4> HIDE DEF m, n
      <4> QED
        BY <3>1 DEF TypeOK
    <3>4. table[m].file # table[n].file =>
             lengths'[table[n].file] = lengths[table[n].file]
      <4> HIDE DEF m, n
      <4>1. lengths \in Seq(Sizes)
        BY DEF TypeOK
      <4> QED
        BY <1>1, <3>3, <4>1 DEF Files
    <3> HIDE DEF m, n
    <3> QED
      BY <1>1, <3>1, <3>2, <3>4
  <2> QED
    BY <1>1, <2>1, StaysBacked DEF BackedInv
<1> QED
  BY <1>3, <1>4 DEF BackedInv

LEMMA BackedMap ==
    ASSUME TypeOK, DescriptorInv, BackedInv, NEW p \in Objects,
           NEW range \in Ranges, NEW writes \in BOOLEAN,
           Map(p, range, writes)
    PROVE  BackedInv'
<1>1. UNCHANGED <<table, lengths, names, owned, failures>>
  BY DEF Map
<1>2. AnonymousInv'
  BY <1>1, AnonymousStays DEF BackedInv
<1>3. IsBacked(p)'
  <2> DEFINE n == owned[p].file_descriptor
             m == mapping'[p]
  <2>1. /\ m.file = table[n].file /\ m.range = range
        /\ range.end = Unbounded =>
              m.offset + m.length = lengths[m.file]
        /\ n \in Numbers /\ table[n] # None
    BY MapMaps
  <2>2. lengths[table[n].file] \in Int
    <3> DEFINE file == table[n].file
    <3>1. file \in Files /\ lengths \in Seq(Sizes)
      BY <2>1 DEF TypeOK
    <3> HIDE DEF file
    <3>2. lengths[file] \in Sizes
      BY <3>1 DEF Files
    <3> QED
      BY <3>2, SharedMemoryAssumption DEF Sizes, Greatest, file
  <2> HIDE DEF n, m
  <2>3. range.end = Unbounded => m.offset + m.length <= lengths[m.file]
    BY <2>1, <2>2
  <2> QED
    BY <1>1, <2>1, <2>3 DEF IsBacked, n, m, Unbounded
<1>4. ASSUME NEW o \in Objects, o # p PROVE IsBacked(o)'
  <2>1. mapping'[o] = mapping[o]
    BY <1>4, MapMaps
  <2>2. mapping[o] # None /\ failures = 0 =>
           owned[o].file_descriptor \in Numbers
           /\ table[owned[o].file_descriptor] # None
    BY MappedOwns
  <2> QED
    BY <1>1, <2>1, <2>2, StaysBacked DEF BackedInv
<1> QED
  BY <1>2, <1>3, <1>4 DEF BackedInv

(* The other steps leave files, numbers and owners, and make no mapping. *)
LEMMA BackedKeeps ==
    ASSUME TypeOK, DescriptorInv, BackedInv,
           UNCHANGED <<table, lengths, owned, failures>>,
           \A name \in Names : names'[name] \in {names[name], None},
           \A o \in Objects : mapping'[o] \in {mapping[o], None}
    PROVE  BackedInv'
<1>1. AnonymousInv'
  BY AnonymousStays DEF BackedInv
<1>2. ASSUME NEW o \in Objects PROVE IsBacked(o)'
  <2>1. mapping[o] # None /\ failures = 0 =>
           owned[o].file_descriptor \in Numbers
           /\ table[owned[o].file_descriptor] # None
    BY MappedOwns
  <2> QED
    BY <2>1, StaysBacked DEF BackedInv
<1> QED
  BY <1>1, <1>2 DEF BackedInv

(* BackedMapping: an anonymous object that is mapped to the end of its     *)
(* file is mapped to no further than the file reaches, for as long as it   *)
(* is mapped.                                                              *)
THEOREM BackedCorrect == Spec => []BackedMapping
<1>1. Init => BackedInv
  BY DEF Init, BackedInv, AnonymousInv, IsAnonymous, IsBacked
<1>2. TypeOK /\ DescriptorInv /\ BackedInv /\ [Next]_vars => BackedInv'
  <2> SUFFICES ASSUME TypeOK, DescriptorInv, BackedInv, [Next]_vars
               PROVE  BackedInv'
    OBVIOUS
  <2>1. ASSUME NEW o \in Objects,
               \/ NewAnonymous(o)
               \/ \E name \in Names, options \in Options :
                     Open(o, name, options)
        PROVE  BackedInv'
    <3>1. o \in Owners /\ Acquires(o)
      BY <2>1, AcquiresByObject DEF Owners
    <3>2. AnonymousInv' /\ LeavesOpen
      BY <2>1, <3>1, AnonymousAcquires DEF BackedInv
    <3> QED
      BY <3>1, <3>2, BackedAcquires
  <2>2. CASE OtherOpens
    <3>1. Other \in Owners /\ Acquires(Other)
      BY <2>2, AcquiresByOther DEF Owners
    <3>2. AnonymousInv' /\ LeavesOpen
      BY <2>2, <3>1, AnonymousAcquires DEF BackedInv
    <3> QED
      BY <3>1, <3>2, BackedAcquires
  <2>3. ASSUME NEW w \in Owners, Releases(w)
        PROVE  BackedInv'
    BY <2>3, BackedReleases
  <2>4. ASSUME NEW o \in Objects, CloseFails(o)
        PROVE  BackedInv'
    BY <2>4, BackedCloseFails
  <2>5. ASSUME NEW o \in Objects, NEW new_length \in Lengths,
               SetLength(o, new_length)
        PROVE  BackedInv'
    BY <2>5, BackedSetLength
  <2>6. ASSUME NEW o \in Objects, NEW range \in Ranges, NEW writes \in BOOLEAN,
               Map(o, range, writes)
        PROVE  BackedInv'
    BY <2>6, BackedMap
  <2>7. ASSUME NEW o \in Objects, Unmap(o)
        PROVE  BackedInv'
    BY <2>7, BackedKeeps DEF Unmap, TypeOK
  <2>8. ASSUME NEW o \in Objects, Push(o)
        PROVE  BackedInv'
    BY <2>8, BackedKeeps DEF Push
  <2>9. ASSUME NEW name \in Names, Unlink(name)
        PROVE  BackedInv'
    BY <2>9, BackedKeeps DEF Unlink, TypeOK
  <2>10. CASE Send \/ UNCHANGED vars
    BY <2>10, BackedKeeps DEF Send, vars
  <2> QED
    BY <2>1, <2>2, <2>3, <2>4, <2>5, <2>6, <2>7, <2>8, <2>9, <2>10,
       ReleasesBySteps DEF Next, Owners
<1>3. BackedInv => BackedMapping
  BY DEF BackedInv, IsBacked, BackedMapping
<1> QED
  BY <1>1, <1>2, <1>3, TypeCorrect, DescriptorsCorrect, PTL DEF Spec

=============================================================================
