---------------------------- MODULE PacketCodec ----------------------------
(***************************************************************************)
(* Packet's push_ methods and PacketReader's read_ methods: how arguments  *)
(* become the bytes and the file descriptors of a packet and how they are  *)
(* taken out again.                                                        *)
(*                                                                         *)
(* A byte has Base values (256 in the code, fewer when TLC is to count     *)
(* them); a word has four bytes, least significant first (the native order *)
(* of the machines the program is built for).                              *)
(***************************************************************************)
EXTENDS Integers, Sequences

CONSTANTS
    Base,     \* the number of values of a byte
    NotUtf8   \* bytes that no string of the language contains

ASSUME CodecAssumption ==
    /\ Base \in Nat \ {0, 1}
    /\ NotUtf8 \subseteq 1 .. Base - 1

Byte == 0 .. Base - 1
WordModulus == Base * Base * Base * Base
Packets == [payload : Seq(Byte), fds : Seq(Nat)]
EmptyPacket == [payload |-> <<>>, fds |-> <<>>]

(* to_ne_bytes and from_ne_bytes *)
Digits(n) ==
    LET q == n \div Base
        r == q \div Base
        s == r \div Base
    IN  <<n % Base, q % Base, r % Base, s % Base>>
Number(bytes) == bytes[1] + Base * (bytes[2] + Base * (bytes[3] + Base * bytes[4]))
Signed(n) == IF 2 * n < WordModulus THEN n ELSE n - WordModulus

Padding(n) == (4 - (n % 4)) % 4
Zeros(n) == [i \in 1 .. n |-> 0]

Extend(p, bytes) == [p EXCEPT !.payload = @ \o bytes]

PushUint(p, n) == Extend(p, Digits(n))
PushInt(p, n) == PushUint(p, n % WordModulus)

(* A mutant: the length does not count the NUL. *)
PushStr_NoNul(p, s) ==
    Extend(p, Digits(Len(s)) \o s \o <<0>> \o Zeros(Padding(Len(s) + 1)))

(* A mutant: the padding does not count the NUL. *)
PushStr_ShortPad(p, s) ==
    Extend(p, Digits(Len(s) + 1) \o s \o <<0>> \o Zeros(Padding(Len(s))))

PushStr(p, s) ==
    Extend(p, Digits(Len(s) + 1) \o s \o <<0>> \o Zeros(Padding(Len(s) + 1)))

(* A mutant: an array whose length is a multiple of four is padded, too. *)
PushArray_PadsFull(p, a) ==
    Extend(p, Digits(Len(a)) \o a \o Zeros(4 - (Len(a) % 4)))

PushArray(p, a) == Extend(p, Digits(Len(a)) \o a \o Zeros(Padding(Len(a))))

PushNewObject(p, o) ==
    PushUint(PushUint(PushStr(p, o.interface), o.version), o.id)
PushFd(p, fd) == [p EXCEPT !.fds = Append(@, fd)]

(* Objects and new ids are pushed as their number, 0 for None. *)
Push(p, kind, v) ==
    CASE kind \in {"uint", "object", "new_id"} -> PushUint(p, v)
      [] kind \in {"int", "fixed"}             -> PushInt(p, v)
      [] kind = "string"                       -> PushStr(p, v)
      [] kind = "array"                        -> PushArray(p, v)
      [] kind = "new_object"                   -> PushNewObject(p, v)
      [] kind = "fd"                           -> PushFd(p, v)

-----------------------------------------------------------------------------
(* What arguments can be: numbers of 32 bits, strings without NUL (a &str  *)
(* may have one, no peer takes it) and arrays whose lengths fit a word.    *)
Words == 0 .. WordModulus - 1
Strings == {s \in Seq(Byte \ ({0} \cup NotUtf8)) : Len(s) + 1 < WordModulus}

Pushable(kind) ==
    CASE kind \in {"uint", "object"} -> Words
      [] kind = "new_id"             -> Words \ {0}
      [] kind \in {"int", "fixed"}   -> {n \in Int : /\ - WordModulus <= 2 * n
                                                   /\ 2 * n < WordModulus}
      [] kind = "string"             -> Strings
      [] kind = "array"              -> {a \in Seq(Byte) : Len(a) < WordModulus}
      [] kind = "new_object"         -> [interface : Strings, version : Words,
                                         id : Words \ {0}]
      [] kind = "fd"                 -> Nat

-----------------------------------------------------------------------------
(* A reader is at a position of the payload and at one of the fds. *)
Readers == [pos : Nat, fdPos : Nat]
NewReader == [pos |-> 0, fdPos |-> 0]

(* "EmptyString" is a string of length 0, without even a NUL: the code     *)
(* computes its length minus 1, which panics in a build with overflow      *)
(* checks and otherwise ends in StringMisplacedNul.                        *)
Errors == {"FieldOutOfBounds", "FdOutOfBounds", "StringMisplacedNul",
           "StringInvalidUtf8", "ZeroObjectId", "EmptyString"}

Ok(value, reader) == [error |-> "none", value |-> value, reader |-> reader]
Err(error, reader) == [error |-> error, value |-> <<>>, reader |-> reader]

Fits(p, r, n) == r.pos + n <= Len(p.payload)
At(p, r, n) == SubSeq(p.payload, r.pos + 1, r.pos + n)
Skip(r, n) == [r EXCEPT !.pos = @ + n]

ReadUint(p, r) == IF Fits(p, r, 4) THEN Ok(Number(At(p, r, 4)), Skip(r, 4))
                                   ELSE Err("FieldOutOfBounds", r)

ReadInt(p, r) ==
    LET u == ReadUint(p, r)
    IN  IF u.error = "none" THEN Ok(Signed(u.value), u.reader) ELSE u

(* A length and so many bytes, padded. *)
ReadArray(p, r) ==
    LET len == ReadUint(p, r)
        padded == len.value + Padding(len.value)
    IN  IF len.error # "none" \/ ~ Fits(p, r, 4 + padded)
        THEN Err("FieldOutOfBounds", r)
        ELSE Ok(At(p, Skip(r, 4), len.value), Skip(r, 4 + padded))

(* A mutant: a string of length 0 is one without characters. *)
ReadStr_NullIsEmpty(p, r) ==
    LET a == ReadArray(p, r)
        n == Len(a.value)
        string == SubSeq(a.value, 1, n - 1)
    IN  CASE a.error # "none" -> a
          [] a.error = "none" /\ n = 0 -> Ok(<<>>, a.reader)
          [] a.error = "none" /\ n > 0 ->
               CASE {i \in 1 .. n : a.value[i] = 0} # {n}
                      -> Err("StringMisplacedNul", a.reader)
                 [] {i \in 1 .. n : a.value[i] = 0} = {n}
                      -> IF \E i \in 1 .. n - 1 : string[i] \in NotUtf8
                         THEN Err("StringInvalidUtf8", a.reader)
                         ELSE Ok(string, a.reader)

(* The bytes of an array, of which the last and no other is NUL. *)
ReadStr(p, r) ==
    LET a == ReadArray(p, r)
        n == Len(a.value)
        string == SubSeq(a.value, 1, n - 1)
    IN  CASE a.error # "none" -> a
          [] a.error = "none" /\ n = 0 -> Err("EmptyString", a.reader)
          [] a.error = "none" /\ n > 0 ->
               CASE {i \in 1 .. n : a.value[i] = 0} # {n}
                      -> Err("StringMisplacedNul", a.reader)
                 [] {i \in 1 .. n : a.value[i] = 0} = {n}
                      -> IF \E i \in 1 .. n - 1 : string[i] \in NotUtf8
                         THEN Err("StringInvalidUtf8", a.reader)
                         ELSE Ok(string, a.reader)

ReadNewId(p, r) ==
    LET id == ReadUint(p, r)
    IN  IF id.error = "none" /\ id.value = 0 THEN Err("ZeroObjectId", id.reader)
                                             ELSE id

ReadNewObject(p, r) ==
    LET interface == ReadStr(p, r)
        version == ReadUint(p, interface.reader)
        id == ReadNewId(p, version.reader)
    IN  IF interface.error # "none" THEN interface
        ELSE IF version.error # "none" THEN version
        ELSE IF id.error # "none" THEN id
        ELSE Ok([interface |-> interface.value, version |-> version.value,
                 id |-> id.value], id.reader)

ReadFd(p, r) == IF r.fdPos < Len(p.fds)
                THEN Ok(p.fds[r.fdPos + 1], [r EXCEPT !.fdPos = @ + 1])
                ELSE Err("FdOutOfBounds", r)

Read(p, r, kind) ==
    CASE kind \in {"uint", "object"} -> ReadUint(p, r)
      [] kind \in {"int", "fixed"}   -> ReadInt(p, r)
      [] kind = "string"             -> ReadStr(p, r)
      [] kind = "array"              -> ReadArray(p, r)
      [] kind = "new_id"             -> ReadNewId(p, r)
      [] kind = "new_object"         -> ReadNewObject(p, r)
      [] kind = "fd"                 -> ReadFd(p, r)

(* finish: nothing is left over. *)
AllRead(p, r) == r.pos >= Len(p.payload) /\ r.fdPos >= Len(p.fds)

=============================================================================
