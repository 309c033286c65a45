----------------------------- MODULE WireFormat -----------------------------
(***************************************************************************)
(* The header of a packet on the wire, two words of 32 bits: the object,   *)
(* then the size in bytes (with the header) above the opcode.  A packet is *)
(* a record of object id, opcode and payload, a sequence of words; its     *)
(* file descriptors travel beside the words.                               *)
(***************************************************************************)
EXTENDS Naturals, Sequences

CONSTANT MaxSize   \* u16::MAX in the code, less when TLC is to reach it

ASSUME MaxSizeAssumption == MaxSize \in 8 .. 65535

WordBytes == 4
HeaderBytes == 8
HeaderWords == 2

Opcodes == 0 .. 65535   \* u16

(* Packet::serialize *)
Size(p) == HeaderBytes + WordBytes * Len(p.payload)
TooLong(p) == Size(p) > MaxSize
SizeAndOpcode(size, opcode) == size * 65536 + opcode
Serialize(p) == <<p.id, SizeAndOpcode(Size(p), p.opcode)>> \o p.payload

(* The second word of a header, as Connection::recv_packet takes it apart: *)
(* `>> 16`, and `& 0xFF`, which keeps 8 of the 16 bits of an opcode.       *)
SizeField(word) == word \div 65536
OpcodeField(word) == word % 256

(* The number of payload words that the header announces. *)
PayloadWords(word) == (SizeField(word) - HeaderBytes) \div WordBytes

=============================================================================
