--------------------------- MODULE MCFixedNumbers ---------------------------
(* FixedNumbers with a Fixed of 4.2 bits: types of 8, 16, 32 and 64 bits   *)
(* have 2, 3, 6 and 12, an f32 has fewer significant bits than a Fixed, an *)
(* f64 more.                                                               *)
EXTENDS FixedNumbers

Narrow == {"u8", "i8", "u16", "i16"}
SomeSigned == {"i8", "i16", "i32", "i64"}
Widths == [u8 |-> 2, i8 |-> 2, u16 |-> 3, i16 |-> 3,
           u32 |-> 6, i32 |-> 6, u64 |-> 12, i64 |-> 12]
Floats32And64 == [f32 |-> 4, f64 |-> 9]

=============================================================================
