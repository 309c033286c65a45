---------------------------- MODULE FixedNumbers ----------------------------
(***************************************************************************)
(* fixed.rs: a Fixed is an i32 that counts 256ths (2^-FracBits), with its  *)
(* conversions from and to integers and floating-point numbers.  A         *)
(* conversion that may fail gives a set: of its result, or empty for       *)
(* Err(()).  The widths of the types are parameters.                       *)
(*                                                                         *)
(* A program makes one Fixed, from a number or from the word of a packet,  *)
(* turns it into another type, takes it back from there, and so on.        *)
(***************************************************************************)
EXTENDS Integers

CONSTANTS
    Width,       \* integer type |-> bits, "i32" being that of a Fixed
    Signed,      \* the signed ones
    NarrowTypes, \* those that impl_from_int converts
    Precision,   \* float type |-> significant bits
    FracBits,    \* 8 in the code
    FloatRange   \* bound: the floats considered, see Floats

IntTypes == DOMAIN Width
FloatTypes == DOMAIN Precision
WideTypes == IntTypes \ NarrowTypes  \* those that impl_try_from_int converts
Bits == Width["i32"]

(* 2 ^ k *)
Power[k \in Nat] == IF k = 0 THEN 1 ELSE 2 * Power[k - 1]

(* The floats that have not the bits for every Fixed: f32. *)
ShortFloats == {F \in FloatTypes : Precision[F] < Bits - 1}

ASSUME FixedAssumption ==
    /\ {"i32"} \cup NarrowTypes \subseteq IntTypes
    /\ "i32" \in Signed /\ Signed \subseteq IntTypes
    /\ IntTypes \cap FloatTypes = {}
    /\ {"inner", "unmade"} \cap (IntTypes \cup FloatTypes) = {}
    /\ Width \in [IntTypes -> Nat] /\ Precision \in [FloatTypes -> Nat \ {0}]
    /\ FracBits \in Nat \ {0} /\ FracBits < Bits
    /\ FloatRange \in Nat /\ FloatRange < Power[Bits + 2]  \* for Ulp
    /\ \A T \in NarrowTypes : Width[T] \in 1 .. Bits - FracBits - 1
    /\ \A T \in WideTypes : Width[T] >= Bits
    /\ \A F, G \in ShortFloats : F = G

VARIABLES
    type,    \* the type the Fixed was made from; "inner" for a word
    value,   \* what it was made from, in units of half a fraction bit
    first,   \* history: the inner_value of the Fixed it was made into
    fixed,   \* the inner_value it has now
    target,  \* the type it was turned into
    result   \* the outcome, for a float in the units of value

vars == <<type, value, first, fixed, target, result>>

One == Power[FracBits]

-----------------------------------------------------------------------------
(* Integers: u.. and i.. of so many bits. *)
Values(T) == IF T \in Signed THEN -(Power[Width[T] - 1]) .. Power[Width[T] - 1] - 1
                         ELSE 0 .. Power[Width[T]] - 1

Wrap(T, n) ==
    LET m == n % Power[Width[T]]
    IN  IF T \in Signed /\ m >= Power[Width[T] - 1] THEN m - Power[Width[T]] ELSE m

Greatest == Power[Bits - 1] - 1
Least == -(Power[Bits - 1])

(* Floats: a float of a precision has so many significant bits.  They are  *)
(* taken as multiples of half a fraction bit, of which FloatRange are      *)
(* looked at to either side of 0: those with finer bits fail as the odd    *)
(* multiples do, NaN and the infinities as well (their fract is NaN).      *)
Abs(n) == IF n < 0 THEN -n ELSE n

(* What the last significant bit of a float near n is worth. *)
Ulp(F, n) ==
    LET fits == {k \in 0 .. Bits + 1 : Abs(n) < Power[Precision[F] + k]}
    IN  Power[CHOOSE k \in fits : \A j \in fits : k <= j]

(* `as f32`, `as f64`: to the nearest, ties to even. *)
Round(F, n) ==
    LET ulp == Ulp(F, n)
        down == n \div ulp
        twice == 2 * (n % ulp)
        up == twice > ulp \/ (twice = ulp /\ down % 2 = 1)
    IN  IF up THEN (down + 1) * ulp ELSE down * ulp

Floats(F) == {x \in -FloatRange .. FloatRange : Round(F, x) = x}

-----------------------------------------------------------------------------
(* A mutant: the shift comes before the cast. *)
FromInt_ShiftsFirst(T, v) == {Wrap(T, v * One)}

FromInt(T, v) == {v * One}

(* checked_shl fails only for shifts by the width of the type or more. *)
TryFromInt(T, v) == {Wrap(T, v * One)} \cap Values("i32")

(* A mutant: fractions are cut off, not refused. *)
TryFromFloat_Truncates(F, x) ==
    LET multiplied == x \div 2
    IN  IF multiplied > Round(F, Greatest) \/ multiplied < Round(F, Least)
        THEN {}
        ELSE {IF multiplied > Greatest THEN Greatest ELSE multiplied}

(* The limits are rounded to floats; the cast to i32 saturates. *)
TryFromFloat(F, x) ==
    LET multiplied == x \div 2
    IN  IF \/ x % 2 # 0
           \/ multiplied > Round(F, Greatest) \/ multiplied < Round(F, Least)
        THEN {}
        ELSE {IF multiplied > Greatest THEN Greatest ELSE multiplied}

(* A mutant: a cast, which does not fail. *)
TryIntoInt_Casts(T, n) == IF n % One = 0 THEN {n \div One} ELSE {}

TryIntoInt(T, n) ==
    IF n % One = 0 THEN {n \div One} \cap Values(T) ELSE {}

(* The quotient by 256 is exact. *)
IntoFloat(F, n) == {2 * Round(F, n)}

(* The conversion of v, of type T, to Fixed. *)
ToFixed(T, v) ==
    CASE T \in NarrowTypes -> FromInt(T, v)
      [] T \in WideTypes   -> TryFromInt(T, v)
      [] T \in FloatTypes  -> TryFromFloat(T, v)

-----------------------------------------------------------------------------
Unmade == "unmade"

Init ==
    /\ type = Unmade /\ target = Unmade
    /\ value = 0
    /\ first = {} /\ fixed = {} /\ result = {}

Make(T, v, n) ==
    /\ type = Unmade
    /\ type' = T
    /\ value' = v
    /\ first' = n /\ fixed' = n
    /\ UNCHANGED <<target, result>>

MakeFromInt(T, v) == Make(T, 2 * One * v, ToFixed(T, v))
MakeFromFloat(F, x) == Make(F, x, ToFixed(F, x))

(* from_inner_value, of what PacketReader has read. *)
FromInnerValue(n) == Make("inner", 2 * n, {n})

Convert(T) ==
    /\ result = {}
    /\ \E n \in fixed :
          /\ target' = T
          /\ result' = IF T \in FloatTypes THEN IntoFloat(T, n)
                                           ELSE TryIntoInt(T, n)
    /\ UNCHANGED <<type, value, first, fixed>>

ConvertBack ==
    /\ \E v \in result : fixed' = ToFixed(target, v)
    /\ target' = Unmade /\ result' = {}
    /\ UNCHANGED <<type, value, first>>

Next ==
    \/ \E T \in IntTypes :
          \E v \in Values(T) : MakeFromInt(T, v)
    \/ \E F \in FloatTypes : \E x \in Floats(F) : MakeFromFloat(F, x)
    \/ \E n \in Values("i32") : FromInnerValue(n)
    \/ \E T \in IntTypes \cup FloatTypes : Convert(T)
    \/ ConvertBack

Spec == Init /\ [][Next]_vars

-----------------------------------------------------------------------------
(* A number that a Fixed can hold is never refused and always held as it   *)
(* is, from whichever type it comes.                                       *)
RepresentableKept ==
    type # Unmade =>
       \A n \in Values("i32") : value = 2 * n => first = {n}

(* A float that becomes a Fixed is held as it is, but for one: where the   *)
(* greatest i32 is no float, the power of two above it becomes it.         *)
FloatsKept ==
    type \in FloatTypes =>
       \A n \in first : \/ value = 2 * n
                        \/ /\ n = Greatest /\ value = 2 * (Greatest + 1)
                           /\ Round(type, Greatest) > Greatest

(* However often a Fixed is turned into integers and floats and taken back *)
(* it stays a Fixed, and the same but for one rounding to the shortest of  *)
(* the floats: conversions to integers fail rather than round, roundings   *)
(* do not add up, and what was rounded up beyond the range comes back.     *)
NoDrift ==
    \A n \in first : \E m \in fixed :
       \/ m = n
       \/ \E F \in FloatTypes : 2 * Abs(m - n) <= Ulp(F, n)

(* "24.8": 24 bits of integer; an integer with more of them is refused     *)
(* (`.ok_or(())`), one that becomes a Fixed is held as it is.              *)
IntegersKept ==
    type \in IntTypes => \A n \in first : value = 2 * n

=============================================================================
