--------------------------- MODULE BindingsProofs ---------------------------
(***************************************************************************)
(* Theorems about the codec and the bindings, for bytes of any number of   *)
(* values and arguments of any value and length.                           *)
(***************************************************************************)
EXTENDS Bindings, FiniteSetTheorems, SequenceTheorems, TLAPS

LEMMA Difference ==
    \A m, i \in Nat : /\ m + i - m = i /\ (i > 0 => ~ (m + i <= m))
                       /\ (i > 0 => m + i \in 1 .. m + i)
OBVIOUS

LEMMA DivMod ==
    ASSUME NEW n \in Nat, NEW b \in Nat \ {0}
    PROVE  /\ n \div b \in Nat /\ n % b \in 0 .. b - 1
           /\ n = b * (n \div b) + (n % b)
OBVIOUS

LEMMA DivBound ==
    ASSUME NEW b \in Nat \ {0}, NEW m \in Nat, NEW n \in Nat, n < b * m
    PROVE  n \div b < m
<1> DEFINE q == n \div b
<1>1. q \in Nat /\ b * q <= n
  <2> DEFINE r == n % b
  <2>1. q \in Nat /\ r \in Nat /\ n = b * q + r
    BY DivMod
  <2>2. b * q \in Nat
    BY <2>1
  <2> HIDE DEF q, r
  <2> QED
    BY <2>1, <2>2
<1> HIDE DEF q
<1>2. SUFFICES ASSUME q >= m PROVE FALSE
  BY <1>1 DEF q
<1>3. b * q >= b * m
  BY <1>1, <1>2
<1> QED
  BY <1>1, <1>3

LEMMA DivStep ==
    ASSUME NEW b \in Nat \ {0}, NEW m \in Nat, NEW n \in Nat, n < b * m
    PROVE  /\ n \div b \in Nat /\ n % b \in Nat
           /\ n = b * (n \div b) + (n % b)
           /\ n \div b < m
<1>1. n \div b < m
  BY DivBound
<1>2. n \div b \in Nat /\ n % b \in 0 .. b - 1
      /\ n = b * (n \div b) + (n % b)
  BY DivMod
<1>3. n % b \in Nat
  BY <1>2
<1> QED
  BY <1>1, <1>2, <1>3

LEMMA ByteSquares ==
    /\ Base * Base \in Nat /\ Base * (Base * Base) \in Nat
    /\ WordModulus = Base * (Base * (Base * Base))
    /\ WordModulus \in Nat \ {0}
BY CodecAssumption DEF WordModulus

LEMMA DigitsAreBytes ==
    ASSUME NEW n \in Nat
    PROVE  Digits(n) \in Seq(Byte) /\ Len(Digits(n)) = 4
<1> DEFINE q == n \div Base
           r == q \div Base
           s == r \div Base
<1>1. Base \in Nat \ {0}
  BY CodecAssumption
<1>2. q \in Nat /\ n % Base \in Byte
  BY <1>1, DivMod DEF Byte
<1> HIDE DEF q
<1>3. r \in Nat /\ q % Base \in Byte
  BY <1>1, <1>2, DivMod DEF Byte
<1> HIDE DEF r
<1>4. s \in Nat /\ r % Base \in Byte
  BY <1>1, <1>3, DivMod DEF Byte
<1> HIDE DEF s
<1>5. s % Base \in Byte
  BY <1>1, <1>4, DivMod DEF Byte
<1>6. Digits(n) = <<n % Base, q % Base, r % Base, s % Base>>
  BY DEF Digits, q, r, s
<1> QED
  BY <1>2, <1>3, <1>4, <1>5, <1>6

(* The four bytes of a word, put together again, are the word. *)
THEOREM NumberOfDigits ==
    ASSUME NEW n \in Words
    PROVE  Number(Digits(n)) = n
<1> DEFINE q == n \div Base
           r == q \div Base
           s == r \div Base
           a == n % Base
           b == q % Base
           c == r % Base
           d == s % Base
           square == Base * Base
           cube == Base * square
<1>1. Base \in Nat \ {0} /\ square \in Nat /\ cube \in Nat
  BY CodecAssumption, ByteSquares
<1>2. n \in Nat /\ n < Base * cube
  BY ByteSquares DEF Words
<1> HIDE DEF cube
<1>3. q \in Nat /\ a \in Nat /\ n = Base * q + a /\ q < cube
  BY <1>1, <1>2, DivStep
<1> HIDE DEF q, a
<1>4. r \in Nat /\ b \in Nat /\ q = Base * r + b /\ r < square
  <2>1. q < Base * square
    BY <1>3 DEF cube
  <2> HIDE DEF square
  <2> QED
    BY <1>1, <1>3, <2>1, DivStep
<1> HIDE DEF r, b
<1>5. s \in Nat /\ c \in Nat /\ r = Base * s + c /\ s < Base
  BY <1>1, <1>4, DivStep
<1> HIDE DEF s, c
<1>6. d = s
  BY <1>1, <1>5
<1> HIDE DEF d
<1>7. Digits(n) = <<a, b, c, d>>
  BY DEF Digits, a, b, c, d, q, r, s
<1>8. Number(<<a, b, c, d>>) = a + Base * (b + Base * (c + Base * d))
  BY DEF Number
<1>9. /\ c + Base * d = r
      /\ b + Base * r = q
      /\ a + Base * q = n
  <2>1. Base * s \in Nat /\ Base * r \in Nat /\ Base * q \in Nat
    BY <1>1, <1>3, <1>4, <1>5
  <2> QED
    BY <1>3, <1>4, <1>5, <1>6, <2>1
<1> QED
  BY <1>7, <1>8, <1>9

-----------------------------------------------------------------------------
(* Reading what lies at the reader. *)

Lies(p, r, bytes) ==
    /\ r.pos + Len(bytes) <= Len(p.payload)
    /\ \A i \in 1 .. Len(bytes) : p.payload[r.pos + i] = bytes[i]

LEMMA LiesAt ==
    ASSUME NEW p \in Packets, NEW r \in Readers, NEW bytes \in Seq(Byte),
           Lies(p, r, bytes)
    PROVE  Fits(p, r, Len(bytes)) /\ At(p, r, Len(bytes)) = bytes
<1> DEFINE payload == p.payload
           pos == r.pos
           n == Len(bytes)
           slice == SubSeq(payload, pos + 1, pos + n)
<1>1. /\ payload \in Seq(Byte) /\ pos \in Nat /\ n \in Nat
      /\ pos + n <= Len(payload)
      /\ \A i \in 1 .. n : payload[pos + i] = bytes[i]
  BY DEF Packets, Readers, Lies
<1>2. Fits(p, r, n) /\ At(p, r, n) = slice
  BY <1>1 DEF Fits, At
<1> HIDE DEF payload, pos, n
<1>3. \A i \in pos + 1 .. pos + n : payload[i] \in Byte
  BY <1>1, ElementOfSeq
<1>4. /\ slice \in Seq(Byte)
      /\ Len(slice) = IF pos + 1 <= pos + n THEN pos + n - (pos + 1) + 1 ELSE 0
      /\ \A i \in 1 .. pos + n - (pos + 1) + 1 :
            slice[i] = payload[pos + 1 + i - 1]
  BY <1>1, <1>3, SubSeqProperties
<1> HIDE DEF slice
<1>5. Len(slice) = n /\ \A i \in 1 .. n : slice[i] = payload[pos + i]
  BY <1>1, <1>4
<1>6. slice = bytes
  <2>1. Len(slice) = Len(bytes) /\ \A i \in 1 .. Len(slice) : slice[i] = bytes[i]
    BY <1>1, <1>5 DEF n
  <2> QED
    BY <1>4, <2>1, SeqEqual
<1> QED
  BY <1>2, <1>6 DEF n

LEMMA SkipReader ==
    ASSUME NEW r \in Readers, NEW n \in Nat
    PROVE  /\ Skip(r, n) \in Readers
           /\ Skip(r, n).pos = r.pos + n /\ Skip(r, n).fdPos = r.fdPos
BY DEF Skip, Readers

LEMMA SkipTwice ==
    ASSUME NEW r \in Readers, NEW m \in Nat, NEW n \in Nat
    PROVE  Skip(Skip(r, m), n) = Skip(r, m + n)
<1>1. r.pos \in Nat /\ r.pos + m + n = r.pos + (m + n) /\ m + n \in Nat
  BY DEF Readers
<1>2. /\ Skip(Skip(r, m), n) \in Readers
      /\ Skip(Skip(r, m), n).pos = r.pos + m + n
      /\ Skip(Skip(r, m), n).fdPos = r.fdPos
  BY SkipReader
<1>3. /\ Skip(r, m + n) \in Readers
      /\ Skip(r, m + n).pos = r.pos + (m + n)
      /\ Skip(r, m + n).fdPos = r.fdPos
  BY <1>1, SkipReader
<1>4. \A x, y \in Readers : x.pos = y.pos /\ x.fdPos = y.fdPos => x = y
  BY DEF Readers
<1> QED
  BY <1>1, <1>2, <1>3, <1>4

LEMMA LiesConcat ==
    ASSUME NEW p \in Packets, NEW r \in Readers,
           NEW a \in Seq(Byte), NEW b \in Seq(Byte), Lies(p, r, a \o b)
    PROVE  Lies(p, r, a) /\ Lies(p, Skip(r, Len(a)), b)
<1> DEFINE payload == p.payload
           pos == r.pos
           m == Len(a)
           n == Len(b)
           ab == a \o b
<1>1. /\ payload \in Seq(Byte) /\ pos \in Nat /\ m \in Nat /\ n \in Nat
      /\ Len(payload) \in Nat
  BY DEF Packets, Readers
<1>2. /\ Len(ab) = m + n
      /\ \A i \in 1 .. m + n : ab[i] = IF i <= m THEN a[i] ELSE b[i - m]
  BY ConcatProperties
<1>3. pos + Len(ab) <= Len(payload)
      /\ \A i \in 1 .. Len(ab) : payload[pos + i] = ab[i]
  BY DEF Lies
<1>4. Skip(r, m).pos = pos + m
  BY <1>1, SkipReader
<1> HIDE DEF payload, pos, m, n, ab
<1>5. pos + m <= Len(payload) /\ \A i \in 1 .. m : payload[pos + i] = a[i]
  BY <1>1, <1>2, <1>3
<1>6. /\ pos + m + n <= Len(payload)
      /\ \A i \in 1 .. n : payload[pos + m + i] = b[i]
  <2>1. pos + m + n <= Len(payload)
    BY <1>1, <1>2, <1>3
  <2>2. ASSUME NEW i \in 1 .. n PROVE payload[pos + m + i] = b[i]
    <3>1. m + i \in 1 .. m + n /\ ~ (m + i <= m) /\ m + i - m = i
          /\ pos + (m + i) = pos + m + i
      BY <1>1
    <3> DEFINE j == m + i
    <3>2. j \in 1 .. Len(ab) /\ j \in 1 .. m + n /\ ~ (j <= m)
      BY <1>2, <3>1
    <3> HIDE DEF j
    <3>3. payload[pos + j] = ab[j]
      BY <1>3, <3>2
    <3>4. ab[j] = b[j - m]
      BY <1>2, <3>2
    <3>5. j - m = i
      BY <3>1, <1>1, Difference DEF j
    <3>6. pos + j = pos + m + i
      BY <3>1 DEF j
    <3> QED
      BY <3>3, <3>4, <3>5, <3>6
  <2> QED
    BY <2>1, <2>2
<1> QED
  BY <1>4, <1>5, <1>6 DEF Lies, payload, pos, m, n

LEMMA UintRead ==
    ASSUME NEW p \in Packets, NEW r \in Readers, NEW n \in Words,
           Lies(p, r, Digits(n))
    PROVE  ReadUint(p, r) = Ok(n, Skip(r, 4))
<1>1. n \in Nat
  BY DEF Words
<1>2. Digits(n) \in Seq(Byte) /\ Len(Digits(n)) = 4
  BY <1>1, DigitsAreBytes
<1>3. Fits(p, r, 4) /\ At(p, r, 4) = Digits(n)
  BY <1>2, LiesAt
<1>4. Number(At(p, r, 4)) = n
  BY <1>3, NumberOfDigits
<1> QED
  BY <1>3, <1>4 DEF ReadUint

LEMMA OkFields ==
    ASSUME NEW v, NEW r
    PROVE  /\ Ok(v, r).error = "none" /\ Ok(v, r).value = v
           /\ Ok(v, r).reader = r
BY DEF Ok

(* A negative number goes as its two's complement. *)
LEMMA IntRead ==
    ASSUME NEW p \in Packets, NEW r \in Readers, NEW n \in Pushable("int"),
           Lies(p, r, Digits(n % WordModulus))
    PROVE  ReadInt(p, r) = Ok(n, Skip(r, 4)) /\ n % WordModulus \in Words
<1> DEFINE w == WordModulus
           u == n % WordModulus
<1>1. n \in Int /\ - w <= 2 * n /\ 2 * n < w /\ w \in Nat \ {0}
  BY ByteSquares DEF Pushable
<1>2. u \in 0 .. w - 1 /\ u = IF n >= 0 THEN n ELSE n + w
  <2> HIDE DEF w
  <2>1. n % w = IF n >= 0 THEN n ELSE n + w
    BY <1>1
  <2>2. (IF n >= 0 THEN n ELSE n + w) \in 0 .. w - 1
    BY <1>1
  <2> QED
    BY <2>1, <2>2 DEF w
<1>3. u \in Words
  BY <1>2 DEF Words
<1>4. Signed(u) = n
  <2>1. Signed(u) = IF 2 * u < w THEN u ELSE u - w
    BY DEF Signed
  <2> HIDE DEF u, w
  <2> QED
    BY <1>1, <1>2, <2>1
<1>5. ReadUint(p, r) = Ok(u, Skip(r, 4))
  BY <1>3, UintRead
<1> QED
  BY <1>3, <1>4, <1>5, OkFields DEF ReadInt

LEMMA PaddingProperties ==
    ASSUME NEW n \in Nat
    PROVE  /\ Padding(n) \in Nat
           /\ (4 + n + Padding(n)) % 4 = 0 /\ (n + Padding(n)) % 4 = 0
BY DEF Padding

LEMMA ZerosAreBytes ==
    ASSUME NEW n \in Nat
    PROVE  Zeros(n) \in Seq(Byte) /\ Len(Zeros(n)) = n
<1>1. 0 \in Byte
  BY CodecAssumption DEF Byte
<1>2. Zeros(n) \in [1 .. n -> Byte]
  BY <1>1 DEF Zeros
<1>3. Zeros(n) \in Seq(Byte)
  BY <1>2, SeqDef
<1>4. DOMAIN Zeros(n) = 1 .. n /\ DOMAIN Zeros(n) = 1 .. Len(Zeros(n))
  BY <1>3, LenProperties DEF Zeros
<1>5. Len(Zeros(n)) \in Nat
  BY <1>3
<1> QED
  BY <1>3, <1>4, <1>5

(* A length, so many bytes and the padding. *)
Padded(a) == Digits(Len(a)) \o a \o Zeros(Padding(Len(a)))

LEMMA PaddedBytes ==
    ASSUME NEW a \in Seq(Byte)
    PROVE  /\ Padded(a) \in Seq(Byte)
           /\ Len(Padded(a)) = 4 + Len(a) + Padding(Len(a))
           /\ Len(Padded(a)) % 4 = 0
<1> DEFINE n == Len(a)
           d == Digits(n)
           z == Zeros(Padding(n))
<1>1. n \in Nat /\ Padding(n) \in Nat /\ (4 + n + Padding(n)) % 4 = 0
  <2>1. n \in Nat
    OBVIOUS
  <2> HIDE DEF n
  <2> QED
    BY <2>1, PaddingProperties
<1>2. d \in Seq(Byte) /\ Len(d) = 4 /\ z \in Seq(Byte) /\ Len(z) = Padding(n)
  BY <1>1, DigitsAreBytes, ZerosAreBytes
<1> HIDE DEF d, z
<1>3. d \o a \o z \in Seq(Byte) /\ Len(d \o a \o z) = Len(d) + n + Len(z)
  <2>1. d \o a \in Seq(Byte) /\ Len(d \o a) = Len(d) + n
    BY <1>2, ConcatProperties
  <2> QED
    BY <1>2, <2>1, ConcatProperties
<1>4. Padded(a) = d \o a \o z
  BY DEF Padded, d, z, n
<1> QED
  BY <1>1, <1>2, <1>3, <1>4

LEMMA ArrayRead ==
    ASSUME NEW p \in Packets, NEW r \in Readers, NEW a \in Seq(Byte),
           Len(a) < WordModulus, Lies(p, r, Padded(a))
    PROVE  ReadArray(p, r) = Ok(a, Skip(r, Len(Padded(a))))
<1> DEFINE n == Len(a)
           d == Digits(n)
           z == Zeros(Padding(n))
           size == n + Padding(n)
<1>1. /\ n \in Nat /\ Padding(n) \in Nat /\ n \in Words
      /\ size \in Nat /\ 4 + size = Len(Padded(a))
  <2>1. n \in Nat /\ Padding(n) \in Nat
    <3>1. n \in Nat
      OBVIOUS
    <3> HIDE DEF n
    <3> QED
      BY <3>1, PaddingProperties
  <2>2. n \in Words
    BY <2>1, ByteSquares DEF Words
  <2>3. Len(Padded(a)) = 4 + n + Padding(n)
    BY PaddedBytes
  <2> QED
    BY <2>1, <2>2, <2>3
<1>2. d \in Seq(Byte) /\ Len(d) = 4 /\ z \in Seq(Byte)
  BY <1>1, DigitsAreBytes, ZerosAreBytes
<1>3. Lies(p, r, d \o a \o z)
  BY DEF Padded
<1> HIDE DEF d, z
<1>4. Lies(p, r, d \o a)
  <2>1. d \o a \in Seq(Byte)
    BY <1>2
  <2> QED
    BY <1>2, <1>3, <2>1, LiesConcat
<1>5. Lies(p, r, d) /\ Lies(p, Skip(r, 4), a)
  BY <1>2, <1>4, LiesConcat
<1>6. ReadUint(p, r) = Ok(n, Skip(r, 4))
  BY <1>1, <1>5, UintRead DEF d
<1>7. Skip(r, 4) \in Readers
  BY SkipReader
<1>8. At(p, Skip(r, 4), n) = a
  BY <1>5, <1>7, LiesAt
<1>9. Fits(p, r, 4 + size)
  BY <1>1 DEF Fits, Lies
<1>10. ReadUint(p, r).error = "none" /\ ReadUint(p, r).value = n
  BY <1>6, OkFields
<1> HIDE DEF n
<1>11. ReadArray(p, r) = Ok(At(p, Skip(r, 4), n), Skip(r, 4 + size))
  BY <1>9, <1>10 DEF ReadArray
<1> QED
  BY <1>1, <1>8, <1>11

(* A string is an array with a NUL at its end. *)
LEMMA StrRead ==
    ASSUME NEW p \in Packets, NEW r \in Readers, NEW s \in Strings
    PROVE  Lies(p, r, Padded(s \o <<0>>)) =>
              ReadStr(p, r) = Ok(s, Skip(r, Len(Padded(s \o <<0>>))))
<1> HAVE Lies(p, r, Padded(s \o <<0>>))
<1> DEFINE a == s \o <<0>>
           m == Len(s)
           n == Len(a)
           end == Skip(r, Len(Padded(a)))
<1>1. 0 \in Byte
  BY CodecAssumption DEF Byte
<1>2. /\ s \in Seq(Byte) /\ m \in Nat /\ m + 1 < WordModulus
      /\ \A i \in 1 .. m : s[i] # 0 /\ s[i] \notin NotUtf8
  <2>1. s \in Seq(Byte \ ({0} \cup NotUtf8)) /\ Len(s) + 1 < WordModulus
    BY DEF Strings
  <2>2. \A i \in 1 .. m : s[i] \in Byte \ ({0} \cup NotUtf8)
    BY <2>1, ElementOfSeq
  <2>3. s \in Seq(Byte)
    BY <2>1, SeqMonotonic
  <2> QED
    BY <2>1, <2>2, <2>3
<1>3. /\ a \in Seq(Byte) /\ n = m + 1 /\ a[n] = 0
      /\ \A i \in 1 .. m : a[i] = s[i]
  <2>1. <<0>> \in Seq(Byte) /\ Len(<<0>>) = 1 /\ <<0>>[1] = 0
    BY <1>1
  <2>2. /\ a \in Seq(Byte) /\ n = m + 1
        /\ \A i \in 1 .. m + 1 : a[i] = IF i <= m THEN s[i] ELSE <<0>>[i - m]
    BY <1>2, <2>1, ConcatProperties
  <2> HIDE DEF a, m
  <2>3. m + 1 \in 1 .. m + 1 /\ ~ (m + 1 <= m) /\ m + 1 - m = 1
    BY <1>2
  <2>4. a[m + 1] = 0
    <3> DEFINE j == m + 1
    <3>1. j \in 1 .. m + 1 /\ ~ (j <= m) /\ j - m = 1
      BY <2>3, <1>2, Difference
    <3> HIDE DEF j
    <3>2. a[j] = <<0>>[j - m]
      BY <2>2, <3>1
    <3>3. a[j] = 0
      BY <2>1, <3>1, <3>2
    <3> QED
      BY <3>3 DEF j
  <2>5. \A i \in 1 .. m : a[i] = s[i]
    BY <1>2, <2>2
  <2> QED
    BY <2>2, <2>4, <2>5
<1>4. ReadArray(p, r) = Ok(a, end)
  BY <1>2, <1>3, ArrayRead
<1> HIDE DEF a, m, n, end
<1>5. {i \in 1 .. n : a[i] = 0} = {n}
  BY <1>2, <1>3
<1>6. SubSeq(a, 1, n - 1) = s
  <2> DEFINE t == SubSeq(a, 1, n - 1)
  <2>1. n - 1 = m /\ 1 \in Int /\ m \in Int
    BY <1>2, <1>3
  <2>2. \A i \in 1 .. m : a[i] \in Byte
    BY <1>2, <1>3, ElementOfSeq DEF m
  <2>3. /\ t \in Seq(Byte) /\ Len(t) = IF 1 <= m THEN m - 1 + 1 ELSE 0
        /\ \A i \in 1 .. m - 1 + 1 : t[i] = a[1 + i - 1]
    BY <2>1, <2>2, SubSeqProperties
  <2> HIDE DEF t
  <2>4. Len(t) = m /\ \A i \in 1 .. m : t[i] = s[i]
    BY <1>2, <1>3, <2>3
  <2>5. t = s
    BY <1>2, <2>3, <2>4, SeqEqual DEF m
  <2> QED
    BY <2>5 DEF t
<1>7. n > 0 /\ n # 0
  BY <1>2, <1>3
<1>8. ~ \E i \in 1 .. n - 1 : s[i] \in NotUtf8
  <2>1. n - 1 = m
    BY <1>2, <1>3
  <2> QED
    BY <1>2, <2>1
<1>9. /\ ReadArray(p, r).error = "none" /\ ReadArray(p, r).value = a
      /\ ReadArray(p, r).reader = end
  BY <1>4, OkFields
<1>10. ReadStr(p, r) = Ok(s, end)
  BY <1>5, <1>6, <1>7, <1>8, <1>9 DEF ReadStr, n
<1> QED
  BY <1>10 DEF end, a

-----------------------------------------------------------------------------
(* What an argument is in a packet: bytes or a descriptor. *)
Bytes(kind, v) ==
    CASE kind \in {"uint", "object", "new_id"} -> Digits(v)
      [] kind \in {"int", "fixed"}             -> Digits(v % WordModulus)
      [] kind = "string"                       -> Padded(v \o <<0>>)
      [] kind = "array"                        -> Padded(v)
      [] kind = "new_object" -> Padded(v.interface \o <<0>>)
                                   \o Digits(v.version) \o Digits(v.id)
      [] kind = "fd"                           -> <<>>
Fds(kind, v) == IF kind = "fd" THEN <<v>> ELSE <<>>

After(r, kind, v) ==
    [pos |-> r.pos + Len(Bytes(kind, v)), fdPos |-> r.fdPos + Len(Fds(kind, v))]

(* Where the next argument comes. *)
End(p) == [pos |-> Len(p.payload), fdPos |-> Len(p.fds)]

(* The argument lies at the reader. *)
LiesIn(p, r, kind, v) ==
    /\ Lies(p, r, Bytes(kind, v))
    /\ kind = "fd" => r.fdPos + 1 <= Len(p.fds) /\ p.fds[r.fdPos + 1] = v

LEMMA StringBytes ==
    ASSUME NEW s \in Strings
    PROVE  s \in Seq(Byte) /\ s \o <<0>> \in Seq(Byte)
<1>1. s \in Seq(Byte)
  <2>1. s \in Seq(Byte \ ({0} \cup NotUtf8)) /\ Byte \ ({0} \cup NotUtf8) \subseteq Byte
    BY DEF Strings
  <2> QED
    BY <2>1, SeqMonotonic
<1>2. <<0>> \in Seq(Byte)
  BY CodecAssumption DEF Byte
<1> QED
  BY <1>1, <1>2, ConcatProperties

LEMMA WordBytes ==
    ASSUME NEW n \in Words
    PROVE  /\ n \in Nat /\ Digits(n) \in Seq(Byte)
           /\ Len(Digits(n)) = 4 /\ Len(Digits(n)) % 4 = 0
<1>1. n \in Nat
  BY DEF Words
<1>2. Digits(n) \in Seq(Byte) /\ Len(Digits(n)) = 4
  BY <1>1, DigitsAreBytes
<1>3. \A m \in Nat : m = 4 => m % 4 = 0
  OBVIOUS
<1> QED
  BY <1>1, <1>2, <1>3

(* A negative number is a word, too. *)
LEMMA IntIsWord ==
    ASSUME NEW n \in Pushable("int")
    PROVE  n % WordModulus \in Words
<1> DEFINE w == WordModulus
<1>1. n \in Int /\ w \in Nat \ {0}
  BY ByteSquares DEF Pushable
<1>2. n % w \in 0 .. w - 1
  <2> HIDE DEF w
  <2> QED
    BY <1>1
<1> QED
  BY <1>2 DEF Words

LEMMA ThreeParts ==
    ASSUME NEW a \in Seq(Byte), NEW b \in Seq(Byte), NEW c \in Seq(Byte)
    PROVE  /\ a \o b \in Seq(Byte) /\ a \o b \o c \in Seq(Byte)
           /\ Len(a \o b) = Len(a) + Len(b)
           /\ Len(a \o b \o c) = Len(a) + Len(b) + Len(c)
           /\ a \o b \o c = a \o (b \o c)
<1>1. a \o b \in Seq(Byte) /\ Len(a \o b) = Len(a) + Len(b)
  BY ConcatProperties
<1>2. a \o b \o c \in Seq(Byte) /\ Len(a \o b \o c) = Len(a \o b) + Len(c)
  BY <1>1, ConcatProperties
<1>3. a \o b \o c = a \o (b \o c)
  BY ConcatAssociative
<1> QED
  BY <1>1, <1>2, <1>3

LEMMA StringParts ==
    ASSUME NEW s \in Strings
    PROVE  /\ s \in Seq(Byte) /\ s \o <<0>> \in Seq(Byte)
           /\ Len(s \o <<0>>) = Len(s) + 1
<1>1. s \in Seq(Byte)
  BY StringBytes
<1>2. <<0>> \in Seq(Byte) /\ Len(<<0>>) = 1
  BY CodecAssumption DEF Byte
<1> QED
  BY <1>1, <1>2, ConcatProperties

(* The bytes of an argument, and that there are whole words of them. *)
LEMMA BytesType ==
    ASSUME NEW kind \in Kinds, NEW v \in Pushable(kind)
    PROVE  /\ Bytes(kind, v) \in Seq(Byte) /\ Len(Bytes(kind, v)) \in Nat
           /\ Len(Bytes(kind, v)) % 4 = 0
           /\ Fds(kind, v) \in Seq(Nat)
<1>1. CASE kind \in {"uint", "object", "new_id"}
  <2>1. v \in Words
    BY <1>1 DEF Pushable
  <2>2. Bytes(kind, v) = Digits(v) /\ Fds(kind, v) = <<>>
    BY <1>1 DEF Bytes, Fds
  <2>3. Digits(v) \in Seq(Byte) /\ Len(Digits(v)) = 4 /\ Len(Digits(v)) % 4 = 0
    BY <2>1, WordBytes
  <2> QED
    BY <2>2, <2>3
<1>2. CASE kind \in {"int", "fixed"}
  <2>1. v \in Pushable("int")
    BY <1>2 DEF Pushable
  <2>2. Bytes(kind, v) = Digits(v % WordModulus) /\ Fds(kind, v) = <<>>
    BY <1>2 DEF Bytes, Fds
  <2>3. v % WordModulus \in Words
    BY <2>1, IntIsWord
  <2> DEFINE u == v % WordModulus
  <2> HIDE DEF u
  <2>4. Digits(u) \in Seq(Byte) /\ Len(Digits(u)) = 4 /\ Len(Digits(u)) % 4 = 0
    BY <2>3, WordBytes DEF u
  <2> QED
    BY <2>2, <2>4 DEF u
<1>3. CASE kind = "string"
  <2>1. v \in Strings
    BY <1>3 DEF Pushable
  <2>2. Bytes(kind, v) = Padded(v \o <<0>>) /\ Fds(kind, v) = <<>>
    BY <1>3 DEF Bytes, Fds
  <2>3. v \o <<0>> \in Seq(Byte)
    BY <2>1, StringParts
  <2>4. /\ Padded(v \o <<0>>) \in Seq(Byte) /\ Len(Padded(v \o <<0>>)) % 4 = 0
    BY <2>3, PaddedBytes
  <2> QED
    BY <2>2, <2>4
<1>4. CASE kind = "array"
  <2>1. v \in Seq(Byte)
    BY <1>4 DEF Pushable
  <2>2. Bytes(kind, v) = Padded(v) /\ Fds(kind, v) = <<>>
    BY <1>4 DEF Bytes, Fds
  <2> QED
    BY <2>1, <2>2, PaddedBytes
<1>5. CASE kind = "new_object"
  <2> DEFINE a == Padded(v.interface \o <<0>>)
             b == Digits(v.version)
             c == Digits(v.id)
  <2>1. v.interface \in Strings /\ v.version \in Words /\ v.id \in Words
    BY <1>5 DEF Pushable
  <2>2. Bytes(kind, v) = a \o b \o c /\ Fds(kind, v) = <<>>
    BY <1>5 DEF Bytes, Fds
  <2>3. a \in Seq(Byte) /\ Len(a) % 4 = 0
    BY <2>1, StringParts, PaddedBytes
  <2>4. b \in Seq(Byte) /\ Len(b) = 4 /\ c \in Seq(Byte) /\ Len(c) = 4
    BY <2>1, WordBytes
  <2> HIDE DEF a, b, c
  <2>5. /\ a \o b \o c \in Seq(Byte)
        /\ Len(a \o b \o c) = Len(a) + Len(b) + Len(c)
    BY <2>3, <2>4, ThreeParts
  <2>6. Len(a) \in Nat /\ (Len(a) + 4 + 4) % 4 = 0
    <3> DEFINE n == Len(a)
    <3>1. n \in Nat /\ n % 4 = 0
      BY <2>3
    <3> HIDE DEF n
    <3>2. (n + 4 + 4) % 4 = 0
      BY <3>1
    <3> QED
      BY <3>1, <3>2 DEF n
  <2> QED
    BY <2>2, <2>4, <2>5, <2>6
<1>6. CASE kind = "fd"
  <2>1. v \in Nat /\ Bytes(kind, v) = <<>> /\ Fds(kind, v) = <<v>>
    BY <1>6 DEF Pushable, Bytes, Fds
  <2> QED
    BY <2>1
<1> QED
  BY <1>1, <1>2, <1>3, <1>4, <1>5, <1>6 DEF Kinds

LEMMA ExtendPacket ==
    ASSUME NEW p \in Packets, NEW b \in Seq(Byte)
    PROVE  /\ Extend(p, b) \in Packets
           /\ Extend(p, b) = [payload |-> p.payload \o b, fds |-> p.fds]
           /\ Extend(p, b).payload = p.payload \o b /\ Extend(p, b).fds = p.fds
<1>1. p.payload \in Seq(Byte) /\ p.fds \in Seq(Nat)
      /\ p = [payload |-> p.payload, fds |-> p.fds]
  BY DEF Packets
<1>2. Extend(p, b) = [payload |-> p.payload \o b, fds |-> p.fds]
  <2> DEFINE a == p.payload
             f == p.fds
             c == a \o b
  <2>1. Extend(p, b) = [p EXCEPT !.payload = c]
    BY DEF Extend
  <2>2. p = [payload |-> a, fds |-> f]
    BY <1>1
  <2> HIDE DEF a, f, c
  <2>3. [[payload |-> a, fds |-> f] EXCEPT !.payload = c]
           = [payload |-> c, fds |-> f]
    OBVIOUS
  <2> QED
    BY <2>1, <2>2, <2>3 DEF a, f, c
<1>3. p.payload \o b \in Seq(Byte)
  BY <1>1, ConcatProperties
<1> QED
  BY <1>1, <1>2, <1>3 DEF Packets

LEMMA PushedString ==
    ASSUME NEW p \in Packets, NEW s \in Strings
    PROVE  PushStr(p, s) = Extend(p, Padded(s \o <<0>>))
<1> DEFINE n == Len(s) + 1
           d == Digits(n)
           z == Zeros(Padding(n))
<1>1. n \in Nat /\ s \in Seq(Byte) /\ <<0>> \in Seq(Byte) /\ Len(s \o <<0>>) = n
  <2>1. s \in Seq(Byte) /\ Len(s \o <<0>>) = Len(s) + 1
    BY StringParts
  <2>2. <<0>> \in Seq(Byte)
    BY CodecAssumption DEF Byte
  <2> QED
    BY <2>1, <2>2
<1>2. d \in Seq(Byte)
  <2> HIDE DEF n
  <2> QED
    BY <1>1, DigitsAreBytes
<1>3. d \o s \o <<0>> = d \o (s \o <<0>>)
  <2> HIDE DEF d
  <2> QED
    BY <1>1, <1>2, ThreeParts
<1>4. Padded(s \o <<0>>) = d \o (s \o <<0>>) \o z
  BY <1>1 DEF Padded
<1>5. PushStr(p, s) = Extend(p, d \o s \o <<0>> \o z)
  BY DEF PushStr
<1> HIDE DEF d, z, n
<1> QED
  BY <1>3, <1>4, <1>5

(* A push puts the argument at the end of the packet. *)
LEMMA PushAppends ==
    ASSUME NEW p \in Packets, NEW kind \in Kinds, NEW v \in Pushable(kind)
    PROVE  Push(p, kind, v) = [payload |-> p.payload \o Bytes(kind, v),
                               fds |-> p.fds \o Fds(kind, v)]
<1>1. /\ p.payload \in Seq(Byte) /\ p.fds \in Seq(Nat)
      /\ p.fds \o <<>> = p.fds /\ p.payload \o <<>> = p.payload
  <2>1. p.payload \in Seq(Byte) /\ p.fds \in Seq(Nat)
    BY DEF Packets
  <2> QED
    BY <2>1, ConcatEmptySeq
<1>2. CASE kind # "fd"
  <2>1. Fds(kind, v) = <<>> /\ Bytes(kind, v) \in Seq(Byte)
    BY <1>2, BytesType DEF Fds
  <2>2. SUFFICES Push(p, kind, v) = Extend(p, Bytes(kind, v))
    BY <1>1, <2>1, ExtendPacket
  <2>3. CASE kind \in {"uint", "object", "new_id"}
    BY <2>3 DEF Push, PushUint, Bytes
  <2>4. CASE kind \in {"int", "fixed"}
    BY <2>4 DEF Push, PushInt, PushUint, Bytes
  <2>5. CASE kind = "string"
    <3>1. v \in Strings
      BY <2>5 DEF Pushable
    <3> QED
      BY <2>5, <3>1, PushedString DEF Push, Bytes
  <2>6. CASE kind = "array"
    BY <2>6 DEF Push, PushArray, Bytes, Padded
  <2>7. CASE kind = "new_object"
    <3> DEFINE s == v.interface \o <<0>>
               a == Padded(s)
               b == Digits(v.version)
               c == Digits(v.id)
               p1 == Extend(p, a)
               p2 == Extend(p1, b)
    <3>1. v.interface \in Strings /\ v.version \in Words /\ v.id \in Words
      BY <2>7 DEF Pushable
    <3>2. a \in Seq(Byte) /\ b \in Seq(Byte) /\ c \in Seq(Byte)
      <4>1. s \in Seq(Byte)
        BY <3>1, StringParts
      <4> HIDE DEF s
      <4> QED
        BY <3>1, <4>1, PaddedBytes, WordBytes
    <3>3. Push(p, kind, v) = Extend(p2, c) /\ Bytes(kind, v) = a \o b \o c
      BY <2>7, <3>1, PushedString DEF Push, PushNewObject, PushUint, Bytes
    <3> HIDE DEF a, b, c
    <3>4. p1 \in Packets /\ p1.payload = p.payload \o a /\ p1.fds = p.fds
      BY <3>2, ExtendPacket
    <3>5. p2 \in Packets /\ p2.payload = p1.payload \o b /\ p2.fds = p1.fds
      <4> HIDE DEF p1
      <4> QED
        BY <3>2, <3>4, ExtendPacket
    <3>6. Extend(p2, c) = [payload |-> p2.payload \o c, fds |-> p2.fds]
      <4> HIDE DEF p2
      <4> QED
        BY <3>2, <3>5, ExtendPacket
    <3>7. Extend(p, a \o b \o c)
             = [payload |-> p.payload \o (a \o b \o c), fds |-> p.fds]
      BY <3>2, ThreeParts, ExtendPacket
    <3>8. p.payload \o a \o b \o c = p.payload \o (a \o b \o c)
      <4>1. p.payload \o a \in Seq(Byte) /\ a \o b \in Seq(Byte)
        BY <1>1, <3>2, ThreeParts
      <4>2. p.payload \o a \o b = p.payload \o (a \o b)
        BY <1>1, <3>2, ThreeParts
      <4>3. p.payload \o (a \o b) \o c = p.payload \o (a \o b \o c)
        BY <1>1, <3>2, <4>1, ThreeParts
      <4> QED
        BY <4>2, <4>3
    <3> HIDE DEF p1, p2
    <3> QED
      BY <3>3, <3>4, <3>5, <3>6, <3>7, <3>8
  <2> QED
    BY <1>2, <2>3, <2>4, <2>5, <2>6, <2>7 DEF Kinds
<1>3. CASE kind = "fd"
  <2>1. v \in Nat /\ Bytes(kind, v) = <<>> /\ Fds(kind, v) = <<v>>
    BY <1>3 DEF Pushable, Bytes, Fds
  <2>2. Push(p, kind, v) = [p EXCEPT !.fds = Append(@, v)]
    BY <1>3 DEF Push, PushFd
  <2>3. Append(p.fds, v) = p.fds \o <<v>>
    BY <1>1, <2>1, AppendIsConcat
  <2>4. p = [payload |-> p.payload, fds |-> p.fds]
    BY DEF Packets
  <2> QED
    BY <1>1, <2>1, <2>2, <2>3, <2>4
<1> QED
  BY <1>2, <1>3

LEMMA AfterReader ==
    ASSUME NEW r \in Readers, NEW kind \in Kinds, NEW v \in Pushable(kind)
    PROVE  /\ After(r, kind, v) \in Readers
           /\ kind # "fd" => After(r, kind, v) = Skip(r, Len(Bytes(kind, v)))
<1> DEFINE b == Len(Bytes(kind, v))
           f == Len(Fds(kind, v))
<1>1. b \in Nat /\ Fds(kind, v) \in Seq(Nat)
  BY BytesType
<1>2. f \in Nat /\ (kind # "fd" => f = 0)
  BY <1>1 DEF Fds
<1>3. After(r, kind, v) = [pos |-> r.pos + b, fdPos |-> r.fdPos + f]
  BY DEF After
<1> HIDE DEF b, f
<1>4. r.pos + b \in Nat /\ r.fdPos + f \in Nat /\ r.fdPos \in Nat
  BY <1>1, <1>2 DEF Readers
<1>5. After(r, kind, v) \in Readers
  BY <1>3, <1>4 DEF Readers
<1>6. ASSUME kind # "fd" PROVE After(r, kind, v) = Skip(r, b)
  <2>1. f = 0 /\ r.fdPos + f = r.fdPos
    BY <1>2, <1>4, <1>6
  <2>2. /\ Skip(r, b) \in Readers
        /\ Skip(r, b).pos = r.pos + b /\ Skip(r, b).fdPos = r.fdPos
    BY <1>1, SkipReader
  <2>3. \A x \in Readers : x = [pos |-> x.pos, fdPos |-> x.fdPos]
    BY DEF Readers
  <2> QED
    BY <1>3, <2>1, <2>2, <2>3
<1> QED
  BY <1>5, <1>6 DEF b

LEMMA WordRead ==
    ASSUME NEW p \in Packets, NEW r \in Readers, NEW n \in Words,
           Lies(p, r, Digits(n))
    PROVE  /\ ReadUint(p, r) = Ok(n, Skip(r, 4))
           /\ n # 0 => ReadNewId(p, r) = Ok(n, Skip(r, 4))
<1>1. ReadUint(p, r) = Ok(n, Skip(r, 4))
  BY UintRead
<1>2. Ok(n, Skip(r, 4)).value = n
  BY OkFields
<1> QED
  BY <1>1, <1>2 DEF ReadNewId

LEMMA NewObjectRead ==
    ASSUME NEW p \in Packets, NEW r \in Readers,
           NEW o \in Pushable("new_object"), Lies(p, r, Bytes("new_object", o))
    PROVE  ReadNewObject(p, r) = Ok(o, Skip(r, Len(Bytes("new_object", o))))
<1> DEFINE i == o.interface
           a == Padded(i \o <<0>>)
           b == Digits(o.version)
           c == Digits(o.id)
           r1 == Skip(r, Len(a))
           r2 == Skip(r1, 4)
<1>1. /\ i \in Strings /\ o.version \in Words /\ o.id \in Words /\ o.id # 0
      /\ o = [interface |-> i, version |-> o.version, id |-> o.id]
  BY DEF Pushable
<1>2. a \in Seq(Byte) /\ Len(a) \in Nat
  <2> DEFINE s == i \o <<0>>
  <2>1. s \in Seq(Byte)
    BY <1>1, StringParts
  <2> HIDE DEF s, i
  <2>2. Padded(s) \in Seq(Byte)
    BY <2>1, PaddedBytes
  <2> QED
    BY <2>2 DEF s
<1>3. b \in Seq(Byte) /\ Len(b) = 4 /\ c \in Seq(Byte) /\ Len(c) = 4
  BY <1>1, WordBytes
<1>4. Bytes("new_object", o) = a \o b \o c
  BY DEF Bytes
<1> HIDE DEF a, b, c, i
<1>5. a \o b \in Seq(Byte) /\ Len(a \o b) = Len(a) + 4
      /\ Len(a \o b \o c) = Len(a) + 4 + 4
  <2>1. a \o b \in Seq(Byte) /\ Len(a \o b) = Len(a) + Len(b)
        /\ Len(a \o b \o c) = Len(a) + Len(b) + Len(c)
    BY <1>2, <1>3, ThreeParts
  <2> QED
    BY <1>2, <1>3, <2>1
<1>6. Lies(p, r, a \o b) /\ Lies(p, Skip(r, Len(a) + 4), c)
  <2>1. Lies(p, r, a \o b) /\ Lies(p, Skip(r, Len(a \o b)), c)
    BY <1>3, <1>4, <1>5, LiesConcat
  <2> QED
    BY <1>5, <2>1
<1>7. Lies(p, r, a) /\ Lies(p, r1, b)
  BY <1>2, <1>3, <1>6, LiesConcat
<1>8. /\ r1 \in Readers /\ r2 \in Readers
      /\ r2 = Skip(r, Len(a) + 4) /\ Skip(r2, 4) = Skip(r, Len(a) + 4 + 4)
  <2>1. r1 \in Readers
    BY <1>2, SkipReader
  <2>2. r2 = Skip(r, Len(a) + 4)
    BY <1>2, SkipTwice
  <2>3. r2 \in Readers
    <3> HIDE DEF r1
    <3> QED
      BY <2>1, SkipReader
  <2>4. Len(a) + 4 \in Nat
    BY <1>2
  <2>5. Skip(Skip(r, Len(a) + 4), 4) = Skip(r, Len(a) + 4 + 4)
    BY <2>4, SkipTwice
  <2> QED
    BY <2>1, <2>2, <2>3, <2>5
<1>9. ReadStr(p, r) = Ok(i, r1)
  BY <1>1, <1>7, StrRead DEF a
<1>10. Lies(p, r2, c)
  BY <1>6, <1>8
<1> HIDE DEF r1, r2
<1>11. ReadUint(p, r1) = Ok(o.version, r2)
  BY <1>1, <1>7, <1>8, WordRead DEF b, r2
<1>12. ReadNewId(p, r2) = Ok(o.id, Skip(r2, 4))
  BY <1>1, <1>8, <1>10, WordRead DEF c
<1>13. ReadNewObject(p, r)
         = Ok([interface |-> i, version |-> o.version, id |-> o.id], Skip(r2, 4))
  <2>1. /\ ReadStr(p, r).error = "none" /\ ReadStr(p, r).value = i
        /\ ReadStr(p, r).reader = r1
    BY <1>9, OkFields
  <2>2. /\ ReadUint(p, r1).error = "none" /\ ReadUint(p, r1).value = o.version
        /\ ReadUint(p, r1).reader = r2
    BY <1>11, OkFields
  <2>3. /\ ReadNewId(p, r2).error = "none" /\ ReadNewId(p, r2).value = o.id
        /\ ReadNewId(p, r2).reader = Skip(r2, 4)
    BY <1>12, OkFields
  <2> QED
    BY <2>1, <2>2, <2>3 DEF ReadNewObject
<1> QED
  BY <1>1, <1>4, <1>5, <1>8, <1>13

(* What lies at the reader is what is read, and no byte of what comes *)
(* after it.                                                          *)
LEMMA ArgumentRead ==
    ASSUME NEW p \in Packets, NEW r \in Readers,
           NEW kind \in Kinds, NEW v \in Pushable(kind), LiesIn(p, r, kind, v)
    PROVE  Read(p, r, kind) = Ok(v, After(r, kind, v))
<1>1. Lies(p, r, Bytes(kind, v))
  BY DEF LiesIn
<1>2. kind # "fd" => After(r, kind, v) = Skip(r, Len(Bytes(kind, v)))
  BY AfterReader
<1>3. CASE kind \in {"uint", "object", "new_id"}
  <2>1. v \in Words /\ (kind = "new_id" => v # 0)
    BY <1>3 DEF Pushable
  <2>2. Bytes(kind, v) = Digits(v) /\ Len(Digits(v)) = 4
    BY <1>3, <2>1, WordBytes DEF Bytes
  <2>3. Lies(p, r, Digits(v)) /\ After(r, kind, v) = Skip(r, 4)
    BY <1>1, <1>2, <1>3, <2>2
  <2>4. /\ ReadUint(p, r) = Ok(v, Skip(r, 4))
        /\ v # 0 => ReadNewId(p, r) = Ok(v, Skip(r, 4))
    BY <2>1, <2>3, WordRead
  <2> QED
    BY <1>3, <2>1, <2>3, <2>4 DEF Read
<1>4. CASE kind \in {"int", "fixed"}
  <2> DEFINE u == v % WordModulus
  <2>1. v \in Pushable("int")
    BY <1>4 DEF Pushable
  <2>2. u \in Words
    BY <2>1, IntIsWord
  <2>3. Bytes(kind, v) = Digits(u)
    BY <1>4 DEF Bytes
  <2>4. ReadInt(p, r) = Ok(v, Skip(r, 4))
    BY <1>1, <2>1, <2>3, IntRead
  <2>5. Len(Digits(u)) = 4
    <3> HIDE DEF u
    <3> QED
      BY <2>2, WordBytes
  <2> HIDE DEF u
  <2>6. After(r, kind, v) = Skip(r, 4)
    BY <1>2, <1>4, <2>3, <2>5
  <2> QED
    BY <1>4, <2>4, <2>6 DEF Read
<1>5. CASE kind = "string"
  <2>1. v \in Strings /\ Bytes(kind, v) = Padded(v \o <<0>>)
    BY <1>5 DEF Pushable, Bytes
  <2> QED
    BY <1>1, <1>2, <1>5, <2>1, StrRead DEF Read
<1>6. CASE kind = "array"
  <2>1. v \in Seq(Byte) /\ Len(v) < WordModulus /\ Bytes(kind, v) = Padded(v)
    BY <1>6 DEF Pushable, Bytes
  <2> QED
    BY <1>1, <1>2, <1>6, <2>1, ArrayRead DEF Read
<1>7. CASE kind = "new_object"
  BY <1>1, <1>2, <1>7, NewObjectRead DEF Read
<1>8. CASE kind = "fd"
  <2> DEFINE n == r.fdPos
  <2>1. n \in Nat /\ Len(p.fds) \in Nat /\ n + 1 <= Len(p.fds)
        /\ p.fds[n + 1] = v /\ r.pos \in Nat
        /\ r = [pos |-> r.pos, fdPos |-> n]
    BY <1>8 DEF LiesIn, Readers, Packets
  <2>2. After(r, kind, v) = [pos |-> r.pos + 0, fdPos |-> n + 1]
    BY <1>8 DEF After, Bytes, Fds
  <2>3. Read(p, r, kind) = ReadFd(p, r)
    BY <1>8 DEF Read
  <2>4. ReadFd(p, r) = Ok(v, [r EXCEPT !.fdPos = n + 1])
    BY <2>1 DEF ReadFd
  <2>5. [r EXCEPT !.fdPos = n + 1] = [pos |-> r.pos, fdPos |-> n + 1]
    BY <2>1
  <2>6. r.pos + 0 = r.pos
    BY <2>1
  <2> QED
    BY <2>2, <2>3, <2>4, <2>5, <2>6
<1> QED
  BY <1>3, <1>4, <1>5, <1>6, <1>7, <1>8 DEF Kinds

-----------------------------------------------------------------------------
(* What lies in a packet stays there when more is pushed. *)
LEMMA PushedType ==
    ASSUME NEW p \in Packets, NEW kind \in Kinds, NEW v \in Pushable(kind)
    PROVE  /\ Push(p, kind, v) \in Packets
           /\ Len(Push(p, kind, v).payload)
                 = Len(p.payload) + Len(Bytes(kind, v))
           /\ Len(Push(p, kind, v).fds) = Len(p.fds) + Len(Fds(kind, v))
           /\ \A i \in 1 .. Len(p.payload) + Len(Bytes(kind, v)) :
                 Push(p, kind, v).payload[i] =
                    IF i <= Len(p.payload) THEN p.payload[i]
                    ELSE Bytes(kind, v)[i - Len(p.payload)]
           /\ \A i \in 1 .. Len(p.fds) + Len(Fds(kind, v)) :
                 Push(p, kind, v).fds[i] =
                    IF i <= Len(p.fds) THEN p.fds[i]
                    ELSE Fds(kind, v)[i - Len(p.fds)]
<1> DEFINE b == Bytes(kind, v)
           f == Fds(kind, v)
<1>1. Push(p, kind, v) = [payload |-> p.payload \o b, fds |-> p.fds \o f]
  BY PushAppends
<1>2. b \in Seq(Byte) /\ f \in Seq(Nat)
  BY BytesType
<1> HIDE DEF b, f
<1>3. p.payload \in Seq(Byte) /\ p.fds \in Seq(Nat)
  BY DEF Packets
<1>4. /\ p.payload \o b \in Seq(Byte)
      /\ Len(p.payload \o b) = Len(p.payload) + Len(b)
      /\ \A i \in 1 .. Len(p.payload) + Len(b) : (p.payload \o b)[i] =
            IF i <= Len(p.payload) THEN p.payload[i] ELSE b[i - Len(p.payload)]
  BY <1>2, <1>3, ConcatProperties
<1>5. /\ p.fds \o f \in Seq(Nat)
      /\ Len(p.fds \o f) = Len(p.fds) + Len(f)
      /\ \A i \in 1 .. Len(p.fds) + Len(f) : (p.fds \o f)[i] =
            IF i <= Len(p.fds) THEN p.fds[i] ELSE f[i - Len(p.fds)]
  BY <1>2, <1>3, ConcatProperties
<1>6. Push(p, kind, v) \in Packets
  BY <1>1, <1>4, <1>5 DEF Packets
<1> QED
  BY <1>1, <1>4, <1>5, <1>6 DEF b, f

LEMMA LiesGrows ==
    ASSUME NEW p \in Packets, NEW kind \in Kinds, NEW v \in Pushable(kind),
           NEW r \in Readers, NEW k \in Kinds, NEW w \in Pushable(k),
           LiesIn(p, r, k, w)
    PROVE  LiesIn(Push(p, kind, v), r, k, w)
<1> DEFINE q == Push(p, kind, v)
           m == Len(p.payload)
           n == Len(Bytes(kind, v))
           f == Len(p.fds)
           g == Len(Fds(kind, v))
           pos == r.pos
           size == Len(Bytes(k, w))
<1>1. /\ Len(q.payload) = m + n /\ Len(q.fds) = f + g
      /\ \A i \in 1 .. m + n : i <= m => q.payload[i] = p.payload[i]
      /\ \A i \in 1 .. f + g : i <= f => q.fds[i] = p.fds[i]
  BY PushedType
<1>2. m \in Nat /\ n \in Nat /\ f \in Nat /\ g \in Nat
  <2>1. Bytes(kind, v) \in Seq(Byte) /\ Fds(kind, v) \in Seq(Nat)
    BY BytesType
  <2>2. p.payload \in Seq(Byte) /\ p.fds \in Seq(Nat)
    BY DEF Packets
  <2> QED
    BY <2>1, <2>2
<1>3. pos \in Nat /\ r.fdPos \in Nat /\ size \in Nat
  BY BytesType DEF Readers
<1>4. /\ pos + size <= m
      /\ \A i \in 1 .. size : p.payload[pos + i] = Bytes(k, w)[i]
      /\ k = "fd" => r.fdPos + 1 <= f /\ p.fds[r.fdPos + 1] = w
  BY DEF LiesIn, Lies
<1> HIDE DEF q, m, n, f, g, pos, size
<1>5. /\ pos + size <= m + n
      /\ \A i \in 1 .. size : q.payload[pos + i] = Bytes(k, w)[i]
  <2>1. ASSUME NEW i \in 1 .. size
        PROVE  q.payload[pos + i] = Bytes(k, w)[i]
    <3>1. pos + i \in 1 .. m + n /\ pos + i <= m
      BY <1>2, <1>3, <1>4
    <3> QED
      BY <1>1, <1>4, <3>1
  <2>2. pos + size <= m + n
    BY <1>2, <1>3, <1>4
  <2> QED
    BY <2>1, <2>2
<1>6. ASSUME k = "fd"
      PROVE  r.fdPos + 1 <= f + g /\ q.fds[r.fdPos + 1] = w
  <2>1. r.fdPos + 1 \in 1 .. f + g /\ r.fdPos + 1 <= f
    BY <1>2, <1>3, <1>4, <1>6
  <2> QED
    BY <1>1, <1>4, <1>6, <2>1
<1> QED
  BY <1>1, <1>5, <1>6 DEF LiesIn, Lies, q, pos, size

LEMMA LiesAtEnd ==
    ASSUME NEW p \in Packets, NEW kind \in Kinds, NEW v \in Pushable(kind)
    PROVE  /\ LiesIn(Push(p, kind, v), End(p), kind, v)
           /\ After(End(p), kind, v) = End(Push(p, kind, v))
           /\ End(p) \in Readers
<1> DEFINE q == Push(p, kind, v)
           m == Len(p.payload)
           b == Bytes(kind, v)
           f == Len(p.fds)
           g == Fds(kind, v)
<1>1. /\ Len(q.payload) = m + Len(b) /\ Len(q.fds) = f + Len(g)
      /\ \A i \in 1 .. m + Len(b) :
            q.payload[i] = IF i <= m THEN p.payload[i] ELSE b[i - m]
      /\ \A i \in 1 .. f + Len(g) :
            q.fds[i] = IF i <= f THEN p.fds[i] ELSE g[i - f]
  BY PushedType
<1>2. m \in Nat /\ f \in Nat /\ b \in Seq(Byte) /\ Len(b) \in Nat
  BY BytesType DEF Packets
<1>3. End(p) = [pos |-> m, fdPos |-> f] /\ End(p).pos = m /\ End(p).fdPos = f
      /\ End(p) \in Readers
  BY <1>2 DEF End, Readers
<1>4. kind = "fd" => g = <<v>> /\ Len(g) = 1 /\ g[1] = v
  BY DEF Fds
<1>5. After(End(p), kind, v) = End(q)
  BY <1>1, <1>3 DEF After, End
<1> HIDE DEF q, m, f, b, g
<1>6. /\ m + Len(b) <= Len(q.payload)
      /\ \A i \in 1 .. Len(b) : q.payload[m + i] = b[i]
  <2>1. ASSUME NEW i \in 1 .. Len(b) PROVE q.payload[m + i] = b[i]
    <3>1. m + i \in 1 .. m + Len(b) /\ ~ (m + i <= m)
      BY <1>2
    <3>2. m + i - m = i
      BY <1>2, Difference
    <3> DEFINE j == m + i
    <3> HIDE DEF j
    <3>3. j \in 1 .. m + Len(b) /\ ~ (j <= m)
      BY <3>1 DEF j
    <3>4. q.payload[j] = b[j - m]
      BY <1>1, <3>3
    <3>5. j - m = i
      BY <1>2, <3>2, Difference DEF j
    <3>6. q.payload[j] = b[i]
      BY <3>4, <3>5
    <3> QED
      BY <3>6 DEF j
  <2> QED
    BY <1>1, <1>2, <2>1
<1>7. ASSUME kind = "fd" PROVE f + 1 <= Len(q.fds) /\ q.fds[f + 1] = v
  <2> DEFINE j == f + 1
  <2>1. j \in 1 .. j /\ ~ (j <= f) /\ j - f = 1 /\ j <= j
    <3>1. 1 \in Nat
      OBVIOUS
    <3> QED
      BY <1>2, <3>1, Difference
  <2>2. Len(g) = 1 /\ g[1] = v /\ f + Len(g) = j
    BY <1>4, <1>7
  <2> HIDE DEF j
  <2>3. q.fds[j] = g[j - f] /\ Len(q.fds) = j
    BY <1>1, <2>1, <2>2
  <2>4. q.fds[j] = v /\ j <= Len(q.fds)
    BY <2>1, <2>2, <2>3
  <2> QED
    BY <2>4 DEF j
<1> QED
  BY <1>3, <1>5, <1>6, <1>7 DEF LiesIn, Lies, q, b

(* Reading where an argument was pushed gives the argument, whatever it is, *)
(* and leaves the reader where the next one will be.                        *)
THEOREM PushedIsRead ==
    ASSUME NEW p \in Packets, NEW kind \in Kinds, NEW v \in Pushable(kind)
    PROVE  Read(Push(p, kind, v), End(p), kind) = Ok(v, End(Push(p, kind, v)))
<1>1. Push(p, kind, v) \in Packets
  BY PushedType
<1> QED
  BY <1>1, LiesAtEnd, ArgumentRead

-----------------------------------------------------------------------------
(* Reading never leaves the payload, whatever is in it. *)
Within(p, r) ==
    r \in Readers /\ r.pos <= Len(p.payload) /\ r.fdPos <= Len(p.fds)

Result(p, r, kind) ==
    /\ Read(p, r, kind).error \in {"none"} \cup Errors
    /\ Within(p, Read(p, r, kind).reader)

LEMMA SliceType ==
    ASSUME NEW p \in Packets, NEW m \in Nat, NEW n \in Nat,
           m + n <= Len(p.payload)
    PROVE  /\ SubSeq(p.payload, m + 1, m + n) \in Seq(Byte)
           /\ Len(SubSeq(p.payload, m + 1, m + n)) = n
<1> DEFINE payload == p.payload
           lo == m + 1
           hi == m + n
<1>1. payload \in Seq(Byte) /\ Len(payload) \in Nat
  BY DEF Packets
<1>2. \A i \in lo .. hi : i \in 1 .. Len(payload)
  BY <1>1
<1>3. lo \in Int /\ hi \in Int /\ (IF lo <= hi THEN hi - lo + 1 ELSE 0) = n
  OBVIOUS
<1> HIDE DEF payload, lo, hi
<1>4. \A i \in lo .. hi : payload[i] \in Byte
  BY <1>1, <1>2, ElementOfSeq
<1>5. /\ SubSeq(payload, lo, hi) \in Seq(Byte)
      /\ Len(SubSeq(payload, lo, hi)) = IF lo <= hi THEN hi - lo + 1 ELSE 0
  BY <1>3, <1>4, SubSeqProperties
<1> QED
  BY <1>3, <1>5 DEF payload, lo, hi

LEMMA UintStays ==
    ASSUME NEW p \in Packets, NEW r, Within(p, r)
    PROVE  /\ ReadUint(p, r).error \in {"none"} \cup Errors
           /\ Within(p, ReadUint(p, r).reader)
           /\ ReadUint(p, r).error = "none" => ReadUint(p, r).value \in Nat
<1>1. r \in Readers /\ r.pos \in Nat /\ Len(p.payload) \in Nat
  BY DEF Within, Readers, Packets
<1>2. CASE Fits(p, r, 4)
  <2>1. ReadUint(p, r) = Ok(Number(At(p, r, 4)), Skip(r, 4))
    BY <1>2 DEF ReadUint
  <2>2. r.pos + 4 <= Len(p.payload)
    BY <1>2 DEF Fits
  <2>3. Within(p, Skip(r, 4))
    BY <1>1, <2>2, SkipReader DEF Within
  <2>4. Number(At(p, r, 4)) \in Nat
    <3> DEFINE s == At(p, r, 4)
    <3>1. s = SubSeq(p.payload, r.pos + 1, r.pos + 4)
      BY DEF At
    <3> HIDE DEF s
    <3>3. s \in Seq(Byte) /\ Len(s) = 4
      <4>1. ASSUME NEW m \in Nat, NEW n \in Nat, m = r.pos, n = 4
            PROVE  /\ SubSeq(p.payload, m + 1, m + n) \in Seq(Byte)
                   /\ Len(SubSeq(p.payload, m + 1, m + n)) = n
        BY <2>2, <4>1, SliceType
      <4> QED
        BY <1>1, <3>1, <4>1
    <3>4. \A i \in 1 .. 4 : s[i] \in Byte
      BY <3>3, ElementOfSeq
    <3>5. s[1] \in Byte /\ s[2] \in Byte /\ s[3] \in Byte /\ s[4] \in Byte
      BY <3>4
    <3>6. Base \in Nat /\ Byte \subseteq Nat
      BY CodecAssumption DEF Byte
    <3>7. \A a, b, c, d \in Nat : a + Base * (b + Base * (c + Base * d)) \in Nat
      <4>1. \A a, b \in Nat : Base * a \in Nat /\ a + b \in Nat
        BY <3>6
      <4> QED
        BY <4>1
    <3>8. Number(s) \in Nat
      BY <3>5, <3>6, <3>7 DEF Number
    <3> QED
      BY <3>8 DEF s
  <2> QED
    BY <2>1, <2>3, <2>4, OkFields
<1>3. CASE ~ Fits(p, r, 4)
  BY <1>3 DEF ReadUint, Err, Errors
<1> QED
  BY <1>2, <1>3

LEMMA ErrFields ==
    ASSUME NEW e, NEW r
    PROVE  Err(e, r).error = e /\ Err(e, r).reader = r
BY DEF Err

LEMMA ArrayStays ==
    ASSUME NEW p \in Packets, NEW r, Within(p, r)
    PROVE  /\ ReadArray(p, r).error \in {"none"} \cup Errors
           /\ Within(p, ReadArray(p, r).reader)
           /\ ReadArray(p, r).error = "none" =>
                 ReadArray(p, r).value \in Seq(Byte)
<1> DEFINE u == ReadUint(p, r)
           n == u.value
           size == n + Padding(n)
           v == At(p, Skip(r, 4), n)
<1>1. r \in Readers /\ r.pos \in Nat /\ Len(p.payload) \in Nat
      /\ p.payload \in Seq(Byte)
  BY DEF Within, Readers, Packets
<1>2. CASE u.error # "none" \/ ~ Fits(p, r, 4 + size)
  <2>1. ReadArray(p, r) = Err("FieldOutOfBounds", r)
    BY <1>2 DEF ReadArray
  <2>2. "FieldOutOfBounds" \in Errors /\ "FieldOutOfBounds" # "none"
    BY DEF Errors
  <2> QED
    BY <2>1, <2>2, ErrFields
<1>3. CASE u.error = "none" /\ Fits(p, r, 4 + size)
  <2>1. ReadArray(p, r) = Ok(v, Skip(r, 4 + size))
    BY <1>3 DEF ReadArray
  <2>2. n \in Nat /\ Padding(n) \in Nat
    <3>1. n \in Nat
      BY <1>3, UintStays
    <3> HIDE DEF n
    <3> QED
      BY <3>1, PaddingProperties
  <2>3. r.pos + (4 + size) <= Len(p.payload)
    BY <1>3 DEF Fits
  <2> HIDE DEF n
  <2>4. 4 + size \in Nat /\ r.pos + 4 + n <= Len(p.payload)
    BY <1>1, <2>2, <2>3
  <2>5. Within(p, Skip(r, 4 + size))
    BY <1>1, <2>3, <2>4, SkipReader DEF Within
  <2>6. v \in Seq(Byte)
    <3>1. Skip(r, 4).pos = r.pos + 4
      BY <1>1, SkipReader
    <3>2. v = SubSeq(p.payload, r.pos + 4 + 1, r.pos + 4 + n)
      BY <3>1 DEF At
    <3> DEFINE m == r.pos + 4
    <3>3. m \in Nat /\ m + n <= Len(p.payload) /\ n \in Nat
      BY <1>1, <2>2, <2>4
    <3>4. v = SubSeq(p.payload, m + 1, m + n)
      BY <3>2
    <3> HIDE DEF m, v
    <3> QED
      BY <3>3, <3>4, SliceType
  <2> QED
    BY <2>1, <2>5, <2>6, OkFields
<1> QED
  BY <1>2, <1>3

LEMMA StrStays ==
    ASSUME NEW p \in Packets, NEW r, Within(p, r)
    PROVE  /\ ReadStr(p, r).error \in {"none"} \cup Errors
           /\ Within(p, ReadStr(p, r).reader)
<1> DEFINE a == ReadArray(p, r)
           n == Len(a.value)
           string == SubSeq(a.value, 1, n - 1)
           nuls == {i \in 1 .. n : a.value[i] = 0}
<1>1. a.error \in {"none"} \cup Errors /\ Within(p, a.reader)
      /\ (a.error = "none" => n \in Nat)
  BY ArrayStays
<1>2. ReadStr(p, r) =
         CASE a.error # "none" -> a
           [] a.error = "none" /\ n = 0 -> Err("EmptyString", a.reader)
           [] a.error = "none" /\ n > 0 ->
                CASE nuls # {n} -> Err("StringMisplacedNul", a.reader)
                  [] nuls = {n} -> IF \E i \in 1 .. n - 1 : string[i] \in NotUtf8
                                   THEN Err("StringInvalidUtf8", a.reader)
                                   ELSE Ok(string, a.reader)
  BY DEF ReadStr
<1> HIDE DEF a, n, string, nuls
<1>3. a.error # "none" \/ n = 0 \/ n > 0
  BY <1>1
<1>4. \/ ReadStr(p, r) = a
      \/ ReadStr(p, r) = Ok(string, a.reader)
      \/ \E e \in Errors : ReadStr(p, r) = Err(e, a.reader)
  <2>1. CASE a.error # "none"
    BY <1>2, <2>1
  <2>2. CASE a.error = "none" /\ n = 0
    <3>1. n = 0 => ~ (n > 0)
      BY <2>2
    <3>2. ReadStr(p, r) = Err("EmptyString", a.reader)
      BY <1>2, <2>2, <3>1
    <3> QED
      BY <3>2 DEF Errors
  <2>3. CASE a.error = "none" /\ n > 0
    <3>1. n # 0
      BY <1>1, <2>3
    <3>2. ReadStr(p, r) =
            CASE nuls # {n} -> Err("StringMisplacedNul", a.reader)
              [] nuls = {n} -> IF \E i \in 1 .. n - 1 : string[i] \in NotUtf8
                               THEN Err("StringInvalidUtf8", a.reader)
                               ELSE Ok(string, a.reader)
      BY <1>2, <2>3, <3>1
    <3>3. "StringMisplacedNul" \in Errors /\ "StringInvalidUtf8" \in Errors
      BY DEF Errors
    <3>4. CASE nuls # {n}
      BY <3>2, <3>3, <3>4
    <3>5. CASE nuls = {n}
      BY <3>2, <3>3, <3>5
    <3> QED
      BY <3>4, <3>5
  <2> QED
    BY <1>3, <2>1, <2>2, <2>3
<1> QED
  BY <1>1, <1>4, OkFields, ErrFields

LEMMA NewIdStays ==
    ASSUME NEW p \in Packets, NEW r, Within(p, r)
    PROVE  /\ ReadNewId(p, r).error \in {"none"} \cup Errors
           /\ Within(p, ReadNewId(p, r).reader)
<1>1. "ZeroObjectId" \in Errors
  BY DEF Errors
<1>2. \/ ReadNewId(p, r) = ReadUint(p, r)
      \/ ReadNewId(p, r) = Err("ZeroObjectId", ReadUint(p, r).reader)
  BY DEF ReadNewId
<1> QED
  BY <1>1, <1>2, UintStays, ErrFields

LEMMA ReadStays ==
    ASSUME NEW p \in Packets, NEW r, Within(p, r), NEW kind \in Kinds
    PROVE  Result(p, r, kind)
<1>1. CASE kind \in {"uint", "object"}
  BY <1>1, UintStays DEF Result, Read
<1>2. CASE kind \in {"int", "fixed"}
  <2> DEFINE u == ReadUint(p, r)
  <2>1. \/ ReadInt(p, r) = u
        \/ ReadInt(p, r) = Ok(Signed(u.value), u.reader)
    BY DEF ReadInt
  <2>2. /\ ReadInt(p, r).error \in {"none"} \cup Errors
        /\ Within(p, ReadInt(p, r).reader)
    BY <2>1, UintStays, OkFields
  <2> QED
    BY <1>2, <2>2 DEF Result, Read
<1>3. CASE kind = "string"
  BY <1>3, StrStays DEF Result, Read
<1>4. CASE kind = "array"
  BY <1>4, ArrayStays DEF Result, Read
<1>5. CASE kind = "new_id"
  BY <1>5, NewIdStays DEF Result, Read
<1>6. CASE kind = "new_object"
  <2> DEFINE i == ReadStr(p, r)
             u == ReadUint(p, i.reader)
             d == ReadNewId(p, u.reader)
             o == [interface |-> i.value, version |-> u.value, id |-> d.value]
  <2>1. \/ ReadNewObject(p, r) = i
        \/ ReadNewObject(p, r) = u
        \/ ReadNewObject(p, r) = d
        \/ ReadNewObject(p, r) = Ok(o, d.reader)
    BY DEF ReadNewObject
  <2>2. i.error \in {"none"} \cup Errors /\ Within(p, i.reader)
    BY StrStays
  <2>3. u.error \in {"none"} \cup Errors /\ Within(p, u.reader)
    <3> HIDE DEF i
    <3> QED
      BY <2>2, UintStays
  <2>4. d.error \in {"none"} \cup Errors /\ Within(p, d.reader)
    <3> HIDE DEF u
    <3> QED
      BY <2>3, NewIdStays
  <2> HIDE DEF i, u, d, o
  <2>5. /\ ReadNewObject(p, r).error \in {"none"} \cup Errors
        /\ Within(p, ReadNewObject(p, r).reader)
    BY <2>1, <2>2, <2>3, <2>4, OkFields
  <2> QED
    BY <1>6, <2>5 DEF Result, Read
<1>7. CASE kind = "fd"
  <2>1. Read(p, r, kind) = ReadFd(p, r)
    BY <1>7 DEF Read
  <2>2. r \in Readers /\ r.fdPos \in Nat /\ Len(p.fds) \in Nat
    BY DEF Within, Readers, Packets
  <2>3. CASE r.fdPos < Len(p.fds)
    <3> DEFINE s == [r EXCEPT !.fdPos = @ + 1]
    <3>1. s \in Readers /\ s.pos = r.pos /\ s.fdPos = r.fdPos + 1
      BY <2>2 DEF Readers
    <3>2. ReadFd(p, r) = Ok(p.fds[r.fdPos + 1], s)
      BY <2>3 DEF ReadFd
    <3> HIDE DEF s
    <3>3. Within(p, s)
      BY <2>2, <2>3, <3>1 DEF Within
    <3> QED
      BY <2>1, <3>2, <3>3, OkFields DEF Result
  <2>4. CASE ~ (r.fdPos < Len(p.fds))
    <3>1. ReadFd(p, r) = Err("FdOutOfBounds", r) /\ "FdOutOfBounds" \in Errors
      BY <2>4 DEF ReadFd, Errors
    <3> QED
      BY <2>1, <3>1, ErrFields DEF Result
  <2> QED
    BY <2>3, <2>4
<1> QED
  BY <1>1, <1>2, <1>3, <1>4, <1>5, <1>6, <1>7 DEF Kinds

-----------------------------------------------------------------------------
(* Types.  Before a packet is read its reader is at the start, so that the *)
(* packet can change without leaving the reader behind its end.            *)
NamesOK ==
    /\ names[1] \in DOMAIN Interfaces
    /\ names[2] \in DOMAIN Table(IF incoming THEN "event_args" ELSE "requests")
    /\ values \in Variants

TypeInv ==
    /\ TypeOK /\ NamesOK
    /\ phase \in {"push", "transit"} => reader = NewReader

LEMMA PushesKinds ==
    ASSUME NamesOK, incoming \in BOOLEAN
    PROVE  Pushes \in Seq(Kinds)
<1>1. CASE incoming
  <2>1. Pushes = Interfaces[names[1]].event_args[names[2]].pushes
    BY <1>1 DEF Pushes, Sent
  <2>2. names[2] \in DOMAIN Interfaces[names[1]].event_args
    BY <1>1 DEF NamesOK, Table
  <2> QED
    BY <2>1, <2>2, BindingsAssumption DEF NamesOK
<1>2. CASE ~ incoming
  <2>1. Pushes = Interfaces[names[1]].requests[names[2]].kinds
    BY <1>2 DEF Pushes, Sent
  <2>2. names[2] \in DOMAIN Interfaces[names[1]].requests
    BY <1>2 DEF NamesOK, Table
  <2> QED
    BY <2>1, <2>2, BindingsAssumption DEF NamesOK
<1> QED
  BY <1>1, <1>2

LEMMA ReaderAtStart ==
    ASSUME NEW p \in Packets
    PROVE  Within(p, NewReader)
<1>1. Len(p.payload) \in Nat /\ Len(p.fds) \in Nat
  BY DEF Packets
<1> QED
  BY <1>1 DEF Within, NewReader, Readers

LEMMA TypeWithin ==
    TypeOK => Within(packet, reader)
BY DEF TypeOK, Within

LEMMA WholeWords ==
    ASSUME NEW m \in Nat, NEW n \in Nat, m % 4 = 0, n % 4 = 0
    PROVE  (m + n) % 4 = 0
OBVIOUS

LEMMA PushKeepsWords ==
    ASSUME NEW p \in Packets, NEW kind \in Kinds, NEW v \in Pushable(kind),
           Len(p.payload) % 4 = 0
    PROVE  /\ Push(p, kind, v) \in Packets
           /\ Len(Push(p, kind, v).payload) % 4 = 0
<1> DEFINE m == Len(p.payload)
           n == Len(Bytes(kind, v))
<1>1. n \in Nat /\ n % 4 = 0 /\ m \in Nat
  <2>1. n \in Nat /\ n % 4 = 0
    BY BytesType
  <2>2. m \in Nat
    BY DEF Packets
  <2> QED
    BY <2>1, <2>2
<1>2. (m + n) % 4 = 0
  <2> HIDE DEF m, n
  <2> QED
    BY <1>1, WholeWords DEF m
<1> QED
  BY <1>2, PushedType

LEMMA InitTyped == Init => TypeInv
<1> SUFFICES ASSUME Init PROVE TypeInv
  OBVIOUS
<1>1. packet \in Packets /\ Len(packet.payload) % 4 = 0
  BY DEF Init, EmptyPacket, Packets
<1>2. reader = NewReader /\ Within(packet, reader)
  BY <1>1, ReaderAtStart DEF Init
<1>3. NamesOK
  <2>1. PICK i \in DOMAIN Interfaces :
           \E n \in DOMAIN IF incoming THEN Interfaces[i].event_args
                                       ELSE Interfaces[i].requests :
              names = <<i, n>>
    BY DEF Init
  <2>2. PICK n \in DOMAIN IF incoming THEN Interfaces[i].event_args
                                      ELSE Interfaces[i].requests :
              names = <<i, n>>
    BY <2>1
  <2>3. names[1] = i /\ names[2] = n
    BY <2>2
  <2>4. values \in Variants
    BY DEF Init
  <2> QED
    BY <2>2, <2>3, <2>4 DEF NamesOK, Table
<1>4. TypeOK
  <2>1. phase = "push" /\ incoming \in BOOLEAN /\ intact = TRUE
        /\ pushed = <<>> /\ unread = <<>>
    BY DEF Init
  <2>2. pushed \in Seq(Kinds \cup {"null"}) /\ unread \in Seq(Kinds)
    BY <2>1
  <2> QED
    BY <1>1, <1>2, <2>1, <2>2 DEF TypeOK, Within
<1> QED
  BY <1>2, <1>3, <1>4 DEF TypeInv

LEMMA NextTyped == TypeInv /\ [Next]_vars => TypeInv'
<1> SUFFICES ASSUME TypeInv, [Next]_vars PROVE TypeInv'
  OBVIOUS
<1>1. /\ TypeOK /\ NamesOK /\ Within(packet, reader)
      /\ packet \in Packets /\ Len(packet.payload) % 4 = 0
      /\ incoming \in BOOLEAN
      /\ pushed \in Seq(Kinds \cup {"null"}) /\ unread \in Seq(Kinds)
      /\ phase \in {"push", "transit", "read"} \cup Outcomes
      /\ phase \in {"push", "transit"} => reader = NewReader
  BY TypeWithin DEF TypeInv, TypeOK
<1>2. ASSUME UNCHANGED <<incoming, names, values>> PROVE NamesOK'
  BY <1>1, <1>2 DEF NamesOK, Table
(* What is left to be shown of a step. *)
<1>3. ASSUME UNCHANGED <<incoming, names, values>>,
             packet' \in Packets, Len(packet'.payload) % 4 = 0,
             Within(packet', reader'),
             pushed' \in Seq(Kinds \cup {"null"}), unread' \in Seq(Kinds),
             phase' \in {"push", "transit", "read"} \cup Outcomes,
             intact' \in BOOLEAN,
             phase' \in {"push", "transit"} => reader' = NewReader
      PROVE  TypeInv'
  <2>1. NamesOK'
    BY <1>2, <1>3
  <2>2. TypeOK'
    BY <1>1, <1>3 DEF TypeOK, Within
  <2> QED
    BY <1>3, <2>1, <2>2 DEF TypeInv
<1>4. intact \in BOOLEAN
  BY <1>1 DEF TypeOK
<1>5. CASE PushNext
  <2> DEFINE kind == Pushes[Len(pushed) + 1]
  <2>1. kind \in Kinds
    <3>1. Pushes \in Seq(Kinds) /\ Len(pushed) \in Nat
      BY <1>1, PushesKinds
    <3>2. Len(pushed) + 1 \in 1 .. Len(Pushes)
      BY <1>5, <3>1 DEF PushNext
    <3> QED
      BY <3>1, <3>2, ElementOfSeq
  <2>2. packet' = Push(packet, kind, values[kind]) /\ pushed' = Append(pushed, kind)
        /\ phase = "push"
        /\ UNCHANGED <<phase, incoming, names, values, intact, unread, reader>>
    BY <1>5 DEF PushNext
  <2> HIDE DEF kind
  <2>3. values[kind] \in Pushable(kind)
    BY <1>1, <2>1, BindingsAssumption DEF NamesOK
  <2>4. packet' \in Packets /\ Len(packet'.payload) % 4 = 0
    BY <1>1, <2>1, <2>2, <2>3, PushKeepsWords
  <2>5. Within(packet', reader') /\ reader' = NewReader
    BY <1>1, <2>2, <2>4, ReaderAtStart
  <2>6. pushed' \in Seq(Kinds \cup {"null"})
    BY <1>1, <2>1, <2>2, AppendProperties
  <2> QED
    BY <1>1, <1>3, <1>4, <2>2, <2>4, <2>5, <2>6
<1>6. CASE PushNull
  <2>1. packet' = PushUint(packet, 0) /\ pushed' = Append(pushed, "null")
        /\ phase = "push"
        /\ UNCHANGED <<phase, incoming, names, values, intact, unread, reader>>
    BY <1>6 DEF PushNull
  <2>2. packet' \in Packets /\ Len(packet'.payload) % 4 = 0
    <3>1. "uint" \in Kinds /\ 0 \in Pushable("uint")
      <4>1. 0 \in Words
        BY ByteSquares DEF Words
      <4> QED
        BY <4>1 DEF Pushable, Kinds
    <3>2. packet' = Push(packet, "uint", 0)
      BY <2>1 DEF Push
    <3> QED
      BY <1>1, <3>1, <3>2, PushKeepsWords
  <2>3. Within(packet', reader') /\ reader' = NewReader
    BY <1>1, <2>1, <2>2, ReaderAtStart
  <2>4. pushed' \in Seq(Kinds \cup {"null"})
    BY <1>1, <2>1, AppendProperties
  <2> QED
    BY <1>1, <1>3, <1>4, <2>1, <2>2, <2>3, <2>4
<1>7. CASE SendPacket
  <2>1. phase' = "transit" /\ phase = "push"
        /\ UNCHANGED <<incoming, names, values, packet, intact, pushed, unread,
                       reader>>
    BY <1>7 DEF SendPacket
  <2> QED
    BY <1>1, <1>3, <1>4, <2>1
<1>8. CASE MisplaceFds
  <2>1. PICK kept \in {<<>>, packet.fds}, strays \in Strays :
           packet' = [packet EXCEPT !.fds = kept \o strays]
    BY <1>8 DEF MisplaceFds
  <2>2. phase = "transit" /\ intact' \in BOOLEAN
        /\ UNCHANGED <<phase, incoming, names, values, pushed, unread, reader>>
    BY <1>8 DEF MisplaceFds
  <2>3. packet.fds \in Seq(Nat) /\ strays \in Seq(Nat) /\ kept \in Seq(Nat)
    <3>1. packet.fds \in Seq(Nat)
      BY <1>1 DEF Packets
    <3>2. <<>> \in Seq(Nat)
      OBVIOUS
    <3>3. strays \in Seq(Nat)
      BY BindingsAssumption
    <3> QED
      BY <3>1, <3>2, <3>3
  <2>4. kept \o strays \in Seq(Nat)
    BY <2>3, ConcatProperties
  <2>5. packet' \in Packets /\ packet'.payload = packet.payload
    BY <1>1, <2>1, <2>4 DEF Packets
  <2>6. Within(packet', reader') /\ reader' = NewReader
    BY <1>1, <2>2, <2>5, ReaderAtStart
  <2> QED
    BY <1>1, <1>3, <2>2, <2>5, <2>6
<1>9. CASE Derail
  <2>1. PICK n \in Cuts :
           /\ n <= Len(packet.payload)
           /\ packet' = [packet EXCEPT !.payload = SubSeq(@, 1, n)]
    BY <1>9 DEF Derail
  <2>2. phase = "transit" /\ intact' = FALSE
        /\ UNCHANGED <<phase, incoming, names, values, pushed, unread, reader>>
    BY <1>9 DEF Derail
  <2>3. n \in Nat /\ n % 4 = 0 /\ packet.payload \in Seq(Byte)
    BY <1>1, BindingsAssumption DEF Packets
  <2> DEFINE cut == SubSeq(packet.payload, 1, n)
  <2>4. cut \in Seq(Byte) /\ Len(cut) = n
    <3>1. 0 \in Nat /\ 0 + 1 = 1 /\ 0 + n = n /\ 0 + n <= Len(packet.payload)
      BY <2>1, <2>3
    <3>2. /\ SubSeq(packet.payload, 0 + 1, 0 + n) \in Seq(Byte)
          /\ Len(SubSeq(packet.payload, 0 + 1, 0 + n)) = n
      BY <1>1, <2>3, <3>1, SliceType
    <3> QED
      BY <3>1, <3>2
  <2> HIDE DEF cut
  <2>5. packet' = [packet EXCEPT !.payload = cut]
    BY <2>1 DEF cut
  <2>6. packet' \in Packets /\ packet'.payload = cut
    BY <1>1, <2>4, <2>5 DEF Packets
  <2>7. Within(packet', reader') /\ reader' = NewReader
    BY <1>1, <2>2, <2>6, ReaderAtStart
  <2> QED
    BY <1>1, <1>3, <2>2, <2>3, <2>4, <2>6, <2>7
<1>10. CASE HandleEvent
  <2>1. UNCHANGED <<incoming, names, values, packet, intact, pushed, reader>>
        /\ phase' \in {"read", "unknown_event"}
    BY <1>10 DEF HandleEvent
  <2>2. unread' \in Seq(Kinds)
    <3>1. CASE \E m \in Arms : unread' = Table("events")[m].kinds
      <4>1. PICK m \in Arms : unread' = Table("events")[m].kinds
        BY <3>1
      <4>2. names[1] \in DOMAIN Interfaces
            /\ m \in DOMAIN Interfaces[names[1]].events
            /\ unread' = Interfaces[names[1]].events[m].kinds
        BY <1>1, <4>1 DEF Arms, Table, NamesOK
      <4> QED
        BY <4>2, BindingsAssumption
    <3>2. CASE UNCHANGED unread
      BY <1>1, <3>2
    <3> QED
      BY <1>10, <3>1, <3>2 DEF HandleEvent
  <2> QED
    BY <1>1, <1>3, <1>4, <2>1, <2>2 DEF Outcomes
<1>11. CASE TryFromPacket
  <2>1. /\ ~ incoming
        /\ unread' = Interfaces[names[1]].request_args[names[2]].reads
        /\ phase' = "read"
        /\ UNCHANGED <<incoming, names, values, packet, intact, pushed, reader>>
    BY <1>11 DEF TryFromPacket, Table
  <2>2. names[1] \in DOMAIN Interfaces
        /\ names[2] \in DOMAIN Interfaces[names[1]].requests
    BY <1>1, <2>1 DEF NamesOK, Table
  <2>3. unread' \in Seq(Kinds)
    BY <2>1, <2>2, BindingsAssumption
  <2> QED
    BY <1>1, <1>3, <1>4, <2>1, <2>3
<1>12. CASE ReadNext
  <2> DEFINE got == Read(packet, reader, Head(unread))
  <2>1. Head(unread) \in Kinds /\ Tail(unread) \in Seq(Kinds)
    BY <1>1, <1>12, HeadTailProperties DEF ReadNext
  <2>2. got.error \in {"none"} \cup Errors /\ Within(packet, got.reader)
    BY <1>1, <2>1, ReadStays DEF Result
  <2>3. /\ phase = "read" /\ reader' = got.reader
        /\ \/ got.error = "none" /\ unread' = Tail(unread) /\ UNCHANGED phase
           \/ got.error # "none" /\ phase' = got.error /\ UNCHANGED unread
        /\ UNCHANGED <<incoming, names, values, packet, intact, pushed>>
    BY <1>12 DEF ReadNext
  <2> HIDE DEF got
  <2>4. phase' \in {"read"} \cup Errors /\ unread' \in Seq(Kinds)
    BY <1>1, <2>1, <2>2, <2>3
  <2>5. ~ (phase' \in {"push", "transit"})
    BY <2>4 DEF Errors
  <2> QED
    BY <1>1, <1>3, <1>4, <2>2, <2>3, <2>4, <2>5 DEF Outcomes
<1>13. CASE Finish
  <2>1. phase' \in {"delivered", "IncompleteRead"}
        /\ UNCHANGED <<incoming, names, values, packet, intact, pushed, unread,
                       reader>>
    BY <1>13 DEF Finish
  <2> QED
    BY <1>1, <1>3, <1>4, <2>1 DEF Outcomes
<1>14. CASE UNCHANGED vars
  BY <1>1, <1>3, <1>4, <1>14 DEF vars
<1> QED
  BY <1>5, <1>6, <1>7, <1>8, <1>9, <1>10, <1>11, <1>12, <1>13, <1>14 DEF Next

(* Whatever happens to a packet on its way, it is whole words and its      *)
(* reader does not leave it.                                               *)
THEOREM BindingsTypeCorrect == Spec => []TypeOK
<1>1. TypeInv => TypeOK
  BY DEF TypeInv
<1> QED
  BY <1>1, InitTyped, NextTyped, PTL DEF Spec

-----------------------------------------------------------------------------
(* The arguments lie in the packet one behind the other: marks are the *)
(* places of the reader before and after each of them.                 *)
Chain(marks) ==
    /\ marks \in [1 .. Len(pushed) + 1 -> Readers]
    /\ marks[1] = NewReader
    /\ marks[Len(pushed) + 1] = End(packet)
    /\ \A i \in 1 .. Len(pushed) :
          /\ LiesIn(packet, marks[i], pushed[i], values[pushed[i]])
          /\ marks[i + 1] = After(marks[i], pushed[i], values[pushed[i]])

(* As many have been read as there are args, and they are the first ones. *)
Progress(marks) ==
    /\ args \in Seq({values[kind] : kind \in Kinds})
    /\ Len(args) <= Len(pushed)
    /\ \A i \in 1 .. Len(args) : args[i] = values[pushed[i]]
    /\ reader = marks[Len(args) + 1]

PushedInOrder ==
    /\ pushed \in Seq(Kinds) /\ Len(pushed) <= Len(Pushes)
    /\ \A i \in 1 .. Len(pushed) : pushed[i] = Pushes[i]

IntactInv ==
    intact /\ ~ WithNull =>
       /\ phase \in {"push", "transit", "read", "delivered"}
       /\ opcode = Sent(names[1], incoming, names[2]).opcode
       /\ PushedInOrder
       /\ phase # "push" => pushed = Pushes
       /\ phase \in {"push", "transit"} => args = <<>>
       /\ phase = "read" =>
             /\ Len(args) + Len(unread) = Len(pushed)
             /\ \A i \in 1 .. Len(unread) : unread[i] = pushed[Len(args) + i]
       /\ phase = "delivered" => Len(args) = Len(pushed)
       /\ \E marks : Chain(marks) /\ Progress(marks)

LEMMA InitIntact == Init => IntactInv
<1> SUFFICES ASSUME Init PROVE IntactInv
  OBVIOUS
<1>1. /\ phase = "push" /\ pushed = <<>> /\ args = <<>> /\ reader = NewReader
      /\ packet = EmptyPacket /\ Len(pushed) = 0 /\ Len(args) = 0
  BY DEF Init
<1>2. TypeInv
  BY InitTyped
<1>3. Pushes \in Seq(Kinds)
  BY <1>2, PushesKinds DEF TypeInv, TypeOK
<1>4. PushedInOrder
  <2>1. Len(Pushes) \in Nat /\ pushed \in Seq(Kinds)
    BY <1>1, <1>3
  <2> QED
    BY <1>1, <2>1 DEF PushedInOrder
<1>5. opcode = Sent(names[1], incoming, names[2]).opcode
  <2>1. PICK i \in DOMAIN Interfaces :
           \E n \in DOMAIN IF incoming THEN Interfaces[i].event_args
                                       ELSE Interfaces[i].requests :
              names = <<i, n>> /\ opcode = Sent(i, incoming, n).opcode
    BY DEF Init
  <2>2. PICK n : names = <<i, n>> /\ opcode = Sent(i, incoming, n).opcode
    BY <2>1
  <2>3. names[1] = i /\ names[2] = n
    BY <2>2
  <2> QED
    BY <2>2, <2>3
<1>6. \E marks : Chain(marks) /\ Progress(marks)
  <2> DEFINE marks == [i \in 1 .. Len(pushed) + 1 |-> NewReader]
  <2>1. /\ marks \in [1 .. Len(pushed) + 1 -> Readers]
        /\ marks[1] = NewReader /\ 0 + 1 = 1
    BY <1>1 DEF NewReader, Readers
  <2>2. End(packet) = NewReader
    BY <1>1 DEF End, EmptyPacket, NewReader
  <2> HIDE DEF marks
  <2>3. Chain(marks)
    BY <1>1, <2>1, <2>2 DEF Chain
  <2>4. args \in Seq({values[kind] : kind \in Kinds})
    BY <1>1
  <2>5. Progress(marks)
    BY <1>1, <2>1, <2>4 DEF Progress
  <2> QED
    BY <2>3, <2>5
<1> QED
  BY <1>1, <1>4, <1>5, <1>6 DEF IntactInv

LEMMA NullStays ==
    ASSUME TypeOK, [Next]_vars
    PROVE  WithNull => WithNull'
<1> SUFFICES ASSUME WithNull PROVE WithNull'
  OBVIOUS
<1>1. pushed \in Seq(Kinds \cup {"null"})
  BY DEF TypeOK
<1>2. PICK i \in 1 .. Len(pushed) : pushed[i] = "null"
  BY <1>1 DEF WithNull
<1>3. \/ pushed' = pushed
      \/ PushNext
      \/ pushed' = Append(pushed, "null")
  BY DEF Next, vars, PushNull, SendPacket, MisplaceFds, Derail, HandleEvent,
         TryFromPacket, ReadNext, Finish
<1>4. \/ pushed' = pushed
      \/ \E x : pushed' = Append(pushed, x)
  BY <1>3 DEF PushNext
<1>5. CASE pushed' = pushed
  BY <1>5 DEF WithNull
<1>6. CASE \E x : pushed' = Append(pushed, x)
  <2>1. PICK x : pushed' = Append(pushed, x)
    BY <1>6
  <2>2. pushed \in Seq(Kinds \cup {"null", x}) /\ x \in Kinds \cup {"null", x}
    BY <1>1, SeqMonotonic
  <2>3. pushed' \in Seq(Kinds \cup {"null", x})
        /\ Len(pushed') = Len(pushed) + 1 /\ pushed'[i] = pushed[i]
    BY <2>1, <2>2, AppendProperties
  <2>4. i \in DOMAIN pushed'
    BY <1>1, <2>3
  <2> QED
    BY <1>2, <2>3, <2>4 DEF WithNull
<1> QED
  BY <1>4, <1>5, <1>6

(* The next argument of a chain of them is read, and nothing else. *)
LEMMA ChainRead ==
    ASSUME TypeInv, PushedInOrder, NEW marks, Chain(marks), Progress(marks),
           Len(args) < Len(pushed)
    PROVE  LET kind == pushed[Len(args) + 1]
           IN  /\ kind \in Kinds /\ values[kind] \in Pushable(kind)
               /\ Read(packet, reader, kind)
                     = Ok(values[kind], marks[Len(args) + 1 + 1])
<1> DEFINE n == Len(args) + 1
           kind == pushed[n]
<1>1. args \in Seq({values[k] : k \in Kinds}) /\ pushed \in Seq(Kinds)
  BY DEF Progress, PushedInOrder
<1>2. n \in 1 .. Len(pushed) /\ n \in 1 .. Len(pushed) + 1
  BY <1>1
<1>3. reader = marks[n]
  BY DEF Progress
<1> HIDE DEF n
<1>4. kind \in Kinds
  BY <1>1, <1>2, ElementOfSeq
<1>5. values[kind] \in Pushable(kind)
  BY <1>4, BindingsAssumption DEF TypeInv, NamesOK
<1>6. marks[n] \in Readers
  BY <1>2 DEF Chain
<1>7. /\ LiesIn(packet, marks[n], kind, values[kind])
      /\ marks[n + 1] = After(marks[n], kind, values[kind])
  BY <1>2 DEF Chain
<1>8. packet \in Packets
  BY DEF TypeInv, TypeOK
<1> HIDE DEF kind
<1>9. Read(packet, reader, kind) = Ok(values[kind], marks[n + 1])
  BY <1>3, <1>4, <1>5, <1>6, <1>7, <1>8, ArgumentRead
<1> QED
  BY <1>4, <1>5, <1>9 DEF n, kind

(* A push lengthens the chain. *)
LEMMA ChainPushed ==
    ASSUME TypeInv, PushedInOrder, NEW marks, Chain(marks),
           NEW kind \in Kinds, packet' = Push(packet, kind, values[kind]),
           pushed' = Append(pushed, kind), values' = values
    PROVE  \E longer : Chain(longer)' /\ longer[1] = marks[1]
<1> DEFINE n == Len(pushed)
<1>0. PICK longer : longer = [i \in 1 .. n + 2 |-> IF i = n + 2 THEN End(packet')
                                                               ELSE marks[i]]
  OBVIOUS
<1>1. /\ packet \in Packets /\ values[kind] \in Pushable(kind)
      /\ pushed \in Seq(Kinds) /\ n \in Nat
  BY BindingsAssumption DEF TypeInv, TypeOK, NamesOK, PushedInOrder
<1>2. /\ Len(pushed') = n + 1 /\ pushed' \in Seq(Kinds)
      /\ pushed'[n + 1] = kind
      /\ \A i \in 1 .. n : pushed'[i] = pushed[i]
  BY <1>1, AppendProperties
<1>3. packet' \in Packets /\ End(packet') \in Readers
  <2>1. packet' \in Packets
    BY <1>1, PushedType
  <2> QED
    BY <2>1 DEF End, Readers, Packets
<1>4. /\ marks \in [1 .. n + 1 -> Readers] /\ marks[1] = NewReader
      /\ marks[n + 1] = End(packet)
      /\ \A i \in 1 .. n :
            /\ LiesIn(packet, marks[i], pushed[i], values[pushed[i]])
            /\ marks[i + 1] = After(marks[i], pushed[i], values[pushed[i]])
  BY DEF Chain
<1> HIDE DEF n
<1>5. /\ longer \in [1 .. n + 2 -> Readers]
      /\ longer[n + 2] = End(packet')
      /\ \A i \in 1 .. n + 1 : longer[i] = marks[i]
  <2>1. \A i \in 1 .. n + 1 : i \in 1 .. n + 2 /\ i # n + 2
    BY <1>1
  <2>2. n + 2 \in 1 .. n + 2 /\ \A i \in 1 .. n + 2 : i # n + 2 => i \in 1 .. n + 1
    BY <1>1
  <2>3. \A i \in 1 .. n + 2 :
           (IF i = n + 2 THEN End(packet') ELSE marks[i]) \in Readers
    BY <1>3, <1>4, <2>2
  <2>4. longer \in [1 .. n + 2 -> Readers]
    BY <1>0, <2>3
  <2> QED
    BY <1>0, <2>1, <2>2, <2>4
<1>6. ASSUME NEW i \in 1 .. n + 1
      PROVE  /\ LiesIn(packet', longer[i], pushed'[i], values[pushed'[i]])
             /\ longer[i + 1] = After(longer[i], pushed'[i], values[pushed'[i]])
  <2>1. CASE i \in 1 .. n
    <3>1. i + 1 \in 1 .. n + 1 /\ i \in 1 .. n + 1
      BY <1>1, <2>1
    <3>2. longer[i] = marks[i] /\ longer[i + 1] = marks[i + 1]
          /\ pushed'[i] = pushed[i] /\ marks[i] \in Readers
      BY <1>2, <1>4, <1>5, <2>1, <3>1
    <3>3. pushed[i] \in Kinds
      BY <1>1, <2>1, ElementOfSeq DEF n
    <3>4. values[pushed[i]] \in Pushable(pushed[i])
      BY <3>3, BindingsAssumption DEF TypeInv, NamesOK
    <3>5. /\ LiesIn(packet, marks[i], pushed[i], values[pushed[i]])
          /\ marks[i + 1] = After(marks[i], pushed[i], values[pushed[i]])
      BY <1>4, <2>1
    <3>6. LiesIn(packet', marks[i], pushed[i], values[pushed[i]])
      BY <1>1, <3>2, <3>3, <3>4, <3>5, LiesGrows
    <3> QED
      BY <3>2, <3>5, <3>6
  <2>2. CASE i = n + 1
    <3>1. i + 1 = n + 2 /\ i \in 1 .. n + 1
      BY <1>1, <2>2
    <3>2. /\ longer[i] = End(packet) /\ longer[i + 1] = End(packet')
          /\ pushed'[i] = kind
      BY <1>2, <1>4, <1>5, <2>2, <3>1
    <3>3. /\ LiesIn(packet', End(packet), kind, values[kind])
          /\ After(End(packet), kind, values[kind]) = End(packet')
      BY <1>1, LiesAtEnd
    <3> QED
      BY <3>2, <3>3
  <2>3. i \in 1 .. n \/ i = n + 1
    BY <1>1
  <2> QED
    BY <2>1, <2>2, <2>3
<1>7. longer[1] = marks[1] /\ 1 \in 1 .. n + 1 /\ n + 1 + 1 = n + 2
  BY <1>1, <1>5
<1>8. Chain(longer)'
  BY <1>2, <1>4, <1>5, <1>6, <1>7 DEF Chain
<1> QED
  BY <1>7, <1>8

(* The arm, or the struct, of the message reads what has been pushed. *)
LEMMA ReadsPushed ==
    ASSUME TablesAgree, TypeInv,
           opcode = Sent(names[1], incoming, names[2]).opcode
    PROVE  /\ incoming => Arms = {names[2]}
                          /\ Table("events")[names[2]].kinds = Pushes
           /\ ~ incoming => Table("request_args")[names[2]].reads = Pushes
<1>1. names[1] \in DOMAIN Interfaces
  BY DEF TypeInv, NamesOK
<1> DEFINE i == Interfaces[names[1]]
<1>2. ASSUME incoming
      PROVE  Arms = {names[2]} /\ Table("events")[names[2]].kinds = Pushes
  <2>1. names[2] \in DOMAIN i.event_args
    BY <1>2 DEF TypeInv, NamesOK, Table
  <2>2. /\ names[2] \in DOMAIN i.events
        /\ i.events[names[2]].opcode = i.event_args[names[2]].opcode
        /\ i.events[names[2]].kinds = i.event_args[names[2]].pushes
        /\ \A m \in DOMAIN i.events :
              i.events[m].opcode = i.events[names[2]].opcode => m = names[2]
    BY <1>1, <2>1 DEF TablesAgree
  <2>3. /\ opcode = i.event_args[names[2]].opcode
        /\ Pushes = i.event_args[names[2]].pushes
    BY <1>2 DEF Sent, Pushes
  <2>4. Arms = {m \in DOMAIN i.events : i.events[m].opcode = opcode}
    BY DEF Arms, Table
  <2> QED
    BY <2>2, <2>3, <2>4 DEF Table
<1>3. ASSUME ~ incoming
      PROVE  Table("request_args")[names[2]].reads = Pushes
  <2>1. names[2] \in DOMAIN i.requests
    BY <1>3 DEF TypeInv, NamesOK, Table
  <2>2. i.request_args[names[2]].reads = i.requests[names[2]].kinds
    BY <1>1, <2>1 DEF TablesAgree
  <2>3. Pushes = i.requests[names[2]].kinds
    BY <1>3 DEF Sent, Pushes
  <2> QED
    BY <2>2, <2>3 DEF Table
<1> QED
  BY <1>2, <1>3

LEMMA NextIntact ==
    ASSUME TablesAgree, TypeInv, TypeInv', IntactInv, [Next]_vars
    PROVE  IntactInv'
<1> SUFFICES ASSUME intact', ~ WithNull' PROVE IntactInv'
  BY DEF IntactInv
<1>1. ~ WithNull
  BY NullStays DEF TypeInv
<1>2. intact
  <2>1. ASSUME ~ intact PROVE ~ intact'
    BY <2>1 DEF Next, vars, PushNext, PushNull, SendPacket, MisplaceFds, Derail,
         HandleEvent, TryFromPacket, ReadNext, Finish
  <2> QED
    BY <2>1
<1>3. /\ phase \in {"push", "transit", "read", "delivered"}
      /\ opcode = Sent(names[1], incoming, names[2]).opcode
      /\ PushedInOrder
      /\ phase # "push" => pushed = Pushes
      /\ phase \in {"push", "transit"} => args = <<>>
      /\ phase = "read" =>
            /\ Len(args) + Len(unread) = Len(pushed)
            /\ \A i \in 1 .. Len(unread) : unread[i] = pushed[Len(args) + i]
      /\ phase = "delivered" => Len(args) = Len(pushed)
      /\ \E marks : Chain(marks) /\ Progress(marks)
  BY <1>1, <1>2 DEF IntactInv
<1>4. PICK marks : Chain(marks) /\ Progress(marks)
  BY <1>3
<1>5. /\ pushed \in Seq(Kinds) /\ Pushes \in Seq(Kinds) /\ unread \in Seq(Kinds)
      /\ Len(pushed) <= Len(Pushes)
      /\ \A i \in 1 .. Len(pushed) : pushed[i] = Pushes[i]
  BY <1>3, PushesKinds DEF PushedInOrder, TypeInv, TypeOK
<1>6. ASSUME UNCHANGED <<names, incoming>> PROVE Pushes' = Pushes
  BY <1>6 DEF Pushes, Sent
(* The steps that change none of what the chain is made of. *)
<1>7. ASSUME UNCHANGED <<packet, pushed, values, names, incoming, opcode>>
      PROVE  /\ Chain(marks)' /\ PushedInOrder'
             /\ opcode' = Sent(names[1], incoming, names[2]).opcode'
  BY <1>3, <1>4, <1>6, <1>7 DEF Chain, PushedInOrder, Sent
<1>8. ASSUME UNCHANGED <<packet, pushed, values, names, incoming, opcode,
                         reader, args>>
      PROVE  /\ Chain(marks)' /\ Progress(marks)' /\ PushedInOrder'
             /\ opcode' = Sent(names[1], incoming, names[2]).opcode'
  BY <1>4, <1>7, <1>8 DEF Progress
<1>9. CASE PushNext
  <2> DEFINE kind == Pushes[Len(pushed) + 1]
  <2>1. /\ phase = "push" /\ Len(pushed) < Len(Pushes)
        /\ packet' = Push(packet, kind, values[kind])
        /\ pushed' = Append(pushed, kind)
        /\ UNCHANGED <<phase, incoming, names, values, opcode, unread, reader,
                       args>>
    BY <1>9 DEF PushNext
  <2>2. kind \in Kinds
    <3>1. Len(pushed) + 1 \in 1 .. Len(Pushes)
      BY <1>5, <2>1
    <3> QED
      BY <1>5, <3>1, ElementOfSeq
  <2>3. PushedInOrder'
    <3> HIDE DEF kind
    <3>1. /\ pushed' \in Seq(Kinds) /\ Len(pushed') = Len(pushed) + 1
          /\ pushed'[Len(pushed) + 1] = kind
          /\ \A i \in 1 .. Len(pushed) : pushed'[i] = pushed[i]
      BY <1>5, <2>1, <2>2, AppendProperties
    <3>2. Len(pushed') <= Len(Pushes)
      BY <1>5, <2>1, <3>1
    <3>3. ASSUME NEW i \in 1 .. Len(pushed') PROVE pushed'[i] = Pushes[i]
      <4>1. i \in 1 .. Len(pushed) \/ i = Len(pushed) + 1
        BY <1>5, <3>1
      <4> QED
        BY <1>5, <3>1, <4>1 DEF kind
    <3> QED
      BY <1>6, <2>1, <3>1, <3>2, <3>3 DEF PushedInOrder
  <2> HIDE DEF kind
  <2>4. PICK longer : Chain(longer)' /\ longer[1] = marks[1]
    BY <1>3, <1>4, <2>1, <2>2, ChainPushed
  <2>5. Progress(longer)'
    <3>1. args = <<>> /\ Len(args) = 0 /\ 0 + 1 = 1 /\ reader = marks[1]
      BY <1>3, <1>4, <2>1 DEF Progress
    <3>2. Len(pushed') \in Nat
      BY <2>3 DEF PushedInOrder
    <3>3. args \in Seq({values[k] : k \in Kinds})
      BY <1>4 DEF Progress
    <3>4. args' \in Seq({values'[k] : k \in Kinds}) /\ Len(args') <= Len(pushed')
      BY <2>1, <3>1, <3>2, <3>3
    <3>5. reader' = longer[Len(args') + 1]
      BY <2>1, <2>4, <3>1
    <3>6. \A i \in 1 .. Len(args') : args'[i] = values'[pushed'[i]]
      BY <2>1, <3>1
    <3> QED
      BY <3>4, <3>5, <3>6 DEF Progress
  <2>6. opcode' = Sent(names[1], incoming, names[2]).opcode'
    BY <1>3, <2>1 DEF Sent
  <2> QED
    BY <1>3, <2>1, <2>3, <2>4, <2>5, <2>6 DEF IntactInv
<1>10. CASE PushNull
  <2>1. pushed' = Append(pushed, "null")
    BY <1>10 DEF PushNull
  <2>2. pushed \in Seq(Kinds \cup {"null"})
    BY DEF TypeInv, TypeOK
  <2>3. /\ pushed' \in Seq(Kinds \cup {"null"}) /\ Len(pushed') = Len(pushed) + 1
        /\ pushed'[Len(pushed) + 1] = "null"
    BY <2>1, <2>2, AppendProperties
  <2>4. Len(pushed) + 1 \in DOMAIN pushed'
    BY <2>2, <2>3
  <2> QED
    BY <2>3, <2>4 DEF WithNull
<1>11. CASE SendPacket
  <2>1. /\ phase = "push" /\ Len(pushed) = Len(Pushes) /\ phase' = "transit"
        /\ UNCHANGED <<incoming, names, values, opcode, packet, pushed, unread,
                       reader, args>>
    BY <1>11 DEF SendPacket
  <2>2. pushed = Pushes
    BY <1>5, <2>1, SeqEqual
  <2>3. pushed' = Pushes' /\ args' = <<>>
    BY <1>3, <1>6, <2>1, <2>2
  <2> QED
    BY <1>8, <2>1, <2>3 DEF IntactInv
<1>12. CASE MisplaceFds
  <2>1. /\ packet' = packet /\ phase = "transit"
        /\ UNCHANGED <<phase, incoming, names, values, opcode, pushed, unread,
                       reader, args>>
    BY <1>12 DEF MisplaceFds
  <2>2. pushed' = Pushes' /\ args' = <<>>
    BY <1>3, <1>6, <2>1
  <2> QED
    BY <1>8, <2>1, <2>2 DEF IntactInv
<1>13. CASE Derail
  BY <1>13 DEF Derail
<1>14. CASE HandleEvent
  <2>1. /\ phase = "transit" /\ incoming
        /\ UNCHANGED <<incoming, names, values, opcode, packet, pushed, reader,
                       args>>
    BY <1>14 DEF HandleEvent
  <2>2. Arms = {names[2]} /\ Table("events")[names[2]].kinds = Pushes
    BY <1>3, <2>1, ReadsPushed
  <2>3. unread' = Pushes /\ phase' = "read"
    BY <1>14, <2>2 DEF HandleEvent
  <2>4. args' = <<>> /\ pushed' = Pushes /\ pushed' = Pushes' /\ Len(args') = 0
    BY <1>3, <1>6, <2>1
  <2>5. \A i \in 1 .. Len(unread') : 0 + i = i
    BY <1>5, <2>3
  <2>6. /\ Len(args') + Len(unread') = Len(pushed')
        /\ \A i \in 1 .. Len(unread') : unread'[i] = pushed'[Len(args') + i]
    BY <1>5, <2>3, <2>4, <2>5
  <2> QED
    BY <1>8, <2>1, <2>3, <2>4, <2>6 DEF IntactInv
<1>15. CASE TryFromPacket
  <2>1. /\ phase = "transit" /\ ~ incoming /\ phase' = "read"
        /\ unread' = Table("request_args")[names[2]].reads
        /\ UNCHANGED <<incoming, names, values, opcode, packet, pushed, reader,
                       args>>
    BY <1>15 DEF TryFromPacket
  <2>2. unread' = Pushes
    BY <1>3, <2>1, ReadsPushed
  <2>3. args' = <<>> /\ pushed' = Pushes /\ pushed' = Pushes' /\ Len(args') = 0
    BY <1>3, <1>6, <2>1
  <2>4. \A i \in 1 .. Len(unread') : 0 + i = i
    BY <1>5, <2>2
  <2>5. /\ Len(args') + Len(unread') = Len(pushed')
        /\ \A i \in 1 .. Len(unread') : unread'[i] = pushed'[Len(args') + i]
    BY <1>5, <2>2, <2>3, <2>4
  <2> QED
    BY <1>8, <2>1, <2>3, <2>5 DEF IntactInv
<1>16. CASE ReadNext
  <2> DEFINE n == Len(args)
             kind == pushed[n + 1]
             value == values[kind]
             Values == {values[k] : k \in Kinds}
  <2>1. /\ phase = "read" /\ unread # <<>>
        /\ UNCHANGED <<incoming, names, values, opcode, packet, pushed>>
    BY <1>16 DEF ReadNext
  <2>2. /\ args \in Seq(Values) /\ n \in Nat /\ n <= Len(pushed)
        /\ \A i \in 1 .. n : args[i] = values[pushed[i]]
    BY <1>4 DEF Progress
  <2>3. /\ n + Len(unread) = Len(pushed)
        /\ \A i \in 1 .. Len(unread) : unread[i] = pushed[n + i]
    BY <1>3, <2>1
  <2>4. /\ Head(unread) \in Kinds /\ Tail(unread) \in Seq(Kinds)
        /\ Len(Tail(unread)) = Len(unread) - 1 /\ Len(unread) \in Nat \ {0}
        /\ Head(unread) = unread[1]
        /\ \A i \in 1 .. Len(Tail(unread)) : Tail(unread)[i] = unread[i + 1]
    BY <1>5, <2>1, HeadTailProperties
  <2>5. n < Len(pushed) /\ Head(unread) = kind
    BY <2>2, <2>3, <2>4
  <2>6. /\ kind \in Kinds
        /\ Read(packet, reader, kind) = Ok(value, marks[n + 1 + 1])
    BY <1>3, <1>4, <2>5, ChainRead
  <2>7. /\ reader' = marks[n + 1 + 1] /\ phase' = phase
        /\ unread' = Tail(unread) /\ args' = Append(args, value)
    BY <1>16, <2>5, <2>6, OkFields DEF ReadNext
  <2> HIDE DEF n, kind, value
  <2>8. value \in Values
    BY <2>6 DEF value
  <2> HIDE DEF Values
  <2>9. /\ args' \in Seq(Values) /\ Len(args') = n + 1 /\ args'[n + 1] = value
        /\ \A i \in 1 .. n : args'[i] = args[i]
    BY <2>2, <2>7, <2>8, AppendProperties DEF n
  <2>10. ASSUME NEW i \in 1 .. Len(args') PROVE args'[i] = values[pushed[i]]
    <3>1. i \in 1 .. n \/ i = n + 1
      BY <2>2, <2>9
    <3> QED
      BY <2>2, <2>9, <3>1 DEF value, kind
  <2>11. Len(args') <= Len(pushed)
    BY <1>5, <2>2, <2>5, <2>9
  <2>12. Progress(marks)'
    <3>1. Values = {values'[k] : k \in Kinds}
      BY <2>1 DEF Values
    <3> QED
      BY <2>1, <2>7, <2>9, <2>10, <2>11, <3>1 DEF Progress
  <2>13. Len(args') + Len(unread') = Len(pushed')
    <3>1. n + 1 + (Len(unread) - 1) = n + Len(unread)
      BY <2>2, <2>4
    <3> QED
      BY <2>1, <2>3, <2>4, <2>7, <2>9, <3>1
  <2>14. ASSUME NEW i \in 1 .. Len(unread')
         PROVE  unread'[i] = pushed'[Len(args') + i]
    <3>1. i + 1 \in 1 .. Len(unread) /\ n + (i + 1) = n + 1 + i
          /\ i \in 1 .. Len(Tail(unread))
      BY <2>2, <2>4, <2>7
    <3>2. unread'[i] = pushed[n + (i + 1)]
      BY <2>3, <2>4, <2>7, <3>1
    <3> QED
      BY <2>1, <2>9, <3>1, <3>2
  <2>15. pushed' = Pushes'
    BY <1>3, <1>6, <2>1
  <2> QED
    BY <1>7, <2>1, <2>7, <2>12, <2>13, <2>14, <2>15 DEF IntactInv
<1>17. CASE Finish
  <2>1. /\ phase = "read" /\ unread = <<>>
        /\ phase' = IF AllRead(packet, reader) THEN "delivered"
                                               ELSE "IncompleteRead"
        /\ UNCHANGED <<incoming, names, values, opcode, packet, pushed, unread,
                       reader, args>>
    BY <1>17 DEF Finish
  <2>2. Len(args) = Len(pushed)
    <3>1. Len(args) + Len(unread) = Len(pushed) /\ Len(unread) = 0
      BY <1>3, <2>1
    <3>2. Len(args) \in Nat
      BY <1>4 DEF Progress
    <3> QED
      BY <3>1, <3>2
  <2>3. reader = End(packet)
    BY <1>4, <2>2 DEF Progress, Chain
  <2>4. AllRead(packet, reader)
    <3>1. packet \in Packets
      BY DEF TypeInv, TypeOK
    <3>2. Len(packet.payload) \in Nat /\ Len(packet.fds) \in Nat
      BY <3>1 DEF Packets
    <3> QED
      BY <2>3, <3>2 DEF AllRead, End
  <2>5. phase' = "delivered" /\ Len(args') = Len(pushed') /\ pushed' = Pushes'
    BY <1>3, <1>6, <2>1, <2>2, <2>4
  <2> QED
    BY <1>8, <2>1, <2>5 DEF IntactInv
<1>18. CASE UNCHANGED vars
  <2>1. UNCHANGED <<phase, incoming, names, values, opcode, packet, pushed,
                    unread, reader, args>>
    BY <1>18 DEF vars
  <2>2. Pushes' = Pushes
    BY <1>6, <2>1
  <2> QED
    BY <1>3, <1>8, <2>1, <2>2 DEF IntactInv
<1> QED
  BY <1>9, <1>10, <1>11, <1>12, <1>13, <1>14, <1>15, <1>16, <1>17, <1>18 DEF Next

(* For bindings of any protocol whose two sides agree, with bytes of any   *)
(* number of values and arguments of any value and length: what arrives as *)
(* it was sent, and without a NULL, is delivered with its arguments.       *)
THEOREM BindingsIntactArrives ==
    ASSUME TablesAgree
    PROVE  Spec => []IntactArrives
<1>1. IntactInv => IntactArrives
  <2> SUFFICES ASSUME IntactInv, intact, ~ WithNull
               PROVE  /\ phase \in {"push", "transit", "read", "delivered"}
                      /\ args = [i \in DOMAIN args |-> values[pushed[i]]]
                      /\ phase = "delivered" => Len(args) = Len(pushed)
    BY DEF IntactArrives
  <2>1. PICK marks : Chain(marks) /\ Progress(marks)
    BY DEF IntactInv
  <2>2. /\ args \in Seq({values[kind] : kind \in Kinds})
        /\ \A i \in 1 .. Len(args) : args[i] = values[pushed[i]]
    BY <2>1 DEF Progress
  <2>3. args = [i \in DOMAIN args |-> args[i]] /\ DOMAIN args = 1 .. Len(args)
    BY <2>2
  <2>4. args = [i \in DOMAIN args |-> values[pushed[i]]]
    BY <2>2, <2>3
  <2> QED
    BY <2>4 DEF IntactInv
<1>2. TypeInv /\ IntactInv /\ [Next]_vars => TypeInv' /\ IntactInv'
  BY NextTyped, NextIntact
<1>3. Init => TypeInv /\ IntactInv
  BY InitTyped, InitIntact
<1> QED
  BY <1>1, <1>2, <1>3, PTL DEF Spec

-----------------------------------------------------------------------------
(* What is read from a packet that may have been cut short: the payload    *)
(* agrees with the bytes as far as it goes.                                *)
Starts(p, r, bytes) ==
    \A i \in 1 .. Len(bytes) :
       r.pos + i <= Len(p.payload) => p.payload[r.pos + i] = bytes[i]

(* Bytes that are all there lie there. *)
LEMMA StartsFits ==
    ASSUME NEW p \in Packets, NEW r \in Readers, NEW bytes \in Seq(Byte),
           Starts(p, r, bytes), Fits(p, r, Len(bytes))
    PROVE  Lies(p, r, bytes)
<1> DEFINE pos == r.pos
           n == Len(bytes)
           size == Len(p.payload)
<1>1. /\ pos \in Nat /\ n \in Nat /\ size \in Nat /\ pos + n <= size
      /\ \A i \in 1 .. n : pos + i <= size => p.payload[pos + i] = bytes[i]
  BY DEF Packets, Readers, Starts, Fits
<1> HIDE DEF pos, n, size
<1>2. \A i \in 1 .. n : pos + i <= size
  BY <1>1
<1>3. \A i \in 1 .. n : p.payload[pos + i] = bytes[i]
  BY <1>1, <1>2
<1> QED
  BY <1>1, <1>3 DEF Lies, pos, n, size

(* Bytes that lie there start there. *)
LEMMA LiesStarts ==
    ASSUME NEW p, NEW r, NEW bytes, Lies(p, r, bytes)
    PROVE  Starts(p, r, bytes)
BY DEF Lies, Starts

(* What starts there starts with its first part, the rest behind it. *)
LEMMA StartsConcat ==
    ASSUME NEW p \in Packets, NEW r \in Readers,
           NEW a \in Seq(Byte), NEW b \in Seq(Byte), Starts(p, r, a \o b)
    PROVE  Starts(p, r, a) /\ Starts(p, Skip(r, Len(a)), b)
<1> DEFINE payload == p.payload
           pos == r.pos
           m == Len(a)
           n == Len(b)
           ab == a \o b
           size == Len(payload)
<1>1. pos \in Nat /\ m \in Nat /\ n \in Nat /\ size \in Nat
  BY DEF Packets, Readers
<1>2. /\ Len(ab) = m + n
      /\ \A i \in 1 .. m + n : ab[i] = IF i <= m THEN a[i] ELSE b[i - m]
  BY ConcatProperties
<1>3. \A i \in 1 .. Len(ab) : pos + i <= size => payload[pos + i] = ab[i]
  BY DEF Starts
<1>4. Skip(r, m).pos = pos + m
  BY <1>1, SkipReader
<1> HIDE DEF payload, pos, m, n, ab, size
<1>5. \A i \in 1 .. m : pos + i <= size => payload[pos + i] = a[i]
  BY <1>1, <1>2, <1>3
<1>6. ASSUME NEW i \in 1 .. n, pos + m + i <= size
      PROVE  payload[pos + m + i] = b[i]
  <2> DEFINE j == m + i
  <2>1. m + i \in 1 .. m + n /\ ~ (m + i <= m) /\ pos + (m + i) = pos + m + i
    BY <1>1
  <2>2. j \in 1 .. Len(ab) /\ j \in 1 .. m + n /\ ~ (j <= m)
        /\ pos + j = pos + m + i
    BY <1>2, <2>1
  <2>3. j - m = i
    BY <1>1, Difference
  <2> HIDE DEF j
  <2>4. payload[pos + j] = ab[j]
    BY <1>3, <1>6, <2>2
  <2>5. ab[j] = b[j - m]
    BY <1>2, <2>2
  <2> QED
    BY <2>2, <2>3, <2>4, <2>5
<1> QED
  BY <1>4, <1>5, <1>6 DEF Starts, payload, pos, m, n, size

(* A word that is read although it may be cut is all there. *)
LEMMA CutWord ==
    ASSUME NEW p \in Packets, NEW r \in Readers, NEW n \in Words,
           Starts(p, r, Digits(n)), ReadUint(p, r).error = "none"
    PROVE  Lies(p, r, Digits(n)) /\ Fits(p, r, 4)
<1>1. Fits(p, r, 4)
  BY DEF ReadUint, Err
<1>2. Digits(n) \in Seq(Byte) /\ Len(Digits(n)) = 4
  BY WordBytes
<1>3. Lies(p, r, Digits(n))
  <2> DEFINE d == Digits(n)
  <2>1. d \in Seq(Byte) /\ Fits(p, r, Len(d)) /\ Starts(p, r, d)
    BY <1>1, <1>2
  <2> HIDE DEF d
  <2>2. Lies(p, r, d)
    BY <2>1, StartsFits
  <2> QED
    BY <2>2 DEF d
<1> QED
  BY <1>1, <1>3

(* So is an array: its length tells how much of it there has to be. *)
LEMMA CutArray ==
    ASSUME NEW p \in Packets, NEW r \in Readers, NEW a \in Seq(Byte),
           Len(a) < WordModulus, Starts(p, r, Padded(a)),
           ReadArray(p, r).error = "none"
    PROVE  Lies(p, r, Padded(a))
<1> DEFINE n == Len(a)
           d == Digits(n)
           z == Zeros(Padding(n))
<1>1. n \in Words /\ n \in Nat
  BY ByteSquares DEF Words
<1>2. Padding(n) \in Nat
  <2> HIDE DEF n
  <2> QED
    BY <1>1, PaddingProperties
<1>3. d \in Seq(Byte) /\ Len(d) = 4 /\ z \in Seq(Byte)
  <2> HIDE DEF n
  <2> QED
    BY <1>1, <1>2, WordBytes, ZerosAreBytes
<1>4. /\ Padded(a) = d \o a \o z /\ Padded(a) \in Seq(Byte)
      /\ Len(Padded(a)) = 4 + n + Padding(n)
  BY PaddedBytes DEF Padded
<1>5. Starts(p, r, d)
  <2>1. d \o a \in Seq(Byte) /\ Starts(p, r, d \o a \o z)
    <3> HIDE DEF d, z
    <3> QED
      BY <1>3, <1>4, ConcatProperties
  <2> HIDE DEF d, z
  <2>2. Starts(p, r, d \o a)
    BY <1>3, <2>1, StartsConcat
  <2> QED
    BY <1>3, <2>2, StartsConcat
<1>6. /\ ReadUint(p, r).error = "none"
      /\ Fits(p, r, 4 + (ReadUint(p, r).value + Padding(ReadUint(p, r).value)))
  BY DEF ReadArray, Err
<1>7. ReadUint(p, r).value = n
  <2> HIDE DEF n
  <2>1. Lies(p, r, Digits(n))
    BY <1>1, <1>5, <1>6, CutWord DEF d
  <2>2. ReadUint(p, r) = Ok(n, Skip(r, 4))
    BY <1>1, <2>1, UintRead
  <2> QED
    BY <2>2, OkFields
<1>8. Fits(p, r, Len(Padded(a)))
  <2> DEFINE u == ReadUint(p, r).value
  <2> HIDE DEF n, u
  <2>1. u = n /\ Fits(p, r, 4 + (u + Padding(u)))
    BY <1>6, <1>7 DEF u
  <2>2. 4 + (n + Padding(n)) = 4 + n + Padding(n)
    BY <1>1, <1>2
  <2> QED
    BY <1>4, <2>1, <2>2
<1> QED
  BY <1>4, <1>8, StartsFits

(* So is a string, which is read as an array. *)
LEMMA CutStr ==
    ASSUME NEW p \in Packets, NEW r \in Readers, NEW s \in Strings,
           Starts(p, r, Padded(s \o << 0 >>)), ReadStr(p, r).error = "none"
    PROVE  Lies(p, r, Padded(s \o << 0 >>))
<1>1. s \o << 0 >> \in Seq(Byte) /\ Len(s \o <<0>>) < WordModulus
  BY StringParts DEF Strings
<1>2. ReadArray(p, r).error = "none"
  <2>1. ReadArray(p, r).error # "none" => ReadStr(p, r) = ReadArray(p, r)
    BY DEF ReadStr
  <2> QED
    BY <2>1
<1> DEFINE a == s \o <<0>>
<1>3. a \in Seq(Byte) /\ Len(a) < WordModulus /\ Starts(p, r, Padded(a))
  BY <1>1
<1> HIDE DEF a
<1>4. Lies(p, r, Padded(a))
  BY <1>2, <1>3, CutArray
<1> QED
  BY <1>4 DEF a

(* So is a new object, part by part. *)
LEMMA CutNewObject ==
    ASSUME NEW p \in Packets, NEW r \in Readers,
           NEW o \in Pushable("new_object"),
           Starts(p, r, Bytes("new_object", o)),
           ReadNewObject(p, r).error = "none"
    PROVE  Lies(p, r, Bytes("new_object", o))
<1> DEFINE s == o.interface \o <<0>>
           a == Padded(s)
           b == Digits(o.version)
           c == Digits(o.id)
           r1 == Skip(r, Len(a))
           r2 == Skip(r1, 4)
<1>1. o.interface \in Strings /\ o.version \in Words /\ o.id \in Words
  BY DEF Pushable
<1>2. a \in Seq(Byte) /\ Len(a) \in Nat
  <2>1. s \in Seq(Byte)
    BY <1>1, StringParts
  <2> HIDE DEF s
  <2>2. Padded(s) \in Seq(Byte)
    BY <2>1, PaddedBytes
  <2> QED
    BY <2>2
<1>3. b \in Seq(Byte) /\ Len(b) = 4 /\ c \in Seq(Byte) /\ Len(c) = 4
  BY <1>1, WordBytes
<1>4. Bytes("new_object", o) = a \o b \o c
  BY DEF Bytes
<1>5. /\ ReadStr(p, r).error = "none"
      /\ ReadUint(p, ReadStr(p, r).reader).error = "none"
      /\ ReadNewId(p, ReadUint(p, ReadStr(p, r).reader).reader).error = "none"
  BY DEF ReadNewObject
<1> HIDE DEF a, b, c
<1>6. /\ a \o b \in Seq(Byte) /\ a \o b \o c \in Seq(Byte)
      /\ Len(a \o b) = Len(a) + 4 /\ Len(a \o b \o c) = Len(a) + 4 + 4
      /\ a \o b \o c = a \o (b \o c)
  <2>1. /\ a \o b \in Seq(Byte) /\ a \o b \o c \in Seq(Byte)
        /\ Len(a \o b) = Len(a) + Len(b)
        /\ Len(a \o b \o c) = Len(a) + Len(b) + Len(c)
        /\ a \o b \o c = a \o (b \o c)
    BY <1>2, <1>3, ThreeParts
  <2> QED
    BY <1>3, <2>1
<1>7. Starts(p, r, a \o b)
  BY <1>3, <1>4, <1>6, StartsConcat
<1>8. Starts(p, r, a) /\ Starts(p, r1, b)
  BY <1>2, <1>3, <1>7, StartsConcat
<1>9. ReadStr(p, r).reader = r1
  <2>1. Lies(p, r, a)
    BY <1>1, <1>5, <1>8, CutStr DEF a
  <2>2. ReadStr(p, r) = Ok(o.interface, r1)
    BY <1>1, <2>1, StrRead DEF a
  <2> QED
    BY <2>2, OkFields
<1>10. r1 \in Readers /\ r1.pos = r.pos + Len(a)
  BY <1>2, SkipReader
<1>11. ReadUint(p, r1).reader = r2
  <2> HIDE DEF r1
  <2>1. ReadUint(p, r1).error = "none"
    BY <1>5, <1>9
  <2>2. Lies(p, r1, Digits(o.version))
    BY <1>1, <1>8, <1>10, <2>1, CutWord DEF b
  <2>3. ReadUint(p, r1) = Ok(o.version, Skip(r1, 4))
    BY <1>1, <1>10, <2>2, UintRead
  <2> QED
    BY <2>3, OkFields
<1>12. r2.pos = r.pos + Len(a) + 4
  <2> HIDE DEF r1
  <2> QED
    BY <1>10, SkipReader
<1>13. Fits(p, r2, 4)
  <2>1. ReadNewId(p, r2).error = "none"
    BY <1>5, <1>9, <1>11
  <2> HIDE DEF r2
  <2>2. ReadUint(p, r2).error = "none"
    BY <2>1 DEF ReadNewId
  <2> QED
    BY <2>2 DEF ReadUint, Err
<1>14. Fits(p, r, Len(a \o b \o c))
  <2>1. r.pos + Len(a) + 4 + 4 <= Len(p.payload)
    BY <1>12, <1>13 DEF Fits
  <2>2. r.pos \in Nat /\ Len(p.payload) \in Nat
    BY DEF Readers, Packets
  <2>3. r.pos + (Len(a) + 4 + 4) <= Len(p.payload)
    BY <1>2, <2>1, <2>2
  <2> QED
    BY <1>6, <2>3 DEF Fits
<1> QED
  BY <1>4, <1>6, <1>14, StartsFits

(* Whatever is read is all there. *)
LEMMA CutRead ==
    ASSUME NEW p \in Packets, NEW r \in Readers,
           NEW kind \in Kinds, NEW v \in Pushable(kind), kind # "fd",
           Starts(p, r, Bytes(kind, v)), Read(p, r, kind).error = "none"
    PROVE  Lies(p, r, Bytes(kind, v))
<1>1. CASE kind \in {"uint", "object", "new_id"}
  <2>1. v \in Words /\ Bytes(kind, v) = Digits(v)
    BY <1>1 DEF Pushable, Bytes
  <2>2. ReadUint(p, r).error = "none"
    BY <1>1 DEF Read, ReadNewId
  <2> QED
    BY <2>1, <2>2, CutWord
<1>2. CASE kind \in {"int", "fixed"}
  <2> DEFINE u == v % WordModulus
  <2>1. v \in Pushable("int")
    BY <1>2 DEF Pushable
  <2>2. u \in Words /\ Bytes(kind, v) = Digits(u)
    BY <1>2, <2>1, IntIsWord DEF Bytes
  <2>3. ReadUint(p, r).error = "none"
    BY <1>2 DEF Read, ReadInt
  <2> HIDE DEF u
  <2> QED
    BY <2>2, <2>3, CutWord
<1>3. CASE kind = "string"
  <2>1. v \in Strings /\ Bytes(kind, v) = Padded(v \o <<0>>)
        /\ ReadStr(p, r).error = "none"
    BY <1>3 DEF Pushable, Bytes, Read
  <2> QED
    BY <2>1, CutStr
<1>4. CASE kind = "array"
  <2>1. v \in Seq(Byte) /\ Len(v) < WordModulus /\ Bytes(kind, v) = Padded(v)
        /\ ReadArray(p, r).error = "none"
    BY <1>4 DEF Pushable, Bytes, Read
  <2> QED
    BY <2>1, CutArray
<1>5. CASE kind = "new_object"
  <2>1. ReadNewObject(p, r).error = "none"
    BY <1>5 DEF Read
  <2> QED
    BY <1>5, <2>1, CutNewObject
<1> QED
  BY <1>1, <1>2, <1>3, <1>4, <1>5 DEF Kinds

(* A length of 0 is no string, but an error, of one kind if it is all there. *)
LEMMA NullRead ==
    ASSUME NEW p \in Packets, NEW r \in Readers, Starts(p, r, Digits(0))
    PROVE  /\ Read(p, r, "string").error # "none"
           /\ Fits(p, r, 4) => Read(p, r, "string").error = "EmptyString"
<1>1. Read(p, r, "string") = ReadStr(p, r)
  BY DEF Read
<1>2. 0 \in Words /\ Padding(0) = 0
  BY ByteSquares DEF Words, Padding
<1>3. CASE ~ Fits(p, r, 4)
  <2>1. ReadUint(p, r).error = "FieldOutOfBounds"
    BY <1>3 DEF ReadUint, Err
  <2>2. ReadArray(p, r).error = "FieldOutOfBounds"
    BY <2>1 DEF ReadArray, Err
  <2>3. ReadStr(p, r) = ReadArray(p, r)
    BY <2>2 DEF ReadStr
  <2> QED
    BY <1>1, <1>3, <2>2, <2>3
<1>4. CASE Fits(p, r, 4)
  <2> DEFINE v == At(p, Skip(r, 4), 0)
  <2>1. ReadUint(p, r).error = "none"
    BY <1>4 DEF ReadUint, Ok
  <2>2. ReadUint(p, r) = Ok(0, Skip(r, 4))
    BY <1>2, <2>1, CutWord, UintRead
  <2>3. ReadUint(p, r).value = 0
    BY <2>2, OkFields
  <2>4. ReadArray(p, r) = Ok(v, Skip(r, 4 + (0 + 0)))
    <3>1. Fits(p, r, 4 + (0 + 0))
      BY <1>4
    <3> QED
      BY <1>2, <2>1, <2>3, <3>1 DEF ReadArray
  <2>5. Len(v) = 0
    <3> DEFINE pos == r.pos + 4
    <3>1. pos \in Nat /\ pos + 0 <= Len(p.payload) /\ Skip(r, 4).pos = pos
      BY <1>4, SkipReader DEF Fits, Readers
    <3> HIDE DEF pos
    <3>2. v = SubSeq(p.payload, pos + 1, pos + 0)
      BY <3>1 DEF At
    <3> QED
      BY <3>1, <3>2, SliceType
  <2>6. ReadArray(p, r).error = "none" /\ ReadArray(p, r).value = v
    BY <2>4, OkFields
  <2> HIDE DEF v
  <2>7. ReadStr(p, r) = Err("EmptyString", ReadArray(p, r).reader)
    BY <2>5, <2>6 DEF ReadStr
  <2> QED
    BY <1>1, <2>7, ErrFields
<1> QED
  BY <1>3, <1>4

-----------------------------------------------------------------------------
(* The message on its way, NULL and damage included. *)
PieceOf(kind) == IF kind = "null" THEN Digits(0) ELSE Bytes(kind, values[kind])
FdCount(kind) == IF kind = "fd" THEN 1 ELSE 0
Beyond(r, kind) == [pos |-> r.pos + Len(PieceOf(kind)),
                    fdPos |-> r.fdPos + FdCount(kind)]
FdsTo(kinds, n) == {i \in 1 .. n : kinds[i] = "fd"}

AllThere(r, kind) ==
    /\ Lies(packet, r, PieceOf(kind))
    /\ kind = "fd" => r.fdPos < Len(packet.fds)

(* Where each argument has to be, whether or not the packet got that far. *)
Layout(marks) ==
    /\ marks \in [1 .. Len(pushed) + 1 -> Readers]
    /\ marks[1] = NewReader
    /\ \A i \in 1 .. Len(pushed) :
          /\ Starts(packet, marks[i], PieceOf(pushed[i]))
          /\ marks[i + 1] = Beyond(marks[i], pushed[i])
    /\ \A i \in 0 .. Len(pushed) :
          marks[i + 1].fdPos = Cardinality(FdsTo(pushed, i))
    /\ intact => /\ marks[Len(pushed) + 1] = End(packet)
                 /\ \A i \in 1 .. Len(pushed) : AllThere(marks[i], pushed[i])

Received(i) == IF pushed[i] = "fd"
               THEN packet.fds[Cardinality(FdsTo(pushed, i))]
               ELSE values[pushed[i]]

(* What has been read is what was pushed there, and none of it was NULL. *)
GotTo(marks) ==
    /\ args \in Seq({values[kind] : kind \in Kinds} \cup Nat)
    /\ Len(args) <= Len(pushed)
    /\ reader = marks[Len(args) + 1]
    /\ \A i \in 1 .. Len(args) : pushed[i] # "null" /\ args[i] = Received(i)

Right == opcode = Sent(names[1], incoming, names[2]).opcode

Shape ==
    /\ pushed \in Seq(Kinds \cup {"null"}) /\ Len(pushed) <= Len(Pushes)
    /\ \A i \in 1 .. Len(pushed) :
          \/ pushed[i] = Pushes[i]
          \/ pushed[i] = "null" /\ Pushes[i] = "string"

Going == {"push", "transit", "read", "delivered"}

Position ==
    /\ phase # "push" => Len(pushed) = Len(Pushes)
    /\ phase \in {"push", "transit"} => args = <<>>
    /\ phase = "read" =>
          /\ Len(args) + Len(unread) = Len(pushed)
          /\ \A i \in 1 .. Len(unread) : unread[i] = Pushes[Len(args) + i]
    /\ phase = "delivered" => Len(args) = Len(pushed) /\ AllRead(packet, reader)

WholeInv ==
    /\ intact => Right /\ phase \in Going \cup {"EmptyString"}
    /\ phase = "push" => intact
    /\ Right /\ phase \in Going =>
          /\ Shape /\ Position
          /\ \E marks : Layout(marks) /\ GotTo(marks)

LEMMA PieceType ==
    ASSUME TypeInv, NEW kind \in Kinds \cup {"null"}
    PROVE  /\ PieceOf(kind) \in Seq(Byte) /\ Len(PieceOf(kind)) \in Nat
           /\ FdCount(kind) \in Nat
<1>1. FdCount(kind) \in Nat
  BY DEF FdCount
<1>2. CASE kind = "null"
  <2>1. 0 \in Words
    BY ByteSquares DEF Words
  <2>2. Digits(0) \in Seq(Byte)
    BY <2>1, WordBytes
  <2> QED
    BY <1>1, <1>2, <2>2 DEF PieceOf
<1>3. CASE kind # "null"
  <2>1. kind \in Kinds /\ values[kind] \in Pushable(kind)
    BY <1>3, BindingsAssumption DEF TypeInv, NamesOK
  <2> QED
    BY <1>1, <1>3, <2>1, BytesType DEF PieceOf
<1> QED
  BY <1>2, <1>3

(* An argument that is not NULL is what it was in an intact packet. *)
LEMMA BeyondAfter ==
    ASSUME TypeInv, NEW r \in Readers, NEW kind \in Kinds
    PROVE  /\ Beyond(r, kind) = After(r, kind, values[kind])
           /\ PieceOf(kind) = Bytes(kind, values[kind])
<1>1. kind # "null"
  BY DEF Kinds
<1>2. PieceOf(kind) = Bytes(kind, values[kind])
  BY <1>1 DEF PieceOf
<1>3. Len(Fds(kind, values[kind])) = FdCount(kind)
  BY DEF Fds, FdCount
<1> QED
  BY <1>2, <1>3 DEF Beyond, After

(* One more argument is one more descriptor if it is one. *)
LEMMA FdsAppended ==
    ASSUME NEW T, NEW s \in Seq(T), NEW x \in T
    PROVE  /\ \A n \in 0 .. Len(s) : FdsTo(Append(s, x), n) = FdsTo(s, n)
           /\ Cardinality(FdsTo(Append(s, x), Len(s) + 1))
                 = Cardinality(FdsTo(s, Len(s))) + FdCount(x)
           /\ Cardinality(FdsTo(s, Len(s))) \in Nat
<1> DEFINE m == Len(s)
           t == Append(s, x)
<1>1. m \in Nat /\ t[m + 1] = x /\ \A i \in 1 .. m : t[i] = s[i]
  BY AppendProperties
<1> HIDE DEF m, t
<1>2. \A n \in 0 .. m : FdsTo(t, n) = FdsTo(s, n)
  BY <1>1 DEF FdsTo
<1>3. IsFiniteSet(FdsTo(s, m)) /\ m + 1 \notin FdsTo(s, m)
  <2>1. IsFiniteSet(1 .. m)
    BY <1>1, FS_Interval
  <2>2. FdsTo(s, m) \in SUBSET (1 .. m)
    BY DEF FdsTo
  <2>3. IsFiniteSet(FdsTo(s, m))
    BY <2>1, <2>2, FS_Subset
  <2> QED
    BY <1>1, <2>2, <2>3
<1>4. Cardinality(FdsTo(s, m)) \in Nat
  BY <1>3, FS_CardinalityType
<1>5. Cardinality(FdsTo(t, m + 1)) = Cardinality(FdsTo(s, m)) + FdCount(x)
  <2>1. CASE x = "fd"
    <3>1. FdsTo(t, m + 1) = FdsTo(s, m) \cup {m + 1}
      BY <1>1, <2>1 DEF FdsTo
    <3>2. Cardinality(FdsTo(s, m) \cup {m + 1}) = Cardinality(FdsTo(s, m)) + 1
      BY <1>3, FS_AddElement
    <3> QED
      BY <2>1, <3>1, <3>2 DEF FdCount
  <2>2. CASE x # "fd"
    <3>1. FdsTo(t, m + 1) = FdsTo(s, m)
      BY <1>1, <2>2 DEF FdsTo
    <3> QED
      BY <1>4, <2>2, <3>1 DEF FdCount
  <2> QED
    BY <2>1, <2>2
<1> QED
  BY <1>2, <1>4, <1>5 DEF m, t

(* What is pushed behind an argument leaves it as it is. *)
LEMMA LiesLonger ==
    ASSUME NEW p \in Packets, NEW q, NEW r \in Readers, NEW b \in Seq(Byte),
           NEW c \in Seq(Byte), q.payload = p.payload \o c, Lies(p, r, b)
    PROVE  Lies(q, r, b)
<1> DEFINE pos == r.pos
           n == Len(b)
           m == Len(p.payload)
           k == Len(c)
<1>1. /\ pos \in Nat /\ n \in Nat /\ m \in Nat /\ k \in Nat /\ pos + n <= m
      /\ p.payload \in Seq(Byte)
      /\ \A i \in 1 .. n : p.payload[pos + i] = b[i]
  BY DEF Packets, Readers, Lies
<1>2. /\ Len(q.payload) = m + k
      /\ \A i \in 1 .. m + k :
            q.payload[i] = IF i <= m THEN p.payload[i] ELSE c[i - m]
  BY <1>1, ConcatProperties
<1> HIDE DEF pos, n, m, k
<1>3. \A i \in 1 .. n : pos + i \in 1 .. m + k /\ pos + i <= m
  BY <1>1
<1>4. \A i \in 1 .. n : q.payload[pos + i] = b[i]
  BY <1>1, <1>2, <1>3
<1>5. pos + n <= Len(q.payload)
  BY <1>1, <1>2
<1> QED
  BY <1>4, <1>5 DEF Lies, pos, n

(* What is pushed lies where the payload ended. *)
LEMMA LiesBehind ==
    ASSUME NEW p \in Packets, NEW q, NEW c \in Seq(Byte),
           q.payload = p.payload \o c
    PROVE  Lies(q, End(p), c)
<1> DEFINE m == Len(p.payload)
           k == Len(c)
<1>1. m \in Nat /\ k \in Nat /\ p.payload \in Seq(Byte) /\ End(p).pos = m
  BY DEF Packets, End
<1>2. /\ Len(q.payload) = m + k
      /\ \A i \in 1 .. m + k :
            q.payload[i] = IF i <= m THEN p.payload[i] ELSE c[i - m]
  BY <1>1, ConcatProperties
<1> HIDE DEF m, k
<1>3. ASSUME NEW i \in 1 .. k PROVE q.payload[m + i] = c[i]
  <2> DEFINE j == m + i
  <2>1. m + i \in 1 .. m + k /\ ~ (m + i <= m) /\ m + i - m = i
    BY <1>1, Difference
  <2>2. j \in 1 .. m + k /\ ~ (j <= m)
    BY <2>1
  <2>3. j - m = i
    BY <1>1, Difference
  <2> HIDE DEF j
  <2>4. q.payload[j] = c[j - m]
    BY <1>2, <2>2
  <2>5. q.payload[j] = c[i]
    BY <2>3, <2>4
  <2> QED
    BY <2>5 DEF j
<1>4. m + k <= Len(q.payload)
  BY <1>1, <1>2
<1> QED
  BY <1>1, <1>3, <1>4 DEF Lies, k

(* A prefix of the payload agrees with what the payload agreed with. *)
LEMMA StartsCut ==
    ASSUME NEW p \in Packets, NEW q, NEW n \in Nat, n <= Len(p.payload),
           q.payload = SubSeq(p.payload, 1, n),
           NEW r \in Readers, NEW b \in Seq(Byte), Starts(p, r, b)
    PROVE  Starts(q, r, b)
<1> DEFINE pos == r.pos
           m == Len(p.payload)
           s == p.payload
<1>1. /\ pos \in Nat /\ m \in Nat /\ s \in Seq(Byte) /\ Len(b) \in Nat
      /\ n <= m
      /\ \A i \in 1 .. Len(b) : pos + i <= m => s[pos + i] = b[i]
  BY DEF Packets, Readers, Starts
<1>2. \A i \in 1 .. n : s[i] \in Byte
  <2>1. \A i \in 1 .. n : i \in 1 .. Len(s)
    BY <1>1
  <2> HIDE DEF s
  <2> QED
    BY <1>1, <2>1, ElementOfSeq
<1>3. /\ Len(q.payload) = IF 1 <= n THEN n - 1 + 1 ELSE 0
      /\ \A i \in 1 .. n - 1 + 1 : q.payload[i] = s[1 + i - 1]
  <2> HIDE DEF s
  <2>1. 1 \in Int /\ n \in Int
    OBVIOUS
  <2>2. q.payload = SubSeq(s, 1, n)
    BY DEF s
  <2> QED
    BY <1>2, <2>1, <2>2, SubSeqProperties
<1> HIDE DEF pos, m, s
<1>4. Len(q.payload) = n /\ \A i \in 1 .. n : q.payload[i] = s[i]
  BY <1>3
<1>5. ASSUME NEW i \in 1 .. Len(b), pos + i <= Len(q.payload)
      PROVE  q.payload[pos + i] = b[i]
  <2>1. pos + i \in 1 .. n /\ pos + i <= m
    BY <1>1, <1>4, <1>5
  <2> QED
    BY <1>1, <1>4, <2>1
<1> QED
  BY <1>5 DEF Starts, pos

-----------------------------------------------------------------------------
(* A push, of NULL or of an argument, puts its bytes behind the others. *)
Pushing(x) ==
    /\ packet' \in Packets
    /\ packet'.payload = packet.payload \o PieceOf(x)
    /\ Len(packet'.fds) = Len(packet.fds) + FdCount(x)
    /\ pushed' = Append(pushed, x)
    /\ UNCHANGED <<phase, values, names, incoming, opcode, intact, args, reader>>

LEMMA EndPushed ==
    ASSUME TypeInv, NEW x \in Kinds \cup {"null"}, Pushing(x)
    PROVE  /\ Beyond(End(packet), x) = End(packet')
           /\ Lies(packet', End(packet), PieceOf(x))
           /\ x = "fd" => End(packet).fdPos < Len(packet'.fds)
           /\ End(packet') \in Readers /\ End(packet) \in Readers
<1> DEFINE m == Len(packet.payload)
           f == Len(packet.fds)
           c == PieceOf(x)
<1>1. packet \in Packets /\ c \in Seq(Byte) /\ FdCount(x) \in Nat
  BY PieceType DEF TypeInv, TypeOK
<1>2. /\ packet'.payload = packet.payload \o c /\ packet' \in Packets
      /\ Len(packet'.fds) = f + FdCount(x)
  BY DEF Pushing
<1>3. /\ m \in Nat /\ f \in Nat /\ packet.payload \in Seq(Byte)
      /\ End(packet).pos = m /\ End(packet).fdPos = f
  BY <1>1 DEF Packets, End
<1> HIDE DEF c
<1>4. Len(packet'.payload) = m + Len(c)
  BY <1>1, <1>2, <1>3, ConcatProperties
<1>5. Beyond(End(packet), x) = End(packet')
  BY <1>2, <1>3, <1>4 DEF Beyond, End, c
<1>6. Lies(packet', End(packet), c)
  BY <1>1, <1>2, LiesBehind
<1>7. x = "fd" => f < Len(packet'.fds)
  BY <1>2, <1>3 DEF FdCount
<1>8. End(packet') \in Readers /\ End(packet) \in Readers
  BY <1>1, <1>2 DEF End, Readers, Packets
<1> QED
  BY <1>3, <1>5, <1>6, <1>7, <1>8 DEF c

(* A layout grows by the place behind what was pushed. *)
LEMMA LayoutPushed ==
    ASSUME TypeInv, intact, Shape, NEW marks, Layout(marks),
           NEW x \in Kinds \cup {"null"}, Pushing(x)
    PROVE  \E longer : Layout(longer)' /\ longer[1] = marks[1]
<1> DEFINE n == Len(pushed)
<1>0. PICK longer : longer = [i \in 1 .. n + 2 |-> IF i = n + 2 THEN End(packet')
                                                               ELSE marks[i]]
  OBVIOUS
<1>1. /\ packet \in Packets /\ pushed \in Seq(Kinds \cup {"null"}) /\ n \in Nat
  BY DEF TypeInv, TypeOK
<1>2. /\ packet' \in Packets /\ packet'.payload = packet.payload \o PieceOf(x)
      /\ Len(packet'.fds) = Len(packet.fds) + FdCount(x)
      /\ pushed' = Append(pushed, x) /\ values' = values
  BY DEF Pushing
<1>3. /\ Len(pushed') = n + 1 /\ pushed' \in Seq(Kinds \cup {"null"})
      /\ pushed'[n + 1] = x
      /\ \A i \in 1 .. n : pushed'[i] = pushed[i]
  BY <1>1, <1>2, AppendProperties
<1>4. /\ \A i \in 0 .. n : FdsTo(pushed', i) = FdsTo(pushed, i)
      /\ Cardinality(FdsTo(pushed', n + 1))
            = Cardinality(FdsTo(pushed, n)) + FdCount(x)
  BY <1>1, <1>2, FdsAppended
<1>5. /\ marks \in [1 .. n + 1 -> Readers] /\ marks[1] = NewReader
      /\ marks[n + 1] = End(packet)
      /\ \A i \in 1 .. n : marks[i + 1] = Beyond(marks[i], pushed[i])
      /\ \A i \in 1 .. n : AllThere(marks[i], pushed[i])
      /\ \A i \in 0 .. n : marks[i + 1].fdPos = Cardinality(FdsTo(pushed, i))
  BY DEF Layout
<1>6. /\ Beyond(End(packet), x) = End(packet')
      /\ Lies(packet', End(packet), PieceOf(x))
      /\ x = "fd" => End(packet).fdPos < Len(packet'.fds)
      /\ End(packet') \in Readers
  BY EndPushed
<1> HIDE DEF n
<1>8. /\ longer \in [1 .. n + 2 -> Readers]
      /\ longer[n + 2] = End(packet')
      /\ \A i \in 1 .. n + 1 : longer[i] = marks[i]
  <2>1. \A i \in 1 .. n + 1 : i \in 1 .. n + 2 /\ i # n + 2
    BY <1>1
  <2>2. n + 2 \in 1 .. n + 2 /\ \A i \in 1 .. n + 2 : i # n + 2 => i \in 1 .. n + 1
    BY <1>1
  <2>3. \A i \in 1 .. n + 2 :
           (IF i = n + 2 THEN End(packet') ELSE marks[i]) \in Readers
    BY <1>5, <1>6, <2>2
  <2>4. longer \in [1 .. n + 2 -> Readers]
    BY <1>0, <2>3
  <2> QED
    BY <1>0, <2>1, <2>2, <2>4
<1>9. ASSUME NEW i \in 1 .. n + 1
      PROVE  /\ Lies(packet', longer[i], PieceOf(pushed'[i]))
             /\ pushed'[i] = "fd" => longer[i].fdPos < Len(packet'.fds)
             /\ longer[i + 1] = Beyond(longer[i], pushed'[i])
  <2>1. CASE i \in 1 .. n
    <3>1. i + 1 \in 1 .. n + 1
      BY <1>1, <2>1
    <3>2. longer[i] = marks[i] /\ longer[i + 1] = marks[i + 1]
          /\ pushed'[i] = pushed[i] /\ marks[i] \in Readers
      BY <1>3, <1>5, <1>8, <2>1, <3>1
    <3>3. pushed[i] \in Kinds \cup {"null"}
      BY <1>1, <2>1, ElementOfSeq DEF n
    <3>4. PieceOf(pushed[i]) \in Seq(Byte) /\ PieceOf(x) \in Seq(Byte)
          /\ FdCount(x) \in Nat
      BY <3>3, PieceType
    <3>5. /\ Lies(packet, marks[i], PieceOf(pushed[i]))
          /\ pushed[i] = "fd" => marks[i].fdPos < Len(packet.fds)
          /\ marks[i + 1] = Beyond(marks[i], pushed[i])
      BY <1>5, <2>1 DEF AllThere
    <3>6. Lies(packet', marks[i], PieceOf(pushed[i]))
      BY <1>1, <1>2, <3>2, <3>4, <3>5, LiesLonger
    <3>7. pushed[i] = "fd" => marks[i].fdPos < Len(packet'.fds)
      <4>1. marks[i].fdPos \in Nat /\ Len(packet.fds) \in Nat
        BY <1>1, <3>2 DEF Readers, Packets
      <4> QED
        BY <1>2, <3>4, <3>5, <4>1
    <3> QED
      BY <3>2, <3>5, <3>6, <3>7
  <2>2. CASE i = n + 1
    <3>1. i + 1 = n + 2
      BY <1>1, <2>2
    <3>2. /\ longer[i] = End(packet) /\ longer[i + 1] = End(packet')
          /\ pushed'[i] = x
      BY <1>3, <1>5, <1>8, <2>2, <3>1
    <3> QED
      BY <1>6, <3>2
  <2>3. i \in 1 .. n \/ i = n + 1
    BY <1>1
  <2> QED
    BY <2>1, <2>2, <2>3
<1>10. ASSUME NEW i \in 0 .. n + 1
       PROVE  longer[i + 1].fdPos = Cardinality(FdsTo(pushed', i))
  <2>1. CASE i \in 0 .. n
    <3>1. i + 1 \in 1 .. n + 1
      BY <1>1, <2>1
    <3>2. longer[i + 1] = marks[i + 1]
      BY <1>8, <3>1
    <3> QED
      BY <1>4, <1>5, <2>1, <3>2
  <2>2. CASE i = n + 1
    <3>1. i + 1 = n + 2 /\ n \in 0 .. n
      BY <1>1, <2>2
    <3>2. longer[i + 1] = Beyond(End(packet), x)
      BY <1>6, <1>8, <3>1
    <3>3. longer[i + 1].fdPos = End(packet).fdPos + FdCount(x)
      BY <3>2 DEF Beyond
    <3>4. End(packet).fdPos = Cardinality(FdsTo(pushed, n))
      BY <1>5, <3>1
    <3> QED
      BY <1>4, <2>2, <3>3, <3>4
  <2> QED
    BY <1>1, <2>1, <2>2
<1>11. longer[1] = marks[1] /\ n + 1 + 1 = n + 2
  BY <1>1, <1>8
<1>12. ASSUME NEW i \in 1 .. n + 1
       PROVE  /\ Starts(packet, longer[i], PieceOf(pushed[i]))'
              /\ (longer[i + 1] = Beyond(longer[i], pushed[i]))'
              /\ AllThere(longer[i], pushed[i])'
  <2>1. PieceOf(pushed[i])' = PieceOf(pushed'[i])
    BY <1>2 DEF PieceOf
  <2>2. Beyond(longer[i], pushed[i])' = Beyond(longer[i], pushed'[i])
    BY <2>1 DEF Beyond
  <2> DEFINE b == PieceOf(pushed'[i])
  <2>3. Lies(packet', longer[i], b)
    BY <1>9
  <2> HIDE DEF b
  <2>4. Starts(packet', longer[i], b)
    BY <2>3, LiesStarts
  <2> QED
    BY <1>9, <2>1, <2>2, <2>3, <2>4 DEF AllThere, b
<1>13. Layout(longer)'
  <2>1. /\ longer \in [1 .. Len(pushed') + 1 -> Readers]
        /\ longer[Len(pushed') + 1] = End(packet')
    BY <1>3, <1>8, <1>11
  <2>2. \A i \in 1 .. Len(pushed') :
           /\ Starts(packet, longer[i], PieceOf(pushed[i]))'
           /\ (longer[i + 1] = Beyond(longer[i], pushed[i]))'
           /\ AllThere(longer[i], pushed[i])'
    BY <1>3, <1>12
  <2>3. \A i \in 0 .. Len(pushed') :
           longer[i + 1].fdPos = Cardinality(FdsTo(pushed', i))
    BY <1>3, <1>10
  <2>4. longer[1] = NewReader
    BY <1>5, <1>11
  <2> HIDE DEF n
  <2> QED
    BY <2>1, <2>2, <2>3, <2>4 DEF Layout
<1> QED
  BY <1>11, <1>13

(* While nothing has been read the arguments are those of any layout. *)
LEMMA NothingRead ==
    ASSUME TypeInv, NEW marks, GotTo(marks), args = <<>>
    PROVE  reader = marks[1]
<1>1. Len(args) + 1 = 1
  OBVIOUS
<1> QED
  BY <1>1 DEF GotTo

(* What is pushed is what the table says, or NULL for a string. *)
LEMMA ShapePushed ==
    ASSUME TypeInv, Shape, Len(pushed) < Len(Pushes),
           NEW x \in Kinds \cup {"null"}, Pushing(x),
           \/ x = Pushes[Len(pushed) + 1]
           \/ x = "null" /\ Pushes[Len(pushed) + 1] = "string"
    PROVE  Shape'
<1> DEFINE n == Len(pushed)
<1>1. Pushes' = Pushes /\ Len(Pushes) \in Nat
  <2>1. Pushes \in Seq(Kinds)
    BY PushesKinds DEF TypeInv, TypeOK
  <2>2. Len(Pushes) \in Nat
    BY <2>1
  <2>3. UNCHANGED <<names, incoming>>
    BY DEF Pushing
  <2>4. Pushes' = Pushes
    BY <2>3 DEF Pushes, Sent
  <2> QED
    BY <2>2, <2>4
<1>2. /\ pushed \in Seq(Kinds \cup {"null"}) /\ pushed' = Append(pushed, x)
      /\ n \in Nat
      /\ \A i \in 1 .. n : pushed[i] = Pushes[i]
                           \/ (pushed[i] = "null" /\ Pushes[i] = "string")
  BY DEF Shape, Pushing
<1>3. /\ Len(pushed') = n + 1 /\ pushed' \in Seq(Kinds \cup {"null"})
      /\ pushed'[n + 1] = x /\ \A i \in 1 .. n : pushed'[i] = pushed[i]
  BY <1>2, AppendProperties
<1> HIDE DEF n
<1>4. ASSUME NEW i \in 1 .. Len(pushed')
      PROVE  pushed'[i] = Pushes[i] \/ (pushed'[i] = "null" /\ Pushes[i] = "string")
  <2>1. i \in 1 .. n \/ i = n + 1
    BY <1>2, <1>3
  <2> QED
    BY <1>2, <1>3, <2>1 DEF n
<1>5. Len(pushed') <= Len(Pushes)
  BY <1>1, <1>2, <1>3 DEF n
<1> QED
  BY <1>1, <1>3, <1>4, <1>5 DEF Shape

(* Either push keeps the invariant. *)
LEMMA PushWhole ==
    ASSUME TypeInv, WholeInv, phase = "push", Len(pushed) < Len(Pushes),
           NEW x \in Kinds \cup {"null"}, Pushing(x),
           \/ x = Pushes[Len(pushed) + 1]
           \/ x = "null" /\ Pushes[Len(pushed) + 1] = "string"
    PROVE  WholeInv'
<1>1. intact /\ Right /\ Shape /\ Position
  BY DEF WholeInv, Going
<1>2. PICK marks : Layout(marks) /\ GotTo(marks)
  BY <1>1 DEF WholeInv, Going
<1>3. /\ phase' = "push" /\ intact' /\ args' = args /\ reader' = reader
      /\ values' = values
  BY <1>1 DEF Pushing
<1>4. Right'
  BY <1>1 DEF Right, Pushing, Sent
<1>5. Shape'
  BY <1>1, ShapePushed
<1>6. args = <<>> /\ reader = marks[1]
  <2>1. args = <<>>
    BY <1>1 DEF Position
  <2> QED
    BY <1>2, <2>1, NothingRead
<1>7. PICK longer : Layout(longer)' /\ longer[1] = marks[1]
  BY <1>1, <1>2, LayoutPushed
<1>8. GotTo(longer)'
  <2>1. args' = <<>> /\ Len(args') = 0 /\ Len(args') + 1 = 1
    BY <1>3, <1>6
  <2>2. Len(pushed') \in Nat
    BY <1>5 DEF Shape
  <2>3. args' \in Seq({values'[kind] : kind \in Kinds} \cup Nat)
    BY <2>1
  <2>4. Len(args') <= Len(pushed') /\ reader' = longer[Len(args') + 1]
    BY <1>3, <1>6, <1>7, <2>1, <2>2
  <2>5. \A i \in 1 .. Len(args') : FALSE
    BY <2>1
  <2> QED
    BY <2>3, <2>4, <2>5 DEF GotTo
<1>9. Position'
  BY <1>3, <1>6 DEF Position
<1> QED
  BY <1>3, <1>4, <1>5, <1>7, <1>8, <1>9 DEF WholeInv, Going

(* The next argument is read if all of it came, and if it was not NULL. *)
LEMMA ReadStep ==
    ASSUME TypeInv, Shape, NEW marks, Layout(marks), GotTo(marks),
           Len(pushed) = Len(Pushes), Len(args) < Len(pushed)
    PROVE  LET n == Len(args) + 1
               got == Read(packet, reader, Pushes[n])
           IN  /\ got.error = "none" =>
                     /\ pushed[n] # "null" /\ got.reader = marks[n + 1]
                     /\ got.value = Received(n)
                     /\ got.value \in {values[kind] : kind \in Kinds} \cup Nat
               /\ got.error # "none" => got.error \in Errors
               /\ intact /\ got.error # "none" => got.error = "EmptyString"
<1> DEFINE n == Len(args) + 1
           kind == Pushes[n]
           got == Read(packet, reader, kind)
           v == values[kind]
<1>1. n \in 1 .. Len(pushed) /\ n \in 1 .. Len(pushed) + 1
      /\ n + 1 \in 1 .. Len(pushed) + 1
  BY DEF GotTo, Shape
<1>2. Pushes \in Seq(Kinds) /\ kind \in Kinds
  <2>1. Pushes \in Seq(Kinds)
    BY PushesKinds DEF TypeInv, TypeOK
  <2> HIDE DEF n
  <2> QED
    BY <1>1, <2>1, ElementOfSeq
<1>3. /\ reader = marks[n] /\ packet \in Packets /\ reader \in Readers
      /\ v \in Pushable(kind)
  <2> HIDE DEF n
  <2>1. marks[n] \in Readers
    BY <1>1 DEF Layout
  <2> QED
    BY <1>2, <2>1, BindingsAssumption DEF GotTo, n, TypeInv, TypeOK, NamesOK
<1>4. got.error \in {"none"} \cup Errors
  <2>1. Result(packet, reader, kind)
    <3> HIDE DEF kind
    <3> QED
      BY <1>2, <1>3, TypeWithin, ReadStays DEF TypeInv
  <2> QED
    BY <2>1 DEF Result
<1> HIDE DEF n
<1>5. /\ Starts(packet, reader, PieceOf(pushed[n]))
      /\ marks[n + 1] = Beyond(reader, pushed[n])
      /\ intact => AllThere(reader, pushed[n])
  BY <1>1, <1>3 DEF Layout
<1>6. pushed[n] = kind \/ (pushed[n] = "null" /\ kind = "string")
  BY <1>1 DEF Shape
<1> SUFFICES /\ got.error = "none" =>
                  /\ pushed[n] # "null" /\ got.reader = marks[n + 1]
                  /\ got.value = Received(n)
                  /\ got.value \in {values[k] : k \in Kinds} \cup Nat
             /\ got.error # "none" => got.error \in Errors
             /\ intact /\ got.error # "none" => got.error = "EmptyString"
  BY DEF n
<1> HIDE DEF kind, got, v
<1>7. CASE pushed[n] = "null"
  <2>1. PieceOf(pushed[n]) = Digits(0) /\ kind = "string"
    BY <1>2, <1>6, <1>7 DEF PieceOf, Kinds
  <2>2. /\ got.error # "none"
        /\ Fits(packet, reader, 4) => got.error = "EmptyString"
    BY <1>3, <1>5, <2>1, NullRead DEF got
  <2>3. ASSUME intact PROVE Fits(packet, reader, 4)
    <3>1. Lies(packet, reader, Digits(0))
      BY <1>5, <2>1, <2>3 DEF AllThere
    <3>2. 0 \in Words
      BY ByteSquares DEF Words
    <3>3. Len(Digits(0)) = 4
      BY <3>2, WordBytes
    <3> QED
      BY <3>1, <3>3 DEF Lies, Fits
  <2> QED
    BY <1>4, <2>2, <2>3
<1>8. CASE pushed[n] = kind /\ kind # "fd"
  <2>1. /\ PieceOf(kind) = Bytes(kind, v)
        /\ Beyond(reader, kind) = After(reader, kind, v)
    BY <1>2, <1>3, BeyondAfter DEF v
  <2>2. ASSUME Lies(packet, reader, Bytes(kind, v))
        PROVE  /\ got.error = "none" /\ got.reader = marks[n + 1]
               /\ got.value = v
    <3>1. LiesIn(packet, reader, kind, v)
      BY <1>8, <2>2 DEF LiesIn
    <3>2. Read(packet, reader, kind) = Ok(v, After(reader, kind, v))
      BY <1>2, <1>3, <3>1, ArgumentRead
    <3> QED
      BY <1>5, <1>8, <2>1, <3>2, OkFields DEF got
  <2>3. got.error = "none" => Lies(packet, reader, Bytes(kind, v))
    <3>1. Starts(packet, reader, Bytes(kind, v))
      BY <1>5, <1>8, <2>1
    <3> QED
      BY <1>2, <1>3, <1>8, <3>1, CutRead DEF got
  <2>4. intact => Lies(packet, reader, Bytes(kind, v))
    BY <1>5, <1>8, <2>1 DEF AllThere
  <2>5. Received(n) = v /\ pushed[n] # "null" /\ v \in {values[k] : k \in Kinds}
    BY <1>2, <1>8 DEF Received, v, Kinds
  <2> QED
    BY <1>4, <2>2, <2>3, <2>4, <2>5
<1>9. CASE pushed[n] = kind /\ kind = "fd"
  <2> DEFINE f == reader.fdPos
  <2>1. /\ f \in Nat /\ reader.pos \in Nat /\ Len(packet.fds) \in Nat
        /\ packet.fds \in Seq(Nat)
        /\ reader = [pos |-> reader.pos, fdPos |-> f]
    BY <1>3 DEF Readers, Packets
  <2>2. got = ReadFd(packet, reader)
    BY <1>9 DEF got, Read
  <2>3. CASE f < Len(packet.fds)
    <3>1. got = Ok(packet.fds[f + 1], [reader EXCEPT !.fdPos = f + 1])
      BY <2>2, <2>3 DEF ReadFd
    <3>2. /\ got.error = "none" /\ got.value = packet.fds[f + 1]
          /\ got.reader = [reader EXCEPT !.fdPos = f + 1]
      BY <3>1, OkFields
    <3>3. marks[n + 1] = [pos |-> reader.pos, fdPos |-> f + 1]
      <4>1. PieceOf("fd") = <<>> /\ FdCount("fd") = 1
        BY DEF PieceOf, Bytes, FdCount
      <4>2. Beyond(reader, "fd") = [pos |-> reader.pos + 0, fdPos |-> f + 1]
        BY <4>1 DEF Beyond
      <4> QED
        BY <1>5, <1>9, <2>1, <4>2
    <3>4. got.reader = marks[n + 1]
      BY <2>1, <3>2, <3>3
    <3>5. Cardinality(FdsTo(pushed, n)) = f + 1
      <4>1. n \in 0 .. Len(pushed)
        BY <1>1
      <4>2. marks[n + 1].fdPos = Cardinality(FdsTo(pushed, n))
        BY <4>1 DEF Layout
      <4> QED
        BY <3>3, <4>2
    <3>6. Received(n) = packet.fds[f + 1] /\ pushed[n] # "null"
      BY <1>9, <3>5 DEF Received
    <3>7. packet.fds[f + 1] \in Nat
      <4>1. f + 1 \in 1 .. Len(packet.fds)
        BY <2>1, <2>3
      <4> QED
        BY <2>1, <4>1, ElementOfSeq
    <3> QED
      BY <3>2, <3>4, <3>6, <3>7
  <2>4. CASE ~ (f < Len(packet.fds))
    <3>1. got.error = "FdOutOfBounds"
      BY <2>2, <2>4 DEF ReadFd, Err
    <3>2. ~ intact
      BY <1>5, <1>9, <2>4 DEF AllThere
    <3> QED
      BY <1>4, <3>1, <3>2
  <2> QED
    BY <2>3, <2>4
<1> QED
  BY <1>6, <1>7, <1>8, <1>9

(* Both ways to push. *)
LEMMA PushNextPushes ==
    ASSUME TypeInv, PushNext
    PROVE  /\ phase = "push" /\ Len(pushed) < Len(Pushes)
           /\ Pushes[Len(pushed) + 1] \in Kinds
           /\ Pushing(Pushes[Len(pushed) + 1])
<1> DEFINE kind == Pushes[Len(pushed) + 1]
           v == values[kind]
<1>1. /\ phase = "push" /\ Len(pushed) < Len(Pushes)
      /\ packet' = Push(packet, kind, v) /\ pushed' = Append(pushed, kind)
      /\ UNCHANGED <<phase, values, names, incoming, opcode, intact, args, reader>>
  BY DEF PushNext
<1>2. kind \in Kinds
  <2>1. Pushes \in Seq(Kinds)
    BY PushesKinds DEF TypeInv, TypeOK
  <2>2. Len(pushed) + 1 \in 1 .. Len(Pushes)
    <3>1. Len(pushed) \in Nat
      BY DEF TypeInv, TypeOK
    <3> QED
      BY <1>1, <2>1, <3>1
  <2> QED
    BY <2>1, <2>2, ElementOfSeq
<1> HIDE DEF kind
<1>3. v \in Pushable(kind) /\ packet \in Packets
  BY <1>2, BindingsAssumption DEF TypeInv, TypeOK, NamesOK
<1>4. PieceOf(kind) = Bytes(kind, v)
  BY <1>2 DEF PieceOf, Kinds
<1> HIDE DEF v
<1>5. /\ Push(packet, kind, v) = [payload |-> packet.payload \o Bytes(kind, v),
                                  fds |-> packet.fds \o Fds(kind, v)]
      /\ Push(packet, kind, v) \in Packets
      /\ Len(Push(packet, kind, v).fds) = Len(packet.fds) + Len(Fds(kind, v))
  BY <1>2, <1>3, PushAppends, PushedType
<1>6. Len(Fds(kind, v)) = FdCount(kind)
  BY DEF Fds, FdCount
<1>7. Pushing(kind)
  BY <1>1, <1>4, <1>5, <1>6 DEF Pushing
<1> QED
  BY <1>1, <1>2, <1>7 DEF kind

LEMMA PushNullPushes ==
    ASSUME TypeInv, PushNull
    PROVE  /\ phase = "push" /\ Len(pushed) < Len(Pushes)
           /\ Pushes[Len(pushed) + 1] = "string"
           /\ Pushing("null")
<1>1. /\ phase = "push" /\ Len(pushed) < Len(Pushes)
      /\ Pushes[Len(pushed) + 1] = "string"
      /\ packet' = PushUint(packet, 0) /\ pushed' = Append(pushed, "null")
      /\ UNCHANGED <<phase, values, names, incoming, opcode, intact, args, reader>>
  BY DEF PushNull
<1>2. PieceOf("null") = Digits(0) /\ FdCount("null") = 0
  BY DEF PieceOf, FdCount
<1>3. Digits(0) \in Seq(Byte) /\ packet \in Packets
  <2>1. 0 \in Words
    BY ByteSquares DEF Words
  <2> QED
    BY <2>1, WordBytes DEF TypeInv, TypeOK
<1> DEFINE d == Digits(0)
<1> HIDE DEF d
<1>4. /\ Extend(packet, d) \in Packets /\ Extend(packet, d).fds = packet.fds
      /\ Extend(packet, d).payload = packet.payload \o d
  BY <1>3, ExtendPacket DEF d
<1>5. packet' = Extend(packet, d)
  BY <1>1 DEF PushUint, d
<1>6. Len(packet.fds) = Len(packet.fds) + 0
  BY <1>3 DEF Packets
<1>7. Pushing("null")
  BY <1>1, <1>2, <1>4, <1>5, <1>6 DEF Pushing, d
<1> QED
  BY <1>1, <1>7

(* The steps that touch neither what is sent nor what has been read. *)
Settled == UNCHANGED <<packet, pushed, values, names, incoming, opcode, intact,
                       args, reader>>

LEMMA SettledKeeps ==
    ASSUME Settled
    PROVE  /\ Right' = Right /\ Pushes' = Pushes /\ (Shape => Shape')
           /\ \A marks : /\ Layout(marks) => Layout(marks)'
                         /\ GotTo(marks) => GotTo(marks)'
<1>1. Right' = Right /\ Pushes' = Pushes
  BY DEF Settled, Right, Pushes, Sent
<1>2. Shape => Shape'
  BY <1>1 DEF Settled, Shape
<1>3. ASSUME NEW marks, Layout(marks) PROVE Layout(marks)'
  BY <1>3 DEF Settled, Layout, PieceOf, Beyond, AllThere
<1>4. ASSUME NEW marks, GotTo(marks) PROVE GotTo(marks)'
  BY <1>4 DEF Settled, GotTo, Received
<1> QED
  BY <1>1, <1>2, <1>3, <1>4

(* A packet that lost its descriptors or the end of its payload has the  *)
(* layout it had: each argument starts where it was, as far as it goes.   *)
LEMMA DamageKeeps ==
    ASSUME TypeInv, NEW marks, Layout(marks), GotTo(marks), args = <<>>,
           NEW n \in Nat, n <= Len(packet.payload),
           packet'.payload = packet.payload
              \/ packet'.payload = SubSeq(packet.payload, 1, n),
           UNCHANGED <<pushed, values, args, reader>>, ~ intact'
    PROVE  Layout(marks)' /\ GotTo(marks)'
<1>1. packet \in Packets /\ pushed \in Seq(Kinds \cup {"null"})
  BY DEF TypeInv, TypeOK
<1>2. ASSUME NEW i \in 1 .. Len(pushed)
      PROVE  /\ Starts(packet', marks[i], PieceOf(pushed[i]))
             /\ marks[i + 1] = Beyond(marks[i], pushed[i])
  <2> DEFINE b == PieceOf(pushed[i])
             r == marks[i]
  <2>1. Starts(packet, r, b) /\ marks[i + 1] = Beyond(marks[i], pushed[i])
    BY DEF Layout
  <2>2. r \in Readers
    BY <1>1 DEF Layout
  <2>3. b \in Seq(Byte)
    <3>1. pushed[i] \in Kinds \cup {"null"}
      BY <1>1, ElementOfSeq
    <3> QED
      BY <3>1, PieceType
  <2> HIDE DEF b, r
  <2>4. CASE packet'.payload = packet.payload
    BY <2>1, <2>4 DEF Starts, b, r
  <2>5. CASE packet'.payload = SubSeq(packet.payload, 1, n)
    <3>1. Starts(packet', r, b)
      BY <1>1, <2>1, <2>2, <2>3, <2>5, StartsCut
    <3> QED
      BY <2>1, <3>1 DEF b, r
  <2> QED
    BY <2>4, <2>5
<1>3. \A kind : PieceOf(kind)' = PieceOf(kind)
  BY DEF PieceOf
<1>4. Layout(marks)'
  <2>1. ASSUME NEW i \in 1 .. Len(pushed)
        PROVE  /\ Starts(packet, marks[i], PieceOf(pushed[i]))'
               /\ (marks[i + 1] = Beyond(marks[i], pushed[i]))'
    <3>1. PieceOf(pushed[i])' = PieceOf(pushed[i])
      BY DEF PieceOf
    <3>2. Beyond(marks[i], pushed[i])' = Beyond(marks[i], pushed[i])
      BY <3>1 DEF Beyond
    <3> QED
      BY <1>2, <3>1, <3>2
  <2>2. /\ marks \in [1 .. Len(pushed') + 1 -> Readers]
        /\ marks[1] = NewReader
        /\ \A i \in 0 .. Len(pushed') :
              marks[i + 1].fdPos = Cardinality(FdsTo(pushed', i))
    BY DEF Layout
  <2> QED
    BY <2>1, <2>2 DEF Layout
<1>5. GotTo(marks)'
  <2>1. Len(args) = 0 /\ \A i \in 1 .. Len(args) : FALSE
    OBVIOUS
  <2> QED
    BY <2>1 DEF GotTo
<1> QED
  BY <1>4, <1>5

(* Every step keeps it. *)
LEMMA NextWhole ==
    ASSUME TablesAgree, TypeInv, TypeInv', WholeInv, [Next]_vars
    PROVE  WholeInv'
<1>1. CASE PushNext
  <2>1. /\ phase = "push" /\ Len(pushed) < Len(Pushes)
        /\ Pushes[Len(pushed) + 1] \in Kinds
        /\ Pushing(Pushes[Len(pushed) + 1])
    BY <1>1, PushNextPushes
  <2> DEFINE x == Pushes[Len(pushed) + 1]
  <2>2. x \in Kinds \cup {"null"} /\ Pushing(x) /\ x = Pushes[Len(pushed) + 1]
    BY <2>1
  <2> HIDE DEF x
  <2> QED
    BY <2>1, <2>2, PushWhole
<1>2. CASE PushNull
  <2>1. /\ phase = "push" /\ Len(pushed) < Len(Pushes)
        /\ Pushes[Len(pushed) + 1] = "string" /\ Pushing("null")
    BY <1>2, PushNullPushes
  <2> DEFINE x == "null"
  <2>2. x \in Kinds \cup {"null"} /\ Pushing(x) /\ x = "null"
    BY <2>1
  <2> HIDE DEF x
  <2> QED
    BY <2>1, <2>2, PushWhole
<1>3. CASE SendPacket
  <2>1. /\ phase = "push" /\ Len(pushed) = Len(Pushes) /\ phase' = "transit"
        /\ Settled
    BY <1>3 DEF SendPacket, Settled
  <2>2. /\ intact /\ Right /\ Shape /\ Position
        /\ \E marks : Layout(marks) /\ GotTo(marks)
    BY <2>1 DEF WholeInv, Going
  <2>3. /\ intact' /\ Right' /\ Shape'
        /\ \E marks : Layout(marks)' /\ GotTo(marks)'
    BY <2>1, <2>2, SettledKeeps DEF Settled
  <2>4. Position'
    BY <2>1, <2>2, SettledKeeps DEF Position, Settled
  <2> QED
    BY <2>1, <2>3, <2>4 DEF WholeInv, Going
<1>4. CASE MisplaceFds
  <2>1. /\ phase = "transit" /\ intact /\ intact' = (packet' = packet)
        /\ packet'.payload = packet.payload
        /\ UNCHANGED <<phase, incoming, names, values, opcode, pushed, unread,
                       reader, args>>
    <3>1. packet \in Packets
      BY DEF TypeInv, TypeOK
    <3> QED
      BY <1>4, <3>1 DEF MisplaceFds, Packets
  <2>2. PICK marks : Right /\ Shape /\ Position /\ Layout(marks) /\ GotTo(marks)
    BY <2>1 DEF WholeInv, Going
  <2>3. Right' = Right /\ Pushes' = Pushes
    BY <2>1 DEF Right, Pushes, Sent
  <2>4. Shape' /\ Position' /\ args = <<>>
    BY <2>1, <2>2, <2>3 DEF Shape, Position
  <2>5. Layout(marks)' /\ GotTo(marks)'
    <3>1. CASE packet' = packet
      <4>1. Settled
        BY <2>1, <3>1 DEF Settled
      <4> QED
        BY <2>2, <4>1, SettledKeeps
    <3>2. CASE packet' # packet
      <4>1. 0 \in Nat /\ 0 <= Len(packet.payload)
        BY DEF TypeInv, TypeOK, Packets
      <4>2. ~ intact' /\ UNCHANGED <<pushed, values, args, reader>>
        BY <2>1, <3>2
      <4> QED
        BY <2>1, <2>2, <2>4, <4>1, <4>2, DamageKeeps
    <3> QED
      BY <3>1, <3>2
  <2> QED
    BY <2>1, <2>2, <2>3, <2>4, <2>5 DEF WholeInv, Going
<1>5. CASE Derail
  <2>1. PICK n \in Cuts : /\ n <= Len(packet.payload)
                          /\ packet' = [packet EXCEPT !.payload = SubSeq(@, 1, n)]
    BY <1>5 DEF Derail
  <2>2. /\ phase = "transit" /\ intact /\ ~ intact'
        /\ UNCHANGED <<phase, incoming, names, values, pushed, unread, reader,
                       args>>
    BY <1>5 DEF Derail
  <2>3. PICK marks : Right /\ Shape /\ Position /\ Layout(marks) /\ GotTo(marks)
    BY <2>2 DEF WholeInv, Going
  <2>4. Pushes' = Pushes
    BY <2>2 DEF Pushes, Sent
  <2>5. Shape' /\ Position' /\ args = <<>>
    BY <2>2, <2>3, <2>4 DEF Shape, Position
  <2>6. packet'.payload = SubSeq(packet.payload, 1, n) /\ n \in Nat
    <3>1. packet \in Packets
      BY DEF TypeInv, TypeOK
    <3> QED
      BY <2>1, <3>1, BindingsAssumption DEF Packets
  <2>7. UNCHANGED <<pushed, values, args, reader>>
    BY <2>2
  <2>8. Layout(marks)' /\ GotTo(marks)'
    BY <2>1, <2>2, <2>3, <2>5, <2>6, <2>7, DamageKeeps
  <2> QED
    BY <2>2, <2>5, <2>8 DEF WholeInv, Going
<1>6. CASE HandleEvent
  <2>1. /\ phase = "transit" /\ incoming /\ Settled
        /\ phase' \in {"read", "unknown_event"}
        /\ phase' = "unknown_event" => Arms = {}
        /\ phase' = "read" => \E m \in Arms : unread' = Table("events")[m].kinds
    BY <1>6 DEF HandleEvent, Settled
  <2>2. /\ Right' = Right /\ intact' = intact /\ args' = args /\ pushed' = pushed
        /\ Pushes' = Pushes
    BY <2>1, SettledKeeps DEF Settled
  <2>3. ASSUME Right
        PROVE  /\ phase' = "read" /\ Shape' /\ Position'
               /\ \E marks : Layout(marks)' /\ GotTo(marks)'
    <3>1. /\ Shape /\ Position /\ \E marks : Layout(marks) /\ GotTo(marks)
      BY <2>1, <2>3 DEF WholeInv, Going
    <3>2. Arms = {names[2]} /\ Table("events")[names[2]].kinds = Pushes
      BY <2>1, <2>3, ReadsPushed DEF Right
    <3>3. phase' = "read" /\ unread' = Pushes
      BY <2>1, <3>2
    <3>4. args = <<>> /\ Len(args) = 0 /\ Len(pushed) = Len(Pushes)
      BY <2>1, <3>1 DEF Position
    <3>5. Len(Pushes) \in Nat /\ \A i \in 1 .. Len(Pushes) : 0 + i = i
      <4>1. Pushes \in Seq(Kinds)
        BY PushesKinds DEF TypeInv, TypeOK
      <4> QED
        BY <4>1
    <3>6. Position'
      BY <2>2, <3>3, <3>4, <3>5 DEF Position
    <3> QED
      BY <2>1, <3>1, <3>3, <3>6, SettledKeeps
  <2>4. intact => Right
    BY DEF WholeInv
  <2>5. phase' # "push"
    BY <2>1
  <2>6. intact' => Right' /\ phase' = "read"
    BY <2>2, <2>3, <2>4
  <2> QED
    BY <2>2, <2>3, <2>5, <2>6 DEF WholeInv, Going
<1>7. CASE TryFromPacket
  <2>1. /\ phase = "transit" /\ ~ incoming /\ Settled /\ phase' = "read"
        /\ unread' = Table("request_args")[names[2]].reads
    BY <1>7 DEF TryFromPacket, Settled
  <2>2. /\ Right' = Right /\ intact' = intact /\ args' = args /\ pushed' = pushed
        /\ Pushes' = Pushes
    BY <2>1, SettledKeeps DEF Settled
  <2>3. ASSUME Right
        PROVE  /\ Shape' /\ Position'
               /\ \E marks : Layout(marks)' /\ GotTo(marks)'
    <3>1. /\ Shape /\ Position /\ \E marks : Layout(marks) /\ GotTo(marks)
      BY <2>1, <2>3 DEF WholeInv, Going
    <3>2. unread' = Pushes
      BY <2>1, <2>3, ReadsPushed DEF Right
    <3>3. args = <<>> /\ Len(args) = 0 /\ Len(pushed) = Len(Pushes)
      BY <2>1, <3>1 DEF Position
    <3>4. Len(Pushes) \in Nat /\ \A i \in 1 .. Len(Pushes) : 0 + i = i
      <4>1. Pushes \in Seq(Kinds)
        BY PushesKinds DEF TypeInv, TypeOK
      <4> QED
        BY <4>1
    <3>5. Position'
      BY <2>1, <2>2, <3>2, <3>3, <3>4 DEF Position
    <3> QED
      BY <2>1, <3>1, <3>5, SettledKeeps
  <2>4. intact => Right
    BY DEF WholeInv
  <2> QED
    BY <2>1, <2>2, <2>3, <2>4 DEF WholeInv, Going
<1>8. CASE ReadNext
  <2> DEFINE n == Len(args) + 1
             got == Read(packet, reader, Head(unread))
             Values == {values[k] : k \in Kinds} \cup Nat
  <2>1. /\ phase = "read" /\ unread # <<>> /\ reader' = got.reader
        /\ UNCHANGED <<incoming, names, values, opcode, packet, intact, pushed>>
        /\ \/ /\ got.error = "none" /\ unread' = Tail(unread)
              /\ args' = Append(args, got.value) /\ phase' = phase
           \/ got.error # "none" /\ phase' = got.error
    BY <1>8 DEF ReadNext
  <2>2. Right' = Right /\ Pushes' = Pushes
    BY <2>1 DEF Right, Pushes, Sent
  <2>3. /\ Head(unread) \in Kinds /\ Tail(unread) \in Seq(Kinds)
        /\ Len(Tail(unread)) = Len(unread) - 1 /\ Len(unread) \in Nat \ {0}
        /\ Head(unread) = unread[1]
        /\ \A i \in 1 .. Len(Tail(unread)) : Tail(unread)[i] = unread[i + 1]
    BY <2>1, HeadTailProperties DEF TypeInv, TypeOK
  <2>4. got.error \in {"none"} \cup Errors
    <3>1. Result(packet, reader, Head(unread))
      BY <2>3, TypeWithin, ReadStays DEF TypeInv, TypeOK
    <3> QED
      BY <3>1 DEF Result
  <2>5. Errors \cap Going = {} /\ "none" \notin Errors
    BY DEF Errors, Going
  <2>6. phase' # "push"
    BY <2>1, <2>4, <2>5 DEF Going
  <2>7. CASE ~ Right
    BY <2>1, <2>2, <2>6, <2>7 DEF WholeInv
  <2>8. CASE Right
    <3>1. PICK marks : Shape /\ Position /\ Layout(marks) /\ GotTo(marks)
      BY <2>1, <2>8 DEF WholeInv, Going
    <3>2. /\ Len(pushed) = Len(Pushes) /\ Len(args) + Len(unread) = Len(pushed)
          /\ \A i \in 1 .. Len(unread) : unread[i] = Pushes[Len(args) + i]
      BY <2>1, <3>1 DEF Position
    <3>3. /\ args \in Seq(Values) /\ Len(args) \in Nat
          /\ \A i \in 1 .. Len(args) : pushed[i] # "null" /\ args[i] = Received(i)
      BY <3>1 DEF GotTo
    <3>4. Len(args) < Len(pushed) /\ Head(unread) = Pushes[n]
      BY <2>3, <3>2, <3>3
    <3>5. /\ got.error = "none" =>
                /\ pushed[n] # "null" /\ got.reader = marks[n + 1]
                /\ got.value = Received(n) /\ got.value \in Values
          /\ intact /\ got.error # "none" => got.error = "EmptyString"
      <4>1. got = Read(packet, reader, Pushes[n])
        BY <3>4
      <4> HIDE DEF got
      <4> QED
        BY <3>1, <3>2, <3>4, <4>1, ReadStep
    <3> HIDE DEF got, Values
    <3>6. CASE got.error # "none"
      <4>1. phase' = got.error /\ phase' \notin Going
        BY <2>1, <2>4, <2>5, <3>6
      <4>2. intact' => phase' = "EmptyString"
        BY <2>1, <3>5, <3>6, <4>1
      <4> QED
        BY <2>2, <2>6, <2>8, <4>1, <4>2 DEF WholeInv
    <3>7. CASE got.error = "none"
      <4>1. /\ unread' = Tail(unread) /\ args' = Append(args, got.value)
            /\ phase' = "read" /\ reader' = marks[n + 1]
        BY <2>1, <3>5, <3>7
      <4>2. /\ args' \in Seq(Values) /\ Len(args') = n
            /\ args'[n] = got.value
            /\ \A i \in 1 .. Len(args) : args'[i] = args[i]
        BY <3>3, <3>5, <3>7, <4>1, AppendProperties
      <4>3. ASSUME NEW i \in 1 .. n
            PROVE  pushed[i] # "null" /\ args'[i] = Received(i)
        <5>1. i \in 1 .. Len(args) \/ i = n
          BY <3>3
        <5> QED
          BY <3>3, <3>5, <3>7, <4>2, <5>1
      <4>4. Layout(marks)'
        BY <2>1, <3>1 DEF Layout, PieceOf, Beyond, AllThere
      <4>5. GotTo(marks)'
        <5>1. n <= Len(pushed)
          BY <3>1, <3>3, <3>4 DEF Shape
        <5>2. ASSUME NEW i \in 1 .. n PROVE Received(i)' = Received(i)
          BY <2>1 DEF Received
        <5>3. Values = {values'[k] : k \in Kinds} \cup Nat
          BY <2>1 DEF Values
        <5> HIDE DEF n
        <5>4. \A i \in 1 .. Len(args') :
                 pushed'[i] # "null" /\ args'[i] = Received(i)'
          BY <2>1, <4>2, <4>3, <5>2
        <5> QED
          BY <2>1, <4>1, <4>2, <5>1, <5>3, <5>4 DEF GotTo
      <4>6. Position'
        <5>1. Len(args') + Len(unread') = Len(pushed')
          <6>1. Len(args') = Len(args) + 1 /\ Len(unread') = Len(unread) - 1
            BY <2>3, <4>1, <4>2
          <6>2. Len(args) + 1 + (Len(unread) - 1) = Len(args) + Len(unread)
            BY <2>3, <3>3
          <6> QED
            BY <2>1, <3>2, <6>1, <6>2
        <5>2. ASSUME NEW i \in 1 .. Len(unread')
              PROVE  unread'[i] = Pushes[n + i]
          <6>1. /\ i + 1 \in 1 .. Len(unread) /\ i \in 1 .. Len(Tail(unread))
                /\ Len(args) + (i + 1) = n + i
            <7> DEFINE k == Len(unread)
                       m == Len(args)
            <7>1. k \in Nat \ {0} /\ m \in Nat /\ Len(Tail(unread)) = k - 1
                  /\ i \in 1 .. Len(Tail(unread))
              BY <2>3, <3>3, <4>1
            <7>2. i \in 1 .. k - 1
              BY <7>1
            <7> HIDE DEF k, m
            <7>3. i + 1 \in 1 .. k /\ m + (i + 1) = m + 1 + i
              BY <7>1, <7>2
            <7> QED
              BY <7>1, <7>3 DEF k, m
          <6>2. unread'[i] = unread[i + 1]
            BY <2>3, <4>1, <6>1
          <6>3. unread[i + 1] = Pushes[Len(args) + (i + 1)]
            BY <3>2, <6>1
          <6> QED
            BY <6>1, <6>2, <6>3
        <5> HIDE DEF n
        <5> QED
          BY <2>1, <2>2, <3>2, <4>1, <4>2, <5>1, <5>2 DEF Position
      <4>7. Shape'
        BY <2>1, <2>2, <3>1 DEF Shape
      <4> QED
        BY <2>1, <2>2, <2>8, <4>1, <4>4, <4>5, <4>6, <4>7 DEF WholeInv, Going
    <3> QED
      BY <3>6, <3>7
  <2> QED
    BY <2>7, <2>8
<1>9. CASE Finish
  <2>1. /\ phase = "read" /\ unread = <<>> /\ Settled
        /\ phase' = IF AllRead(packet, reader) THEN "delivered"
                                               ELSE "IncompleteRead"
    BY <1>9 DEF Finish, Settled
  <2>2. /\ Right' = Right /\ intact' = intact /\ args' = args /\ pushed' = pushed
        /\ Pushes' = Pushes /\ packet' = packet /\ reader' = reader
    BY <2>1, SettledKeeps DEF Settled
  <2>3. CASE ~ Right
    BY <2>1, <2>2, <2>3 DEF WholeInv
  <2>4. CASE Right
    <3>1. PICK marks : Shape /\ Position /\ Layout(marks) /\ GotTo(marks)
      BY <2>1, <2>4 DEF WholeInv, Going
    <3>2. Len(args) = Len(pushed) /\ Len(pushed) = Len(Pushes)
      <4>1. Len(args) + Len(unread) = Len(pushed) /\ Len(unread) = 0
            /\ Len(pushed) = Len(Pushes)
        BY <2>1, <3>1 DEF Position
      <4>2. Len(args) \in Nat
        BY <3>1 DEF GotTo
      <4> QED
        BY <4>1, <4>2
    <3>3. Shape' /\ Layout(marks)' /\ GotTo(marks)'
      BY <2>1, <3>1, SettledKeeps
    <3>4. Position'
      BY <2>1, <2>2, <3>2 DEF Position, AllRead
    <3>5. ASSUME intact PROVE AllRead(packet, reader)
      <4>1. reader = End(packet)
        <5>1. marks[Len(pushed) + 1] = End(packet)
          BY <3>1, <3>5 DEF Layout
        <5>2. reader = marks[Len(args) + 1]
          BY <3>1 DEF GotTo
        <5> QED
          BY <3>2, <5>1, <5>2
      <4>2. Len(packet.payload) \in Nat /\ Len(packet.fds) \in Nat
        <5>1. packet \in Packets
          BY DEF TypeInv, TypeOK
        <5> QED
          BY <5>1 DEF Packets
      <4>3. reader.pos = Len(packet.payload) /\ reader.fdPos = Len(packet.fds)
        BY <4>1 DEF End
      <4> QED
        BY <4>2, <4>3, SMT DEF AllRead
    <3>6. intact' => phase' = "delivered"
      BY <2>1, <2>2, <3>5
    <3> QED
      BY <2>1, <2>2, <2>4, <3>3, <3>4, <3>6 DEF WholeInv, Going
  <2> QED
    BY <2>3, <2>4
<1>10. CASE UNCHANGED vars
  <2>1. Settled /\ phase' = phase /\ unread' = unread
    BY <1>10 DEF vars, Settled
  <2>2. /\ Right' = Right /\ (Shape => Shape') /\ Pushes' = Pushes
        /\ intact' = intact
        /\ \A marks : /\ Layout(marks) => Layout(marks)'
                      /\ GotTo(marks) => GotTo(marks)'
    BY <2>1, SettledKeeps DEF Settled
  <2>3. Position => Position'
    BY <2>1, <2>2 DEF Position, Settled, AllRead
  <2> QED
    BY <2>1, <2>2, <2>3 DEF WholeInv
<1> QED
  BY <1>1, <1>2, <1>3, <1>4, <1>5, <1>6, <1>7, <1>8, <1>9, <1>10 DEF Next

LEMMA InitWhole == Init => WholeInv
<1> SUFFICES ASSUME Init PROVE WholeInv
  OBVIOUS
<1>1. /\ phase = "push" /\ pushed = <<>> /\ args = <<>> /\ reader = NewReader
      /\ packet = EmptyPacket /\ Len(pushed) = 0 /\ Len(args) = 0 /\ intact
  BY DEF Init
<1>2. TypeInv
  BY InitTyped
<1>3. Shape
  <2>1. Pushes \in Seq(Kinds)
    BY <1>2, PushesKinds DEF TypeInv, TypeOK
  <2>2. Len(Pushes) \in Nat /\ pushed \in Seq(Kinds \cup {"null"})
    BY <1>1, <2>1
  <2> QED
    BY <1>1, <2>2 DEF Shape
<1>4. Right
  <2>1. PICK i \in DOMAIN Interfaces :
           \E n \in DOMAIN IF incoming THEN Interfaces[i].event_args
                                       ELSE Interfaces[i].requests :
              names = <<i, n>> /\ opcode = Sent(i, incoming, n).opcode
    BY DEF Init
  <2>2. PICK n : names = <<i, n>> /\ opcode = Sent(i, incoming, n).opcode
    BY <2>1
  <2>3. names[1] = i /\ names[2] = n
    BY <2>2
  <2> QED
    BY <2>2, <2>3 DEF Right
<1>5. \E marks : Layout(marks) /\ GotTo(marks)
  <2> DEFINE marks == [i \in 1 .. Len(pushed) + 1 |-> NewReader]
  <2>1. /\ marks \in [1 .. Len(pushed) + 1 -> Readers]
        /\ marks[1] = NewReader /\ 0 + 1 = 1
    BY <1>1 DEF NewReader, Readers
  <2>2. End(packet) = NewReader
    BY <1>1 DEF End, EmptyPacket, NewReader
  <2>3. Cardinality(FdsTo(pushed, 0)) = 0 /\ NewReader.fdPos = 0
    <3>1. FdsTo(pushed, 0) = {}
      BY DEF FdsTo
    <3> QED
      BY <3>1, FS_EmptySet DEF NewReader
  <2> HIDE DEF marks
  <2>4. Layout(marks)
    <3>1. \A i \in 0 .. Len(pushed) : i = 0
      BY <1>1
    <3>2. \A i \in 1 .. Len(pushed) : FALSE
      BY <1>1
    <3>3. \A i \in 0 .. Len(pushed) :
             marks[i + 1].fdPos = Cardinality(FdsTo(pushed, i))
      BY <2>1, <2>3, <3>1
    <3> QED
      BY <1>1, <2>1, <2>2, <3>2, <3>3 DEF Layout
  <2>5. GotTo(marks)
    <3>1. args \in Seq({values[kind] : kind \in Kinds} \cup Nat)
      BY <1>1
    <3> QED
      BY <1>1, <2>1, <3>1 DEF GotTo
  <2> QED
    BY <2>4, <2>5
<1> QED
  BY <1>1, <1>3, <1>4, <1>5 DEF WholeInv, Position, Going

(* The invariant holds of every behaviour. *)
LEMMA WholeAlways ==
    ASSUME TablesAgree
    PROVE  Spec => [](TypeInv /\ WholeInv)
<1>1. Init => TypeInv /\ WholeInv
  BY InitTyped, InitWhole
<1>2. TypeInv /\ WholeInv /\ [Next]_vars => TypeInv' /\ WholeInv'
  BY NextTyped, NextWhole
<1> QED
  BY <1>1, <1>2, PTL DEF Spec

(* For bindings of any protocol: a NULL string is not taken for an empty   *)
(* one, nor for the bytes behind it, whatever happened on the way; its     *)
(* message ends in an error, of one kind if it arrived as it was sent.     *)
THEOREM BindingsNullRefused ==
    ASSUME TablesAgree
    PROVE  Spec => []NullRefused
<1>1. TypeInv /\ WholeInv => NullRefused
  <2> SUFFICES ASSUME TypeInv, WholeInv, WithNull PROVE NullRefused
    BY DEF NullRefused
  <2>1. PICK i \in DOMAIN pushed : pushed[i] = "null"
    BY DEF WithNull
  <2>2. ASSUME Right, phase = "delivered" PROVE FALSE
    <3>1. PICK marks : Shape /\ Position /\ GotTo(marks)
      BY <2>2 DEF WholeInv, Going
    <3>2. Len(args) = Len(pushed)
      BY <2>2, <3>1 DEF Position
    <3>3. i \in 1 .. Len(pushed)
      <4>1. pushed \in Seq(Kinds \cup {"null"})
        BY <3>1 DEF Shape
      <4> QED
        BY <4>1
    <3> QED
      BY <2>1, <3>1, <3>2, <3>3 DEF GotTo
  <2>3. ASSUME intact PROVE phase \in {"push", "transit", "read", "EmptyString"}
    BY <2>2, <2>3 DEF WholeInv, Going
  <2> QED
    BY <2>2, <2>3 DEF NullRefused, Right
<1> QED
  BY <1>1, WholeAlways, PTL

(* For bindings of any protocol: what a handler or struct gets are the     *)
(* arguments that were sent, whatever was cut off the payload; and the     *)
(* descriptors are all those that came, in order, and as many as were sent. *)
THEOREM BindingsDeliveredWhole ==
    ASSUME TablesAgree
    PROVE  Spec => []DeliveredWhole
<1>1. TypeInv /\ WholeInv => DeliveredWhole
  <2> DEFINE FdsUpTo(n) == {i \in 1 .. n : pushed[i] = "fd"}
  <2> SUFFICES ASSUME TypeInv, WholeInv, phase = "delivered", Right
               PROVE  /\ Len(args) = Len(pushed)
                      /\ Len(packet.fds) = Cardinality(FdsUpTo(Len(pushed)))
                      /\ \A i \in 1 .. Len(pushed) :
                            args[i] = IF pushed[i] = "fd"
                                      THEN packet.fds[Cardinality(FdsUpTo(i))]
                                      ELSE values[pushed[i]]
    BY DEF DeliveredWhole, Right
  <2>1. PICK marks : Shape /\ Position /\ Layout(marks) /\ GotTo(marks)
    BY DEF WholeInv, Going
  <2>2. Len(args) = Len(pushed) /\ AllRead(packet, reader)
    BY <2>1 DEF Position
  <2>3. \A n : FdsUpTo(n) = FdsTo(pushed, n)
    BY DEF FdsTo
  <2>4. reader.fdPos = Cardinality(FdsTo(pushed, Len(pushed)))
    <3>1. Len(pushed) \in 0 .. Len(pushed)
      BY <2>1 DEF Shape
    <3> QED
      BY <2>1, <2>2, <3>1 DEF Layout, GotTo
  <2>5. Len(packet.fds) = reader.fdPos
    <3>1. /\ Len(packet.fds) \in Nat /\ reader.fdPos \in Nat
          /\ reader.fdPos <= Len(packet.fds)
      BY DEF TypeInv, TypeOK, Packets, Readers
    <3> QED
      BY <2>2, <3>1 DEF AllRead
  <2> HIDE DEF FdsUpTo
  <2>6. \A i \in 1 .. Len(pushed) : args[i] = Received(i)
    BY <2>1, <2>2 DEF GotTo
  <2> QED
    BY <2>2, <2>3, <2>4, <2>5, <2>6 DEF Received
<1> QED
  BY <1>1, WholeAlways, PTL

-----------------------------------------------------------------------------
(* What the generator makes of a protocol. *)

LEMMA ProcedureParts ==
    ASSUME NEW procedures, IsProcedures(procedures), NEW i \in DOMAIN procedures
    PROVE  /\ i \in 1 .. Len(procedures)
           /\ procedures[i].name \in STRING
           /\ procedures[i].args \in Seq([arg_type : ArgTypes, known : BOOLEAN])
<1>1. i \in 1 .. Len(procedures) /\ procedures[i] \in Procedure
  BY DEF IsProcedures
<1> QED
  BY <1>1 DEF Procedure

LEMMA IndexIs ==
    ASSUME NEW procedures, IsProcedures(procedures), NEW i \in DOMAIN procedures
    PROVE  Index(procedures, procedures[i].name) = i
BY DEF IsProcedures, Index

LEMMA NameHasIndex ==
    ASSUME NEW procedures, NEW n \in Names(procedures)
    PROVE  /\ Index(procedures, n) \in DOMAIN procedures
           /\ procedures[Index(procedures, n)].name = n
BY DEF Names, Index

LEMMA OpcodesDiffer ==
    ASSUME NEW procedures, IsProcedures(procedures),
           NEW m \in Names(procedures), NEW n \in Names(procedures),
           Opcode(procedures, m) = Opcode(procedures, n)
    PROVE  m = n
<1>1. /\ Index(procedures, m) \in 1 .. Len(procedures)
      /\ Index(procedures, n) \in 1 .. Len(procedures)
  BY NameHasIndex, ProcedureParts
<1>2. Len(procedures) \in Nat
  BY DEF IsProcedures
<1>3. Index(procedures, m) = Index(procedures, n)
  BY <1>1, <1>2 DEF Opcode
<1> QED
  BY <1>3, NameHasIndex

(* Reading and writing choose alike, for every type of an argument. *)
LEMMA KindsOfProcedure ==
    ASSUME NEW procedure,
           procedure.args \in Seq([arg_type : ArgTypes, known : BOOLEAN])
    PROVE  /\ ReadKinds(procedure) = WriteKinds(procedure)
           /\ ReadKinds(procedure) \in Seq(Kinds)
           /\ Len(ReadKinds(procedure)) = Len(procedure.args)
<1> DEFINE A == procedure.args
<1>1. Len(A) \in Nat /\ DOMAIN A = 1 .. Len(A)
  OBVIOUS
<1>2. \A i \in 1 .. Len(A) : A[i].arg_type \in ArgTypes /\ A[i].known \in BOOLEAN
  <2> DEFINE Arg == [arg_type : ArgTypes, known : BOOLEAN]
  <2>1. A \in Seq(Arg)
    OBVIOUS
  <2>2. \A a \in Arg : a.arg_type \in ArgTypes /\ a.known \in BOOLEAN
    OBVIOUS
  <2> HIDE DEF Arg, A
  <2>3. \A i \in 1 .. Len(A) : A[i] \in Arg
    BY <2>1
  <2> QED
    BY <2>2, <2>3
<1>3. \A i \in 1 .. Len(A) : ReadFunc(A[i].arg_type, A[i].known) \in Kinds
  BY <1>2 DEF ReadFunc, ArgTypes, Kinds
<1>4. ReadKinds(procedure) \in [1 .. Len(A) -> Kinds]
  BY <1>3 DEF ReadKinds
<1>5. ReadKinds(procedure) \in Seq(Kinds) /\ Len(ReadKinds(procedure)) = Len(A)
  BY <1>1, <1>4
<1> QED
  BY <1>5 DEF ReadKinds, WriteKinds, ReadFunc, WriteFunc

(* There are as many names as procedures. *)
LEMMA AsManyNames ==
    ASSUME NEW procedures, IsProcedures(procedures)
    PROVE  /\ IsFiniteSet(Names(procedures))
           /\ Cardinality(Names(procedures)) = Len(procedures)
<1> DEFINE n == Len(procedures)
           f == [i \in 1 .. n |-> procedures[i].name]
<1>1. n \in Nat /\ DOMAIN procedures = 1 .. n
  BY DEF IsProcedures
<1>2. f \in Bijection(1 .. n, Names(procedures))
  <2>1. \A i \in 1 .. n : f[i] = procedures[i].name
    OBVIOUS
  <2>2. f \in [1 .. n -> Names(procedures)]
    BY <1>1 DEF Names
  <2>3. \A a, b \in 1 .. n : f[a] = f[b] => a = b
    BY <1>1, <2>1 DEF IsProcedures
  <2>4. \A m \in Names(procedures) : \E i \in 1 .. n : f[i] = m
    BY <1>1, <2>1 DEF Names
  <2> HIDE DEF f
  <2> QED
    BY <2>2, <2>3, <2>4 DEF Bijection, Injection, Surjection, IsInjective
<1>3. IsFiniteSet(1 .. n) /\ Cardinality(1 .. n) = n
  <2>1. n \in Nat
    BY <1>1
  <2> HIDE DEF n, f
  <2>2. IsFiniteSet(1 .. n) /\ Cardinality(1 .. n) = IF 1 > n THEN 0 ELSE n - 1 + 1
    BY <2>1, FS_Interval
  <2> QED
    BY <2>1, <2>2
<1> HIDE DEF f, n
<1>4. ExistsBijection(1 .. n, Names(procedures))
  BY <1>2 DEF ExistsBijection
<1>5. IsFiniteSet(Names(procedures)) /\ Cardinality(Names(procedures)) = n
  <2> DEFINE N == Names(procedures)
             I == 1 .. n
  <2>1. IsFiniteSet(I) /\ ExistsBijection(I, N) /\ Cardinality(I) = n
    BY <1>3, <1>4
  <2> HIDE DEF N, I
  <2>2. IsFiniteSet(N) /\ Cardinality(N) = Cardinality(I)
    BY <2>1, FS_Bijection
  <2> QED
    BY <2>1, <2>2 DEF N
<1> QED
  BY <1>5 DEF n


(* A kind is the method for the argument that it is taken for. *)
LEMMA ArgReadBack ==
    ASSUME NEW kind \in Kinds
    PROVE  /\ ReadFunc(ArgRead(kind).arg_type, ArgRead(kind).known) = kind
           /\ ArgRead(kind) \in [arg_type : ArgTypes, known : BOOLEAN]
BY DEF ReadFunc, ArgRead, ArgTypes, Kinds

LEMMA ArgStructsAt ==
    ASSUME NEW procedures, IsProcedures(procedures), NEW i \in DOMAIN procedures
    PROVE  LET struct == ArgStructs(procedures)[procedures[i].name]
           IN  /\ procedures[i].name \in DOMAIN ArgStructs(procedures)
               /\ struct.opcode = i - 1
               /\ struct.reads = ReadKinds(procedures[i])
               /\ struct.pushes = WriteKinds(procedures[i])
<1> DEFINE n == procedures[i].name
<1>1. n \in Names(procedures)
  BY DEF Names
<1>2. Index(procedures, n) = i
  BY IndexIs
<1> HIDE DEF n
<1>3. ArgStructs(procedures)[n] = ArgsOf(i - 1, ReadKinds(procedures[i]),
                                         WriteKinds(procedures[i]))
  BY <1>1, <1>2 DEF ArgStructs, Opcode
<1>4. n \in DOMAIN ArgStructs(procedures)
  BY <1>1 DEF ArgStructs
<1> QED
  BY <1>3, <1>4 DEF ArgsOf, n

(* The procedures read back from argument structs are those that the       *)
(* structs are of, up to what the methods do not tell apart.               *)
LEMMA ProceduresReadBack ==
    ASSUME NEW procedures, IsProcedures(procedures)
    PROVE  LET back == ProceduresOf(ArgStructs(procedures))
           IN  /\ DOMAIN back = DOMAIN procedures
               /\ \A i \in DOMAIN procedures :
                     /\ back[i].name = procedures[i].name
                     /\ ReadKinds(back[i]) = ReadKinds(procedures[i])
                     /\ WriteKinds(back[i]) = WriteKinds(procedures[i])
<1> DEFINE structs == ArgStructs(procedures)
           back == ProceduresOf(structs)
<1>1. DOMAIN structs = Names(procedures)
  BY DEF ArgStructs
<1>2. Len(procedures) \in Nat /\ DOMAIN procedures = 1 .. Len(procedures)
  BY DEF IsProcedures
<1>3. DOMAIN back = DOMAIN procedures
  BY <1>1, <1>2, AsManyNames DEF ProceduresOf
<1>4. ASSUME NEW i \in DOMAIN procedures
      PROVE  /\ back[i].name = procedures[i].name
             /\ ReadKinds(back[i]) = ReadKinds(procedures[i])
             /\ WriteKinds(back[i]) = WriteKinds(procedures[i])
  <2> DEFINE n == procedures[i].name
             chosen == CHOOSE m \in DOMAIN structs : structs[m].opcode = i - 1
             reads == ReadKinds(procedures[i])
             A == [j \in 1 .. Len(reads) |-> ArgRead(reads[j])]
  <2>1. /\ n \in DOMAIN structs /\ structs[n].opcode = i - 1
        /\ structs[n].reads = reads
    BY ArgStructsAt
  <2>2. ASSUME NEW m \in DOMAIN structs, structs[m].opcode = i - 1
        PROVE  m = n
    <3>1. structs[m].opcode = Opcode(procedures, m)
          /\ structs[n].opcode = Opcode(procedures, n)
      BY <1>1, <2>1 DEF ArgStructs, ArgsOf
    <3> QED
      BY <3>1, <1>1, <2>1, <2>2, OpcodesDiffer
  <2>3. chosen = n
    BY <2>1, <2>2
  <2>4. back[i] = ProcedureOf(structs, chosen)
    BY <1>1, <1>2, AsManyNames DEF ProceduresOf
  <2>5. back[i] = [name |-> n, args |-> A]
    BY <2>1, <2>3, <2>4 DEF ProcedureOf
  <2>6. /\ reads \in Seq(Kinds) /\ reads = WriteKinds(procedures[i])
    BY ProcedureParts, KindsOfProcedure
  <2>7. back[i].name = n /\ back[i].args = A
    BY <2>5
  <2>8. Len(reads) \in Nat /\ \A j \in 1 .. Len(reads) : reads[j] \in Kinds
    BY <2>6
  <2>9. reads = [j \in 1 .. Len(reads) |-> reads[j]]
    BY <2>6
  <2> DEFINE Arg == [arg_type : ArgTypes, known : BOOLEAN]
  <2>10. A \in [1 .. Len(reads) -> Arg]
    BY <2>8, ArgReadBack
  <2>11. A \in Seq(Arg) /\ Len(A) = Len(reads)
    BY <2>8, <2>10
  <2>12. \A j \in 1 .. Len(reads) : ReadFunc(A[j].arg_type, A[j].known) = reads[j]
    BY <2>8, ArgReadBack
  <2>13. ReadKinds(back[i]) = [j \in 1 .. Len(A) |-> ReadFunc(A[j].arg_type, A[j].known)]
    BY <2>7 DEF ReadKinds
  <2> HIDE DEF A, reads, back, structs, n
  <2>14. ReadKinds(back[i]) = reads
    BY <2>9, <2>11, <2>12, <2>13
  <2>15. ReadKinds(back[i]) = WriteKinds(back[i])
    <3>1. back[i].args \in Seq([arg_type : ArgTypes, known : BOOLEAN])
      BY <2>7, <2>11
    <3> QED
      BY <3>1, KindsOfProcedure
  <2> QED
    BY <2>6, <2>7, <2>14, <2>15 DEF n, reads
<1> QED
  BY <1>3, <1>4

(* Procedures with the same names, decoders and write calls are generated  *)
(* alike.                                                                  *)
LEMMA GeneratedAlike ==
    ASSUME NEW procedures, NEW back,
           DOMAIN back = DOMAIN procedures,
           \A i \in DOMAIN procedures :
              /\ back[i].name = procedures[i].name
              /\ ReadKinds(back[i]) = ReadKinds(procedures[i])
              /\ WriteKinds(back[i]) = WriteKinds(procedures[i])
    PROVE  /\ RequestProxies(back) = RequestProxies(procedures)
           /\ EventHandlers(back) = EventHandlers(procedures)
           /\ ArgStructs(back) = ArgStructs(procedures)
<1>1. Names(back) = Names(procedures)
  BY DEF Names
<1>2. \A n : Index(back, n) = Index(procedures, n)
  BY DEF Index
<1>3. \A n : Opcode(back, n) = Opcode(procedures, n)
  BY <1>2 DEF Opcode
<1>4. \A n \in Names(procedures) :
         /\ ReadKinds(back[Index(back, n)])
               = ReadKinds(procedures[Index(procedures, n)])
         /\ WriteKinds(back[Index(back, n)])
               = WriteKinds(procedures[Index(procedures, n)])
  BY <1>2, NameHasIndex
<1> QED
  BY <1>1, <1>3, <1>4 DEF RequestProxies, EventHandlers, ArgStructs

(* Reading back the protocol and generating again changes nothing. *)
LEMMA GeneratedAgain ==
    ASSUME NEW interface, IsInterface(interface)
    PROVE  TokenizeInterface(InterfaceOf(TokenizeInterface(interface)))
              = TokenizeInterface(interface)
<1> DEFINE tables == TokenizeInterface(interface)
           requests == ProceduresOf(ArgStructs(interface.requests))
           events == ProceduresOf(ArgStructs(interface.events))
<1>1. InterfaceOf(tables) = [requests |-> requests, events |-> events]
  BY DEF TokenizeInterface, Interface, InterfaceOf
<1>2. /\ RequestProxies(requests) = RequestProxies(interface.requests)
      /\ ArgStructs(requests) = ArgStructs(interface.requests)
  BY ProceduresReadBack, GeneratedAlike DEF IsInterface
<1>3. /\ EventHandlers(events) = EventHandlers(interface.events)
      /\ ArgStructs(events) = ArgStructs(interface.events)
  BY ProceduresReadBack, GeneratedAlike DEF IsInterface
<1> HIDE DEF requests, events
<1>4. TokenizeInterface([requests |-> requests, events |-> events]) = tables
  BY <1>2, <1>3 DEF TokenizeInterface
<1> QED
  BY <1>1, <1>4

(* What wlproto generates for an interface, message by message. *)
LEMMA GeneratedTables ==
    ASSUME NEW interface, IsInterface(interface),
           NEW tables, tables = TokenizeInterface(interface)
    PROVE  /\ \A m \in DOMAIN tables.requests :
                 /\ tables.request_args[m].reads = tables.requests[m].kinds
                 /\ tables.requests[m].kinds \in Seq(Kinds)
           /\ DOMAIN tables.event_args = DOMAIN tables.events
           /\ \A m \in DOMAIN tables.events :
                 /\ tables.events[m].opcode = tables.event_args[m].opcode
                 /\ tables.events[m].kinds = tables.event_args[m].pushes
                 /\ tables.events[m].kinds \in Seq(Kinds)
           /\ \A m, n \in DOMAIN tables.events :
                 tables.events[m].opcode = tables.events[n].opcode => m = n
<1> DEFINE requests == interface.requests
           events == interface.events
<1>1. /\ tables.requests = RequestProxies(requests)
      /\ tables.events = EventHandlers(events)
      /\ tables.request_args = ArgStructs(requests)
      /\ tables.event_args = ArgStructs(events)
  BY DEF TokenizeInterface, Interface
<1>2. IsProcedures(requests) /\ IsProcedures(events)
  BY DEF IsInterface
<1> HIDE DEF requests, events
<1>3. ASSUME NEW m \in Names(requests)
      PROVE  /\ ArgStructs(requests)[m].reads = RequestProxies(requests)[m].kinds
             /\ RequestProxies(requests)[m].kinds \in Seq(Kinds)
  <2> DEFINE p == requests[Index(requests, m)]
  <2>1. ReadKinds(p) = WriteKinds(p) /\ ReadKinds(p) \in Seq(Kinds)
    BY <1>2, NameHasIndex, ProcedureParts, KindsOfProcedure
  <2> HIDE DEF p
  <2>2. /\ ArgStructs(requests)[m].reads = ReadKinds(p)
        /\ RequestProxies(requests)[m].kinds = WriteKinds(p)
    BY DEF ArgStructs, RequestProxies, ArgsOf, Message, p
  <2> QED
    BY <2>1, <2>2
<1>4. ASSUME NEW m \in Names(events)
      PROVE  /\ EventHandlers(events)[m].opcode = Opcode(events, m)
             /\ ArgStructs(events)[m].opcode = Opcode(events, m)
             /\ EventHandlers(events)[m].kinds = ArgStructs(events)[m].pushes
             /\ EventHandlers(events)[m].kinds \in Seq(Kinds)
  <2> DEFINE p == events[Index(events, m)]
  <2>1. ReadKinds(p) = WriteKinds(p) /\ ReadKinds(p) \in Seq(Kinds)
    BY <1>2, NameHasIndex, ProcedureParts, KindsOfProcedure
  <2> HIDE DEF p
  <2>2. /\ ArgStructs(events)[m].pushes = WriteKinds(p)
        /\ EventHandlers(events)[m].kinds = ReadKinds(p)
        /\ EventHandlers(events)[m].opcode = Opcode(events, m)
        /\ ArgStructs(events)[m].opcode = Opcode(events, m)
    BY DEF ArgStructs, EventHandlers, ArgsOf, Message, p
  <2> QED
    BY <2>1, <2>2
<1>5. /\ DOMAIN RequestProxies(requests) = Names(requests)
      /\ DOMAIN EventHandlers(events) = Names(events)
      /\ DOMAIN ArgStructs(events) = Names(events)
  BY DEF RequestProxies, EventHandlers, ArgStructs
<1>6. ASSUME NEW m \in Names(events), NEW n \in Names(events),
             EventHandlers(events)[m].opcode = EventHandlers(events)[n].opcode
      PROVE  m = n
  BY <1>2, <1>4, <1>6, OpcodesDiffer
<1> QED
  BY <1>1, <1>3, <1>4, <1>5, <1>6

(* The places that know a message agree in whatever wlproto generates: for *)
(* every protocol, not only for the three whose bindings are in the        *)
(* repository, one enumeration gives the opcode to handler and struct, and *)
(* one type gives the methods that write and read an argument.             *)
THEOREM GeneratedTablesAgree ==
    ASSUME NEW protocol, IsProtocol(protocol),
           Interfaces = TokenizeProtocol(protocol)
    PROVE  TablesAgree
<1>1. DOMAIN Interfaces = DOMAIN protocol
  BY DEF TokenizeProtocol
<1>2. ASSUME NEW i \in DOMAIN protocol
      PROVE  IsInterface(protocol[i]) /\ Interfaces[i] = TokenizeInterface(protocol[i])
  BY DEF TokenizeProtocol, IsProtocol
<1> QED
  BY <1>1, <1>2, GeneratedTables DEF TablesAgree

(* What wlproto generates for a protocol is what it generates for the      *)
(* protocol that is read back from the tables: TablesGenerated recognizes  *)
(* every output of the generator, and so is a test of the generator's work *)
(* and not of the way the three protocols happen to be written.            *)
THEOREM TablesGeneratedCorrect ==
    ASSUME NEW protocol, IsProtocol(protocol),
           Interfaces = TokenizeProtocol(protocol)
    PROVE  Spec => []TablesGenerated
<1>1. \A i \in DOMAIN Interfaces :
         Interfaces[i] = TokenizeInterface(InterfaceOf(Interfaces[i]))
  BY GeneratedAgain DEF TokenizeProtocol, IsProtocol
<1>2. TypeInv => TablesGenerated
  BY <1>1 DEF TypeInv, NamesOK, TablesGenerated
<1> QED
  BY <1>2, InitTyped, NextTyped, PTL DEF Spec

(* The bindings of any protocol work: what arrives as it was sent is       *)
(* delivered with its arguments, a NULL string is refused, and what is     *)
(* delivered of a damaged packet is whole.  Nothing is assumed of the      *)
(* tables but that they were generated.                                    *)
THEOREM GeneratedBindingsWork ==
    ASSUME NEW protocol, IsProtocol(protocol),
           Interfaces = TokenizeProtocol(protocol)
    PROVE  Spec => [](IntactArrives /\ NullRefused /\ DeliveredWhole)
<1>1. TablesAgree
  BY GeneratedTablesAgree
<1>2. Spec => []IntactArrives
  BY <1>1, BindingsIntactArrives
<1>3. Spec => []NullRefused
  BY <1>1, BindingsNullRefused
<1>4. Spec => []DeliveredWhole
  BY <1>1, BindingsDeliveredWhole
<1> QED
  BY <1>2, <1>3, <1>4, PTL

=============================================================================
