---------------------------- MODULE CodingProofs ----------------------------
(***************************************************************************)
(* Proofs about GsPassword and Config, for passwords and lines of any      *)
(* length.                                                                 *)
(***************************************************************************)
EXTENDS GsPassword, Config, WellFoundedInduction, TLAPS

(* A set of positions that is not empty has a first. *)
LEMMA LeastPosition ==
  ASSUME NEW S \in SUBSET Nat, S # {}
  PROVE  \E k \in S : \A l \in S : k <= l
<1> DEFINE less == {p \in Nat \X Nat : p[1] < p[2]}
<1>1. IsWellFoundedOn(less, Nat)
  BY NatLessThanWellFounded DEF OpToRel
<1>2. PICK k \in S : \A l \in S : ~ (<<l, k>> \in less)
  BY <1>1, WFMin
<1>3. ASSUME NEW l \in S PROVE k <= l
  <2>1. ~ (<<l, k>> \in less)
    BY <1>2
  <2>2. ~ (l < k)
    BY <2>1
  <2> QED BY <2>2
<1> QED BY <1>3

-----------------------------------------------------------------------------
(* The key stream. *)

(* Bounds are written as inequalities: MaxInt is too large for the provers  *)
(* to enumerate a range.                                                      *)
Within(x, low, high) == x \in Int /\ low <= x /\ x <= high

LEMMA RangeIsWithin ==
  ASSUME NEW low \in Int, NEW high \in Int
  PROVE  \A x : x \in low .. high <=> Within(x, low, high)
BY DEF Within

LEMMA MaxIntIsInt == MaxInt \in Int
BY DEF MaxInt

(* Folding the carry in is addition up to a multiple of MaxInt. *)
LEMMA FoldedSumIsModular ==
  ASSUME NEW x, NEW y, Within(x, 0, MaxInt), Within(y, 0, MaxInt)
  PROVE  /\ Within(FoldedSum(x, y), 0, MaxInt)
         /\ FoldedSum(x, y) = x + y \/ FoldedSum(x, y) = x + y - MaxInt
BY MaxIntIsInt DEF FoldedSum, Within

(* gslame multiplies with 16807, modulo MaxInt. *)
LEMMA GslameIsModular ==
  ASSUME NEW x, Within(x, 1, MaxInt - 1)
  PROVE  /\ Within(gslame(x), 0, MaxInt)
         /\ \E k \in Int : gslame(x) = 16807 * x - k * MaxInt
<1> DEFINE h == x \div 65536
           l == x % 65536
           m == (h * 16807) % 32768
           q == (h * 16807) \div 32768
           s == FoldedSum(l * 16807, m * 65536)
<1>1. Within(h, 0, 32767) /\ Within(l, 0, 65535) /\ x = h * 65536 + l
  BY SMT DEF MaxInt, Within
<1>2. Within(m, 0, 32767) /\ Within(q, 0, 16807) /\ h * 16807 = q * 32768 + m
  <2> HIDE DEF h
  <2> QED BY <1>1, SMT DEF Within
<1>3. gslame(x) = FoldedSum(s, q)
  BY SMT DEF gslame
<1> HIDE DEF h, l, m, q
<1>4. Within(l * 16807, 0, MaxInt) /\ Within(m * 65536, 0, MaxInt) /\ Within(q, 0, MaxInt)
  BY <1>1, <1>2, SMT DEF MaxInt, Within
<1>5. /\ Within(s, 0, MaxInt)
      /\ s = l * 16807 + m * 65536 \/ s = l * 16807 + m * 65536 - MaxInt
  BY <1>4, FoldedSumIsModular
<1> HIDE DEF s
<1>6. /\ Within(gslame(x), 0, MaxInt)
      /\ gslame(x) = s + q \/ gslame(x) = s + q - MaxInt
  BY <1>3, <1>4, <1>5, FoldedSumIsModular
<1>7. 16807 * x = l * 16807 + m * 65536 + q + q * MaxInt
  BY <1>1, <1>2, SMT DEF MaxInt, Within
<1>8. \/ gslame(x) = 16807 * x - q * MaxInt
      \/ gslame(x) = 16807 * x - (q + 1) * MaxInt
      \/ gslame(x) = 16807 * x - (q + 2) * MaxInt
  BY <1>1, <1>2, <1>5, <1>6, <1>7, SMT DEF MaxInt, Within
<1>9. q \in Int /\ q + 1 \in Int /\ q + 2 \in Int
  BY <1>2 DEF Within
<1> QED BY <1>6, <1>8, <1>9

(* So does Schrage's formula, and it never comes to 0. *)
LEMMA SchrageIsModular ==
  ASSUME NEW x, Within(x, 1, MaxInt - 1)
  PROVE  /\ Within(Schrage(x), 1, MaxInt - 1)
         /\ \E k \in Int : Schrage(x) = 16807 * x - k * MaxInt
<1> DEFINE d == x \div 127773
           r == x % 127773
           next == 16807 * r - 2836 * d
<1>1. Within(d, 0, 16807) /\ Within(r, 0, 127772) /\ x = 127773 * d + r
  BY SMT DEF MaxInt, Within
<1>2. Schrage(x) = IF next > 0 THEN next ELSE next + MaxInt
  BY SMT DEF Schrage
<1> HIDE DEF d, r
<1>3. next = 16807 * x - d * MaxInt
  BY <1>1, SMT DEF MaxInt, Within
<1>4. next # 0
  <2> SUFFICES ASSUME next = 0 PROVE FALSE
    OBVIOUS
  <2>0. 16807 * r = 2836 * d
    BY <1>1, SMT DEF Within
  (* 5790 * 2836 = 977 * 16807 + 1: the two have no common factor. *)
  <2>1. d = 16807 * (5790 * r - 977 * d)
    BY <1>1, <2>0, SMT DEF Within
  <2>2. 5790 * r - 977 * d = 0 \/ 5790 * r - 977 * d = 1
    BY <1>1, <2>1, SMT DEF Within
  <2>3. \/ d = 0 /\ r = 0
        \/ d = 16807 /\ r = 2836
    BY <1>1, <2>0, <2>1, <2>2, SMT DEF Within
  <2> QED BY <1>1, <2>3, SMT DEF MaxInt, Within
<1>5. Within(next, -(MaxInt - 1), MaxInt - 1)
  BY <1>1, SMT DEF MaxInt, Within
<1> HIDE DEF next
<1>6. Within(Schrage(x), 1, MaxInt - 1)
  BY <1>2, <1>4, <1>5, SMT DEF MaxInt, Within
<1>7. Schrage(x) = 16807 * x - d * MaxInt \/ Schrage(x) = 16807 * x - (d - 1) * MaxInt
  BY <1>1, <1>2, <1>3, SMT DEF MaxInt, Within
<1>8. d \in Int /\ d - 1 \in Int
  BY <1>1 DEF Within
<1> QED BY <1>6, <1>7, <1>8

(* Two numbers that differ by a multiple of MaxInt, one of them from 1 to     *)
(* MaxInt - 1 and the other from 0 to MaxInt, are one.                        *)
LEMMA GslameIsSchrage ==
  ASSUME NEW x, Within(x, 1, MaxInt - 1)
  PROVE  gslame(x) = Schrage(x) /\ Within(gslame(x), 1, MaxInt - 1)
<1>1. PICK j \in Int : gslame(x) = 16807 * x - j * MaxInt
  BY GslameIsModular
<1>2. PICK k \in Int : Schrage(x) = 16807 * x - k * MaxInt
  BY SchrageIsModular
<1>3. Within(gslame(x), 0, MaxInt) /\ Within(Schrage(x), 1, MaxInt - 1)
  BY GslameIsModular, SchrageIsModular
<1>4. x \in Int
  BY DEF Within
<1>5. j = k
  BY <1>1, <1>2, <1>3, <1>4, SMT DEF MaxInt, Within
<1>6. gslame(x) = Schrage(x)
  BY <1>1, <1>2, <1>5
<1> QED BY <1>3, <1>6

LEMMA RemainderIsByte ==
  ASSUME NEW n \in Int
  PROVE  n % 255 \in 0 .. 254
OBVIOUS

(* The generator's number stays in its range, and there is a byte of the key  *)
(* for every byte typed.                                                      *)
PasswordInv ==
  /\ typed \in Seq(Char)
  /\ Within(num, 1, MaxInt - 1)
  /\ key \in Seq(0 .. 254)
  /\ Len(key) = Len(typed)

LEMMA PasswordInvHolds == PasswordSpec => []PasswordInv
<1>1. NothingTyped => PasswordInv
  <2> SUFFICES ASSUME NothingTyped PROVE PasswordInv
    OBVIOUS
  <2>1. typed \in Seq(Char) /\ key \in Seq(0 .. 254) /\ Len(key) = Len(typed)
    BY DEF NothingTyped
  <2>2. Within(num, 1, MaxInt - 1)
    BY SMT DEF NothingTyped, Gspy, MaxInt, Within
  <2> QED BY <2>1, <2>2 DEF PasswordInv
<1>2. PasswordInv /\ [\E char \in Char : Type(char)]_<<typed, num, key>> => PasswordInv'
  <2> SUFFICES ASSUME PasswordInv, [\E char \in Char : Type(char)]_<<typed, num, key>>
               PROVE  PasswordInv'
    OBVIOUS
  <2>1. CASE UNCHANGED <<typed, num, key>>
    BY <2>1 DEF PasswordInv, Within
  <2>2. ASSUME NEW char \in Char, Type(char) PROVE PasswordInv'
    <3>1. num' = gslame(num) /\ Within(num, 1, MaxInt - 1)
      BY <2>2 DEF Type, NextKeyByte, PasswordInv
    <3>2. Within(gslame(num), 1, MaxInt - 1)
      BY <3>1, GslameIsSchrage
    <3>3. Within(num, 1, MaxInt - 1)'
      BY <3>1, <3>2 DEF Within, MaxInt
    <3>4. (num') % 255 \in 0 .. 254
      BY <3>3, RemainderIsByte DEF Within
    <3>5. typed' = Append(typed, char) /\ key' = Append(key, (num') % 255)
      BY <2>2 DEF Type, NextKeyByte
    <3> QED BY <3>3, <3>4, <3>5 DEF PasswordInv
  <2> QED BY <2>1, <2>2
<1> QED BY <1>1, <1>2, PTL DEF PasswordSpec

(* gspassenc computes Park and Miller's generator, whose number never comes   *)
(* to 0, however many bytes it goes through.                                  *)
THEOREM KeyStreamIsRight == PasswordSpec => []KeyIsParkMiller
<1>1. PasswordInv => KeyIsParkMiller
  <2> SUFFICES ASSUME PasswordInv PROVE KeyIsParkMiller
    OBVIOUS
  <2>1. Within(num, 1, MaxInt - 1)
    BY DEF PasswordInv
  <2>2. num \in 1 .. MaxInt - 1
    BY <2>1, RangeIsWithin, MaxIntIsInt
  <2> QED BY <2>1, <2>2, GslameIsSchrage DEF KeyIsParkMiller
<1> QED BY <1>1, PasswordInvHolds, PTL

-----------------------------------------------------------------------------
(* The operator ^ on bytes. *)

Byte == 0 .. 255
Weight == {1, 2, 4, 8, 16, 32, 64, 128}

(* A byte is the sum of its bits. *)
LEMMA ByteIsSumOfBits ==
  ASSUME NEW x \in Byte
  PROVE  /\ Bit(x, 1) \in {0, 1} /\ Bit(x, 2) \in {0, 1}
         /\ Bit(x, 4) \in {0, 1} /\ Bit(x, 8) \in {0, 1}
         /\ Bit(x, 16) \in {0, 1} /\ Bit(x, 32) \in {0, 1}
         /\ Bit(x, 64) \in {0, 1} /\ Bit(x, 128) \in {0, 1}
         /\ x = Bit(x, 1) + 2 * Bit(x, 2) + 4 * Bit(x, 4) + 8 * Bit(x, 8)
                + 16 * Bit(x, 16) + 32 * Bit(x, 32) + 64 * Bit(x, 64) + 128 * Bit(x, 128)
BY DEF Bit, Byte

(* The bits of a sum of bits are those that were summed. *)
LEMMA BitsOfSum ==
  ASSUME NEW a \in {0, 1}, NEW b \in {0, 1}, NEW c \in {0, 1}, NEW d \in {0, 1},
         NEW e \in {0, 1}, NEW f \in {0, 1}, NEW g \in {0, 1}, NEW h \in {0, 1},
         NEW s, s = a + 2 * b + 4 * c + 8 * d + 16 * e + 32 * f + 64 * g + 128 * h
  PROVE  /\ s \in Byte
         /\ Bit(s, 1) = a /\ Bit(s, 2) = b /\ Bit(s, 4) = c /\ Bit(s, 8) = d
         /\ Bit(s, 16) = e /\ Bit(s, 32) = f /\ Bit(s, 64) = g /\ Bit(s, 128) = h
<1>1. s \in Byte
  BY DEF Byte
<1>2. Bit(s, 1) = a
  BY DEF Bit
<1>3. Bit(s, 2) = b
  BY DEF Bit
<1>4. Bit(s, 4) = c
  BY DEF Bit
<1>5. Bit(s, 8) = d
  BY DEF Bit
<1>6. Bit(s, 16) = e
  BY DEF Bit
<1>7. Bit(s, 32) = f
  BY DEF Bit
<1>8. Bit(s, 64) = g
  BY DEF Bit
<1>9. Bit(s, 128) = h
  BY DEF Bit
<1> QED BY <1>1, <1>2, <1>3, <1>4, <1>5, <1>6, <1>7, <1>8, <1>9

(* Every bit of the result depends on the two bits in its place. *)
LEMMA XorBits ==
  ASSUME NEW x \in Byte, NEW y \in Byte
  PROVE  /\ Xor(x, y) \in Byte
         /\ \A w \in Weight : Bit(Xor(x, y), w) = (Bit(x, w) + Bit(y, w)) % 2
<1> DEFINE B(w) == (Bit(x, w) + Bit(y, w)) % 2
<1>1. /\ B(1) \in {0, 1} /\ B(2) \in {0, 1} /\ B(4) \in {0, 1} /\ B(8) \in {0, 1}
      /\ B(16) \in {0, 1} /\ B(32) \in {0, 1} /\ B(64) \in {0, 1} /\ B(128) \in {0, 1}
  BY ByteIsSumOfBits
<1>2. Xor(x, y) = 1 * B(1) + 2 * B(2) + 4 * B(4) + 8 * B(8)
                  + 16 * B(16) + 32 * B(32) + 64 * B(64) + 128 * B(128)
  BY DEF Xor
<1> HIDE DEF B
<1>3. Xor(x, y) = B(1) + 2 * B(2) + 4 * B(4) + 8 * B(8)
                  + 16 * B(16) + 32 * B(32) + 64 * B(64) + 128 * B(128)
  BY <1>1, <1>2
<1>4. Xor(x, y) \in Byte /\ \A w \in Weight : Bit(Xor(x, y), w) = B(w)
  BY <1>1, <1>3, BitsOfSum DEF Weight
<1> QED BY <1>4 DEF B

(* Two bytes with the same bits are one. *)
LEMMA SameBits ==
  ASSUME NEW x \in Byte, NEW y \in Byte, \A w \in Weight : Bit(x, w) = Bit(y, w)
  PROVE  x = y
BY ByteIsSumOfBits DEF Weight

LEMMA BitIsBinary ==
  ASSUME NEW x \in Byte, NEW w \in Weight
  PROVE  Bit(x, w) \in {0, 1}
BY ByteIsSumOfBits DEF Weight

(* gspassenc is its own inverse: the same byte twice changes nothing. *)
LEMMA XorTwice ==
  ASSUME NEW x \in Byte, NEW y \in Byte
  PROVE  Xor(Xor(x, y), y) = x
<1>1. Xor(x, y) \in Byte /\ Xor(Xor(x, y), y) \in Byte
  BY XorBits
<1>2. ASSUME NEW w \in Weight PROVE Bit(Xor(Xor(x, y), y), w) = Bit(x, w)
  <2>1. Bit(Xor(Xor(x, y), y), w) = (((Bit(x, w) + Bit(y, w)) % 2) + Bit(y, w)) % 2
    BY <1>1, XorBits
  <2>2. Bit(x, w) \in {0, 1} /\ Bit(y, w) \in {0, 1}
    BY BitIsBinary
  <2> QED BY <2>1, <2>2
<1> QED BY <1>1, <1>2, SameBits

(* A byte of the coded password is 0 where the typed one is its key byte. *)
LEMMA XorIsZero ==
  ASSUME NEW x \in Byte, NEW y \in Byte
  PROVE  Xor(x, y) = 0 <=> x = y
<1>1. Xor(x, y) \in Byte
  BY XorBits
<1>2. 0 \in Byte
  BY DEF Byte
<1>3. \A w \in Weight : Bit(0, w) = 0
  BY DEF Weight, Bit
<1>4. ASSUME Xor(x, y) = 0 PROVE x = y
  <2>1. ASSUME NEW w \in Weight PROVE Bit(x, w) = Bit(y, w)
    <3>1. (Bit(x, w) + Bit(y, w)) % 2 = 0
      BY <1>3, <1>4, XorBits
    <3>2. Bit(x, w) \in {0, 1} /\ Bit(y, w) \in {0, 1}
      BY BitIsBinary
    <3> QED BY <3>1, <3>2
  <2> QED BY <2>1, SameBits
<1>5. ASSUME x = y PROVE Xor(x, y) = 0
  <2>1. ASSUME NEW w \in Weight PROVE Bit(Xor(x, y), w) = Bit(0, w)
    <3>1. Bit(Xor(x, y), w) = (Bit(x, w) + Bit(x, w)) % 2
      BY <1>5, XorBits
    <3>2. Bit(x, w) \in {0, 1}
      BY BitIsBinary
    <3> QED BY <1>3, <3>1, <3>2
  <2> QED BY <1>1, <1>2, <2>1, SameBits
<1> QED BY <1>4, <1>5

-----------------------------------------------------------------------------
(* The transport. *)

(* The character at position k stands for six bits of the bytes. *)
SixBits(data, k) ==
  LET i == 3 * ((k - 1) \div 4)
      a == ByteOr0(data, i + 1)
      b == ByteOr0(data, i + 2)
      c == ByteOr0(data, i + 3)
  IN  CASE (k - 1) % 4 = 0 -> a \div 4
        [] (k - 1) % 4 = 1 -> (a % 4) * 16 + b \div 16
        [] (k - 1) % 4 = 2 -> (b % 16) * 4 + c \div 64
        [] OTHER -> c % 64

LEMMA EncodedCharacters ==
  ASSUME NEW data \in Seq(Byte)
  PROVE  /\ Len(base64_encode(data)) = Len(data) + (Len(data) + 2) \div 3
         /\ \A k \in 1 .. Len(data) + (Len(data) + 2) \div 3 :
              base64_encode(data)[k] = SixBits(data, k)
<1> DEFINE total == 4 * ((Len(data) + 2) \div 3)
           kept == Len(data) + (Len(data) + 2) \div 3
           chars == [k \in 1 .. total |-> SixBits(data, k)]
<1>1. base64_encode(data) = SubSeq(chars, 1, kept)
  BY DEF base64_encode, SixBits
<1>2. kept \in Nat /\ total \in Nat /\ kept <= total
  OBVIOUS
<1> HIDE DEF total, kept
<1>3. Len(SubSeq(chars, 1, kept)) = kept /\ \A k \in 1 .. kept : SubSeq(chars, 1, kept)[k] = chars[k]
  BY <1>2
<1>4. \A k \in 1 .. kept : chars[k] = SixBits(data, k)
  BY <1>2
<1> QED BY <1>1, <1>3, <1>4 DEF kept

LEMMA ByteOr0IsByte ==
  ASSUME NEW data \in Seq(Byte), NEW k \in Nat
  PROVE  ByteOr0(data, k) \in Byte
<1>1. 0 \in Byte
  BY DEF Byte
<1> QED BY <1>1 DEF ByteOr0

(* The two characters a byte is decoded from, by its place in its group. *)
LEMMA DecodedByte ==
  ASSUME NEW a \in Byte, NEW b \in Byte, NEW c \in Byte
  PROVE  /\ (a \div 4) * 4 + ((a % 4) * 16 + b \div 16) \div 16 = a
         /\ (((a % 4) * 16 + b \div 16) % 16) * 16 + ((b % 16) * 4 + c \div 64) \div 4 = b
         /\ (((b % 16) * 4 + c \div 64) % 4) * 64 + (c % 64) = c
<1>1. (a \div 4) * 4 + ((a % 4) * 16 + b \div 16) \div 16 = a
  BY DEF Byte
<1>2. (((a % 4) * 16 + b \div 16) % 16) * 16 + ((b % 16) * 4 + c \div 64) \div 4 = b
  BY DEF Byte
<1>3. (((b % 16) * 4 + c \div 64) % 4) * 64 + (c % 64) = c
  BY DEF Byte
<1> QED BY <1>1, <1>2, <1>3

(* The character of each place in a group of four. *)
LEMMA CharacterOfGroup ==
  ASSUME NEW data, NEW q \in Nat
  PROVE  /\ SixBits(data, 4 * q + 1) = ByteOr0(data, 3 * q + 1) \div 4
         /\ SixBits(data, 4 * q + 2) =
              (ByteOr0(data, 3 * q + 1) % 4) * 16 + ByteOr0(data, 3 * q + 2) \div 16
         /\ SixBits(data, 4 * q + 3) =
              (ByteOr0(data, 3 * q + 2) % 16) * 4 + ByteOr0(data, 3 * q + 3) \div 64
         /\ SixBits(data, 4 * q + 4) = ByteOr0(data, 3 * q + 3) % 64
<1>1. \A t \in 0 .. 3 : LET k == 4 * q + 1 + t IN (k - 1) \div 4 = q /\ (k - 1) % 4 = t
  OBVIOUS
<1>2. SixBits(data, 4 * q + 1) = ByteOr0(data, 3 * q + 1) \div 4
  BY <1>1 DEF SixBits
<1>3. SixBits(data, 4 * q + 2) =
        (ByteOr0(data, 3 * q + 1) % 4) * 16 + ByteOr0(data, 3 * q + 2) \div 16
  BY <1>1 DEF SixBits
<1>4. SixBits(data, 4 * q + 3) =
        (ByteOr0(data, 3 * q + 2) % 16) * 4 + ByteOr0(data, 3 * q + 3) \div 64
  BY <1>1 DEF SixBits
<1>5. SixBits(data, 4 * q + 4) = ByteOr0(data, 3 * q + 3) % 64
  BY <1>1 DEF SixBits
<1> QED BY <1>2, <1>3, <1>4, <1>5

(* base64_decode gives back what base64_encode was given, however long: the   *)
(* bytes arrive as they were sent.                                            *)
THEOREM TransportIsFaithful ==
  ASSUME NEW data \in Seq(Byte)
  PROVE  base64_decode(base64_encode(data)) = data
<1> DEFINE sent == base64_encode(data)
           got == base64_decode(sent)
           n == Len(data)
           last == n + (n + 2) \div 3
<1>1. n \in Nat /\ Len(sent) = last /\ \A k \in 1 .. last : sent[k] = SixBits(data, k)
  BY EncodedCharacters
<1>2. (3 * Len(sent)) \div 4 = n
  BY <1>1
<1> HIDE DEF sent
<1>3. got = [j \in 1 .. n |->
               LET k == j + (j - 1) \div 3
               IN  CASE (j - 1) % 3 = 0 -> sent[k] * 4 + sent[k + 1] \div 16
                     [] (j - 1) % 3 = 1 -> (sent[k] % 16) * 16 + sent[k + 1] \div 4
                     [] OTHER -> (sent[k] % 4) * 64 + sent[k + 1]]
  BY <1>2 DEF base64_decode
<1> HIDE DEF got
<1>4. ASSUME NEW j \in 1 .. n PROVE got[j] = data[j]
  <2> DEFINE q == (j - 1) \div 3
             a == ByteOr0(data, 3 * q + 1)
             b == ByteOr0(data, 3 * q + 2)
             c == ByteOr0(data, 3 * q + 3)
  <2>1. q \in Nat /\ 3 * q + ((j - 1) % 3) + 1 = j /\ (j - 1) % 3 \in 0 .. 2
    BY <1>1
  <2>2. a \in Byte /\ b \in Byte /\ c \in Byte
    BY <2>1, ByteOr0IsByte
  <2>3. ByteOr0(data, j) = data[j]
    BY <1>1 DEF ByteOr0
  <2>4. \A t \in 0 .. 2 : (j - 1) % 3 = t => 4 * q + t + 1 \in 1 .. last /\ 4 * q + t + 2 \in 1 .. last
    BY <1>1, <2>1
  <2>5. CASE (j - 1) % 3 = 0
    <3>1. j = 3 * q + 1 /\ j + q = 4 * q + 1 /\ j + q + 1 = 4 * q + 2
      BY <2>1, <2>5
    <3>2. /\ sent[j + q] = SixBits(data, 4 * q + 1)
          /\ sent[j + q + 1] = SixBits(data, 4 * q + 2)
      BY <1>1, <2>4, <2>5, <3>1
    <3>3. got[j] = sent[j + q] * 4 + sent[j + q + 1] \div 16
      BY <1>3, <2>5
    <3>4. sent[j + q] = a \div 4 /\ sent[j + q + 1] = (a % 4) * 16 + b \div 16
      BY <2>1, <3>2, CharacterOfGroup
    <3> HIDE DEF q, a, b, c
    <3>5. got[j] = a
      BY <2>2, <3>3, <3>4, DecodedByte
    <3> QED BY <2>3, <3>1, <3>5 DEF a
  <2>6. CASE (j - 1) % 3 = 1
    <3>1. j = 3 * q + 2 /\ j + q = 4 * q + 2 /\ j + q + 1 = 4 * q + 3
      BY <2>1, <2>6
    <3>2. /\ sent[j + q] = SixBits(data, 4 * q + 2)
          /\ sent[j + q + 1] = SixBits(data, 4 * q + 3)
      BY <1>1, <2>4, <2>6, <3>1
    <3>3. got[j] = (sent[j + q] % 16) * 16 + sent[j + q + 1] \div 4
      BY <1>3, <2>6
    <3>4. sent[j + q] = (a % 4) * 16 + b \div 16 /\ sent[j + q + 1] = (b % 16) * 4 + c \div 64
      BY <2>1, <3>2, CharacterOfGroup
    <3> HIDE DEF q, a, b, c
    <3>5. got[j] = b
      BY <2>2, <3>3, <3>4, DecodedByte
    <3> QED BY <2>3, <3>1, <3>5 DEF b
  <2>7. CASE (j - 1) % 3 = 2
    <3>1. j = 3 * q + 3 /\ j + q = 4 * q + 3 /\ j + q + 1 = 4 * q + 4
      BY <2>1, <2>7
    <3>2. /\ sent[j + q] = SixBits(data, 4 * q + 3)
          /\ sent[j + q + 1] = SixBits(data, 4 * q + 4)
      BY <1>1, <2>4, <2>7, <3>1
    <3>3. got[j] = (sent[j + q] % 4) * 64 + sent[j + q + 1]
      BY <1>3, <2>7
    <3>4. sent[j + q] = (b % 16) * 4 + c \div 64 /\ sent[j + q + 1] = c % 64
      BY <2>1, <3>2, CharacterOfGroup
    <3> HIDE DEF q, a, b, c
    <3>5. got[j] = c
      BY <2>2, <3>3, <3>4, DecodedByte
    <3> QED BY <2>3, <3>1, <3>5 DEF c
  <2> QED BY <2>1, <2>5, <2>6, <2>7
<1>5. got = [j \in 1 .. n |-> got[j]] /\ data = [j \in 1 .. n |-> data[j]]
  BY <1>3
<1>6. got = data
  BY <1>4, <1>5
<1> QED BY <1>6 DEF got, sent

-----------------------------------------------------------------------------
(* The password that is kept. *)

LEMMA ElementOfSeq ==
  ASSUME NEW S, NEW s \in Seq(S), NEW k \in 1 .. Len(s)
  PROVE  s[k] \in S
OBVIOUS

(* A C string is what comes before the first 0, if there is one. *)
LEMMA CStringEnds ==
  ASSUME NEW bytes \in Seq(Byte)
  PROVE  \E m \in 0 .. Len(bytes) :
           /\ CString(bytes) = SubSeq(bytes, 1, m)
           /\ \A k \in 1 .. m : bytes[k] # 0
           /\ m < Len(bytes) => bytes[m + 1] = 0
<1> DEFINE zeros == {k \in DOMAIN bytes : bytes[k] = 0}
           n == Len(bytes)
<1>1. n \in Nat /\ DOMAIN bytes = 1 .. n
  OBVIOUS
<1>2. CASE zeros = {}
  <2>1. CString(bytes) = bytes
    BY <1>2 DEF CString
  <2>2. SubSeq(bytes, 1, n) = bytes
    OBVIOUS
  <2>3. \A k \in 1 .. n : bytes[k] # 0
    BY <1>1, <1>2
  <2>4. CString(bytes) = SubSeq(bytes, 1, n)
    BY <2>1, <2>2
  <2>5. n \in 0 .. n /\ ~ (n < n)
    BY <1>1
  <2> HIDE DEF zeros
  <2> WITNESS n \in 0 .. Len(bytes)
  <2> QED BY <2>3, <2>4, <2>5, Zenon
<1>3. CASE zeros # {}
  <2> DEFINE first == CHOOSE k \in zeros : \A l \in zeros : k <= l
  <2>1. \E k \in zeros : \A l \in zeros : k <= l
    <3>1. zeros \in SUBSET Nat
      BY <1>1
    <3> HIDE DEF zeros
    <3> QED BY <1>3, <3>1, LeastPosition
  <2>2. first \in zeros /\ \A l \in zeros : first <= l
    BY <2>1
  <2>3. CString(bytes) = SubSeq(bytes, 1, first - 1)
    BY <1>3 DEF CString
  <2> HIDE DEF first
  <2>4. first \in 1 .. n /\ bytes[first] = 0
    BY <1>1, <2>2
  <2>5. \A k \in 1 .. first - 1 : bytes[k] # 0
    BY <1>1, <2>2, <2>4
  <2>6. first - 1 \in 0 .. n /\ first - 1 + 1 = first
    BY <1>1, <2>4
  <2> QED BY <2>3, <2>4, <2>5, <2>6
<1> QED BY <1>2, <1>3

(* The same key stream, applied twice, leaves the bytes as they were. *)
LEMMA CombinedBytes ==
  ASSUME NEW bytes \in Seq(Byte), key \in Seq(0 .. 254), Len(bytes) <= Len(key)
  PROVE  /\ Combined(bytes) \in Seq(Byte) /\ Len(Combined(bytes)) = Len(bytes)
         /\ \A k \in 1 .. Len(bytes) :
              /\ Combined(bytes)[k] = Xor(bytes[k], key[k])
              /\ bytes[k] \in Byte /\ key[k] \in Byte
<1>1. DOMAIN bytes = 1 .. Len(bytes) /\ Len(bytes) \in Nat
  OBVIOUS
<1>2. \A k \in 1 .. Len(bytes) : bytes[k] \in Byte
  OBVIOUS
<1>3. \A k \in 1 .. Len(bytes) : key[k] \in Byte
  <2>1. \A k \in 1 .. Len(key) : key[k] \in 0 .. 254
    BY ElementOfSeq
  <2> QED BY <1>1, <2>1 DEF Byte
<1>4. \A k \in 1 .. Len(bytes) : Xor(bytes[k], key[k]) \in Byte
  BY <1>2, <1>3, XorBits
<1>5. Combined(bytes) = [k \in 1 .. Len(bytes) |-> Xor(bytes[k], key[k])]
  BY <1>1 DEF Combined
<1> QED BY <1>1, <1>2, <1>3, <1>4, <1>5

LEMMA CharIsByte ==
  ASSUME NEW char \in Char
  PROVE  char \in Byte /\ char # 0
<1>1. char \in 1 .. 255
  BY CharAssumption
<1> QED BY <1>1 DEF Byte

(* gspassenc gives back what was typed, up to the first coded byte that is 0. *)
LEMMA KeptPassword ==
  ASSUME PasswordInv
  PROVE  \E m \in 0 .. Len(typed) :
           /\ m_Password(Sent(typed)) = SubSeq(typed, 1, m)
           /\ \A k \in 1 .. m : typed[k] # key[k]
           /\ m < Len(typed) => typed[m + 1] = key[m + 1]
<1> DEFINE n == Len(typed)
           coded == Combined(typed)
           cut == CString(coded)
<1>1. /\ n \in Nat /\ typed \in Seq(Char) /\ key \in Seq(0 .. 254) /\ Len(key) = n
  BY DEF PasswordInv
<1>2. \A k \in 1 .. n : typed[k] \in Byte /\ typed[k] # 0
  BY <1>1, ElementOfSeq, CharIsByte
<1>3. typed \in Seq(Byte)
  BY <1>1, <1>2
<1>4. /\ coded \in Seq(Byte) /\ Len(coded) = n
      /\ \A k \in 1 .. n : coded[k] = Xor(typed[k], key[k]) /\ key[k] \in Byte
  BY <1>1, <1>3, CombinedBytes
<1> HIDE DEF coded
<1>5. PICK m \in 0 .. n :
        /\ cut = SubSeq(coded, 1, m)
        /\ \A k \in 1 .. m : coded[k] # 0
        /\ m < n => coded[m + 1] = 0
  BY <1>4, CStringEnds
<1>6. \A k \in 1 .. n : coded[k] = 0 <=> typed[k] = key[k]
  BY <1>2, <1>4, XorIsZero
<1>7. cut \in Seq(Byte) /\ Len(cut) = m /\ \A k \in 1 .. m : cut[k] = coded[k]
  BY <1>1, <1>4, <1>5
<1> HIDE DEF cut
<1> DEFINE kept == Combined(cut)
<1>8. kept \in Seq(Byte) /\ Len(kept) = m /\ \A k \in 1 .. m : kept[k] = typed[k]
  <2>1. /\ kept \in Seq(Byte) /\ Len(kept) = m
        /\ \A k \in 1 .. m : kept[k] = Xor(cut[k], key[k])
    <3>1. Len(cut) <= Len(key)
      BY <1>1, <1>5, <1>7
    <3> QED BY <1>1, <1>7, <3>1, CombinedBytes
  <2>2. ASSUME NEW k \in 1 .. m PROVE kept[k] = typed[k]
    <3>1. kept[k] = Xor(Xor(typed[k], key[k]), key[k])
      BY <1>4, <1>5, <1>7, <2>1
    <3> QED BY <1>2, <1>4, <3>1, XorTwice
  <2> QED BY <2>1, <2>2
<1> HIDE DEF kept
<1>9. kept = SubSeq(typed, 1, m)
  BY <1>1, <1>8
<1>10. CString(kept) = kept
  <2>1. PICK l \in 0 .. m :
          /\ CString(kept) = SubSeq(kept, 1, l)
          /\ l < m => kept[l + 1] = 0
    BY <1>8, CStringEnds
  <2>2. l = m
    BY <1>2, <1>8, <2>1
  <2> QED BY <1>8, <2>1, <2>2
<1>11. m_Password(Sent(typed)) = kept
  BY <1>4, <1>10, TransportIsFaithful DEF m_Password, Sent, gspassenc, coded, cut, kept
<1>12. \A k \in 1 .. m : typed[k] # key[k]
  BY <1>1, <1>5, <1>6
<1>13. m < n => typed[m + 1] = key[m + 1]
  BY <1>1, <1>5, <1>6
<1> QED BY <1>9, <1>11, <1>12, <1>13

(* What the server keeps of a password is what the player typed, up to the    *)
(* first byte that is its byte of the key stream, and no more than that is    *)
(* lost, for passwords of any bytes and any length.                           *)
THEOREM PasswordIsCut == PasswordSpec => []CutAtKeyByte
<1>1. PasswordInv => CutAtKeyByte
  <2> SUFFICES ASSUME PasswordInv PROVE CutAtKeyByte
    OBVIOUS
  <2> DEFINE kept == m_Password(Sent(typed))
  <2>1. PICK m \in 0 .. Len(typed) :
          /\ kept = SubSeq(typed, 1, m)
          /\ \A k \in 1 .. m : typed[k] # key[k]
          /\ m < Len(typed) => typed[m + 1] = key[m + 1]
    BY KeptPassword
  <2> HIDE DEF kept
  <2>2. Len(kept) = m
    BY <2>1 DEF PasswordInv
  <2>3. Len(kept) <= Len(typed) /\ kept = SubSeq(typed, 1, Len(kept))
    BY <2>1, <2>2 DEF PasswordInv
  <2>4. /\ \A k \in 1 .. Len(kept) : typed[k] # key[k]
        /\ Len(kept) < Len(typed) => typed[Len(kept) + 1] = key[Len(kept) + 1]
    BY <2>1, <2>2
  <2> QED BY <2>3, <2>4 DEF CutAtKeyByte, kept
<1> QED BY <1>1, PasswordInvHolds, PTL

-----------------------------------------------------------------------------
(* The lines of the configuration. *)

LEMMA FirstIsLeast ==
  ASSUME NEW positions \in SUBSET Nat, NEW npos
  PROVE  /\ positions = {} => First(positions, npos) = npos
         /\ positions # {} => /\ First(positions, npos) \in positions
                              /\ \A l \in positions : First(positions, npos) <= l
<1>1. positions # {} => \E k \in positions : \A l \in positions : k <= l
  BY LeastPosition
<1> QED BY <1>1 DEF First

(* find gives the first position from which on is the character, or npos. *)
LEMMA FindIsFirst ==
  ASSUME NEW chars, Len(chars) \in Nat, NEW char, NEW from \in Nat
  PROVE  \/ /\ find(chars, char, from) = Len(chars) + 1
            /\ \A k \in from .. Len(chars) : chars[k] # char
         \/ /\ find(chars, char, from) \in from .. Len(chars)
            /\ chars[find(chars, char, from)] = char
            /\ \A k \in from .. find(chars, char, from) - 1 : chars[k] # char
<1> DEFINE positions == {k \in from .. Len(chars) : chars[k] = char}
<1>1. positions \in SUBSET Nat
  OBVIOUS
<1>2. find(chars, char, from) = First(positions, Len(chars) + 1)
  BY DEF find
<1>3. CASE positions = {}
  <2>1. First(positions, Len(chars) + 1) = Len(chars) + 1
    BY <1>1, <1>3, FirstIsLeast
  <2> QED BY <1>2, <1>3, <2>1
<1>4. CASE positions # {}
  <2> DEFINE f == First(positions, Len(chars) + 1)
  <2>1. f \in positions /\ \A l \in positions : f <= l
    <3> HIDE DEF positions
    <3> QED BY <1>1, <1>4, FirstIsLeast
  <2> HIDE DEF f
  <2>2. f \in from .. Len(chars) /\ chars[f] = char
    BY <2>1
  <2>3. \A k \in from .. f - 1 : chars[k] # char
    BY <2>1, <2>2
  <2> QED BY <1>2, <2>2, <2>3 DEF f
<1> QED BY <1>3, <1>4

LEMMA FindFirstNotOfIsFirst ==
  ASSUME NEW chars, Len(chars) \in Nat, NEW char, NEW from \in Nat
  PROVE  \/ /\ find_first_not_of(chars, char, from) = Len(chars) + 1
            /\ \A k \in from .. Len(chars) : chars[k] = char
         \/ /\ find_first_not_of(chars, char, from) \in from .. Len(chars)
            /\ chars[find_first_not_of(chars, char, from)] # char
            /\ \A k \in from .. find_first_not_of(chars, char, from) - 1 : chars[k] = char
<1> DEFINE positions == {k \in from .. Len(chars) : chars[k] # char}
<1>1. positions \in SUBSET Nat
  OBVIOUS
<1>2. find_first_not_of(chars, char, from) = First(positions, Len(chars) + 1)
  BY DEF find_first_not_of
<1>3. CASE positions = {}
  <2>1. First(positions, Len(chars) + 1) = Len(chars) + 1
    BY <1>1, <1>3, FirstIsLeast
  <2> QED BY <1>2, <1>3, <2>1
<1>4. CASE positions # {}
  <2> DEFINE f == First(positions, Len(chars) + 1)
  <2>1. f \in positions /\ \A l \in positions : f <= l
    <3> HIDE DEF positions
    <3> QED BY <1>1, <1>4, FirstIsLeast
  <2> HIDE DEF f
  <2>2. f \in from .. Len(chars) /\ chars[f] # char
    BY <2>1
  <2>3. \A k \in from .. f - 1 : chars[k] = char
    BY <2>1, <2>2
  <2> QED BY <1>2, <2>2, <2>3 DEF f
<1> QED BY <1>3, <1>4

(* A position with nothing of the kind before it is the first. *)
LEMMA FindIs ==
  ASSUME NEW chars, Len(chars) \in Nat, NEW char, NEW from \in Nat,
         NEW p \in from .. Len(chars), chars[p] = char,
         \A k \in from .. p - 1 : chars[k] # char
  PROVE  find(chars, char, from) = p
<1> DEFINE f == find(chars, char, from)
<1>1. \/ f = Len(chars) + 1 /\ \A k \in from .. Len(chars) : chars[k] # char
      \/ f \in from .. Len(chars) /\ chars[f] = char /\ \A k \in from .. f - 1 : chars[k] # char
  BY FindIsFirst
<1> HIDE DEF f
<1>2. f \in from .. Len(chars) /\ chars[f] = char /\ \A k \in from .. f - 1 : chars[k] # char
  BY <1>1
<1>3. ~ (f < p) /\ ~ (p < f)
  BY <1>2
<1>4. f = p
  BY <1>2, <1>3
<1> QED BY <1>4 DEF f

LEMMA FindFirstNotOfIs ==
  ASSUME NEW chars, Len(chars) \in Nat, NEW char, NEW from \in Nat,
         NEW p \in from .. Len(chars), chars[p] # char,
         \A k \in from .. p - 1 : chars[k] = char
  PROVE  find_first_not_of(chars, char, from) = p
<1> DEFINE f == find_first_not_of(chars, char, from)
<1>1. \/ f = Len(chars) + 1 /\ \A k \in from .. Len(chars) : chars[k] = char
      \/ f \in from .. Len(chars) /\ chars[f] # char /\ \A k \in from .. f - 1 : chars[k] = char
  BY FindFirstNotOfIsFirst
<1> HIDE DEF f
<1>2. f \in from .. Len(chars) /\ chars[f] # char /\ \A k \in from .. f - 1 : chars[k] = char
  BY <1>1
<1>3. ~ (f < p) /\ ~ (p < f)
  BY <1>2
<1>4. f = p
  BY <1>2, <1>3
<1> QED BY <1>4 DEF f

(* Of a line without carriage returns, as Parse takes it apart. *)
SplitAt(chars) == find(chars, Equals, 1)
KeyStart(chars) == find_first_not_of(chars, Blank, 1)
KeyEnd(chars) == find(chars, Blank, KeyStart(chars))
ValueStart(chars) == find_first_not_of(chars, Blank, SplitAt(chars) + 1)
KeyOf(chars) == SubSeq(chars, KeyStart(chars), KeyEnd(chars) - 1)
ValueOf(chars) == SubSeq(chars, ValueStart(chars), Len(chars))

(* The line assigns to the option. *)
Assigns(chars, o) ==
  /\ SplitAt(chars) # Len(chars) + 1
  /\ ValueStart(chars) < Len(chars) + 1
  /\ KeyOf(chars) = <<o>>

LEMMA SignsAreApart ==
  ASSUME NEW o \in Option
  PROVE  o # Blank /\ o # Equals /\ Blank # Equals
BY WordAssumption DEF Sign, Blank, Equals

(* One character, cut out of a line. *)
LEMMA OneCharacter ==
  ASSUME NEW chars, Len(chars) \in Nat, NEW m \in 1 .. Len(chars)
  PROVE  SubSeq(chars, m, m) = <<chars[m]>>
<1>1. SubSeq(chars, m, m) = [i \in 1 .. 1 |-> chars[i + m - 1]]
  OBVIOUS
<1>2. SubSeq(chars, m, m) = [i \in 1 .. 1 |-> chars[m]]
  BY <1>1
<1>3. <<chars[m]>> = [i \in 1 .. 1 |-> chars[m]]
  OBVIOUS
<1> QED BY <1>2, <1>3

LEMMA IsOneCharacter ==
  ASSUME NEW chars, Len(chars) \in Nat, NEW m \in 1 .. Len(chars),
         NEW n \in Nat, m - 1 <= n, n <= Len(chars),
         NEW o, SubSeq(chars, m, n) = <<o>>
  PROVE  n = m /\ chars[m] = o
<1>1. Len(<<o>>) = 1 /\ <<o>>[1] = o
  OBVIOUS
<1>2. Len(SubSeq(chars, m, n)) = IF m <= n THEN n - m + 1 ELSE 0
  OBVIOUS
<1>3. n = m
  BY <1>1, <1>2
<1>4. SubSeq(chars, m, m) = <<chars[m]>>
  BY OneCharacter
<1>5. <<chars[m]>>[1] = chars[m]
  OBVIOUS
<1> QED BY <1>1, <1>3, <1>4, <1>5

(* What a line says is what is read of it. *)
LEMMA SaidIsRead ==
  ASSUME NEW chars, Len(chars) \in Nat, DOMAIN chars = 1 .. Len(chars),
         NEW o \in Option, NEW value, Says(chars, o, value)
  PROVE  Assigns(chars, o) /\ value = ValueOf(chars)
<1>1. PICK k \in DOMAIN chars, e \in DOMAIN chars, v \in DOMAIN chars :
        /\ k + 1 < e /\ e < v
        /\ \A i \in 1 .. k - 1 : chars[i] = Blank
        /\ chars[k] = o /\ chars[k + 1] = Blank
        /\ \A i \in k .. e - 1 : chars[i] # Equals
        /\ chars[e] = Equals
        /\ \A i \in e + 1 .. v - 1 : chars[i] = Blank
        /\ chars[v] # Blank
        /\ value = SubSeq(chars, v, Len(chars))
  BY DEF Says, Opens
<1>2. k \in 1 .. Len(chars) /\ e \in 1 .. Len(chars) /\ v \in 1 .. Len(chars)
  BY <1>1
<1>3. KeyStart(chars) = k
  <2>1. chars[k] # Blank
    BY <1>1, SignsAreApart
  <2> QED BY <1>1, <1>2, <2>1, FindFirstNotOfIs DEF KeyStart
<1>4. KeyEnd(chars) = k + 1
  <2>1. k + 1 \in k .. Len(chars) /\ chars[k + 1] = Blank
    BY <1>1, <1>2
  <2>2. \A i \in k .. k + 1 - 1 : chars[i] # Blank
    BY <1>1, <1>2, SignsAreApart
  <2> QED BY <1>2, <1>3, <2>1, <2>2, FindIs DEF KeyEnd
<1>5. SplitAt(chars) = e
  <2>1. \A i \in 1 .. e - 1 : chars[i] # Equals
    BY <1>1, <1>2, SignsAreApart
  <2> QED BY <1>1, <1>2, <2>1, FindIs DEF SplitAt
<1>6. ValueStart(chars) = v
  <2>1. e + 1 \in Nat /\ v \in e + 1 .. Len(chars)
    BY <1>1, <1>2
  <2> QED BY <1>1, <1>5, <2>1, FindFirstNotOfIs DEF ValueStart
<1>7. KeyOf(chars) = <<o>>
  BY <1>1, <1>2, <1>3, <1>4, OneCharacter DEF KeyOf
<1> QED BY <1>1, <1>2, <1>5, <1>6, <1>7 DEF Assigns, ValueOf

(* What is read of a line is what it says, if it is a clear one. *)
LEMMA ReadIsSaid ==
  ASSUME NEW chars, Len(chars) \in Nat, DOMAIN chars = 1 .. Len(chars),
         NEW o \in Option, Assigns(chars, o)
  PROVE  \/ ValueStart(chars) \in DOMAIN chars /\ Says(chars, o, ValueOf(chars))
         \/ Mixed(chars, o)
<1> DEFINE n == Len(chars)
           k == KeyStart(chars)
           e == SplitAt(chars)
           v == ValueStart(chars)
<1>1. e \in 1 .. n /\ chars[e] = Equals /\ \A i \in 1 .. e - 1 : chars[i] # Equals
  BY FindIsFirst DEF SplitAt, Assigns
<1>2. v \in e + 1 .. n /\ chars[v] # Blank /\ \A i \in e + 1 .. v - 1 : chars[i] = Blank
  BY <1>1, FindFirstNotOfIsFirst DEF ValueStart, Assigns
<1>3. k \in 1 .. n /\ chars[k] # Blank /\ \A i \in 1 .. k - 1 : chars[i] = Blank
  BY <1>1, SignsAreApart, FindFirstNotOfIsFirst DEF KeyStart
<1>4. \/ KeyEnd(chars) = n + 1
      \/ KeyEnd(chars) \in k .. n /\ chars[KeyEnd(chars)] = Blank
  BY <1>3, FindIsFirst DEF KeyEnd
<1> HIDE DEF k, e, v
<1>5. KeyEnd(chars) - 1 = k /\ chars[k] = o
  <2>1. KeyEnd(chars) - 1 \in Nat /\ k - 1 <= KeyEnd(chars) - 1 /\ KeyEnd(chars) - 1 <= n
    BY <1>3, <1>4
  <2>2. SubSeq(chars, k, KeyEnd(chars) - 1) = <<o>>
    BY DEF Assigns, KeyOf, k
  <2> QED BY <1>3, <2>1, <2>2, IsOneCharacter
<1>6. k < e
  BY <1>1, <1>3, <1>5, SignsAreApart
<1>7. KeyEnd(chars) = k + 1 /\ chars[k + 1] = Blank
  BY <1>1, <1>3, <1>4, <1>5, <1>6
<1>8. k + 1 < e
  BY <1>1, <1>3, <1>6, <1>7, SignsAreApart
<1>9. \A i \in k .. e - 1 : chars[i] # Equals
  BY <1>1, <1>3
<1>10. ValueOf(chars) = SubSeq(chars, v, n)
  BY DEF ValueOf, v
<1>11. k \in DOMAIN chars /\ e \in DOMAIN chars /\ v \in DOMAIN chars /\ e < v
  BY <1>1, <1>2, <1>3
<1>12. Opens(chars, o, k, e)
  BY <1>1, <1>3, <1>5, <1>7, <1>8, <1>9 DEF Opens
<1>13. CASE \A i \in k + 1 .. e - 1 : chars[i] = Blank
  <2>1. Says(chars, o, ValueOf(chars))
    BY <1>2, <1>10, <1>11, <1>12, <1>13 DEF Says
  <2> QED BY <1>11, <2>1 DEF v
<1>14. CASE \E i \in k + 1 .. e - 1 : chars[i] # Blank
  BY <1>2, <1>11, <1>12, <1>14 DEF Mixed
<1> QED BY <1>13, <1>14

(* Without the carriage returns a line still has positions 1 to its length. *)
LEMMA ErasedIsLine ==
  ASSUME NEW S, NEW raw \in Seq(S)
  PROVE  Len(Erased(raw)) \in Nat /\ DOMAIN Erased(raw) = 1 .. Len(Erased(raw))
BY DEF Erased, Without

(* One line assigns what it says; else nothing, or to an option of which it  *)
(* speaks unclearly.                                                         *)
LEMMA LineIsRead ==
  ASSUME NEW S, NEW raw \in Seq(S), raw # << >>, NEW map
  PROVE  \/ \E s \in Said(raw) :
              Said(raw) = {s} /\ Parse(map, raw) = Assigned(map, s[1], s[2])
         \/ /\ Said(raw) = {}
            /\ \/ Parse(map, raw) = map
               \/ \E o \in MixedOf(raw) : \E value : Parse(map, raw) = Assigned(map, o, value)
<1> DEFINE chars == Erased(raw)
           Tails == {SubSeq(chars, v, Len(chars)) : v \in DOMAIN chars}
           assigning == {o \in Option : Assigns(chars, o)}
<1>1. Len(chars) \in Nat /\ DOMAIN chars = 1 .. Len(chars)
  BY ErasedIsLine
<1>2. /\ Said(raw) = IF raw[1] = Comment THEN {}
                    ELSE {s \in Option \X Tails : Says(chars, s[1], s[2])}
      /\ MixedOf(raw) = IF raw[1] = Comment THEN {}
                       ELSE {o \in Option : Mixed(chars, o)}
  BY DEF Said, MixedOf, Erased
<1>3. Parse(map, raw) =
        IF \/ raw = << >> \/ raw[1] = Comment \/ SplitAt(chars) = Len(chars) + 1
           \/ ValueStart(chars) >= Len(chars) + 1
           \/ \A o \in Option : KeyOf(chars) # <<o>>
        THEN map
        ELSE Assigned(map, KeyOf(chars)[1], ValueOf(chars))
  BY DEF Parse, SplitAt, ValueStart, KeyStart, KeyEnd, KeyOf, ValueOf
<1> HIDE DEF chars
<1>4. SplitAt(chars) \in Nat
  BY <1>1, FindIsFirst DEF SplitAt
<1>5. ValueStart(chars) \in Nat
  BY <1>1, <1>4, FindFirstNotOfIsFirst DEF ValueStart
<1>6. Parse(map, raw) =
        IF assigning = {} \/ raw[1] = Comment THEN map
        ELSE Assigned(map, KeyOf(chars)[1], ValueOf(chars))
  BY <1>1, <1>3, <1>5 DEF Assigns
<1>7. ASSUME NEW s \in Said(raw)
      PROVE  /\ raw[1] # Comment /\ s[1] \in assigning
             /\ s = <<s[1], s[2]>> /\ s[2] = ValueOf(chars)
  <2>1. /\ raw[1] # Comment /\ s[1] \in Option /\ Says(chars, s[1], s[2])
        /\ s = <<s[1], s[2]>>
    BY <1>2
  <2> QED BY <1>1, <2>1, SaidIsRead
<1>8. ASSUME NEW o \in assigning, raw[1] # Comment
      PROVE  <<o, ValueOf(chars)>> \in Said(raw) \/ o \in MixedOf(raw)
  <2>1. \/ ValueStart(chars) \in DOMAIN chars /\ Says(chars, o, ValueOf(chars))
        \/ Mixed(chars, o)
    BY <1>1, ReadIsSaid
  <2>2. CASE Mixed(chars, o)
    BY <1>2, <1>8, <2>2
  <2>3. CASE ValueStart(chars) \in DOMAIN chars /\ Says(chars, o, ValueOf(chars))
    <3>1. ValueOf(chars) \in Tails
      BY <2>3 DEF ValueOf
    <3> QED BY <1>2, <1>8, <2>3, <3>1
  <2> QED BY <2>1, <2>2, <2>3
<1>9. ASSUME NEW o \in assigning PROVE KeyOf(chars)[1] = o
  BY DEF Assigns
<1> HIDE DEF assigning
<1>10. CASE Said(raw) # {}
  <2>1. PICK s \in Said(raw) : TRUE
    BY <1>10
  <2>2. \A t \in Said(raw) : t[1] = s[1] /\ t[2] = s[2] /\ t = <<t[1], t[2]>>
    BY <1>7, <1>9
  <2>3. Said(raw) = {s}
    BY <2>2
  <2>4. Parse(map, raw) = Assigned(map, s[1], s[2])
    BY <1>6, <1>7, <1>9
  <2> QED BY <2>3, <2>4
<1>11. CASE Said(raw) = {}
  <2>1. CASE raw[1] = Comment \/ assigning = {}
    BY <1>6, <1>11, <2>1
  <2>2. CASE raw[1] # Comment /\ assigning # {}
    <3>1. PICK o \in assigning : TRUE
      BY <2>2
    <3>2. o \in MixedOf(raw) /\ Parse(map, raw) = Assigned(map, o, ValueOf(chars))
      BY <1>6, <1>8, <1>9, <1>11, <2>2
    <3> QED BY <1>11, <3>2
  <2> QED BY <2>1, <2>2
<1> QED BY <1>10, <1>11

(* m_CFG is what the lines so far give, of the options they are clear about. *)
SameOf(o) ==
  /\ o \in DOMAIN m_CFG <=> o \in DOMAIN meant
  /\ o \in DOMAIN meant => m_CFG[o] = meant[o]

ConfigInv == line \in Seq(Character) /\ \A o \in Option \ unclear : SameOf(o)

LEMMA ReadLineStep == ConfigInv /\ ReadLine => ConfigInv'
<1> SUFFICES ASSUME ConfigInv, ReadLine, NEW o \in Option \ unclear' PROVE SameOf(o)'
  BY DEF ConfigInv, ReadLine
<1>1. /\ line \in Seq(Character) /\ line # << >>
      /\ m_CFG' = Parse(m_CFG, line) /\ meant' = Meant(line) /\ unclear' = Unclear(line)
  BY DEF ReadLine, ConfigInv
<1>2. CASE \E s \in Said(line) :
             Said(line) = {s} /\ Parse(m_CFG, line) = Assigned(m_CFG, s[1], s[2])
  <2>1. PICK s \in Said(line) :
          Said(line) = {s} /\ Parse(m_CFG, line) = Assigned(m_CFG, s[1], s[2])
    BY <1>2
  <2>2. Meant(line) = Assigned(meant, s[1], s[2])
    <3>1. Said(line) # {} /\ (CHOOSE t \in Said(line) : TRUE) = s
      BY <2>1
    <3> QED BY <3>1 DEF Meant
  <2>3. CASE o = s[1]
    BY <1>1, <2>1, <2>2, <2>3 DEF Assigned, SameOf
  <2>4. CASE o # s[1]
    <3>1. o \notin unclear
      BY <1>1, <2>1, <2>4 DEF Unclear
    <3>2. SameOf(o)
      BY <3>1 DEF ConfigInv
    <3> QED BY <1>1, <2>1, <2>2, <2>4, <3>2 DEF Assigned, SameOf
  <2> QED BY <2>3, <2>4
<1>3. CASE /\ Said(line) = {}
           /\ \/ Parse(m_CFG, line) = m_CFG
              \/ \E p \in MixedOf(line) : \E value :
                    Parse(m_CFG, line) = Assigned(m_CFG, p, value)
  <2>1. o \notin unclear /\ o \notin MixedOf(line)
    BY <1>1, <1>3 DEF Unclear
  <2>2. SameOf(o)
    BY <2>1 DEF ConfigInv
  <2>3. /\ o \in DOMAIN meant' <=> o \in DOMAIN meant
        /\ o \in DOMAIN meant => meant'[o] = meant[o]
    BY <1>1, <1>3, <2>1 DEF Meant
  <2>4. /\ o \in DOMAIN m_CFG' <=> o \in DOMAIN m_CFG
        /\ o \in DOMAIN m_CFG => m_CFG'[o] = m_CFG[o]
    <3>1. CASE m_CFG' = m_CFG
      BY <3>1
    <3>2. ASSUME NEW p \in MixedOf(line), NEW value, m_CFG' = Assigned(m_CFG, p, value)
          PROVE  /\ o \in DOMAIN m_CFG' <=> o \in DOMAIN m_CFG
                 /\ o \in DOMAIN m_CFG => m_CFG'[o] = m_CFG[o]
      BY <2>1, <3>2 DEF Assigned
    <3> QED BY <1>1, <1>3, <3>1, <3>2
  <2> QED BY <2>2, <2>3, <2>4 DEF SameOf
<1> QED BY <1>1, <1>2, <1>3, LineIsRead

(* The server gets for each option what the last line in the form of           *)
(* gs_server.cfg says of it, and nothing else in the file counts, except that  *)
(* a line with other words between the option and the "=" may; for lines of    *)
(* any length, in any order, written on any system.                            *)
THEOREM SettingsCount == FileSpec => []LastSettingCounts
<1>1. EmptyFile => ConfigInv
  BY DEF EmptyFile, ConfigInv, SameOf
<1>2. ConfigInv /\ [Edit]_<<line, m_CFG, meant, unclear>> => ConfigInv'
  <2> SUFFICES ASSUME ConfigInv, [Edit]_<<line, m_CFG, meant, unclear>> PROVE ConfigInv'
    OBVIOUS
  <2>1. CASE UNCHANGED <<line, m_CFG, meant, unclear>>
    BY <2>1 DEF ConfigInv, SameOf
  <2>2. ASSUME NEW char \in Character, WriteChar(char) PROVE ConfigInv'
    BY <2>2 DEF WriteChar, ConfigInv, SameOf
  <2>3. CASE ReadLine
    BY <2>3, ReadLineStep
  <2> QED BY <2>1, <2>2, <2>3 DEF Edit
<1>3. ConfigInv => LastSettingCounts
  BY DEF ConfigInv, SameOf, LastSettingCounts, GetString
<1> QED BY <1>1, <1>2, <1>3, PTL DEF FileSpec

=============================================================================
