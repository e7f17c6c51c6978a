------------------------------ MODULE Md5Proofs ------------------------------
(* Proofs about the blocks of a hash, for a text of any length. *)
EXTENDS Md5Stream, TLAPS

(* The bytes that have been fed and not transformed. *)
Rest == Fed - 64 * blocks

(* They are in the buffer, from its beginning, and do not fill it. *)
Buffered ==
  /\ bits = 8 * Fed
  /\ Rest \in 0 .. 63
  /\ \A k \in 0 .. 63 : k < Rest => buffer[k] = 64 * blocks + k
  /\ ~misplaced

(* How far the padding is. *)
Padding ==
  /\ phase = "init" => Fed = 0
  /\ phase = "text" => Fed = text
  /\ phase = "padding" => Fed = PaddedLength(text) - 8
  /\ phase = "length" => Fed = PaddedLength(text) /\ Rest = 0

IInv == TypeOK /\ Buffered /\ Padding

-----------------------------------------------------------------------------
LEMMA InitIInv == Init => IInv
<1> SUFFICES ASSUME Init PROVE IInv
    OBVIOUS
<1> USE DEF Init
<1>1. TypeOK
  <2>1. buffer \in [0 .. 63 -> Int]
      OBVIOUS
  <2>2. bits \in Nat /\ blocks \in Nat /\ text \in Nat
      OBVIOUS
  <2>3. misplaced \in BOOLEAN /\ phase = "init"
      OBVIOUS
  <2> QED BY <2>1, <2>2, <2>3 DEF TypeOK
<1>2. Fed = 0 /\ Rest = 0
    BY DEF Fed, Rest
<1>3. Buffered
    BY <1>2 DEF Buffered
<1>4. Padding
    BY <1>2 DEF Padding
<1> QED BY <1>1, <1>3, <1>4 DEF IInv

(* index is where the rest ends. *)
LEMMA IndexIsRest ==
  ASSUME TypeOK, Buffered
  PROVE  /\ Index = Rest
         /\ Fed \in Nat /\ blocks \in Nat /\ Rest \in 0 .. 63
         /\ Fed = 64 * blocks + Rest
<1>1. Fed \in Nat /\ blocks \in Nat
    BY DEF TypeOK, Fed
<1>2. Rest \in 0 .. 63 /\ Fed = 64 * blocks + Rest
    BY <1>1 DEF Buffered, Rest
<1>3. Fed % 64 = Rest
    BY <1>1, <1>2
<1> QED BY <1>1, <1>2, <1>3 DEF Index, Fed, blocksize

(* What an update leaves: all it was fed is transformed or buffered.         *)
LEMMA UpdateKeeps ==
  ASSUME TypeOK, Buffered, NEW length \in Nat, Update(length), Count(length)
  PROVE  /\ Fed' = Fed + length
         /\ bits' \in Nat /\ blocks' \in Nat /\ misplaced' \in BOOLEAN
         /\ buffer' \in [0 .. 63 -> Int]
         /\ Buffered'
<1>1. /\ Index = Rest /\ Fed \in Nat /\ blocks \in Nat /\ Rest \in 0 .. 63
      /\ Fed = 64 * blocks + Rest
    BY IndexIsRest
<1>2. bits \in Nat /\ bits = 8 * Fed /\ bits' = 8 * (Fed + length)
    BY <1>1 DEF Count, TypeOK, Buffered
<1>3. Fed' = Fed + length /\ bits' \in Nat
    BY <1>1, <1>2 DEF Fed
<1>4. ASSUME NEW from \in Int, NEW count \in Int, NEW fed \in Int
      PROVE  Copied(from, count, fed) \in [0 .. 63 -> Int]
    BY DEF Copied, TypeOK
<1>5. CASE length >= 64 - Rest
  <2> DEFINE first == 64 - Rest
             whole == (length - first) \div 64
             i == first + 64 * whole
             filled == Copied(Rest, first, Fed)
  <2>1. whole \in Nat /\ i \in Nat /\ length - i \in 0 .. 63
      BY <1>1, <1>5
  <2>2. IsBlock(filled, blocks)
      BY <1>1 DEF Copied, IsBlock, Buffered, blocksize
  <2>3. Fed + first = 64 * (blocks + 1)
      BY <1>1
  <2>4. /\ blocks' = blocks + 1 + whole
        /\ misplaced' = (misplaced \/ ~IsBlock(filled, blocks)
                          \/ (whole > 0 /\ Fed + first # 64 * (blocks + 1)))
        /\ buffer' = Copied(0, length - i, Fed + i)
      BY <1>1, <1>5 DEF Update, blocksize
  <2>5. ~misplaced'
      BY <2>2, <2>3, <2>4 DEF Buffered
  <2> HIDE DEF whole
  <2>6. blocks' \in Nat /\ Fed + i = 64 * blocks' /\ Rest' = length - i
      BY <1>1, <1>3, <2>1, <2>4 DEF Rest
  <2>7. \A k \in 0 .. 63 : k < Rest' => buffer'[k] = 64 * blocks' + k
      BY <1>1, <2>1, <2>4, <2>6 DEF Copied
  <2>8. buffer' \in [0 .. 63 -> Int]
    <3>1. 0 \in Int /\ length - i \in Int /\ Fed + i \in Int
        BY <1>1, <2>1
    <3>2. Copied(0, length - i, Fed + i) \in [0 .. 63 -> Int]
        BY <1>4, <3>1
    <3> QED BY <2>4, <3>2
  <2>9. misplaced' \in BOOLEAN
      BY <2>4, <2>5
  <2>10. bits' = 8 * Fed' /\ Rest' \in 0 .. 63
      BY <1>2, <1>3, <2>1, <2>6
  <2> QED BY <1>3, <2>5, <2>6, <2>7, <2>8, <2>9, <2>10 DEF Buffered
<1>6. CASE ~(length >= 64 - Rest)
  <2>1. buffer' = Copied(Rest, length, Fed) /\ blocks' = blocks /\ misplaced' = misplaced
      BY <1>1, <1>6 DEF Update, blocksize
  <2>2. Rest' = Rest + length /\ Rest' \in 0 .. 63
      BY <1>1, <1>3, <1>6, <2>1 DEF Rest
  <2>3. \A k \in 0 .. 63 : k < Rest' => buffer'[k] = 64 * blocks' + k
      BY <1>1, <2>1, <2>2 DEF Copied, Buffered
  <2>4. buffer' \in [0 .. 63 -> Int]
    <3>1. Rest \in Int /\ length \in Int /\ Fed \in Int
        BY <1>1
    <3>2. Copied(Rest, length, Fed) \in [0 .. 63 -> Int]
        BY <1>4, <3>1
    <3> QED BY <2>1, <3>2
  <2> QED BY <1>1, <1>2, <1>3, <2>1, <2>2, <2>3, <2>4 DEF Buffered, TypeOK
<1> QED BY <1>5, <1>6

(* The padding is one byte at least, no more than its array has, and the     *)
(* least after which the length completes a block.                           *)
LEMMA PadLenFits ==
  ASSUME NEW number \in Nat
  PROVE  /\ PadLen(number % 64) \in 1 .. 64
         /\ number + PadLen(number % 64) + 8 = PaddedLength(number)
<1> DEFINE quotient == number \div 64
           rest == number % 64
<1>1. quotient \in Nat /\ rest \in 0 .. 63 /\ number = 64 * quotient + rest
    OBVIOUS
<1>2. number % 64 = rest
    OBVIOUS
<1> HIDE DEF quotient, rest
<1>3. CASE rest < 56
  <2>1. (number + 8) \div 64 = quotient
      BY <1>1, <1>3
  <2> QED BY <1>1, <1>2, <1>3, <2>1 DEF PadLen, PaddedLength, blocksize
<1>4. CASE ~(rest < 56)
  <2>1. (number + 8) \div 64 = quotient + 1
      BY <1>1, <1>4
  <2> QED BY <1>1, <1>2, <1>4, <2>1 DEF PadLen, PaddedLength, blocksize
<1> QED BY <1>3, <1>4

LEMMA NextIInv == IInv /\ [Next]_vars => IInv'
<1> SUFFICES ASSUME IInv, [Next]_vars PROVE IInv'
    OBVIOUS
<1>1. TypeOK /\ Buffered /\ Padding
    BY DEF IInv
<1>2. ASSUME NEW length \in Length, UpdateText(length) PROVE IInv'
  <2>1. length \in Nat
      BY LengthAssumption
  <2>2. Update(length) /\ Count(length) /\ phase = "init" /\ phase' = "text"
        /\ text' = length
      BY <1>2 DEF UpdateText
  <2>3. /\ Fed' = Fed + length
        /\ bits' \in Nat /\ blocks' \in Nat /\ misplaced' \in BOOLEAN
        /\ buffer' \in [0 .. 63 -> Int]
        /\ Buffered'
      BY <1>1, <2>1, <2>2, UpdateKeeps
  <2>4. TypeOK'
      BY <2>1, <2>2, <2>3 DEF TypeOK
  <2>5. Padding'
      BY <1>1, <2>1, <2>2, <2>3 DEF Padding
  <2> QED BY <2>3, <2>4, <2>5 DEF IInv
<1>3. CASE Pad
  <2>1. Fed = text /\ text \in Nat /\ phase' = "padding" /\ text' = text
      BY <1>1, <1>3 DEF Pad, Padding, TypeOK
  <2>2. Index = text % 64
      BY <2>1 DEF Index, Fed, blocksize
  <2>3. PadLen(Index) \in 1 .. 64 /\ text + PadLen(Index) + 8 = PaddedLength(text)
      BY <2>1, <2>2, PadLenFits
  <2>4. Update(PadLen(Index)) /\ Count(PadLen(Index))
      BY <1>3 DEF Pad
  <2>5. PadLen(Index) \in Nat
      BY <2>3
  <2>6. /\ Fed' = Fed + PadLen(Index)
        /\ bits' \in Nat /\ blocks' \in Nat /\ misplaced' \in BOOLEAN
        /\ buffer' \in [0 .. 63 -> Int]
        /\ Buffered'
      BY <1>1, <2>4, <2>5, UpdateKeeps
  <2>7. TypeOK'
      BY <2>1, <2>6 DEF TypeOK
  <2>8. Fed' = PaddedLength(text) - 8
      BY <2>1, <2>3, <2>5, <2>6
  <2>9. Padding'
      BY <2>1, <2>8 DEF Padding, PaddedLength
  <2> QED BY <2>6, <2>7, <2>9 DEF IInv
<1>4. CASE AppendLength
  <2>1. /\ Fed = PaddedLength(text) - 8 /\ text \in Nat
        /\ phase' = "length" /\ text' = text /\ Update(8) /\ Count(8)
      BY <1>1, <1>4 DEF AppendLength, Padding, TypeOK
  <2>2. /\ Fed' = Fed + 8
        /\ bits' \in Nat /\ blocks' \in Nat /\ misplaced' \in BOOLEAN
        /\ buffer' \in [0 .. 63 -> Int]
        /\ Buffered'
      BY <1>1, <2>1, UpdateKeeps
  <2>3. TypeOK'
      BY <2>1, <2>2 DEF TypeOK
  <2>4. Fed \in Nat /\ PaddedLength(text) \in Nat
      BY <1>1, <2>1, IndexIsRest DEF PaddedLength, blocksize
  <2>5. Fed' = PaddedLength(text)
      BY <2>1, <2>2, <2>4
  <2>6. Rest' = 0
    <3>1. Rest' \in 0 .. 63
        BY <2>2 DEF Buffered
    <3>2. Rest' = 64 * ((text + 8) \div 64 + 1) - 64 * blocks'
        BY <2>5 DEF Rest, PaddedLength, blocksize
    <3>3. PICK quotient \in Nat : quotient = (text + 8) \div 64
        BY <2>1
    <3> QED BY <2>2, <3>1, <3>2, <3>3
  <2>7. Padding'
      BY <2>1, <2>5, <2>6 DEF Padding, PaddedLength
  <2> QED BY <2>2, <2>3, <2>7 DEF IInv
<1>5. CASE UNCHANGED vars
    BY <1>5 DEF vars, IInv, TypeOK, Buffered, Padding, Rest, Fed
<1> QED BY <1>2, <1>3, <1>4, <1>5 DEF Next

(* Whatever the length of a text, all bytes of the padded text are hashed,   *)
(* in order, each once, and the padding is that of RFC 1321.                 *)
THEOREM TextsAreHashedWhole == Spec => []HashedWhole
<1>1. IInv => HashedWhole
  <2> SUFFICES ASSUME IInv PROVE HashedWhole
      OBVIOUS
  <2>1. blocks \in Nat /\ Fed \in Nat /\ ~misplaced
      BY IndexIsRest DEF IInv, Buffered
  <2>2. phase = "length" => Fed = PaddedLength(text) /\ Fed - 64 * blocks = 0
      BY DEF IInv, Padding, Rest
  <2> QED BY <2>1, <2>2 DEF HashedWhole, blocksize
<1> QED BY InitIInv, NextIInv, <1>1, PTL DEF Spec
=============================================================================
