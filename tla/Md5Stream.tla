----------------------------- MODULE Md5Stream -----------------------------
(***************************************************************************)
(* How the class MD5 (md5.cpp) cuts what it is fed into blocks of 64 bytes *)
(* and pads it.  The server hashes a text with one update and finalize,    *)
(* which updates twice more: with the padding and with the length.  What   *)
(* transform makes of a block is left out; which bytes it is given is not. *)
(*                                                                         *)
(* The bytes ever fed are numbered from 0.  The buffer holds numbers, so   *)
(* that a byte that is misplaced, skipped or stale can be told.            *)
(***************************************************************************)
EXTENDS Integers

CONSTANT Length   \* the lengths of texts that are hashed

ASSUME LengthAssumption == Length \subseteq Nat

VARIABLES
  bits,       \* count[0] and count[1], one number: no text has 2^64 bits
  buffer,     \* the numbers of the bytes in it
  blocks,     \* how many blocks have been transformed
  misplaced,  \* history: a transformed block was not the next 64 bytes
  phase,      \* "init", "text", "padding", "length": the last update
  text        \* history: the length of the text

vars == <<bits, buffer, blocks, misplaced, phase, text>>

blocksize == 64

TypeOK ==
  /\ bits \in Nat
  /\ buffer \in [0 .. 63 -> Int]
  /\ blocks \in Nat
  /\ misplaced \in BOOLEAN
  /\ phase \in {"init", "text", "padding", "length"}
  /\ text \in Nat

Fed == bits \div 8

Init ==
  /\ bits = 0
  /\ buffer = [k \in 0 .. 63 |-> -1]
  /\ blocks = 0
  /\ misplaced = FALSE
  /\ phase = "init"
  /\ text = 0

-----------------------------------------------------------------------------
(* index, where the next byte goes in the buffer. *)
Index == (bits \div 8) % blocksize

(* memcpy( &buffer[from], ... ) of length bytes, the first being number fed. *)
Copied(from, length, fed) ==
  [k \in 0 .. 63 |-> IF from <= k /\ k < from + length THEN fed + k - from
                                                        ELSE buffer[k]]

IsBlock(b, number) == \A k \in 0 .. 63 : b[k] = blocksize * number + k

(* update: the buffer is filled up and transformed, then whole blocks are,   *)
(* straight from the input; the rest is buffered.                            *)
Update(length) ==
  LET firstpart == blocksize - Index
  IN  IF length >= firstpart
      THEN LET filled == Copied(Index, firstpart, Fed)
               whole == (length - firstpart) \div blocksize
               i == firstpart + blocksize * whole
           IN  /\ blocks' = blocks + 1 + whole
               /\ misplaced' = (misplaced \/ ~IsBlock(filled, blocks)
                                 \/ (whole > 0 /\ Fed + firstpart # blocksize * (blocks + 1)))
               /\ buffer' = Copied(0, length - i, Fed + i)
      ELSE /\ buffer' = Copied(Index, length, Fed)
           /\ UNCHANGED <<blocks, misplaced>>

Count(length) == bits' = bits + 8 * length

UpdateText(length) ==
  /\ phase = "init"
  /\ phase' = "text"
  /\ Update(length)
  /\ Count(length)
  /\ text' = length

(* Variant: an index of 56 is padded with nothing. *)
PadLenOffByOne(index) == IF index <= 56 THEN 56 - index ELSE 120 - index

(* Pad out to 56 mod 64; the array of padding has 64 bytes. *)
PadLen(index) == IF index < 56 THEN 56 - index ELSE 120 - index

(* finalize, its first half: the length has been saved. *)
Pad ==
  /\ phase = "text"
  /\ phase' = "padding"
  /\ Update(PadLen(Index))
  /\ Count(PadLen(Index))
  /\ UNCHANGED text

AppendLength ==
  /\ phase = "padding"
  /\ phase' = "length"
  /\ Update(8)
  /\ Count(8)
  /\ UNCHANGED text

Next == (\E length \in Length : UpdateText(length)) \/ Pad \/ AppendLength

Spec == Init /\ [][Next]_vars

-----------------------------------------------------------------------------
(* Properties.                                                             *)

(* RFC 1321, 3.1 and 3.2: one byte of padding at least, as few as will do,   *)
(* and eight of length complete the last block.                              *)
PaddedLength(length) == blocksize * ((length + 8) \div blocksize + 1)

(* Every block that is transformed is the next 64 bytes, and in the end all  *)
(* bytes of the padded text have been: no length of a text falls between.    *)
HashedWhole ==
  /\ ~misplaced
  /\ phase = "length" => /\ Fed = PaddedLength(text)
                         /\ blocksize * blocks = Fed

=============================================================================
