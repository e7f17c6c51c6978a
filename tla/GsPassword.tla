----------------------------- MODULE GsPassword -----------------------------
(***************************************************************************)
(* The password of newuser (client.cpp): the game combines it with a key   *)
(* stream and writes the bytes with 64 characters; HandleNewUser decodes   *)
(* both and keeps the result as a C string.  Characters of the transport   *)
(* are modelled as their six bits; the padding ends them.                  *)
(*                                                                         *)
(* The game is no part of the repository; what it sends is modelled by     *)
(* base64_encode, which is, and by gspassenc, its own inverse.             *)
(***************************************************************************)
EXTENDS Integers, Sequences

CONSTANTS Char,        \* the bytes a player types, none of them 0
          MaxLength    \* bound on the length of a password

ASSUME CharAssumption == Char \subseteq 1 .. 255 /\ MaxLength \in Nat

VARIABLES
  typed,   \* the password, as far as the player has typed it
  num,     \* the state of the generator after as many bytes
  key      \* the key stream so far: every call begins it anew, with "gspy"

-----------------------------------------------------------------------------
(* The key stream.                                                         *)

MaxInt == 2147483647

(* Variant: the carry of the folded sum is dropped. *)
FoldedSumWithoutCarry(x, y) == IF x > MaxInt - y THEN x - (MaxInt - y) - 1 ELSE x + y

(* A sum of ints that turns negative loses its sign and gains one: the       *)
(* carry is folded in.  (The overflow is undefined; the Makefile asks for no *)
(* optimisation, and the sum wraps.)                                         *)
FoldedSum(x, y) == IF x > MaxInt - y THEN x - (MaxInt - y) ELSE x + y

(* The product with 0x41a7, by halves of the number. *)
gslame(x) ==
  LET c == (x \div 65536) * 16807
      a == (x % 65536) * 16807
  IN  FoldedSum(FoldedSum(a, (c % 32768) * 65536), c \div 32768)

Gspy == 2037412711

(* One turn of the loop of gspassenc. *)
NextKeyByte == num' = gslame(num) /\ key' = Append(key, num' % 255)

(* The operator ^ on bytes, bit by bit. *)
Bit(x, w) == (x \div w) % 2

Xor(x, y) ==
  LET At(w) == w * ((Bit(x, w) + Bit(y, w)) % 2)
  IN  At(1) + At(2) + At(4) + At(8) + At(16) + At(32) + At(64) + At(128)

(* What a function that takes a C string sees of an array of bytes. *)
CString(bytes) ==
  LET zeros == {k \in DOMAIN bytes : bytes[k] = 0}
  IN  IF zeros = {} THEN bytes
      ELSE SubSeq(bytes, 1, (CHOOSE k \in zeros : \A l \in zeros : k <= l) - 1)

Combined(bytes) == [k \in DOMAIN bytes |-> Xor(bytes[k], key[k])]

(* gspassenc goes as far as strlen. *)
gspassenc(pass) == Combined(CString(pass))

-----------------------------------------------------------------------------
(* The transport.                                                          *)

ByteOr0(data, k) == IF k \in DOMAIN data THEN data[k] ELSE 0

(* Three bytes to four characters; those that only stand for bytes past the  *)
(* end are overwritten with the padding, and left out here.                  *)
base64_encode(data) ==
  LET chars == [k \in 1 .. 4 * ((Len(data) + 2) \div 3) |->
        LET i == 3 * ((k - 1) \div 4)
            a == ByteOr0(data, i + 1)
            b == ByteOr0(data, i + 2)
            c == ByteOr0(data, i + 3)
        IN  CASE (k - 1) % 4 = 0 -> a \div 4
              [] (k - 1) % 4 = 1 -> (a % 4) * 16 + b \div 16
              [] (k - 1) % 4 = 2 -> (b % 16) * 4 + c \div 64
              [] OTHER -> c % 64]
  IN  SubSeq(chars, 1, Len(data) + (Len(data) + 2) \div 3)

(* Variant: two bits of the fourth byte's neighbour are shifted too little. *)
base64_decode_shifted(data) ==
  [j \in 1 .. (3 * Len(data)) \div 4 |->
     LET k == j + (j - 1) \div 3
     IN  CASE (j - 1) % 3 = 0 -> data[k] * 4 + data[k + 1] \div 16
           [] (j - 1) % 3 = 1 -> (data[k] % 16) * 16 + data[k + 1] \div 4
           [] OTHER -> (data[k] % 4) * 16 + data[k + 1]]

(* Every character but the first of four completes a byte. *)
base64_decode(data) ==
  [j \in 1 .. (3 * Len(data)) \div 4 |->
     LET k == j + (j - 1) \div 3
     IN  CASE (j - 1) % 3 = 0 -> data[k] * 4 + data[k + 1] \div 16
           [] (j - 1) % 3 = 1 -> (data[k] % 16) * 16 + data[k + 1] \div 4
           [] OTHER -> (data[k] % 4) * 64 + data[k + 1]]

(* HandleNewUser: the array is decoded in place and assigned to a string,    *)
(* both up to its first 0.                                                   *)
m_Password(password) == CString(gspassenc(base64_decode(password)))

Sent(password) == base64_encode(Combined(password))

-----------------------------------------------------------------------------
NothingTyped == typed = << >> /\ num = Gspy /\ key = << >>

Type(char) ==
  /\ Len(typed) < MaxLength
  /\ typed' = Append(typed, char)
  /\ NextKeyByte

PasswordSpec == NothingTyped /\ [][\E char \in Char : Type(char)]_<<typed, num, key>>

(* Properties.                                                             *)

(* Park and Miller's generator, computed without overflow (Schrage). *)
Schrage(x) ==
  LET next == 16807 * (x % 127773) - 2836 * (x \div 127773)
  IN  IF next > 0 THEN next ELSE next + MaxInt

(* The arithmetic on overflowing halves is that generator, and the stream    *)
(* never comes to 0, where it would stay: both ends of a connection have the *)
(* same key stream, whatever their ints are.                                 *)
KeyIsParkMiller == num \in 1 .. MaxInt - 1 /\ gslame(num) = Schrage(num)

(* client.h:15, "we own the right password un-encrypted": what is kept of a  *)
(* password is what was typed, up to the first byte that equals its byte of  *)
(* the key stream; there, and only there, the password is cut short, and     *)
(* the player who typed it can not log in.                                   *)
CutAtKeyByte ==
  LET kept == m_Password(Sent(typed)) IN
    /\ Len(kept) <= Len(typed)
    /\ kept = SubSeq(typed, 1, Len(kept))
    /\ \A k \in 1 .. Len(kept) : typed[k] # key[k]
    /\ Len(kept) < Len(typed) => typed[Len(kept) + 1] = key[Len(kept) + 1]

=============================================================================
