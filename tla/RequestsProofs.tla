--------------------------- MODULE RequestsProofs ---------------------------
(***************************************************************************)
(* Proofs about the bytes of a connection, for any requests and any number *)
(* of them, however they are cut and joined.                               *)
(***************************************************************************)
EXTENDS Requests, SequenceTheorems, TLAPS

Verb == {"login", "newuser", "getprofile", "updatepro", "logout"}

Byte == [field : [number : Nat, verb : Verb, of : Nat, at : Nat], half : 1 .. 2]

TypeOK ==
  /\ m_State \in 0 .. 4
  /\ m_BF2_15 \in BOOLEAN
  /\ incoming \in Seq(Byte)
  /\ sent \in Nat
  /\ handled \in Seq(Nat)

(* The place of a byte in its request, and how many of it are to follow. *)
Pos(byte) == 2 * byte.field.at + byte.half - 2
Left(byte) == 2 * byte.field.of - Pos(byte)

(* The bytes not yet received are of requests that were sent, and the rest   *)
(* of a request of which one byte is there is there, too.                    *)
Whole ==
  \A k \in DOMAIN incoming :
    /\ [verb |-> incoming[k].field.verb, fields |-> incoming[k].field.of]
         \in AnyRequest
    /\ incoming[k].field.number <= sent
    /\ Pos(incoming[k]) \in 1 .. 2 * incoming[k].field.of
    /\ k + Left(incoming[k]) <= Len(incoming)
    /\ \A d \in 0 .. Left(incoming[k]) :
         /\ incoming[k + d].field.number = incoming[k].field.number
         /\ Pos(incoming[k + d]) = Pos(incoming[k]) + d

(* Requests follow each other in the order they were sent. *)
InOrder ==
  \A k, l \in DOMAIN incoming : k < l =>
    \/ incoming[k].field.number < incoming[l].field.number
    \/ /\ incoming[k].field.number = incoming[l].field.number
       /\ Pos(incoming[k]) < Pos(incoming[l])

(* What is acted on has been received, if not to its end. *)
HandledIsPast ==
  \A i \in DOMAIN handled :
    /\ handled[i] <= sent
    /\ \A k \in DOMAIN incoming :
         \/ handled[i] < incoming[k].field.number
         \/ handled[i] = incoming[k].field.number /\ Pos(incoming[k]) > 1

Stream == TypeOK /\ Whole /\ InOrder

-----------------------------------------------------------------------------
LEMMA InitStream == Init => Stream /\ HandledIsPast /\ HandledInOrder /\ OneRequestActed
<1> SUFFICES ASSUME Init
             PROVE  Stream /\ HandledIsPast /\ HandledInOrder /\ OneRequestActed
    OBVIOUS
<1>1. DOMAIN incoming = {} /\ DOMAIN handled = {} /\ DOMAIN acted = {}
    BY DEF Init
<1>2. TypeOK
  <2>1. incoming \in Seq(Byte) /\ handled \in Seq(Nat)
      BY DEF Init
  <2>2. m_State \in 0 .. 4 /\ sent \in Nat
      BY DEF Init
  <2>3. m_BF2_15 \in BOOLEAN
      BY DEF Init
  <2> QED BY <2>1, <2>2, <2>3 DEF TypeOK
<1> QED BY <1>1, <1>2
        DEF Stream, Whole, InOrder, HandledIsPast, HandledInOrder, OneRequestActed

LEMMA BytesOfRequest ==
  ASSUME NEW number \in Nat, NEW request \in AnyRequest
  PROVE  LET bytes == Bytes(number, request) IN
         /\ bytes \in Seq(Byte)
         /\ Len(bytes) = 2 * request.fields
         /\ request.fields \in Nat
         /\ \A k \in 1 .. 2 * request.fields :
              /\ bytes[k] \in Byte
              /\ bytes[k].field.number = number
              /\ bytes[k].field.verb = request.verb
              /\ bytes[k].field.of = request.fields
              /\ Pos(bytes[k]) = k
              /\ Left(bytes[k]) = 2 * request.fields - k
<1> DEFINE bytes == Bytes(number, request)
<1>1. request.fields \in Nat /\ request.verb \in Verb
    BY DEF AnyRequest, Verb
<1>2. ASSUME NEW k \in 1 .. 2 * request.fields
      PROVE  /\ bytes[k] \in Byte
             /\ bytes[k].field.number = number
             /\ bytes[k].field.verb = request.verb
             /\ bytes[k].field.of = request.fields
             /\ Pos(bytes[k]) = k
             /\ Left(bytes[k]) = 2 * request.fields - k
  <2>1. bytes[k] = [field |-> [number |-> number, verb |-> request.verb,
                               of |-> request.fields, at |-> (k + 1) \div 2],
                    half |-> 2 - (k % 2)]
      BY DEF Bytes
  <2>2. (k + 1) \div 2 \in Nat /\ 2 - (k % 2) \in 1 .. 2
        /\ 2 * ((k + 1) \div 2) + (2 - (k % 2)) - 2 = k
      BY <1>1
  <2>3. bytes[k] \in Byte
      BY <1>1, <2>1, <2>2 DEF Byte
  <2>4. Pos(bytes[k]) = k
      BY <2>1, <2>2 DEF Pos
  <2> QED BY <2>1, <2>3, <2>4 DEF Left
<1>3. DOMAIN bytes = 1 .. 2 * request.fields /\ 2 * request.fields \in Nat
    BY <1>1 DEF Bytes
<1>4. bytes \in [1 .. 2 * request.fields -> Byte]
    BY <1>2, <1>3 DEF Bytes
<1>5. bytes \in Seq(Byte) /\ Len(bytes) = 2 * request.fields
    BY <1>3, <1>4
<1> QED BY <1>1, <1>2, <1>5

(* A step that sends a request keeps the stream in order. *)
LEMMA SendKeepsStream ==
  ASSUME Stream, HandledIsPast, NEW request \in Request, Send(request)
  PROVE  Stream' /\ HandledIsPast'
<1> DEFINE bytes == Bytes(sent + 1, request)
           n == Len(incoming)
<1>1. request \in AnyRequest /\ sent \in Nat /\ sent + 1 \in Nat
    BY RequestAssumption DEF Stream, TypeOK
<1>2. /\ bytes \in Seq(Byte)
      /\ Len(bytes) = 2 * request.fields
      /\ request.fields \in Nat
      /\ \A k \in 1 .. 2 * request.fields :
           /\ bytes[k] \in Byte
           /\ bytes[k].field.number = sent + 1
           /\ bytes[k].field.verb = request.verb
           /\ bytes[k].field.of = request.fields
           /\ Pos(bytes[k]) = k
           /\ Left(bytes[k]) = 2 * request.fields - k
    BY <1>1, BytesOfRequest
<1>3. incoming' = incoming \o bytes /\ sent' = sent + 1 /\ handled' = handled
      /\ m_State' = m_State /\ m_BF2_15' = m_BF2_15
    BY DEF Send
<1>4. incoming \in Seq(Byte) /\ n \in Nat /\ DOMAIN incoming = 1 .. n
    BY DEF Stream, TypeOK
<1> HIDE DEF bytes
<1>5. /\ incoming' \in Seq(Byte)
      /\ DOMAIN incoming' = 1 .. n + 2 * request.fields
      /\ Len(incoming') = n + 2 * request.fields
      /\ \A k \in 1 .. n : incoming'[k] = incoming[k]
      /\ \A k \in n + 1 .. n + 2 * request.fields : incoming'[k] = bytes[k - n]
  <2>1. /\ incoming' \in Seq(Byte)
        /\ Len(incoming') = n + 2 * request.fields
        /\ \A k \in 1 .. n + 2 * request.fields :
             incoming'[k] = IF k <= n THEN incoming[k] ELSE bytes[k - n]
      BY <1>2, <1>3, <1>4, ConcatProperties
  <2>2. DOMAIN incoming' = 1 .. n + 2 * request.fields
      BY <2>1
  <2>3. ASSUME NEW k \in 1 .. n PROVE incoming'[k] = incoming[k]
    <3>1. k \in 1 .. n + 2 * request.fields /\ k <= n
        BY <1>2, <1>4
    <3> QED BY <2>1, <3>1
  <2>4. ASSUME NEW k \in n + 1 .. n + 2 * request.fields
        PROVE  incoming'[k] = bytes[k - n]
      BY <1>2, <1>4, <2>1
  <2> QED BY <2>1, <2>2, <2>3, <2>4
<1>6. TypeOK'
    BY <1>1, <1>3, <1>5 DEF Stream, TypeOK
<1>sizes. n \in Nat /\ 2 * request.fields \in Nat
          /\ Len(incoming') = n + 2 * request.fields
    BY <1>2, <1>4, <1>5
<1>count. sent \in Nat /\ sent' = sent + 1
    BY <1>1, <1>3
<1>7. Whole'
  <2> SUFFICES ASSUME NEW k \in 1 .. n + 2 * request.fields
      PROVE /\ [verb |-> incoming'[k].field.verb, fields |-> incoming'[k].field.of]
                 \in AnyRequest
            /\ incoming'[k].field.number <= sent'
            /\ Pos(incoming'[k]) \in 1 .. 2 * incoming'[k].field.of
            /\ k + Left(incoming'[k]) <= Len(incoming')
            /\ \A d \in 0 .. Left(incoming'[k]) :
                 /\ incoming'[k + d].field.number = incoming'[k].field.number
                 /\ Pos(incoming'[k + d]) = Pos(incoming'[k]) + d
      BY <1>5 DEF Whole
  <2>1. CASE k \in 1 .. n
    <3>1. /\ [verb |-> incoming[k].field.verb, fields |-> incoming[k].field.of]
               \in AnyRequest
          /\ incoming[k].field.number <= sent
          /\ Pos(incoming[k]) \in 1 .. 2 * incoming[k].field.of
          /\ k + Left(incoming[k]) <= n
          /\ \A d \in 0 .. Left(incoming[k]) :
               /\ incoming[k + d].field.number = incoming[k].field.number
               /\ Pos(incoming[k + d]) = Pos(incoming[k]) + d
        BY <1>4, <2>1 DEF Stream, Whole
    <3>2. incoming[k] \in Byte
        BY <1>4, <2>1
    <3>3. incoming[k].field.number \in Nat /\ incoming[k].field.of \in Nat
          /\ Left(incoming[k]) \in Int
        BY <3>2 DEF Byte, Left, Pos
    <3>4. incoming'[k] = incoming[k]
        BY <1>5, <2>1
    <3>5. ASSUME NEW d \in 0 .. Left(incoming[k]) PROVE incoming'[k + d] = incoming[k + d]
      <4>1. k + d \in 1 .. n
          BY <1>sizes, <2>1, <3>1, <3>3
      <4> QED BY <1>5, <4>1
    <3>6. incoming[k].field.number <= sent'
        BY <1>count, <3>1, <3>3
    <3>7. k + Left(incoming[k]) <= Len(incoming')
        BY <1>sizes, <2>1, <3>1, <3>3
    <3> QED BY <3>1, <3>4, <3>5, <3>6, <3>7
  <2>2. CASE k \in n + 1 .. n + 2 * request.fields
    <3> DEFINE j == k - n
    <3>0. k = n + j /\ j \in 1 .. 2 * request.fields
        BY <1>sizes, <2>2
    <3>1. j \in 1 .. 2 * request.fields /\ incoming'[k] = bytes[j]
        BY <1>5, <2>2, <3>0
    <3> HIDE DEF j
    <3>2. /\ bytes[j].field.number = sent + 1
          /\ bytes[j].field.verb = request.verb
          /\ bytes[j].field.of = request.fields
          /\ Pos(bytes[j]) = j
          /\ Left(bytes[j]) = 2 * request.fields - j
        BY <1>2, <3>1
    <3>3. [verb |-> bytes[j].field.verb, fields |-> bytes[j].field.of] \in AnyRequest
      <4>1. request = [verb |-> request.verb, fields |-> request.fields]
          BY <1>1 DEF AnyRequest
      <4> QED BY <1>1, <3>2, <4>1
    <3>4. ASSUME NEW d \in 0 .. Left(bytes[j])
          PROVE /\ incoming'[k + d].field.number = sent + 1
                /\ Pos(incoming'[k + d]) = j + d
      <4>1. d \in Nat /\ j + d \in 1 .. 2 * request.fields
            /\ k + d \in n + 1 .. n + 2 * request.fields /\ k + d - n = j + d
        <5>1. d \in 0 .. 2 * request.fields - j
            BY <3>2
        <5>2. d \in Nat /\ j \in Nat /\ j >= 1 /\ j + d <= 2 * request.fields
            BY <1>sizes, <3>0, <5>1
        <5>3. j + d \in 1 .. 2 * request.fields
            BY <1>sizes, <5>2
        <5>4. k + d = n + (j + d)
            BY <1>sizes, <3>0, <5>2
        <5>5. ASSUME NEW e \in 1 .. 2 * request.fields, k + d = n + e
              PROVE k + d \in n + 1 .. n + 2 * request.fields /\ k + d - n = e
            BY <1>sizes, <5>5
        <5> QED BY <5>2, <5>3, <5>4, <5>5
      <4>2. incoming'[k + d] = bytes[j + d]
          BY <1>5, <4>1
      <4> QED BY <1>2, <4>1, <4>2
    <3>5. k + Left(bytes[j]) <= Len(incoming') /\ Pos(bytes[j]) \in 1 .. 2 * request.fields
        BY <1>sizes, <3>0, <3>2
    <3>6. bytes[j].field.number <= sent'
        BY <1>count, <3>2
    <3>7. ASSUME NEW d \in 0 .. Left(incoming'[k])
          PROVE /\ incoming'[k + d].field.number = incoming'[k].field.number
                /\ Pos(incoming'[k + d]) = Pos(incoming'[k]) + d
        BY <3>1, <3>2, <3>4
    <3> QED BY <3>1, <3>2, <3>3, <3>5, <3>6, <3>7
  <2> QED BY <1>sizes, <2>1, <2>2
<1>8. ASSUME NEW k \in 1 .. n
      PROVE  incoming[k].field.number \in Nat /\ incoming[k].field.number <= sent
  <2>1. incoming[k] \in Byte
      BY <1>4
  <2> QED BY <1>4, <2>1 DEF Stream, Whole, Byte
<1>9. InOrder'
  <2> SUFFICES ASSUME NEW k \in 1 .. n + 2 * request.fields,
                      NEW l \in 1 .. n + 2 * request.fields, k < l
      PROVE \/ incoming'[k].field.number < incoming'[l].field.number
            \/ /\ incoming'[k].field.number = incoming'[l].field.number
               /\ Pos(incoming'[k]) < Pos(incoming'[l])
      BY <1>5 DEF InOrder
  <2>1. CASE k \in 1 .. n /\ l \in 1 .. n
      BY <1>4, <1>5, <2>1 DEF Stream, InOrder
  <2>2. CASE k \in 1 .. n /\ l \in n + 1 .. n + 2 * request.fields
    <3>1. l - n \in 1 .. 2 * request.fields
        BY <1>sizes, <2>2
    <3>2. incoming'[l].field.number = sent + 1
        BY <1>2, <1>5, <2>2, <3>1
    <3>3. incoming'[k].field.number \in Nat /\ incoming'[k].field.number <= sent
        BY <1>5, <1>8, <2>2
    <3> QED BY <1>count, <3>2, <3>3
  <2>3. CASE k \in n + 1 .. n + 2 * request.fields /\ l \in n + 1 .. n + 2 * request.fields
    <3>1. k - n \in 1 .. 2 * request.fields /\ l - n \in 1 .. 2 * request.fields
        BY <1>sizes, <2>3
    <3>2. incoming'[k] = bytes[k - n] /\ incoming'[l] = bytes[l - n]
        BY <1>5, <2>3
    <3>3. Pos(incoming'[k]) = k - n /\ Pos(incoming'[l]) = l - n
        BY <1>2, <3>1, <3>2
    <3>4. incoming'[k].field.number = incoming'[l].field.number
        BY <1>2, <3>1, <3>2
    <3> QED BY <1>sizes, <3>3, <3>4
  <2> QED BY <1>sizes, <2>1, <2>2, <2>3
<1>10. HandledIsPast'
  <2> SUFFICES ASSUME NEW i \in DOMAIN handled
      PROVE /\ handled[i] <= sent'
            /\ \A k \in 1 .. n + 2 * request.fields :
                 \/ handled[i] < incoming'[k].field.number
                 \/ handled[i] = incoming'[k].field.number /\ Pos(incoming'[k]) > 1
      BY <1>3, <1>5 DEF HandledIsPast
  <2>1. handled[i] \in Nat /\ handled[i] <= sent
      BY DEF HandledIsPast, Stream, TypeOK
  <2>2. ASSUME NEW k \in 1 .. n
        PROVE \/ handled[i] < incoming'[k].field.number
              \/ handled[i] = incoming'[k].field.number /\ Pos(incoming'[k]) > 1
      BY <1>4, <1>5 DEF HandledIsPast
  <2>3. ASSUME NEW k \in n + 1 .. n + 2 * request.fields
        PROVE handled[i] < incoming'[k].field.number
    <3>1. k - n \in 1 .. 2 * request.fields
        BY <1>sizes
    <3>2. incoming'[k].field.number = sent + 1
        BY <1>2, <1>5, <3>1
    <3> QED BY <1>count, <2>1, <3>2
  <2> QED BY <1>sizes, <1>count, <2>1, <2>2, <2>3
<1> QED BY <1>6, <1>7, <1>9, <1>10 DEF Stream

-----------------------------------------------------------------------------
(* What a pass that takes its bytes for a request finds in them. *)
LEMMA FieldsOfRequest ==
  ASSUME Stream, NEW n \in 1 .. Len(incoming), NEW verb, NEW fields \in Nat,
         IsRequest(SplitString(SubSeq(incoming, 1, n)), verb, fields)
  PROVE  LET vals == SplitString(SubSeq(incoming, 1, n)) IN
         /\ Pos(incoming[1]) = 1
         /\ vals[1].field = incoming[1].field
         /\ incoming[1].field.verb = verb
         /\ \A p \in 1 .. fields - 1 :
              p <= incoming[1].field.of =>
                /\ vals[p].whole
                /\ vals[p].field.number = incoming[1].field.number
<1> DEFINE bytes == SubSeq(incoming, 1, n)
           lacking == bytes[1].half - 1
           begin(j) == IF j = 1 THEN 1 ELSE 2 * j - 1 - lacking
           vals == SplitString(bytes)
           m == (Len(bytes) + lacking + 1) \div 2
<1>1. incoming \in Seq(Byte) /\ Len(incoming) \in Nat
      /\ DOMAIN incoming = 1 .. Len(incoming)
    BY DEF Stream, TypeOK
<1>2. Len(bytes) = n /\ n \in Nat /\ n >= 1 /\ n <= Len(incoming)
      /\ \A k \in 1 .. n : bytes[k] = incoming[k]
    BY <1>1, SubSeqProperties
<1>3. bytes[1] = incoming[1] /\ incoming[1] \in Byte
    BY <1>1, <1>2
<1>4. lacking \in 0 .. 1
    BY <1>3 DEF Byte
<1>5. vals = [j \in 1 .. m |->
                [field |-> bytes[begin(j)].field,
                 whole |-> bytes[begin(j)].half = 1 /\ begin(j) < Len(bytes)]]
    BY DEF SplitString
<1> HIDE DEF bytes
<1>6. m \in Nat /\ m >= 1
    BY <1>2, <1>4
<1>7. \A j \in 1 .. m :
        /\ vals[j].field = bytes[begin(j)].field
        /\ vals[j].whole = (bytes[begin(j)].half = 1 /\ begin(j) < Len(bytes))
    BY <1>5
<1>8. Len(vals) = m
    BY <1>5, <1>6
<1>9. vals[1].whole /\ vals[1].field.at = 1 /\ vals[1].field.verb = verb
      /\ Len(vals) = fields
    BY DEF IsRequest, bytes
<1>10. vals[1].field = incoming[1].field /\ incoming[1].half = 1
  <2>1. begin(1) = 1 /\ 1 \in 1 .. m
      BY <1>6
  <2> HIDE DEF begin, m, vals, lacking
  <2>2. /\ vals[1].field = bytes[begin(1)].field
        /\ vals[1].whole = (bytes[begin(1)].half = 1 /\ begin(1) < Len(bytes))
      BY <1>7, <2>1
  <2>3. bytes[begin(1)].half = 1
      BY <1>9, <2>2
  <2>4. bytes[begin(1)] = incoming[1]
      BY <1>3, <2>1
  <2> QED BY <2>2, <2>3, <2>4
<1>11. Pos(incoming[1]) = 1 /\ incoming[1].field.verb = verb
    BY <1>9, <1>10 DEF Pos
<1>12. lacking = 0 /\ fields = (n + 1) \div 2
    BY <1>2, <1>3, <1>8, <1>9, <1>10
<1>13. ASSUME NEW p \in 1 .. fields - 1, p <= incoming[1].field.of
       PROVE  vals[p].whole /\ vals[p].field.number = incoming[1].field.number
  <2>0. incoming[1].field.of \in Nat
      BY <1>3 DEF Byte
  <2>1. 2 * p - 1 \in 1 .. n /\ 2 * p - 1 < n /\ p \in 1 .. m
      BY <1>2, <1>8, <1>9, <1>12
  <2>2. begin(p) = 2 * p - 1
    <3>1. lacking = 0 /\ p \in Nat /\ p >= 1
        BY <1>12, <2>1
    <3> HIDE DEF lacking, m, vals
    <3> QED BY <3>1
  <2>3. 2 * p - 2 \in 0 .. Left(incoming[1])
      BY <1>11, <1>13, <2>0 DEF Left
  <2>4. /\ incoming[1 + (2 * p - 2)].field.number = incoming[1].field.number
        /\ Pos(incoming[1 + (2 * p - 2)]) = 1 + (2 * p - 2)
    <3>1. 1 \in DOMAIN incoming
        BY <1>1, <1>2
    <3>2. \A d \in 0 .. Left(incoming[1]) :
            /\ incoming[1 + d].field.number = incoming[1].field.number
            /\ Pos(incoming[1 + d]) = Pos(incoming[1]) + d
        BY <3>1 DEF Stream, Whole
    <3> QED BY <1>11, <2>3, <3>2
  <2>5. 1 + (2 * p - 2) = 2 * p - 1
      BY <2>1
  <2>6. incoming[2 * p - 1] \in Byte
      BY <1>1, <1>2, <2>1
  <2>7. incoming[2 * p - 1].half = 1
    <3>1. 2 * incoming[2 * p - 1].field.at + incoming[2 * p - 1].half - 2 = 2 * p - 1
        BY <2>4, <2>5 DEF Pos
    <3>2. incoming[2 * p - 1].field.at \in Nat /\ incoming[2 * p - 1].half \in 1 .. 2
        BY <2>6 DEF Byte
    <3> QED BY <2>1, <3>1, <3>2
  <2>8. bytes[begin(p)] = incoming[2 * p - 1]
      BY <1>2, <2>1, <2>2
  <2>9. vals[p].field.number = incoming[1].field.number
    <3> HIDE DEF begin, m, vals
    <3> QED BY <1>7, <2>1, <2>4, <2>5, <2>8
  <2>10. begin(p) < Len(bytes)
      BY <1>2, <2>1, <2>2
  <2>11. vals[p].whole
    <3> HIDE DEF begin, m, vals
    <3> QED BY <1>7, <2>1, <2>7, <2>8, <2>10
  <2> QED BY <2>9, <2>11
<1> QED BY <1>10, <1>11, <1>13 DEF bytes

(* To receive a part of the stream keeps the rest in order. *)
LEMMA PassKeepsStream ==
  ASSUME Stream, NEW n \in 1 .. Len(incoming),
         incoming' = Remaining(n), sent' = sent
  PROVE  /\ Whole' /\ InOrder' /\ incoming' \in Seq(Byte)
         /\ DOMAIN incoming' = 1 .. Len(incoming) - n
         /\ \A k \in DOMAIN incoming' :
              k + n \in DOMAIN incoming /\ incoming'[k] = incoming[k + n]
<1> DEFINE len == Len(incoming)
<1>1. incoming \in Seq(Byte) /\ len \in Nat /\ n \in Nat /\ n <= len /\ n >= 1
      /\ DOMAIN incoming = 1 .. len
    BY DEF Stream, TypeOK
<1>2. /\ incoming' \in Seq(Byte)
      /\ Len(incoming') = len - n
      /\ DOMAIN incoming' = 1 .. len - n
      /\ \A k \in 1 .. len - n : incoming'[k] = incoming[k + n]
  <2>1. incoming' = SubSeq(incoming, n + 1, len)
      BY DEF Remaining
  <2>2. n + 1 \in 1 .. len + 1 /\ len \in 0 .. len
      BY <1>1
  <2>3. Len(incoming') = len - n
    <3>1. Len(incoming') = IF n + 1 <= len THEN len - (n + 1) + 1 ELSE 0
        BY <1>1, <2>1, <2>2, SubSeqProperties
    <3>2. len - n = IF n + 1 <= len THEN len - (n + 1) + 1 ELSE 0
      <4> HIDE DEF len
      <4> QED BY <1>1
    <3> QED BY <3>1, <3>2
  <2>4. incoming' \in Seq(Byte)
      BY <1>1, <2>1, <2>2, SubSeqProperties
  <2>5. ASSUME NEW k \in 1 .. len - n PROVE incoming'[k] = incoming[k + n]
      BY <1>1, <2>1
  <2> QED BY <2>3, <2>4, <2>5
<1> HIDE DEF len
<1>3. \A k \in 1 .. len - n : k + n \in 1 .. len
    BY <1>1
<1>4. InOrder'
  <2> SUFFICES ASSUME NEW k \in 1 .. len - n, NEW l \in 1 .. len - n, k < l
      PROVE \/ incoming'[k].field.number < incoming'[l].field.number
            \/ /\ incoming'[k].field.number = incoming'[l].field.number
               /\ Pos(incoming'[k]) < Pos(incoming'[l])
      BY <1>2 DEF InOrder
  <2>1. k + n < l + n
      BY <1>1
  <2>2. k + n \in DOMAIN incoming /\ l + n \in DOMAIN incoming
      BY <1>1, <1>3
  <2>3. \/ incoming[k + n].field.number < incoming[l + n].field.number
        \/ /\ incoming[k + n].field.number = incoming[l + n].field.number
           /\ Pos(incoming[k + n]) < Pos(incoming[l + n])
      BY <2>1, <2>2 DEF Stream, InOrder
  <2>4. incoming'[k] = incoming[k + n] /\ incoming'[l] = incoming[l + n]
      BY <1>2
  <2> QED BY <2>3, <2>4
<1>5. Whole'
  <2> SUFFICES ASSUME NEW k \in 1 .. len - n
      PROVE /\ [verb |-> incoming'[k].field.verb, fields |-> incoming'[k].field.of]
                 \in AnyRequest
            /\ incoming'[k].field.number <= sent'
            /\ Pos(incoming'[k]) \in 1 .. 2 * incoming'[k].field.of
            /\ k + Left(incoming'[k]) <= Len(incoming')
            /\ \A d \in 0 .. Left(incoming'[k]) :
                 /\ incoming'[k + d].field.number = incoming'[k].field.number
                 /\ Pos(incoming'[k + d]) = Pos(incoming'[k]) + d
      BY <1>2 DEF Whole
  <2>1. k + n \in DOMAIN incoming /\ incoming'[k] = incoming[k + n]
      BY <1>1, <1>2, <1>3
  <2>2. /\ [verb |-> incoming[k + n].field.verb, fields |-> incoming[k + n].field.of]
               \in AnyRequest
        /\ incoming[k + n].field.number <= sent
        /\ Pos(incoming[k + n]) \in 1 .. 2 * incoming[k + n].field.of
        /\ (k + n) + Left(incoming[k + n]) <= len
        /\ \A d \in 0 .. Left(incoming[k + n]) :
             /\ incoming[(k + n) + d].field.number = incoming[k + n].field.number
             /\ Pos(incoming[(k + n) + d]) = Pos(incoming[k + n]) + d
      BY <2>1 DEF Stream, Whole, len
  <2>3. Left(incoming[k + n]) \in Int
    <3>1. incoming[k + n] \in Byte
        BY <1>1, <2>1
    <3> QED BY <3>1 DEF Byte, Left, Pos
  <2>4. k + Left(incoming'[k]) <= Len(incoming')
      BY <1>1, <1>2, <2>1, <2>2, <2>3
  <2>5. ASSUME NEW d \in 0 .. Left(incoming[k + n])
        PROVE incoming'[k + d] = incoming[(k + n) + d]
    <3>1. k + d \in 1 .. len - n /\ (k + d) + n = (k + n) + d
        BY <1>1, <2>2, <2>3
    <3> QED BY <1>2, <3>1
  <2>6. ASSUME NEW d \in 0 .. Left(incoming'[k])
        PROVE /\ incoming'[k + d].field.number = incoming'[k].field.number
              /\ Pos(incoming'[k + d]) = Pos(incoming'[k]) + d
      BY <2>1, <2>2, <2>5
  <2> QED BY <2>1, <2>2, <2>4, <2>6
<1> QED BY <1>1, <1>2, <1>3, <1>4, <1>5 DEF len

Result == HandledIsPast /\ HandledInOrder /\ OneRequestActed

(* A handler that acts on fields of its request. *)
LEMMA ActKeepsOrder ==
  ASSUME Stream, Result, NEW n \in 1 .. Len(incoming), NEW verb, NEW fields \in Nat,
         incoming' = Remaining(n), sent' = sent,
         IsRequest(SplitString(SubSeq(incoming, 1, n)), verb, fields),
         NEW positions,
         \A k \in DOMAIN positions :
           positions[k] \in 1 .. fields - 1 /\ positions[k] <= incoming[1].field.of,
         ActOn(SplitString(SubSeq(incoming, 1, n)), positions)
  PROVE  Result' /\ handled' \in Seq(Nat)
<1> DEFINE vals == SplitString(SubSeq(incoming, 1, n))
           number == incoming[1].field.number
<1>1. /\ Pos(incoming[1]) = 1
      /\ vals[1].field = incoming[1].field
      /\ \A p \in 1 .. fields - 1 :
           p <= incoming[1].field.of => vals[p].whole /\ vals[p].field.number = number
    BY FieldsOfRequest
<1> HIDE DEF vals
<1>2. acted' = [k \in DOMAIN positions |-> vals[positions[k]]]
      /\ handled' = Append(handled, number)
    BY <1>1 DEF ActOn, vals
<1>3. handled \in Seq(Nat) /\ Len(handled) \in Nat
      /\ DOMAIN handled = 1 .. Len(handled)
    BY DEF Stream, TypeOK
<1>4. 1 \in DOMAIN incoming /\ n \in Nat /\ n >= 1 /\ Len(incoming) \in Nat
    BY DEF Stream, TypeOK
<1>5. number \in Nat /\ number <= sent /\ sent \in Nat
  <2>1. incoming[1] \in Byte
      BY <1>4 DEF Stream, TypeOK
  <2> QED BY <1>4, <2>1 DEF Stream, TypeOK, Whole, Byte
<1>6. \A i \in DOMAIN handled : handled[i] < number
  <2> SUFFICES ASSUME NEW i \in DOMAIN handled
               PROVE  handled[i] < number
      OBVIOUS
  <2>1. \/ handled[i] < incoming[1].field.number
        \/ handled[i] = incoming[1].field.number /\ Pos(incoming[1]) > 1
      BY <1>4 DEF Result, HandledIsPast
  <2> QED BY <1>1, <2>1
<1>7. /\ handled' \in Seq(Nat)
      /\ Len(handled') = Len(handled) + 1
      /\ DOMAIN handled' = 1 .. Len(handled) + 1
      /\ \A i \in DOMAIN handled : handled'[i] = handled[i]
      /\ handled'[Len(handled) + 1] = number
    BY <1>2, <1>3, <1>5, AppendProperties
<1>8. \A i \in DOMAIN handled' : i \in DOMAIN handled \/ i = Len(handled) + 1
    BY <1>3, <1>7
<1> HIDE DEF number
<1>9. HandledInOrder'
  <2> SUFFICES ASSUME NEW i \in DOMAIN handled', NEW j \in DOMAIN handled', i < j
               PROVE  handled'[i] < handled'[j]
      BY DEF HandledInOrder
  <2>1. i \in DOMAIN handled
      BY <1>3, <1>7
  <2>2. CASE j \in DOMAIN handled
      BY <1>7, <2>1, <2>2 DEF Result, HandledInOrder
  <2>3. CASE j = Len(handled) + 1
      BY <1>6, <1>7, <2>1, <2>3
  <2> QED BY <1>8, <2>2, <2>3
<1>10. HandledIsPast'
  <2> SUFFICES ASSUME NEW i \in DOMAIN handled'
      PROVE /\ handled'[i] <= sent'
            /\ \A k \in DOMAIN incoming' :
                 \/ handled'[i] < incoming'[k].field.number
                 \/ handled'[i] = incoming'[k].field.number /\ Pos(incoming'[k]) > 1
      BY DEF HandledIsPast
  <2>1. handled'[i] <= sent'
    <3>1. CASE i \in DOMAIN handled
        BY <1>7, <3>1 DEF Result, HandledIsPast
    <3>2. CASE i = Len(handled) + 1
        BY <1>5, <1>7, <3>2
    <3> QED BY <1>8, <3>1, <3>2
  <2> SUFFICES ASSUME NEW k \in DOMAIN incoming'
      PROVE \/ handled'[i] < incoming'[k].field.number
            \/ handled'[i] = incoming'[k].field.number /\ Pos(incoming'[k]) > 1
      BY <2>1
  <2>2. k + n \in DOMAIN incoming /\ incoming'[k] = incoming[k + n] /\ 1 < k + n
    <3>1. k + n \in DOMAIN incoming /\ incoming'[k] = incoming[k + n]
        BY PassKeepsStream
    <3>2. k \in 1 .. Len(incoming) - n
        BY PassKeepsStream
    <3> QED BY <1>4, <3>1, <3>2
  <2>3. CASE i \in DOMAIN handled
    <3>1. \/ handled[i] < incoming[k + n].field.number
          \/ handled[i] = incoming[k + n].field.number /\ Pos(incoming[k + n]) > 1
        BY <2>2, <2>3 DEF Result, HandledIsPast
    <3> QED BY <1>7, <2>2, <2>3, <3>1
  <2>4. CASE i = Len(handled) + 1
    <3>1. \/ number < incoming[k + n].field.number
          \/ number = incoming[k + n].field.number
             /\ Pos(incoming[1]) < Pos(incoming[k + n])
        BY <1>4, <2>2 DEF Stream, InOrder, number
    <3> QED BY <1>1, <1>7, <2>2, <2>4, <3>1
  <2> QED BY <1>8, <2>3, <2>4
<1>11. OneRequestActed'
  <2> SUFFICES ASSUME NEW k \in DOMAIN acted'
      PROVE acted'[k].whole /\ acted'[k].field.number = handled'[Len(handled')]
      BY DEF OneRequestActed
  <2>1. k \in DOMAIN positions /\ acted'[k] = vals[positions[k]]
      BY <1>2
  <2>2. positions[k] \in 1 .. fields - 1 /\ positions[k] <= incoming[1].field.of
      BY <2>1
  <2>3. vals[positions[k]].whole /\ vals[positions[k]].field.number = number
      BY <1>1, <2>2 DEF number
  <2>4. handled'[Len(handled')] = number
      BY <1>7
  <2> QED BY <2>1, <2>3, <2>4
<1> QED BY <1>7, <1>9, <1>10, <1>11 DEF Result

(* A step that acts on nothing. *)
LEMMA NothingActed ==
  ASSUME Stream, Result, NEW n \in 1 .. Len(incoming),
         incoming' = Remaining(n), UNCHANGED <<sent, handled, acted>>
  PROVE  Result'
<1>1. HandledIsPast'
  <2> SUFFICES ASSUME NEW i \in DOMAIN handled
      PROVE /\ handled[i] <= sent
            /\ \A k \in DOMAIN incoming' :
                 \/ handled[i] < incoming'[k].field.number
                 \/ handled[i] = incoming'[k].field.number /\ Pos(incoming'[k]) > 1
      BY DEF HandledIsPast
  <2>1. handled[i] <= sent
      BY DEF Result, HandledIsPast
  <2>2. ASSUME NEW k \in DOMAIN incoming'
      PROVE \/ handled[i] < incoming'[k].field.number
            \/ handled[i] = incoming'[k].field.number /\ Pos(incoming'[k]) > 1
    <3>1. k + n \in DOMAIN incoming /\ incoming'[k] = incoming[k + n]
        BY PassKeepsStream
    <3> QED BY <3>1 DEF Result, HandledIsPast
  <2> QED BY <2>1, <2>2
<1>2. HandledInOrder' /\ OneRequestActed'
    BY DEF Result, HandledInOrder, OneRequestActed
<1> QED BY <1>1, <1>2 DEF Result

LEMMA PassKeepsOrder ==
  ASSUME Stream, Result, NEW n \in 1 .. Len(incoming), Pass(n)
  PROVE  Stream' /\ Result'
<1> DEFINE vals == SplitString(SubSeq(incoming, 1, n))
<1>1. incoming' = Remaining(n) /\ sent' = sent /\ m_State \in 1 .. 3
    BY DEF Pass
<1>2. Whole' /\ InOrder' /\ incoming' \in Seq(Byte)
    BY <1>1, PassKeepsStream
<1>3. /\ [verb |-> incoming[1].field.verb, fields |-> incoming[1].field.of] \in AnyRequest
  <2>1. 1 \in DOMAIN incoming
      BY DEF Stream, TypeOK
  <2> QED BY <2>1 DEF Stream, Whole
<1>4. /\ incoming[1].field.verb \in {"login", "newuser"} => incoming[1].field.of >= 18
      /\ incoming[1].field.verb = "updatepro" => incoming[1].field.of >= 10
    BY <1>3 DEF AnyRequest
<1>5. sent' \in Nat /\ m_State \in 0 .. 4 /\ m_BF2_15 \in BOOLEAN /\ handled \in Seq(Nat)
    BY <1>1 DEF Stream, TypeOK
<1> SUFFICES /\ Result' /\ handled' \in Seq(Nat)
             /\ m_State' \in 0 .. 4 /\ m_BF2_15' \in BOOLEAN
    BY <1>2, <1>5 DEF Stream, TypeOK
<1>6. CASE Login(vals)
  <2>1. PICK fields \in LoginLengths :
          /\ IsRequest(vals, "login", fields)
          /\ ActOn(vals, <<3, 5, ResponseAt(fields)>>)
          /\ m_BF2_15' = (m_BF2_15 \/ fields \in {20, 24})
      BY <1>6 DEF Login
  <2>2. fields \in Nat /\ fields >= 18
      BY DEF LoginLengths
  <2>3. ResponseAt(fields) \in {7, 11}
      BY DEF ResponseAt
  <2>4. incoming[1].field.verb = "login"
      BY <2>1, <2>2, FieldsOfRequest
  <2>5. incoming[1].field.of \in Nat /\ incoming[1].field.of >= 18
      BY <1>3, <1>4, <2>4 DEF AnyRequest
  <2> DEFINE positions == <<3, 5, ResponseAt(fields)>>
  <2>6. \A k \in DOMAIN positions :
          positions[k] \in 1 .. fields - 1 /\ positions[k] <= incoming[1].field.of
    <3>1. \A k \in DOMAIN positions : positions[k] \in {3, 5, 7, 11}
        BY <2>3
    <3> HIDE DEF positions
    <3> QED BY <2>2, <2>5, <3>1
  <2>7. Result' /\ handled' \in Seq(Nat)
    <3>1. ActOn(vals, positions)
        BY <2>1
    <3> HIDE DEF positions
    <3> QED BY <1>1, <2>1, <2>2, <2>6, <3>1, ActKeepsOrder
  <2>8. m_BF2_15' \in BOOLEAN
      BY <2>1
  <2>9. m_State' = m_State \/ m_State' = 2
      BY <1>6 DEF Login
  <2> QED BY <1>5, <2>7, <2>8, <2>9
<1>7. CASE NewUser(vals)
  <2>1. IsRequest(vals, "newuser", 18) /\ ActOn(vals, <<3, 5, 7>>)
        /\ UNCHANGED <<m_State, m_BF2_15>>
      BY <1>7 DEF NewUser
  <2>2. incoming[1].field.of \in Nat /\ incoming[1].field.of >= 18
      BY <1>3, <1>4, <2>1, FieldsOfRequest DEF AnyRequest
  <2> DEFINE positions == <<3, 5, 7>>
  <2>3. \A k \in DOMAIN positions :
          positions[k] \in 1 .. 18 - 1 /\ positions[k] <= incoming[1].field.of
      BY <2>2
  <2>4. ActOn(vals, positions)
      BY <2>1
  <2> HIDE DEF positions
  <2>5. Result' /\ handled' \in Seq(Nat)
      BY <1>1, <2>1, <2>3, <2>4, ActKeepsOrder
  <2> QED BY <1>5, <2>1, <2>5
<1>8. CASE GetProfile(vals)
  <2>1. IsRequest(vals, "getprofile", 8) /\ ActOn(vals, << >>)
        /\ m_State' = 3 /\ UNCHANGED m_BF2_15
      BY <1>8 DEF GetProfile
  <2> DEFINE positions == << >>
  <2>2. DOMAIN positions = {} /\ ActOn(vals, positions)
      BY <2>1
  <2> HIDE DEF positions
  <2>3. Result' /\ handled' \in Seq(Nat)
      BY <1>1, <2>1, <2>2, ActKeepsOrder
  <2> QED BY <1>5, <2>1, <2>3
<1>9. CASE UpdateProfile(vals)
  <2>1. IsRequest(vals, "updatepro", 10) /\ ActOn(vals, <<7>>)
        /\ m_State' = 3 /\ UNCHANGED m_BF2_15
      BY <1>9 DEF UpdateProfile
  <2>2. incoming[1].field.of \in Nat /\ incoming[1].field.of >= 10
      BY <1>3, <1>4, <2>1, FieldsOfRequest DEF AnyRequest
  <2> DEFINE positions == <<7>>
  <2>3. \A k \in DOMAIN positions :
          positions[k] \in 1 .. 10 - 1 /\ positions[k] <= incoming[1].field.of
      BY <2>2
  <2>4. ActOn(vals, positions)
      BY <2>1
  <2> HIDE DEF positions
  <2>5. Result' /\ handled' \in Seq(Nat)
      BY <1>1, <2>1, <2>3, <2>4, ActKeepsOrder
  <2> QED BY <1>5, <2>1, <2>5
<1>10. CASE Logout(vals)
  <2>1. IsRequest(vals, "logout", 4) /\ ActOn(vals, << >>)
        /\ m_State' = 4 /\ UNCHANGED m_BF2_15
      BY <1>10 DEF Logout
  <2> DEFINE positions == << >>
  <2>2. DOMAIN positions = {} /\ ActOn(vals, positions)
      BY <2>1
  <2> HIDE DEF positions
  <2>3. Result' /\ handled' \in Seq(Nat)
      BY <1>1, <2>1, <2>2, ActKeepsOrder
  <2> QED BY <1>5, <2>1, <2>3
<1>11. CASE Ignored(vals)
  <2>1. UNCHANGED <<m_State, m_BF2_15, handled, acted>>
      BY <1>11 DEF Ignored
  <2> QED BY <1>1, <1>5, <2>1, NothingActed
<1>12. Login(vals) \/ NewUser(vals) \/ GetProfile(vals) \/ UpdateProfile(vals)
         \/ Logout(vals) \/ Ignored(vals)
    BY DEF Pass
<1> QED BY <1>6, <1>7, <1>8, <1>9, <1>10, <1>11, <1>12

LEMMA StepKeepsOrder ==
  ASSUME Stream, Result, [Next]_vars
  PROVE  Stream' /\ Result'
<1>1. CASE SendServerChallenge
  <2>1. m_State' = 1 /\ UNCHANGED <<m_BF2_15, incoming, sent, handled, acted>>
      BY <1>1 DEF SendServerChallenge
  <2>2. Stream'
    <3>1. TypeOK'
        BY <2>1 DEF Stream, TypeOK
    <3>2. Whole' /\ InOrder'
        BY <2>1 DEF Stream, Whole, InOrder, Pos, Left
    <3> QED BY <3>1, <3>2 DEF Stream
  <2>3. Result'
      BY <2>1 DEF Result, HandledIsPast, HandledInOrder, OneRequestActed, Pos
  <2> QED BY <2>2, <2>3
<1>2. ASSUME NEW request \in Request, Send(request)
      PROVE  Stream' /\ Result'
  <2>1. UNCHANGED <<handled, acted>>
      BY <1>2 DEF Send
  <2>2. Stream' /\ HandledIsPast'
      BY <1>2, SendKeepsStream DEF Result
  <2>3. HandledInOrder' /\ OneRequestActed'
      BY <2>1 DEF Result, HandledInOrder, OneRequestActed
  <2> QED BY <2>2, <2>3 DEF Result
<1>3. ASSUME NEW n \in 1 .. Len(incoming), Pass(n)
      PROVE  Stream' /\ Result'
    BY <1>3, PassKeepsOrder
<1>4. CASE UNCHANGED vars
  <2>1. UNCHANGED <<m_State, m_BF2_15, incoming, sent, handled, acted>>
      BY <1>4 DEF vars
  <2>2. Stream'
    <3>1. TypeOK'
        BY <2>1 DEF Stream, TypeOK
    <3>2. Whole' /\ InOrder'
        BY <2>1 DEF Stream, Whole, InOrder, Pos, Left
    <3> QED BY <3>1, <3>2 DEF Stream
  <2>3. Result'
      BY <2>1 DEF Result, HandledIsPast, HandledInOrder, OneRequestActed, Pos
  <2> QED BY <2>2, <2>3
<1> QED BY <1>1, <1>2, <1>3, <1>4 DEF Next

LEMMA StreamIsKept == Spec => [](Stream /\ Result)
<1>1. Init => Stream /\ Result
    BY InitStream DEF Result
<1>2. Stream /\ Result /\ [Next]_vars => (Stream /\ Result)'
    BY StepKeepsOrder
<1> QED BY <1>1, <1>2, PTL DEF Spec

(* The requests a connection acts on are acted on in the order they were     *)
(* sent and none twice, for any requests, cut and joined in any way: nothing *)
(* of a pass is left for the next (CTCPSocket::ClearRecvBuffer and DoRecv).  *)
THEOREM RequestsInOrder == Spec => []HandledInOrder
<1>1. Stream /\ Result => HandledInOrder
    BY DEF Result
<1> QED BY <1>1, StreamIsKept, PTL

(* The fields a handler acts on are whole, and of the one request that it    *)
(* acts on: the number of fields and the verb in the first of them, which    *)
(* CClientCM::Update looks at, are enough for that.                          *)
THEOREM FieldsOfOneRequest == Spec => []OneRequestActed
<1>1. Stream /\ Result => OneRequestActed
    BY DEF Result
<1> QED BY <1>1, StreamIsKept, PTL

-----------------------------------------------------------------------------
(* What a pass finds in a request that it receives whole and alone. *)
LEMMA WholeIsRequest ==
  ASSUME Stream, incoming # << >>, incoming[1].half = 1, incoming[1].field.at = 1,
         NEW n \in 1 .. Len(incoming), n = 2 * incoming[1].field.of
  PROVE  LET vals == SplitString(SubSeq(incoming, 1, n)) IN
         /\ vals[1].field = incoming[1].field
         /\ IsRequest(vals, incoming[1].field.verb, incoming[1].field.of)
<1> DEFINE bytes == SubSeq(incoming, 1, n)
           lacking == bytes[1].half - 1
           begin(j) == IF j = 1 THEN 1 ELSE 2 * j - 1 - lacking
           vals == SplitString(bytes)
           of == incoming[1].field.of
           m == (Len(bytes) + lacking + 1) \div 2
<1>1. incoming \in Seq(Byte) /\ Len(incoming) \in Nat /\ 1 \in DOMAIN incoming
    BY DEF Stream, TypeOK
<1>2. Len(bytes) = n /\ n \in Nat /\ n >= 1
      /\ \A k \in 1 .. n : bytes[k] = incoming[k]
    BY <1>1, SubSeqProperties
<1>3. bytes[1] = incoming[1] /\ incoming[1] \in Byte /\ of \in Nat
  <2>1. incoming[1] \in Byte
      BY <1>1
  <2> QED BY <1>2, <2>1 DEF Byte
<1>4. vals = [j \in 1 .. m |->
                [field |-> bytes[begin(j)].field,
                 whole |-> bytes[begin(j)].half = 1 /\ begin(j) < Len(bytes)]]
    BY DEF SplitString
<1> HIDE DEF bytes
<1>5. m = of /\ of >= 1
  <2>1. lacking = 0
      BY <1>3
  <2>2. Len(bytes) + lacking + 1 = 2 * of + 1
      BY <1>2, <1>3, <2>1
  <2>3. m = (2 * of + 1) \div 2
      BY <2>2
  <2>4. of >= 1
      BY <1>2, <1>3
  <2> HIDE DEF m, of, lacking
  <2>5. of \in Nat
      BY <1>3
  <2> QED BY <2>3, <2>4, <2>5
<1>6. /\ vals[1].field = bytes[begin(1)].field
      /\ vals[1].whole = (bytes[begin(1)].half = 1 /\ begin(1) < Len(bytes))
      /\ Len(vals) = of
  <2> HIDE DEF vals, begin, m, of
  <2>1. 1 \in 1 .. m /\ m \in Nat
      BY <1>3, <1>5
  <2> QED BY <1>4, <1>5, <2>1
<1>7. begin(1) = 1 /\ 1 < Len(bytes)
    BY <1>2, <1>3, <1>5
<1>8. vals[1].field = incoming[1].field /\ vals[1].whole
  <2> HIDE DEF vals, begin
  <2> QED BY <1>3, <1>6, <1>7
<1> QED BY <1>6, <1>8 DEF IsRequest, bytes

(* A pass that its state does not ignore acts on the first request. *)
LEMMA ActsOnFirst ==
  ASSUME NEW n \in 1 .. Len(incoming), Pass(n)
  PROVE  LET vals == SplitString(SubSeq(incoming, 1, n)) IN
         handled' = Append(handled, vals[1].field.number) \/ Ignored(vals)
BY DEF Pass, Login, NewUser, GetProfile, UpdateProfile, Logout, ActOn

LEMMA WholePass ==
  ASSUME Stream, incoming # << >>, incoming[1].half = 1, incoming[1].field.at = 1,
         NEW n \in 1 .. Len(incoming), n = 2 * incoming[1].field.of, Pass(n),
         incoming[1].field.verb \in Admitted(m_State)
  PROVE  handled' = Append(handled, incoming[1].field.number)
<1> DEFINE vals == SplitString(SubSeq(incoming, 1, n))
           verb == incoming[1].field.verb
           of == incoming[1].field.of
<1>1. vals[1].field = incoming[1].field /\ IsRequest(vals, verb, of)
    BY WholeIsRequest
<1>2. handled' = Append(handled, vals[1].field.number) \/ Ignored(vals)
    BY ActsOnFirst
<1>3. [verb |-> verb, fields |-> of] \in AnyRequest
  <2>1. 1 \in DOMAIN incoming
      BY DEF Stream, TypeOK
  <2> QED BY <2>1 DEF Stream, Whole
<1> HIDE DEF vals
<1>4. \/ verb = "login" /\ of \in LoginLengths
      \/ verb = "newuser" /\ of = 18
      \/ verb = "getprofile" /\ of = 8
      \/ verb = "updatepro" /\ of = 10
      \/ verb = "logout" /\ of = 4
    BY <1>3 DEF AnyRequest, LoginLengths
<1> HIDE DEF verb, of
<1>5. \/ m_State = 1 /\ verb \in {"login", "newuser"}
      \/ m_State = 2 /\ verb \in {"getprofile", "updatepro"}
      \/ m_State = 3 /\ verb \in {"getprofile", "logout"}
    BY DEF Admitted, verb
<1>6. ~Ignored(vals)
    BY <1>1, <1>4, <1>5 DEF Ignored
<1> QED BY <1>1, <1>2, <1>6

(* A request that a pass receives whole and alone is acted on if the state   *)
(* knows it, whatever has been cut, joined or lost before it.                *)
THEOREM WholeRequestsHandled == Spec => WholeRequestHandled
<1>1. ASSUME Stream, [Next]_vars, incoming # << >>, incoming[1].half = 1,
             NextField.at = 1, Len(incoming') = Len(incoming) - 2 * NextField.of,
             NextField.verb \in Admitted(m_State)
      PROVE  handled' = Append(handled, NextField.number)
  <2> DEFINE of == incoming[1].field.of
  <2>1. 1 \in DOMAIN incoming /\ incoming \in Seq(Byte) /\ Len(incoming) \in Nat
      BY <1>1 DEF Stream, TypeOK
  <2>2. of \in Nat /\ of >= 4
    <3>1. [verb |-> incoming[1].field.verb, fields |-> of] \in AnyRequest
        BY <1>1, <2>1 DEF Stream, Whole
    <3> QED BY <3>1 DEF AnyRequest
  <2>3. Len(incoming') < Len(incoming)
      BY <1>1, <2>1, <2>2 DEF NextField
  <2>4. incoming' # incoming
      BY <2>1, <2>3
  <2>5. ASSUME NEW request \in Request, Send(request) PROVE FALSE
    <3>1. incoming' = incoming \o Bytes(sent + 1, request)
        BY <2>5 DEF Send
    <3>2. Bytes(sent + 1, request) \in Seq(Byte)
      <4>1. request \in AnyRequest /\ sent + 1 \in Nat
          BY <1>1, RequestAssumption DEF Stream, TypeOK
      <4> QED BY <4>1, BytesOfRequest
    <3>3. Len(incoming') >= Len(incoming)
        BY <2>1, <3>1, <3>2, ConcatProperties
    <3> QED BY <2>1, <2>3, <3>2, <3>3
  <2>6. PICK n \in 1 .. Len(incoming) : Pass(n)
    <3>1. ~SendServerChallenge /\ ~UNCHANGED vars
        BY <2>4 DEF SendServerChallenge, vars
    <3> QED BY <1>1, <2>5, <3>1 DEF Next
  <2>7. n = 2 * of
    <3>1. incoming' = Remaining(n) /\ sent' = sent
        BY <2>6 DEF Pass
    <3>2. incoming' \in Seq(Byte) /\ DOMAIN incoming' = 1 .. Len(incoming) - n
        BY <1>1, <2>6, <3>1, PassKeepsStream
    <3>3. Len(incoming') = Len(incoming) - n
        BY <2>1, <2>6, <3>2
    <3> QED BY <1>1, <2>1, <2>2, <3>3 DEF NextField
  <2> QED BY <1>1, <2>6, <2>7, WholePass DEF NextField
<1>2. Stream /\ [Next]_vars =>
        [/\ incoming # << >> /\ incoming[1].half = 1 /\ NextField.at = 1
         /\ Len(incoming') = Len(incoming) - 2 * NextField.of
         /\ NextField.verb \in Admitted(m_State)
         => handled' = Append(handled, NextField.number)]_vars
    BY <1>1
<1> QED BY <1>2, StreamIsKept, PTL DEF Spec, WholeRequestHandled

=============================================================================
