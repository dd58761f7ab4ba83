----------------------------- MODULE Args2Proofs -----------------------------
(***************************************************************************)
(* For which arguments the layout and its decoding agree, among all user   *)
(* structs that compile.                                                   *)
(***************************************************************************)
EXTENDS Args2, TLAPS

(* How far decode moves for an argument. *)
Moves(a) == IF a.pod THEN ARG_TAG(a) ELSE 8

(* It moves by the size of the argument in the struct if that is a number  *)
(* or has whole words, and by less otherwise.                              *)
LEMMA MovesFacts ==
  ASSUME NEW a \in Args
  PROVE  /\ Moves(a) \in Nat /\ SizeOf(a) \in Nat /\ Moves(a) <= SizeOf(a)
         /\ Moves(a) = SizeOf(a) <=> WholeWords(a)
<1>1. CASE a = Number
  BY <1>1 DEF Number, Moves, SizeOf, WholeWords
<1>2. ASSUME NEW n \in PodSizes, Compiles(n), a = [pod |-> TRUE, size |-> n]
      PROVE  /\ Moves(a) \in Nat /\ SizeOf(a) \in Nat /\ Moves(a) <= SizeOf(a)
             /\ Moves(a) = SizeOf(a) <=> WholeWords(a)
  <2>1. n \in Nat /\ (n % 256) + 8 < 256
    BY <1>2 DEF Compiles
  <2>2. Moves(a) = (n % 256) + 8 /\ SizeOf(a) = ((8 + n + 7) \div 8) * 8
        /\ (WholeWords(a) <=> n % 8 = 0 /\ n < 248)
    BY <1>2 DEF Moves, ARG_TAG, SizeOf, WholeWords
  <2>. DEFINE m == n % 256
              s == ((8 + n + 7) \div 8) * 8
  <2>3. m \in Nat /\ s \in Nat /\ m <= n /\ 8 + n <= s
    BY <2>1
  <2>4. m + 8 = s <=> n % 8 = 0 /\ n < 248
    BY <2>1
  <2>. HIDE DEF m, s
  <2>5. Moves(a) = m + 8 /\ SizeOf(a) = s
    BY <2>2 DEF m, s
  <2>6. Moves(a) = SizeOf(a) <=> WholeWords(a)
    BY <2>2, <2>4, <2>5
  <2>7. Moves(a) \in Nat /\ SizeOf(a) \in Nat /\ Moves(a) <= SizeOf(a)
    BY <2>1, <2>3, <2>5
  <2>. QED BY <2>6, <2>7
<1>. QED BY <1>1, <1>2 DEF Args

(* It takes the bytes of an argument from its place if the tag counts      *)
(* them, and from the place of nothing else.                               *)
LEMMA DecodeFacts ==
  ASSUME NEW a \in Args, NEW o \in Nat
  PROVE  /\ Decode(ARG_TAG(a), o).end = o + Moves(a)
         /\ Counted(a) => Decode(ARG_TAG(a), o) = Place(a, o)
         /\ \A p \in Nat : Decode(ARG_TAG(a), o) = Place(a, p) => o = p /\ Counted(a)
<1>1. CASE a = Number
  <2>1. /\ Decode(ARG_TAG(a), o) = [start |-> o, end |-> o + 8] /\ Moves(a) = 8
        /\ \A p \in Nat : Place(a, p) = [start |-> p, end |-> p + 8]
        /\ Counted(a)
    BY <1>1 DEF Number, Decode, ARG_TAG, Place, Moves, Counted
  <2>. QED BY <2>1
<1>2. ASSUME NEW n \in PodSizes, Compiles(n), a = [pod |-> TRUE, size |-> n]
      PROVE  /\ Decode(ARG_TAG(a), o).end = o + Moves(a)
             /\ Counted(a) => Decode(ARG_TAG(a), o) = Place(a, o)
             /\ \A p \in Nat : Decode(ARG_TAG(a), o) = Place(a, p) => o = p /\ Counted(a)
  <2>. DEFINE m == n % 256
  <2>1. n \in Nat /\ m \in Nat /\ m + 8 < 256 /\ (m = n <=> n < 248)
    BY <1>2 DEF Compiles
  <2>2. /\ ARG_TAG(a) = m + 8 /\ Moves(a) = m + 8 /\ (Counted(a) <=> n < 248)
        /\ \A p \in Nat : Place(a, p) = [start |-> p + 8, end |-> (p + 8) + n]
    BY <1>2 DEF ARG_TAG, Moves, Counted, Place
  <2>. HIDE DEF m
  <2>3. Decode(ARG_TAG(a), o) = [start |-> o + 8, end |-> o + (m + 8)]
    BY <2>1, <2>2 DEF Decode
  <2>4. ASSUME Counted(a) PROVE Decode(ARG_TAG(a), o) = Place(a, o)
    BY <2>1, <2>2, <2>3, <2>4
  <2>5. ASSUME NEW p \in Nat, Decode(ARG_TAG(a), o) = Place(a, p)
        PROVE  o = p /\ Counted(a)
    <3>1. o + 8 = p + 8 /\ o + (m + 8) = (p + 8) + n
      BY <2>2, <2>3, <2>5
    <3>. QED BY <2>1, <2>2, <3>1
  <2>. QED BY <2>2, <2>3, <2>4, <2>5
<1>. QED BY <1>1, <1>2 DEF Args

(* After both calls of decode. *)
LEMMA AfterDecoding ==
  ASSUME IndInv, pc = "decoded"
  PROVE  DecodesWholeWords
<1>. DEFINE o1 == TAGS_SIZE + Moves(arg1)
            o2 == TAGS_SIZE + SizeOf(arg1)
<1>1. arg1 \in Args /\ arg2 \in Args /\ TAGS_SIZE \in Nat
  BY DEF IndInv, TAGS_SIZE
<1>2. /\ got1 = Decode(ARG_TAG(arg1), TAGS_SIZE) /\ got2 = Decode(ARG_TAG(arg2), got1.end)
      /\ offset = got2.end /\ total = TAGS_SIZE + SizeOf(arg1) + SizeOf(arg2)
  BY DEF IndInv
<1>3. /\ Moves(arg1) \in Nat /\ SizeOf(arg1) \in Nat /\ Moves(arg1) <= SizeOf(arg1)
      /\ Moves(arg2) \in Nat /\ SizeOf(arg2) \in Nat /\ Moves(arg2) <= SizeOf(arg2)
  BY <1>1, MovesFacts
<1>4. got1.end = o1
  BY <1>1, <1>2, DecodeFacts
<1>5. o1 \in Nat /\ o2 \in Nat /\ (o1 = o2 <=> WholeWords(arg1))
  <2>1. Moves(arg1) = SizeOf(arg1) <=> WholeWords(arg1)
    BY <1>1, MovesFacts
  <2>. QED BY <1>1, <1>3, <2>1
<1>6. got2 = Decode(ARG_TAG(arg2), o1) /\ offset = o1 + Moves(arg2)
  BY <1>1, <1>2, <1>4, <1>5, DecodeFacts
<1>7. offset <= total
  BY <1>1, <1>2, <1>3, <1>6
<1>. HIDE DEF o1, o2
<1>8. ASSUME WholeWords(arg1), Counted(arg2) PROVE Found
  <2>1. Counted(arg1)
    BY <1>8 DEF WholeWords, Counted
  <2>2. got1 = Place(arg1, TAGS_SIZE)
    BY <1>1, <1>2, <2>1, DecodeFacts
  <2>3. got2 = Place(arg2, o2)
    BY <1>1, <1>5, <1>6, <1>8, DecodeFacts
  <2>. QED BY <2>2, <2>3 DEF Found, o2
<1>9. ASSUME Found PROVE WholeWords(arg1) /\ Counted(arg2)
  <2>1. Decode(ARG_TAG(arg2), o1) = Place(arg2, o2)
    BY <1>6, <1>9 DEF Found, o2
  <2>2. o1 = o2 /\ Counted(arg2)
    BY <1>1, <1>5, <2>1, DecodeFacts
  <2>. QED BY <1>5, <2>2
<1>. QED BY <1>7, <1>8, <1>9 DEF DecodesWholeWords

(* Whatever two arguments are logged, the back end decodes those two if    *)
(* the first is a number or a struct of whole words and the second is      *)
(* counted by its tag, and not otherwise; it never reads behind them.      *)
THEOREM Decodes == Spec => []DecodesWholeWords
<1>1. Init => IndInv
  BY DEF Init, IndInv, Args
<1>2. IndInv /\ [Next]_vars => IndInv'
  <2>. SUFFICES ASSUME IndInv, [Next]_vars PROVE IndInv'
    OBVIOUS
  <2>. USE DEF IndInv
  <2>1. CASE UNCHANGED vars
    BY <2>1 DEF vars
  <2>2. ASSUME NEW a \in Args, NEW b \in Args, Encode(a, b) PROVE IndInv'
    BY <2>2 DEF Encode
  <2>3. CASE DecodeFirst
    BY <2>3 DEF DecodeFirst
  <2>4. CASE DecodeSecond
    BY <2>4 DEF DecodeSecond
  <2>. QED BY <2>1, <2>2, <2>3, <2>4 DEF Next
<1>3. IndInv => DecodesWholeWords
  BY AfterDecoding DEF DecodesWholeWords
<1>. QED BY <1>1, <1>2, <1>3, PTL DEF Spec
=============================================================================
