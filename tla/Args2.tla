-------------------------------- MODULE Args2 --------------------------------
(***************************************************************************)
(* The arguments of a log call (args2.rs): args2 lays two arguments out    *)
(* behind two tags in a packed struct, whose bytes travel through the      *)
(* staging buffer, and decode finds them again in the back end from the    *)
(* tags alone.  An argument is a number of eight bytes or a user struct    *)
(* (UserPod), stored behind the address of its decode function.            *)
(*                                                                         *)
(* An argument is abstracted to its size; the bytes to the places of the   *)
(* parts.                                                                  *)
(***************************************************************************)
EXTENDS Integers

CONSTANT PodSizes  \* sizes of the user structs, of alignment 8 or less

VARIABLES
  pc,          \* "empty", "encoded", "half", "decoded"
  arg1, arg2,  \* what was logged
  tag1, tag2,  \* the tags in the struct
  total,       \* size_of::<Args2<T1, T2>>()
  offset,      \* the offset decode returned last
  got1, got2   \* where decode found the arguments

vars == <<pc, arg1, arg2, tag1, tag2, total, offset, got1, got2>>

TAGS_SIZE == 8

Number == [pod |-> FALSE, size |-> 8]

(* A struct whose tag is larger than 255 does not compile. *)
Compiles(n) == n \in Nat /\ (n % 256) + 8 < 256

Args ==
  {Number} \union {[pod |-> TRUE, size |-> n] : n \in {m \in PodSizes : Compiles(m)}}

(* size_of::<T>() as u8 + 8 for a user struct, 1 for ArgU64. *)
ARG_TAG(a) == IF a.pod THEN (a.size % 256) + 8 ELSE 1

(* size_of::<UserPodSnap<T>>(): repr(C) rounds up to the alignment of      *)
(* decode_fn.                                                              *)
SizeOf(a) == IF a.pod THEN ((8 + a.size + 7) \div 8) * 8 ELSE a.size

(* Where the data of an argument stored at offset o is. *)
Place(a, o) ==
  LET start == IF a.pod THEN o + 8 ELSE o
  IN [start |-> start, end |-> start + a.size]

(* decode: where it takes the data from, and the offset behind it. *)
Decode(tag, o) ==
  IF tag \in {0, 1, 2} THEN [start |-> o, end |-> o + 8]
  ELSE [start |-> o + 8, end |-> o + tag]

Nowhere == [start |-> 0, end |-> 0]

Init ==
  /\ pc = "empty" /\ arg1 = Number /\ arg2 = Number
  /\ tag1 = 0 /\ tag2 = 0 /\ total = 0 /\ offset = 0
  /\ got1 = Nowhere /\ got2 = Nowhere

Encode(a, b) ==
  /\ pc \in {"empty", "decoded"}
  /\ arg1' = a /\ arg2' = b
  /\ tag1' = ARG_TAG(a) /\ tag2' = ARG_TAG(b)
  /\ total' = TAGS_SIZE + SizeOf(a) + SizeOf(b)
  /\ pc' = "encoded"
  /\ UNCHANGED <<offset, got1, got2>>

(* The log function decodes the first argument, then the second. *)
DecodeFirst ==
  /\ pc = "encoded"
  /\ got1' = Decode(tag1, TAGS_SIZE)
  /\ offset' = got1'.end
  /\ pc' = "half"
  /\ UNCHANGED <<arg1, arg2, tag1, tag2, total, got2>>

DecodeSecond ==
  /\ pc = "half"
  /\ got2' = Decode(tag2, offset)
  /\ offset' = got2'.end
  /\ pc' = "decoded"
  /\ UNCHANGED <<arg1, arg2, tag1, tag2, total, got1>>

Next ==
  \/ \E a, b \in Args : Encode(a, b)
  \/ DecodeFirst
  \/ DecodeSecond

Spec == Init /\ [][Next]_vars

-----------------------------------------------------------------------------
(* Properties.                                                             *)

(* Both arguments are taken from exactly where args2 put them. *)
Found ==
  /\ got1 = Place(arg1, TAGS_SIZE)
  /\ got2 = Place(arg2, TAGS_SIZE + SizeOf(arg1))

(* decode finds both arguments, whatever their types: the struct is its    *)
(* tags, the first argument and the second, each struct behind the address *)
(* of its decode function, and nothing else.                               *)
RoundTrip == pc = "decoded" => Found

(* A tag counts the bytes of a struct if they are fewer than 248, and      *)
(* leads to the next argument if they are also whole words.                *)
Counted(a) == a.pod => a.size < 248
WholeWords(a) == a.pod => a.size % 8 = 0 /\ a.size < 248

(* For every pair of types, decode finds both arguments exactly if the     *)
(* first is a number or a struct of whole words and the tag of the second  *)
(* counts it: a struct's tag is then never mistaken for one of a number.   *)
(* Found or not, decode ends inside the payload, so it reads nothing of    *)
(* what lies behind it in the slice that run makes.                        *)
DecodesWholeWords ==
  pc = "decoded" =>
    /\ Found <=> WholeWords(arg1) /\ Counted(arg2)
    /\ offset <= total

-----------------------------------------------------------------------------
(* The inductive invariant behind DecodesWholeWords. *)
IndInv ==
  /\ arg1 \in Args /\ arg2 \in Args
  /\ pc # "empty" =>
       /\ tag1 = ARG_TAG(arg1) /\ tag2 = ARG_TAG(arg2)
       /\ total = TAGS_SIZE + SizeOf(arg1) + SizeOf(arg2)
  /\ pc \in {"half", "decoded"} => got1 = Decode(tag1, TAGS_SIZE)
  /\ pc = "half" => offset = got1.end
  /\ pc = "decoded" => got2 = Decode(tag2, got1.end) /\ offset = got2.end
=============================================================================
