----------------------------- MODULE ByteStrings -----------------------------
(***************************************************************************)
(* What RawMemory promises: objects that each have a string of bytes, as   *)
(* if they were values.  Copies are equal and independent, what was moved  *)
(* from is empty, and a change of the size keeps the bytes that fit.  An   *)
(* operation that fails is one that does not happen.                       *)
(***************************************************************************)
EXTENDS Naturals, Sequences

CONSTANTS Objects, Bytes, Absent

VARIABLE value  \* of an object that is constructed, or Absent

Exists(o) == value[o] # Absent

ByteStringsInit == value = [o \in Objects |-> Absent]

(* o gets some string, and nothing else changes. *)
Gets(o) == /\ value'[o] \in Seq(Bytes)
           /\ value' = [value EXCEPT ![o] = value'[o]]

Make(o) == ~ Exists(o) /\ Gets(o)

Copy(o, other) == Exists(other) /\ value' = [value EXCEPT ![o] = value[other]]

Move(o, other) == /\ o # other
                  /\ Exists(other)
                  /\ value' = [value EXCEPT ![o] = value[other], ![other] = << >>]

Swap(o, other) == /\ Exists(o) /\ Exists(other)
                  /\ value' = [value EXCEPT ![o] = value[other], ![other] = value[o]]

Resize(o) == /\ Exists(o)
             /\ Gets(o)
             /\ \A i \in DOMAIN value[o] \cap DOMAIN value'[o] : value'[o][i] = value[o][i]

Write(o) == /\ Exists(o)
            /\ \E i \in DOMAIN value[o], byte \in Bytes : value' = [value EXCEPT ![o][i] = byte]

Destroy(o) == Exists(o) /\ value' = [value EXCEPT ![o] = Absent]

ByteStringsNext ==
  \E o \in Objects : \/ Make(o) \/ Resize(o) \/ Write(o) \/ Destroy(o)
                     \/ \E other \in Objects : Copy(o, other) \/ Move(o, other) \/ Swap(o, other)

ByteStringsSpec == ByteStringsInit /\ [][ByteStringsNext]_value

=============================================================================
