------------------------------ MODULE Compress ------------------------------
(***************************************************************************)
(* The posting lists of pkg/compress/compress.go as they are in the index  *)
(* files: document IDs in variable-byte code.  A byte is a digit of base   *)
(* Base, the lowest digit first, plus Base in all bytes but the last.      *)
(* Numbers are far below the ten digits that a uint64 takes.               *)
(***************************************************************************)
EXTENDS Integers, Sequences, SequencesExt

CONSTANT Base  \* 128 in the code

ASSUME CompressAssumption == Base \in Nat \ {0, 1}

\* One byte for each digit, until the rest of the number is zero.
encodeUVarint[x \in Nat] ==
    IF x < Base THEN <<x>> ELSE <<(x % Base) + Base>> \o encodeUVarint[x \div Base]

EncodePostingsList(postingsList) ==
    FlattenSeq([i \in DOMAIN postingsList |-> encodeUVarint[postingsList[i]]])

DecodedByte(s, byte) ==
    IF byte < Base
    THEN [numbers |-> Append(s.numbers, s.value + byte * s.place), value |-> 0, place |-> 1]
    ELSE [s EXCEPT !.value = @ + (byte - Base) * s.place, !.place = @ * Base]

\* A number that the buffer does not have to its end is left out.
DecodePostingsList(buf) == FoldLeft(DecodedByte, [numbers |-> <<>>, value |-> 0, place |-> 1], buf).numbers

=============================================================================
