--------------------------------- MODULE Wiegand ---------------------------------
(* Decoding of a completed bit frame (lock-client/core/src/wiegand.rs).  Bits are   *)
(* 0 and 1, oldest first.  What the lock ignores is not told apart: the numbers a   *)
(* card carries and the length of a frame it does not recognize.                    *)
EXTENDS Integers, Sequences, SequencesExt

CONSTANTS CancelKey, EnterKey, Card, Unrecognized

BitsToNat(bits) == FoldLeft(LAMBDA acc, bit : 2 * acc + bit, 0, bits)

DecodeNibble(bits) ==
  LET value == BitsToNat(bits)
  IN  CASE value \in 0 .. 9 -> value
        [] value = 10 -> CancelKey
        [] value = 11 -> EnterKey
        [] OTHER -> Unrecognized

DecodeFrame(bits) ==
  CASE Len(bits) = 4 -> DecodeNibble(bits)
    [] Len(bits) = 26 -> Card
    [] OTHER -> Unrecognized
=================================================================================
