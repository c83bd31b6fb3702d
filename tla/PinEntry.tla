-------------------------------- MODULE PinEntry --------------------------------
(* The keypad's digit buffer (lock-client/core/src/pin_entry.rs).                 *)
(*                                                                                *)
(* `buffer' and `len' are the struct's two fields; rows of the array past `len'   *)
(* keep whatever an earlier attempt left in them, as they do in the code.         *)
(* `typed' is a history variable: every digit pressed since the last Enter or     *)
(* Cancel (or since power-up), which is what the person at the keypad believes    *)
(* the lock has.                                                                  *)
EXTENDS Integers, Sequences

CONSTANTS
  PIN_LEN,    \* pin_entry.rs:4
  Digits,     \* what Key::Digit carries
  MaxTyped    \* bound: digits pressed between two Enter/Cancel presses

ASSUME PinAssumption == /\ PIN_LEN \in Nat \ {0}
                        /\ 0 \in Digits
                        /\ Digits \subseteq Nat
                        /\ MaxTyped \in Nat

VARIABLES buffer, len, typed

entryVars == <<buffer, len, typed>>

Pending == <<>>      \* Submission::Pending; Submission::Ready carries PIN_LEN digits

Codes == [1 .. PIN_LEN -> Digits]

Blank == [i \in 1 .. PIN_LEN |-> 0]

---------------------------------------------------------------------------------
EntryInit == /\ buffer = Blank
             /\ len = 0
             /\ typed = <<>>

\* Mutant of Reset: the array is blanked, the length survives.
ResetLenKept == /\ buffer' = Blank
                /\ len' = len
                /\ typed' = <<>>

\* PinEntry::reset, with the history it closes.
Reset == /\ buffer' = Blank
         /\ len' = 0
         /\ typed' = <<>>

\* Mutants of NextSlot: a digit too many lands in the last place; the bound is off by one.
NextSlotStuck == IF len < PIN_LEN THEN len + 1 ELSE PIN_LEN
NextSlotPastEnd == IF len <= PIN_LEN THEN len + 1 ELSE 1

\* Where the next digit goes: one past PIN_LEN starts a fresh attempt.
NextSlot == IF len < PIN_LEN THEN len + 1 ELSE 1

\* push(Key::Digit(d)).
PushDigit(d) == /\ Len(typed) < MaxTyped
                /\ typed' = Append(typed, d)
                /\ buffer' = [buffer EXCEPT ![NextSlot] = d]
                /\ len' = NextSlot

\* What push(Key::Enter) returns, decided before the reset.
EnterResult == IF len = PIN_LEN THEN buffer ELSE Pending

---------------------------------------------------------------------------------
(* Properties *)

\* Type invariant: the array is always full of digits and the length never indexes
\* past it.
EntryTypeOK == /\ buffer \in Codes
               /\ len \in 0 .. PIN_LEN
               /\ typed \in Seq(Digits)

\* Length of the attempt in progress when n digits have been pressed: a full attempt
\* stays full until the next digit opens a new one.
AttemptLen(n) == IF n = 0 THEN 0 ELSE ((n - 1) % PIN_LEN) + 1

\* The live part of the array is exactly the tail of what was pressed since the last
\* Enter or Cancel, however often the attempt overflowed: no digit is lost, none is
\* left over from an earlier attempt (pin_entry.rs:39-42, 54-58).
BufferIsTail ==
  /\ len = AttemptLen(Len(typed))
  /\ \A i \in 1 .. len : buffer[i] = typed[Len(typed) - len + i]

\* A person has typed a whole attempt when the digits since the last Enter or Cancel
\* come to a positive multiple of PIN_LEN; its code is the last PIN_LEN of them.
WholeAttempt(keys) == keys # <<>> /\ Len(keys) % PIN_LEN = 0

LastAttempt(keys) == [i \in 1 .. PIN_LEN |-> keys[Len(keys) - PIN_LEN + i]]

\* Pressing Enter hands the caller a code exactly when a whole attempt was typed since
\* the last Enter or Cancel, and the code is that attempt: all PIN_LEN digits of it,
\* none a leftover of an attempt before it in the same array (pin_entry.rs:62-70).
SubmitsWhatWasTyped ==
  EnterResult = IF WholeAttempt(typed) THEN LastAttempt(typed) ELSE Pending
=================================================================================
