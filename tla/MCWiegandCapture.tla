---------------------------- MODULE MCWiegandCapture ----------------------------
(* Instances of WiegandCapture for TLC.                                            *)
EXTENDS WiegandCapture

Repeat(pattern, n) == [i \in 1 .. n |-> pattern[((i - 1) % Len(pattern)) + 1]]

\* A digit, Enter, a card, and a frame of 36 bits that overruns the buffer by two: read
\* from its second or third bit on it would still begin or end with a key.
KeypadBursts == {<<0, 1, 0, 1>>, <<1, 0, 1, 1>>, Repeat(<<0, 1, 1>>, 26), Repeat(<<1, 0, 0>>, 36)}

\* Enter, with the gaps between bits that the comment on MESSAGE_GAP calls typical.
EnterBurst == {<<1, 0, 1, 1>>}
=================================================================================
