-------------------------------- MODULE MCDevice --------------------------------
(* A keypad with two digits, Enter and Cancel, and two bursts of five bits that    *)
(* are no key: the end of the one would read as a digit, of the other as Enter.    *)
EXTENDS Device

DeviceBursts == {<<0, 0, 0, 1>>, <<0, 0, 1, 0>>, <<1, 0, 1, 1>>, <<1, 0, 1, 0>>,
                 <<1, 0, 0, 0, 1>>, <<0, 1, 0, 1, 1>>}

AllDigits == 0 .. 9

ASSUME MCTimingTolerated == TimingTolerated
=================================================================================
