--------------------------------- MODULE MCLock ---------------------------------
(* A two-digit keypad over a clock of two ticks a second and two-second windows,   *)
(* powered up in the first window so that the skew reaches below time zero.        *)
EXTENDS Lock

\* One code per window; two of them have a leading zero.
MCHotp(secret, w) == <<1, 12, 20, 2, 10, 21>>[(w % 6) + 1]
=================================================================================
