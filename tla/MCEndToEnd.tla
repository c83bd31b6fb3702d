------------------------------ MODULE MCEndToEnd ------------------------------
(* Windows of three seconds and codes of two digits, all different, some of them  *)
(* with a leading zero.                                                           *)
EXTENDS EndToEnd

CONSTANTS s1, s2

MCHotp(secret, w) == IF secret = s1 THEN (7 * w + 3) % 100 ELSE (7 * w + 55) % 100

ASSUME MCCodesDiffer == CodesDiffer
===============================================================================
