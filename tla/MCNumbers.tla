------------------------------- MODULE MCNumbers -------------------------------
(***************************************************************************)
(* Integers of 2, 4 and 6 bits stand for 8 or 16, 32 and 64, floating      *)
(* point numbers of 2 and 4 digits for float and double: as there, double  *)
(* has every number of 32 bits and float every one of 16, and no more.     *)
(***************************************************************************)
EXTENDS Numbers

MCType == {Bool, Float(2), Float(4)}
    \cup {Integer(signed, bits) : signed \in BOOLEAN, bits \in {2, 4, 6}}
MCValues == -12 .. 12 \cup {boundary + d : boundary \in {-64, -32, 32, 64, 128}, d \in -3 .. 3}
===============================================================================
