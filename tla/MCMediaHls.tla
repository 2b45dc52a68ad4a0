----------------------------- MODULE MCMediaHls -----------------------------
(* Instances of MediaHls for TLC: every request but r3 asks for key k1.    *)
EXTENDS MediaHls, TLC

CONSTANTS r1, r2, r3, k1, k2

MCKeyOf == [r \in Requests |-> IF r = r3 THEN k2 ELSE k1]

=============================================================================
