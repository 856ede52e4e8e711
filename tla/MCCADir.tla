------------------------------ MODULE MCCADir ------------------------------
(* Instances of CADir for TLC: a1 is the CSR of alpha, b1 that of beta. *)
EXTENDS CADir, TLC

CONSTANTS alpha, beta, a1, b1

MCCN == [c \in CSRs |-> IF c = b1 THEN beta ELSE alpha]

\* The two names, each with its CSR, can be exchanged.
MCSymmetry == {(alpha :> beta @@ beta :> alpha @@ a1 :> b1 @@ b1 :> a1)}
============================================================================
