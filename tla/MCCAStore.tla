----------------------------- MODULE MCCAStore -----------------------------
(* Instances of CAStore for TLC.                                            *)
(*   a1, a2  two different CSRs for alpha, as two keys would produce         *)
(*   b1      a CSR for beta                                                 *)
(*   ec      a CSR for beta with a key SignCSR refuses                      *)
(*   bad     a body that does not decode or verify                          *)
EXTENDS CAStore

CONSTANTS alpha, beta, a1, a2, b1, ec, bad

MCCN == [c \in CSRs |-> IF c \in {a1, a2} THEN alpha ELSE beta]
============================================================================
