----------------------------- MODULE MCCalculate -----------------------------
(* Instances of POST /calculate for TLC. *)
EXTENDS Calculate, TLC

Interchangeable == Permutations(Handlers)

=============================================================================
