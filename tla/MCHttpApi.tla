------------------------------ MODULE MCHttpApi ------------------------------
(* Requests are interchangeable: nothing depends on which one is which.    *)
EXTENDS HttpApi, TLC

Symmetry == Permutations(Requests)
=============================================================================
