----------------------------- MODULE MCDispatch -----------------------------
(* TLC's view of Dispatch: requests and goroutines are interchangeable.     *)
EXTENDS Dispatch, TLC

Symmetry == Permutations(Requests) \union Permutations(Slots)
=============================================================================
