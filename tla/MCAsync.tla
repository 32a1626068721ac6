------------------------------ MODULE MCAsync ------------------------------
(* Two PCMs and a control device; addresses of handlers are reused after    *)
(* free(), and are interchangeable.                                         *)
EXTENDS Async, TLC

Symmetry == Permutations(Handlers) \cup Permutations(PcmFds)
=============================================================================
