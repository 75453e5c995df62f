---------------------------- MODULE MCConnection ----------------------------
(* Model checking of Connection: senders are interchangeable. *)
EXTENDS Connection, TLC

Symmetry == Permutations(Senders)
=============================================================================
