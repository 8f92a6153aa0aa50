--------------------------- MODULE MCImeSession ---------------------------
(* Symmetry for the safety runs of ImeSession. *)
EXTENDS ImeSession, TLC

Symmetry == Permutations(Clients) \cup Permutations(Letters)
ClientSymmetry == Permutations(Clients)

=============================================================================
