-------------------------- MODULE MCServerProcess --------------------------
(* Symmetry sets for ServerProcess: processes, packages and files are *)
(* interchangeable.                                                   *)
EXTENDS ServerProcess

Symmetry == Permutations(Procs) \cup Permutations(Packages) \cup Permutations(Files)

=============================================================================
