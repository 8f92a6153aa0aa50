--------------------------- MODULE MCSchemaStore ---------------------------
(* Symmetry and bounds for SchemaStore: its models are interchangeable, and a     *)
(* behaviour about schemas has three tasks and one load of the indexes, or fewer  *)
(* tasks and more loads.                                                          *)
EXTENDS SchemaStore

Symmetry == Permutations(Models)
Small == kind = "schema" => started + loads <= MaxTasks + 1

=============================================================================
