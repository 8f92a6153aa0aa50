---------------------------- MODULE MCPluginTasks ----------------------------
(* Symmetry sets for PluginTasks: plugins and threads are interchangeable. *)
EXTENDS PluginTasks, TLC

Symmetry == Permutations(Plugins) \cup Permutations(Workers)
=============================================================================
