-------------------------- MODULE MCPluginLifecycle --------------------------
(* PluginLifecycle for TLC: interchangeable values and actions. *)
EXTENDS PluginLifecycle, TLC

DataSymmetry == Permutations(Value) \cup Permutations(Action)
================================================================================
