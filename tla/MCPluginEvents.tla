---------------------------- MODULE MCPluginEvents ----------------------------
(* Bounds of the model checking runs of PluginEvents. *)
EXTENDS PluginEvents


EventsFew == [s \in Scene |-> IF s = "flyout" THEN 2 ELSE 4]
================================================================================
