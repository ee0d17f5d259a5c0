---------------------------- MODULE MCPaneLifecycle ----------------------------
(* Instances of PaneLifecycle for TLC: the constants are in the .cfg files. *)
EXTENDS PaneLifecycle

================================================================================
