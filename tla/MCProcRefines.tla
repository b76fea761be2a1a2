---------------------------- MODULE MCProcRefines ----------------------------
(* ProcRefines for TLC, with the constants of MCProcLower. *)
EXTENDS MCProcLower, ProcRefines
====
