------------------------------ MODULE ProcSpec ------------------------------
(***************************************************************************)
(* What the lowering of one procedure promises (spec.md 4.3 and 7): it    *)
(* stops, and either it aborts, exactly when the body mixes blocking and  *)
(* nonblocking assignments to the same bit, or the process it emits        *)
(* commits, for every value of the module's variables before the clock    *)
(* edge, what the SystemVerilog body assigns.  The whole lowering is one  *)
(* step here.                                                              *)
(***************************************************************************)
CONSTANTS
  Bodies,       \* the procedure bodies
  Envs,         \* the values of the variables before the clock edge
  Mixes(_),     \* whether a body mixes blocking and nonblocking on a bit
  Commit(_, _)  \* the values a body commits under an env

VARIABLES
  body,  \* the procedure
  st,    \* the outcome: "pending", "error" or "done"
  val    \* when done, the committed values for every env

vars == <<body, st, val>>

Init ==
  /\ body \in Bodies
  /\ st = "pending"
  /\ val = <<>>

Lower ==
  /\ st = "pending"
  /\ st' = IF Mixes(body) THEN "error" ELSE "done"
  /\ val' = IF Mixes(body) THEN <<>> ELSE [env \in Envs |-> Commit(body, env)]
  /\ UNCHANGED body

Spec == Init /\ [][Lower]_vars /\ WF_vars(Lower)

\* The safety part of Spec.
Safety == Init /\ [][Lower]_vars
====
