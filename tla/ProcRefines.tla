----------------------------- MODULE ProcRefines -----------------------------
(***************************************************************************)
(* ProcLower implements ProcSpec.  The abstract outcome of the lowering is *)
(* taken from a history variable, report: once staging_done has run, a     *)
(* step that changes no variable of ProcLower records the values the      *)
(* emitted process commits for every env.  The step adds only stuttering   *)
(* to the behaviours of ProcLower; it lets TLC evaluate the process        *)
(* semantics in a state rather than under a prime.                         *)
(***************************************************************************)
EXTENDS ProcLower

VARIABLE report  \* <<>>, or the commits of the emitted process

rvars == <<vars, report>>

(***************************************************************************)
(* What ProcSpec is instantiated with.  A blocking and a nonblocking       *)
(* assignment mix when they may write a common bit: a constant select      *)
(* writes its own element (spec.md 4.2: constant-index element lvalues are *)
(* static extracts), a select by the index variable any element.          *)
(***************************************************************************)
MayWrite(l) ==
  CASE l.f = "var"   -> {O(l.v, 0)}
    [] l.f = "range" -> {O(Mem, l.k)}
    [] l.f = "elem"  -> IF l.iv = "" THEN {O(Mem, l.k)} ELSE {O(Mem, k) : k \in 0 .. NE - 1}
RECURSIVE AsgnsOf(_)
\* The assignment statements of a body, in every branch.
AsgnsOf(stmts) ==
  UNION {IF s.t = "asgn" THEN {s}
         ELSE AsgnsOf(s.dflt) \cup UNION {AsgnsOf(s.items[j].body) : j \in DOMAIN s.items}
         : s \in ToSet(stmts)}
MixesBody(b) ==
  \E s, t \in AsgnsOf(b) : s.blocking /\ ~t.blocking /\ MayWrite(s.lhs) \cap MayWrite(t.lhs) /= {}
\* What the body commits under env; "any" value where it branches on x.
Committed(b, env) ==
  LET ref == RefBody(b, RefInit(env, NoFunc))
  IN  [v \in OrigBits |-> IF ref.xc THEN "any" ELSE RefFinal(ref, v)]
\* The values the emitted process commits, where the body fixes them.
ProcessCommits ==
  [env \in Envs |->
     LET c == Committed(body, env)
     IN  [v \in OrigBits |-> IF c[v] = "any" THEN "any" ELSE FinalVal(v, env)]]

RInit == Init /\ report = <<>>
Report ==
  /\ phase = "done"
  /\ report = <<>>
  /\ report' = ProcessCommits
  /\ UNCHANGED vars
RNext == (Next /\ UNCHANGED report) \/ Report
RSpec == RInit /\ [][RNext]_rvars

\* The refinement mapping.
StMap == CASE phase = "error" -> "error"
           [] report /= <<>>  -> "done"
           [] OTHER           -> "pending"
Abs == INSTANCE ProcSpec WITH Bodies <- Bodies, Envs <- Envs, Mixes <- MixesBody,
                              Commit <- Committed, st <- StMap, val <- report

\* The lowering implements the safety part of ProcSpec: it aborts (the
\* log_asserts of the assignment handler) exactly when the body mixes
\* blocking and nonblocking writes to a bit, and otherwise the process built
\* by the assignment handler, SwitchBuilder and staging_done commits what
\* the body assigns.
Refines == Abs!Safety
====
