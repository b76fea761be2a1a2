----------------------------- MODULE FuncInline -----------------------------
(***************************************************************************)
(* Function calls in a procedure: evaluate_function (slang_frontend.cc:    *)
(* 982-1000) composed with the ProceduralVisitor of the caller.  A call on *)
(* the right-hand side of an assignment suspends the caller's handler      *)
(* (evaluate_rhs, 512-517): a new process and a second ProceduralVisitor   *)
(* in FUNCTION mode are created, the call's arguments are evaluated in the *)
(* caller's context and bound in the callee's ctx.args, the callee visits  *)
(* the function's body, and the value returned is the function's          *)
(* return-variable wire with the callee's staging substituted; the        *)
(* caller's handler then goes on with that rvalue.                         *)
(*                                                                         *)
(* The caller is ProcLower itself (Mode "always"); the callee is the       *)
(* instance Fn, whose private variables are the f* variables below and     *)
(* which shares the module's cases, switches, cells and wire count.  One   *)
(* function is called, func, with the same argument expressions at every  *)
(* call; its body may not call functions.  The callee's process has no    *)
(* sync rules (addProcess, 984) and its visitor a print_priority of its   *)
(* own.                                                                    *)
(***************************************************************************)
EXTENDS ProcLower

CONSTANTS
  FuncAtoms,   \* the assignment statements a function body is built from
  FMaxAtoms,   \* bound on the assignments in a function body
  FMaxDepth,   \* bound on the nesting of statements in a function body
  Params,      \* the function's formal arguments, in order
  RetVar,      \* the function's return variable (subr.returnValVar)
  CallArgs     \* the argument expressions of the call

ASSUME Len(Params) = Len(CallArgs)

VARIABLES
  fbody,      \* the body of the function called
  fcurrent,   \* callee's current_case
  fsubs,      \* callee's ctx.rvalue_subs
  fstaging,   \* callee's staging
  fblk,       \* callee's assigned_blocking
  fnb,        \* callee's assigned_nonblocking
  fstack,     \* callee's recursion
  fphase,     \* "idle" (no call under way), "run" or "error"
  fargs,      \* callee's ctx.args
  fprio       \* callee's print_priority

fvars == <<fbody, fcurrent, fsubs, fstaging, fblk, fnb, fstack, fphase, fargs, fprio>>
allvars == <<vars, fvars>>

Fn == INSTANCE ProcLower WITH
        body <- fbody, syncs <- <<>>, current <- fcurrent, subs <- fsubs,
        staging <- fstaging, blkBits <- fblk, nbBits <- fnb, stack <- fstack,
        phase <- fphase, args <- fargs, rules <- <<>>, prio <- fprio, Atoms <- FuncAtoms,
        MaxAtoms <- FMaxAtoms, MaxDepth <- FMaxDepth, Mode <- "function"

\* The function called: its parameters, return variable, body and the
\* call's argument expressions.
func == [params |-> Params, ret |-> RetVar, body |-> fbody, args |-> CallArgs]

FInit ==
  /\ Init
  /\ fbody \in Fn!Bodies
  /\ fcurrent = 0
  /\ fsubs = <<>>
  /\ fstaging = <<>>
  /\ fblk = {}
  /\ fnb = {}
  /\ fstack = <<>>
  /\ fphase = "idle"
  /\ fargs = <<>>
  /\ fprio = 0

\* The caller's own steps, while no call is under way.
CallerStep ==
  /\ fphase = "idle"
  /\ Next
  /\ UNCHANGED fvars

\* Mutant of ArgVals: the arguments read in the callee's fresh context.
ArgValsFresh(as, map, cs) ==
  FoldLeft(LAMBDA acc, e : LET r == EvalRhs(e, <<>>, acc.cells)
                           IN  [cells |-> r.cells, sigs |-> Append(acc.sigs, r.sig)],
           [cells |-> cs, sigs |-> <<>>], as)
\* The call's arguments evaluated in order in the caller's context (map is
\* its rvalue_subs), threading the cells they add (988-990).
ArgVals(as, map, cs) ==
  FoldLeft(LAMBDA acc, e : LET r == EvalRhs(e, map, acc.cells)
                           IN  [cells |-> r.cells, sigs |-> Append(acc.sigs, r.sig)],
           [cells |-> cs, sigs |-> <<>>], as)

\* evaluate_function up to the visit (982-990): addProcess, the visitor's
\* constructor (its root case, top switch and current_case), ctx.args.
CallBegin ==
  /\ AtStmt("asgn")
  /\ NextStmt.rhs.f = "call"
  /\ fphase = "idle"
  /\ LET av == ArgVals(func.args, subs, cells)
         r == Len(cases) + 1
     IN  /\ cells' = av.cells
         /\ cases' = cases \o <<[NewCase(<<>>) EXCEPT !.switches = <<Len(sws) + 1>>], NewCase(<<>>)>>
         /\ sws' = Append(sws, [signal |-> <<>>, cases |-> <<r + 1>>])
         /\ fcurrent' = r + 1
         /\ fargs' = [p \in {func.params[i] : i \in DOMAIN func.params} |->
                        av.sigs[CHOOSE i \in DOMAIN func.params : func.params[i] = p]]
  /\ fstack' = <<BodyFrame(func.body)>>
  /\ fphase' = "run"
  /\ fprio' = 0
  /\ UNCHANGED <<body, syncs, nwires, current, subs, staging, blkBits, nbBits, stack,
                 phase, args, block, rules, prio, fbody, fsubs, fstaging, fblk, fnb>>

\* The callee's steps: the visit of the function's body (993).
FnStep ==
  /\ fphase = "run"
  /\ Fn!Next
  /\ UNCHANGED <<body, syncs, current, subs, staging, blkBits, nbBits, stack, phase, args,
                 rules, prio>>

\* subr.getBody().visit(visitor) has returned: only the body frame is left,
\* with nothing more to visit.
Visited(stk) == Len(stk) = 1 /\ stk[1].k = "body" /\ stk[1].stmts = <<>>

\* The return (995-999): the return-variable wire with the callee's
\* staging substituted is the rvalue of the caller's assignment, whose
\* handler goes on (780-877); the callee visitor is gone.
CallReturn ==
  /\ fphase = "run"
  /\ Visited(fstack)
  /\ AssignWith(NextStmt, [cells |-> cells, sig |-> Replace(VarBits(func.ret), fstaging)])
  /\ fphase' = "idle"
  /\ fcurrent' = 0
  /\ fsubs' = <<>>
  /\ fstaging' = <<>>
  /\ fblk' = {}
  /\ fnb' = {}
  /\ fstack' = <<>>
  /\ fargs' = <<>>
  /\ UNCHANGED <<body, sws, syncs, current, args, block, rules, prio, fbody, fprio>>

FNext ==
  \/ CallerStep
  \/ CallBegin
  \/ FnStep
  \/ CallReturn

\* The frontend is one sequential thread: whatever step is enabled is taken.
FSpec == FInit /\ [][FNext]_allvars /\ WF_allvars(FNext)

(***************************************************************************)
(* Properties.                                                             *)
(***************************************************************************)
\* Every call returns to the caller: once evaluate_function has started
\* the callee's visit, the caller's assignment handler eventually resumes
\* with the returned value (the callee, in FUNCTION mode, never runs
\* staging_done, so the return cannot wait for it).
CallReturns == (fphase = "run") ~> (fphase = "idle")

\* The lowering of a procedure that calls a function preserves its meaning:
\* the values the always process commits are those of the SystemVerilog
\* body, the call returning what the function's body computes from the
\* arguments and the variables at the call.
CallsPreserved == PreservedWith(func)
====
