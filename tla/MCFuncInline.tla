---------------------------- MODULE MCFuncInline ----------------------------
(* Instances of FuncInline for TLC: the variables of MCProcLower, and a    *)
(* function f(a, b) called as f(q, d).                                     *)
EXTENDS FuncInline, MCProcLower

MCParams == <<"a", "b">>
MCCallArgs == <<Var("q"), Var("d")>>
\* The caller: q = f(q, d), q <= f(q, d), m[i] = f(q, d), and q = d, which
\* changes the argument a later call passes.
CallerAtoms ==
  {Asgn(TRUE, Var("q"), Call("f")), Asgn(FALSE, Var("q"), Call("f")),
   Asgn(TRUE, ElemV, Call("f")), Asgn(TRUE, Var("q"), Var("d"))}
\* Function bodies assigning the return variable from an argument or from
\* d, a variable the caller does not write.
FuncOkAtoms == {Asgn(TRUE, Var("f"), r) : r \in {Arg("a"), Arg("b"), Var("d")}}
\* A function returning the module variable q, as in
\* "function f(a, b); f = q; endfunction".
FuncReadsQAtoms == {Asgn(TRUE, Var("f"), Var("q"))}
\* A function that writes its input argument and returns it, as in
\* "function f(a, b); a = d; f = a; endfunction".
FuncWritesArgAtoms == {Asgn(TRUE, Var("a"), Var("d")), Asgn(TRUE, Var("f"), Arg("a"))}
\* A function that prints its argument, "$display(a); f = a;".
FuncDisplayAtoms == {Disp(Arg("a")), Asgn(TRUE, Var("f"), Arg("a"))}
====
