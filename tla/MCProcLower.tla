---------------------------- MODULE MCProcLower ----------------------------
(* Instances of ProcLower for TLC: one-bit scalars q and d, a two-element *)
(* array m and a one-bit index i, and the assignment statements bodies    *)
(* are built from.                                                         *)
EXTENDS ProcLower

MCScalars == {"q", "d"}
\* Blocking assignments of every left-hand side form, reading d, q or m[i].
BlockingAtoms ==
  {Asgn(TRUE, l, r) : l \in {Var("q"), ElemC(0), ElemV, Part(1)},
                      r \in {Var("d"), Var("q"), ElemV}}
\* Nonblocking assignments to whole variables and constant part-selects.
NonblockingAtoms ==
  {Asgn(FALSE, l, r) : l \in {Var("q"), Part(0), Part(1)}, r \in {Var("d"), ElemV}}
MCAtoms == BlockingAtoms \cup NonblockingAtoms
\* Nonblocking writes to single elements of m by constant index, m[0] and
\* m[1], as in "m[0] <= d; m[1] <= q;".
NbElemAtoms == {Asgn(FALSE, ElemC(k), r) : k \in {0, 1}, r \in {Var("d"), Var("q")}}
\* Blocking writes through the index, m[i] = d, and reads m[i].
IdxAtoms == {Asgn(TRUE, ElemV, Var("d")), Asgn(TRUE, Var("q"), ElemV)}
\* For nested statements: blocking writes through the index and to the
\* condition variable, and a nonblocking read through the index.
NestedAtoms ==
  {Asgn(TRUE, ElemV, Var("d")), Asgn(TRUE, Var("d"), ElemV), Asgn(FALSE, Var("q"), ElemV)}
\* For the refinement: blocking writes to q, m[i] and m[1:1], nonblocking
\* ones to q, m[0:0] and m[1:1]; m[i] = .. with m[0:0] <= .. mixes a bit.
RefinesAtoms ==
  {Asgn(TRUE, l, r) : l \in {Var("q"), ElemV, Part(1)}, r \in {Var("d"), Var("q"), ElemV}}
  \cup NonblockingAtoms
\* A blocking write to m[0] and a nonblocking one to m[1], as in
\* "m[0] = d; m[1] <= q;": different bits.
ElemMixAtoms == {Asgn(TRUE, ElemC(0), Var("d")), Asgn(FALSE, Part(1), Var("q"))}
\* An always_ff @(posedge clk) block, clk a one-bit net the body does not use.
MCFFBlocks == {Block("always_ff", SigEvent("pos", "clk", FALSE))}
\* Blocks of every kind and event control populate_sync meets: edge lists,
\* always_comb, a level event (implicit, as @* is), both edges, an edge mixed with a level
\* event, and one it rejects (an iff).
DisplayBlocks ==
  {Block("always_ff", SigEvent("pos", "clk", FALSE)),
   Block("always", EventList(<<SigEvent("pos", "clk", FALSE), SigEvent("neg", "rst", FALSE)>>)),
   Block("always_comb", NoTiming),
   Block("always", SigEvent("none", "d", FALSE)),
   Block("always", SigEvent("both", "clk", FALSE)),
   Block("always", EventList(<<SigEvent("pos", "clk", FALSE), SigEvent("none", "d", FALSE)>>)),
   Block("always_ff", SigEvent("pos", "clk", TRUE))}
\* $displays of q and of m[i] among blocking and nonblocking writes to q.
DisplayAtoms ==
  {Disp(Var("q")), Disp(ElemV), Asgn(TRUE, Var("q"), Var("d")), Asgn(FALSE, Var("q"), Var("d"))}
\* Operator expressions the lowering implements with cells: reductions and
\* the logical not of m after a write through the index, the bitwise not
\* of d, and every binary operator with a cell semantics on d and q, among
\* them the non-commutative ones (-, <, <<, **) where the operand order
\* matters.  / and % are left out (Yosys and SystemVerilog differ on a
\* zero divisor).
ExprAtoms ==
  {Asgn(TRUE, Var("q"), Unop(op, "m")) : op \in {"!", "|", "&"}}
  \cup {Asgn(TRUE, Var("d"), Unop("~", "d")), Asgn(TRUE, ElemV, Var("d")),
        Asgn(FALSE, Var("q"), Binop("-", "q", "d"))}
  \cup {Asgn(TRUE, Var("q"), Binop(op, "d", "q")) : op \in DOMAIN BinopCell \ {"/", "%"}}
\* Reduction NAND and NOR of m, as in "q = ~&m;".
NandAtoms == {Asgn(TRUE, Var("q"), Unop(op, "m")) : op \in {"~&", "~|"}}
====
