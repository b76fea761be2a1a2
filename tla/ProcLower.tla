----------------------------- MODULE ProcLower -----------------------------
(***************************************************************************)
(* Procedural lowering of src/slang_frontend.cc: struct ProceduralVisitor, *)
(* struct SwitchBuilder and the parts of evaluate_rhs, translate_index and *)
(* evaluate_lhs that an always body uses, with the sync rules populate_sync *)
(* gives the block and the $print cells of $display.  The visitor walks   *)
(* the body of one procedure and emits an RTLIL process: a tree of case    *)
(* rules holding actions (lhs <- rhs) and switches, staging wires for      *)
(* every assigned bit, and the sync actions that commit the staging wires  *)
(* at the block's events.                                                  *)
(*                                                                         *)
(* The recursion of the visitor is an explicit stack of frames: a "body"   *)
(* frame holds the statements still to visit, a "switch" frame the state   *)
(* of one SwitchBuilder (handle(ConditionalStatement), handle(Case-        *)
(* Statement)).                                                            *)
(*                                                                         *)
(* Variables are strings.  Scalars are one bit wide; Mem is a packed or    *)
(* unpacked array [NE-1:0] of one-bit elements; Idx is an unsigned index   *)
(* of IdxW bits.  A bit is a tuple whose first element is its kind:        *)
(*   <<"c", s, 0>>   a constant state s \in {"0", "1", "x"}                *)
(*   <<"o", v, k>>   bit k of the module's wire for variable v             *)
(*   <<"w", n, 0>>   a wire added by the visitor (staging, switch result)   *)
(*   <<"y", n, k>>   bit k of the output of cell n                         *)
(***************************************************************************)
EXTENDS Integers, SequencesExt, FiniteSets, Functions
LOCAL INSTANCE Bitwise

CONSTANTS
  Scalars,    \* one-bit variables
  Mem,        \* the array variable
  NE,         \* number of elements of Mem, range [NE-1:0]
  Idx,        \* the index variable
  IdxW,       \* width of Idx
  Atoms,      \* the assignment statements a body is built from
  Conds,      \* the scalars an if statement may test
  CaseItems,  \* the item values a case statement on Idx may list
  MaxAtoms,   \* bound on the assignments in a body
  MaxDepth,   \* bound on the nesting of if and case statements
  Mode,       \* ProceduralVisitor::mode: "always" or "function"
  Blocks      \* the procedural blocks (kind and timing) whose body is lowered

ASSUME NE \in Nat /\ NE >= 2
ASSUME IdxW \in Nat \ {0}
ASSUME Conds \subseteq Scalars
ASSUME Mode \in {"always", "function"}

(***************************************************************************)
(* Bits and signals (RTLIL::SigBit, RTLIL::SigSpec; LSB first).            *)
(***************************************************************************)
C(s) == <<"c", s, 0>>
S0 == C("0")
S1 == C("1")
Sx == C("x")
O(v, k) == <<"o", v, k>>
W(n) == <<"w", n, 0>>
Y(n, k) == <<"y", n, k>>
NoBit == <<"none", "", 0>>

Fill(b, n) == [i \in 1 .. n |-> b]
Pow2(n) == 2 ^ n
\* x ** y, with 0 ** 0 = 1 as in SystemVerilog and Yosys.
PowNat(x, y) == IF y = 0 THEN 1 ELSE x ^ y
\* ceil_log2(NE): bits of a raw index into Mem
RECURSIVE CeilLog2(_)
CeilLog2(n) == IF n <= 1 THEN 0 ELSE 1 + CeilLog2((n + 1) \div 2)
IdxBits == CeilLog2(NE)
\* The low w bits of n as constant states.
ConstBits(n, w) == [i \in 1 .. w |-> IF (n \div Pow2(i - 1)) % 2 = 1 THEN S1 ELSE S0]
VarBits(v) == IF v = Mem THEN [k \in 1 .. NE |-> O(v, k - 1)]
              ELSE IF v = Idx THEN [k \in 1 .. IdxW |-> O(v, k - 1)]
              ELSE <<O(v, 0)>>
\* SigSpec::replace(dict): substitute the bits that have an entry.
Replace(sig, map) == [i \in DOMAIN sig |-> IF sig[i] \in DOMAIN map THEN map[sig[i]] ELSE sig[i]]
\* SigSpec::extend_u0: zero-pad or truncate to w bits.
ExtendU0(sig, w) == [i \in 1 .. w |-> IF i <= Len(sig) THEN sig[i] ELSE S0]

(***************************************************************************)
(* The AST: expressions and statements.                                    *)
(***************************************************************************)
Var(v) == [f |-> "var", v |-> v, k |-> 0, iv |-> "", op |-> ""]
Lit(n, w) == [f |-> "const", v |-> "", k |-> n, iv |-> w, op |-> ""]
ElemC(n) == [f |-> "elem", v |-> Mem, k |-> n, iv |-> "", op |-> ""]         \* Mem[n]
ElemV == [f |-> "elem", v |-> Mem, k |-> 0, iv |-> Idx, op |-> ""]          \* Mem[Idx]
Part(n) == [f |-> "range", v |-> Mem, k |-> n, iv |-> "", op |-> ""]        \* Mem[n:n]
Arg(a) == [f |-> "arg", v |-> a, k |-> 0, iv |-> "", op |-> ""]             \* formal argument a
Call(fn) == [f |-> "call", v |-> fn, k |-> 0, iv |-> "", op |-> ""]         \* fn(...)
\* A unary operator op applied to variable v, a binary one to v and w.
Unop(op, v) == [f |-> "unop", v |-> v, k |-> 0, iv |-> "", op |-> op]
Binop(op, v, w) == [f |-> "biop", v |-> v, k |-> 0, iv |-> w, op |-> op]

NoExpr == [f |-> "none", v |-> "", k |-> 0, iv |-> "", op |-> ""]
Asgn(blk, l, r) ==
  [t |-> "asgn", blocking |-> blk, lhs |-> l, rhs |-> r,
   sel |-> NoExpr, items |-> <<>>, dflt |-> <<>>]
If(c, th, el) ==
  [t |-> "if", blocking |-> FALSE, lhs |-> NoExpr, rhs |-> NoExpr,
   sel |-> Var(c), items |-> <<[cmps |-> <<>>, body |-> th]>>, dflt |-> el]
Case(items, dflt) ==
  [t |-> "case", blocking |-> FALSE, lhs |-> NoExpr, rhs |-> NoExpr,
   sel |-> Var(Idx), items |-> items, dflt |-> dflt]
\* $display(e): a print of one integer argument.
Disp(e) ==
  [t |-> "disp", blocking |-> FALSE, lhs |-> NoExpr, rhs |-> e,
   sel |-> NoExpr, items |-> <<>>, dflt |-> <<>>]

\* Timing controls (ast::TimingControl) and procedural blocks.  edge is
\* "none", "pos", "neg" or "both"; iff is whether the event has an iff.
SigEvent(edge, v, iff) ==
  [kind |-> "signal", edge |-> edge, v |-> v, iff |-> iff, events |-> <<>>]
ImplicitEvent == [kind |-> "implicit", edge |-> "none", v |-> "", iff |-> FALSE, events |-> <<>>]
EventList(evs) == [kind |-> "list", edge |-> "none", v |-> "", iff |-> FALSE, events |-> evs]
\* A timing control of another kind (a delay, say), and a body with none.
OtherTiming == [kind |-> "other", edge |-> "none", v |-> "", iff |-> FALSE, events |-> <<>>]
NoTiming == [kind |-> "none", edge |-> "none", v |-> "", iff |-> FALSE, events |-> <<>>]
\* kind is "always", "always_ff" or "always_comb"; always_comb has NoTiming.
Block(kind, timing) == [kind |-> kind, timing |-> timing]

\* Statement sequences holding exactly n assignments, nested at most d deep.
RECURSIVE StmtsEx(_, _), BodiesEx(_, _)
BodiesEx(n, d) ==
  IF n = 0 THEN {<<>>}
  ELSE UNION {{<<s>> \o r : s \in StmtsEx(k, d), r \in BodiesEx(n - k, d)} : k \in 1 .. n}
StmtsEx(n, d) ==
  (IF n = 1 THEN Atoms ELSE {})
  \cup (IF d = 0 THEN {} ELSE
          UNION {{If(c, th, el) : c \in Conds, th \in BodiesEx(k, d - 1),
                                  el \in BodiesEx(n - k, d - 1)} : k \in 1 .. n}
          \cup UNION {{Case(<<[cmps |-> <<Lit(v, IdxW)>>, body |-> th]>>, el) :
                         v \in CaseItems, th \in BodiesEx(k, d - 1),
                         el \in BodiesEx(n - k, d - 1)} : k \in 1 .. n})
Bodies == UNION {BodiesEx(n, MaxDepth) : n \in 1 .. MaxAtoms}

(***************************************************************************)
(* State of the visitor and of the process it emits.                       *)
(***************************************************************************)
VARIABLES
  body,         \* the procedure's statement (the AST being lowered)
  cases,        \* RTLIL::CaseRule objects: actions, switches, compare
  sws,          \* RTLIL::SwitchRule objects: signal, cases
  syncs,        \* actions staging_done gives every sync rule (the same list)
  cells,        \* cells added to the module
  nwires,       \* wires added to the module
  current,      \* ProceduralVisitor::current_case
  subs,         \* ProcedureContext::rvalue_subs
  staging,      \* ProceduralVisitor::staging
  blkBits,      \* assigned_blocking
  nbBits,       \* assigned_nonblocking
  stack,        \* frames of the visitor's recursion
  phase,        \* "run", "done" (staging_done returned) or "error"
  args,         \* ProcedureContext::args: formal argument -> signal
  block,        \* the procedural block (ast::ProceduralBlockSymbol)
  rules,        \* proc->syncs: the type and signal of each sync rule
  prio          \* ProceduralVisitor::print_priority

vars == <<body, cases, sws, syncs, cells, nwires, current, subs, staging,
          blkBits, nbBits, stack, phase, args, block, rules, prio>>

Root == 1
NewCase(compare) == [actions |-> <<>>, switches |-> <<>>, compare |-> compare]
BodyFrame(stmts) ==
  [k |-> "body", stmts |-> stmts, parent |-> 0, sw |-> 0, save |-> <<>>,
   updates |-> <<>>, pending |-> <<>>, active |-> 0]

(***************************************************************************)
(* Cells.  Each cell is the record its constructor call fills in; the      *)
(* translate_index cell "tidx" stands for the Le, Ge, LogicAnd and Sub      *)
(* cells of translate_index: its outputs are the raw index, IdxBits wide   *)
(* (Sub's result truncated by extend_u0), then the valid bit.               *)
(***************************************************************************)
Cell(type, a, b, s) == [type |-> type, a |-> a, b |-> b, s |-> s]
OutWidth(c) ==
  CASE c.type \in {"reduce_bool", "reduce_or", "reduce_and", "logic_not", "logic_and",
                   "logic_or", "eq", "ne", "ge", "gt", "le", "lt"} -> 1
    [] c.type = "tidx"        -> IdxBits + 1
    [] c.type = "demux"       -> Len(c.a) * Pow2(Len(c.s))
    [] c.type = "bmux"        -> Len(c.a) \div Pow2(Len(c.s))
    [] OTHER                  -> Len(c.a)
\* Add a cell to cs; returns the extended list and the output signal.
AddCell(cs, c) ==
  [cells |-> Append(cs, c), sig |-> [k \in 1 .. OutWidth(c) |-> Y(Len(cs) + 1, k - 1)]]

(***************************************************************************)
(* evaluate_rhs (slang_frontend.cc:262-530) for the expressions modelled.  *)
(* Returns the signal and the cells after the ones it added.               *)
(***************************************************************************)
RECURSIVE EvalRhs(_, _, _)
\* translate_index (237-260): the index evaluated, then the tidx cell.
TranslateIndex(e, map, cs) ==
  LET idx == EvalRhs(e, map, cs)
      t == AddCell(idx.cells, Cell("tidx", idx.sig, <<>>, <<>>))
  IN  [cells |-> t.cells, raw |-> SubSeq(t.sig, 1, IdxBits), valid |-> t.sig[IdxBits + 1]]
IndexExpr(e) == IF e.iv = "" THEN Lit(e.k, IdxW) ELSE Var(e.iv)
\* RangeSelect (432-448): the bits of the selected element.
RangeSelectRhs(e, map, cs) == [cells |-> cs, sig |-> <<Replace(VarBits(Mem), map)[e.k + 1]>>]
\* ElementSelect (449-465): the base padded with x to a power of two
\* elements, a Bmux by the raw index, and x through a Mux when not valid.
ElementSelectRhs(e, map, cs) ==
  LET base == Replace(VarBits(Mem), map)
      ti == TranslateIndex(IndexExpr(e), map, cs)
      padded == base \o Fill(Sx, Pow2(IdxBits) - NE)
      bm == AddCell(ti.cells, Cell("bmux", padded, <<>>, ti.raw))
  IN  AddCell(bm.cells, Cell("mux", <<Sx>>, bm.sig, <<ti.valid>>))
\* The cell type of each unary operator, and whether the code asks for its
\* output inverted (320-332); any other operator is unimplemented.
UnopCell ==
  ("!" :> [type |-> "logic_not", invert |-> FALSE]) @@ ("~" :> [type |-> "not", invert |-> FALSE])
  @@ ("|" :> [type |-> "reduce_or", invert |-> FALSE]) @@ ("&" :> [type |-> "reduce_and", invert |-> FALSE])
  @@ ("~&" :> [type |-> "reduce_and", invert |-> TRUE]) @@ ("~|" :> [type |-> "reduce_or", invert |-> TRUE])
\* UnaryOp (316-348): the operand, then a cell of the operator's type.  For
\* ~& and ~| a $logic_not of that cell's output is added as well, driving a
\* new wire, but the expression's value stays the cell's output: ret is
\* not replaced by the inverted wire (343-346).
UnaryOpRhs(e, map, cs) ==
  LET a == EvalRhs(Var(e.v), map, cs)
      c == AddCell(a.cells, Cell(UnopCell[e.op].type, a.sig, <<>>, <<>>))
  IN  IF UnopCell[e.op].invert
      THEN [cells |-> AddCell(c.cells, Cell("logic_not", c.sig, <<>>, <<>>)).cells, sig |-> c.sig]
      ELSE c
\* The cell type of each binary operator (355-387).  The signedness
\* parameters and their fixups (401-411) are left out: operands are unsigned.
BinopCell ==
  ("+" :> "add") @@ ("-" :> "sub") @@ ("*" :> "mul") @@ ("/" :> "divfloor") @@ ("%" :> "mod")
  @@ ("&" :> "and") @@ ("|" :> "or") @@ ("^" :> "xor") @@ ("~^" :> "xnor")
  @@ ("==" :> "eq") @@ ("!=" :> "ne") @@ (">=" :> "ge") @@ (">" :> "gt") @@ ("<=" :> "le")
  @@ ("<" :> "lt") @@ ("&&" :> "logic_and") @@ ("||" :> "logic_or") @@ ("<<" :> "sshl")
  @@ (">>" :> "sshr") @@ ("<<<" :> "shl") @@ (">>>" :> "shr") @@ ("**" :> "pow")
\* Mutant of BinaryOpRhs: the operands given to the cell the other way round.
BinaryOpSwapped(e, map, cs) ==
  LET l == EvalRhs(Var(e.v), map, cs)
      r == EvalRhs(Var(e.iv), map, l.cells)
  IN  AddCell(r.cells, Cell(BinopCell[e.op], r.sig, l.sig, <<>>))
\* BinaryOp (349-412): the left operand, the right one, then a cell of the
\* operator's type on A = left, B = right.
BinaryOpRhs(e, map, cs) ==
  LET l == EvalRhs(Var(e.v), map, cs)
      r == EvalRhs(Var(e.iv), map, l.cells)
  IN  AddCell(r.cells, Cell(BinopCell[e.op], l.sig, r.sig, <<>>))
\* A constant expression (273-276), a variable read through rvalue_subs
\* (279-295) or a formal argument read from ctx.args (305-309).
EvalRhs(e, map, cs) ==
  CASE e.f = "const" -> [cells |-> cs, sig |-> ConstBits(e.k, e.iv)]
    [] e.f = "var"   -> [cells |-> cs, sig |-> Replace(VarBits(e.v), map)]
    [] e.f = "arg"   -> [cells |-> cs, sig |-> args[e.v]]
    [] e.f = "range" -> RangeSelectRhs(e, map, cs)
    [] e.f = "elem"  -> ElementSelectRhs(e, map, cs)
    [] e.f = "unop"  -> UnaryOpRhs(e, map, cs)
    [] e.f = "biop"  -> BinaryOpRhs(e, map, cs)

(***************************************************************************)
(* handle(const ast::ExpressionStatement &) for an assignment (716-878).   *)
(***************************************************************************)
\* The etching loop (786-845): peel the select off the lvalue, giving the
\* mask of bits written and the rvalue padded to the width of the base.
Etch(lhs, rv, cs) ==
  CASE lhs.f = "var" ->
         [cells |-> cs, mask |-> Fill(S1, Len(rv)), rvalue |-> rv, base |-> lhs.v]
    [] lhs.f = "range" ->
         [cells |-> cs, base |-> Mem,
          mask |-> Fill(S0, lhs.k) \o Fill(S1, 1) \o Fill(S0, NE - lhs.k - 1),
          rvalue |-> Fill(Sx, lhs.k) \o rv \o Fill(Sx, NE - lhs.k - 1)]
    [] lhs.f = "elem" ->
         LET ti == TranslateIndex(IndexExpr(lhs), subs, cs)
             dm == AddCell(ti.cells, Cell("demux", Fill(S1, Len(rv)), <<>>, ti.raw))
         IN  [cells |-> dm.cells, base |-> Mem, mask |-> ExtendU0(dm.sig, NE),
              rvalue |-> FlattenSeq(Fill(rv, NE))]

\* crop_zero_mask (602-608): drop the positions where the mask is S0.
Kept(mask) == SelectSeq([i \in DOMAIN mask |-> i], LAMBDA i : mask[i] /= S0)
Crop(mask, sig) == LET ks == Kept(mask) IN [j \in DOMAIN ks |-> sig[ks[j]]]


\* [b \in keys |-> the value at b's position], for a signal of distinct bits.
Bind(keys, vals) == [b \in ToSet(keys) |-> vals[CHOOSE i \in DOMAIN keys : keys[i] = b]]
\* Mutant of Fresh: the map from new wires to bits, the wrong way round.
FreshInverted(bs) == LET s == SetToSeq(bs) IN Bind([j \in DOMAIN s |-> W(nwires + j)], s)
\* Fresh one-bit wires for the bits of a set, numbered after the wires so far.
Fresh(bs) == LET s == SetToSeq(bs) IN Bind(s, [j \in DOMAIN s |-> W(nwires + j)])

(***************************************************************************)
(* Sync rules: ModulePopulatingVisitor::populate_sync and the dispatch on  *)
(* the kind of a procedural block that calls it.  A rule is its SyncType   *)
(* ("STa", "STp", "STn", "STe") and its signal.                            *)
(***************************************************************************)
EdgeType == [none |-> "STa", pos |-> "STp", neg |-> "STn", both |-> "STe"]
RECURSIVE PopulateSync(_, _)
\* populate_sync (1039-1095): the rules of timing control t appended to
\* acc.rules; acc.ok turns FALSE, and stays so, when a require of
\* 1048-1070 fails or t is of a kind it does not handle (returns false).
\* The event's signal is evaluated with no context (1047).
PopulateSync(acc, t) ==
  IF ~acc.ok THEN acc
  ELSE CASE t.kind = "signal" ->
              IF t.iff \/ (t.edge /= "none" /\ Len(VarBits(t.v)) /= 1)
              THEN [acc EXCEPT !.ok = FALSE]
              ELSE [acc EXCEPT !.rules = Append(@, [type |-> EdgeType[t.edge],
                       signal |-> IF t.edge = "none" THEN <<>> ELSE VarBits(t.v)])]
         [] t.kind = "implicit" ->
              [acc EXCEPT !.rules = Append(@, [type |-> "STa", signal |-> <<>>])]
         [] t.kind = "list" -> FoldLeft(LAMBDA a, e : PopulateSync(a, e), acc, t.events)
         [] OTHER -> [acc EXCEPT !.ok = FALSE]
\* handle(ProceduralBlockSymbol) up to the visit (1097-1127): always and
\* always_ff require a timed body and take its rules (unimplemented when
\* populate_sync fails); always_comb gets one STa rule.
SyncsOf(b) ==
  IF b.kind = "always_comb"
  THEN [ok |-> TRUE, rules |-> <<[type |-> "STa", signal |-> <<>>]>>]
  ELSE PopulateSync([ok |-> b.timing.kind /= "none", rules |-> <<>>], b.timing)

\* set_cell_trigger (682-712) over the rules rs: the edge rules give the
\* trigger signals and polarities, an STa rule makes the trigger implicit.
\* An STe rule (log_abort, 702), no rule at all (log_assert, 705) or edge
\* rules mixed with an implicit one (log_assert, 706) abort: ok is FALSE.
Trigger(rs) ==
  LET edges == SelectSeq(rs, LAMBDA r : r.type \in {"STp", "STn"})
      implicit == \E i \in DOMAIN rs : rs[i].type = "STa"
  IN  [ok |-> /\ \A i \in DOMAIN rs : rs[i].type /= "STe"
              /\ edges /= <<>> \/ implicit
              /\ ~(edges /= <<>> /\ implicit),
       enable |-> ~implicit,
       sig |-> FlattenSeq([i \in DOMAIN edges |-> edges[i].signal]),
       pol |-> [i \in DOMAIN edges |-> IF edges[i].type = "STp" THEN S1 ELSE S0]]
\* A $print cell: its argument a, enable en, PRIORITY p and trigger tg.
PrintCell(a, en, p, tg) ==
  [type |-> "print", a |-> a, b |-> <<>>, s |-> <<en>>, prio |-> p, trg |-> tg]

(***************************************************************************)
(* Initial state: the block's sync rules populated (1097-1127) and the     *)
(* process of a fresh ProceduralVisitor (626-632): the root case holds the *)
(* top switch, whose single case is current_case.  When populate_sync      *)
(* fails the frontend has aborted.                                         *)
(***************************************************************************)
Init ==
  /\ body \in Bodies
  /\ block \in Blocks
  /\ rules = SyncsOf(block).rules
  /\ prio = 0
  /\ cases = <<[NewCase(<<>>) EXCEPT !.switches = <<1>>], NewCase(<<>>)>>
  /\ sws = <<[signal |-> <<>>, cases |-> <<2>>]>>
  /\ syncs = <<>>
  /\ cells = <<>>
  /\ nwires = 0
  /\ current = 2
  /\ subs = <<>>
  /\ staging = <<>>
  /\ blkBits = {}
  /\ nbBits = {}
  /\ stack = <<BodyFrame(body)>>
  /\ phase = IF SyncsOf(block).ok THEN "run" ELSE "error"
  /\ args = <<>>

Top == stack[Len(stack)]
\* The statement the visitor is about to handle.
NextStmt == Head(Top.stmts)
AtStmt(t) ==
  /\ phase = "run"
  /\ stack /= <<>>
  /\ Top.k = "body"
  /\ Top.stmts /= <<>>
  /\ NextStmt.t = t
PopStmt == [stack EXCEPT ![Len(stack)].stmts = Tail(@)]

(***************************************************************************)
(* handle(ExpressionStatement) for an assignment (777-877).  An assignment *)
(* that mixes blocking and nonblocking writes to a bit fails the           *)
(* log_assert of 866 or 870 and the frontend aborts.                       *)
(***************************************************************************)
\* The bits written and the value written (846-858): lvalue, rvalue and mask
\* cropped to the written bits; a Bwmux of the old value when not all are.
Masked(et) ==
  LET lvalue == Crop(et.mask, VarBits(et.base))
      rvalue == Crop(et.mask, et.rvalue)
      mask == Crop(et.mask, et.mask)
  IN  [lvalue |-> lvalue,
       m |-> IF \A i \in DOMAIN mask : mask[i] = S1
             THEN [cells |-> et.cells, sig |-> rvalue]
             ELSE AddCell(et.cells, Cell("bwmux", Replace(lvalue, subs), rvalue, mask))]
\* Mutant of Commit: the log_asserts against mixing (866, 870) left out.
CommitNoMixCheck(st, lvalue, masked) ==
  LET lbits == ToSet(lvalue)
      stg == Fresh(lbits \ DOMAIN staging) @@ staging
  IN  /\ cells' = masked.cells
      /\ subs' = IF st.blocking THEN Bind(lvalue, masked.sig) @@ subs ELSE subs
      /\ blkBits' = IF st.blocking THEN blkBits \cup lbits ELSE blkBits
      /\ nbBits' = IF st.blocking THEN nbBits ELSE nbBits \cup lbits
      /\ staging' = stg
      /\ nwires' = nwires + Cardinality(lbits \ DOMAIN staging)
      /\ cases' = [cases EXCEPT ![current].actions = Append(@, <<Replace(lvalue, stg), masked.sig>>)]
      /\ stack' = PopStmt
      /\ UNCHANGED phase
\* The checks and updates of 859-877 for the assignment st of value
\* masked.sig to the bits lvalue.
Commit(st, lvalue, masked) ==
  LET lbits == ToSet(lvalue)
      stg == Fresh(lbits \ DOMAIN staging) @@ staging
  IN  /\ cells' = masked.cells
      /\ IF (st.blocking /\ lbits \cap nbBits /= {})
            \/ (~st.blocking /\ lbits \cap blkBits /= {})
         THEN /\ phase' = "error"
              /\ UNCHANGED <<cases, nwires, subs, staging, blkBits, nbBits, stack>>
         ELSE /\ subs' = IF st.blocking THEN Bind(lvalue, masked.sig) @@ subs ELSE subs
              /\ blkBits' = IF st.blocking THEN blkBits \cup lbits ELSE blkBits
              /\ nbBits' = IF st.blocking THEN nbBits ELSE nbBits \cup lbits
              /\ staging' = stg
              /\ nwires' = nwires + Cardinality(lbits \ DOMAIN staging)
              /\ cases' = [cases EXCEPT ![current].actions =
                             Append(@, <<Replace(lvalue, stg), masked.sig>>)]
              /\ stack' = PopStmt
              /\ UNCHANGED phase
CommitMasked(st, mk) == Commit(st, mk.lvalue, mk.m)
EtchOf(st, rv) == Etch(st.lhs, rv.sig, rv.cells)
\* The handler from the rvalue rv on (780-877).  The intermediate values
\* are bound by \E over singletons so that TLC computes each once, also
\* when it evaluates ENABLED for fairness.
AssignWith(st, rv) ==
  \E et \in {EtchOf(st, rv)} : \E mk \in {Masked(et)} : CommitMasked(st, mk)
\* An assignment whose right-hand side is not a function call; a call
\* (evaluate_function, 512-517) is the composition FuncInline.
Assign ==
  /\ AtStmt("asgn")
  /\ NextStmt.rhs.f /= "call"
  /\ AssignWith(NextStmt, EvalRhs(NextStmt.rhs, subs, cells))
  /\ UNCHANGED <<body, sws, syncs, current, args, block, rules, prio>>

(***************************************************************************)
(* handle(ExpressionStatement) for $display (716-767): a $print cell, its  *)
(* trigger and enable from set_cell_trigger and context_enable (673-679), *)
(* PRIORITY --print_priority, and the argument evaluated in the context,   *)
(* so through rvalue_subs (753), adding its cells after the $print cell.   *)
(* The enable is a new wire that the root case clears and current_case     *)
(* sets.  A trigger set_cell_trigger rejects aborts the frontend.          *)
(***************************************************************************)
\* Mutant of NextPriority: print_priority counted up.
PriorityUp(p) == p + 1
\* --print_priority (728): each $print cell below the ones before it.
NextPriority(p) == p - 1
\* The cells after the $print cell n and its argument's cells, with a set.
PrintArg(n, av) == [av.cells EXCEPT ![n].a = av.sig]
Display ==
  /\ AtStmt("disp")
  /\ \E tg \in {Trigger(rules)} :
       IF ~tg.ok
       THEN /\ phase' = "error"
            /\ UNCHANGED <<cases, cells, nwires, prio, stack>>
       ELSE LET n == Len(cells) + 1
                en == W(nwires + 1)
            IN  \E av \in {EvalRhs(NextStmt.rhs, subs,
                                    Append(cells, PrintCell(<<>>, en, NextPriority(prio),
                                           [enable |-> tg.enable, sig |-> tg.sig, pol |-> tg.pol])))} :
                  /\ cells' = PrintArg(n, av)
                  /\ nwires' = nwires + 1
                  /\ cases' = [cases EXCEPT ![Root].actions = Append(@, <<<<en>>, <<S0>>>>),
                                            ![current].actions = Append(@, <<<<en>>, <<S1>>>>)]
                  /\ prio' = NextPriority(prio)
                  /\ stack' = PopStmt
                  /\ UNCHANGED phase
  /\ UNCHANGED <<body, sws, syncs, current, subs, staging, blkBits, nbBits, args, block, rules>>

(***************************************************************************)
(* The SwitchBuilder constructor (540-547) as called by                    *)
(* handle(ConditionalStatement) and handle(CaseStatement): a new switch on *)
(* signal in the current case; the branches wait in the switch frame.      *)
(***************************************************************************)
OpenSwitch(cs, signal, branches) ==
  /\ cells' = cs
  /\ sws' = Append(sws, [signal |-> signal, cases |-> <<>>])
  /\ cases' = [cases EXCEPT ![current].switches = Append(@, Len(sws) + 1)]
  /\ stack' = Append(PopStmt,
                [k |-> "switch", stmts |-> <<>>, parent |-> current, sw |-> Len(sws) + 1,
                 save |-> subs, updates |-> <<>>, pending |-> branches, active |-> 0])
  /\ UNCHANGED <<body, syncs, nwires, current, subs, staging, blkBits, nbBits, phase, args,
                 block, rules, prio>>

\* The default branch, taken when a statement has an else or default part.
DefaultBranch(st) == IF st.dflt = <<>> THEN <<>> ELSE <<[cmps |-> <<>>, body |-> st.dflt]>>

\* handle(ConditionalStatement) (890-902): ReduceBool of the condition; the
\* true branch compares against {S1}.
IfBegin ==
  /\ AtStmt("if")
  /\ LET st == NextStmt
         cv == EvalRhs(st.sel, subs, cells)
         rb == AddCell(cv.cells, Cell("reduce_bool", cv.sig, <<>>, <<>>))
     IN  OpenSwitch(rb.cells, rb.sig,
                    <<[cmps |-> <<Lit(1, 1)>>, body |-> st.items[1].body]>> \o DefaultBranch(st))

\* handle(CaseStatement) (925-937): the dispatch value is the switch signal.
CaseBegin ==
  /\ AtStmt("case")
  /\ LET st == NextStmt
         dv == EvalRhs(st.sel, subs, cells)
     IN  OpenSwitch(dv.cells, dv.sig, st.items \o DefaultBranch(st))

(***************************************************************************)
(* SwitchBuilder::branch (549-569), first half: a new case rule in the     *)
(* switch becomes current_case, with the compare values evaluated          *)
(* (case items: 939-946) in the context the branch starts from.            *)
(***************************************************************************)
BranchBegin ==
  /\ phase = "run"
  /\ stack /= <<>>
  /\ Top.k = "switch"
  /\ Top.active = 0
  /\ Top.pending /= <<>>
  /\ LET br == Head(Top.pending)
         cmp == [j \in DOMAIN br.cmps |-> EvalRhs(br.cmps[j], subs, cells).sig]
         cid == Len(cases) + 1
     IN  /\ cases' = Append(cases, NewCase(cmp))
         /\ sws' = [sws EXCEPT ![Top.sw].cases = Append(@, cid)]
         /\ current' = cid
         /\ stack' = Append([stack EXCEPT ![Len(stack)].pending = Tail(@),
                                          ![Len(stack)].active = cid],
                            BodyFrame(br.body))
  /\ UNCHANGED <<body, syncs, cells, nwires, subs, staging, blkBits, nbBits, phase, args,
                 block, rules, prio>>

(***************************************************************************)
(* SwitchBuilder::branch, second half, once the branch body is visited:    *)
(* the bits whose rvalue_subs entry is new or changed since the switch     *)
(* opened are recorded with their values, and rvalue_subs is restored.     *)
(***************************************************************************)
\* Mutant of Updated: only the bits whose entry changed, not the new ones.
UpdatedChangedOnly(save) == {b \in DOMAIN subs \cap DOMAIN save : subs[b] /= save[b]}
\* The bits whose rvalue_subs entry is new or changed since save (556-560).
Updated(save) == {b \in DOMAIN subs : b \notin DOMAIN save \/ subs[b] /= save[b]}

BranchEnd ==
  /\ phase = "run"
  /\ Len(stack) >= 2
  /\ Top.k = "body"
  /\ Top.stmts = <<>>
  /\ LET sb == stack[Len(stack) - 1]
         upd == Updated(sb.save)
     IN  /\ stack' = [Front(stack) EXCEPT
                        ![Len(stack) - 1].updates =
                           Append(@, [rule |-> sb.active, map |-> [b \in upd |-> subs[b]]]),
                        ![Len(stack) - 1].active = 0]
         /\ subs' = sb.save
  /\ UNCHANGED <<body, cases, sws, syncs, cells, nwires, current, staging,
                 blkBits, nbBits, phase, args, block, rules, prio>>

(***************************************************************************)
(* SwitchBuilder::finish (571-599) and the end of the statement handler    *)
(* (904-922, 951-969).  Every bit updated in any branch gets a fresh wire: *)
(* the parent case assigns it the value from before the switch, each       *)
(* branch its own value, and rvalue_subs maps the bit to it.  Then         *)
(* current_case returns to the parent, which descends into a new dummy     *)
(* switch so that later actions take priority over the switch.             *)
(***************************************************************************)
\* current_case = case_save, then descend into a new empty switch (916-922):
\* actions of later statements land in its case, after the switch just built.
DescendDummy(cs, parent) ==
  [cases |-> Append([cs EXCEPT ![parent].switches = Append(@, Len(sws) + 1)], NewCase(<<>>)),
   sws |-> Append(sws, [signal |-> <<>>, cases |-> <<Len(cs) + 1>>]),
   current |-> Len(cs) + 1]

Finish ==
  /\ phase = "run"
  /\ stack /= <<>>
  /\ Top.k = "switch"
  /\ Top.active = 0
  /\ Top.pending = <<>>
  /\ LET sb == Top
         anyb == UNION {DOMAIN sb.updates[j].map : j \in DOMAIN sb.updates}
         w == Fresh(anyb)
         ws == SetToSeq(anyb)
         defaults == [j \in DOMAIN ws |-> <<<<w[ws[j]]>>, Replace(<<ws[j]>>, subs)>>]
         BranchActs(u) ==
           LET us == SetToSeq(DOMAIN u.map)
           IN  [j \in DOMAIN us |-> <<<<w[us[j]]>>, <<u.map[us[j]]>>>>]
         Rule(c) == {j \in DOMAIN sb.updates : sb.updates[j].rule = c}
         merged == [c \in DOMAIN cases |->
                      IF c = sb.parent
                      THEN [cases[c] EXCEPT !.actions = @ \o defaults]
                      ELSE IF Rule(c) /= {}
                      THEN [cases[c] EXCEPT !.actions =
                              @ \o BranchActs(sb.updates[CHOOSE j \in Rule(c) : TRUE])]
                      ELSE cases[c]]
         resume == DescendDummy(merged, sb.parent)
     IN  /\ cases' = resume.cases
         /\ sws' = resume.sws
         /\ current' = resume.current
         /\ subs' = w @@ subs
         /\ nwires' = nwires + Cardinality(anyb)
         /\ stack' = Front(stack)
  /\ UNCHANGED <<body, syncs, cells, staging, blkBits, nbBits, phase, args, block, rules, prio>>

(***************************************************************************)
(* staging_done (655-670), called once the body of an always procedure is *)
(* visited (never in FUNCTION mode, 982-1000): each sync                   *)
(* rule commits the staging wire to its variable, and the root case        *)
(* initialises the staging wire with the variable's present value.         *)
(***************************************************************************)
StagingDone ==
  /\ Mode = "always"
  /\ phase = "run"
  /\ Len(stack) = 1
  /\ Top.k = "body"
  /\ Top.stmts = <<>>
  /\ LET driven == SetToSeq(DOMAIN staging)
     IN  /\ syncs' = [j \in DOMAIN driven |-> <<<<driven[j]>>, <<staging[driven[j]]>>>>]
         /\ cases' = [cases EXCEPT ![Root].actions =
                        @ \o [j \in DOMAIN driven |-> <<<<staging[driven[j]]>>, <<driven[j]>>>>]]
  /\ phase' = "done"
  /\ stack' = <<>>
  /\ UNCHANGED <<body, sws, cells, nwires, current, subs, staging, blkBits, nbBits, args,
                 block, rules, prio>>

Next ==
  \/ Assign
  \/ Display
  \/ IfBegin
  \/ CaseBegin
  \/ BranchBegin
  \/ BranchEnd
  \/ Finish
  \/ StagingDone

\* The frontend visits one procedure to the end or aborts; it then stops.
Spec == Init /\ [][Next]_vars

(***************************************************************************)
(* Values of the emitted process.  A bit of the emitted process evaluates  *)
(* under env (the values of the module's variables before the clock edge)  *)
(* by the RTLIL process semantics: in a case rule the actions come first,  *)
(* then each switch in order enters its first case whose compare matches   *)
(* the switch signal (an empty compare always matches); the last action    *)
(* on the path that drives a wire bit gives its value.  A wire bit takes   *)
(* its value from the process whose case tree drives it; a wire no        *)
(* process drives (a function's placeholder, 995-997) is x.               *)
(***************************************************************************)
Vals == {"0", "1", "x"}
OrigBits ==
  {O(v, 0) : v \in Scalars} \cup {O(Mem, k) : k \in 0 .. NE - 1}
  \cup {O(Idx, k) : k \in 0 .. IdxW - 1}
Envs == [OrigBits -> {"0", "1"}]
NatOf(vs) == FoldLeft(LAMBDA acc, i : IF vs[i] = "1" THEN acc + Pow2(i - 1) ELSE acc,
                      0, [i \in DOMAIN vs |-> i])
ValBits(n, w) == [i \in 1 .. w |-> IF (n \div Pow2(i - 1)) % 2 = 1 THEN "1" ELSE "0"]
HasX(vs) == \E i \in DOMAIN vs : vs[i] = "x"
\* The last of the actions acts that drives bit b, or acc if none does.
LastDriver(acts, b, acc) ==
  LET hits == UNION {{<<j, i>> : i \in {i \in DOMAIN acts[j][1] : acts[j][1][i] = b}}
                      : j \in DOMAIN acts}
      h == CHOOSE h \in hits : \A g \in hits : g[1] <= h[1]
  IN  IF hits = {} THEN acc ELSE acts[h[1]][2][h[2]]

\* Whether an action in case rule c or below it drives bit b.
RECURSIVE CanDrive(_, _)
CanDrive(c, b) ==
  \/ \E j \in DOMAIN cases[c].actions : b \in ToSet(cases[c].actions[j][1])
  \/ \E j \in DOMAIN cases[c].switches :
       \E k \in DOMAIN sws[cases[c].switches[j]].cases :
         CanDrive(sws[cases[c].switches[j]].cases[k], b)

\* The root cases of the module's processes: the cases no switch holds.
Roots == DOMAIN cases \ UNION {ToSet(sws[s].cases) : s \in DOMAIN sws}

RECURSIVE Eval(_, _), EvalSig(_, _), Drive(_, _, _, _), DriveSw(_, _, _, _, _),
          Match(_, _), CellOut(_, _)
Eval(b, env) ==
  CASE b[1] = "c" -> b[2]
    [] b[1] = "o" -> IF b \in DOMAIN env THEN env[b] ELSE "x"
    [] b[1] = "w" -> LET rs == {r \in Roots : CanDrive(r, b)}
                         d == IF rs = {} THEN NoBit
                              ELSE Drive(CHOOSE r \in rs : TRUE, b, NoBit, env)
                     IN  IF d = NoBit THEN "x" ELSE Eval(d, env)
    [] b[1] = "y" -> CellOut(b[2], env)[b[3] + 1]
EvalSig(sig, env) == [i \in DOMAIN sig |-> Eval(sig[i], env)]
\* The driver of b after case rule c, given acc before it.
Drive(c, b, acc, env) ==
  DriveSw(cases[c].switches, 1, b, LastDriver(cases[c].actions, b, acc), env)
DriveSw(sl, i, b, acc, env) ==
  IF i > Len(sl) THEN acc
  ELSE LET s == sws[sl[i]]
           m == IF \E k \in DOMAIN s.cases : CanDrive(s.cases[k], b) THEN Match(s, env) ELSE 0
       IN  DriveSw(sl, i + 1, b, IF m = 0 THEN acc ELSE Drive(m, b, acc, env), env)
\* The first case of switch s that the switch signal selects, or 0.
Match(s, env) ==
  LET sv == EvalSig(s.signal, env)
      ok == {j \in DOMAIN s.cases :
               LET cmp == cases[s.cases[j]].compare
               IN  cmp = <<>> \/ \E k \in DOMAIN cmp : EvalSig(cmp[k], env) = sv}
  IN  IF ok = {} THEN 0 ELSE s.cases[Min(ok)]
\* Yosys semantics of the bitwise gates, bit by bit, x included.
GateBit(t, x, y) ==
  CASE t = "not"  -> IF x = "x" THEN "x" ELSE IF x = "1" THEN "0" ELSE "1"
    [] t = "and"  -> IF x = "0" \/ y = "0" THEN "0" ELSE IF x = "1" /\ y = "1" THEN "1" ELSE "x"
    [] t = "or"   -> IF x = "1" \/ y = "1" THEN "1" ELSE IF x = "0" /\ y = "0" THEN "0" ELSE "x"
    [] t \in {"xor", "xnor"} ->
         IF x = "x" \/ y = "x" THEN "x" ELSE IF (x = y) = (t = "xnor") THEN "1" ELSE "0"
\* Yosys semantics of the arithmetic, shift, comparison and logic cells on
\* unsigned operands x and y, with a w-bit output.
Arith(t, x, y, w) ==
  LET B(c) == IF c THEN 1 ELSE 0
  IN  CASE t = "add" -> (x + y) % Pow2(w)
        [] t = "sub" -> (x - y) % Pow2(w)
        [] t = "mul" -> (x * y) % Pow2(w)
        [] t = "pow" -> PowNat(x, y) % Pow2(w)
        [] t \in {"shl", "sshl"} -> (x * Pow2(y)) % Pow2(w)
        [] t \in {"shr", "sshr"} -> (x \div Pow2(y)) % Pow2(w)
        [] t = "eq" -> B(x = y)   [] t = "ne" -> B(x # y)
        [] t = "lt" -> B(x < y)   [] t = "le" -> B(x <= y)
        [] t = "gt" -> B(x > y)   [] t = "ge" -> B(x >= y)
        [] t = "logic_and" -> B(x # 0 /\ y # 0)
        [] t = "logic_or"  -> B(x # 0 \/ y # 0)
ArithCells == {"add", "sub", "mul", "pow", "shl", "sshl", "shr", "sshr", "eq", "ne",
               "lt", "le", "gt", "ge", "logic_and", "logic_or"}
\* Yosys cell semantics of the cells the lowering adds.
CellOut(n, env) ==
  LET c == cells[n]
      a == EvalSig(c.a, env)
      bb == EvalSig(c.b, env)
      s == EvalSig(c.s, env)
      wo == OutWidth(c)
      Pick(sel, x, y) == IF sel = "0" THEN x ELSE IF sel = "1" THEN y
                         ELSE IF x = y THEN x ELSE "x"
  IN  CASE c.type \in {"reduce_bool", "reduce_or"} ->
             <<IF \E i \in DOMAIN a : a[i] = "1" THEN "1" ELSE IF HasX(a) THEN "x" ELSE "0">>
        [] HasX(IF c.type = "tidx" THEN a ELSE s) /\ c.type \in {"tidx", "demux", "bmux"} ->
             Fill("x", wo)
        [] c.type = "tidx" ->
             ValBits(NatOf(a) % Pow2(IdxBits), IdxBits) \o <<IF NatOf(a) <= NE - 1 THEN "1" ELSE "0">>
        [] c.type = "demux" ->
             [i \in 1 .. wo |-> IF (i - 1) \div Len(a) = NatOf(s) THEN a[((i - 1) % Len(a)) + 1] ELSE "0"]
        [] c.type = "bmux" -> [i \in 1 .. wo |-> a[NatOf(s) * wo + i]]
        [] c.type = "mux" -> [i \in 1 .. wo |-> Pick(s[1], a[i], bb[i])]
        [] c.type = "bwmux" -> [i \in 1 .. wo |-> Pick(s[i], a[i], bb[i])]
        [] c.type = "reduce_and" ->
             <<IF \E i \in DOMAIN a : a[i] = "0" THEN "0" ELSE IF HasX(a) THEN "x" ELSE "1">>
        [] c.type = "logic_not" ->
             <<IF \E i \in DOMAIN a : a[i] = "1" THEN "0" ELSE IF HasX(a) THEN "x" ELSE "1">>
        [] c.type = "not" -> [i \in 1 .. wo |-> GateBit("not", a[i], "")]
        [] c.type \in {"and", "or", "xor", "xnor"} -> [i \in 1 .. wo |-> GateBit(c.type, a[i], bb[i])]
        [] c.type \in ArithCells ->
             IF HasX(a) \/ HasX(bb) THEN Fill("x", wo) ELSE ValBits(Arith(c.type, NatOf(a), NatOf(bb), wo), wo)
\* The value variable bit b holds after the clock edge.
FinalVal(b, env) ==
  LET hits == {j \in DOMAIN syncs : syncs[j][1][1] = b}
  IN  IF hits = {} THEN env[b] ELSE Eval(syncs[Max(hits)][2][1], env)

(***************************************************************************)
(* Reference: the SystemVerilog semantics of the body at a clock edge.     *)
(* Blocking writes update the values later statements read; nonblocking   *)
(* writes are deferred and override at the end; a write through an index  *)
(* out of [NE-1:0] does nothing and a read through one gives x.  xc flags  *)
(* a branch on an x condition, where the process semantics may differ.    *)
(* A function call runs the function's body on its own locals (the        *)
(* arguments and the return variable, initially x) over the variables as  *)
(* they are at the call; an x result is flagged as well, since an         *)
(* unassigned return variable may become a latch.  fn is the function     *)
(* called: its parameters, return variable, body and the call's argument *)
(* expressions.                                                            *)
(***************************************************************************)
\* The SystemVerilog value of unary operator op on the w-bit value x, and of
\* binary operator op on the w-bit values x and y (IEEE 1800 11.4).
SvUnop(op, x, w) ==
  CASE op = "!"  -> ValBits(IF x = 0 THEN 1 ELSE 0, 1)
    [] op = "~"  -> ValBits(Pow2(w) - 1 - x, w)
    [] op = "|"  -> ValBits(IF x # 0 THEN 1 ELSE 0, 1)
    [] op = "&"  -> ValBits(IF x = Pow2(w) - 1 THEN 1 ELSE 0, 1)
    [] op = "~|" -> ValBits(IF x = 0 THEN 1 ELSE 0, 1)
    [] op = "~&" -> ValBits(IF x # Pow2(w) - 1 THEN 1 ELSE 0, 1)
SvBinop(op, x, y, w) ==
  LET B(c) == ValBits(IF c THEN 1 ELSE 0, 1)
  IN  CASE op = "+"  -> ValBits((x + y) % Pow2(w), w)
        [] op = "-"  -> ValBits((x - y) % Pow2(w), w)
        [] op = "*"  -> ValBits((x * y) % Pow2(w), w)
        [] op = "**" -> ValBits(PowNat(x, y) % Pow2(w), w)
        [] op = "&"  -> ValBits(x & y, w)
        [] op = "|"  -> ValBits(x | y, w)
        [] op = "^"  -> ValBits(x ^^ y, w)
        [] op = "~^" -> ValBits(Pow2(w) - 1 - (x ^^ y), w)
        [] op \in {"<<", "<<<"} -> ValBits((x * Pow2(y)) % Pow2(w), w)
        [] op \in {">>", ">>>"} -> ValBits(x \div Pow2(y), w)
        [] op = "==" -> B(x = y)   [] op = "!=" -> B(x # y)
        [] op = "<"  -> B(x < y)   [] op = "<=" -> B(x <= y)
        [] op = ">"  -> B(x > y)   [] op = ">=" -> B(x >= y)
        [] op = "&&" -> B(x # 0 /\ y # 0)
        [] op = "||" -> B(x # 0 \/ y # 0)
NoFunc == [params |-> <<>>, ret |-> "", body |-> <<>>, args |-> <<>>]
RefInit(env, fn) == [cur |-> env, nba |-> <<>>, xc |-> FALSE, fn |-> fn, out |-> <<>>]
\* The value of variable v in cur.
RefVar(v, cur) == [i \in DOMAIN VarBits(v) |-> cur[VarBits(v)[i]]]
RefRead(e, cur) ==
  CASE e.f = "const" -> ValBits(e.k, e.iv)
    [] e.f = "arg"   -> <<cur[O(e.v, 0)]>>
    [] e.f = "var"   -> RefVar(e.v, cur)
    [] e.f = "unop"  -> SvUnop(e.op, NatOf(RefVar(e.v, cur)), Len(VarBits(e.v)))
    [] e.f = "biop"  ->
         SvBinop(e.op, NatOf(RefVar(e.v, cur)), NatOf(RefVar(e.iv, cur)), Len(VarBits(e.v)))
    [] e.f = "range" -> <<cur[O(Mem, e.k)]>>
    [] e.f = "elem"  ->
         LET n == IF e.iv = "" THEN e.k ELSE NatOf([i \in 1 .. IdxW |-> cur[O(Idx, i - 1)]])
         IN  <<IF n < NE THEN cur[O(Mem, n)] ELSE "x">>
RefTargets(l, cur) ==
  CASE l.f = "var"   -> {O(l.v, 0)}
    [] l.f = "range" -> {O(Mem, l.k)}
    [] l.f = "elem"  ->
         LET n == IF l.iv = "" THEN l.k ELSE NatOf([i \in 1 .. IdxW |-> cur[O(Idx, i - 1)]])
         IN  IF n < NE THEN {O(Mem, n)} ELSE {}
RECURSIVE RefBody(_, _)
RefCall(st) ==
  LET fn == st.fn
      loc == [b \in {O(fn.params[i], 0) : i \in DOMAIN fn.params} |->
                RefRead(fn.args[CHOOSE i \in DOMAIN fn.params : O(fn.params[i], 0) = b], st.cur)[1]]
      out == RefBody(fn.body, RefInit(loc @@ (O(fn.ret, 0) :> "x") @@ st.cur, fn))
  IN  [val |-> out.cur[O(fn.ret, 0)], xc |-> out.xc \/ out.cur[O(fn.ret, 0)] = "x"]
RefStmt(s, st) ==
  CASE s.t = "asgn" ->
         LET r == IF s.rhs.f = "call" THEN RefCall(st)
                  ELSE [val |-> RefRead(s.rhs, st.cur)[1], xc |-> FALSE]
             upd == [b \in RefTargets(s.lhs, st.cur) |-> r.val]
             st1 == [st EXCEPT !.xc = @ \/ r.xc]
         IN  IF s.blocking THEN [st1 EXCEPT !.cur = upd @@ @] ELSE [st1 EXCEPT !.nba = upd @@ @]
    [] s.t = "disp" -> [st EXCEPT !.out = Append(@, RefRead(s.rhs, st.cur))]
    [] s.t = "if" ->
         LET c == RefRead(s.sel, st.cur)[1]
         IN  IF c = "x" THEN [st EXCEPT !.xc = TRUE]
             ELSE RefBody(IF c = "1" THEN s.items[1].body ELSE s.dflt, st)
    [] s.t = "case" ->
         LET d == RefRead(s.sel, st.cur)
             hit == {j \in DOMAIN s.items :
                       \E k \in DOMAIN s.items[j].cmps : RefRead(s.items[j].cmps[k], st.cur) = d}
         IN  RefBody(IF hit = {} THEN s.dflt ELSE s.items[Min(hit)].body, st)
RefBody(stmts, st) ==
  IF stmts = <<>> THEN st ELSE RefBody(Tail(stmts), RefStmt(Head(stmts), st))
RefFinal(st, b) == IF b \in DOMAIN st.nba THEN st.nba[b] ELSE st.cur[b]

\* The events of a block's timing control, event lists flattened.
RECURSIVE EventsOf(_)
EventsOf(t) ==
  IF t.kind = "list" THEN FlattenSeq([i \in DOMAIN t.events |-> EventsOf(t.events[i])])
  ELSE <<t>>
\* When a print in block b runs: at each edge event of its event control,
\* or, for always_comb and level-sensitive controls, whenever its inputs
\* change (an implicit trigger).
RefTrigger(b) ==
  LET edges == IF b.kind = "always_comb" THEN <<>>
               ELSE SelectSeq(EventsOf(b.timing), LAMBDA e : e.kind = "signal" /\ e.edge /= "none")
  IN  [enable |-> edges /= <<>>,
       sig |-> [i \in DOMAIN edges |-> O(edges[i].v, 0)],
       pol |-> [i \in DOMAIN edges |-> IF edges[i].edge = "pos" THEN S1 ELSE S0]]

\* Yosys $print semantics: when the trigger fires, the enabled $print cells
\* print their argument in descending PRIORITY.
PrintCells == {n \in DOMAIN cells : cells[n].type = "print"}
Printed(env) ==
  LET on == {n \in PrintCells : Eval(cells[n].s[1], env) = "1"}
      order == SetToSortSeq(on, LAMBDA x, y : cells[x].prio > cells[y].prio)
  IN  [i \in DOMAIN order |-> EvalSig(cells[order[i]].a, env)]

(***************************************************************************)
(* Properties.                                                             *)
(***************************************************************************)
\* Type invariant of the visitor's state.
TypeOK ==
  /\ phase \in {"run", "done", "error"}
  /\ current \in DOMAIN cases
  /\ nwires \in Nat
  /\ DOMAIN staging \subseteq OrigBits
  /\ DOMAIN subs \subseteq OrigBits
  /\ blkBits \cup nbBits \subseteq OrigBits
  /\ prio \in Int

\* The lowering preserves the meaning of the procedure: once staging_done
\* has run, for every value of the module's variables before the clock
\* edge, the values the sync rule commits (the staging wires, driven by the
\* case tree built by the assignment handler, the SwitchBuilder and
\* staging_done) are the values the SystemVerilog body gives the variables.
PreservedWith(fn) ==
  phase = "done" =>
    \A env \in Envs :
      LET ref == RefBody(body, RefInit(env, fn))
      IN  ref.xc \/ \A b \in OrigBits : FinalVal(b, env) = RefFinal(ref, b)
\* For a procedure that calls no function: the values committed are the
\* values the body assigns, as above.
SemanticsPreserved == PreservedWith(NoFunc)

\* The $display statements of a procedure print what SystemVerilog prints:
\* once staging_done has run, every $print cell fires on the block's events,
\* and for every value of the variables, the $print cells whose enable
\* (context_enable) is set, in PRIORITY order (print_priority), print the
\* values, read through rvalue_subs, that the body's $displays print in
\* execution order.
PrintsPreserved ==
  phase = "done" =>
    /\ \A n \in PrintCells : cells[n].trg = RefTrigger(block)
    /\ \A env \in Envs :
         LET ref == RefBody(body, RefInit(env, NoFunc))
         IN  ref.xc \/ Printed(env) = ref.out
====
