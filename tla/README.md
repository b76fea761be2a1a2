# TLA+ models of the yosys-slang frontend

This directory holds TLA+ models of the parts of the slang frontend for
Yosys (`src/slang_frontend.cc`, `src/src/builder.cc`) whose correctness does
not follow from the shape of the code. It also holds the TLC configurations
that check them. `PROJECT.json` lists every component, run, mutant, finding
and hazard, and maps each modelled definition to the source lines it
translates.

## The system

The frontend elaborates a SystemVerilog design with slang and writes it as
RTLIL, the Yosys netlist IR. It has these parts:

| Part | Source | What it does |
|---|---|---|
| IR builder | `src/src/builder.cc`, `RTLILBuilder` in `src/slang_frontend.h` | One method per operator (`Sub`, `Demux`, `Mux`, `Bwmux`, `Shift`, `Bmux`, `Biop`, ...). Each either folds partially constant operands into a signal at elaboration time or adds a cell to the module (the "canvas"). |
| Expression lowering | `evaluate_rhs`, `translate_index`, `evaluate_lhs` in `slang_frontend.cc` | Turns an AST expression into a signal (a sequence of bits, LSB first). Inside a procedure, variable reads go through `rvalue_subs`, the map from a variable's bits to the values that earlier blocking assignments gave them. |
| Procedural lowering | `ProceduralVisitor`, `SwitchBuilder`, `crop_zero_mask` | Walks an `always` body and emits an RTLIL process (see below). |
| Function inlining | `evaluate_function` | Lowers a called function body with a second visitor in FUNCTION mode and reads its return value through that visitor's staging map. |
| Sync population | `populate_sync`, `handle(ProceduralBlockSymbol)` | Turns `@(posedge clk or ...)` into the process's sync rules; `always_comb` gets one implicit (`STa`) rule. |
| Module population | `ModulePopulatingVisitor`, `WireAddingVisitor` | Creates wires, ports, instances, continuous assignments and initial values. |
| Driver | `RTLILGenVisitor`, `SlangFrontend::execute` | Parses the command line, runs slang and walks the hierarchy. |

The emitted process has this shape:

- A tree of case rules.
- Each case rule holds a list of actions (`lhs <- rhs`), then a list of switches.
- A switch has a signal and a list of cases. A switch enters the first case whose compare value equals the signal; a case with an empty compare always matches.
- Each assigned bit gets a *staging* wire, and every sync rule commits the staging wire to the variable at its event.
- A `$display` becomes a `$print` cell. Its trigger comes from the sync rules, its enable is a wire the root case clears and the current case sets, and its `PRIORITY` is a counter that goes down with each `$display`.

Blocking writes update `rvalue_subs`, so later statements read the new value. Nonblocking writes only add an action to the staging wire.

An assignment to a selected part of a variable goes through the *etching* loop. The loop peels the selects off the lvalue and builds two signals as wide as the whole variable:

- a mask of the bits written;
- the rvalue, padded to that width.

The bits where the mask is constant 0 are then cropped. If the mask is not all ones, the write becomes `Bwmux(old value, rvalue, mask)`, where the old value is the lvalue read through `rvalue_subs`.

An `if` or `case` statement opens a `SwitchBuilder`:

1. It saves `rvalue_subs`.
2. For each branch, it adds a case, visits the branch body, records the bits whose entry in `rvalue_subs` is new or changed (the branch's *update set*), and restores `rvalue_subs`.
3. `finish` gives each bit in the union of the update sets a fresh wire. The parent case assigns that wire the value from before the switch, and each branch assigns it its own value.
4. Finally the visitor descends into a new empty ("dummy") switch, so that actions of later statements come after the switch and take priority over it.

The code is single-threaded and runs once per procedure. It has no concurrency, no crashes and no retries. What makes it hard is that one emitted process has to reproduce the SystemVerilog semantics for every value of the variables, through the whole chain: substitution map, update sets, default actions, dummy switches, masks and staging wires.

## Modules

| Module | Models | State | Actions |
|---|---|---|---|
| `IRBuilder` | The folds of `RTLILBuilder` (`builder.cc`) and the `ThreeValued` literal algebra of `Biop`. | `canvas` (cells added); `last` (the last call, the cell width it would have, and its result) | `CallSub`, `CallDemux`, `CallLogicAnd`, `CallLogicOr`, `CallMux`, `CallBwmux`, `CallShift`, `CallBmux`, `CallEqWildcard`, `CallBiop` (one per method, operands from a small set), `Return` |
| `ProcLower` | `ProceduralVisitor` for an `always` body: assignments, `$display`, `if`, `case`, `SwitchBuilder`, staging. Also the parts of `evaluate_rhs`/`translate_index`/`evaluate_lhs` those use, and `populate_sync` with the block dispatch that gives the process its sync rules. | `body` (the AST); `block` (the procedural block: kind and timing control); `rules` (`proc->syncs`: type and signal of each rule); `prio` (`print_priority`); the emitted `cases`, `sws`, `syncs`, `cells`, `nwires`; the visitor's `current`, `subs` (`rvalue_subs`), `staging`, `blkBits`/`nbBits` (`assigned_blocking`/`assigned_nonblocking`); `stack` (the recursion of the visitor); `phase` (`run`, `done`, or `error` for the mixing abort) | `Assign` (handle(ExpressionStatement), 777-877; its parts are `EtchOf`/`Etch` for the etching loop, `Masked` for the crop and Bwmux, and `Commit` for the subs/staging/action updates. They are operators with parameters, not `LET`s, so that TLC's `-coverage` cost model does not expand the etching once per use), `Display` (the `$display` branch of handle(ExpressionStatement), 716-767, with `set_cell_trigger` as `Trigger` and `context_enable`), `IfBegin` (890-902), `CaseBegin` (925-937), `BranchBegin`/`BranchEnd` (the two halves of `SwitchBuilder::branch` around the visit of the body), `Finish` (`SwitchBuilder::finish` and the dummy switch), `StagingDone` (655-670, enabled only in `always` mode) |
| `ProcSpec` | What lowering one procedure promises (spec.md 4.3 and 7), as one step: it aborts exactly when the body mixes blocking and nonblocking writes to a bit; otherwise it commits, for every environment, what the body assigns. | `body`, `st` (`pending`, `done`, `error`), `val` (the committed values per environment) | `Lower` |
| `ProcRefines` | `ProcLower` shown to implement `ProcSpec`. | `ProcLower`'s variables plus `report`, a history variable holding the committed values once `staging_done` has run | `ProcLower`'s actions, and `Report`, a stuttering step that records the values |
| `FuncInline` | `evaluate_function` (982-1000): a caller visitor (`ProcLower` in `always` mode) composed with a callee visitor (an `INSTANCE` of `ProcLower` in `function` mode). | `ProcLower`'s variables for the caller; `fbody` (the function's body); the callee's `fcurrent`, `fsubs`, `fstaging`, `fblk`, `fnb`, `fstack`, `fargs` (`ctx.args`), `fprio`; the callee's process has no sync rules (`rules <- <<>>`); `fphase` (`idle`, `run`, `error`) | `CallerStep` (the caller's own actions while no call is under way), `CallBegin` (982-990), `FnStep` (the callee's actions, 993), `CallReturn` (995-999, then the rest of the caller's assignment handler) |
| `MCIRBuilder`, `MCProcLower`, `MCProcRefines`, `MCFuncInline` | Constants for TLC: the wire bit, the variables, the function `f(a, b)` called as `f(q, d)`, and the sets of assignment statements bodies are built from. | | |

### IRBuilder

A signal is a sequence over `{"0","1","x"}` plus the wire bits (`WireBits`).

Each fold is an operator with the method's name. Its guards and branches follow the method line for line, including the `Sub` all-ones shortcut and `Demux` reading an x select as 0.

`Refines(call, res)` states when a folded result is correct: there is a choice of the x bits of the operands such that, for every value of the wire bits, every non-x result bit equals the operator applied to the operand values (`RefValue`). The IR's own constant evaluation (`RTLIL::const_*`, outside this repository) is modelled as exact on defined operands and all-x otherwise (`ConstEval`).

### ProcLower

Variables are strings. Scalars are one bit wide. `Mem` is an array `[NE-1:0]` of one-bit elements, and `Idx` is an unsigned index `IdxW` bits wide.

A bit is a tagged tuple: a constant, bit k of a variable, a wire added by the visitor, or bit k of a cell output. The model adds the same cells the code adds: `$reduce_bool` for `if` conditions, `$demux` for element-select masks, `$bmux` and `$mux` for element reads, and `$bwmux` for partial writes. The `Le`, `Ge`, `LogicAnd` and `Sub` cells of `translate_index` appear as one `tidx` cell whose outputs are the truncated raw index and the valid bit.

The body is fixed in `Init`. `Init` chooses it from all statement sequences with at most `MaxAtoms` assignments, nested at most `MaxDepth` deep, built from the `Atoms`, `Conds` and `CaseItems` of the configuration. One behaviour lowers one body, step by step, as the visitor does.

Two abstractions keep the model small:

- Staging and `finish` wires are allocated one per bit rather than one per chunk. Chunking only affects wire names.
- Attributes, `transfer_attrs` and warnings are left out.

The correctness check is `SemanticsPreserved`. Once `staging_done` has run, the check covers every value of the variables before the clock edge. It evaluates the emitted process:

- `Eval`, `Drive` and `Match` implement the RTLIL process semantics above.
- `CellOut` gives the Yosys semantics of each cell, with x propagation.

The values the sync rule commits must equal the SystemVerilog reference semantics (`RefBody`):

- blocking writes are immediate;
- nonblocking writes are deferred and override at the end;
- an out-of-range read gives x;
- an out-of-range write does nothing.

Bodies that branch on an x condition are exempt, because the process semantics of x in a switch is not SystemVerilog's.

Operators: `Unop(op, v)` and `Binop(op, v, w)` are `UnaryOp` and `BinaryOp` expressions on variables. `UnaryOpRhs` (316-348) and `BinaryOpRhs` (349-412) evaluate the operands through `rvalue_subs`, left before right, and add one cell of the type the code's tables give (`UnopCell`, `BinopCell`), with A from the left operand and B from the right one. For `~&` and `~|` they also add the `$logic_not` the code adds, and, as the code does, return the un-inverted output. `CellOut` has the Yosys semantics of these cells, and the reference (`SvUnop`, `SvBinop`) has SystemVerilog's, computed on integers with `Bitwise`. The signedness parameters and their fixups are left out, since every operand is unsigned. `/` and `%` are in the table but not in any run, because Yosys and SystemVerilog differ on a zero divisor. `0 ** 0` is 1 in both (`PowNat`).

`ProcLower` also has what a callee visitor needs. The constant `Mode` is the visitor's `mode`; `staging_done` runs only in `always` mode. The variable `args` is `ctx.args`, empty for an `always` procedure. A formal-argument read (`Arg`, 305-309) returns `args` without `rvalue_subs`. `Eval` finds a wire's driver in whichever process's case tree drives it (`Roots` are the process roots). The reference semantics runs a call (`RefCall`) on the function's own locals: the arguments, and the return variable, initially x. It reads the module's variables as they are at the call. `AssignWith` binds the etching and masking results with `\E x \in {..}`. TLC then computes each once, including when it evaluates `ENABLED` for fairness; otherwise TLC re-evaluates lazy values at each use there.

Sync rules and `$display`:

- `Init` also picks the procedural block from `Blocks`. `SyncsOf` is the dispatch of `handle(ProceduralBlockSymbol)` (1097-1127). `PopulateSync` is `populate_sync` (1039-1095), recursive over event lists. A failed `require`, or an event control `populate_sync` rejects, leaves the frontend aborted in the initial state (`phase = "error"`). `staging_done` pushes the same actions to every sync rule, so `syncs` holds that one list.
- `Display` follows the code's order. It adds the `$print` cell, runs `set_cell_trigger` (`Trigger`), runs `context_enable` (a new wire set to 0 in the root case and to 1 in `current_case`), and decrements `print_priority`. It then evaluates the argument through `rvalue_subs`; any cells this adds come after the `$print` cell. `Trigger` aborts on an `STe` rule (`log_abort`), on no rule at all, and on edge rules mixed with an implicit one (the two `log_assert`s). The format string, string and `$time` arguments are left out: they do not affect the trigger, enable or order.
- `PrintsPreserved` checks prints against SystemVerilog. Each `$print` cell's trigger must be the edges of the block's event control, or implicit for `always_comb` and level-sensitive controls (`RefTrigger`, computed from the AST, not from the rules). For every environment, the enabled cells in descending `PRIORITY` must print (`Printed`) what the body's `$display`s print in execution order (`RefBody`'s `out`).

### ProcRefines

The abstract `ProcSpec` does the whole lowering in one step. The refinement mapping is:

- `st` is `error` when the visitor aborted, `done` once `report` is set, and `pending` otherwise;
- `val` is `report`;
- `Mixes` is `MixesBody`, which holds when some path of the body writes a bit both blocking and nonblocking. The bits an element write may touch follow the code: all elements for a variable index, one element for a constant one;
- `Commit` is `Committed`, the reference semantics.

`report` is a history variable, set by the stuttering step `Report` from the evaluated process. TLC does not cache definitions inside a primed expression, so computing the mapping from the process under a prime would evaluate the process exponentially often. Only `ProcSpec`'s safety part is checked (`Refines`). Termination is the subject of `FuncInline`'s liveness run.

### FuncInline

A call `l = f(...)` is modelled in three stages:

1. `CallBegin` starts the call. It evaluates the argument expressions with the caller's `rvalue_subs`, adds the new process's root case, top switch and current case to the shared arenas, and binds `fargs`.
2. `FnStep` visits the function body with the callee instance, while the caller's variables stay unchanged.
3. `CallReturn` returns. The return-variable wire, with the callee's staging substituted, becomes the rvalue of the caller's assignment. The caller's handler then goes on: etching, mask and commit.

The caller takes no step while a call is under way.

The model has one function, `f(a, b)`, called as `f(q, d)`. Its body has blocking assignments to the return variable and to its arguments, under at most one `if` or `case`.

`CallsPreserved` is `SemanticsPreserved` with the reference semantics of the call. A function whose return value is x is exempt: an unassigned return variable may become a latch rather than x.

## Runs

| Run | Config | Expect | What it shows |
|---|---|---|---|
| `builder_folds` | `IRBuilder.cfg` | pass | The partial folds, over all operands of up to 2 bits with one wire bit, are correct (`FoldRefines`) and as wide as the cell they replace (`TypeOK`). 23,263 states. |
| `compare_fold` | `IRBuilder_CompareFoldRefines.cfg` | violation | `Biop` folds unsigned `{1'b1, w} < 1'b0` to 1. |
| `proc_nested` | `ProcLower_Nested.cfg` | pass | All 3,690 bodies of at most 3 assignments in `if`s nested 2 deep keep their semantics. They include a blocking write to the condition variable and reads after the merge. 62,847 states. |
| `nb_elem_lost_update` | `ProcLower_NbElem.cfg` | violation | `m[0] <= d; m[1] <= q;` loses the write to `m[0]`. |
| `proc_refines` | `ProcLower_Refines.cfg` | pass | Every lowering of a body of at most 2 assignments under at most one `if`/`case` implements `ProcSpec` (`Refines`). It aborts exactly on mixed writes and otherwise commits the reference values. On the same bodies it also checks `TypeOK`. `SemanticsPreserved` is not listed: `Report` fires from every completed lowering, and `Refines` then requires the same committed values. The assignments are blocking to `q`, `m[i]`, `m[1:1]` and nonblocking to `q`, `m[0:0]`, `m[1:1]`. 49,680 states. |
| `expr_ops` | `ProcLower_ExprOps.cfg` | pass | Bodies of up to 2 assignments under at most one `if` are checked. They use `!m`, `\|m`, `&m`, `~d` and every binary operator with a cell semantics (`q = d op q`, and `q <= q - d` for operand order), next to a write through `m[i]`. Each keeps its semantics (`SemanticsPreserved`). 142,620 states, about 2m20 with coverage. |
| `reduce_nand` | `ProcLower_ReduceNand.cfg` | violation | `q = ~&m;` commits `&m`, and `q = ~\|m;` commits `\|m`. |
| `func_inline` | `FuncInline.cfg` | pass | Procedures of up to 2 assignments are checked, among them `q = f(q, d)`, `q <= f(q, d)`, `m[i] = f(q, d)` and `q = d`, with every function body of up to 2 assignments under one `if`/`case` that reads only its arguments and `d`. They keep their semantics (`CallsPreserved`). 63,396 states. |
| `func_stale_read` | `FuncInline_StaleRead.cfg` | violation | With `f = q`, `q = d; q = f(q, d);` commits the old `q`. |
| `func_arg_write` | `FuncInline_ArgWrite.cfg` | violation | With `a = d; f = a;`, `q <= f(q, d)` commits `q <= q`. |
| `proc_display` | `ProcLower_Display.cfg` | pass | Seven blocks are checked: `always_ff @(posedge clk)`, `@(posedge clk or negedge rst)`, `always_comb`, `@(d)`, `@(edge clk)`, `@(posedge clk or d)`, and `@(posedge clk iff ...)`. Their bodies have up to 3 statements under at most one `if`, mixing `$display(q)`, `$display(m[i])`, `q = d` and `q <= d`. Every lowering that completes prints what SystemVerilog prints, on the block's events and in order (`PrintsPreserved`). The aborts on both-edge and mixed triggers and on `iff` are reached. 490,333 states, about 2m40 with coverage. |
| `func_display` | `FuncInline_Display.cfg` | violation | A function whose body is `$display(a);` never returns to its caller: `set_cell_trigger` aborts (`CallReturns`). |

Every property of a passing run has a mutant in `PROJECT.json`. Each mutant is a plausible slip in the code that TLC must catch:

- a `Demux` padding off by one (caught by `TypeOK`);
- a `Shift` fold without sign extension (`FoldRefines`);
- the staging map built the wrong way round (`TypeOK` of `ProcLower`);
- an update set that misses bits that are new since the switch opened (`SemanticsPreserved`, nested run);
- `Commit` without the mixing checks (`Refines`);
- call arguments evaluated in the callee's fresh context (`CallsPreserved`);
- `print_priority` counted up instead of down (`PrintsPreserved`);
- a binary operator's operands wired to the cell the other way round (`SemanticsPreserved`, `expr_ops`).

### Findings

1. **Lost nonblocking element writes** (`slang_frontend.cc:856`). The etching loop builds a `$demux` mask for every element select, even one with a constant index, so the whole array is written through `Bwmux`. For a nonblocking write, the old value that `Bwmux` reads comes from `rvalue_subs`, which holds none of the earlier nonblocking writes. In `m[0] <= d; m[1] <= q;` the second write therefore restores `m[0]`. This is a common `always_ff` idiom. spec.md 4.2 says constant-index element lvalues are static extracts.
2. **`~&` and `~|` are not inverted** (`slang_frontend.cc:343`). For these operators `UnaryOp` adds a `$logic_not` of the reduction's output, driving a new wire `new_ret`, but never sets `ret` to it. The expression's value is therefore `&a` (`|a`). The tests (`tests/various/expr.sv` 32-37) apply `~&` and `~|` to constants only, and `evaluate_rhs` folds those at 273 before reaching the cell code.
3. **Functions miss the caller's blocking writes** (`slang_frontend.cc:987`). The callee visitor gets a fresh context, so a module variable read in the function body goes through an empty `rvalue_subs`. It yields the value from before the procedure, not the value an earlier blocking assignment of the caller gave it.
4. **Writes to a function argument are invisible** (`slang_frontend.cc:308`). A formal argument is always read from `ctx.args`, while an assignment to it goes to its wire's staging. `a = d; f = a;` therefore returns the caller's argument, not `d`.
5. **`$display` in a function aborts** (`slang_frontend.cc:705`). The callee's process, added at 984, has no sync rules. So `set_cell_trigger`'s `log_assert(!triggers.empty() || implicit)` fails for a `$display` in a function body. SystemVerilog allows it, and spec.md 4.3 says a call runs the same procedural traversal over the function body.
6. **Unsigned comparison fold** (`builder.cc:295`). The three-valued chain has no guard bit.

The builder is not called by `slang_frontend.cc` in this snapshot. Finding 6 bites once callers move to `RTLILBuilder`. The `Sub` all-ones shortcut (`builder.cc:22`) is also wrong in value, since `a - (all ones)` is `a + 1`. spec.md 66 prescribes it and spec.md 9 records it, and `FoldRefines` leaves `Sub` out. No property a passing run can check reaches that line.

Two further behaviours, found in the first sittings, have no run of their own: the project is held to twelve runs. Each is reproduced with `MCProcLower` by changing one configuration.

- **Out-of-range writes wrap** (`slang_frontend.cc:258, 818`). The raw index is truncated to `ceil_log2(NE)` bits, and the etching ignores `valid` (`TODO: use valid`, which the code already notes). `ProcLower_Nested.cfg` with `IdxW = 2`, `Atoms <- IdxAtoms`, `MaxAtoms = 1` and `MaxDepth = 0` violates `SemanticsPreserved`: `m[i] = d` with `i = 2` writes `m[0]`. When the index is exactly `ceil_log2(NE)` bits wide, as in the passing runs, writes are correct.
- **Writes to different elements abort as mixed** (`slang_frontend.cc:816`). This is the root cause of finding 1 met from another side. The `$demux` mask keeps the whole array in the lvalue, so the mixing check of 866/870 sees `m[0] = d; m[1:1] <= q;` as touching the same bits, and the frontend aborts. spec.md 7 makes mixing fatal only for the same bits. `ProcLower_Refines.cfg` with `Atoms <- ElemMixAtoms` and `MaxDepth = 0`, checking `Refines` alone, shows it.

## Bounds and why they are enough

- **IRBuilder:** `MaxWidth = 2` with one wire bit `w` covers every combination of constant, x and unknown bits at each position of two-bit operands. This includes the msb/sign cases, an all-ones `b`, and select signals with x. `MaxCells = 1` bounds the canvas.
- **ProcLower:**
  - `NE = 2` with `IdxW = 1` makes the index exactly as wide as `ceil_log2(NE)`. `IdxW = 2` makes it wider (see the behaviours without a run).
  - Two assignments are enough for every pairwise interaction: read after write, write after write, blocking after nonblocking to other bits, and a write after an `if` (dummy switch).
  - Three assignments under two levels of `if` exercise the save/restore of nested `SwitchBuilder`s and the merge of an update into an outer branch.
  - The environment ranges over all 2^5 values of `q`, `d`, `m[0]`, `m[1]` and `i`.
- **Operators:** one-bit `d` and `q` and the two-bit `m` cover each operator's full truth table. This includes the carries and borrows of `+`/`-`, `0 ** 0`, shifts by 0 and by 1, and reductions of all four values of `m`, after `m[i] = d` has changed one element. A second assignment and one `if` put the result through `rvalue_subs` and a switch.
- **`$display`:**
  - Three statements under one `if` give two prints separated by a blocking or nonblocking write, and a print on one path only. These are the cases where order, the value read and the enable can go wrong.
  - The blocks cover every trigger `set_cell_trigger` accepts (one edge, two edges of opposite polarity, implicit from `always_comb` and from a level event) and every kind it rejects.
- **FuncInline:**
  - The caller has at most 2 assignments and no branching. Two calls in a row are reached, as are a call after a blocking write to the argument's variable, and a call whose result is written through an index.
  - The function body has at most 2 assignments under one `if` or `case`. This covers a return variable assigned on one path only and an assignment overriding another.
  - Two arguments are enough to tell them apart.

## Fairness and liveness

`FuncInline` assumes weak fairness of its whole next-state relation (`WF_allvars(FNext)`). The frontend is a single sequential thread, so whenever a step is enabled it is taken. Under it, `CallReturns` states that a started call eventually returns to the caller. Only `func_display` checks it, where the callee aborts in `set_cell_trigger`. A passing run does not check it: `evaluate_function` calls the body's visit synchronously (993, then 998), so with a callee that cannot abort the return holds by the shape of the code. The other modules check safety only. Both `done` and `error` are final states of the frontend, so the ProcLower and FuncInline configurations set `CHECK_DEADLOCK FALSE`; IRBuilder's `Return` step keeps its model running.

## Not modelled, and the plan

Not modelled:

- in function inlining: `return` statements, reads of function locals, nested calls, and functions writing module variables. The generic `handle(Statement)` (976-979) rejects `return`, and the `require` at 288 rejects local reads; both are unsupported constructs in the sense of spec.md 7;
- `$check` cells (assertions), which the code does not emit yet, and the format string of `$print`;
- `initial` blocks: `InitialProceduralVisitor` rejects every statement. `final` blocks are a no-op;
- the signedness of operands (every model variable is unsigned), `/` and `%`, and conversions, concatenation, replication, conditional and member-access expressions. Each adds one cell with no interplay of state; a model of them would restate the cell library;
- struct member lvalues;
- concatenation lvalues;
- module population;
- the driver;
- the purely cell-adding builder methods.

Next steps, in order:

1. Add an `always_comb` instance with the implicit sync rule, to check the latch-free property of spec.md 8.
2. Add a run for out-of-range reads with a non-power-of-two array.
3. Check `$display` after a function call in the caller, once calls in branching callers are in reach.
