----------------------------- MODULE IRBuilder -----------------------------
(***************************************************************************)
(* The IR builder of src/src/builder.cc (struct RTLILBuilder).  Each       *)
(* method either folds its operands into a signal at elaboration time or   *)
(* adds a cell to the module under construction (the canvas).  A signal   *)
(* is a sequence of bits, least significant bit first as in RTLIL::SigSpec; *)
(* a bit is a constant state ("0", "1", "x"; RTLIL::Sz is treated exactly  *)
(* like Sx by every fold here) or a wire bit, a member of WireBits whose   *)
(* value is only known when the circuit runs.                              *)
(*                                                                         *)
(* A fold is correct when it refines the operator: there is a choice of    *)
(* the x bits of the operands (the tool may give x any constant value)     *)
(* such that for every value of the wire bits each non-x bit of the folded *)
(* result equals the operator applied to the operand values.               *)
(***************************************************************************)
EXTENDS Integers, SequencesExt, FiniteSets

CONSTANTS
  WireBits,   \* bits of wires, unknown at elaboration time
  MaxWidth,   \* widest operand enumerated
  MaxCells    \* bound on the cells added to the canvas

ASSUME MaxWidth \in Nat \ {0}
ASSUME MaxCells \in Nat

States == {"0", "1", "x"}
Bits == States \cup WireBits
Signals == UNION {[1 .. n -> Bits] : n \in 1 .. MaxWidth}

Zeros(n) == [i \in 1 .. n |-> "0"]
Xs(n) == [i \in 1 .. n |-> "x"]
\* SigSpec::extend_u0 of a one-bit signal: {S1} padded with zeros.
OneExt(n) == <<"1">> \o Zeros(n - 1)
Repeat(s, n) == FoldLeft(LAMBDA acc, e : acc \o e, <<>>, [i \in 1 .. n |-> s])
Pow2(n) == 2 ^ n
MaxOf(a, b) == IF a >= b THEN a ELSE b

\* SigSpec predicates (kernel/rtlil.h).
IsFullyConst(s) == \A i \in DOMAIN s : s[i] \in States
IsFullyDef(s)   == \A i \in DOMAIN s : s[i] \in {"0", "1"}
IsFullyZero(s)  == \A i \in DOMAIN s : s[i] = "0"
IsFullyOnes(s)  == \A i \in DOMAIN s : s[i] = "1"
\* Const::as_int: x bits count as 0; signed reads sign-extend an S1 msb.
AsInt(s, signed) ==
  LET u == SumFunction([i \in DOMAIN s |-> IF s[i] = "1" THEN Pow2(i - 1) ELSE 0])
  IN  IF signed /\ s[Len(s)] = "1" THEN u - Pow2(Len(s)) ELSE u

(***************************************************************************)
(* Reference semantics over operand values: sequences of 0 and 1.          *)
(***************************************************************************)
ValOf(c, signed) ==
  LET u == SumFunction([i \in DOMAIN c |-> c[i] * Pow2(i - 1)])
  IN  IF signed /\ c[Len(c)] = 1 THEN u - Pow2(Len(c)) ELSE u
\* The w low bits of the two's complement of integer n.
BitsOf(n, w) == [i \in 1 .. w |-> (n \div Pow2(i - 1)) % 2]
BoolBits(b, w) == BitsOf(IF b THEN 1 ELSE 0, w)
Truth(c) == \E i \in DOMAIN c : c[i] = 1

RefCompare(op, ca, cb, sg) ==
  LET a == ValOf(ca, sg)  b == ValOf(cb, sg)
  IN  CASE op = "lt" -> a < b  [] op = "le" -> a <= b
        [] op = "gt" -> a > b  [] op = "ge" -> a >= b

\* Operand values: each x bit of the operands is given a value by xc, each
\* wire bit by the run-time valuation v.
XPos(args) == {<<k, i>> \in (DOMAIN args) \X (1 .. MaxWidth) :
                 i \in DOMAIN args[k] /\ args[k][i] = "x"}
Valuations == [WireBits -> {0, 1}]
Concrete(args, xc, v) ==
  [k \in DOMAIN args |->
     [i \in DOMAIN args[k] |->
        CASE args[k][i] = "0" -> 0 [] args[k][i] = "1" -> 1
          [] args[k][i] = "x" -> xc[<<k, i>>]
          [] OTHER            -> v[args[k][i]]]]

(***************************************************************************)
(* Reference value of each operator on operand values c, in w bits.       *)
(***************************************************************************)
RefValue(call, c, w) ==
  CASE call.op = "Sub" ->
         BitsOf(ValOf(c[1], call.sg) - ValOf(c[2], call.sg), w)
    [] call.op = "Demux" ->
         LET n == Len(c[1])  k == ValOf(c[2], FALSE)
         IN  [i \in 1 .. w |-> IF (i - 1) \div n = k THEN c[1][((i - 1) % n) + 1] ELSE 0]
    [] call.op \in {"LogicAnd", "logic_and"} -> BoolBits(Truth(c[1]) /\ Truth(c[2]), w)
    [] call.op \in {"LogicOr", "logic_or"}   -> BoolBits(Truth(c[1]) \/ Truth(c[2]), w)
    [] call.op \in {"lt", "le", "gt", "ge"}  -> BoolBits(RefCompare(call.op, c[1], c[2], call.sg), w)
    [] call.op = "Mux" -> IF c[3][1] = 1 THEN c[2] ELSE c[1]
    [] call.op = "Bwmux" -> [i \in 1 .. w |-> IF c[3][i] = 1 THEN c[2][i] ELSE c[1][i]]
    [] call.op = "Shift" ->
         LET n == Len(c[1])  sh == ValOf(c[2], call.bs)
             ABit(j) == IF j < 0 THEN 0
                        ELSE IF j >= n THEN (IF call.as THEN c[1][n] ELSE 0)
                        ELSE c[1][j + 1]
         IN  [k \in 1 .. w |-> ABit(k - 1 + sh)]
    [] call.op = "Bmux" ->
         LET k == ValOf(c[2], FALSE) IN [i \in 1 .. w |-> c[1][k * w + i]]
    \* wildcard equality: positions where the pattern is x are don't-care
    [] call.op = "EqWildcard" ->
         BoolBits(\A i \in DOMAIN c[1] : call.args[2][i] /= "x" => c[1][i] = c[2][i], w)
    [] call.op = "Eq" -> BoolBits(c[1] = c[2], w)

\* A folded result res of call refines the reference.
Refines(call, res) ==
  \E xc \in [XPos(call.args) -> {0, 1}] :
    \A v \in Valuations :
      LET ref == RefValue(call, Concrete(call.args, xc, v), Len(res))
      IN  \A i \in DOMAIN res :
            \/ res[i] = "x"
            \/ res[i] = "0" /\ ref[i] = 0
            \/ res[i] = "1" /\ ref[i] = 1
            \/ res[i] \in WireBits /\ v[res[i]] = ref[i]

(***************************************************************************)
(* The IR's own constant evaluation (RTLIL::const_*, outside this          *)
(* repository), used when every operand is constant: exact on defined      *)
(* operands, all x otherwise.                                              *)
(***************************************************************************)
ConstEval(call, w) ==
  IF \A k \in DOMAIN call.args : IsFullyDef(call.args[k])
  THEN LET c == [k \in DOMAIN call.args |->
                   [i \in DOMAIN call.args[k] |-> IF call.args[k][i] = "1" THEN 1 ELSE 0]]
           r == RefValue(call, c, w)
       IN  [i \in 1 .. w |-> IF r[i] = 1 THEN "1" ELSE "0"]
  ELSE Xs(w)

\* A call of a builder method: its operands and signedness flags.
MkCall(op, args, sg, as, bs) ==
  [op |-> op, args |-> args, sg |-> sg, as |-> as, bs |-> bs]
NoCall == MkCall("none", <<>>, FALSE, FALSE, FALSE)

Cell == [cell |-> TRUE]
Fold(s) == [cell |-> FALSE, sig |-> s]

(***************************************************************************)
(* The folds, one operator per builder method.                             *)
(***************************************************************************)
Sub(a, b, is_signed) ==
  IF IsFullyOnes(b) THEN Fold(a)
  ELSE IF IsFullyConst(a) /\ IsFullyConst(b)
  THEN Fold(ConstEval(MkCall("Sub", <<a, b>>, is_signed, FALSE, FALSE),
                      MaxOf(Len(a), Len(b)) + 1))
  ELSE Cell

\* Mutant of Demux: the upper padding one slot too long.
DemuxOffByOne(a, s) ==
  IF IsFullyConst(s)
  THEN LET idx == AsInt(s, FALSE)
       IN  Fold(Repeat(Zeros(Len(a)), idx) \o a \o Repeat(Zeros(Len(a)), Pow2(Len(s)) - idx))
  ELSE Cell

Demux(a, s) ==
  IF IsFullyConst(s)
  THEN LET idx == AsInt(s, FALSE)
       IN  Fold(Repeat(Zeros(Len(a)), idx) \o a
                  \o Repeat(Zeros(Len(a)), Pow2(Len(s)) - 1 - idx))
  ELSE Cell

LogicAnd(a, b) ==
  IF IsFullyZero(a) \/ IsFullyZero(b) THEN Fold(<<"0">>)
  ELSE IF IsFullyDef(a) /\ Len(b) = 1 THEN Fold(b)
  ELSE IF IsFullyDef(b) /\ Len(a) = 1 THEN Fold(a)
  ELSE Cell

LogicOr(a, b) ==
  IF IsFullyOnes(a) \/ IsFullyOnes(b) THEN Fold(<<"1">>)
  ELSE IF IsFullyZero(a) /\ IsFullyZero(b) THEN Fold(<<"0">>)
  ELSE Cell

Mux(a, b, s) ==
  CASE s[1] = "0" -> Fold(a)
    [] s[1] = "1" -> Fold(b)
    [] OTHER      -> Cell

Bwmux(a, b, s) ==
  IF IsFullyConst(s)
  THEN Fold([i \in DOMAIN a |-> CASE s[i] = "0" -> a[i]
                                  [] s[i] = "1" -> b[i]
                                  [] OTHER      -> "x"])
  ELSE Cell

\* Mutant of Shift: bits shifted in from above a are zero even when a is signed.
ShiftNoSignExt(a, a_signed, b, b_signed, w) ==
  IF IsFullyConst(a) /\ IsFullyConst(b)
  THEN Fold(ConstEval(MkCall("Shift", <<a, b>>, FALSE, a_signed, b_signed), w))
  ELSE IF IsFullyConst(b) /\ Len(b) < 24
  THEN LET sh == AsInt(b, b_signed)
           Pick(i) == IF i >= Len(a) \/ i < 0 THEN "0" ELSE a[i + 1]
       IN  Fold([j \in 1 .. w |-> Pick(sh + j - 1)])
  ELSE Cell

Shift(a, a_signed, b, b_signed, w) ==
  IF IsFullyConst(a) /\ IsFullyConst(b)
  THEN Fold(ConstEval(MkCall("Shift", <<a, b>>, FALSE, a_signed, b_signed), w))
  ELSE IF IsFullyConst(b) /\ Len(b) < 24
  THEN LET sh == AsInt(b, b_signed)
           Pick(i) == IF a_signed /\ i >= Len(a) THEN a[Len(a)]
                      ELSE IF i >= Len(a) \/ i < 0 THEN "0"
                      ELSE a[i + 1]
       IN  Fold([j \in 1 .. w |-> Pick(sh + j - 1)])
  ELSE Cell

Bmux(a, s) ==
  LET stride == Len(a) \div Pow2(Len(s))
  IN  IF IsFullyDef(s)
      THEN Fold(SubSeq(a, AsInt(s, FALSE) * stride + 1, (AsInt(s, FALSE) + 1) * stride))
      ELSE Cell

EqWildcard(a, b) ==
  LET keep == SelectSeq([i \in DOMAIN b |-> i], LAMBDA i : b[i] /= "x")
      a2 == [j \in DOMAIN keep |-> a[keep[j]]]
      b2 == [j \in DOMAIN keep |-> b[keep[j]]]
  IN  IF IsFullyConst(a2) /\ IsFullyConst(b2)
      THEN Fold(ConstEval(MkCall("Eq", <<a2, b2>>, FALSE, FALSE, FALSE), 1))
      ELSE Cell

(***************************************************************************)
(* namespace ThreeValued: literals +1 (true), -1 (false), 0 (unknown).     *)
(***************************************************************************)
TVAnd(a, b) == IF a < 0 \/ b < 0 THEN -1 ELSE IF a > 0 /\ b > 0 THEN 1 ELSE 0
TVNot(l) == -l
TVOr(a, b) == TVNot(TVAnd(TVNot(a), TVNot(b)))
TVXor(a, b) == TVOr(TVAnd(a, TVNot(b)), TVAnd(TVNot(a), b))
TVXnor(a, b) == TVNot(TVOr(TVAnd(a, TVNot(b)), TVAnd(TVNot(a), b)))
TVCarry(a, b, c) ==
  IF c > 0 THEN TVOr(a, b)
  ELSE IF c < -1 THEN TVAnd(a, b)
  ELSE TVOr(TVAnd(a, b), TVAnd(c, TVOr(a, b)))
TVConvert(bit) == IF bit = "1" THEN 1 ELSE IF bit = "0" THEN -1 ELSE 0

\* The carry chain of Biop over the comparison operators: the literal it
\* computes for the comparison, 0 when the chain does not decide it.
CompareLiteral(type, a, b, a_signed, b_signed) ==
  LET width == MaxOf(Len(a), Len(b))
      Ext(s, i, sg) == IF i <= Len(s) THEN s[i] ELSE IF sg THEN s[Len(s)] ELSE "0"
      Lits(i) == LET al == TVConvert(Ext(a, i, a_signed))  bl == TVConvert(Ext(b, i, b_signed))
                 IN  IF type \in {"gt", "ge"} THEN <<bl, al>> ELSE <<al, bl>>
      RECURSIVE Carry(_)
      Carry(i) == IF i = 0 THEN (IF type \in {"le", "ge"} THEN -1 ELSE 1)
                  ELSE TVCarry(Lits(i)[1], TVNot(Lits(i)[2]), Carry(i - 1))
  IN  TVXor(Carry(width - 1), TVXnor(Lits(width)[1], Lits(width)[2]))

CompareOps == {"lt", "le", "gt", "ge"}
BiopOps == CompareOps \cup {"logic_and", "logic_or"}

Biop(type, a, b, a_signed, b_signed, yw) ==
  IF IsFullyConst(a) /\ IsFullyConst(b)
  THEN Fold(ConstEval(MkCall(type, <<a, b>>, a_signed /\ b_signed, FALSE, FALSE), yw))
  ELSE IF type \in CompareOps /\ CompareLiteral(type, a, b, a_signed, b_signed) /= 0
  THEN Fold(IF CompareLiteral(type, a, b, a_signed, b_signed) < 0 THEN Zeros(yw) ELSE OneExt(yw))
  ELSE IF type = "logic_and" /\ (IsFullyZero(a) \/ IsFullyZero(b))
  THEN Fold(Zeros(yw))
  ELSE IF type = "logic_or" /\ ((IsFullyConst(a) /\ \E i \in DOMAIN a : a[i] = "1")
                            \/ (IsFullyConst(b) /\ \E i \in DOMAIN b : b[i] = "1"))
  THEN Fold(OneExt(yw))
  ELSE Cell

(***************************************************************************)
(* The canvas and the builder calls.                                       *)
(***************************************************************************)
VARIABLES
  canvas,   \* number of cells added to the canvas module
  last      \* the last call: method, operands, flags and result

vars == <<canvas, last>>

Init ==
  /\ canvas = 0
  /\ last = [call |-> NoCall, w |-> 0, res |-> Cell]

Idle == last.call.op = "none"

\* One call; its result r either is folded or adds a cell of width w (the
\* cell's Y_WIDTH) to the canvas.
Call(call, w, r) ==
  /\ Idle
  /\ r.cell => canvas < MaxCells
  /\ canvas' = IF r.cell THEN canvas + 1 ELSE canvas
  /\ last' = [call |-> call, w |-> w, res |-> r]

\* The caller takes the result of the last call.
Return ==
  /\ ~Idle
  /\ last' = [call |-> NoCall, w |-> 0, res |-> Cell]
  /\ UNCHANGED canvas

CallSub ==
  \E a, b \in Signals, isSigned \in BOOLEAN :
    Call(MkCall("Sub", <<a, b>>, isSigned, FALSE, FALSE), MaxOf(Len(a), Len(b)), Sub(a, b, isSigned))

CallDemux ==
  \E a, s \in Signals :
    Call(MkCall("Demux", <<a, s>>, FALSE, FALSE, FALSE), Len(a) * Pow2(Len(s)), Demux(a, s))

CallLogicAnd ==
  \E a, b \in Signals :
    Call(MkCall("LogicAnd", <<a, b>>, FALSE, FALSE, FALSE), 1, LogicAnd(a, b))

CallLogicOr ==
  \E a, b \in Signals :
    Call(MkCall("LogicOr", <<a, b>>, FALSE, FALSE, FALSE), 1, LogicOr(a, b))

CallMux ==
  \E a, b \in Signals, s \in [1 .. 1 -> Bits] :
    /\ Len(a) = Len(b)
    /\ Call(MkCall("Mux", <<a, b, s>>, FALSE, FALSE, FALSE), Len(a), Mux(a, b, s))

CallBwmux ==
  \E a, b, s \in Signals :
    /\ Len(a) = Len(b) /\ Len(a) = Len(s)
    /\ Call(MkCall("Bwmux", <<a, b, s>>, FALSE, FALSE, FALSE), Len(a), Bwmux(a, b, s))

CallShift ==
  \E a, b \in Signals, aSigned, bSigned \in BOOLEAN, w \in 1 .. MaxWidth :
    Call(MkCall("Shift", <<a, b>>, FALSE, aSigned, bSigned), w,
         Shift(a, aSigned, b, bSigned, w))

CallBmux ==
  \E a, s \in Signals :
    /\ Len(a) % Pow2(Len(s)) = 0 /\ Len(a) >= Pow2(Len(s))
    /\ Call(MkCall("Bmux", <<a, s>>, FALSE, FALSE, FALSE), Len(a) \div Pow2(Len(s)), Bmux(a, s))

CallEqWildcard ==
  \E a, b \in Signals :
    /\ Len(a) = Len(b) /\ IsFullyConst(b)
    /\ Call(MkCall("EqWildcard", <<a, b>>, FALSE, FALSE, FALSE), 1, EqWildcard(a, b))

CallBiop ==
  \E type \in BiopOps, a, b \in Signals, isSigned \in BOOLEAN :
    Call(MkCall(type, <<a, b>>, isSigned, isSigned, isSigned), 1,
         Biop(type, a, b, isSigned, isSigned, 1))

Next ==
  \/ CallSub \/ CallDemux \/ CallLogicAnd \/ CallLogicOr \/ CallMux
  \/ CallBwmux \/ CallShift \/ CallBmux \/ CallEqWildcard \/ CallBiop
  \/ Return

Spec == Init /\ [][Next]_vars

(***************************************************************************)
(* Properties.                                                             *)
(***************************************************************************)
Folded == ~last.res.cell

\* Type invariant: the canvas stays within its bound, and every folded
\* result other than Sub's (whose width differs between its two folds and
\* its cell, callers re-extend it) is a signal exactly as wide as the cell
\* the method would otherwise add, so that a caller splicing it into a
\* wider signal (Demux's mask, Bmux's slice) keeps every bit in place.
TypeOK ==
  /\ canvas \in 0 .. MaxCells
  /\ Folded /\ last.call.op /= "Sub" => last.res.sig \in [1 .. last.w -> Bits]

\* Every partial fold of the builder (Demux, LogicAnd, LogicOr, Mux, Bwmux,
\* Shift, Bmux, EqWildcard and Biop's logic_and/logic_or shortcuts) returns
\* a signal that the operator's cell would also be allowed to produce.
FoldRefines ==
  Folded /\ last.call.op \notin {"Sub"} \cup CompareOps => Refines(last.call, last.res.sig)

\* Biop's three-valued carry chain (builder.cc:289-314) folds a comparison
\* with unknown bits only to the value every run of the circuit gives it.
CompareFoldRefines ==
  Folded /\ last.call.op \in CompareOps => Refines(last.call, last.res.sig)

=============================================================================
