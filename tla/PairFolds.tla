----------------------------- MODULE PairFolds ------------------------------
(***************************************************************************)
(* The checks that fold a multiply, an extension, a register copy or a     *)
(* CSET into the arithmetic right after it: as in BitFolds, the producer   *)
(* that opens each, and what it makes of a producer p and the next word w. *)
(***************************************************************************)
EXTENDS BitFolds

\* The fold of a check that stashes a fallback: when the deferral cannot
\* prove p.d dead, p stays and only w becomes word.
FoldOrKeep(p, w, word) ==
  [Fold(p, w, word) EXCEPT !.kept = IF w.d = p.d THEN {} ELSE {<<p, word>>}]

\* ADD or SUB with an unshifted register operand, not setting flags.
PlainArith(w) == w.op \in {"add", "sub"} /\ w.sh = "lsl" /\ w.k = 0

-----------------------------------------------------------------------------
(* Multiplies.                                                             *)

\* The operand a product is added to or subtracted from; ADD of ZR is a copy,
\* SUB from ZR is the negated multiply.
Accumulator(p, w) ==
  {r \in Survivor(p, w, w.op = "add") : w.d # R31 /\ (w.op = "add" => r # R31)}

\* check_mul_add_sub_fold.
MulOpens(w) == w.op = "madd" /\ w.a = R31 /\ w.d # R31
MulFold(p, w) ==
  {Fold(p, w, MulAdd(IF w.op = "sub" THEN "msub" ELSE "madd", w.sf, w.d, p.n, p.m, r)) :
     r \in {r \in Accumulator(p, w) : PlainArith(w) /\ SameWidth(p, w)}}

\* check_widening_mul_add_sub_fold: SMULL and UMULL, an X-form consumer.
Widening == [smaddl |-> [add |-> "smaddl", sub |-> "smsubl"],
             umaddl |-> [add |-> "umaddl", sub |-> "umsubl"]]
WideMulOpens(w) == w.op \in DOMAIN Widening /\ w.a = R31 /\ w.d # R31
WideMulFold(p, w) ==
  {Fold(p, w, MulAdd(Widening[p.op][w.op], TRUE, w.d, p.n, p.m, r)) :
     r \in {r \in Accumulator(p, w) : PlainArith(w) /\ w.sf}}

-----------------------------------------------------------------------------
(* Extensions.                                                             *)

\* SXTB, SXTH, SXTW, and the W forms of UXTB and UXTH.
ExtendOpens(w) == /\ SbfmSext(w) \/ (UbfmZext(w) /\ ~w.sf /\ w.wd \in Exts)
                  /\ w.d # R31 /\ w.n # R31

\* The form that extends its last operand.
Extending == [add |-> "addx", sub |-> "subx", adds |-> "addsx", subs |-> "subsx"]

\* A W write clears the high half, so only a zero-extension may be read wider.
ExtendWidths(p, w) == SameWidth(p, w) \/ (w.sf /\ p.op = "ubfx")

\* check_extend_add_sub_fold: the extension rides on the last operand with a
\* small shift, or a large one shifts all that it added out of the register.
\* Register 31 would become SP.
ExtendFold(p, w) ==
  LET rides == w.k <= ExtShift
      word(r) == IF rides
                 THEN Extended(Extending[w.op], w.sf, w.d, r, p.n,
                               IF p.op = "sbfx" THEN "sxt" ELSE "uxt", p.wd, w.k)
                 ELSE Barrel(w.op, w.sf, w.d, r, p.n, "lsl", w.k)
  IN  {FoldOrKeep(p, w, word(r)) :
         r \in {r \in Survivor(p, w, w.k = 0 /\ w.op \in {"add", "adds"}) :
                  /\ w.op \in ArithOps /\ w.sh = "lsl" /\ ExtendWidths(p, w)
                  /\ w.d # R31 /\ r # R31
                  /\ rides \/ w.k >= Size(w) - p.wd}}

-----------------------------------------------------------------------------
(* Register copies.                                                        *)

RegisterCopy(w) == /\ w.op = "orr" /\ w.n = R31 /\ w.sh = "lsl" /\ w.k = 0
                   /\ w.m # R31 /\ w.d # R31 /\ w.d # w.m

\* A W copy clears the high half of what it writes: only W reads of it see
\* what its source holds.
ReadsCopied(p, w) == p.sf \/ ~w.sf

\* check_reg_copy_chain: a copy back of the whole register is deleted, any
\* other copy of the copy reads the original; the first copy stays.
CopyChain(p, w) ==
  {Replace(IF w.d = p.m THEN <<p>> ELSE <<p, Mov(w.sf, w.d, p.m)>>, {}) :
     x \in {x \in {w} : /\ RegisterCopy(w) /\ w.m = p.d /\ ReadsCopied(p, w)
                        /\ w.d = p.m => w.sf /\ p.sf}}

\* check_copy_add_sub_fold: an adjustment in place of a copy, of SP too.
CopiesSp(w)  == w.op = "addi" /\ w.k = 0 /\ w.n = R31 /\ w.d # R31
CopyOpens(w) == RegisterCopy(w) \/ CopiesSp(w)
CopyAdd(p, w) ==
  {Replace(<<[w EXCEPT !.n = src]>>, {}) :
     src \in {r \in {IF p.op = "addi" THEN R31 ELSE p.m} :
                w.op = "addi" /\ w.k # 0 /\ InPlace(p, w) /\ ReadsCopied(p, w)}}

\* check_sp_mov_overwritten: the next word writes SP without reading it, so
\* p is deleted.
SpMovOpens(w) == w.op = "addi" /\ w.k = 0 /\ w.d = R31
SpMovOverwritten(p, w) ==
  {Replace(<<>>, {}) : x \in {x \in {w} : w.op = "addi" /\ w.d = R31 /\ w.n # R31}}

-----------------------------------------------------------------------------
(* Materialized conditions.                                                *)

\* decode_cset; the condition that gives 1 is the inverse of the field.
CsetOpens(w) == /\ w.op = "csinc" /\ w.n = R31 /\ w.m = R31 /\ w.d # R31
                /\ w.cond \notin Always

\* decode_eor_imm_1 and decode_neg.
InvertsBool(w) == w.op = "eori" /\ w.mask = {0}
NegatesBool(w) == w.op = "sub" /\ w.n = R31 /\ w.sh = "lsl" /\ w.k = 0

\* check_cset_fold, EOR #1 and NEG: 0 or 1 reads the same in either width.
CsetFold(p, w) ==
  {FoldOrKeep(p, w, CSet(w.sf, w.d, Invert[p.cond])) :
     x \in {x \in {w} : InvertsBool(w) /\ w.n = p.d /\ w.d # R31}}
  \cup
  {FoldOrKeep(p, w, Select("csinv", w.sf, w.d, R31, R31, p.cond)) :
     x \in {x \in {w} : NegatesBool(w) /\ w.m = p.d /\ w.d # R31}}
=============================================================================
