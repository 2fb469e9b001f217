----------------------------- MODULE FlagFolds -----------------------------
(***************************************************************************)
(* The checks about NZCV and the words that test it: what opens each, what *)
(* it makes of the word p it holds and the next word w, and what must be   *)
(* dead for that to hold.                                                  *)
(*                                                                         *)
(* A rewrite here has as many words as the window it replaces, a deleted   *)
(* word being a NOP, so that branches keep their targets.  A branch that   *)
(* takes the place of the word before it reaches one word further.         *)
(***************************************************************************)
EXTENDS PairFolds

CONSTANTS
  TestReach,  \* words a TBZ reaches (2^13)
  CondReach,  \* words a B.cond or CBZ reaches (2^18)
  CbReach,    \* words a CB<cc> reaches (2^8)
  CbMax       \* the largest number CB<cc> compares with (63)

Nzcv == "nzcv"
Nop  == Plain("nop")

\* What a check found: the words, the slot its finding is deferred in ("now"
\* for none), what the rewrite no longer writes, the flags it alters, the
\* registers whose high half it takes for zero, the words it falls back to,
\* and what it takes for dead at the target of a branch unproven.
Change(slot, rewrite, spends) ==
  [slot |-> slot, rewrite |-> rewrite, spends |-> spends, changed |-> {}, narrow |-> {},
   kept |-> {}, trusts |-> {}]
At2(p, word, slot, spends) == Change(slot, <<Nop, word>>, spends)
At1(word, slot, spends)    == Change(slot, <<word, Nop>>, spends)
Trusting(change)           == [change EXCEPT !.trusts = {Nzcv}]

Fits(k, reach) == k \in -reach .. reach - 1
Reach(w) == CASE w.op \in {"tbz", "tbnz"} -> TestReach
              [] w.op \in CbOps -> CbReach
              [] OTHER -> CondReach

-----------------------------------------------------------------------------
(* Grades of a word, for the flags and for a register.                     *)

\* classify_liveness.  MSR NZCV and what else is not named are unknown.
FlagGrade(w) ==
  CASE w.op \in {"bcond", "mrs"} \cup SelectOps \cup CondCmpOps \cup CarryOps -> "READ"
    [] w.op \in (FlagOps \ (CondCmpOps \cup CarryOps)) \cup {"fcmp"} -> "OVERWRITE"
    [] w.op = "bl" -> "TERM_SAFE"
    [] w.op \in {"b"} \cup CompareBranches -> "TERM_UNSAFE"
    [] OTHER -> "UNKNOWN"

\* classify_reg_liveness: any transfer ends the line.
RegGrade(w, r) ==
  CASE w.op \in {"bcond", "b", "bl", "svc"} \cup CompareBranches -> "TERM_UNSAFE"
    [] OTHER -> IF ReadsReg(w, r) THEN "READ"
                ELSE IF WritesReg(w, r) THEN "OVERWRITE" ELSE "UNKNOWN"

\* Mutant: the signed conditions do not read V.
CondReadsNoV(cond) ==
  CASE cond \in {"eq", "ne"} -> {"z"}      [] cond \in {"cs", "cc"} -> {"c"}
    [] cond \in {"mi", "pl"} -> {"n"}      [] cond \in {"vs", "vc"} -> {"v"}
    [] cond \in {"hi", "ls"} -> {"c", "z"} [] cond \in {"ge", "lt"} -> {"n"}
    [] cond \in {"gt", "le"} -> {"n", "z"} [] cond \in Always -> {}

\* cond_nzcv_reads: the flags a condition tests.
CondReads(cond) ==
  CASE cond \in {"eq", "ne"} -> {"z"}      [] cond \in {"cs", "cc"} -> {"c"}
    [] cond \in {"mi", "pl"} -> {"n"}      [] cond \in {"vs", "vc"} -> {"v"}
    [] cond \in {"hi", "ls"} -> {"c", "z"} [] cond \in {"ge", "lt"} -> {"n", "v"}
    [] cond \in {"gt", "le"} -> {"n", "z", "v"} [] cond \in Always -> {}

\* The words whose flag reads are those of a condition they name.
NamesCond(w) == w.op \in {"bcond"} \cup SelectOps \cup CondCmpOps
Direct(w)    == w.op \in {"b", "bcond"} \cup CompareBranches
Zeroes(w)    == w.op \in {"cbz", "cbnz"}

-----------------------------------------------------------------------------
(* Decoders.                                                               *)

PlainOperand(w) == w.sh = "lsl" /\ w.k = 0

\* decode_zero_test: CMP or CMN with 0 or ZR, TST of a register with itself.
ZeroTest(w) ==
  /\ w.d = R31 /\ w.n # R31
  /\ \/ w.op \in {"subsi", "addsi"} /\ w.k = 0
     \/ w.op \in {"subs", "adds"} /\ w.m = R31 /\ PlainOperand(w)
     \/ w.op = "ands" /\ w.m = w.n /\ PlainOperand(w)
IsSubs(w)  == w.op \in {"subs", "subsi"}
CmpZero(w) == w.op = "subsi" /\ w.k = 0 /\ w.d = R31 /\ w.n # R31

\* decode_b_eq_or_ne, decode_b_hi_or_ls and decode_b_sign_cond.
Tests(w, conds) == w.op = "bcond" /\ w.cond \in conds

\* decode_non_s_alu and decode_add_sub_non_s_any: what has a flag-setting
\* twin and writes a register.  The twin; the twin that writes ZR.
NonSArith(w) == /\ w.op \in {"add", "sub", "addx", "subx"} \/ (w.op = "addi" /\ w.k # 0)
                /\ w.d # R31
NonSLogic(w) == w.op \in {"and", "bic", "andi"} /\ w.d # R31
Twin == [add |-> "adds", sub |-> "subs", addx |-> "addsx", subx |-> "subsx",
         and |-> "ands", bic |-> "bics", andi |-> "andsi"]
SForm(w) == IF w.op # "addi" THEN [w EXCEPT !.op = Twin[@]]
            ELSE IF w.k > 0 THEN [w EXCEPT !.op = "addsi"]
            ELSE [w EXCEPT !.op = "subsi", !.k = -@]
CompareOf(w) == [w EXCEPT !.d = R31]

\* cmn_swapped_match: the sum of two plain registers, in the other order.
SwappedCmn(s, w) == /\ s.op = "adds" /\ PlainOperand(s)
                    /\ w = CompareOf([s EXCEPT !.n = s.m, !.m = s.n])
SameFlags(s, w)  == w = CompareOf(s) \/ SwappedCmn(s, w)

\* decode_s_variant_alu; any flag-setting ADD or SUB; is_flag_only_compare.
SVariant(w)   == w.op \in FlagOps \ CondCmpOps /\ w.d # R31
FlagArith(w)  == w.op \in {"adds", "subs", "addsi", "subsi", "addsx", "subsx"}
IsFlagOnly(w) == w.op \in CondCmpOps \/ (w.op \in FlagOps \ CarryOps /\ w.d = R31)

\* The compare that follows reads what the word read.
KeepsOperands(w) ==
  w.d # w.n /\ (w.op \notin ImmArithOps => w.d # w.m)

\* decode_csetm; decode_cset is CsetOpens.
Csetm(w) == /\ w.op = "csinv" /\ w.n = R31 /\ w.m = R31 /\ w.d # R31
            /\ w.cond \notin Always

\* decode_tst_single_bit, decode_and_single_bit and decode_bfm_single_bit:
\* the one bit a word isolates.
TstBit(w) == w.op = "andsi" /\ Cardinality(w.mask) = 1 /\ w.d = R31 /\ w.n # R31
OneBit(w) == /\ w.d # R31 /\ w.n # R31
             /\ \/ w.op = "andi" /\ Cardinality(w.mask) = 1
                \/ w.op \in {"ubfx", "sbfx"} /\ w.wd = 1
                \/ w.op \in {"lsr", "asr"} /\ w.k = Size(w) - 1
BitOf(w)  == IF w.op \in ImmLogicOps THEN Max(w.mask) ELSE w.k

-----------------------------------------------------------------------------
(* A test and the branch after it.                                         *)

\* check_cmp_zero_branch: EQ and NE, HI and LS after a SUBS, become CBZ and
\* CBNZ, the sign conditions TBZ and TBNZ of the sign bit.  The flags must
\* be dead at the target.
CmpBranch(p, w, dead) ==
  {At2(p, Branch(IF w.cond \in {"eq", "ls"} THEN "cbz" ELSE "cbnz", p.sf, p.n, 0, w.k),
       "pending", {Nzcv}) :
     x \in {x \in {w} : /\ Tests(w, {"eq", "ne"}) \/ (IsSubs(p) /\ Tests(w, {"hi", "ls"}))
                        /\ Nzcv \in dead}}
  \cup
  {At1(Branch(IF w.cond \in {"mi", "lt"} THEN "tbnz" ELSE "tbz", p.sf, p.n, Size(p) - 1, w.k + 1),
       "pending", {Nzcv}) :
     x \in {x \in {w} : /\ Tests(w, {"mi", "pl", "lt", "ge"})
                        /\ Fits(w.k + 1, TestReach) /\ Nzcv \in dead}}

\* check_tst_branch: takes the flags for dead at the target.
TstBranch(p, w) ==
  {Trusting(At1(Branch(IF w.cond = "eq" THEN "tbz" ELSE "tbnz", p.sf, p.n, BitOf(p), w.k + 1),
                "pending", {Nzcv})) :
     x \in {x \in {w} : Tests(w, {"eq", "ne"}) /\ Fits(w.k + 1, TestReach)}}

\* check_tst_cset: an extract of the bit, at the width that reaches it.
TstCset(p, w) ==
  LET bit == BitOf(p)
  IN  {At2(p, Field(IF Csetm(w) THEN "sbfx" ELSE "ubfx", w.sf \/ bit >= H, w.d, p.n, bit, 1),
           "pending", {Nzcv}) :
         x \in {x \in {w} : /\ CsetOpens(w) \/ (Csetm(w) /\ (w.sf \/ bit < H))
                            /\ \/ Invert[w.cond] = "ne"
                               \/ Invert[w.cond] = "mi" /\ bit = Size(p) - 1}}

\* The branch in place of the producer p, which the second scan must show
\* dead on both edges; or the branch alone, p staying.  A target before the
\* fall-through can never be shown.
Rebind(p, w, word(_), reach, moves) ==
  LET stays == {<<p, word(w.k)>> : x \in {x \in {w} : Fits(w.k, reach)}}
  IN  IF moves /\ w.k >= 1
      THEN {[At1(word(w.k + 1), "tb", {p.d}) EXCEPT !.kept = stays]}
      ELSE {Change("now", ws, {}) : ws \in stays}

\* check_single_bit_cbz: the bit of the source, at the width that holds it.
SingleBit(p, w) ==
  LET test(k) == Branch(IF w.op = "cbnz" THEN "tbnz" ELSE "tbz", BitOf(p) >= H, p.n, BitOf(p), k)
  IN  IF Zeroes(w) /\ w.n = p.d /\ (w.sf \/ BitOf(p) < H)
      THEN Rebind(p, w, test, TestReach, Fits(w.k + 1, TestReach)) ELSE {}

\* check_cset_fold (a): the condition itself, at either width.
CsetBranch(p, w) ==
  LET test(k) == BCond(IF w.op \in {"cbnz", "tbnz"} THEN Invert[p.cond] ELSE p.cond, k)
  IN  IF w.n = p.d /\ (Zeroes(w) \/ (w.op \in {"tbz", "tbnz"} /\ w.wd = 0))
      THEN Rebind(p, w, test, CondReach, w.k + 1 < CondReach) ELSE {}

\* check_neg_cbz: -x is zero when x is.  Out of place the negation must be
\* dead on both edges, in place only where x is not zero.
NegOpensTest(w) == /\ w.op = "sub" /\ w.n = R31 /\ PlainOperand(w)
                   /\ w.d # R31 /\ w.m # R31
NegBranch(p, w, dead) ==
  LET apart == p.d # p.m
  IN  {At2(p, [w EXCEPT !.n = p.m], IF apart \/ w.op = "cbz" THEN "mz" ELSE "now", {p.d}) :
         x \in {x \in {w} : /\ Zeroes(w) /\ w.n = p.d /\ w.sf = p.sf
                            /\ apart \/ w.op = "cbnz" => p.d \in dead}}

\* check_cmpbr_fold: a comparison of two registers or with a small number,
\* where no baseline fold applies.
CbOpens(w) == /\ w.d = R31 /\ w.n # R31
              /\ (w.op = "subs" /\ PlainOperand(w)) \/ w.op = "subsi"
CbImm(w)   == w.op = "subsi" \/ w.m = R31
CbConds    == Conds \ ({"mi", "pl", "vs", "vc"} \cup Always)

\* Mutant: after a compare with zero, HI and LS too.
CbComparesZero(cond, k) ==
  CASE k = 0 -> cond \in {"gt", "le", "hi"}
    [] cond \in {"cs", "ge"} -> k \in 1 .. CbMax + 1
    [] cond \in {"ls", "le"} -> k \in 1 .. CbMax - 1
    [] OTHER -> k \in 1 .. CbMax

\* cmpbr_imm_encodable and cmpbr_zero_cond_reserved.
CbCompares(cond, k) ==
  CASE k = 0 -> cond \in {"gt", "le"}
    [] cond \in {"cs", "ge"} -> k \in 1 .. CbMax + 1
    [] cond \in {"ls", "le"} -> k \in 1 .. CbMax - 1
    [] OTHER -> k \in 1 .. CbMax
CbBranch(p, w, dead) ==
  {At1(IF CbImm(p) THEN CompareBranch("cbi", p.sf, p.n, R31, p.k, w.cond, w.k + 1)
       ELSE CompareBranch("cb", p.sf, p.n, p.m, 0, w.cond, w.k + 1),
       "cbr", {Nzcv}) :
     x \in {x \in {w} : /\ Tests(w, CbConds) /\ Fits(w.k + 1, CbReach)
                        /\ CbImm(p) => CbCompares(w.cond, p.k)
                        /\ Nzcv \in dead}}

\* check_branch_to_next.
BranchToNext(w) ==
  {Change("now", <<Nop>>, {}) : x \in {x \in {w} : Direct(w) /\ w.k = 1}}

-----------------------------------------------------------------------------
(* A compare and the select after it.                                      *)

\* check_cmp_cset_sign.
SignCset(p, w) ==
  {At2(p, Shifted(IF Csetm(w) THEN "asr" ELSE "lsr", w.sf, w.d, p.n, Size(w) - 1), "sgn", {Nzcv}) :
     x \in {x \in {w} : /\ CsetOpens(w) \/ Csetm(w)
                        /\ SameWidth(p, w) /\ Invert[w.cond] \in {"mi", "lt"}}}

\* check_cssc_minmax: the operand selected when it wins is the maximum, the
\* other order the minimum.
CmxOpens(w) == w.op = "subs" /\ w.d = R31 /\ PlainOperand(w) /\ w.n # w.m
MaxOf == [c \in {"ge", "gt"} |-> "smax"] @@ [c \in {"lt", "le"} |-> "smin"]
         @@ [c \in {"cs", "hi"} |-> "umax"] @@ [c \in {"cc", "ls"} |-> "umin"]
Opposite == [smax |-> "smin", smin |-> "smax", umax |-> "umin", umin |-> "umax"]
MinMax(p, w) ==
  {At2(p, Ternary(IF w.n = p.n THEN MaxOf[w.cond] ELSE Opposite[MaxOf[w.cond]],
               w.sf, w.d, p.n, p.m), "cssc", {Nzcv}) :
     x \in {x \in {w} : /\ w.op = "csel" /\ SameWidth(p, w) /\ w.d # R31
                        /\ {<<w.n, w.m>>} \subseteq {<<p.n, p.m>>, <<p.m, p.n>>}
                        /\ w.cond \in DOMAIN MaxOf}}

\* check_cssc_abs.
AbsSelect(p, w) ==
  {At2(p, Word("abs", w.sf, w.d, p.n), "cssc", {Nzcv}) :
     x \in {x \in {w} : /\ w.op = "csneg" /\ SameWidth(p, w) /\ w.d # R31
                        /\ w.n = p.n /\ w.m = p.n /\ w.cond \in {"pl", "ge", "gt"}}}

-----------------------------------------------------------------------------
(* An operation and a compare of its operands.                             *)

\* check_sub_cmp_fold, the operation first and the compare first.
SubCmp(p, w) ==
  {Change("now", <<SForm(p), Nop>>, {}) :
     x \in {x \in {w} : SameFlags(SForm(p), w) /\ KeepsOperands(p)}}
CmpSub(p, w) ==
  {Change("now", <<Nop, SForm(w)>>, {}) :
     x \in {x \in {w} : NonSArith(w) /\ SameFlags(SForm(w), p)}}

\* check_subs_cmp_redundant.
SubsCmp(p, w) ==
  {Change("now", <<p, Nop>>, {}) : x \in {x \in {w} : SameFlags(p, w) /\ KeepsOperands(p)}}

\* check_dead_compare.
DeadCompare(w) == {Change("dc", <<Nop>>, {Nzcv}) : x \in {x \in {w} : IsFlagOnly(w)}}

\* check_cmp_cmn_w: a constant 2^H - k, and a compare with it of a register
\* whose high half is zero.
Blank == [x |-> [r \in Gprs |-> {}], flags |-> {}, sp |-> {}, mem |-> {}]
ConstantOf(w) == Outcome(Blank, w, Size(w)).v
CwcOpens(w) ==
  /\ w.op \in {"movz", "movn", "mov"} /\ w.d # R31
  /\ LET v == NatOf[ConstantOf(w)]
     IN  v \in 1 .. 2^H - 1 /\ AddSubEncodable(2^H - v)
CmpCmn(p, w) ==
  {[At2(p, Shifted("addsi", FALSE, R31, w.n, 2^H - NatOf[ConstantOf(p)]), "cwc", {Nzcv, p.d})
      EXCEPT !.narrow = {w.n}, !.changed = {"n", "v"}] :
     x \in {x \in {w} : /\ w.op = "subs" /\ w.sf /\ w.d = R31 /\ PlainOperand(w)
                        /\ w.m = p.d /\ w.n # p.d /\ w.n # R31}}

-----------------------------------------------------------------------------
(* A compare with a constant that overflows, or of a masked field.         *)

\* x - y with y in a register: the compare of two registers.
ComparesTwo(w) == w.op = "subs" /\ w.d = R31 /\ PlainOperand(w)

\* A move-wide chain: a MOVZ or MOVN and the MOVKs that follow it into its
\* register; and the constant it leaves there.
MoveChain(ws) ==
  /\ ws # <<>> /\ ws[1].op \in {"movz", "movn"} /\ ws[1].d # R31
  /\ \A i \in 2 .. Len(ws) : ws[i].op = "movk" /\ ws[i].d = ws[1].d
ChainConstant(ws) == Run(Blank, ws).x[ws[1].d]

\* check_mov_cmp_branch_bvs (open): a compare with INT_MIN or INT_MAX, on
\* either side; the compare that overflows for that value alone.  The chain
\* is of one width, the compare's.
Overflowing(sf, n, max) == IF max THEN Shifted("addsi", sf, R31, n, 1) ELSE Cmp(sf, R31, n)
Extremes(ws, w) ==
  {[rc |-> ws[1].d, max |-> x[2], test |-> Overflowing(w.sf, x[1], x[2])] :
     x \in {x \in Gprs \X BOOLEAN :
              /\ MoveChain(ws) /\ ComparesTwo(w) /\ \A i \in DOMAIN ws : SameWidth(ws[i], w)
              /\ x[1] # ws[1].d /\ {w.n, w.m} = {x[1], ws[1].d}
              /\ ChainConstant(ws) = IF x[2] THEN Low(Size(w) - 1) ELSE {Size(w) - 1}}}

\* What reads Z of such a compare reads V instead; a CCMP with the constant
\* becomes one that overflows, and its failure flags move from Z to V.
OverflowCond(w) == [w EXCEPT !.cond = IF @ = "eq" THEN "vs" ELSE "vc"]
ReadsZ(w, rc) ==
  \/ Tests(w, {"eq", "ne"})
  \/ w.op \in SelectOps /\ w.cond \in {"eq", "ne"} /\ rc \notin {w.n, w.m}
LinksZ(h, w) ==
  /\ w.op = "ccmp" /\ w.cond \in {"eq", "ne"} /\ SameWidth(h.test, w)
  /\ w.m = h.rc /\ w.n \notin {h.rc, R31}
OverflowLink(h, w) ==
  LET nzcv == (w.mask \cap {3, 1}) \cup {i - 2 : i \in w.mask \cap {2}}
      c    == OverflowCond(w).cond
  IN  IF h.max THEN CondCmpImm("ccmni", w.sf, w.n, 1, c, nzcv)
      ELSE CondCmp("ccmp", w.sf, R31, w.n, c, nzcv)

\* check_and_mov_cmp_ubfx (open): p masks rt to one run of bits above bit 0,
\* the chain ws, of any widths, sets rc to a constant inside it that is a
\* compare immediate only once shifted down; w compares the two, in either
\* order.
Lowered(bits, mask) == {i - Min(mask) : i \in bits}
MaskedField(p, ws, w) ==
  /\ p.op = "andi" /\ SameWidth(p, w) /\ MoveChain(ws)
  /\ ComparesTwo(w) /\ p.d # ws[1].d /\ {w.n, w.m} = {p.d, ws[1].d} /\ R31 \notin {w.n, w.m}
  /\ p.n \notin {R31, ws[1].d} /\ OneRun(p.mask) /\ 0 \notin p.mask
  /\ LET c == ChainConstant(ws) \cap Low(Size(w))
     IN  /\ c # {} /\ c \subseteq p.mask
         /\ ~AddSubEncodable(NatOf[c])
         /\ Size(w) - 1 \in c => ~AddSubEncodable(2^Size(w) - NatOf[c])
         /\ AddSubEncodable(NatOf[Lowered(c, p.mask)])
Extracted(p) == Field("ubfx", p.sf, p.d, p.n, Min(p.mask), Cardinality(p.mask))

\* The conditions that read the same of two numbers and of the two shifted.
FieldConds(top) == IF top THEN {"eq", "ne", "cs", "cc", "hi", "ls"} ELSE Conds \ Always
FieldReader(h, w) ==
  /\ w.op = "bcond" \/ (w.op \in SelectOps /\ {w.n, w.m} \cap {h.rt, h.rc} = {})
  /\ w.cond \in FieldConds(h.top)
=============================================================================
