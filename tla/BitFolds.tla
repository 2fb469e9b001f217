------------------------------ MODULE BitFolds ------------------------------
(***************************************************************************)
(* The checks that fold shifts, masks, extensions, negations, selects and  *)
(* the degenerate spellings: for each, the producer that opens it, and the *)
(* findings it makes of a producer p and the word w right after it.        *)
(*                                                                         *)
(* A fold is the words that replace the pair, the register that            *)
(* defer_dead_mov is told to prove dead, if any, and the fallback it       *)
(* stashes for when the proof fails, if any: the words that replace the    *)
(* pair whoever reads that register afterwards.                            *)
(***************************************************************************)
EXTENDS Alu

CONSTANT
  Exts       \* the field widths that have SXT/UXT spellings in W (8, 16)
ASSUME ExtsAssumption == Exts \subseteq 1 .. H - 1

-----------------------------------------------------------------------------
(* Decoding.                                                               *)

SameWidth(p, w) == p.sf = w.sf
InPlace(p, w)   == w.d = p.d /\ w.n = p.d

\* AND (immediate), not ANDS: the mask is the low wd bits.
LowMask(w) == /\ w.op = "andi"
              /\ w.mask = Low(Cardinality(w.mask))

\* UXTB, UXTH, UXTW, UBFX #0: the low wd bits, in place.
UbfmZext(w) == w.op = "ubfx" /\ w.k = 0

MovW(w) == w.op = "orr" /\ ~w.sf /\ w.n = R31 /\ w.k = 0

\* A set of positions without a hole.
OneRun(bits) == bits # {} /\ bits = Min(bits) .. Max(bits)

\* An unshifted register consumer; a rotate cannot ride on the arithmetic.
ShiftedRegister(w) == w.op \in ArithOps \cup LogicOps /\ w.k = 0
Commutes(w)        == w.op \in {"add", "adds", "and", "orr", "eor", "ands", "eon"}

\* The operand a fold of p.d into w's last operand leaves: none when both
\* operands or neither are p.d.
Survivor(p, w, swaps) ==
  {r \in {w.n, w.m} : /\ r # p.d
                      /\ \/ w.m = p.d /\ r = w.n
                         \/ swaps /\ w.n = p.d /\ r = w.m}

\* The two-word finding that deletes p; a consumer that overwrites p's
\* destination leaves nothing to prove.
Replace(words, dead) == [rewrite |-> words, dead |-> dead, kept |-> {}]
Fold(p, w, word) == Replace(<<word>>, {p.d} \ {w.d})

-----------------------------------------------------------------------------
(* Shifts and masks.                                                       *)

\* check_lsl_fold: the shift rides on the consumer's last operand.
ShiftOpens(w) == w.op \in ShiftOps /\ w.d # R31
ShiftFold(p, w) ==
  {Fold(p, w, Barrel(w.op, w.sf, w.d, r, p.n, p.op, p.k)) :
     r \in {r \in Survivor(p, w, Commutes(w)) :
              /\ ShiftedRegister(w) /\ SameWidth(p, w) /\ w.d # R31
              /\ ~(w.op \in ArithOps /\ p.op = "ror")
              /\ r # R31}}

\* check_funnel_to_extr: two opposite shifts that tile the register.
FunnelConsumer(w) == w.op \in {"add", "orr", "eor"} /\ w.sh \in {"lsl", "lsr"} /\ w.k # 0
FunnelOpens(w) == w.op \in {"lsl", "lsr"} /\ w.d # R31 /\ w.n # R31
FunnelFold(p, w) ==
  {Fold(p, w, IF p.op = "lsr"
              THEN [Ternary("extr", w.sf, w.d, w.m, p.n) EXCEPT !.k = p.k]
              ELSE [Ternary("extr", w.sf, w.d, p.n, w.m) EXCEPT !.k = w.k]) :
     x \in {x \in {w} :
              /\ FunnelConsumer(w) /\ SameWidth(p, w)
              /\ w.n = p.d /\ w.d # R31 /\ w.m \notin {p.d, R31}
              /\ w.sh # p.op /\ p.k + w.k = Size(w)}}

\* check_lsl_lsr_to_ubfx: up and down again is a field.
BitfieldOpens(w) == w.op = "lsl" /\ w.d # R31
BitfieldFold(p, w) ==
  LET sz == Size(w)
      signed == w.op = "asr"
  IN {Fold(p, w, IF w.k < p.k
                 THEN Field(IF signed THEN "sbfiz" ELSE "ubfiz", w.sf, w.d, p.n,
                            p.k - w.k, sz - p.k)
                 ELSE Field(IF signed THEN "sbfx" ELSE "ubfx", w.sf, w.d, p.n,
                            w.k - p.k, sz - w.k)) :
        x \in {x \in {w} : w.op \in {"lsr", "asr"} /\ SameWidth(p, w) /\ InPlace(p, w)}}

\* Mutant: the width is not capped at the bits the shift leaves.
LsrAndUncapped(p, w) ==
  {Fold(p, w, Field("ubfx", w.sf, w.d, p.n, p.k, wd)) :
     wd \in {wd \in {Cardinality(w.mask)} :
               /\ LowMask(w) /\ SameWidth(p, w) /\ w.n = p.d /\ w.d # R31
               /\ ~(p.op = "asr" /\ wd + p.k > Size(w))}}

\* check_lsr_and_to_ubfx.
LsrAndOpens(w) == w.op \in {"lsr", "asr"} /\ w.d # R31
LsrAndFold(p, w) ==
  {Fold(p, w, Field("ubfx", w.sf, w.d, p.n, p.k, Min({wd, Size(w) - p.k}))) :
     wd \in {wd \in {Cardinality(w.mask)} :
               /\ LowMask(w) /\ SameWidth(p, w) /\ w.n = p.d /\ w.d # R31
               /\ ~(p.op = "asr" /\ wd + p.k > Size(w))}}

\* Mutant: a run that starts at the shift amount is refused.
AndLsrStrict(p, w) ==
  {Fold(p, w, Field("ubfx", w.sf, w.d, p.n, w.k, Max(p.mask) + 1 - w.k)) :
     x \in {x \in {w} :
              /\ w.op = "lsr" /\ SameWidth(p, w) /\ InPlace(p, w)
              /\ Min(p.mask) < w.k /\ w.k <= Max(p.mask)}}

\* check_and_lsr_to_ubfx: the mask is one run, and the shift moves it to the
\* bottom without losing all of it.
AndLsrOpens(w) == w.op = "andi" /\ w.d # R31 /\ OneRun(w.mask)
AndLsrFold(p, w) ==
  {Fold(p, w, Field("ubfx", w.sf, w.d, p.n, w.k, Max(p.mask) + 1 - w.k)) :
     x \in {x \in {w} :
              /\ w.op = "lsr" /\ SameWidth(p, w) /\ InPlace(p, w)
              /\ Min(p.mask) <= w.k /\ w.k <= Max(p.mask)}}

\* The zero-extensions decode_zext_field_producer knows, as the source, the
\* width of the field and whether the result is 64-bit: UXTB and UXTH in W,
\* UXTW, and the W-form MOV, which zero-extends too.
ZextField(w) ==
  {[n |-> w.n, wd |-> w.wd, sf |-> w.sf] :
     x \in {x \in {w} : UbfmZext(w) /\ w.d # R31
                        /\ IF w.sf THEN w.wd = H ELSE w.wd \in Exts}}
  \cup {[n |-> w.m, wd |-> H, sf |-> TRUE] :
     x \in {x \in {w} : MovW(w) /\ w.d # R31 /\ w.m # R31}}

\* check_and_lsr_lsl_fold: a low field, or what an LSR left, moved up.
LowField(w) ==
  IF LowMask(w) /\ w.d # R31
  THEN {[n |-> w.n, wd |-> Cardinality(w.mask), sf |-> w.sf]}
  ELSE ZextField(w)
UpOpens(w) == LowField(w) # {} \/ (w.op = "lsr" /\ w.d # R31)
UpFold(p, w) ==
  LET closes == w.op = "lsl" /\ InPlace(p, w)
  IN {Fold(p, w, Field("ubfiz", w.sf, w.d, f.n, w.k, Min({f.wd, Size(w) - w.k}))) :
        f \in {f \in LowField(p) : closes /\ f.sf = w.sf}}
     \cup {Fold(p, w, Masked("andi", w.sf, w.d, p.n, Low(Size(w)) \ Low(w.k))) :
        x \in {x \in {w} : closes /\ p.op = "lsr" /\ SameWidth(p, w) /\ w.k = p.k}}

\* check_and_orr_shift_bfi: the bits the shifted operand will fill are
\* exactly the ones the mask cleared.
InsertOpens(w) == w.op = "andi" /\ w.d = w.n /\ w.d # R31
InsertFold(p, w) ==
  LET sz == Size(w)
      need == IF w.sh = "lsr" THEN Low(sz) \ Low(sz - w.k) ELSE Low(w.k)
  IN {Fold(p, w, Field(IF w.sh = "lsr" THEN "bfxil" ELSE "bfi", w.sf, w.d, w.m,
                       w.k, sz - w.k)) :
        x \in {x \in {w} :
                 /\ w.op = "orr" /\ w.sh \in {"lsl", "lsr"} /\ w.k # 0
                 /\ SameWidth(p, w) /\ InPlace(p, w)
                 /\ w.m \notin {p.d, R31}
                 /\ p.mask = need}}

-----------------------------------------------------------------------------
(* Extensions and masks in a row.                                          *)

SbfmSext(w) == /\ w.op = "sbfx" /\ w.k = 0
               /\ w.wd \in Exts \cup (IF w.sf THEN {H} ELSE {})

\* The bit from which an SBFM repeats the sign.
SignedFrom(w) ==
  CASE w.op = "sbfx"  -> w.wd
    [] w.op = "sbfiz" -> w.k + w.wd
    [] w.op = "asr"   -> Size(w) - w.k
    [] w.op = "ldr"   -> w.wd

\* check_redundant_sext: extended again, or masked by a zero-extension.
\* LDRSB, LDRSH and LDRSW repeat the sign of what they load.
SextOpens(w) == /\ w.op \in {"sbfx", "sbfiz", "asr"} \/ (w.op = "ldr" /\ w.sh = "sxt")
                /\ w.d # R31 /\ SignedFrom(w) < Size(w)
Again(p, w)  == /\ SbfmSext(w) /\ InPlace(p, w) /\ SameWidth(p, w)
                /\ SignedFrom(p) <= w.wd
ZextWidth(w) == CASE UbfmZext(w) -> {w.wd}
                  [] LowMask(w)  -> {Cardinality(w.mask)}
                  [] MovW(w) /\ w.m = w.d -> {H}
                  [] OTHER -> {}
InPlaceZext(p, w) == w.d = p.d /\ (IF MovW(w) THEN w.m ELSE w.n) = p.d

\* Mutant: the sign-extension may take its source from another register.
DeadSextMoved(p, w) == /\ \E c \in ZextWidth(w) : c <= SignedFrom(p)
                       /\ InPlaceZext(p, w)
                       /\ p.op = "sbfx" /\ p.k = 0

DeadSext(p, w) == /\ \E c \in ZextWidth(w) : c <= SignedFrom(p)
                  /\ InPlaceZext(p, w)
                  /\ p.op = "sbfx" /\ p.k = 0 /\ p.n = p.d
SextFold(p, w) ==
  {Replace(<<p>>, {}) : x \in {x \in {w} : Again(p, w)}} \cup
  {Replace(<<w>>, {}) : x \in {x \in {w} : ~Again(p, w) /\ DeadSext(p, w)}}

\* The roles of check_and_ext_chain: what the word passes through of its
\* source, and whether it repeats the sign above.
SextRole(w) == w.op = "sbfx" /\ w.k = 0
ChainRole(w) == w.op \in {"andi", "andsi"} \/ UbfmZext(w) \/ SextRole(w)
Passes(w) == CASE w.op \in {"andi", "andsi"} -> w.mask
               [] w.op \in {"ubfx", "sbfx"}  -> Low(w.wd)
               [] OTHER -> Low(H)
Source(w) == IF MovW(w) THEN w.m ELSE w.n

\* C leaves P's result as it is.
ConsumerIsNoop(p, c) ==
  CASE ~SextRole(p) /\ ~SextRole(c) -> Passes(p) \subseteq Passes(c)
    [] SextRole(p) /\ SextRole(c)   -> c.wd >= p.wd /\ SameWidth(p, c)
    [] ~SextRole(p) /\ SextRole(c)  -> Passes(p) \subseteq Low(c.wd - 1)
    [] SextRole(p) /\ ~SextRole(c)  -> Low(Size(p)) \subseteq Passes(c)

\* classify_aec: the word that computes C(P(Rs)), if there is one.
Chained(p, c) ==
  LET noop  == ConsumerIsNoop(p, c)
      keeps == Passes(p) \cap Passes(c)
      flags == c.op = "andsi"
      And(sf) == Masked(IF flags THEN "andsi" ELSE "andi", sf, c.d, Source(p), keeps)
      Sext(sf) == Field("sbfx", sf, c.d, p.n, 0, p.wd)
      \* check_redundant_sext's own shape
      DeadInPlace == SextRole(p) /\ p.n = p.d /\ c.d = p.d /\ (UbfmZext(c) \/ LowMask(c))
      Merged == CASE keeps = {} /\ flags  -> {}
                  [] keeps = {} /\ ~flags -> {MovImm(c.sf, c.d, {})}
                  [] keeps \in BitmaskImmediates[Size(c)] -> {And(c.sf)}
                  [] OTHER -> {And(sf) : sf \in {sf \in {FALSE} :
                                 c.sf /\ ~flags /\ keeps \in BitmaskImmediates[H]}}
  IN  IF noop /\ c.d = p.d /\ ~flags THEN {}
      ELSE IF ~noop /\ Passes(c) \subseteq Passes(p)
           THEN IF DeadInPlace THEN {} ELSE {[c EXCEPT !.n = Source(p)]}
      ELSE IF ~SextRole(p) /\ (~SextRole(c) \/ noop) THEN Merged
      ELSE IF flags \/ ~SextRole(p) THEN {}
      ELSE IF SextRole(c) /\ p.wd <= c.wd /\ c.wd <= Size(p) THEN {Sext(c.sf)}
      ELSE IF ~SextRole(c) /\ noop THEN {Sext(p.sf)}
      ELSE {}

\* check_and_ext_chain.
ChainOpens(w) == /\ MovW(w) \/ (ChainRole(w) /\ w.op # "andsi")
                 /\ w.d # R31 /\ Source(w) # R31
ChainFold(p, w) ==
  IF ChainRole(w) /\ w.n = p.d /\ (w.d # R31 \/ w.op = "andsi")
  THEN {Fold(p, w, word) : word \in Chained(p, w)}
  ELSE {}

-----------------------------------------------------------------------------
(* Negations, complements, increments and selects.                         *)

\* A CSEL that selects p's result in one slot becomes op, which applies p's
\* operation to the slot it does not take; from the then slot, the slots are
\* swapped and the condition inverted.
SelectFold(p, w, op, src) ==
  {Fold(p, w, Select(op, w.sf, w.d, r, src, IF w.m = p.d THEN w.cond ELSE Invert[w.cond])) :
     r \in {r \in Survivor(p, w, TRUE) :
              /\ w.op = "csel" /\ SameWidth(p, w) /\ w.d # R31 /\ w.cond \notin Always}}

\* check_neg_add_sub_fold.
NegOpens(w) == w.op = "sub" /\ w.n = R31 /\ w.k = 0 /\ w.d # R31 /\ w.m # R31
NegFold(p, w) ==
  {Fold(p, w, Ternary(IF w.op = "sub" THEN "add" ELSE "sub", w.sf, w.d, r, p.m)) :
     r \in {r \in Survivor(p, w, w.op = "add") :
              /\ w.op \in {"add", "sub"} /\ w.k = 0 /\ SameWidth(p, w)
              /\ w.d # R31 /\ r # R31}}
  \cup SelectFold(p, w, "csneg", p.m)

\* check_mvn_logic_fold.
Inverted == [and |-> "bic", orr |-> "orn", eor |-> "eon", ands |-> "bics"]
MvnOpens(w) == w.op = "orn" /\ w.n = R31 /\ w.k = 0 /\ w.d # R31 /\ w.m # R31
MvnFold(p, w) ==
  {Fold(p, w, Ternary(Inverted[w.op], w.sf, w.d, r, p.m)) :
     r \in {r \in Survivor(p, w, TRUE) :
              /\ w.op \in DOMAIN Inverted /\ w.k = 0 /\ SameWidth(p, w)
              /\ w.d # R31 /\ r # R31}}
  \cup SelectFold(p, w, "csinv", p.m)

\* check_add_one_csel_fold.
AddOneOpens(w) == w.op = "addi" /\ w.k = 1 /\ w.d # R31 /\ w.n # R31
AddOneFold(p, w) == SelectFold(p, w, "csinc", p.n)

-----------------------------------------------------------------------------
(* Words that need no producer.                                            *)

Copy(w)      == Mov(w.sf, w.d, w.n)
Zero(w)      == MovImm(w.sf, w.d, {})
MinusOne(w)  == MovImm(w.sf, w.d, Low(Size(w)))

\* check_self_op: both operands the same.
SelfOp(w) ==
  IF w.k = 0 /\ w.n = w.m /\ w.d # R31 /\ w.n # R31
  THEN CASE w.op \in {"and", "orr"}        -> {<<Copy(w)>>}
         [] w.op \in {"eor", "bic", "sub"} -> {<<Zero(w)>>}
         [] w.op \in {"orn", "eon"}        -> {<<MinusOne(w)>>}
         [] OTHER -> {}
  ELSE {}

\* check_zr_operand_alu: the last operand is ZR.
ZrOperand(w) ==
  IF w.k = 0 /\ w.m = R31 /\ w.n # R31 /\ w.d # R31
  THEN CASE w.op \in {"bic", "orr", "eor", "add", "sub"} -> {<<Copy(w)>>}
         [] w.op = "and" -> {<<Zero(w)>>}
         [] w.op = "orn" -> {<<MinusOne(w)>>}
         [] w.op = "eon" -> {<<Mvn(w.sf, w.d, w.n)>>}
         [] OTHER -> {}
  ELSE {}

\* check_and_lo32_mov.
Lo32Mov(w) ==
  {<<Mov(FALSE, w.d, w.n)>> :
     x \in {x \in {w} : /\ w.sf
                        /\ \/ LowMask(w) /\ Cardinality(w.mask) = H
                           \/ UbfmZext(w) /\ w.wd = H
                        /\ w.d # R31 /\ w.n # R31 /\ w.d # w.n}}

\* check_csel_self.
CselSelf(w) ==
  {<<IF w.n = R31 THEN Zero(w) ELSE Copy(w)>> :
     x \in {x \in {w} : w.op = "csel" /\ w.n = w.m /\ w.d # R31}}

\* check_mov_reg_self: only the X form is a no-op.
MovSelf(w) ==
  {<<>> : x \in {x \in {w} : /\ w.op = "orr" /\ w.sf /\ w.n = R31 /\ w.k = 0
                             /\ w.m = w.d /\ w.d # R31}}

\* check_add_sub_zero: ADD #0 in place is deleted, in either width, unless
\* it completes the ADR before it.
AddSubZero(w, adr) ==
  {IF w.d = w.n THEN <<>> ELSE <<Copy(w)>> :
     x \in {x \in {w} : /\ w.op = "addi" /\ w.k = 0
                        /\ w.d # R31 /\ w.n # R31
                        /\ ~(w.d = w.n /\ \E h \in adr : h.word.d = w.d)}}

Singles(w, adr) ==
  SelfOp(w) \cup ZrOperand(w) \cup Lo32Mov(w) \cup CselSelf(w) \cup MovSelf(w)
  \cup AddSubZero(w, adr)
=============================================================================
