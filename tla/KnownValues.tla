---------------------------- MODULE KnownValues ----------------------------
(***************************************************************************)
(* The known-value engine along straight-line code, and the checks that    *)
(* decide branches, selects, ALU words and masks from it.                  *)
(*                                                                         *)
(* The code applies a word's effects when the next word arrives, so that   *)
(* every check sees the state before the word at hand; nothing reads the   *)
(* engine in between, so here they are applied once the checks have run.   *)
(* A memory of flag setters is tagged with its region's epoch there; here  *)
(* a new region forgets it.                                                *)
(***************************************************************************)
EXTENDS KnownBits

CONSTANTS RepMax     \* KV_REP_MAX: flag setters remembered

ASSUME KnownValuesAssumption == RepMax \in Nat \ {0}

\* known, src and ver are each register's fact, its source and how often it
\* was written; states what NZCV may be, kind what its setter can leave at
\* all; cmp the compare the flags are of; reps earlier setters, rep the one
\* the flags are of.
KvRegion(kv) ==
  [kv EXCEPT !.valid = TRUE, !.known = [r \in Gprs |-> {}], !.states = AnyState,
             !.branched = FALSE, !.kind = AnyState, !.cmp = {}, !.reps = <<>>, !.rep = 0]
KvStart == [valid |-> FALSE, known |-> [r \in Gprs |-> {}], states |-> AnyState,
            branched |-> FALSE, kind |-> AnyState, cmp |-> {}, reps |-> <<>>, rep |-> 0,
            src |-> [r \in Gprs |-> [word |-> NoWord, at |-> 0]], ver |-> [r \in Gprs |-> 0]]

\* kv_sync: the state a word finds.
KvEntered(kv, side) == IF ~kv.valid \/ side THEN KvRegion(kv) ELSE kv

-----------------------------------------------------------------------------
(* kv_record and kv_commit.                                                *)

\* The registers written, and the fact of the result.
KvWrites(w) == IF Pure(w) THEN {LvnOut(w)} \cap Gprs ELSE GprWrites(w)
Result(kv, buf, at, w) ==
  IF Pure(w) THEN (IF LvnOut(w) \in Gprs THEN {KvOpFact(kv, buf, at, w)} ELSE {})
  ELSE {Pinned(n .. W - 1, {}) : n \in ZeroFrom(w)}

Learned(kv, at, w, new) ==
  LET wr == KvWrites(w)
  IN  [kv EXCEPT
         !.known = [r \in Gprs |-> IF r \notin wr THEN @[r] ELSE IF r = w.d THEN new ELSE {}],
         !.src   = [r \in Gprs |-> IF r = w.d /\ new # {} THEN [word |-> w, at |-> at] ELSE @[r]],
         !.ver   = [r \in Gprs |-> IF r \in wr THEN @[r] + 1 ELSE @[r]]]
Wrote(kv, buf, at, w) == Learned(kv, at, w, Result(kv, buf, at, w) \ {Unknown})

\* What the word does to NZCV: {} if it leaves it alone.
FlagEffect(kv, w) ==
  IF Pure(w) THEN (IF SetsFlags(w) THEN {FlagSetter(kv, w)} ELSE {})
  ELSE LET set(states) == {[states |-> states, kind |-> states, cmp |-> {}, rep |-> {}]}
       IN  IF w.op = "fcmp" THEN set(FcmpStates) ELSE IF w.op = "mrs" THEN set(AnyState) ELSE {}

\* The earlier setter a word repeats: its registers are unwritten since.
Repeated(kv, rep) ==
  {i \in DOMAIN kv.reps : kv.reps[i].word = rep.word /\ kv.reps[i].ver = rep.ver}

\* A repeated setter keeps what the branches after the first one learned.
SetFlags(kv, effect) ==
  LET base == [kv EXCEPT !.states = effect.states, !.branched = FALSE,
                         !.kind = effect.kind, !.cmp = effect.cmp, !.rep = 0]
      rep  == CHOOSE x \in effect.rep : TRUE
      same == Repeated(kv, rep)
      kept == IF Len(kv.reps) < RepMax THEN kv.reps ELSE Tail(kv.reps)
  IN  IF effect.rep = {} THEN base
      ELSE IF same # {}
      THEN LET i == CHOOSE j \in same : TRUE
           IN  [base EXCEPT !.states = @ \cap kv.reps[i].states, !.rep = i]
      ELSE [base EXCEPT !.reps = Append(kept, [word |-> rep.word, ver |-> rep.ver,
                                               states |-> effect.states]),
                        !.rep = Len(kept) + 1]

\* Mutant: HI's failure excludes the immediate itself.
RefineStrict(f, k, cond) ==
  IF k.kind = "sub" /\ cond = "hi"
  THEN [f EXCEPT !.uhi[k.sf] = Smaller(@, NatOf[k.imm] - 1)] ELSE f

\* kv_refine_cmp: what a condition that failed says of the register compared.
Refine(f, k, cond) ==
  LET sf   == k.sf
      imm  == NatOf[k.imm]
      simm == SignedNat(imm, sf)
      eq   == IF k.kind = "add" THEN (2^Width(sf) - imm) % 2^Width(sf) ELSE imm
      eqv  == Bits(eq, Width(sf))
      NotEqual == [f EXCEPT !.ulo[sf] = IF @ = eq /\ eq < UMax(sf) THEN eq + 1 ELSE @,
                            !.uhi[sf] = IF @ = eq /\ eq > 0 THEN eq - 1 ELSE @]
      Equal == [f EXCEPT !.ulo[sf] = eq, !.uhi[sf] = eq,
                         !.slo[sf] = SignedNat(eq, sf), !.shi[sf] = SignedNat(eq, sf),
                         !.k0 = (@ \ Mask(sf)) \cup (Mask(sf) \ eqv),
                         !.k1 = (@ \ Mask(sf)) \cup eqv]
  IN IF k.kind = "and"
     THEN IF cond = "ne" THEN [f EXCEPT !.k0 = @ \cup k.imm]
          ELSE IF cond = "eq" /\ Cardinality(k.imm) = 1 THEN [f EXCEPT !.k1 = @ \cup k.imm]
          ELSE f
     ELSE IF cond = "eq" THEN NotEqual
     ELSE IF cond = "ne" THEN Equal
     ELSE IF k.kind = "add" THEN f
     ELSE CASE cond = "cs" -> [f EXCEPT !.uhi[sf] = IF imm # 0 THEN Smaller(@, imm - 1) ELSE @]
            [] cond = "cc" -> [f EXCEPT !.ulo[sf] = Larger(@, imm)]
            [] cond = "hi" -> [f EXCEPT !.uhi[sf] = Smaller(@, imm)]
            [] cond = "ls" -> [f EXCEPT !.ulo[sf] = IF imm < UMax(sf) THEN Larger(@, imm + 1) ELSE @]
            [] cond = "ge" -> [f EXCEPT !.shi[sf] = IF simm > SMin(sf) THEN Smaller(@, simm - 1) ELSE @]
            [] cond = "lt" -> [f EXCEPT !.slo[sf] = Larger(@, simm)]
            [] cond = "gt" -> [f EXCEPT !.shi[sf] = Smaller(@, simm)]
            [] cond = "le" -> [f EXCEPT !.slo[sf] = IF simm < SMax(sf) THEN Larger(@, simm + 1) ELSE @]
            [] OTHER -> f

\* kv_narrowed: a fact that says nothing new keeps its source.
Narrowed(kv, r, f, at, w) ==
  IF f = FactOf(kv, r) THEN kv
  ELSE [kv EXCEPT !.known[r] = {f}, !.src[r] = [word |-> w, at |-> at]]

\* Mutant: the fall-through of a CBZ is taken for its target.
BranchFactTaken(f, w) ==
  IF w.op = "cbz" THEN [f EXCEPT !.k0 = @ \cup Mask(w.sf), !.k1 = @ \ Mask(w.sf)] ELSE f

\* What the fall-through of a compare-and-branch knows of its register.
BranchFact(f, w) ==
  CASE w.op = "cbz"  -> [f EXCEPT !.ulo = [v \in BOOLEAN |->
                                  IF v \in {w.sf, TRUE} THEN Larger(@[v], 1) ELSE @[v]]]
    [] w.op = "cbnz" -> [f EXCEPT !.k0 = @ \cup Mask(w.sf), !.k1 = @ \ Mask(w.sf),
                                  !.ulo[w.sf] = 0, !.uhi[w.sf] = 0,
                                  !.slo[w.sf] = 0, !.shi[w.sf] = 0]
    [] w.op = "tbz"  -> [f EXCEPT !.k1 = @ \cup {w.wd}]
    [] w.op = "tbnz" -> [f EXCEPT !.k0 = @ \cup {w.wd}]

\* The compare the flags are of, while its register is unwritten since.
Current(kv) == {k \in kv.cmp : k.rn # R31 /\ kv.ver[k.rn] = k.ver}

FellThrough(kv, at, w) ==
  IF w.op = "bcond" /\ w.cond \notin Always
  THEN LET left == {s \in kv.states : ~Holds(w.cond, FlagsOf(s))}
           k1   == [kv EXCEPT !.states = left, !.branched = TRUE,
                              !.reps = [i \in DOMAIN @ |-> IF i = kv.rep
                                        THEN [@[i] EXCEPT !.states = left] ELSE @[i]]]
       IN  IF Current(kv) = {} THEN k1
           ELSE LET k == CHOOSE c \in Current(kv) : TRUE
                IN  Narrowed(k1, k.rn, Refine(FactOf(kv, k.rn), k, w.cond), at, w)
  ELSE IF w.op \in CompareBranches /\ w.n # R31
  THEN Narrowed(kv, w.n, BranchFact(FactOf(kv, w.n), w), at, w)
  ELSE kv

Commit(kv, buf, at, w) ==
  IF EndsRegion(w) THEN KvRegion(kv)
  ELSE FellThrough(FoldSet(LAMBDA effect, k : SetFlags(k, effect),
                           Wrote(kv, buf, at, w), FlagEffect(kv, w)), at, w)

-----------------------------------------------------------------------------
(* Decisions: 1 always, 0 never, -1 open.                                  *)

Decide(always, never) == IF always THEN 1 ELSE IF never THEN 0 ELSE -1

\* kv_eval_cmp: the compare's condition, given what is known of its register.
EvalRange(k, f, r, cond) ==
  LET sf   == k.sf
      imm  == NatOf[k.imm]
      simm == SignedNat(imm, sf)
      eq   == IF k.kind = "add" THEN (2^Width(sf) - imm) % 2^Width(sf) ELSE imm
      eqv  == Bits(eq, Width(sf))
      may  == (Mask(sf) \ f.k0) \cap Low(BitsUsed(Bits(r.hi, Width(sf)))) \cap k.imm
      must == f.k1 \cap k.imm
      testStates == {s \in AndStates :
                       /\ "z" \in s => must = {}
                       /\ "z" \notin s => may # {}
                       /\ IF "n" \in s THEN Top(sf) \in may ELSE Top(sf) \notin must}
      mayEqual == /\ eq \in r.lo .. r.hi /\ SignedNat(eq, sf) \in r.slo .. r.shi
                  /\ eqv \cap f.k0 = {} /\ (Mask(sf) \ eqv) \cap f.k1 = {}
  IN  IF EmptyRange(r) \/ f.k0 \cap f.k1 \cap Mask(sf) # {} THEN -1
      ELSE IF r.lo = r.hi
      THEN Decide(Holds(cond, FlagsOf(KvFlags(k.kind, Bits(r.lo, W), k.imm, sf))), TRUE)
      ELSE IF k.kind = "and" THEN EvalStates(cond, testStates)
      ELSE IF cond \in {"eq", "ne"} THEN (IF mayEqual THEN -1 ELSE IF cond = "eq" THEN 0 ELSE 1)
      ELSE IF k.kind = "add" THEN -1
      ELSE CASE cond = "cs" -> Decide(r.lo >= imm, r.hi < imm)
             [] cond = "cc" -> Decide(r.hi < imm, r.lo >= imm)
             [] cond = "hi" -> Decide(r.lo > imm, r.hi <= imm)
             [] cond = "ls" -> Decide(r.hi <= imm, r.lo > imm)
             [] cond = "ge" -> Decide(r.slo >= simm, r.shi < simm)
             [] cond = "lt" -> Decide(r.shi < simm, r.slo >= simm)
             [] cond = "gt" -> Decide(r.slo > simm, r.shi <= simm)
             [] cond = "le" -> Decide(r.shi <= simm, r.slo > simm)
             [] OTHER -> -1
EvalCmp(k, f, cond) == EvalRange(k, f, KvRange(f, k.sf), cond)

\* kv_decide_cond: the setter's operation alone, then the compare with what
\* is known of its register now or was then, then the states left.
ElseDecide(answer, other) == IF answer >= 0 THEN answer ELSE other
DecideCond(kv, cond) ==
  LET fact(k) == IF k \in Current(kv) /\ kv.known[k.rn] # {} THEN FactOf(kv, k.rn) ELSE k.fact
      byCmp   == IF kv.cmp = {} THEN -1
                 ELSE LET k == CHOOSE c \in kv.cmp : TRUE IN EvalCmp(k, fact(k), cond)
  IN  ElseDecide(EvalStates(cond, kv.kind), ElseDecide(byCmp, EvalStates(cond, kv.states)))

\* Whether a CBZ/CBNZ or TBZ/TBNZ is taken.
DecideZero(w, r) ==
  IF ~EmptyRange(r) /\ (r.hi = 0 \/ r.lo > 0)
  THEN (IF (r.hi = 0) = (w.op = "cbz") THEN 1 ELSE 0) ELSE -1
DecideBit(w, f, t) ==
  LET set   == w.wd \in f.k1
      clear == w.wd \in f.k0 \/ (~set /\ t.lo <= t.hi /\ t.hi < 2^w.wd)
  IN  IF clear = set THEN -1 ELSE IF clear = (w.op = "tbz") THEN 1 ELSE 0
DecideCompare(kv, w) ==
  IF w.op \in {"cbz", "cbnz"} THEN DecideZero(w, KvRange(BitsOf(kv, w.n), w.sf))
  ELSE DecideBit(w, BitsOf(kv, w.n), KvRange(BitsOf(kv, w.n), w.wd >= H))

\* check_branch_decided, a branch to the next word aside; AL and NV are not
\* conditions.
BranchDecided(kv, w) ==
  IF w.op \notin Conditionals \/ w.k = 1 \/ (w.op = "bcond" /\ w.cond \in Always) THEN -1
  ELSE IF w.op = "bcond" THEN DecideCond(kv, w.cond) ELSE DecideCompare(kv, w)

\* check_csel_decided: {rewrite} or {}.  Selects that mask to zero in place,
\* and selects on flags a branch has tested, are left alone.
Taken(w, always) ==
  LET MovTo(r) == IF r = R31 THEN <<MoveWide("movz", w.sf, w.d, 0, {})>>
                  ELSE IF r = w.d THEN <<>> ELSE <<Mov(w.sf, w.d, r)>>
      zr == w.m = R31
  IN  IF always THEN MovTo(w.n)
      ELSE CASE w.op = "csel"  -> MovTo(w.m)
             [] w.op = "csinc" -> IF zr THEN <<MoveWide("movz", w.sf, w.d, 0, {0})>>
                                  ELSE <<Shifted("addi", w.sf, w.d, w.m, 1)>>
             [] w.op = "csinv" -> IF zr THEN <<MoveWide("movn", w.sf, w.d, 0, {})>>
                                  ELSE <<Mvn(w.sf, w.d, w.m)>>
             [] w.op = "csneg" -> IF zr THEN MovTo(R31) ELSE <<Ternary("sub", w.sf, w.d, R31, w.m)>>
CselDecided(kv, w) ==
  IF \/ w.op \notin SelectOps \/ w.cond \in Always \/ w.d = R31
     \/ w.op = "csel" /\ w.n = w.m
     \/ w.op = "csel" /\ ((w.m = R31 /\ w.n = w.d) \/ (w.n = R31 /\ w.m = w.d))
     \/ kv.branched
  THEN {}
  ELSE {Taken(w, d = 1) : d \in {DecideCond(kv, w.cond)} \ {-1}}

-----------------------------------------------------------------------------
(* check_const_fold and check_and_known_noop.                              *)

\* decode_ubfm_zext and decode_mov_w_self, with LowMask the in-place zero
\* extensions: the width kept.
UbfxZero(w) == w.op = "ubfx" /\ w.k = 0
ZextWidth(w) == IF UbfxZero(w) THEN {w.wd} ELSE IF LowMask(w) THEN {Cardinality(w.mask)}
                ELSE IF MovWSelf(w) THEN {H} ELSE {}
ZextInPlace(w) == ZextWidth(w) # {} /\ (MovWSelf(w) \/ (w.d = w.n /\ w.d # R31))

\* Shapes of other checks: constants and copies, ADD #0, Rs with Rs, Rm = ZR.
NotFolded(w) ==
  LET shifted == w.op \in (LogicOps \cup ArithOps)
  IN  \/ ~Pure(w) \/ LvnOut(w) \notin Gprs \/ SetsFlags(w) \/ ReadsFlags(w)
      \/ w.op = "adr" \/ w.op \in MoveOps \/ Copy(w)
      \/ w.op \in ImmLogicOps /\ w.n = R31
      \/ w.op = "orr" /\ ~w.sf /\ w.n = R31 /\ w.k = 0
      \/ w.op = "addi" /\ w.k = 0
      \/ shifted /\ w.n = w.m /\ w.k = 0
      \/ (shifted \/ w.op \in MulOps \cup HighOps) /\ w.m = R31 /\ w.n # R31
      \/ ZextInPlace(w)
      \/ \A i \in DOMAIN LvnIn(w) : LvnIn(w)[i] \notin Gprs

\* Mutant: the fold does not ask whether the recompute check took the word.
ConstFoldAlways(kv, buf, at, w, same) ==
  IF NotFolded(w) THEN {}
  ELSE UNION {IF v \in KvValue(kv, w.d, FALSE) THEN {<<>>}
              ELSE IF OneInstructionConstant(v, Size(w)) THEN {<<MovImm(w.sf, w.d, v)>>} ELSE {} :
              v \in Exact(KvOpFact(kv, buf, at, w))}

\* A word whose result is known: deleted if its register holds it, else a
\* MOV.  A recompute is check_value_recompute's, which has just read the word.
ConstFold(kv, buf, at, w, same) ==
  IF NotFolded(w) \/ same THEN {}
  ELSE UNION {IF v \in KvValue(kv, w.d, FALSE) THEN {<<>>}
              ELSE IF OneInstructionConstant(v, Size(w)) THEN {<<MovImm(w.sf, w.d, v)>>} ELSE {} :
              v \in Exact(KvOpFact(kv, buf, at, w))}

\* The bits a register may have set, its range's top bit folded in; {} if
\* nothing is known, the value is, or the facts contradict each other.
Possible(f, g, sf) ==
  IF Exact(f) # {} \/ g.lo > g.hi \/ f.k0 \cap f.k1 # {} THEN {}
  ELSE {(Mask(sf) \ f.k0) \cap Low(BitsUsed(Bits(g.hi, Width(sf))))}
MayBits(kv, r, sf) ==
  IF r = R31 \/ kv.known[r] = {} THEN {}
  ELSE Possible(FactOf(kv, r), KvRange(FactOf(kv, r), sf), sf)

\* An AND or UBFX #0 whose input has no bits outside the mask: deleted in
\* place when the W form's clearing changes nothing, else a MOV.  Directly
\* after the word that bounded its input it is the pair folds', and in place
\* check_redundant_zext's if that knows the bits.
AndKnownNoop(kv, wzx, w, at) ==
  LET mask == IF UbfxZero(w) THEN Low(w.wd) ELSE w.mask
      src  == kv.src[w.n]
      pair == src.at + 1 = at
              /\ (src.word.op \in ImmLogicOps \cup BitfieldOps
                  \/ (src.word.op = "orr" /\ ~src.word.sf /\ src.word.n = R31 /\ src.word.k = 0))
      owned == \E c \in ZextWidth(w) : \E z \in wzx[w.n] : z.from <= c
  IN  IF (w.op # "andi" /\ ~UbfxZero(w)) \/ w.d = R31 \/ w.n = R31 THEN {}
      ELSE IF \/ MayBits(kv, w.n, w.sf) = {}
              \/ \E may \in MayBits(kv, w.n, w.sf) : ~(may \subseteq mask)
              \/ w.sf /\ w.d # w.n /\ mask = Low(H)
              \/ w.d = w.n /\ ~w.sf /\ KvRange(FactOf(kv, w.n), TRUE).hi > UMax(FALSE)
              \/ pair
              \/ w.d = w.n /\ owned
      THEN {}
      ELSE {IF w.d = w.n THEN <<>> ELSE <<Mov(w.sf, w.d, w.n)>>}

-----------------------------------------------------------------------------
(* check_redundant_zext: wzx is each register's zeroing producer.          *)

NoZeros == [r \in Gprs |-> {}]

\* The register an in-place zero extension leaves as it is, and since where.
RedundantZext(wzx, w) ==
  IF ~ZextInPlace(w) THEN {}
  ELSE {z \in wzx[w.d] : \E c \in ZextWidth(w) : z.from <= c}

\* A consumer that changes nothing leaves the fact; any write drops it, and
\* only a transfer that is not a conditional branch drops them all.
ZeroedBy(wzx, w, at) ==
  IF RedundantZext(wzx, w) # {} THEN wzx
  ELSE IF w.op \in Terminal THEN NoZeros
  ELSE [r \in Gprs |->
          IF r = w.d /\ ZeroFrom(w) # {} THEN {[from |-> n, at |-> at] : n \in ZeroFrom(w)}
          ELSE IF r \in GprWrites(w) THEN {} ELSE wzx[r]]
=============================================================================
