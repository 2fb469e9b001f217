------------------------------- MODULE Flags -------------------------------
(***************************************************************************)
(* The flag checks at work on a buffer, with the deferred findings they    *)
(* open: at each word the deferred findings advance, then every check      *)
(* closes on what it holds and holds the word if it is its producer.       *)
(*                                                                         *)
(* A deferred finding waits in a slot of one for its proof that what the   *)
(* rewrite no longer writes is dead.  Scans run down the fall-through; at  *)
(* a branch out of the buffer some ask the walk from its target, whose     *)
(* verdict (TargetWalk) is here what the step chooses: what is dead there. *)
(***************************************************************************)
EXTENDS FlagFolds

CONSTANTS
  Window,    \* LIVENESS_WINDOW
  MaxLinks,  \* CCC_MAX_LINKS: compares of a chain a finding can show
  ZsGap,     \* ZS_GAP_MAX
  Machines,  \* the machine states to execute findings from
  Families   \* the buffers to read: for each, the words of each position

VARIABLES
  family,    \* which buffers this behaviour reads
  buf,       \* the words read
  dead,      \* for each, what is dead at its target outside the buffer
  held,      \* per pair check: the word before, if its producer
  svc,       \* sv_cmp_*: a flag-setting word and the zero test after it
  zs,        \* zs_*: a word with a flag-setting twin, and the gap since
  crc,       \* crc_*: a CSET, and whether the word before tests its result
  ccc,       \* ccc_*: a compare and the conditional compares after it
  bvs,       \* bvs_*: a compare with an extreme, and a CCMP after it
  umc,       \* umc_*: a compare of a masked field with a constant
  slots,     \* pending_*: the deferred findings
  out        \* the findings

vars == <<family, buf, dead, held, svc, zs, crc, ccc, bvs, umc, slots, out>>

At      == Len(buf) + 1
Here(w) == [word |-> w, at |-> At]
Finding(start, change, rewrite) ==
  [start |-> start, rewrite |-> rewrite, spends |-> change.spends, narrow |-> change.narrow,
   trusts |-> change.trusts, kept |-> FALSE]
Kept(f, ws) == [f EXCEPT !.rewrite = ws, !.spends = {}, !.trusts = {}, !.kept = TRUE]
Emit(findings) == {[f |-> f, at |-> At] : f \in findings}

-----------------------------------------------------------------------------
(* The pairs.                                                              *)

Pairs == {"cmp", "tst", "tbf", "ncb", "cset", "sgn", "cbr", "alu", "cmn", "rcs",
          "sv", "cmx", "cab", "cwc"}
Opens(t, w) ==
  CASE t = "cmp"  -> ZeroTest(w)    [] t = "tst" -> TstBit(w)
    [] t = "tbf"  -> OneBit(w)      [] t = "ncb" -> NegOpensTest(w)
    [] t = "cset" -> CsetOpens(w)   [] t = "sgn" -> CmpZero(w)
    [] t = "cbr"  -> CbOpens(w)     [] t = "alu" -> NonSArith(w)
    [] t = "cmn"  -> FlagArith(w) /\ w.d = R31
    [] t = "rcs"  -> FlagArith(w)   [] t = "sv"  -> SVariant(w)
    [] t = "cmx"  -> CmxOpens(w)    [] t = "cab" -> CmpZero(w)
    [] t = "cwc"  -> CwcOpens(w)
Closes(t, p, w, v) ==
  CASE t = "cmp"  -> CmpBranch(p, w, v)
    [] t = "tst"  -> TstBranch(p, w) \cup TstCset(p, w)
    [] t = "tbf"  -> SingleBit(p, w)     [] t = "ncb" -> NegBranch(p, w, v)
    [] t = "cset" -> CsetBranch(p, w)    [] t = "sgn" -> SignCset(p, w)
    [] t = "cbr"  -> CbBranch(p, w, v)   [] t = "alu" -> SubCmp(p, w)
    [] t = "cmn"  -> CmpSub(p, w)        [] t = "rcs" -> SubsCmp(p, w)
    [] t = "cmx"  -> MinMax(p, w)        [] t = "cab" -> AbsSelect(p, w)
    [] t = "cwc"  -> CmpCmn(p, w)        [] t = "sv"  -> {}

\* Every word expires every pair, or opens it anew.
Hold(w) == held' = [t \in Pairs |-> IF Opens(t, w) THEN {Here(w)} ELSE {}]

\* What a check found, from where.
From(start, changes) == {[start |-> start, c |-> c] : c \in changes}
PairChanges(w, v) ==
  UNION {UNION {From(h.at, Closes(t, h.word, w, v)) : h \in held[t]} : t \in Pairs}
SingleChanges(w) == From(At, DeadCompare(w) \cup BranchToNext(w))

-----------------------------------------------------------------------------
(* check_redundant_cmp_after_s_variant: a flag-setting word, a zero test   *)
(* of its result, B.EQ or B.NE.                                            *)

HoldTest(w) ==
  svc' = {h \in held["sv"] : ZeroTest(w) /\ w.n = h.word.d /\ SameWidth(h.word, w)}
TestChanges(w) ==
  UNION {From(h.at, {Trusting(Change("sv", <<h.word, Nop, w>>, {Nzcv})) :
                       x \in {x \in {w} : Tests(w, {"eq", "ne"})}}) : h \in svc}

-----------------------------------------------------------------------------
(* check_zero_cmp_to_s_variant: a word with a flag-setting twin, and a     *)
(* zero test of its result after a gap.                                    *)

ClosesTwin(h, w) == ZeroTest(w) /\ w.n = h.word.d /\ SameWidth(h.word, w)

\* A word that leaves the flags and the result alone.  The classifier knows
\* neither MSR nor the SVE and SME spaces, PTEST for one, to set the flags.
GapKeeps(h, w) ==
  /\ h.gap < ZsGap /\ FlagGrade(w) = "UNKNOWN" /\ w.op \notin {"msr", "ptest"}
  /\ ~WritesReg(w, h.word.d)

HoldTwin(w) ==
  zs' = IF NonSArith(w) \/ NonSLogic(w) THEN {[word |-> w, at |-> At, gap |-> 0]}
        ELSE {[h EXCEPT !.gap = @ + 1] : h \in {h \in zs : ~ClosesTwin(h, w) /\ GapKeeps(h, w)}}

\* The flags the twin sets otherwise than the test would.
Diverging(s, w) ==
  IF NonSArith(s) THEN {"c", "v"} ELSE IF IsSubs(w) THEN {"c"} ELSE {}
TwinChanges(w) ==
  UNION {LET rewrite == <<SForm(h.word)>> \o SubSeq(buf, h.at + 1, Len(buf)) \o <<Nop>>
             alters  == Diverging(h.word, w)
         IN  From(h.at, {IF alters = {} THEN Change("now", rewrite, {})
                         ELSE [Trusting(Change("zs", rewrite, {Nzcv})) EXCEPT !.changed = alters]}) :
         h \in {h \in zs : ClosesTwin(h, w)}}

-----------------------------------------------------------------------------
(* check_cset_recompare: a CSET, a zero test of its result while the flags *)
(* it read still stand, and a select on EQ or NE.                          *)

\* Mutant: it is never given up for its age.
CsetStandsLong(h, w) ==
  FlagGrade(w) \in {"READ", "UNKNOWN"} /\ ~WritesReg(w, h.word.d)

\* The CSET is given up where the flags or its result are written, where   *)
\* control leaves for good, and when Window words have passed.
CsetStands(h, w) ==
  /\ FlagGrade(w) \in {"READ", "UNKNOWN"} /\ ~WritesReg(w, h.word.d) /\ h.window > 1
HoldCset(w) ==
  crc' = IF CsetOpens(w) THEN {[word |-> w, at |-> At, window |-> Window, tested |-> FALSE]}
         ELSE {[h EXCEPT !.tested = TRUE] :
                 h \in {h \in crc : ~h.tested /\ ZeroTest(w) /\ w.n = h.word.d}}
              \cup
              {[h EXCEPT !.window = @ - 1] :
                 h \in {h \in crc : /\ ~h.tested /\ ~(ZeroTest(w) /\ w.n = h.word.d)
                                    /\ CsetStands(h, w)}}
CsetChanges(w) ==
  UNION {From(h.at,
           {Change("crc", SubSeq(buf, h.at, Len(buf) - 1)
                          \o <<Nop, [w EXCEPT !.cond = IF @ = "eq" THEN h.word.cond
                                                       ELSE Invert[h.word.cond]]>>, {Nzcv}) :
              x \in {x \in {w} : w.op \in SelectOps /\ w.cond \in {"eq", "ne"}}}) :
         h \in {h \in crc : h.tested}}

-----------------------------------------------------------------------------
(* check_ccmp_chain: is there one compare that decides what the chain      *)
(* decides?                                                                *)

Links(w) == w.op \in CondCmpImmOps
HoldChain(w) ==
  LET extended == {h \in ccc : Links(w) /\ w.n = h.links[1].n /\ SameWidth(h.links[1], w)}
  IN  ccc' = IF extended # {}
             THEN {[h EXCEPT !.links = Append(@, w)] : h \in {h \in extended : Len(h.links) < MaxLinks}}
             ELSE IF w.op \in {"subsi", "addsi"} /\ w.d = R31 /\ w.n # R31
             THEN {[at |-> At, links |-> <<w>>]} ELSE {}

\* ccc_compare: the flags of CMP and CMN of x with k in s bits.
CccCompare(x, k, s, cmn) ==
  LET r == (IF cmn THEN x + k ELSE x - k) % (2^s)
      Neg(y) == y >= 2^(s - 1)
  IN  [n |-> Neg(r), z |-> r = 0,
       c |-> IF cmn THEN x + k >= 2^s ELSE x >= k,
       v |-> Neg(x) # Neg(r) /\ (IF cmn THEN Neg(k) # Neg(r) ELSE Neg(x) # Neg(k))]
IsCmn(l)      == l.op \in {"addsi", "ccmni"}
Otherwise(l)  == [n |-> 3 \in l.mask, z |-> 2 \in l.mask, c |-> 1 \in l.mask, v |-> 0 \in l.mask]
ChainFlags(links, x) ==
  LET Compared(l) == CccCompare(x, l.k, Size(l), IsCmn(l))
  IN  FoldLeft(LAMBDA f, l : IF Holds(l.cond, f) THEN Compared(l) ELSE Otherwise(l),
               Compared(Head(links)), Tail(links))

\* The register values a compare of each link is about.
ChainWidth(links) == Size(Head(links))
LinkValues(links) ==
  {(IF IsCmn(links[i]) THEN -links[i].k ELSE links[i].k) % (2^ChainWidth(links)) : i \in DOMAIN links}

\* Mutant: only the values themselves are tried.
CandidatesOnly(links) == LinkValues(links) \cup {0}

\* The values a single compare may be about: within two of a link's, and 0.
Candidates(links) ==
  {(v + d) % (2^ChainWidth(links)) : v \in LinkValues(links), d \in -2 .. 2} \cup {0}

\* Where the flags of a link or of a candidate can change, with neighbours.
Points(links) ==
  LET s == ChainWidth(links)
      half == 2^(s - 1)
  IN  {0, 1, half - 1, half, half + 1, 2^s - 1}
      \cup {(t + d + e) % (2^s) :
              t \in LinkValues(links) \cup Candidates(links), d \in -1 .. 1, e \in {0, half}}
Single(k, cmn, cond) == [k |-> k, cmn |-> cmn, cond |-> cond]
RealConds == Conds \ Always

\* ccc_single_compare: the compares and conditions that agree with the chain
\* at every point; none when the chain decides nothing.
SingleCompares(links, cond) ==
  LET s    == ChainWidth(links)
      pts  == Points(links)
      want == {x \in pts : Holds(cond, ChainFlags(links, x))}
  IN  {d \in {Single((IF cmn THEN -v ELSE v) % (2^s), cmn, c) :
                v \in Candidates(links), cmn \in BOOLEAN, c \in RealConds} :
         /\ want \notin {{}, pts} /\ d.k < 2^ImmBits
         /\ \A x \in pts : (x \in want) = Holds(d.cond, CccCompare(x, d.k, s, d.cmn))}

\* The compare in place of the last link, and the reader on its condition; a
\* compare with 0 before a branch on EQ or NE is CBZ or CBNZ.
SingleRewrite(links, w, d) ==
  LET p == Head(links)
      compare == Shifted(IF d.cmn THEN "addsi" ELSE "subsi", p.sf, R31, p.n, d.k)
      zero == w.op = "bcond" /\ d.k = 0 /\ d.cond \in {"eq", "ne"}
  IN  [i \in 1 .. Len(links) - 1 |-> Nop]
      \o IF zero THEN <<Nop, Branch(IF d.cond = "eq" THEN "cbz" ELSE "cbnz", p.sf, p.n, 0, w.k)>>
         ELSE <<compare, [w EXCEPT !.cond = d.cond]>>
Decides(h, w, v) ==
  /\ Len(h.links) >= 2 /\ w.op \in {"bcond"} \cup SelectOps /\ w.cond \in RealConds
  /\ w.op = "bcond" => Nzcv \in v
ChainChanges(w, v) ==
  UNION {From(h.at, {Change("ccc", SingleRewrite(h.links, w, d), {Nzcv}) :
                       d \in SingleCompares(h.links, w.cond)}) :
         h \in {h \in ccc : Decides(h, w, v)}}

-----------------------------------------------------------------------------
(* check_mov_cmp_branch_bvs: a compare with INT_MIN or INT_MAX, perhaps a  *)
(* CCMP with the same register, and what reads Z.                          *)

Linked(w)   == {[h EXCEPT !.words = Append(@, OverflowLink(h, w)), !.linked = TRUE] :
                  h \in {h \in bvs : ~h.linked /\ LinksZ(h, w)}}
Extreme(w)  == UNION {{[at |-> i, rc |-> x.rc, max |-> x.max, test |-> x.test, linked |-> FALSE,
                        words |-> Append([j \in 1 .. Len(buf) - i + 1 |-> Nop], x.test)] :
                         x \in Extremes(SubSeq(buf, i, Len(buf)), w)} : i \in DOMAIN buf}
HoldExtreme(w) == bvs' = Linked(w) \cup Extreme(w)

\* What a select overwrites needs no proof, and the branch's own target gets none.
Settling(slot, words, w, regs) ==
  [Change(slot, words, {Nzcv} \cup (IF w.op = "bcond" THEN regs ELSE regs \ {w.d}))
     EXCEPT !.trusts = IF w.op = "bcond" THEN {Nzcv} \cup regs ELSE {}]
ExtremeChanges(w) ==
  UNION {From(h.at, {Settling("bvs", Append(h.words, OverflowCond(w)), w, {h.rc})}) :
         h \in {h \in bvs : ReadsZ(w, h.rc)}}

-----------------------------------------------------------------------------
(* check_and_mov_cmp_ubfx: the mask and the constant are looked for among  *)
(* the words before the compare, and what reads the flags follows it.      *)

\* The words among the last Window that are neither the mask, at a, nor of
\* the chain, from c to e, and come after the first of these: they neither
\* touch a register compared nor transfer control.
Bystanders(a, c, e, w) ==
  \A i \in Min({a, c}) + 1 .. Len(buf) :
    i = a \/ i \in c .. e
    \/ /\ RegGrade(buf[i], w.n) = "UNKNOWN" /\ RegGrade(buf[i], w.m) = "UNKNOWN"
       /\ FlagGrade(buf[i]) \notin {"TERM_SAFE", "TERM_UNSAFE"}
Behind == {i \in DOMAIN buf : i > Len(buf) - Window}
FieldCompare(w) ==
  {LET first == Min({x[1], x[2]})
       p     == buf[x[1]]
       ws    == SubSeq(buf, x[2], x[3])
       c     == Lowered(ChainConstant(ws) \cap Low(Size(w)), p.mask)
       Now(i) == CASE i = x[1] -> Extracted(p) [] i \in x[2] .. x[3] -> Nop [] OTHER -> buf[i]
   IN  [at |-> first, rt |-> p.d, rc |-> ws[1].d, top |-> Size(w) - 1 \in p.mask,
        words |-> Append([i \in 1 .. Len(buf) - first + 1 |-> Now(first + i - 1)],
                         CmpImm(w.sf, p.d, NatOf[c]))] :
     x \in {x \in Behind \X Behind \X Behind :
              /\ MaskedField(buf[x[1]], SubSeq(buf, x[2], x[3]), w)
              /\ Bystanders(x[1], x[2], x[3], w)}}
HoldField(w) == umc' = FieldCompare(w)

\* The slot is shared with the check above, which comes first.
FieldChanges(w, free) ==
  UNION {From(h.at, {Settling("bvs", Append(h.words, w), w, {h.rt, h.rc})}) :
         h \in {h \in umc : FieldReader(h, w) /\ free}}

-----------------------------------------------------------------------------
(* The deferred findings.                                                  *)

Slots == {"pending", "dc", "sv", "zs", "cssc", "sgn", "cbr", "ccc", "cwc", "bvs", "mz", "tb", "crc"}

\* A deferred finding: what its proof must still show dead, the flags the
\* rewrite alters, where its branch leads, and what it falls back to.
Pend(x, w) ==
  LET f == Finding(x.start, x.c, x.c.rewrite)
  IN  [f |-> f, window |-> Window, changed |-> x.c.changed, open |-> x.c.spends,
       fallback |-> {Kept(f, ws) : ws \in x.c.kept}, ft |-> At + 1, target |-> At + w.k]

\* What the grade of a word does to a proof.
Verdict(grade, proofs) ==
  IF grade \in proofs THEN "proved" ELSE IF grade = "UNKNOWN" THEN "open" ELSE "failed"

\* A direct branch: its target must be proven, and past B nothing is left.
Followed(w, proven) ==
  IF ~proven THEN "failed" ELSE IF w.op = "b" THEN "proved" ELSE "open"

\* advance_one_pending, and armlint_advance_pending_dc, which does not take
\* a call for the end of the flags.
AdvanceFlags(w) == Verdict(FlagGrade(w), {"OVERWRITE", "TERM_SAFE"})
AdvanceDead(w)  == Verdict(FlagGrade(w), {"OVERWRITE"})

\* advance_one_pending_cond: a condition may ignore the flags altered, and a
\* conditional compare that does sets them all.
AdvanceCond(p, w) ==
  IF ~NamesCond(w) THEN AdvanceFlags(w)
  ELSE IF CondReads(w.cond) \cap p.changed # {} THEN "failed"
  ELSE IF w.op \in CondCmpOps THEN "proved" ELSE "open"

\* armlint_advance_pending_mz, and the register half of cwc.
AdvanceReg(w, r, v) ==
  IF Direct(w) THEN Followed(w, w.n # r /\ r \in v) ELSE Verdict(RegGrade(w, r), {"OVERWRITE"})

\* The taken edge shares the fall-through's proof when it lands in what the
\* scan passed, or on the word that ends it.
Contained(p) == p.target \in p.ft .. At
AdvanceTwoEdges(p, w, r) ==
  LET one == Verdict(RegGrade(w, r), {"OVERWRITE"})
  IN  IF one = "proved" /\ ~Contained(p) THEN "failed" ELSE one

\* cwc_flags_step.
AdvanceNv(p, w, v) ==
  IF NamesCond(w)
  THEN IF AdvanceCond(p, w) = "open" /\ w.op = "bcond" THEN Followed(w, Nzcv \in v)
       ELSE AdvanceCond(p, w)
  ELSE IF Direct(w) THEN Followed(w, Nzcv \in v) ELSE AdvanceFlags(w)

\* The flags' part of armlint_advance_pending_bvs.
AdvanceBranch(w, v) ==
  IF Direct(w) THEN Followed(w, w.op # "bcond" /\ Nzcv \in v) ELSE AdvanceFlags(w)

\* What becomes of one proof of a deferred finding at w.
Progress(s, p, what, w, v) ==
  CASE s = "dc" -> AdvanceDead(w)
    [] s = "zs" -> AdvanceCond(p, w)
    [] s = "mz" -> AdvanceReg(w, what, v)
    [] s = "tb" -> AdvanceTwoEdges(p, w, what)
    [] s = "cwc" -> IF what = Nzcv THEN AdvanceNv(p, w, v) ELSE AdvanceReg(w, what, v)
    [] s = "bvs" -> IF what = Nzcv THEN AdvanceBranch(w, v) ELSE AdvanceReg(w, what, v)
    [] OTHER -> AdvanceFlags(w)
Reached(s, p, w, v, end) == {what \in p.open : Progress(s, p, what, w, v) = end}

\* A finding is given out when all its proofs are done; one that fails, or
\* is not done after Window words, leaves its fallback.  A word that settles
\* one of several proofs of bvs does not count.
Ages(s, p, w, v) == IF s = "bvs" /\ Reached(s, p, w, v, "proved") # {} THEN 0 ELSE 1
Proven(s, p, w, v)  == Reached(s, p, w, v, "proved") = p.open
Waiting(s, p, w, v) == /\ ~Proven(s, p, w, v) /\ Reached(s, p, w, v, "failed") = {}
                       /\ p.window > Ages(s, p, w, v)
Outcomes(w, v) ==
  UNION {UNION {IF Proven(s, p, w, v) THEN {p.f}
                ELSE IF Waiting(s, p, w, v) THEN {} ELSE p.fallback : p \in slots[s]} : s \in Slots}
Remaining(s, w, v) ==
  {[p EXCEPT !.window = @ - Ages(s, p, w, v), !.open = @ \ Reached(s, p, w, v, "proved")] :
     p \in {p \in slots[s] : Waiting(s, p, w, v)}}

-----------------------------------------------------------------------------
(* The buffer.                                                             *)

Init ==
  /\ family \in DOMAIN Families
  /\ buf = <<>> /\ dead = <<>>
  /\ held = [t \in Pairs |-> {}]
  /\ svc = {} /\ zs = {} /\ crc = {} /\ ccc = {} /\ bvs = {} /\ umc = {}
  /\ slots = [s \in Slots |-> {}]
  /\ out = {}

\* What the walk from a branch's target may find dead there.  A target in
\* the buffer it is not asked about here: the words there are not yet read.
Verdicts(w) ==
  IF w.op \in Conditionals \cup {"b"} /\ At + w.k \notin 1 .. Len(Families[family])
  THEN {{}, {Nzcv}, Gprs, Gprs \cup {Nzcv}} ELSE {{}}

\* Of several single compares for a chain the code takes one.
OneOf(changes) == IF changes = {} THEN {{}} ELSE {{x} : x \in changes}

\* The text of a finding with a CCMP in it is begun in the slot, whatever
\* waits there.
Begun(s, w, waiting) ==
  {[p EXCEPT !.f = Finding(h.at, Change("bvs", h.words, {Nzcv, h.rc}), h.words)] :
     p \in waiting, h \in IF s = "bvs" THEN Linked(w) ELSE {}}
Left(s, w, v) == LET waiting == Remaining(s, w, v)
                 IN  IF Begun(s, w, waiting) = {} THEN waiting ELSE Begun(s, w, waiting)

\* A check that defers replaces what waits in its slot.
Instruction ==
  /\ Len(buf) < Len(Families[family])
  /\ \E w \in Families[family][At] : \E v \in Verdicts(w) : \E chain \in OneOf(ChainChanges(w, v)) :
       LET changes == PairChanges(w, v) \cup SingleChanges(w) \cup TestChanges(w)
                      \cup TwinChanges(w) \cup CsetChanges(w) \cup chain
                      \cup ExtremeChanges(w)
                      \cup FieldChanges(w, Remaining("bvs", w, v) = {} /\ ExtremeChanges(w) = {})
           Deferred(s) == {x \in changes : x.c.slot = s}
       IN  /\ buf' = Append(buf, w)
           /\ dead' = Append(dead, v)
           /\ out' = out \cup Emit(Outcomes(w, v))
                         \cup Emit({Finding(x.start, x.c, x.c.rewrite) : x \in Deferred("now")})
           /\ slots' = [s \in Slots |-> IF Deferred(s) = {} THEN Left(s, w, v)
                                        ELSE {Pend(x, w) : x \in Deferred(s)}]
           /\ Hold(w) /\ HoldTest(w) /\ HoldTwin(w) /\ HoldCset(w) /\ HoldChain(w)
           /\ HoldExtreme(w) /\ HoldField(w)
  /\ UNCHANGED family

EndOfBuffer == Len(buf) = Len(Families[family]) /\ UNCHANGED vars

Next == Instruction \/ EndOfBuffer
Spec == Init /\ [][Next]_vars

-----------------------------------------------------------------------------
(* Execution.                                                              *)

\* A run of words from position start to the last word read: where it ends,
\* at which word it left, and whether by a branch.
Trace(words, start, m) ==
  LET Step(t, i) ==
        IF t.pos # i THEN t
        ELSE LET w == words[i - start + 1]
                 taken == w.op = "b" \/ (w.op \in Conditionals /\ Takes(t.m, w))
             IN  [m |-> Exec(t.m, w), pos |-> IF taken THEN i + w.k ELSE i + 1, by |-> i, left |-> taken]
  IN  FoldLeft(Step, [m |-> m, pos |-> start, by |-> start, left |-> FALSE],
               [i \in 1 .. Len(buf) - start + 1 |-> start + i - 1])

\* What two runs that end as t does may differ in.
Spent(f, t) ==
  IF t.left THEN (f.spends \cap dead[t.by]) \cup (f.trusts \cap {Nzcv})
                 \cup (IF t.by = f.start + Len(f.rewrite) - 1 THEN f.trusts ELSE {})
  ELSE IF buf[Len(buf)].op = "bl" THEN f.spends \cap {Nzcv} ELSE {}
SameEnd(f, t, u) ==
  /\ t.pos = u.pos /\ t.m.sp = u.m.sp
  /\ Nzcv \in Spent(f, t) \/ t.m.flags = u.m.flags
  /\ \A r \in Gprs \ Spent(f, t) : t.m.x[r] = u.m.x[r]

-----------------------------------------------------------------------------
(* Properties.                                                             *)

TypeOK ==
  /\ family \in DOMAIN Families
  /\ Len(buf) <= Len(Families[family]) /\ Len(dead) = Len(buf)
  /\ \A i \in DOMAIN buf : buf[i] \in Families[family][i]
  /\ \A t \in Pairs : \A h \in held[t] : h.at = Len(buf) /\ h.word = buf[h.at]
  /\ \A h \in svc : h.word = buf[h.at] /\ h.at = Len(buf) - 1
  /\ Cardinality(zs) <= 1 /\ \A h \in zs : h.gap = Len(buf) - h.at /\ h.gap <= ZsGap
  /\ Cardinality(crc) <= 1
  /\ \A h \in crc : h.window \in 1 .. Window /\ (~h.tested => h.at + Window - h.window = Len(buf))
  /\ \A h \in ccc : h.links = SubSeq(buf, h.at, Len(buf)) /\ Len(h.links) <= MaxLinks
  /\ Cardinality(bvs) <= 1 /\ \A h \in bvs : h.at + Len(h.words) = Len(buf) + 1
  /\ \A h \in umc : h.at + Len(h.words) = Len(buf) + 1
  /\ \A s \in Slots : /\ Cardinality(slots[s]) <= 1
                      /\ \A p \in slots[s] : p.window \in 1 .. Window /\ p.open # {}

\* The soundness rule of the README, branches included: when a finding is
\* given out, the words read since its start and the same words with its
\* rewrite run to the same place with the same registers and flags, but for
\* what the walk proved dead at the target of the branch they leave by, for
\* what the fold of a branch takes for dead at its target without a proof,
\* and for the flags after a call; and every word of it reaches what it names.
FlagsSound ==
  \A o \in out :
    LET f    == o.f
        read == SubSeq(buf, f.start, Len(buf))
        rewritten == f.rewrite \o SubSeq(buf, f.start + Len(f.rewrite), Len(buf))
    IN  o.at = Len(buf) =>
          /\ \A i \in DOMAIN f.rewrite :
               /\ Encodable(f.rewrite[i])
               /\ f.rewrite[i].op \in Conditionals => Fits(f.rewrite[i].k, Reach(f.rewrite[i]))
          /\ \A m \in {m \in Machines : \A r \in f.narrow : m.x[r] \subseteq Low(H)} :
               SameEnd(f, Trace(read, f.start, m), Trace(rewritten, f.start, m))

\* "the search that decides it is exact": for a chain and a condition that
\* decides something, the few candidates compared at the few points yield a
\* single compare exactly when some compare, condition and spelling agree
\* with the chain for every value of the register.
SearchExact ==
  \A h \in {h \in ccc : Len(h.links) >= 2} : \A cond \in RealConds :
    LET s    == ChainWidth(h.links)
        want == {x \in 0 .. 2^s - 1 : Holds(cond, ChainFlags(h.links, x))}
    IN  (SingleCompares(h.links, cond) # {}) <=>
        /\ want \notin {{}, 0 .. 2^s - 1}
        /\ \E k \in 0 .. 2^ImmBits - 1, cmn \in BOOLEAN, c \in RealConds :
             \A x \in 0 .. 2^s - 1 : (x \in want) = Holds(c, CccCompare(x, k, s, cmn))

\* The flag checks share their producers but not their pairs: no two report
\* the same words, so none is counted twice.
ReportedOnce ==
  \A o, q \in out :
    o.f.start = q.f.start /\ Len(o.f.rewrite) = Len(q.f.rewrite) => o = q
=============================================================================
