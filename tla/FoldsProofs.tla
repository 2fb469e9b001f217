---------------------------- MODULE FoldsProofs -----------------------------
(***************************************************************************)
(* Proofs of the soundness rule: at every width of the registers, and from *)
(* any registers and flags, what a folding check suggests leaves what the  *)
(* window it replaces leaves, but for the register that is to be dead.     *)
(***************************************************************************)
EXTENDS PeepholeProofs

-----------------------------------------------------------------------------
(* The words: those that compute, and the loads that repeat a sign.        *)

Real(w) ==
  /\ w \in Words /\ w.op \in ComputeOps /\ Encodable(w)
  /\ w.op \in ArithOps \cup LogicOps => w.sh \in ShiftOps

LEMMA LoadsDoNotCompute == "ldr" \notin ComputeOps /\ "ldr" \notin FlagOps /\ "ldr" \notin SpDest
BY DEF ComputeOps, ShiftOps, ExtractOps, PlaceOps, MoveOps, LogicOps, ImmLogicOps, ArithOps, ImmArithOps, ExtArithOps,
   SelectOps, MulOps, HighOps, TwoSourceOps, OneSourceOps, CarryOps, CondCmpOps, CondCmpImmOps, FlagOps, SpDest

LEMMA RealIsDecoded == ASSUME NEW w, Real(w) PROVE Decoded(w)
BY LoadsDoNotCompute DEF Real, Decoded

LEMMA DecodedIsReal == ASSUME NEW w, Decoded(w), w.op # "ldr" PROVE Real(w)
BY DEF Real, Decoded, Words

LEMMA FieldsOfReal ==
  ASSUME NEW w, Real(w)
  PROVE  w.sf \in BOOLEAN /\ w.k \in Int /\ w.wd \in Nat
BY DEF Real, Words

\* A load leaves what it found in memory, its sign repeated, and its base
\* alone.
LEMMA SignedLoadIs ==
  ASSUME NEW w, Decoded(w), w.op = "ldr"
  PROVE  w.sh = "sxt" /\ w.k = 0 /\ w.wd \in 1 .. Size(w) - 1
<1>1. PICK wd \in Exts \cup {H} : wd < Size(w) /\ w = Load(w.sf, w.d, w.n, "sxt", wd, 0)
  BY DEF Decoded, SignedLoad
<1>2. wd \in Nat \ {0} /\ Size(w) \in Nat
  BY ExtsAssumption, AluAssumption, WidthsArePositive DEF Bitwidth
<1>3. \A sf, d, n : /\ Load(sf, d, n, "sxt", wd, 0).sh = "sxt" /\ Load(sf, d, n, "sxt", wd, 0).k = 0
                    /\ Load(sf, d, n, "sxt", wd, 0).wd = wd
  BY DEF Load, Word
<1>4. w.sh = "sxt" /\ w.k = 0 /\ w.wd = wd
  BY <1>1, <1>3
<1>. QED
  BY <1>1, <1>2, <1>4

-----------------------------------------------------------------------------
(* Execution.                                                              *)

LEMMA StatesAreShaped == ASSUME NEW m \in RegisterStates PROVE Shaped(m)
BY DEF RegisterStates, Shaped

\* Two words of one destination that leave the same, the producer's register
\* aside.
AsOne(w, word) ==
  /\ word.op \in ComputeOps /\ w.op \in ComputeOps /\ word.d = w.d /\ w.d \in Reg
  /\ word.op \in FlagOps <=> w.op \in FlagOps
  /\ w.d = R31 => (word.op \in SpDest <=> w.op \in SpDest)

LEMMA FoldAlike ==
  ASSUME NEW m, Shaped(m), NEW p, Produces(p), NEW w, NEW word, AsOne(w, word),
         Value(Exec(m, p), w) = Value(m, word),
         w.op \in FlagOps => Outcome(Exec(m, p), w, Size(w)) = Outcome(m, word, Size(word))
  PROVE  Alike(Exec(Exec(m, p), w), Exec(m, word), {p.d} \ {w.d})
<1>. DEFINE n == Exec(m, p)
<1>1. /\ Shaped(n) /\ n.sp = m.sp /\ n.flags = m.flags
      /\ \A g \in Gprs \ {p.d} : n.x[g] = m.x[g]
  BY AfterCompute, AluAssumption DEF Produces
<1>. HIDE DEF n
<1>2. /\ w.op \in FlagOps => Outcome(n, w, Size(w)) = Outcome(m, word, Size(word))
      /\ Value(n, w) = Value(m, word)
  BY DEF n
<1>3. /\ Exec(n, w).sp = IF w.d = R31 /\ w.op \in SpDest THEN Value(n, w) ELSE n.sp
      /\ Exec(n, w).flags = IF w.op \in FlagOps THEN Outcome(n, w, Size(w)).flags ELSE n.flags
      /\ \A g \in Gprs : Exec(n, w).x[g] = IF g = w.d THEN Value(n, w) ELSE n.x[g]
  BY <1>1, AfterCompute DEF AsOne
<1>4. /\ Exec(m, word).sp = IF word.d = R31 /\ word.op \in SpDest THEN Value(m, word) ELSE m.sp
      /\ Exec(m, word).flags = IF word.op \in FlagOps THEN Outcome(m, word, Size(word)).flags ELSE m.flags
      /\ \A g \in Gprs : Exec(m, word).x[g] = IF g = word.d THEN Value(m, word) ELSE m.x[g]
  BY AfterCompute DEF AsOne
<1>. QED
  BY <1>1, <1>2, <1>3, <1>4 DEF Alike, AsOne, n

\* Loads commit what they read, and no word of a buffer moves its base.
LEMMA LoadOutcome ==
  ASSUME NEW m, NEW w, NEW s, w.op = "ldr"
  PROVE  Outcome(m, w, s) = Plainly(ExtendBy(w.sh, m.mem, w.wd, s), s)
<1>1. /\ w.op # "fcmp" /\ w.op \notin CondCmpOps /\ w.op \notin AdderOps /\ w.op \notin ShiftOps /\ w.op \notin MoveOps
      /\ w.op \notin LogicOps /\ w.op \notin SelectOps
  BY DEF AdderOps, ArithOps, ImmArithOps, ExtArithOps, MulOps, CondCmpOps, CondCmpImmOps, CarryOps, ShiftOps,
     MoveOps, LogicOps, SelectOps
<1>. DEFINE a == Reads(m, w, w.n)
            c == Reads(m, w, w.m)
            old == Reads(m, w, w.d)
<1>2. Outcome(m, w, s) = Plainly(DataOf(m, w, a, c, old, s), s)
  BY <1>1 DEF Outcome
<1>. HIDE DEF a, c, old
<1>3. DataOf(m, w, a, c, old, s) = ExtendBy(w.sh, m.mem, w.wd, s)
  BY <1>1 DEF DataOf
<1>. QED
  BY <1>2, <1>3

LEMMA DecodedCommits ==
  ASSUME NEW m, NEW w, Decoded(w)
  PROVE  Exec(m, w) = Committed(m, w, Outcome(m, w, Size(w)))
<1>1. CASE w.op = "ldr"
  <2>1. w.op \notin {"msr", "ptest", "nop", "str"} \cup Conditionals \cup Terminal
    BY <1>1 DEF Conditionals, CompareBranches, CbOps, Terminal
  <2>2. w.k = 0
    BY <1>1, SignedLoadIs
  <2>. QED
    BY <2>1, <2>2 DEF Exec, WriteBack
<1>2. CASE w.op # "ldr"
  BY <1>2, DecodedIsReal, ComputeCommits DEF Real
<1>. QED
  BY <1>1, <1>2

LEMMA AfterWord ==
  ASSUME NEW m, Shaped(m), NEW w, Decoded(w)
  PROVE  /\ Shaped(Exec(m, w)) /\ Exec(m, w).base = m.base
         /\ Exec(m, w).sp = IF w.d = R31 /\ w.op \in SpDest THEN Value(m, w) ELSE m.sp
         /\ Exec(m, w).flags = IF w.op \in FlagOps THEN Outcome(m, w, Size(w)).flags ELSE m.flags
         /\ \A g \in Gprs : Exec(m, w).x[g] = IF g = w.d THEN Value(m, w) ELSE m.x[g]
         /\ DOMAIN Exec(m, w) = DOMAIN m
         /\ \A f \in DOMAIN m \ {"x", "sp", "flags"} : Exec(m, w)[f] = m[f]
<1>1. w.op # "fcmp"
  BY DEF Decoded, Words, ComputeOps, ShiftOps, ExtractOps, PlaceOps, MoveOps,
         LogicOps, ImmLogicOps, ArithOps, ImmArithOps, ExtArithOps, SelectOps, MulOps, HighOps, TwoSourceOps,
         OneSourceOps, CarryOps, CondCmpOps, CondCmpImmOps
<1>. QED
  BY <1>1, DecodedCommits, AfterCommit DEF Value

\* What the finding owes: from any state the pair and its replacement end
\* alike.
Sound(ws, fold) ==
  \A m \in RegisterStates :
    /\ Alike(Run(m, ws), Run(m, fold.rewrite), fold.dead)
    /\ \A kept \in fold.kept : Alike(Run(m, ws), Run(m, kept), {})

\* The same of a finding that replaces the first of the words, and leaves
\* the rest after it.
SoundThen(ws, fold, rest) ==
  \A m \in RegisterStates :
    /\ Alike(Run(m, ws), Run(Run(m, fold.rewrite), rest), fold.dead)
    /\ \A kept \in fold.kept : Alike(Run(m, ws), Run(Run(m, kept), rest), {})

LEMMA SoundThenNothing == ASSUME NEW ws, NEW fold, Sound(ws, fold) PROVE SoundThen(ws, fold, <<>>)
BY RunOfNone DEF Sound, SoundThen

LEMMA ValueSound ==
  ASSUME NEW p, Produces(p), NEW w, NEW word, AsOne(w, word),
         \A m \in RegisterStates :
           /\ Value(Exec(m, p), w) = Value(m, word)
           /\ w.op \in FlagOps => Outcome(Exec(m, p), w, Size(w)) = Outcome(m, word, Size(word))
  PROVE  Sound(<<p, w>>, Fold(p, w, word))
<1>. SUFFICES ASSUME NEW m \in RegisterStates
              PROVE  Alike(Run(m, <<p, w>>), Run(m, <<word>>), {p.d} \ {w.d})
  BY DEF Sound, Fold, Replace
<1>1. Run(m, <<p, w>>) = Exec(Exec(m, p), w) /\ Run(m, <<word>>) = Exec(m, word)
  BY RunOfOne, RunOfTwo
<1>2. Alike(Exec(Exec(m, p), w), Exec(m, word), {p.d} \ {w.d})
  BY StatesAreShaped, FoldAlike
<1>. QED
  BY <1>1, <1>2

LEMMA FoldSound ==
  ASSUME NEW p, Produces(p), NEW w, NEW word, AsOne(w, word),
         \A m \in RegisterStates : Outcome(Exec(m, p), w, Size(w)) = Outcome(m, word, Size(word))
  PROVE  Sound(<<p, w>>, Fold(p, w, word))
BY ValueSound DEF Value

LEMMA RealWord ==
  ASSUME NEW w, Real(w)
  PROVE  w.d \in Reg /\ w.n \in Reg /\ w.m \in Reg /\ w.a \in Reg /\ w.op \in ComputeOps
BY DEF Real, Words, Reg

LEMMA DecodedWord ==
  ASSUME NEW w, Decoded(w)
  PROVE  w.d \in Reg /\ w.n \in Reg /\ w.m \in Reg /\ w.a \in Reg
BY DEF Decoded, Words, Reg

LEMMA OperationCommutes ==
  ASSUME NEW w, Commutes(w), NEW s \in 0 .. W, NEW a \in SUBSET Low(s), NEW b \in SUBSET Low(s)
  PROVE  Operated(w.op, a, b, s) = Operated(w.op, b, a, s)
<1>1. CASE w.op \in {"add", "adds"}
  <2>1. a \in SUBSET Low(W) /\ b \in SUBSET Low(W)
    BY NumberFits
  <2>2. Summed(a, b, s) = Summed(b, a, s)
    BY <2>1, AddCommutes DEF Summed
  <2>. QED
    BY <1>1, <2>2 DEF Operated, Totalled, ArithOps, SubOps
<1>2. CASE w.op \in {"and", "orr", "eor", "ands"}
  BY <1>2 DEF Operated, ArithOps, InvertedOps, Logic, SymDiff
<1>3. CASE w.op = "eon"
  <2>1. SymDiff(a, Low(s) \ b) = SymDiff(b, Low(s) \ a)
    BY DEF SymDiff
  <2>. QED
    BY <1>3, <2>1 DEF Operated, ArithOps, InvertedOps, Logic
<1>. QED
  BY <1>1, <1>2, <1>3 DEF Commutes

\* A register operand that is the producer's value.
LEMMA Operands ==
  ASSUME NEW m, Shaped(m), NEW p, Produces(p), NEW w, w.n \in Reg, w.m \in Reg,
         Value(m, p) \in SUBSET Low(Size(w)), NEW swaps, NEW r \in Survivor(p, w, swaps)
  PROVE  /\ r \in Reg
         /\ \/ /\ r = w.n /\ w.m = p.d
               /\ Reads(Exec(m, p), w, w.n) = Reads(m, w, r) /\ Reads(Exec(m, p), w, w.m) = Value(m, p)
            \/ /\ swaps /\ r = w.m /\ w.n = p.d /\ w.m # p.d
               /\ Reads(Exec(m, p), w, w.m) = Reads(m, w, r) /\ Reads(Exec(m, p), w, w.n) = Value(m, p)
<1>1. r \in Reg /\ r # p.d /\ ((w.m = p.d /\ r = w.n) \/ (swaps /\ w.n = p.d /\ r = w.m))
  BY DEF Survivor
<1>2. Value(m, p) \cap Low(Size(w)) = Value(m, p)
  OBVIOUS
<1>. QED
  BY <1>1, <1>2, ReadsAfter DEF Survivor

-----------------------------------------------------------------------------
(* Shifts and masks.                                                       *)

\* What a shift, a field or a mask leaves.
LEMMA ShiftValue ==
  ASSUME NEW m, NEW p, Real(p), p.op \in ShiftOps, p.d # R31
  PROVE  /\ Produces(p) /\ Value(m, p) = ShiftBy(p.op, Reads(m, p, p.n), p.k, Size(p))
         /\ Value(m, p) \in SUBSET Low(Size(p))
         /\ p.k \in 1 .. Size(p) - 1
<1>1. p.k \in 1 .. Size(p) - 1
  BY DEF Real, Encodable
<1>2. Value(m, p) = ShiftBy(p.op, Reads(m, p, p.n), p.k, Size(p)) /\ p.op \in ComputeOps
  BY OutcomeOfShift DEF Value, Plainly
<1>3. p.op \notin FlagOps
  BY DEF ShiftOps, FlagOps, CondCmpOps, CondCmpImmOps
<1>4. Size(p) \in Nat \ {0} /\ p.k \in 0 .. Size(p) - 1 /\ Reads(m, p, p.n) \in SUBSET Low(Size(p))
  BY <1>1, ReadFits
<1>5. ShiftBy(p.op, Reads(m, p, p.n), p.k, Size(p)) \in SUBSET Low(Size(p))
  BY <1>4, ShiftFits
<1>. QED
  BY <1>1, <1>2, <1>3, <1>5, RealWord DEF Produces, Reg

LEMMA OperationReads == \A op \in ArithOps \cup LogicOps : op \notin SpSource /\ op \notin SpDest
BY DEF ArithOps, LogicOps, SpSource, SpDest, ImmArithOps, ExtArithOps

LEMMA ShiftIsSound ==
  ASSUME NEW p, NEW w, Real(p), Real(w), ShiftOpens(p), NEW fold \in ShiftFold(p, w)
  PROVE  Sound(<<p, w>>, fold)
<1>1. PICK r \in Survivor(p, w, Commutes(w)) :
        /\ fold = Fold(p, w, Barrel(w.op, w.sf, w.d, r, p.n, p.op, p.k))
        /\ ShiftedRegister(w) /\ SameWidth(p, w) /\ r # R31
  BY DEF ShiftFold
<1>2. PICK word : word = Barrel(w.op, w.sf, w.d, r, p.n, p.op, p.k)
  OBVIOUS
<1>3. /\ word.op = w.op /\ word.sf = w.sf /\ word.d = w.d /\ word.n = r /\ word.m = p.n
      /\ word.sh = p.op /\ word.k = p.k
  BY <1>2, BarrelIs
<1>4. p.op \in ShiftOps /\ p.d # R31 /\ w.op \in ArithOps \cup LogicOps /\ w.k = 0 /\ w.sh \in ShiftOps
  BY <1>1 DEF ShiftOpens, ShiftedRegister, Real
<1>. DEFINE s == Size(w)
<1>5. Size(p) = s /\ Size(word) = s /\ s \in 0 .. W /\ s \in Nat \ {0}
  BY <1>1, <1>3, Widths DEF SameWidth, Size
<1>6. Produces(p) /\ AsOne(w, word)
  BY <1>3, <1>4, ShiftValue, RealWord DEF AsOne
<1>7. ASSUME NEW m \in RegisterStates
      PROVE  Outcome(Exec(m, p), w, Size(w)) = Outcome(m, word, Size(word))
  <2>. DEFINE v == Value(m, p)
              n == Exec(m, p)
              a == Reads(n, w, w.n)
              c == Reads(n, w, w.m)
              b == Reads(m, w, r)
  <2>1. v = ShiftBy(p.op, Reads(m, p, p.n), p.k, s) /\ v \in SUBSET Low(s)
    BY <1>4, <1>5, ShiftValue
  <2>2. Outcome(n, w, s) = Operated(w.op, a, c, s)
    <3>1. Outcome(n, w, s) = Operated(w.op, a, ShiftBy(w.sh, c, 0, s), s)
      BY <1>4, OutcomeOfOperation
    <3>2. ShiftBy(w.sh, c, 0, s) = c
      BY <1>4, <1>5, ReadFits, ShiftByNothing
    <3>. QED
      BY <3>1, <3>2
  <2>3. Reads(m, word, r) = b /\ Reads(m, word, p.n) = Reads(m, p, p.n)
    <3>1. word.op \notin SpSource /\ p.op \notin SpSource
      BY <1>3, <1>4, OperationReads DEF ShiftOps, SpSource, ImmArithOps, ExtArithOps
    <3>2. word.sf = p.sf
      BY <1>1, <1>3 DEF SameWidth
    <3>3. word.sf = w.sf /\ r # R31 /\ Reads(m, w, r) = b
      BY <1>1, <1>3
    <3>4. Reads(m, word, r) = Reads(m, w, r)
      BY <3>3, SameRead
    <3>5. Reads(m, word, p.n) = Reads(m, p, p.n)
      BY <3>1, <3>2, SameRead
    <3>. QED
      BY <3>3, <3>4, <3>5
  <2>4. Outcome(m, word, s) = Operated(w.op, b, v, s)
    BY <1>3, <1>4, <2>1, <2>3, OutcomeOfOperation
  <2>5. (a = b /\ c = v) \/ (Commutes(w) /\ c = b /\ a = v)
    <3>1. Shaped(m) /\ w.n \in Reg /\ w.m \in Reg
      BY StatesAreShaped, RealWord
    <3>. QED
      BY <1>6, <2>1, <3>1, Operands
  <2>6. b \in SUBSET Low(s)
    BY ReadFits
  <2>. HIDE DEF a, b, c, v, n, s
  <2>7. Outcome(n, w, s) = Outcome(m, word, s)
    BY <1>5, <2>1, <2>2, <2>4, <2>5, <2>6, OperationCommutes
  <2>. QED
    BY <1>5, <2>7 DEF n, s
<1>. QED
  BY <1>1, <1>2, <1>6, <1>7, FoldSound

\* What the next word reads of a field or of a shift of its width.
LEMMA ReadsValue ==
  ASSUME NEW m, Shaped(m), NEW p, Produces(p), NEW w, Value(m, p) \in SUBSET Low(Size(w))
  PROVE  Reads(Exec(m, p), w, p.d) = Value(m, p)
<1>1. p.d \in Reg
  BY DEF Produces, Reg
<1>. QED
  BY <1>1, ReadsAfter

\* Opposite shifts that tile the register meet in no bit.
LEMMA Tiles ==
  ASSUME NEW s \in Nat \ {0}, NEW a \in SUBSET Low(s), NEW b \in SUBSET Low(s),
         NEW k \in 1 .. s - 1, NEW l \in 1 .. s - 1, k + l = s
  PROVE  Lsr(a, k) \cap Lsl(b, l, s) = {} /\ Lsr(a, k) \in SUBSET Low(s) /\ Lsl(b, l, s) \in SUBSET Low(s)
<1>1. Lsr(a, k) = {i \in Low(s) : i + k \in a}
  BY LsrBits
<1>2. Lsl(b, l, s) = {i \in Low(s) : i - l \in b}
  <2>1. l \in 0 .. s /\ s \in Nat
    OBVIOUS
  <2>. QED
    BY <2>1, LslBits
<1>3. ASSUME NEW i \in Low(s), i + k \in a, i - l \in b PROVE FALSE
  <2>1. i \in Int /\ i + k < s /\ i - l >= 0
    BY <1>3 DEF Low
  <2>. QED
    BY <2>1
<1>. QED
  BY <1>1, <1>2, <1>3

\* Values without a bit in common are put together by ADD, ORR and EOR.
LEMMA PutTogether ==
  ASSUME NEW op \in {"add", "orr", "eor"}, NEW s \in 0 .. W, NEW a \in SUBSET Low(s), NEW b \in SUBSET Low(s),
         a \cap b = {}
  PROVE  Operated(op, a, b, s).v = a \cup b
<1>1. CASE op = "add"
  <2>1. Operated(op, a, b, s) = Summed(a, b, s)
    BY <1>1 DEF Operated, Totalled, ArithOps, SubOps
  <2>2. Added(a, b, s) = a \cup b
    BY AddApart
  <2>. QED
    BY <2>1, <2>2 DEF Summed, Added
<1>2. CASE op \in {"orr", "eor"}
  <2>1. SymDiff(a, b) = a \cup b
    BY DEF SymDiff
  <2>. QED
    BY <1>2, <2>1 DEF Operated, ArithOps, InvertedOps, Logic, Plainly
<1>. QED
  BY <1>1, <1>2

LEMMA FunnelIsSound ==
  ASSUME NEW p, NEW w, Real(p), Real(w), FunnelOpens(p), NEW fold \in FunnelFold(p, w)
  PROVE  Sound(<<p, w>>, fold)
<1>. DEFINE s == Size(w)
<1>1. /\ p.op \in {"lsl", "lsr"} /\ p.d # R31 /\ p.op \in ShiftOps
      /\ w.op \in {"add", "orr", "eor"} /\ w.sh \in {"lsl", "lsr"} /\ w.sh # p.op
      /\ SameWidth(p, w) /\ w.n = p.d /\ w.d # R31 /\ w.m # p.d /\ w.m # R31 /\ p.k + w.k = s
  BY DEF FunnelOpens, FunnelFold, FunnelConsumer, ShiftOps
<1>. PICK up, low, by :
       /\ p.op = "lsr" => up = w.m /\ low = p.n /\ by = p.k
       /\ p.op # "lsr" => up = p.n /\ low = w.m /\ by = w.k
  OBVIOUS
<1>2. PICK word : word = [Ternary("extr", w.sf, w.d, up, low) EXCEPT !.k = by]
  OBVIOUS
<1>3. fold = Fold(p, w, word)
  BY <1>2 DEF FunnelFold
<1>4. word.op = "extr" /\ word.sf = w.sf /\ word.d = w.d /\ word.n = up /\ word.m = low /\ word.k = by
  BY <1>2 DEF Ternary, Word
<1>5. Size(p) = s /\ Size(word) = s /\ s \in 0 .. W /\ s \in Nat \ {0}
  BY <1>1, <1>4, Widths DEF SameWidth, Size
<1>6. p.k \in 1 .. s - 1 /\ w.k \in 1 .. s - 1
  <2>1. p.k \in 1 .. s - 1
    BY <1>1, <1>5, ShiftValue
  <2>2. w.k = s - p.k
    BY <1>1, <1>5, <2>1 DEF Real, Words
  <2>. QED
    BY <1>5, <2>1, <2>2
<1>7. word.op \in FieldOps /\ w.op \in ArithOps \cup LogicOps /\ word.op \in ComputeOps /\ w.op \notin FlagOps /\ word.op \notin FlagOps
  BY <1>1, <1>4 DEF FieldOps, ArithOps, LogicOps, ComputeOps, FlagOps, CondCmpOps, CondCmpImmOps
<1>8. Produces(p) /\ AsOne(w, word)
  BY <1>1, <1>4, <1>7, ShiftValue, RealWord DEF AsOne
<1>9. ASSUME NEW m \in RegisterStates
      PROVE  Value(Exec(m, p), w) = Value(m, word)
  <2>. DEFINE v == Value(m, p)
              n == Exec(m, p)
              x == Reads(m, p, p.n)
              y == Reads(m, w, w.m)
              c == ShiftBy(w.sh, y, w.k, s)
  <2>1. v = ShiftBy(p.op, x, p.k, s) /\ v \in SUBSET Low(s)
    BY <1>1, <1>5, ShiftValue
  <2>2. x \in SUBSET Low(s) /\ y \in SUBSET Low(s)
    BY <1>5, ReadFits
  <2>3. Shaped(m) /\ w.m \in Reg
    BY StatesAreShaped, RealWord
  <2>4. Reads(n, w, w.n) = v
    BY <1>1, <1>8, <2>1, <2>3, ReadsValue
  <2>5. Reads(n, w, w.m) = y
    BY <1>1, <1>8, <2>3, ReadsAfter
  <2>6. Value(n, w) = Operated(w.op, v, c, s).v
    BY <1>7, <2>4, <2>5, OutcomeOfOperation DEF Value
  <2>7. Reads(m, word, p.n) = x /\ Reads(m, word, w.m) = y
    <3>1. word.op \notin SpSource /\ p.op \notin SpSource /\ w.op \notin SpSource
      BY <1>1, <1>4 DEF SpSource, ImmArithOps, ExtArithOps
    <3>2. word.sf = p.sf /\ word.sf = w.sf
      BY <1>1, <1>4 DEF SameWidth
    <3>3. Reads(m, word, p.n) = Reads(m, p, p.n)
      BY ZenonT(30), <3>1, <3>2, SameRead
    <3>4. Reads(m, word, w.m) = Reads(m, w, w.m)
      BY <3>1, <3>2, SameRead
    <3>. QED
      BY <3>3, <3>4
  <2>8. Value(m, word) = Lsr(Reads(m, word, low), by) \cup Lsl(Reads(m, word, up), s - by, s)
    BY <1>4, <1>5, <1>7, ExtrValue
  <2>. HIDE DEF v, n, x, y, c, s
  <2>9. CASE p.op = "lsr"
    <3>1. v = Lsr(x, p.k) /\ c = Lsl(y, w.k, s) /\ s - p.k = w.k
      BY <1>1, <1>5, <1>6, <2>1, <2>9 DEF ShiftBy, c
    <3>2. Value(m, word) = v \cup c
      BY <2>7, <2>8, <2>9, <3>1
    <3>3. v \cap c = {} /\ c \in SUBSET Low(s)
      BY <1>1, <1>5, <1>6, <2>2, <3>1, Tiles
    <3>4. Operated(w.op, v, c, s).v = v \cup c
      BY <1>1, <1>5, <2>1, <3>3, PutTogether
    <3>. QED
      BY <2>6, <3>2, <3>4 DEF n
  <2>10. CASE p.op = "lsl"
    <3>1. v = Lsl(x, p.k, s) /\ c = Lsr(y, w.k) /\ s - w.k = p.k
      BY <1>1, <1>5, <1>6, <2>1, <2>10 DEF ShiftBy, c
    <3>2. Value(m, word) = c \cup v
      BY <2>7, <2>8, <2>10, <3>1
    <3>3. c \cap v = {} /\ c \in SUBSET Low(s)
      <4>1. w.k + p.k = s
        BY <1>1, <1>5, <1>6
      <4>. QED
        BY <1>5, <1>6, <2>2, <3>1, <4>1, Tiles
    <3>4. Operated(w.op, v, c, s).v = v \cup c
      BY <1>1, <1>5, <2>1, <3>3, PutTogether
    <3>. QED
      BY <2>6, <3>2, <3>4 DEF n
  <2>. QED
    BY <1>1, <2>9, <2>10
<1>. QED
  BY <1>3, <1>7, <1>8, <1>9, ValueSound

-----------------------------------------------------------------------------
(* Words that pass a value through: a shift, a field, a mask or a W move of *)
(* one source.                                                             *)

Passing(w) ==
  MovW(w) \/ w.op \in ShiftOps \cup {"ubfx", "sbfx", "ubfiz", "sbfiz", "andi", "andsi", "mov"}
Through(w, x) ==
  CASE w.op \in ShiftOps -> ShiftBy(w.op, x, w.k, Size(w))
    [] w.op = "ubfx"  -> Extract(x, w.k, w.wd)
    [] w.op = "sbfx"  -> Extend(Extract(x, w.k, w.wd), w.wd - 1, Size(w))
    [] w.op = "ubfiz" -> Place(x, w.k, w.wd)
    [] w.op = "sbfiz" -> Extend(Place(x, w.k, w.wd), w.k + w.wd - 1, Size(w))
    [] w.op \in {"andi", "andsi"} -> x \cap w.mask
    [] w.op = "mov"   -> w.mask
    [] w.op = "orr"   -> x

LEMMA PassesThrough ==
  ASSUME NEW m, NEW w, Passing(w), MovW(w) => w.sh \in ShiftOps
  PROVE  /\ w.op \in ComputeOps /\ w.op \notin SpSource
         /\ Outcome(m, w, Size(w)) = Plainly(Through(w, Reads(m, w, Source(w))), Size(w))
<1>1. CASE w.op \in ShiftOps
  <2>1. ~MovW(w) /\ w.op \notin SpSource
    BY <1>1 DEF MovW, ShiftOps, SpSource, ImmArithOps, ExtArithOps
  <2>2. w.op \in {"lsl", "lsr", "asr", "ror"}
    BY <1>1 DEF ShiftOps
  <2>3. \A a : Through(w, a) = ShiftBy(w.op, a, w.k, Size(w))
    BY <1>1, <2>2 DEF Through
  <2>. QED
    BY <1>1, <2>1, <2>3, OutcomeOfShift DEF Source
<1>2. CASE w.op \in {"ubfx", "sbfx", "ubfiz", "sbfiz", "andi", "andsi", "mov"}
  <2>1. ~MovW(w) /\ w.op \notin SpSource /\ w.op \in FieldOps /\ w.op \notin ShiftOps
    BY <1>2 DEF MovW, ShiftOps, SpSource, ImmArithOps, ExtArithOps, FieldOps
  <2>2. \A a, c, old : FieldValue(w, a, c, old, Size(w)) = Through(w, a)
    BY <1>2, <2>1 DEF FieldValue, Through
  <2>. QED
    BY <2>1, <2>2, OutcomeOfField DEF Source
<1>3. CASE MovW(w)
  <2>1. w.op = "orr" /\ w.n = R31 /\ w.k = 0 /\ w.op \in LogicOps /\ w.op \notin SpSource /\ w.op \notin ShiftOps
        /\ w.op \notin InvertedOps
    BY <1>3 DEF MovW, LogicOps, SpSource, ImmArithOps, ExtArithOps, ShiftOps, InvertedOps
  <2>2. Reads(m, w, w.n) = {}
    BY <2>1 DEF Reads
  <2>3. ShiftBy(w.sh, Reads(m, w, w.m), w.k, Size(w)) = Reads(m, w, w.m)
    BY <1>3, <2>1, ReadFits, ShiftByNothing
  <2>4. Logical(w, {}, Reads(m, w, w.m), Size(w)) = Reads(m, w, w.m)
    BY <2>1 DEF Logical, Logic
  <2>5. \A a : Through(w, a) = a
    BY <2>1 DEF Through
  <2>. QED
    BY <1>3, <2>1, <2>2, <2>3, <2>4, <2>5, OutcomeOfLogic DEF Source
<1>. QED
  BY <1>1, <1>2, <1>3 DEF Passing

\* What two words read of one register is a part of what it holds.
LEMMA Held ==
  ASSUME NEW m, NEW r
  PROVE  \E x \in SUBSET Low(W) : \A w : w.op \notin SpSource => Reads(m, w, r) = x \cap Low(Size(w))
<1>. DEFINE x == (IF r # R31 THEN m.x[r] ELSE {}) \cap Low(W)
<1>1. ASSUME NEW w, w.op \notin SpSource PROVE Reads(m, w, r) = x \cap Low(Size(w))
  <2>1. Low(Size(w)) \subseteq Low(W)
    BY Widths, AluAssumption DEF Low
  <2>2. Reads(m, w, r) = (IF r # R31 THEN m.x[r] ELSE {}) \cap Low(Size(w))
    BY <1>1 DEF Reads
  <2>. QED
    BY <2>1, <2>2
<1>2. x \in SUBSET Low(W)
  OBVIOUS
<1>. HIDE DEF x
<1>. QED
  BY <1>1, <1>2

\* A word after another of its result, and one word of the source.
LEMMA PassingSound ==
  ASSUME NEW p, NEW w, NEW word, Real(p), Real(w), Passing(p), Passing(w), Passing(word),
         p.d \in Gprs, p.op \notin FlagOps, Source(w) = p.d, Source(word) = Source(p) \/ word.op = "mov",
         MovW(word) => word.sh \in ShiftOps, AsOne(w, word),
         \A x \in SUBSET Low(W) :
           Through(w, Through(p, x \cap Low(Size(p))) \cap Low(Size(w))) = Through(word, x \cap Low(Size(word))),
         w.op \in FlagOps => Size(w) = Size(word)
  PROVE  Sound(<<p, w>>, Fold(p, w, word))
<1>1. /\ MovW(p) => p.sh \in ShiftOps
      /\ MovW(w) => w.sh \in ShiftOps
      /\ MovW(word) => word.sh \in ShiftOps
  BY DEF MovW, Real, LogicOps, ShiftOps
<1>2. Produces(p)
  BY RealWord DEF Produces
<1>3. ASSUME NEW m \in RegisterStates
      PROVE  /\ Value(Exec(m, p), w) = Value(m, word)
             /\ w.op \in FlagOps => Outcome(Exec(m, p), w, Size(w)) = Outcome(m, word, Size(word))
  <2>. DEFINE n == Exec(m, p)
              v == Value(m, p)
  <2>. PICK src : src = Source(p)
    OBVIOUS
  <2>1. PICK x \in SUBSET Low(W) : \A u : u.op \notin SpSource => Reads(m, u, src) = x \cap Low(Size(u))
    BY Held
  <2>2. v = Through(p, x \cap Low(Size(p)))
    <3>1. /\ p.op \notin SpSource
          /\ Outcome(m, p, Size(p)) = Plainly(Through(p, Reads(m, p, Source(p))), Size(p))
      BY <1>1, PassesThrough
    <3>2. Reads(m, p, Source(p)) = x \cap Low(Size(p))
      BY <2>1, <3>1
    <3>3. \A u, s : Plainly(u, s).v = u
      BY DEF Plainly
    <3>. QED
      BY <3>1, <3>2, <3>3 DEF Value
  <2>3. Shaped(m) /\ p.d \in Reg
    BY StatesAreShaped DEF Reg
  <2>4. Reads(n, w, Source(w)) = v \cap Low(Size(w))
    BY <1>2, <2>3, ReadsAfter
  <2>5. Outcome(n, w, Size(w)) = Plainly(Through(w, v \cap Low(Size(w))), Size(w))
    BY <1>1, <2>4, PassesThrough
  <2>6. Outcome(m, word, Size(word)) = Plainly(Through(word, x \cap Low(Size(word))), Size(word))
    <3>1. word.op = "mov" => \A y, z : Through(word, y) = Through(word, z)
      BY DEF Through, ShiftOps
    <3>2. /\ word.op \notin SpSource
          /\ Outcome(m, word, Size(word)) = Plainly(Through(word, Reads(m, word, Source(word))), Size(word))
      BY <1>1, PassesThrough
    <3>3. CASE Source(word) = Source(p)
      BY <2>1, <3>2, <3>3
    <3>4. CASE word.op = "mov"
      BY <3>1, <3>2, <3>4
    <3>. QED
      BY <3>3, <3>4
  <2>7. Through(w, v \cap Low(Size(w))) = Through(word, x \cap Low(Size(word)))
    BY <2>2
  <2>8. \A u, s : Plainly(u, s).v = u
    BY DEF Plainly
  <2>. HIDE DEF v
  <2>. QED
    BY <2>5, <2>6, <2>7, <2>8 DEF Value
<1>. QED
  BY <1>2, <1>3, ValueSound

\* The bits that pass.
Fitting(w) ==
  /\ w.op \in ShiftOps => w.k \in 1 .. Size(w) - 1
  /\ w.op \in {"ubfx", "sbfx", "ubfiz", "sbfiz"} => w.k \in Low(Size(w)) /\ w.wd \in 1 .. Size(w) - w.k

LEMMA RealFits == ASSUME NEW w, Real(w) PROVE Fitting(w)
BY DEF Real, Encodable, Fitting, ExtractOps, PlaceOps

LEMMA ThroughShift ==
  ASSUME NEW w, Fitting(w), NEW x \in SUBSET Low(Size(w))
  PROVE  /\ w.op = "lsl" => Through(w, x) = {i \in Low(Size(w)) : i - w.k \in x}
         /\ w.op = "lsr" => Through(w, x) = {i \in Low(Size(w)) : i + w.k \in x}
         /\ w.op = "asr" => Through(w, x) = {i \in Low(Size(w)) : i + w.k \in x
                                               \/ (i + w.k >= Size(w) /\ Size(w) - 1 \in x)}
<1>1. Size(w) \in Nat \ {0}
  BY Widths
<1>2. CASE w.op \in {"lsl", "lsr", "asr"}
  <2>1. w.op \in ShiftOps /\ w.k \in 1 .. Size(w) - 1
    BY <1>2 DEF Fitting, ShiftOps
  <2>2. Through(w, x) = ShiftBy(w.op, x, w.k, Size(w))
    BY <2>1, <1>2 DEF Through
  <2>3. Size(w) \in Nat /\ w.k \in Nat /\ w.k \in 0 .. Size(w) /\ w.k \in 0 .. Size(w) - 1
    BY <1>1, <2>1
  <2>4. CASE w.op = "lsl"
    <3>1. Through(w, x) = Lsl(x, w.k, Size(w))
      BY <2>2, <2>4 DEF ShiftBy
    <3>. QED
      BY <2>3, <2>4, <3>1, LslBits
  <2>5. CASE w.op = "lsr"
    <3>1. Through(w, x) = Lsr(x, w.k)
      BY <2>2, <2>5 DEF ShiftBy
    <3>. QED
      BY <2>3, <2>5, <3>1, LsrBits
  <2>6. CASE w.op = "asr"
    <3>1. Through(w, x) = Asr(x, w.k, Size(w))
      BY <2>2, <2>6 DEF ShiftBy
    <3>. QED
      BY <2>3, <2>6, <3>1, AsrBits
  <2>. QED
    BY <1>2, <2>4, <2>5, <2>6
<1>. QED
  BY <1>2

LEMMA ThroughField ==
  ASSUME NEW w, Fitting(w), NEW x \in SUBSET Low(Size(w))
  PROVE  /\ w.op = "ubfx" => Through(w, x) = {i \in Low(Size(w)) : i < w.wd /\ i + w.k \in x}
         /\ w.op = "sbfx" => Through(w, x) = {i \in Low(Size(w)) : (i < w.wd /\ i + w.k \in x)
                                                \/ (i >= w.wd - 1 /\ w.wd - 1 + w.k \in x)}
         /\ w.op = "ubfiz" => Through(w, x) = {i \in Low(Size(w)) : i - w.k \in x /\ i - w.k < w.wd}
         /\ w.op = "sbfiz" => Through(w, x) = {i \in Low(Size(w)) : (i - w.k \in x /\ i - w.k < w.wd)
                                                \/ (i >= w.k + w.wd - 1 /\ w.wd - 1 \in x)}
<1>. PICK s : s = Size(w)
  OBVIOUS
<1>1. s \in Nat \ {0} /\ s \in Nat
  BY Widths
<1>2. SUFFICES ASSUME w.op \in {"ubfx", "sbfx", "ubfiz", "sbfiz"}
      PROVE  /\ w.op = "ubfx" => Through(w, x) = {i \in Low(s) : i < w.wd /\ i + w.k \in x}
             /\ w.op = "sbfx" => Through(w, x) = {i \in Low(s) : (i < w.wd /\ i + w.k \in x)
                                                \/ (i >= w.wd - 1 /\ w.wd - 1 + w.k \in x)}
             /\ w.op = "ubfiz" => Through(w, x) = {i \in Low(s) : i - w.k \in x /\ i - w.k < w.wd}
             /\ w.op = "sbfiz" => Through(w, x) = {i \in Low(s) : (i - w.k \in x /\ i - w.k < w.wd)
                                                \/ (i >= w.k + w.wd - 1 /\ w.wd - 1 \in x)}
  OBVIOUS
<1>. PICK k, wd : k = w.k /\ wd = w.wd
  OBVIOUS
<1>3. w.k = k /\ w.wd = wd /\ Size(w) = s /\ x \in SUBSET Low(s)
  OBVIOUS
<1>4. k \in 0 .. s - 1 /\ wd \in 1 .. s - k /\ w.op \notin ShiftOps
  BY <1>2, <1>3 DEF Fitting, Low, ShiftOps
<1>5. k \in Nat /\ wd \in Int /\ wd <= s /\ wd <= s - k /\ wd - 1 \in Nat /\ k + wd - 1 \in Nat
  BY <1>1, <1>4
<1>6. Extract(x, k, wd) = {i \in Low(wd) : i + k \in x}
  BY <1>1, <1>3, <1>5, ExtractBits
<1>7. Place(x, k, wd) = {i \in Low(s) : i - k \in x /\ i - k < wd}
  BY <1>1, <1>3, <1>5, PlaceBits
<1>8. \A i : i \in Low(wd) <=> i \in Low(s) /\ i < wd
  BY <1>1, <1>5 DEF Low
<1>9. CASE w.op = "ubfx"
  <2>1. Through(w, x) = Extract(x, k, wd)
    BY <1>3, <1>4, <1>9 DEF Through
  <2>. QED
    BY <1>3, <1>6, <1>8, <1>9, <2>1
<1>10. CASE w.op = "sbfx"
  <2>1. Through(w, x) = Extend(Extract(x, k, wd), wd - 1, s)
    BY <1>3, <1>4, <1>10 DEF Through
  <2>. PICK e : e = Extract(x, k, wd)
    OBVIOUS
  <2>2. e = {i \in Low(s) : i < wd /\ i + k \in x}
    BY <1>6, <1>8
  <2>3. Extend(e, wd - 1, s) = {i \in Low(s) : i \in e \/ (i >= wd - 1 /\ wd - 1 \in e)}
    BY <1>1, <1>5, <2>2, ExtendBits
  <2>4. wd - 1 \in e <=> wd - 1 + k \in x
    BY <1>1, <1>5, <2>2 DEF Low
  <2>. QED
    BY <1>3, <1>10, <2>1, <2>2, <2>3, <2>4
<1>11. CASE w.op = "ubfiz"
  <2>1. Through(w, x) = Place(x, k, wd)
    BY <1>3, <1>4, <1>11 DEF Through
  <2>. QED
    BY <1>3, <1>7, <1>11, <2>1
<1>12. CASE w.op = "sbfiz"
  <2>1. Through(w, x) = Extend(Place(x, k, wd), k + wd - 1, s)
    BY <1>3, <1>4, <1>12 DEF Through
  <2>. PICK e : e = Place(x, k, wd)
    OBVIOUS
  <2>2. e = {i \in Low(s) : i - k \in x /\ i - k < wd}
    BY <1>7
  <2>3. Extend(e, k + wd - 1, s) = {i \in Low(s) : i \in e \/ (i >= k + wd - 1 /\ k + wd - 1 \in e)}
    BY <1>1, <1>5, <2>2, ExtendBits
  <2>4. k + wd - 1 \in e <=> wd - 1 \in x
    <3>1. (k + wd - 1) - k = wd - 1 /\ k + wd - 1 \in Low(s)
      BY <1>1, <1>4, <1>5 DEF Low
    <3>. QED
      BY <1>5, <2>2, <3>1
  <2>. QED
    BY <1>3, <1>12, <2>1, <2>2, <2>3, <2>4
<1>. QED
  BY <1>2, <1>9, <1>10, <1>11, <1>12

LEMMA ThroughMask ==
  ASSUME NEW w, NEW x
  PROVE  /\ w.op \in {"andi", "andsi"} => Through(w, x) = x \cap w.mask
         /\ w.op = "orr" => Through(w, x) = x
         /\ w.op = "mov" => Through(w, x) = w.mask
BY DEF Through, ShiftOps

LEMMA ThroughFits ==
  ASSUME NEW w, Fitting(w), Passing(w), w.op # "mov", NEW x \in SUBSET Low(Size(w))
  PROVE  Through(w, x) \in SUBSET Low(Size(w))
<1>1. CASE w.op = "ror"
  <2>1. w.op \in ShiftOps /\ w.k \in 0 .. Size(w) - 1 /\ Size(w) \in Nat \ {0}
    BY <1>1, Widths DEF Fitting, ShiftOps
  <2>2. Through(w, x) = ShiftBy(w.op, x, w.k, Size(w))
    BY <1>1, <2>1 DEF Through
  <2>. QED
    BY <2>1, <2>2, ShiftFits
<1>2. CASE w.op # "ror"
  <2>1. w.op \in {"lsl", "lsr", "asr", "ubfx", "sbfx", "ubfiz", "sbfiz", "andi", "andsi", "orr"}
    BY <1>2 DEF Passing, MovW, ShiftOps
  <2>. PICK y, s : y = Through(w, x) /\ s = Size(w)
    OBVIOUS
  <2>2. CASE w.op \in {"lsl", "lsr", "asr"}
    BY <2>2, ThroughShift
  <2>3. CASE w.op \in {"ubfx", "sbfx", "ubfiz", "sbfiz"}
    BY <2>3, ThroughField
  <2>4. CASE w.op \in {"andi", "andsi", "orr"}
    BY <2>4, ThroughMask
  <2>. QED
    BY <2>1, <2>2, <2>3, <2>4
<1>. QED
  BY <1>1, <1>2

\* The same of three words of one width.
LEMMA PassingAlike ==
  ASSUME NEW p, NEW w, NEW word, Real(p), Real(w), Passing(p), Passing(w), Passing(word), p.op # "mov",
         p.d \in Gprs, p.op \notin FlagOps, Source(w) = p.d, Source(word) = Source(p), MovW(word) => word.sh \in ShiftOps,
         AsOne(w, word), p.sf = w.sf, word.sf = w.sf,
         \A x \in SUBSET Low(Size(w)) : Through(w, Through(p, x)) = Through(word, x)
  PROVE  Sound(<<p, w>>, Fold(p, w, word))
<1>. PICK s : s = Size(w)
  OBVIOUS
<1>1. Size(p) = s /\ Size(w) = s /\ Size(word) = s
  BY DEF Size
<1>2. ASSUME NEW x \in SUBSET Low(W)
      PROVE  Through(w, Through(p, x \cap Low(Size(p))) \cap Low(Size(w))) = Through(word, x \cap Low(Size(word)))
  <2>. PICK y : y = x \cap Low(s)
    OBVIOUS
  <2>1. y \in SUBSET Low(Size(p)) /\ y \in SUBSET Low(Size(w))
    BY <1>1
  <2>2. Through(p, y) \in SUBSET Low(Size(p))
    BY <2>1, RealFits, ThroughFits
  <2>3. Through(p, y) \cap Low(s) = Through(p, y)
    BY <1>1, <2>2
  <2>. QED
    BY <1>1, <2>1, <2>3
<1>. QED
  BY <1>1, <1>2, PassingSound

LEMMA BitfieldIsSound ==
  ASSUME NEW p, NEW w, Real(p), Real(w), BitfieldOpens(p), NEW fold \in BitfieldFold(p, w)
  PROVE  Sound(<<p, w>>, fold)
<1>. PICK s, k, l : s = Size(w) /\ k = p.k /\ l = w.k
  OBVIOUS
<1>1. /\ p.op = "lsl" /\ p.d # R31 /\ w.op \in {"lsr", "asr"} /\ p.sf = w.sf /\ w.d = p.d /\ w.n = p.d
      /\ p.op \in ShiftOps /\ w.op \in ShiftOps /\ p.op \notin FlagOps /\ w.op \notin FlagOps /\ p.d \in Gprs
  BY RealWord DEF BitfieldOpens, BitfieldFold, SameWidth, InPlace, ShiftOps, FlagOps, CondCmpOps, CondCmpImmOps, Reg
<1>2. Size(p) = s /\ Size(w) = s /\ s \in Nat \ {0} /\ k \in 1 .. s - 1 /\ l \in 1 .. s - 1
  BY <1>1, Widths, RealFits DEF Size, Fitting
<1>. PICK op, at, wd :
       IF l < k THEN op = (IF w.op = "asr" THEN "sbfiz" ELSE "ubfiz") /\ at = k - l /\ wd = s - k
       ELSE op = (IF w.op = "asr" THEN "sbfx" ELSE "ubfx") /\ at = l - k /\ wd = s - l
  <2>1. CASE l < k
    BY <2>1
  <2>2. CASE ~(l < k)
    BY <2>2
  <2>. QED
    BY <2>1, <2>2
<1>. PICK word : word = Field(op, w.sf, w.d, p.n, at, wd)
  OBVIOUS
<1>3. fold = Fold(p, w, word)
  BY DEF BitfieldFold
<1>4. word.op = op /\ word.sf = w.sf /\ word.d = w.d /\ word.n = p.n /\ word.k = at /\ word.wd = wd /\ Size(word) = s
  BY <1>2, FieldIs DEF Size
<1>5. op \in {"ubfx", "sbfx", "ubfiz", "sbfiz"} /\ at \in 0 .. s - 1 /\ wd \in 1 .. s - at
  BY <1>2
<1>6. Fitting(word) /\ Passing(word) /\ ~MovW(word) /\ AsOne(w, word)
  BY <1>1, <1>4, <1>5, RealWord DEF Fitting, Passing, MovW, AsOne, ShiftOps, Low, ComputeOps, ExtractOps, PlaceOps,
     FlagOps, CondCmpOps, CondCmpImmOps
<1>7. Source(p) = p.n /\ Source(w) = p.d /\ Source(word) = p.n /\ Passing(p) /\ Passing(w) /\ p.op # "mov"
  BY <1>1, <1>4, <1>6 DEF Source, MovW, Passing
<1>8. ASSUME NEW x \in SUBSET Low(Size(w)) PROVE Through(w, Through(p, x)) = Through(word, x)
  <2>. PICK y : y = Through(p, x)
    OBVIOUS
  <2>1. y = {i \in Low(s) : i - k \in x} /\ x \in SUBSET Low(s)
    BY <1>1, <1>2, RealFits, ThroughShift
  <2>2. y \in SUBSET Low(Size(w))
    BY <1>2, <2>1
  <2>3. \A i \in Low(s) : i + l \in y <=> i + l < s /\ (i + l) - k \in x
    BY <1>2, <2>1 DEF Low
  <2>4. s - 1 \in y <=> s - 1 - k \in x
    BY <1>2, <2>1 DEF Low
  <2>5. \A i \in x : i \in 0 .. s - 1
    BY <2>1 DEF Low
  <2>6. CASE w.op = "lsr"
    <3>1. Through(w, y) = {i \in Low(s) : i + l \in y}
      BY <1>2, <2>2, <2>6, RealFits, ThroughShift
    <3>2. CASE l < k
      <4>1. Through(word, x) = {i \in Low(s) : i - (k - l) \in x /\ i - (k - l) < s - k}
        BY <1>2, <1>4, <1>6, <2>1, <2>6, <3>2, ThroughField
      <4>2. \A i \in Low(s) : (i + l) - k = i - (k - l) /\ (i + l < s <=> i - (k - l) < s - k)
        BY <1>2 DEF Low
      <4>. QED
        BY <2>3, <3>1, <4>1, <4>2
    <3>3. CASE ~(l < k)
      <4>1. Through(word, x) = {i \in Low(s) : i < s - l /\ i + (l - k) \in x}
        BY <1>2, <1>4, <1>6, <2>1, <2>6, <3>3, ThroughField
      <4>2. \A i \in Low(s) : (i + l) - k = i + (l - k) /\ (i + l < s <=> i < s - l)
        BY <1>2 DEF Low
      <4>. QED
        BY <2>3, <3>1, <4>1, <4>2
    <3>. QED
      BY <3>2, <3>3
  <2>7. CASE w.op = "asr"
    <3>1. Through(w, y) = {i \in Low(s) : i + l \in y \/ (i + l >= s /\ s - 1 \in y)}
      BY <1>2, <2>2, <2>7, RealFits, ThroughShift
    <3>2. CASE l < k
      <4>1. Through(word, x) = {i \in Low(s) : (i - (k - l) \in x /\ i - (k - l) < s - k)
                                   \/ (i >= (k - l) + (s - k) - 1 /\ (s - k) - 1 \in x)}
        BY <1>2, <1>4, <1>6, <2>1, <2>7, <3>2, ThroughField
      <4>2. \A i \in Low(s) : /\ (i + l) - k = i - (k - l) /\ (i + l < s <=> i - (k - l) < s - k)
                              /\ (i >= (k - l) + (s - k) - 1 <=> i + l >= s \/ i + l = s - 1)
                              /\ i + l = s - 1 => i - (k - l) = s - 1 - k
        BY <1>2 DEF Low
      <4>3. (s - k) - 1 = s - 1 - k /\ s - 1 - k < s - k
        BY <1>2
      <4>. QED
        BY <2>3, <2>4, <3>1, <4>1, <4>2, <4>3
    <3>3. CASE ~(l < k)
      <4>1. Through(word, x) = {i \in Low(s) : (i < s - l /\ i + (l - k) \in x)
                                   \/ (i >= (s - l) - 1 /\ (s - l) - 1 + (l - k) \in x)}
        BY <1>2, <1>4, <1>6, <2>1, <2>7, <3>3, ThroughField
      <4>2. \A i \in Low(s) : /\ (i + l) - k = i + (l - k) /\ (i + l < s <=> i < s - l)
                              /\ (i >= (s - l) - 1 <=> i + l >= s \/ i + l = s - 1)
                              /\ i + l = s - 1 => i + (l - k) = s - 1 - k
        BY <1>2 DEF Low
      <4>3. (s - l) - 1 + (l - k) = s - 1 - k
        BY <1>2
      <4>. QED
        BY <2>3, <2>4, <3>1, <4>1, <4>2, <4>3
    <3>. QED
      BY <3>2, <3>3
  <2>. QED
    BY <1>1, <2>6, <2>7
<1>. QED
  BY <1>1, <1>3, <1>4, <1>6, <1>7, <1>8, PassingAlike

LEMMA FieldPasses ==
  ASSUME NEW op \in {"ubfx", "sbfx", "ubfiz", "sbfiz"}, NEW sf, NEW d, NEW n, NEW at, NEW wd,
         NEW word, word = Field(op, sf, d, n, at, wd),
         at \in 0 .. Size(word) - 1, wd \in 1 .. Size(word) - at
  PROVE  /\ word.op = op /\ word.sf = sf /\ word.d = d /\ word.n = n /\ word.k = at /\ word.wd = wd
         /\ Fitting(word) /\ Passing(word) /\ ~MovW(word) /\ Source(word) = n
         /\ word.op \in ComputeOps /\ word.op \notin FlagOps
<1>1. word.op = op /\ word.sf = sf /\ word.d = d /\ word.n = n /\ word.k = at /\ word.wd = wd
  BY FieldIs
<1>2. word.op \notin ShiftOps /\ word.op # "orr" /\ word.op \in ComputeOps /\ word.op \notin FlagOps
  BY <1>1 DEF ShiftOps, ComputeOps, ExtractOps, PlaceOps, FlagOps, CondCmpOps, CondCmpImmOps
<1>. QED
  BY <1>1, <1>2 DEF Fitting, Passing, MovW, Source, Low

LEMMA FieldFoldSound ==
  ASSUME NEW p, NEW w, Real(p), Real(w), Passing(p), Passing(w), p.op # "mov",
         p.d # R31, w.d # R31, p.op \notin FlagOps, w.op \notin FlagOps, Source(w) = p.d, p.sf = w.sf,
         NEW op \in {"ubfx", "sbfx", "ubfiz", "sbfiz"}, NEW at \in 0 .. Size(w) - 1, NEW wd \in 1 .. Size(w) - at,
         \A word : \A x \in SUBSET Low(Size(w)) :
           /\ Fitting(word) /\ Size(word) = Size(w) /\ word.op = op /\ word.k = at /\ word.wd = wd
           => Through(w, Through(p, x)) = Through(word, x)
  PROVE  Sound(<<p, w>>, Fold(p, w, Field(op, w.sf, w.d, Source(p), at, wd)))
<1>. PICK word : word = Field(op, w.sf, w.d, Source(p), at, wd)
  OBVIOUS
<1>1. Size(word) = Size(w)
  BY FieldIs DEF Size
<1>2. /\ word.op = op /\ word.sf = w.sf /\ word.d = w.d /\ word.n = Source(p) /\ word.k = at /\ word.wd = wd
      /\ Fitting(word) /\ Passing(word) /\ ~MovW(word) /\ Source(word) = Source(p)
      /\ word.op \in ComputeOps /\ word.op \notin FlagOps
  BY <1>1, FieldPasses
<1>3. AsOne(w, word) /\ p.d \in Gprs
  BY <1>2, RealWord DEF AsOne, Reg
<1>4. \A x \in SUBSET Low(Size(w)) : Through(w, Through(p, x)) = Through(word, x)
  BY <1>1, <1>2
<1>5. Sound(<<p, w>>, Fold(p, w, word))
  BY <1>2, <1>3, <1>4, PassingAlike
<1>. QED
  BY <1>5

LEMMA MaskInside ==
  ASSUME NEW w, Real(w), w.op \in {"andi", "andsi", "eori"}
  PROVE  w.mask \in SUBSET Low(Size(w)) /\ w.mask # {}
<1>1. w.mask \in BitmaskImmediates[Size(w)] /\ Size(w) \in {H, W}
  BY Widths DEF Real, Encodable, ImmLogicOps
<1>. QED
  BY <1>1, BitmaskHasBits

\* A mask of the low bits.
LEMMA LowMaskIs ==
  ASSUME NEW w, Real(w), LowMask(w)
  PROVE  /\ w.op = "andi" /\ w.mask = Low(Cardinality(w.mask)) /\ Cardinality(w.mask) \in 1 .. Size(w)
         /\ Passing(w) /\ ~MovW(w) /\ Source(w) = w.n /\ w.op \notin FlagOps
<1>1. Cardinality(w.mask) \in 1 .. Size(w) /\ w.op = "andi" /\ w.mask = Low(Cardinality(w.mask))
  BY RealIsDecoded, LowMaskWidth DEF LowMask, Bitwidth, Size
<1>. QED
  BY <1>1 DEF Passing, MovW, Source, FlagOps, CondCmpOps, CondCmpImmOps

LEMMA ShiftPasses ==
  ASSUME NEW w, Real(w), w.op \in ShiftOps
  PROVE  /\ w.k \in 1 .. Size(w) - 1 /\ Size(w) \in Nat \ {0} /\ Passing(w) /\ ~MovW(w) /\ Source(w) = w.n
         /\ w.op \notin FlagOps /\ w.op # "mov"
BY RealFits, Widths DEF Fitting, Passing, MovW, Source, ShiftOps, FlagOps, CondCmpOps, CondCmpImmOps

LEMMA LsrAndIsSound ==
  ASSUME NEW p, NEW w, Real(p), Real(w), LsrAndOpens(p), NEW fold \in LsrAndFold(p, w)
  PROVE  Sound(<<p, w>>, fold)
<1>. PICK s, k, c : s = Size(w) /\ k = p.k /\ c = Cardinality(w.mask)
  OBVIOUS
<1>. PICK wd : wd = Min({c, s - k})
  OBVIOUS
<1>1. /\ p.op \in {"lsr", "asr"} /\ p.d # R31 /\ LowMask(w) /\ p.sf = w.sf /\ w.n = p.d /\ w.d # R31
      /\ ~(p.op = "asr" /\ c + k > s) /\ p.op \in ShiftOps
      /\ fold = Fold(p, w, Field("ubfx", w.sf, w.d, p.n, k, wd))
  BY DEF LsrAndOpens, LsrAndFold, SameWidth, ShiftOps
<1>2. Size(p) = s /\ Size(w) = s /\ s \in Nat \ {0} /\ k \in 1 .. s - 1 /\ c \in 1 .. s /\ w.mask = Low(c)
  BY <1>1, ShiftPasses, LowMaskIs DEF Size
<1>3. wd \in 1 .. s - k /\ wd \in {c, s - k} /\ wd <= c
  <2>1. c \in Nat /\ s - k \in Nat
    BY <1>2
  <2>. QED
    BY <1>2, <2>1, Smaller
<1>4. ASSUME NEW x \in SUBSET Low(Size(w)), NEW word,
             Fitting(word), Size(word) = Size(w), word.op = "ubfx", word.k = k, word.wd = wd
      PROVE  Through(w, Through(p, x)) = Through(word, x)
  <2>1. Through(word, x) = {i \in Low(s) : i < wd /\ i + k \in x} /\ x \in SUBSET Low(s)
    BY <1>2, <1>4, ThroughField
  <2>. PICK y : y = Through(p, x)
    OBVIOUS
  <2>2. \A i \in Low(s), j \in Low(c) : i \in y /\ i = j <=> i = j /\ i + k \in x
    <3>1. CASE p.op = "lsr"
      BY <1>2, <2>1, <3>1, RealFits, ThroughShift
    <3>2. CASE p.op = "asr"
      <4>1. y = {i \in Low(s) : i + k \in x \/ (i + k >= s /\ s - 1 \in x)}
        BY <1>2, <2>1, <3>2, RealFits, ThroughShift
      <4>2. \A j \in Low(c) : ~(j + k >= s)
        BY <1>1, <1>2, <3>2 DEF Low
      <4>. QED
        BY <4>1, <4>2
    <3>. QED
      BY <1>1, <3>1, <3>2
  <2>3. y \in SUBSET Low(s)
    BY <1>1, <1>2, <2>1, RealFits, ShiftPasses, ThroughFits
  <2>4. Through(w, y) = y \cap Low(c)
    BY <1>1, <1>2, LowMaskIs, ThroughMask
  <2>5. \A i \in Low(s) : i + k \in x => (i < wd <=> i \in Low(c))
    BY <1>2, <1>3, <2>1 DEF Low
  <2>6. \A i \in Low(s) : i < wd => i \in Low(c)
    BY <1>2, <1>3 DEF Low
  <2>. QED
    BY <2>1, <2>2, <2>3, <2>4, <2>5, <2>6
<1>5. p.n = Source(p) /\ k \in 0 .. Size(w) - 1 /\ wd \in 1 .. Size(w) - k
  BY <1>1, <1>2, <1>3, ShiftPasses
<1>6. Sound(<<p, w>>, Fold(p, w, Field("ubfx", w.sf, w.d, Source(p), k, wd)))
  BY ZenonT(30), <1>1, <1>4, <1>5, ShiftPasses, LowMaskIs, FieldFoldSound
<1>. QED
  BY <1>1, <1>5, <1>6

LEMMA AndLsrIsSound ==
  ASSUME NEW p, NEW w, Real(p), Real(w), AndLsrOpens(p), NEW fold \in AndLsrFold(p, w)
  PROVE  Sound(<<p, w>>, fold)
<1>. PICK s, l, top, bottom : s = Size(w) /\ l = w.k /\ top = Max(p.mask) /\ bottom = Min(p.mask)
  OBVIOUS
<1>. PICK wd : wd = top + 1 - l
  OBVIOUS
<1>1. /\ p.op = "andi" /\ p.d # R31 /\ p.mask = bottom .. top /\ p.mask # {} /\ w.op = "lsr" /\ p.sf = w.sf
      /\ w.n = p.d /\ w.d # R31 /\ bottom <= l /\ l <= top /\ w.op \in ShiftOps
      /\ fold = Fold(p, w, Field("ubfx", w.sf, w.d, p.n, l, wd))
  BY DEF AndLsrOpens, AndLsrFold, SameWidth, ShiftOps, OneRun, InPlace
<1>2. Size(p) = s /\ Size(w) = s /\ s \in Nat \ {0} /\ l \in 1 .. s - 1
  BY <1>1, ShiftPasses DEF Size
<1>3. bottom \in 0 .. s - 1 /\ top \in 0 .. s - 1
  <2>1. p.mask \in SUBSET Low(s)
    BY <1>1, <1>2, MaskInside
  <2>2. top \in p.mask /\ bottom \in p.mask
    BY <1>1, <1>2, <2>1, MaskEnds
  <2>. QED
    BY <2>1, <2>2 DEF Low
<1>4. Passing(p) /\ ~MovW(p) /\ Source(p) = p.n /\ p.op \notin FlagOps /\ p.op # "mov"
  BY <1>1 DEF Passing, MovW, Source, FlagOps, CondCmpOps, CondCmpImmOps
<1>5. ASSUME NEW x \in SUBSET Low(Size(w)), NEW word,
             Fitting(word), Size(word) = Size(w), word.op = "ubfx", word.k = l, word.wd = wd
      PROVE  Through(w, Through(p, x)) = Through(word, x)
  <2>1. Through(word, x) = {i \in Low(s) : i < wd /\ i + l \in x}
    BY <1>2, <1>5, ThroughField
  <2>. PICK y : y = x \cap (bottom .. top)
    OBVIOUS
  <2>2. Through(p, x) = y /\ y \in SUBSET Low(Size(w))
    BY <1>1, <1>2, ThroughMask
  <2>3. Through(w, y) = {i \in Low(s) : i + l \in y}
    BY <1>1, <1>2, <2>2, RealFits, ThroughShift
  <2>4. \A i \in Low(s) : i + l \in bottom .. top <=> i < wd
    BY SMTT(30), <1>1, <1>2, <1>3 DEF Low
  <2>. QED
    BY <2>1, <2>2, <2>3, <2>4
<1>6. l \in 0 .. Size(w) - 1 /\ wd \in 1 .. Size(w) - l
  BY <1>1, <1>2, <1>3
<1>7. Sound(<<p, w>>, Fold(p, w, Field("ubfx", w.sf, w.d, Source(p), l, wd)))
  BY <1>1, <1>4, <1>5, <1>6, ShiftPasses, FieldFoldSound
<1>. QED
  BY <1>1, <1>4, <1>7

LEMMA MaskedPasses ==
  ASSUME NEW op \in {"andi", "andsi"}, NEW sf, NEW d, NEW n, NEW mask, NEW word, word = Masked(op, sf, d, n, mask)
  PROVE  /\ word.op = op /\ word.sf = sf /\ word.d = d /\ word.n = n /\ word.mask = mask
         /\ Passing(word) /\ ~MovW(word) /\ Source(word) = n /\ word.op \in ComputeOps
         /\ word.op \in FlagOps <=> op = "andsi"
<1>1. word.op = op /\ word.sf = sf /\ word.d = d /\ word.n = n /\ word.mask = mask
  BY MaskedIs
<1>2. word.op # "orr" /\ word.op \in ComputeOps /\ (word.op \in FlagOps <=> op = "andsi")
  BY <1>1 DEF ComputeOps, ImmLogicOps, FlagOps, CondCmpOps, CondCmpImmOps
<1>. QED
  BY <1>1, <1>2 DEF Passing, MovW, Source

\* A zero-extension or a mask of the low bits, as the check reads it.
LEMMA LowFieldIs ==
  ASSUME NEW p, Real(p), NEW f \in LowField(p), NEW w, f.sf = w.sf
  PROVE  /\ p.d # R31 /\ p.op # "mov" /\ p.op \notin FlagOps /\ Passing(p) /\ Source(p) = f.n
         /\ f.wd \in 1 .. Size(w)
         /\ \A x \in SUBSET Low(W) : Through(p, x \cap Low(Size(p))) \cap Low(Size(w)) = x \cap Low(f.wd)
<1>1. CASE LowMask(p) /\ p.d # R31
  <2>1. f.n = p.n /\ f.wd = Cardinality(p.mask) /\ f.sf = p.sf
    BY <1>1 DEF LowField
  <2>2. /\ p.op = "andi" /\ p.mask = Low(f.wd) /\ f.wd \in 1 .. Size(p)
        /\ Passing(p) /\ ~MovW(p) /\ Source(p) = p.n /\ p.op \notin FlagOps
    BY <1>1, <2>1, LowMaskIs
  <2>3. Size(p) = Size(w)
    BY <2>1 DEF Size
  <2>4. ASSUME NEW x \in SUBSET Low(W) PROVE Through(p, x \cap Low(Size(p))) \cap Low(Size(w)) = x \cap Low(f.wd)
    <3>1. Through(p, x \cap Low(Size(p))) = (x \cap Low(Size(p))) \cap Low(f.wd)
      BY <2>2, ThroughMask
    <3>2. Low(f.wd) \subseteq Low(Size(w))
      BY <2>2, <2>3, Widths DEF Low
    <3>. QED
      BY <2>3, <3>1, <3>2
  <2>. QED
    BY <1>1, <2>1, <2>2, <2>3, <2>4
<1>2. CASE UbfmZext(p) /\ p.d # R31 /\ f.n = p.n /\ f.wd = p.wd /\ f.sf = p.sf
  <2>1. Size(p) = Size(w) /\ Size(p) \in Nat \ {0}
    BY <1>2, Widths DEF Size
  <2>2. /\ p.op = "ubfx" /\ p.k = 0 /\ f.wd \in 1 .. Size(p) /\ Passing(p) /\ ~MovW(p) /\ Source(p) = p.n
        /\ p.op \notin FlagOps /\ p.op # "mov"
    BY <1>2, <2>1, RealFits DEF UbfmZext, Fitting, Passing, MovW, Source, FlagOps, CondCmpOps, CondCmpImmOps
  <2>3. ASSUME NEW x \in SUBSET Low(W) PROVE Through(p, x \cap Low(Size(p))) \cap Low(Size(w)) = x \cap Low(f.wd)
    <3>. PICK y : y = x \cap Low(Size(p))
      OBVIOUS
    <3>1. Through(p, y) = {i \in Low(Size(p)) : i < f.wd /\ i + 0 \in y}
      BY <1>2, <2>2, RealFits, ThroughField
    <3>2. \A i \in Low(Size(p)) : i + 0 = i /\ (i < f.wd <=> i \in Low(f.wd))
      BY <2>1, <2>2 DEF Low
    <3>3. Low(f.wd) \subseteq Low(Size(p))
      BY <2>1, <2>2 DEF Low
    <3>. QED
      BY <2>1, <3>1, <3>2, <3>3
  <2>. QED
    BY <1>2, <2>1, <2>2, <2>3
<1>3. CASE MovW(p) /\ p.d # R31 /\ f.n = p.m /\ f.wd = H /\ f.sf = TRUE
  <2>1. Size(p) = H /\ Size(w) = W /\ H \in 1 .. W /\ Low(H) \subseteq Low(W)
    BY <1>3, AluAssumption DEF Size, MovW, Low
  <2>2. p.op = "orr" /\ Passing(p) /\ Source(p) = p.m /\ p.op \notin FlagOps /\ p.op # "mov"
    BY <1>3 DEF Passing, MovW, Source, FlagOps, CondCmpOps, CondCmpImmOps
  <2>3. ASSUME NEW x \in SUBSET Low(W) PROVE Through(p, x \cap Low(Size(p))) \cap Low(Size(w)) = x \cap Low(f.wd)
    <3>1. Through(p, x \cap Low(Size(p))) = x \cap Low(Size(p))
      BY <2>2, ThroughMask
    <3>. QED
      BY <1>3, <2>1, <3>1
  <2>. QED
    BY <1>3, <2>1, <2>2, <2>3
<1>4. \/ LowMask(p) /\ p.d # R31
      \/ UbfmZext(p) /\ p.d # R31 /\ f.n = p.n /\ f.wd = p.wd /\ f.sf = p.sf
      \/ MovW(p) /\ p.d # R31 /\ f.n = p.m /\ f.wd = H /\ f.sf = TRUE
  BY DEF LowField, ZextField
<1>. QED
  BY <1>1, <1>2, <1>3, <1>4

LEMMA UpIsSound ==
  ASSUME NEW p, NEW w, Real(p), Real(w), UpOpens(p), NEW fold \in UpFold(p, w)
  PROVE  Sound(<<p, w>>, fold)
<1>. PICK s, l : s = Size(w) /\ l = w.k
  OBVIOUS
<1>1. w.op = "lsl" /\ w.d = p.d /\ w.n = p.d /\ w.op \in ShiftOps
  BY DEF UpFold, InPlace, ShiftOps
<1>2. s \in Nat \ {0} /\ l \in 1 .. s - 1 /\ Passing(w) /\ Source(w) = w.n /\ w.op \notin FlagOps
  BY <1>1, ShiftPasses
<1>3. CASE \E f \in LowField(p) :
             fold = Fold(p, w, Field("ubfiz", w.sf, w.d, f.n, l, Min({f.wd, s - l}))) /\ f.sf = w.sf
  <2>1. PICK f \in LowField(p) :
             fold = Fold(p, w, Field("ubfiz", w.sf, w.d, f.n, l, Min({f.wd, s - l}))) /\ f.sf = w.sf
    BY <1>3
  <2>. PICK wd, word : wd = Min({f.wd, s - l}) /\ word = Field("ubfiz", w.sf, w.d, f.n, l, wd)
    OBVIOUS
  <2>2. /\ p.d # R31 /\ p.op # "mov" /\ p.op \notin FlagOps /\ Passing(p) /\ Source(p) = f.n
        /\ f.wd \in 1 .. s
        /\ \A x \in SUBSET Low(W) : Through(p, x \cap Low(Size(p))) \cap Low(s) = x \cap Low(f.wd)
    BY <2>1, LowFieldIs
  <2>3. wd \in 1 .. s - l /\ wd <= f.wd /\ wd \in {f.wd, s - l}
    <3>1. f.wd \in Nat /\ s - l \in Nat
      BY <1>2, <2>2
    <3>. QED
      BY <1>2, <2>2, <3>1, Smaller
  <2>4. Size(word) = s
    BY FieldIs DEF Size
  <2>5. /\ word.op = "ubfiz" /\ word.sf = w.sf /\ word.d = w.d /\ word.n = f.n /\ word.k = l /\ word.wd = wd
        /\ Fitting(word) /\ Passing(word) /\ ~MovW(word) /\ Source(word) = f.n
        /\ word.op \in ComputeOps /\ word.op \notin FlagOps
    <3>1. l \in 0 .. Size(word) - 1 /\ wd \in 1 .. Size(word) - l
      BY <1>2, <2>3, <2>4
    <3>. QED
      BY <3>1, FieldPasses
  <2>6. AsOne(w, word) /\ p.d \in Gprs
    BY <1>1, <1>2, <2>2, <2>5, RealWord DEF AsOne, Reg
  <2>7. ASSUME NEW x \in SUBSET Low(W)
        PROVE  Through(w, Through(p, x \cap Low(Size(p))) \cap Low(Size(w))) = Through(word, x \cap Low(Size(word)))
    <3>. PICK y : y = x \cap Low(f.wd)
      OBVIOUS
    <3>1. y \in SUBSET Low(s) /\ Through(p, x \cap Low(Size(p))) \cap Low(Size(w)) = y
      BY <2>2
    <3>2. Through(w, y) = {i \in Low(s) : i - l \in y}
      BY <1>1, <3>1, RealFits, ThroughShift
    <3>. PICK z : z = x \cap Low(s)
      OBVIOUS
    <3>3. Through(word, z) = {i \in Low(s) : i - l \in z /\ i - l < wd}
      BY <2>4, <2>5, ThroughField
    <3>4. \A i \in Low(s) : (i - l \in Low(f.wd)) <=> (i - l \in Low(s) /\ i - l < wd)
      BY <1>2, <2>2, <2>3 DEF Low
    <3>. QED
      BY <2>4, <3>1, <3>2, <3>3, <3>4
  <2>. QED
    BY <1>1, <1>2, <2>1, <2>2, <2>5, <2>6, <2>7, PassingSound
<1>4. CASE /\ fold = Fold(p, w, Masked("andi", w.sf, w.d, p.n, Low(s) \ Low(l)))
           /\ p.op = "lsr" /\ p.sf = w.sf /\ l = p.k /\ p.d # R31
  <2>. PICK word : word = Masked("andi", w.sf, w.d, p.n, Low(s) \ Low(l))
    OBVIOUS
  <2>1. /\ p.op \in ShiftOps /\ Passing(p) /\ Source(p) = p.n /\ p.op \notin FlagOps /\ p.op # "mov" /\ Size(p) = s
    BY <1>4, ShiftPasses DEF ShiftOps, Size
  <2>2. /\ word.op = "andi" /\ word.sf = w.sf /\ word.d = w.d /\ word.mask = Low(s) \ Low(l)
        /\ Passing(word) /\ ~MovW(word) /\ Source(word) = p.n /\ word.op \in ComputeOps /\ word.op \notin FlagOps
    BY MaskedPasses
  <2>3. AsOne(w, word) /\ p.d \in Gprs
    BY <1>1, <1>2, <1>4, <2>2, RealWord DEF AsOne, Reg
  <2>4. ASSUME NEW x \in SUBSET Low(Size(w)) PROVE Through(w, Through(p, x)) = Through(word, x)
    <3>. PICK y : y = Through(p, x)
      OBVIOUS
    <3>1. y = {i \in Low(s) : i + l \in x} /\ x \in SUBSET Low(s) /\ y \in SUBSET Low(Size(w))
      BY <1>4, <2>1, RealFits, ThroughShift
    <3>2. Through(w, y) = {i \in Low(s) : i - l \in y}
      BY <1>1, <3>1, RealFits, ThroughShift
    <3>3. Through(word, x) = x \cap (Low(s) \ Low(l))
      BY <2>2, ThroughMask
    <3>4. \A i \in Low(s) : (i - l \in Low(s) <=> i \notin Low(l)) /\ (i - l) + l = i
      BY <1>2 DEF Low
    <3>5. \A i \in Low(s) : i - l \in y <=> i \in x /\ i \notin Low(l)
      BY <3>1, <3>4
    <3>. QED
      BY <3>1, <3>2, <3>3, <3>5
  <2>. QED
    BY <1>1, <1>2, <1>4, <2>1, <2>2, <2>3, <2>4, PassingAlike
<1>5. p.d # R31
  BY DEF UpOpens, LowField, ZextField
<1>6. \/ \E f \in LowField(p) :
             fold = Fold(p, w, Field("ubfiz", w.sf, w.d, f.n, w.k, Min({f.wd, Size(w) - w.k}))) /\ f.sf = w.sf
      \/ /\ fold = Fold(p, w, Masked("andi", w.sf, w.d, p.n, Low(Size(w)) \ Low(w.k)))
         /\ p.op = "lsr" /\ p.sf = w.sf /\ w.k = p.k
  BY DEF UpFold, SameWidth
<1>. QED
  BY <1>3, <1>4, <1>5, <1>6

-----------------------------------------------------------------------------
(* Extensions and masks in a row.                                          *)

\* What a role passes, and what it does with the rest.
LEMMA RolePasses ==
  ASSUME NEW w, Real(w), ChainRole(w) \/ MovW(w)
  PROVE  /\ Passing(w) /\ w.op # "mov" /\ w.op \in ComputeOps /\ Passes(w) \in SUBSET Low(Size(w))
         /\ w.op \in FlagOps <=> w.op = "andsi"
         /\ ~SextRole(w) => \A x \in SUBSET Low(Size(w)) : Through(w, x) = x \cap Passes(w)
         /\ SextRole(w) =>
              /\ w.op = "sbfx" /\ w.wd \in 1 .. Size(w) /\ Passes(w) = Low(w.wd)
              /\ \A x \in SUBSET Low(Size(w)) :
                   Through(w, x) = {i \in Low(Size(w)) : (i < w.wd /\ i \in x) \/ (i >= w.wd - 1 /\ w.wd - 1 \in x)}
<1>. PICK s : s = Size(w)
  OBVIOUS
<1>1. s \in Nat \ {0} /\ w.op \in ComputeOps
  BY Widths, RealWord
<1>2. CASE w.op \in {"andi", "andsi"}
  <2>1. Passes(w) = w.mask /\ ~SextRole(w) /\ Passing(w) /\ w.op # "mov" /\ (w.op \in FlagOps <=> w.op = "andsi")
    BY <1>2 DEF Passes, SextRole, Passing, FlagOps, CondCmpOps, CondCmpImmOps
  <2>2. w.mask \in SUBSET Low(Size(w))
    BY <1>2, MaskInside
  <2>. QED
    BY <1>1, <1>2, <2>1, <2>2, ThroughMask
<1>3. CASE UbfmZext(w)
  <2>1. /\ Passes(w) = Low(w.wd) /\ ~SextRole(w) /\ Passing(w) /\ w.op = "ubfx" /\ w.k = 0
        /\ w.op \notin FlagOps
    BY <1>3 DEF UbfmZext, Passes, SextRole, Passing, FlagOps, CondCmpOps, CondCmpImmOps
  <2>2. w.wd \in 1 .. s
    BY <1>1, <2>1, RealFits DEF Fitting
  <2>3. ASSUME NEW x \in SUBSET Low(Size(w)) PROVE Through(w, x) = x \cap Passes(w)
    <3>1. Through(w, x) = {i \in Low(s) : i < w.wd /\ i + 0 \in x}
      BY <2>1, RealFits, ThroughField
    <3>2. \A i \in Low(s) : i + 0 = i /\ (i < w.wd <=> i \in Low(w.wd))
      BY <1>1, <2>2 DEF Low
    <3>. QED
      BY <2>1, <3>1, <3>2
  <2>4. Low(w.wd) \subseteq Low(s)
    BY <1>1, <2>2 DEF Low
  <2>. QED
    BY <1>1, <2>1, <2>3, <2>4
<1>4. CASE SextRole(w)
  <2>1. /\ Passes(w) = Low(w.wd) /\ Passing(w) /\ w.op = "sbfx" /\ w.k = 0 /\ w.op \notin FlagOps
    BY <1>4 DEF Passes, SextRole, Passing, FlagOps, CondCmpOps, CondCmpImmOps
  <2>2. w.wd \in 1 .. s
    BY <1>1, <2>1, RealFits DEF Fitting
  <2>3. ASSUME NEW x \in SUBSET Low(Size(w))
        PROVE  Through(w, x) = {i \in Low(s) : (i < w.wd /\ i \in x) \/ (i >= w.wd - 1 /\ w.wd - 1 \in x)}
    <3>1. Through(w, x) = {i \in Low(s) : (i < w.wd /\ i + 0 \in x) \/ (i >= w.wd - 1 /\ w.wd - 1 + 0 \in x)}
      BY <2>1, RealFits, ThroughField
    <3>2. w.wd - 1 + 0 = w.wd - 1 /\ \A i \in Low(s) : i + 0 = i
      BY <1>1, <2>2 DEF Low
    <3>. QED
      BY <3>1, <3>2
  <2>4. Low(w.wd) \subseteq Low(s)
    BY <1>1, <2>2 DEF Low
  <2>. QED
    BY <1>1, <1>4, <2>1, <2>2, <2>3, <2>4
<1>5. CASE MovW(w)
  <2>1. Passes(w) = Low(H) /\ ~SextRole(w) /\ Passing(w) /\ w.op = "orr" /\ s = H /\ w.op \notin FlagOps
    BY <1>5 DEF Passes, MovW, SextRole, Passing, Size, FlagOps, CondCmpOps, CondCmpImmOps
  <2>2. \A x : Through(w, x) = x
    BY <2>1, ThroughMask
  <2>. QED
    BY <1>1, <2>1, <2>2
<1>. QED
  BY <1>2, <1>3, <1>4, <1>5 DEF ChainRole

\* The bits a role passes are the source's, and the others do not matter to
\* it.
LEMMA RoleReads ==
  ASSUME NEW w, Real(w), ChainRole(w) \/ MovW(w), NEW x \in SUBSET Low(Size(w))
  PROVE  /\ Through(w, x) \cap Passes(w) = x \cap Passes(w)
         /\ \A y \in SUBSET Low(Size(w)) : x \cap Passes(w) = y \cap Passes(w) => Through(w, x) = Through(w, y)
<1>1. CASE ~SextRole(w)
  <2>1. \A y \in SUBSET Low(Size(w)) : Through(w, y) = y \cap Passes(w)
    BY <1>1, RolePasses
  <2>. QED
    BY <2>1
<1>2. CASE SextRole(w)
  <2>. PICK s, wd, keeps : s = Size(w) /\ wd = w.wd /\ keeps = Passes(w)
    OBVIOUS
  <2>1. s \in Nat \ {0}
    BY Widths
  <2>2. /\ wd \in 1 .. s /\ keeps = Low(wd)
        /\ \A y \in SUBSET Low(s) :
             Through(w, y) = {i \in Low(s) : (i < wd /\ i \in y) \/ (i >= wd - 1 /\ wd - 1 \in y)}
    BY <1>2, RolePasses
  <2>3. \A i \in Low(s) : i < wd <=> i \in keeps
    BY <2>1, <2>2 DEF Low
  <2>4. wd - 1 \in keeps /\ \A i \in keeps : i \in Low(s) /\ (i >= wd - 1 => i = wd - 1)
    BY <2>1, <2>2 DEF Low
  <2>5. Through(w, x) \cap keeps = x \cap keeps
    <3>1. Through(w, x) = {i \in Low(s) : (i < wd /\ i \in x) \/ (i >= wd - 1 /\ wd - 1 \in x)}
      BY <2>2
    <3>. QED
      BY <2>3, <2>4, <3>1
  <2>6. ASSUME NEW y \in SUBSET Low(s), x \cap keeps = y \cap keeps PROVE Through(w, x) = Through(w, y)
    <3>1. /\ Through(w, x) = {i \in Low(s) : (i < wd /\ i \in x) \/ (i >= wd - 1 /\ wd - 1 \in x)}
          /\ Through(w, y) = {i \in Low(s) : (i < wd /\ i \in y) \/ (i >= wd - 1 /\ wd - 1 \in y)}
      BY <2>2
    <3>2. \A i \in Low(s) : i < wd => (i \in x <=> i \in y)
      BY <2>3, <2>6
    <3>3. wd - 1 \in x <=> wd - 1 \in y
      BY <2>4, <2>6
    <3>. QED
      BY <3>1, <3>2, <3>3
  <2>. QED
    BY <2>5, <2>6
<1>. QED
  BY <1>1, <1>2

LEMMA RenamedIs ==
  ASSUME NEW w, Real(w), NEW r, NEW word, word = [w EXCEPT !.n = r]
  PROVE  /\ word.op = w.op /\ word.sf = w.sf /\ word.d = w.d /\ word.n = r /\ word.m = w.m /\ word.a = w.a
         /\ word.sh = w.sh /\ word.k = w.k /\ word.wd = w.wd /\ word.mask = w.mask /\ word.cond = w.cond
         /\ Size(word) = Size(w)
<1>1. w \in Words
  BY DEF Real
<1>2. /\ word.op = w.op /\ word.sf = w.sf /\ word.d = w.d /\ word.n = r /\ word.m = w.m /\ word.a = w.a
      /\ word.sh = w.sh /\ word.k = w.k /\ word.wd = w.wd /\ word.mask = w.mask /\ word.cond = w.cond
  BY <1>1 DEF Words
<1>. QED
  BY <1>2 DEF Size

\* What a pair of roles computes of a register.
ChainValue(p, w, x) == Through(w, Through(p, x \cap Low(Size(p))) \cap Low(Size(w)))

LEMMA ReadThrough ==
  ASSUME NEW p, NEW w, Real(p), Real(w), ChainRole(p) \/ MovW(p), ChainRole(w) \/ MovW(w),
         Passes(w) \subseteq Passes(p),
         NEW x \in SUBSET Low(W)
  PROVE  ChainValue(p, w, x) = Through(w, x \cap Low(Size(w)))
<1>. PICK y, z : y = x \cap Low(Size(p)) /\ z = Through(p, y)
  OBVIOUS
<1>1. Passes(p) \subseteq Low(Size(p)) /\ Passes(w) \subseteq Low(Size(w))
  BY RolePasses
<1>2. z \cap Passes(p) = y \cap Passes(p)
  BY RoleReads
<1>3. (z \cap Low(Size(w))) \cap Passes(w) = (x \cap Low(Size(w))) \cap Passes(w)
  BY <1>1, <1>2
<1>. QED
  BY <1>3, RoleReads DEF ChainValue

LEMMA KeptByBoth ==
  ASSUME NEW p, NEW w, Real(p), Real(w), ChainRole(p) \/ MovW(p), ChainRole(w), ~SextRole(p),
         ~SextRole(w) \/ ConsumerIsNoop(p, w), NEW x \in SUBSET Low(W)
  PROVE  ChainValue(p, w, x) = x \cap (Passes(p) \cap Passes(w))
<1>1. /\ Passes(p) \subseteq Low(Size(p)) /\ Passes(w) \subseteq Low(Size(w))
      /\ \A y \in SUBSET Low(Size(p)) : Through(p, y) = y \cap Passes(p)
  BY RolePasses
<1>. PICK y : y = x \cap Passes(p)
  OBVIOUS
<1>2. Through(p, x \cap Low(Size(p))) = y
  BY <1>1
<1>3. CASE ~SextRole(w)
  <2>1. Through(w, y \cap Low(Size(w))) = (y \cap Low(Size(w))) \cap Passes(w)
    BY <1>3, RolePasses
  <2>. QED
    BY <1>1, <1>2, <2>1 DEF ChainValue
<1>4. CASE SextRole(w)
  <2>. PICK s, wd : s = Size(w) /\ wd = w.wd
    OBVIOUS
  <2>1. Passes(p) \subseteq Low(wd - 1)
    BY <1>4 DEF ConsumerIsNoop
  <2>2. s \in Nat \ {0}
    BY Widths
  <2>3. /\ wd \in 1 .. s /\ Passes(w) = Low(wd)
        /\ \A z \in SUBSET Low(s) :
             Through(w, z) = {i \in Low(s) : (i < wd /\ i \in z) \/ (i >= wd - 1 /\ wd - 1 \in z)}
    BY <1>4, RolePasses
  <2>4. \A i \in Low(wd - 1) : i \in Low(s) /\ i \in Low(wd) /\ i < wd /\ i # wd - 1
    BY <2>2, <2>3 DEF Low
  <2>5. y \in SUBSET Low(s) /\ y \cap Low(s) = y /\ wd - 1 \notin y /\ \A i \in y : i < wd
    BY <2>1, <2>4
  <2>6. Through(w, y) = {i \in Low(s) : (i < wd /\ i \in y) \/ (i >= wd - 1 /\ wd - 1 \in y)}
    BY <2>3, <2>5
  <2>7. Through(w, y) = y
    BY <2>5, <2>6
  <2>8. Passes(p) \cap Passes(w) = Passes(p)
    BY <2>1, <2>3, <2>4
  <2>. QED
    BY <1>2, <2>5, <2>7, <2>8 DEF ChainValue
<1>. QED
  BY <1>3, <1>4

LEMMA ExtendedTwice ==
  ASSUME NEW p, NEW w, Real(p), Real(w), SextRole(p), SextRole(w), p.wd <= w.wd, w.wd <= Size(p),
         NEW x \in SUBSET Low(W)
  PROVE  /\ p.wd \in 1 .. Size(w)
         /\ ChainValue(p, w, x) =
              {i \in Low(Size(w)) : (i < p.wd /\ i \in x) \/ (i >= p.wd - 1 /\ p.wd - 1 \in x)}
<1>. PICK s, t, k, l : s = Size(p) /\ t = Size(w) /\ k = p.wd /\ l = w.wd
  OBVIOUS
<1>1. s \in Nat \ {0} /\ t \in Nat \ {0}
  BY Widths
<1>2. /\ k \in 1 .. s /\ l \in 1 .. t /\ k <= l /\ l <= s
      /\ \A z \in SUBSET Low(s) :
           Through(p, z) = {i \in Low(s) : (i < k /\ i \in z) \/ (i >= k - 1 /\ k - 1 \in z)}
      /\ \A z \in SUBSET Low(t) :
           Through(w, z) = {i \in Low(t) : (i < l /\ i \in z) \/ (i >= l - 1 /\ l - 1 \in z)}
  BY RolePasses DEF ChainRole
<1>. PICK y, z : y = Through(p, x \cap Low(s)) /\ z = y \cap Low(t)
  OBVIOUS
<1>3. y = {i \in Low(s) : (i < k /\ i \in x \cap Low(s)) \/ (i >= k - 1 /\ k - 1 \in x \cap Low(s))}
  BY <1>2
<1>4. \A i \in Low(l) : i \in Low(s) /\ i \in Low(t)
  BY <1>1, <1>2 DEF Low
<1>5. k - 1 \in Low(l) /\ l - 1 \in Low(l) /\ (l - 1 < k => l - 1 = k - 1) /\ l - 1 >= k - 1
  BY <1>1, <1>2 DEF Low
<1>6. \A i \in Low(l) : i \in z <=> (i < k /\ i \in x) \/ (i >= k - 1 /\ k - 1 \in x)
  BY <1>3, <1>4, <1>5
<1>7. l - 1 \in z <=> k - 1 \in x
  BY <1>5, <1>6
<1>8. \A i \in Low(t) : (i < l <=> i \in Low(l)) /\ (i >= l - 1 => i >= k - 1) /\ (~(i < l) => i >= l - 1 /\ ~(i < k))
                        /\ (i < l /\ i >= l - 1 => i = l - 1)
  BY <1>1, <1>2 DEF Low
<1>9. Through(w, z) = {i \in Low(t) : (i < l /\ i \in z) \/ (i >= l - 1 /\ l - 1 \in z)}
  BY <1>2
<1>10. Through(w, z) = {i \in Low(t) : (i < k /\ i \in x) \/ (i >= k - 1 /\ k - 1 \in x)}
  BY <1>6, <1>7, <1>8, <1>9
<1>. QED
  BY <1>1, <1>2, <1>10 DEF ChainValue

\* The word that classify_aec makes of two roles, and when.
LEMMA ChainedIs ==
  ASSUME NEW p, NEW w, NEW word \in Chained(p, w), NEW keeps, keeps = Passes(p) \cap Passes(w)
  PROVE  \/ Passes(w) \subseteq Passes(p) /\ word = [w EXCEPT !.n = Source(p)]
         \/ /\ ~SextRole(p) /\ (~SextRole(w) \/ ConsumerIsNoop(p, w))
            /\ \/ w.op # "andsi" /\ keeps = {} /\ word = MovImm(w.sf, w.d, {})
               \/ word = Masked(IF w.op = "andsi" THEN "andsi" ELSE "andi", w.sf, w.d, Source(p), keeps)
               \/ /\ w.op # "andsi" /\ keeps \in BitmaskImmediates[H]
                  /\ word = Masked("andi", FALSE, w.d, Source(p), keeps)
         \/ /\ w.op # "andsi" /\ SextRole(p) /\ SextRole(w) /\ p.wd <= w.wd /\ w.wd <= Size(p)
            /\ word = Field("sbfx", w.sf, w.d, p.n, 0, p.wd)
         \/ /\ w.op # "andsi" /\ SextRole(p) /\ ~SextRole(w) /\ ConsumerIsNoop(p, w)
            /\ word = Field("sbfx", p.sf, w.d, p.n, 0, p.wd)
<1>. DEFINE noop  == ConsumerIsNoop(p, w)
            flags == w.op = "andsi"
            And(sf) == Masked(IF flags THEN "andsi" ELSE "andi", sf, w.d, Source(p), keeps)
            Sext(sf) == Field("sbfx", sf, w.d, p.n, 0, p.wd)
            Merged == CASE keeps = {} /\ flags  -> {}
                        [] keeps = {} /\ ~flags -> {MovImm(w.sf, w.d, {})}
                        [] keeps \in BitmaskImmediates[Size(w)] -> {And(w.sf)}
                        [] OTHER -> {And(sf) : sf \in {sf \in {FALSE} :
                                       w.sf /\ ~flags /\ keeps \in BitmaskImmediates[H]}}
            DeadInPlace == SextRole(p) /\ p.n = p.d /\ w.d = p.d /\ (UbfmZext(w) \/ LowMask(w))
<1>1. word \in IF noop /\ w.d = p.d /\ ~flags THEN {}
               ELSE IF ~noop /\ Passes(w) \subseteq Passes(p)
                    THEN IF DeadInPlace THEN {} ELSE {[w EXCEPT !.n = Source(p)]}
               ELSE IF ~SextRole(p) /\ (~SextRole(w) \/ noop) THEN Merged
               ELSE IF flags \/ ~SextRole(p) THEN {}
               ELSE IF SextRole(w) /\ p.wd <= w.wd /\ w.wd <= Size(p) THEN {Sext(w.sf)}
               ELSE IF ~SextRole(w) /\ noop THEN {Sext(p.sf)}
               ELSE {}
  BY DEF Chained
<1>2. word \in Merged =>
        \/ ~flags /\ keeps = {} /\ word = MovImm(w.sf, w.d, {})
        \/ word = And(w.sf)
        \/ ~flags /\ keeps \in BitmaskImmediates[H] /\ word = And(FALSE)
  <2>1. CASE keeps = {}
    <3>1. keeps \notin BitmaskImmediates[Size(w)]
      BY <2>1, Widths, BitmaskHasBits
    <3>2. CASE flags
      <4>1. Merged = {}
        BY <2>1, <3>1, <3>2
      <4>. HIDE DEF Merged
      <4>. QED
        BY <4>1
    <3>3. CASE ~flags
      <4>1. Merged = {MovImm(w.sf, w.d, {})}
        BY <2>1, <3>1, <3>3
      <4>. HIDE DEF Merged
      <4>. QED
        BY <2>1, <3>3, <4>1
    <3>. QED
      BY <3>2, <3>3
  <2>2. CASE keeps # {} /\ keeps \in BitmaskImmediates[Size(w)]
    <3>1. Merged = {And(w.sf)}
      BY <2>2
    <3>. HIDE DEF Merged
    <3>. QED
      BY <3>1
  <2>3. CASE keeps # {} /\ keeps \notin BitmaskImmediates[Size(w)]
    <3>1. Merged = {And(sf) : sf \in {sf \in {FALSE} : w.sf /\ ~flags /\ keeps \in BitmaskImmediates[H]}}
      BY <2>3
    <3>. HIDE DEF Merged
    <3>. QED
      BY <3>1
  <2>. QED
    BY <2>1, <2>2, <2>3
<1>. HIDE DEF Merged, DeadInPlace
<1>3. \/ Passes(w) \subseteq Passes(p) /\ word = [w EXCEPT !.n = Source(p)]
      \/ word \in Merged /\ ~SextRole(p) /\ (~SextRole(w) \/ noop)
      \/ ~flags /\ SextRole(p) /\ SextRole(w) /\ p.wd <= w.wd /\ w.wd <= Size(p) /\ word = Sext(w.sf)
      \/ ~flags /\ SextRole(p) /\ ~SextRole(w) /\ noop /\ word = Sext(p.sf)
  BY <1>1
<1>. QED
  BY <1>2, <1>3

LEMMA PassingAsOne ==
  ASSUME NEW w, NEW word, Real(w), Passing(w), Passing(word), word.d = w.d,
         word.op = "andsi" <=> w.op = "andsi", w.d # R31 \/ w.op = "andsi"
  PROVE  AsOne(w, word) /\ (w.op \in FlagOps <=> w.op = "andsi")
<1>1. ASSUME NEW v, Passing(v)
      PROVE  v.op \in ComputeOps /\ (v.op \in FlagOps <=> v.op = "andsi") /\ "andsi" \notin SpDest
  BY <1>1 DEF Passing, MovW, ComputeOps, ShiftOps, ExtractOps, PlaceOps, ImmLogicOps, LogicOps, FlagOps, CondCmpOps,
     CondCmpImmOps, SpDest
<1>. QED
  BY <1>1, RealWord DEF AsOne

LEMMA ChainIsSound ==
  ASSUME NEW p, NEW w, Real(p), Real(w), ChainOpens(p), NEW fold \in ChainFold(p, w)
  PROVE  Sound(<<p, w>>, fold)
<1>1. PICK word \in Chained(p, w) : fold = Fold(p, w, word) /\ ChainRole(w) /\ w.n = p.d /\ (w.d # R31 \/ w.op = "andsi")
  BY DEF ChainFold
<1>2. /\ ChainRole(p) \/ MovW(p)
      /\ p.op # "andsi" /\ p.d \in Gprs
  BY RealWord DEF ChainOpens, Reg, MovW
<1>3. /\ Passing(p) /\ Passing(w) /\ p.op \notin FlagOps
      /\ Passes(p) \subseteq Low(Size(p)) /\ Passes(w) \subseteq Low(Size(w))
  BY <1>1, <1>2, RolePasses
<1>4. ~MovW(w) /\ Source(w) = p.d
  BY <1>1 DEF ChainRole, MovW, UbfmZext, SextRole, Source
<1>5. SUFFICES /\ Passing(word) /\ ~MovW(word) /\ (Source(word) = Source(p) \/ word.op = "mov") /\ word.d = w.d
               /\ word.op = "andsi" <=> w.op = "andsi"
               /\ w.op = "andsi" => Size(w) = Size(word)
               /\ \A x \in SUBSET Low(W) : ChainValue(p, w, x) = Through(word, x \cap Low(Size(word)))
  <2>1. AsOne(w, word) /\ (w.op \in FlagOps <=> w.op = "andsi")
    BY <1>1, <1>3, <1>5, PassingAsOne
  <2>2. Sound(<<p, w>>, Fold(p, w, word))
    BY <1>2, <1>3, <1>4, <1>5, <2>1, PassingSound DEF ChainValue
  <2>. QED
    BY <1>1, <2>2
<1>. PICK keeps : keeps = Passes(p) \cap Passes(w)
  OBVIOUS
<1>6. CASE Passes(w) \subseteq Passes(p) /\ word = [w EXCEPT !.n = Source(p)]
  <2>1. /\ word.op = w.op /\ word.sf = w.sf /\ word.d = w.d /\ word.n = Source(p)
        /\ word.k = w.k /\ word.wd = w.wd /\ word.mask = w.mask /\ Size(word) = Size(w)
    BY <1>6, RenamedIs
  <2>2. ChainRole(w) => w.op # "orr"
    BY DEF ChainRole, UbfmZext, SextRole
  <2>3. Passing(word) /\ ~MovW(word) /\ Source(word) = Source(p)
    BY <1>1, <1>3, <2>1, <2>2 DEF Passing, MovW, Source
  <2>4. \A x : Through(word, x) = Through(w, x)
    BY <2>1 DEF Through
  <2>5. \A x \in SUBSET Low(W) : ChainValue(p, w, x) = Through(w, x \cap Low(Size(w)))
    BY <1>1, <1>2, <1>6, ReadThrough
  <2>. QED
    BY <2>1, <2>3, <2>4, <2>5
<1>7. CASE /\ ~SextRole(p) /\ (~SextRole(w) \/ ConsumerIsNoop(p, w))
           /\ \/ w.op # "andsi" /\ keeps = {} /\ word = MovImm(w.sf, w.d, {})
              \/ word = Masked(IF w.op = "andsi" THEN "andsi" ELSE "andi", w.sf, w.d, Source(p), keeps)
              \/ /\ w.op # "andsi" /\ keeps \in BitmaskImmediates[H]
                 /\ word = Masked("andi", FALSE, w.d, Source(p), keeps)
  <2>1. \A x \in SUBSET Low(W) : ChainValue(p, w, x) = x \cap keeps
    BY <1>1, <1>2, <1>7, KeptByBoth
  <2>2. CASE w.op # "andsi" /\ keeps = {} /\ word = MovImm(w.sf, w.d, {})
    <3>1. word.op = "mov" /\ word.d = w.d /\ word.mask = {}
      BY <2>2, MaskedIs DEF MovImm
    <3>2. Passing(word) /\ ~MovW(word)
      BY <3>1 DEF Passing, MovW
    <3>3. \A x : Through(word, x) = {}
      BY <3>1, ThroughMask
    <3>. QED
      BY <2>1, <2>2, <3>1, <3>2, <3>3
  <2>3. ASSUME NEW op \in {"andi", "andsi"}, NEW sf, word = Masked(op, sf, w.d, Source(p), keeps),
               op = "andsi" <=> w.op = "andsi", keeps \subseteq Low(Size(word)),
               w.op = "andsi" => sf = w.sf
        PROVE  /\ Passing(word) /\ ~MovW(word) /\ (Source(word) = Source(p) \/ word.op = "mov") /\ word.d = w.d
               /\ word.op = "andsi" <=> w.op = "andsi"
               /\ w.op = "andsi" => Size(w) = Size(word)
               /\ \A x \in SUBSET Low(W) : ChainValue(p, w, x) = Through(word, x \cap Low(Size(word)))
    <3>1. /\ word.op = op /\ word.sf = sf /\ word.d = w.d /\ word.mask = keeps
          /\ Passing(word) /\ ~MovW(word) /\ Source(word) = Source(p)
      BY <2>3, MaskedPasses
    <3>2. \A x : Through(word, x) = x \cap keeps
      BY <3>1, ThroughMask
    <3>3. \A x : (x \cap Low(Size(word))) \cap keeps = x \cap keeps
      BY <2>3
    <3>4. w.op = "andsi" => Size(w) = Size(word)
      BY <2>3, <3>1 DEF Size
    <3>5. ASSUME NEW x \in SUBSET Low(W) PROVE ChainValue(p, w, x) = Through(word, x \cap Low(Size(word)))
      BY <2>1, <3>2, <3>3
    <3>. QED
      BY <2>3, <3>1, <3>4, <3>5
  <2>4. CASE word = Masked(IF w.op = "andsi" THEN "andsi" ELSE "andi", w.sf, w.d, Source(p), keeps)
    <3>. PICK op : op = IF w.op = "andsi" THEN "andsi" ELSE "andi"
      OBVIOUS
    <3>1. op \in {"andi", "andsi"} /\ (op = "andsi" <=> w.op = "andsi") /\ word = Masked(op, w.sf, w.d, Source(p), keeps)
      BY <2>4
    <3>2. word.sf = w.sf
      BY <3>1, MaskedIs
    <3>3. keeps \subseteq Low(Size(word))
      BY <1>3, <3>2 DEF Size
    <3>. QED
      BY <2>3, <3>1, <3>3
  <2>5. CASE w.op # "andsi" /\ keeps \in BitmaskImmediates[H] /\ word = Masked("andi", FALSE, w.d, Source(p), keeps)
    <3>1. word.sf = FALSE
      BY <2>5 DEF Masked, Word
    <3>2. keeps \subseteq Low(Size(word))
      BY <2>5, <3>1, BitmaskHasBits DEF Size
    <3>. QED
      BY <2>3, <2>5, <3>2
  <2>. QED
    BY <1>7, <2>2, <2>4, <2>5
<1>8. CASE /\ w.op # "andsi" /\ SextRole(p) /\ SextRole(w) /\ p.wd <= w.wd /\ w.wd <= Size(p)
           /\ word = Field("sbfx", w.sf, w.d, p.n, 0, p.wd)
  <2>1. Size(word) = Size(w)
    BY <1>8, FieldIs DEF Size
  <2>2. ASSUME NEW x \in SUBSET Low(W)
        PROVE  /\ p.wd \in 1 .. Size(w)
               /\ ChainValue(p, w, x) =
                    {i \in Low(Size(w)) : (i < p.wd /\ i \in x) \/ (i >= p.wd - 1 /\ p.wd - 1 \in x)}
    BY <1>8, ExtendedTwice
  <2>3. 0 \in 0 .. Size(word) - 1 /\ p.wd \in 1 .. Size(word) - 0
    <3>1. {} \in SUBSET Low(W)
      OBVIOUS
    <3>. QED
      BY <2>1, <2>2, <3>1, Widths
  <2>4. /\ word.op = "sbfx" /\ word.sf = w.sf /\ word.d = w.d /\ word.k = 0 /\ word.wd = p.wd
        /\ Fitting(word) /\ Passing(word) /\ ~MovW(word) /\ Source(word) = p.n
    BY <1>8, <2>3, FieldPasses
  <2>5. Source(p) = p.n
    BY <1>8 DEF SextRole, Source, MovW
  <2>6. ASSUME NEW x \in SUBSET Low(W) PROVE ChainValue(p, w, x) = Through(word, x \cap Low(Size(word)))
    <3>. PICK s, k, y : s = Size(w) /\ k = p.wd /\ y = x \cap Low(s)
      OBVIOUS
    <3>1. Through(word, y) = {i \in Low(s) : (i < k /\ i + 0 \in y) \/ (i >= k - 1 /\ k - 1 + 0 \in y)}
      BY <2>1, <2>4, ThroughField
    <3>2. k - 1 + 0 = k - 1 /\ k - 1 \in Low(s) /\ \A i \in Low(s) : i + 0 = i
      BY <2>2, Widths DEF Low
    <3>3. Through(word, y) = {i \in Low(s) : (i < k /\ i \in x) \/ (i >= k - 1 /\ k - 1 \in x)}
      BY <3>1, <3>2
    <3>. QED
      BY <2>1, <2>2, <3>3
  <2>. QED
    BY <1>8, <2>4, <2>5, <2>6
<1>9. CASE /\ w.op # "andsi" /\ SextRole(p) /\ ~SextRole(w) /\ ConsumerIsNoop(p, w)
           /\ word = Field("sbfx", p.sf, w.d, p.n, 0, p.wd)
  <2>1. Size(word) = Size(p)
    BY <1>9, FieldIs DEF Size
  <2>2. p.wd \in 1 .. Size(p) /\ p.op = "sbfx" /\ p.k = 0
    BY <1>2, <1>9, RolePasses DEF SextRole
  <2>3. 0 \in 0 .. Size(word) - 1 /\ p.wd \in 1 .. Size(word) - 0
    BY <2>1, <2>2, Widths
  <2>4. /\ word.op = "sbfx" /\ word.sf = p.sf /\ word.d = w.d /\ word.k = 0 /\ word.wd = p.wd
        /\ Fitting(word) /\ Passing(word) /\ ~MovW(word) /\ Source(word) = p.n
    BY <1>9, <2>3, FieldPasses
  <2>5. Source(p) = p.n
    BY <1>9 DEF SextRole, Source, MovW
  <2>6. ASSUME NEW x \in SUBSET Low(W) PROVE ChainValue(p, w, x) = Through(word, x \cap Low(Size(word)))
    <3>. PICK y : y = x \cap Low(Size(p))
      OBVIOUS
    <3>1. Through(word, y) = Through(p, y)
      BY <2>1, <2>2, <2>4 DEF Through
    <3>2. Low(Size(p)) \subseteq Passes(w)
      BY <1>9 DEF ConsumerIsNoop
    <3>3. Through(p, y) \in SUBSET Low(Size(p))
      BY <1>3, <2>2, RealFits, ThroughFits
    <3>4. Through(p, y) \cap Low(Size(w)) = Through(p, y) /\ Through(p, y) \cap Passes(w) = Through(p, y)
      BY <1>3, <3>2, <3>3
    <3>5. \A z \in SUBSET Low(Size(w)) : Through(w, z) = z \cap Passes(w)
      BY <1>1, <1>9, RolePasses
    <3>6. Through(p, y) \in SUBSET Low(Size(w))
      BY <3>4
    <3>. QED
      BY <2>1, <3>1, <3>4, <3>5, <3>6 DEF ChainValue
  <2>. QED
    BY <1>9, <2>4, <2>5, <2>6
<1>. QED
  BY <1>6, <1>7, <1>8, <1>9, ChainedIs

\* A word that finds its register as it leaves it.
LEMMA KeepSound ==
  ASSUME NEW p, Decoded(p), p.d \in Gprs, NEW w, w.op \in ComputeOps \ FlagOps, w.d = p.d,
         \A m \in RegisterStates : Value(Exec(m, p), w) = Value(m, p)
  PROVE  Sound(<<p, w>>, Replace(<<p>>, {}))
<1>. SUFFICES ASSUME NEW m \in RegisterStates
              PROVE  Alike(Run(m, <<p, w>>), Run(m, <<p>>), {})
  BY DEF Sound, Replace
<1>. PICK n : n = Exec(m, p)
  OBVIOUS
<1>1. Run(m, <<p, w>>) = Exec(n, w) /\ Run(m, <<p>>) = n
  BY RunOfOne, RunOfTwo
<1>2. Shaped(n) /\ \A g \in Gprs : g = p.d => n.x[g] = Value(m, p)
  BY StatesAreShaped, AfterWord
<1>3. p.d # R31
  BY AluAssumption
<1>4. /\ Exec(n, w).sp = n.sp /\ Exec(n, w).flags = n.flags
      /\ \A g \in Gprs : Exec(n, w).x[g] = IF g = w.d THEN Value(n, w) ELSE n.x[g]
  BY <1>2, <1>3, AfterCompute
<1>. QED
  BY <1>1, <1>2, <1>4 DEF Alike

\* From its sign bit up a signed value repeats it.
LEMMA SignRepeats ==
  ASSUME NEW p, Real(p), p.op \in {"sbfx", "sbfiz", "asr"}, NEW x \in SUBSET Low(Size(p))
  PROVE  /\ SignedFrom(p) \in 1 .. Size(p)
         /\ \A i, j \in Low(Size(p)) :
              i >= SignedFrom(p) - 1 /\ j >= SignedFrom(p) - 1 => (i \in Through(p, x) <=> j \in Through(p, x))
<1>. PICK s, k, wd, from, v : s = Size(p) /\ k = p.k /\ wd = p.wd /\ from = SignedFrom(p) /\ v = Through(p, x)
  OBVIOUS
<1>1. s \in Nat \ {0}
  BY Widths
<1>2. CASE p.op = "sbfx"
  <2>1. from = wd /\ k \in 0 .. s - 1 /\ wd \in 1 .. s - k
    BY <1>2, RealFits DEF SignedFrom, Fitting, Low
  <2>2. v = {i \in Low(s) : (i < wd /\ i + k \in x) \/ (i >= wd - 1 /\ wd - 1 + k \in x)}
    BY <1>2, RealFits, ThroughField
  <2>3. \A i \in Low(s) : i >= wd - 1 => (i \in v <=> wd - 1 + k \in x)
    <3>1. \A i \in Low(s) : i < wd /\ i >= wd - 1 => i = wd - 1
      BY <1>1, <2>1 DEF Low
    <3>. QED
      BY <2>2, <3>1
  <2>. QED
    BY <1>1, <2>1, <2>3
<1>3. CASE p.op = "sbfiz"
  <2>1. from = k + wd /\ k \in 0 .. s - 1 /\ wd \in 1 .. s - k
    BY <1>3, RealFits DEF SignedFrom, Fitting, Low
  <2>2. v = {i \in Low(s) : (i - k \in x /\ i - k < wd) \/ (i >= k + wd - 1 /\ wd - 1 \in x)}
    BY <1>3, RealFits, ThroughField
  <2>3. \A i \in Low(s) : i >= from - 1 => (i \in v <=> wd - 1 \in x)
    <3>1. \A i \in Low(s) : /\ i >= from - 1 => i >= k + wd - 1
                            /\ i >= from - 1 /\ i - k < wd => i - k = wd - 1
      BY <1>1, <2>1 DEF Low
    <3>. QED
      BY <2>2, <3>1
  <2>. QED
    BY <1>1, <2>1, <2>3
<1>4. CASE p.op = "asr"
  <2>1. p.op \in ShiftOps
    BY <1>4 DEF ShiftOps
  <2>2. from = s - k /\ k \in 1 .. s - 1
    BY <1>4, <2>1, RealFits DEF SignedFrom, Fitting
  <2>3. v = {i \in Low(s) : i + k \in x \/ (i + k >= s /\ s - 1 \in x)}
    BY <1>4, RealFits, ThroughShift
  <2>4. \A i \in Low(s) : i >= from - 1 => (i \in v <=> s - 1 \in x)
    <3>1. \A i \in Low(s) : /\ i >= from - 1 => i + k >= s \/ i + k = s - 1
                            /\ i + k >= s => i + k \notin Low(s)
      BY <1>1, <2>2 DEF Low
    <3>. QED
      BY <2>3, <3>1
  <2>. QED
    BY <1>1, <2>2, <2>4
<1>. QED
  BY <1>2, <1>3, <1>4

\* What the producer of a redundant extension leaves.
LEMMA SignProduced ==
  ASSUME NEW p, Decoded(p), SextOpens(p), NEW m
  PROVE  /\ SignedFrom(p) \in 1 .. Size(p) /\ Value(m, p) \in SUBSET Low(Size(p))
         /\ \A i, j \in Low(Size(p)) :
              i >= SignedFrom(p) - 1 /\ j >= SignedFrom(p) - 1 => (i \in Value(m, p) <=> j \in Value(m, p))
<1>. PICK s, v : s = Size(p) /\ v = Value(m, p)
  OBVIOUS
<1>1. s \in Nat \ {0} /\ s \in Nat
  BY Widths
<1>2. CASE p.op = "ldr"
  <2>. PICK wd, y : wd = p.wd /\ y = m.mem \cap Low(wd)
    OBVIOUS
  <2>1. p.sh = "sxt" /\ wd \in 1 .. s - 1 /\ SignedFrom(p) = wd
    BY <1>2, SignedLoadIs DEF SignedFrom
  <2>2. v = ExtendBy(p.sh, m.mem, wd, s)
    <3>1. Outcome(m, p, s) = Plainly(ExtendBy(p.sh, m.mem, wd, s), s)
      BY <1>2, LoadOutcome
    <3>. QED
      BY <3>1 DEF Value, Plainly
  <2>3. v = Extend(y, wd - 1, s)
    BY <2>1, <2>2 DEF ExtendBy
  <2>4. y \in SUBSET Low(s) /\ \A i \in y : i \in Low(wd)
    BY <1>1, <2>1 DEF Low
  <2>5. v = {i \in Low(s) : i \in y \/ (i >= wd - 1 /\ wd - 1 \in y)}
    <3>1. wd - 1 \in Nat
      BY <2>1
    <3>. QED
      BY <1>1, <2>3, <2>4, <3>1, ExtendBits
  <2>6. \A i \in Low(s) : i >= wd - 1 => (i \in v <=> wd - 1 \in y)
    <3>1. \A i \in Low(s) : i \in Low(wd) /\ i >= wd - 1 => i = wd - 1
      BY <1>1, <2>1 DEF Low
    <3>. QED
      BY <2>4, <2>5, <3>1
  <2>. QED
    BY <1>1, <2>1, <2>5, <2>6
<1>3. CASE p.op # "ldr"
  <2>. PICK x : x = Reads(m, p, p.n)
    OBVIOUS
  <2>1. Real(p) /\ p.op \in {"sbfx", "sbfiz", "asr"}
    BY <1>3, DecodedIsReal DEF SextOpens
  <2>2. Passing(p) /\ p.op # "mov" /\ Source(p) = p.n /\ ~MovW(p)
    BY <2>1 DEF Passing, MovW, Source, ShiftOps
  <2>3. x \in SUBSET Low(s) /\ v = Through(p, x)
    <3>1. Outcome(m, p, Size(p)) = Plainly(Through(p, Reads(m, p, Source(p))), Size(p))
      BY <2>2, PassesThrough
    <3>. QED
      BY <2>2, <3>1, ReadFits DEF Value, Plainly
  <2>4. v \in SUBSET Low(s)
    BY <2>1, <2>2, <2>3, RealFits, ThroughFits
  <2>. QED
    BY <2>1, <2>3, <2>4, SignRepeats
<1>. QED
  BY <1>2, <1>3

LEMMA SextIsSound ==
  ASSUME NEW p, NEW w, Decoded(p), Decoded(w), SextOpens(p), NEW fold \in SextFold(p, w)
  PROVE  Sound(<<p, w>>, fold)
<1>1. /\ p.d \in Gprs /\ p.d # R31
      /\ \/ fold = Replace(<<p>>, {}) /\ Again(p, w)
         \/ fold = Replace(<<w>>, {}) /\ DeadSext(p, w)
  BY DecodedWord DEF SextOpens, SextFold, Reg
<1>2. Real(w)
  BY <1>1, DecodedIsReal DEF Again, SbfmSext, DeadSext, ZextWidth, UbfmZext, LowMask, MovW
<1>3. CASE fold = Replace(<<p>>, {}) /\ Again(p, w)
  <2>. PICK s, l, from : s = Size(w) /\ l = w.wd /\ from = SignedFrom(p)
    OBVIOUS
  <2>1. /\ w.op = "sbfx" /\ w.k = 0 /\ w.d = p.d /\ w.n = p.d /\ from <= l /\ Size(p) = s /\ s \in Nat \ {0}
        /\ ChainRole(w) /\ SextRole(w)
    BY <1>3, Widths DEF Again, SbfmSext, InPlace, SameWidth, Size, ChainRole, SextRole
  <2>2. /\ Passing(w) /\ w.op \in ComputeOps /\ w.op \notin FlagOps /\ l \in 1 .. s
        /\ \A x \in SUBSET Low(s) :
              Through(w, x) = {i \in Low(s) : (i < l /\ i \in x) \/ (i >= l - 1 /\ l - 1 \in x)}
    BY <1>2, <2>1, RolePasses
  <2>3. ~MovW(w) /\ Source(w) = w.n /\ w.op \notin SpSource
    BY <2>1 DEF MovW, Source, SpSource, ImmArithOps, ExtArithOps
  <2>4. ASSUME NEW m \in RegisterStates PROVE Value(Exec(m, p), w) = Value(m, p)
    <3>. PICK n, v : n = Exec(m, p) /\ v = Value(m, p)
      OBVIOUS
    <3>1. /\ v \in SUBSET Low(s) /\ from \in 1 .. s
          /\ \A i, j \in Low(s) : i >= from - 1 /\ j >= from - 1 => (i \in v <=> j \in v)
      BY <2>1, SignProduced
    <3>2. n.x[p.d] = v
      BY SMTT(30), <1>1, StatesAreShaped, AfterWord
    <3>3. Reads(n, w, p.d) = v
      BY <1>1, <3>1, <3>2 DEF Reads
    <3>4. Value(n, w) = Through(w, v)
      <4>1. Outcome(n, w, Size(w)) = Plainly(Through(w, Reads(n, w, Source(w))), Size(w))
        BY <2>2, <2>3, PassesThrough
      <4>. QED
        BY <2>1, <2>3, <3>3, <4>1 DEF Value, Plainly
    <3>5. /\ l - 1 \in Low(s) /\ l - 1 >= from - 1
          /\ \A i \in Low(s) : (i >= l - 1 => i >= from - 1) /\ (~(i < l) => i >= l - 1)
      BY <2>1, <2>2, <3>1 DEF Low
    <3>6. ASSUME NEW i \in Low(s), i >= l - 1 PROVE i \in v <=> l - 1 \in v
      <4>1. i >= from - 1
        BY <3>5, <3>6
      <4>. QED
        BY <3>1, <3>5, <4>1
    <3>7. Through(w, v) = {i \in Low(s) : (i < l /\ i \in v) \/ (i >= l - 1 /\ l - 1 \in v)}
      BY <2>2, <3>1
    <3>8. Through(w, v) = v
      BY <3>1, <3>5, <3>6, <3>7
    <3>. QED
      BY <3>4, <3>8
  <2>. QED
    BY <1>1, <1>3, <2>1, <2>2, <2>4, KeepSound
<1>4. CASE fold = Replace(<<w>>, {}) /\ DeadSext(p, w)
  <2>. Real(p) /\ Passing(p) /\ p.op # "mov" /\ p.op \notin FlagOps /\ p.op \in ComputeOps
    BY <1>4, DecodedIsReal DEF DeadSext, Passing, FlagOps, CondCmpOps, CondCmpImmOps, ComputeOps, ExtractOps
  <2>1. PICK c \in ZextWidth(w) : c <= SignedFrom(p)
    BY <1>4 DEF DeadSext
  <2>2. w.d = p.d /\ Source(w) = p.d /\ p.op = "sbfx" /\ p.k = 0 /\ p.n = p.d /\ SextRole(p) /\ ChainRole(p)
    BY <1>4 DEF DeadSext, InPlaceZext, Source, SextRole, ChainRole
  <2>3. p.wd \in 1 .. Size(p) /\ Passes(p) = Low(p.wd) /\ SignedFrom(p) = p.wd
    BY <2>2, RolePasses DEF SignedFrom
  <2>4. /\ ChainRole(w) \/ MovW(w)
        /\ Passes(w) = Low(c) /\ c \in Int /\ w.op # "andsi"
    <3>1. CASE UbfmZext(w)
      <4>1. c = w.wd /\ w.op = "ubfx"
        BY <2>1, <3>1 DEF ZextWidth, UbfmZext, LowMask, MovW
      <4>2. w.wd \in Int
        BY <1>2, FieldsOfReal
      <4>. QED
        BY <3>1, <4>1, <4>2 DEF ChainRole, Passes
    <3>2. CASE LowMask(w)
      <4>1. c = Cardinality(w.mask) /\ w.op = "andi" /\ w.mask = Low(Cardinality(w.mask))
        BY <2>1, <3>2 DEF ZextWidth, UbfmZext, LowMask, MovW
      <4>2. c \in Int
        BY <1>2, <3>2, <4>1, LowMaskIs
      <4>. QED
        BY <4>1, <4>2 DEF ChainRole, Passes
    <3>3. CASE MovW(w)
      <4>1. c = H /\ w.op = "orr"
        BY <2>1, <3>3 DEF ZextWidth, UbfmZext, LowMask, MovW
      <4>. QED
        BY <3>3, <4>1, AluAssumption DEF Passes
    <3>. QED
      BY <2>1, <3>1, <3>2, <3>3 DEF ZextWidth
  <2>5. Passes(w) \subseteq Passes(p)
    BY <2>1, <2>3, <2>4 DEF Low
  <2>6. Passing(w) /\ w.op \in ComputeOps /\ w.op \notin FlagOps
    BY <1>2, <2>4, RolePasses
  <2>7. AsOne(w, w)
    BY <1>1, <2>2, <2>6 DEF AsOne, Reg
  <2>8. \A x \in SUBSET Low(W) : ChainValue(p, w, x) = Through(w, x \cap Low(Size(w)))
    BY <1>2, <2>2, <2>4, <2>5, ReadThrough
  <2>9. MovW(w) => w.sh \in ShiftOps
    BY <1>2 DEF MovW, Real, LogicOps
  <2>10. Sound(<<p, w>>, Fold(p, w, w))
    <3>1. Source(w) = Source(p)
      BY <2>2 DEF Source, MovW
    <3>2. \A x \in SUBSET Low(W) :
            Through(w, Through(p, x \cap Low(Size(p))) \cap Low(Size(w))) = Through(w, x \cap Low(Size(w)))
      BY <2>8 DEF ChainValue
    <3>. QED
      BY <1>1, <1>2, <2>2, <2>6, <2>7, <2>9, <3>1, <3>2, PassingSound
  <2>11. Fold(p, w, w) = fold
    BY <1>4, <2>2 DEF Fold
  <2>. QED
    BY <2>10, <2>11
<1>. QED
  BY <1>1, <1>3, <1>4

LEMMA MaskProduces ==
  ASSUME NEW m, NEW p, Real(p), p.op = "andi", p.d # R31
  PROVE  /\ Produces(p) /\ Value(m, p) = Reads(m, p, p.n) \cap p.mask
         /\ Value(m, p) \in SUBSET Low(Size(p))
<1>1. p.op \notin FlagOps
  BY DEF FlagOps, CondCmpOps, CondCmpImmOps
<1>2. Value(m, p) = Reads(m, p, p.n) \cap p.mask
  BY MaskValue
<1>. QED
  BY <1>1, <1>2, ReadFits, RealWord DEF Produces, Reg

LEMMA InsertIsSound ==
  ASSUME NEW p, NEW w, Real(p), Real(w), InsertOpens(p), NEW fold \in InsertFold(p, w)
  PROVE  Sound(<<p, w>>, fold)
<1>. PICK s, k : s = Size(w) /\ k = w.k
  OBVIOUS
<1>. PICK op, need :
       /\ w.sh = "lsr" => op = "bfxil" /\ need = Low(s) \ Low(s - k)
       /\ w.sh # "lsr" => op = "bfi" /\ need = Low(k)
  OBVIOUS
<1>. PICK word : word = Field(op, w.sf, w.d, w.m, k, s - k)
  OBVIOUS
<1>1. /\ p.op = "andi" /\ p.d = p.n /\ p.d # R31
      /\ w.op = "orr" /\ w.sh \in {"lsl", "lsr"} /\ k # 0 /\ p.sf = w.sf /\ w.d = p.d /\ w.n = p.d
      /\ w.m # p.d /\ w.m # R31 /\ p.mask = need /\ fold = Fold(p, w, word)
  BY DEF InsertOpens, InsertFold, SameWidth, InPlace
<1>2. Size(p) = s /\ Size(w) = s /\ Size(word) = s /\ s \in Nat \ {0} /\ s \in Nat
  BY <1>1, FieldIs, Widths DEF Size
<1>3. k \in 1 .. s - 1
  <2>1. k \in Low(s)
    BY <1>1 DEF Real, Encodable, LogicOps
  <2>. QED
    BY <1>1, <1>2, <2>1 DEF Low
<1>4. word.op = op /\ word.sf = w.sf /\ word.d = w.d /\ word.n = w.m /\ word.k = k /\ word.wd = s - k
  BY FieldIs
<1>5. /\ op \in {"bfi", "bfxil"} /\ word.op \in ComputeOps /\ word.op \notin FlagOps /\ word.op \notin SpSource
      /\ w.op \in LogicOps /\ w.op \notin FlagOps /\ w.op \notin InvertedOps /\ w.op \notin SpSource /\ p.op \notin SpSource
  BY <1>1, <1>4 DEF ComputeOps, ExtractOps, PlaceOps, FlagOps, CondCmpOps, CondCmpImmOps, LogicOps, InvertedOps, SpSource,
     ImmArithOps, ExtArithOps
<1>6. Produces(p) /\ AsOne(w, word)
  BY <1>1, <1>4, <1>5, MaskProduces, RealWord DEF AsOne
<1>7. ASSUME NEW m \in RegisterStates
      PROVE  Value(Exec(m, p), w) = Value(m, word)
  <2>. PICK n, x, y, c : n = Exec(m, p) /\ x = Reads(m, p, p.d) /\ y = Reads(m, w, w.m) /\ c = ShiftBy(w.sh, y, k, s)
    OBVIOUS
  <2>1. x \in SUBSET Low(s) /\ y \in SUBSET Low(s)
    BY <1>2, ReadFits
  <2>2. Value(m, p) = x \cap need
    BY <1>1, MaskProduces
  <2>3. Reads(n, w, w.n) = x \cap need /\ Reads(n, w, w.m) = y
    <3>1. Shaped(m) /\ w.m \in Reg /\ x \cap need \in SUBSET Low(Size(w))
      BY <1>2, <2>1, StatesAreShaped, RealWord
    <3>. QED
      BY <1>1, <1>6, <2>2, <3>1, ReadsAfter, ReadsValue
  <2>4. Value(n, w) = (x \cap need) \cup c
    <3>1. Logical(w, x \cap need, c, s) = (x \cap need) \cup c
      BY <1>1, <1>5 DEF Logical, Logic
    <3>2. Outcome(n, w, s) = Plainly(Logical(w, x \cap need, c, s), s)
      BY <1>5, <2>3, OutcomeOfLogic
    <3>3. Outcome(n, w, s) = Plainly((x \cap need) \cup c, s)
      BY <3>1, <3>2
    <3>4. \A u : Plainly(u, s).v = u
      BY DEF Plainly
    <3>. PICK o : o = Outcome(n, w, s)
      OBVIOUS
    <3>5. o.v = (x \cap need) \cup c
      BY <3>3, <3>4
    <3>. QED
      BY <1>2, <3>5 DEF Value
  <2>5. Reads(m, word, w.d) = x /\ Reads(m, word, w.m) = y
    <3>1. Size(word) = s /\ Size(p) = s /\ Size(w) = s /\ w.d = p.d /\ w.m # R31 /\ p.d # R31
      BY <1>1, <1>2
    <3>. QED
      BY <3>1 DEF Reads
  <2>6. CASE w.sh = "lsl"
    <3>1. Value(m, word) = (x \ Place(Low(s), k, s - k)) \cup Place(y, k, s - k)
      BY <1>2, <1>4, <2>5, <2>6, InsertValue
    <3>2. k \in Nat /\ k \in 0 .. s /\ s - k \in Int /\ s - k <= s - k /\ Low(s) \in SUBSET Low(s)
      BY <1>2, <1>3
    <3>3. Place(y, k, s - k) = {i \in Low(s) : i - k \in y /\ i - k < s - k}
      BY <1>2, <2>1, <3>2, PlaceBits
    <3>4. Place(Low(s), k, s - k) = {i \in Low(s) : i - k \in Low(s) /\ i - k < s - k}
      BY <1>2, <3>2, PlaceBits
    <3>5. c = {i \in Low(s) : i - k \in y}
      <4>1. c = Lsl(y, k, s)
        BY <2>6 DEF ShiftBy
      <4>. QED
        BY <1>2, <2>1, <3>2, <4>1, LslBits
    <3>6. \A i \in Low(s) : i - k < s - k /\ (i - k \in Low(s) <=> i \notin Low(k))
      BY <1>2, <1>3 DEF Low
    <3>7. Place(y, k, s - k) = c
      BY <3>3, <3>5, <3>6
    <3>8. x \ Place(Low(s), k, s - k) = x \cap Low(k)
      BY <2>1, <3>4, <3>6
    <3>. QED
      BY <2>4, <2>6, <3>1, <3>7, <3>8
  <2>7. CASE w.sh = "lsr"
    <3>1. Value(m, word) = (x \ Low(s - k)) \cup Extract(y, k, s - k)
      BY <1>4, <2>5, <2>7, InsertValue
    <3>2. k \in Nat /\ s - k \in Int /\ s - k <= s
      BY <1>2, <1>3
    <3>3. Extract(y, k, s - k) = {i \in Low(s - k) : i + k \in y}
      BY <1>2, <2>1, <3>2, ExtractBits
    <3>4. c = {i \in Low(s) : i + k \in y}
      <4>1. c = Lsr(y, k)
        BY <2>7 DEF ShiftBy
      <4>. QED
        BY <1>2, <2>1, <3>2, <4>1, LsrBits
    <3>5. \A i \in Low(s) : i + k \in Low(s) <=> i \in Low(s - k)
      BY <1>2, <1>3 DEF Low
    <3>6. \A i \in Low(s - k) : i \in Low(s)
      BY <1>2, <1>3 DEF Low
    <3>7. Extract(y, k, s - k) = c
      BY <2>1, <3>3, <3>4, <3>5, <3>6
    <3>8. x \ Low(s - k) = x \cap need
      BY <2>1, <2>7
    <3>. QED
      BY <2>4, <3>1, <3>7, <3>8
  <2>. QED
    BY <1>1, <2>6, <2>7
<1>. QED
  BY <1>1, <1>5, <1>6, <1>7, ValueSound

-----------------------------------------------------------------------------
(* Negations, complements, increments and selects.                         *)

\* The inverse of a condition holds when it does not.
LEMMA InverseHolds ==
  ASSUME NEW c \in Conds \ Always, NEW f \in [n : BOOLEAN, z : BOOLEAN, c : BOOLEAN, v : BOOLEAN]
  PROVE  Invert[c] \in Conds /\ (Holds(Invert[c], f) <=> ~Holds(c, f))
<1>. DEFINE Paired(a, b) == <<a, b>> \in CondPairs \/ <<b, a>> \in CondPairs
<1>1. Conds = {"eq", "ne", "cs", "cc", "mi", "pl", "vs", "vc", "hi", "ls", "ge", "lt", "gt", "le", "al", "nv"}
  BY DEF Conds, CondPairs
<1>2. \E d \in Conds : Paired(c, d)
  <2>1. c \in {"eq", "ne", "cs", "cc", "mi", "pl", "vs", "vc", "hi", "ls", "ge", "lt", "gt", "le"}
    BY <1>1 DEF Always
  <2>. QED
    BY <1>1, <2>1 DEF CondPairs
<1>3. Invert[c] \in Conds /\ Paired(c, Invert[c])
  BY <1>2 DEF Invert
<1>. PICK d \in Conds : d = Invert[c]
  BY <1>3
<1>4. <<c, d>> \in {<<"eq", "ne">>, <<"cs", "cc">>, <<"mi", "pl">>, <<"vs", "vc">>, <<"hi", "ls">>, <<"ge", "lt">>, <<"gt", "le">>,
                   <<"ne", "eq">>, <<"cc", "cs">>, <<"pl", "mi">>, <<"vc", "vs">>, <<"ls", "hi">>, <<"lt", "ge">>, <<"le", "gt">>}
  BY <1>3 DEF CondPairs, Always
<1>5. f.n \in BOOLEAN /\ f.z \in BOOLEAN /\ f.c \in BOOLEAN /\ f.v \in BOOLEAN
  OBVIOUS
<1>6. (Holds("eq", f) <=> f.z) /\ (Holds("ne", f) <=> ~f.z)
  BY <1>5 DEF Holds, Always
<1>7. (Holds("cs", f) <=> f.c) /\ (Holds("cc", f) <=> ~f.c)
  BY <1>5 DEF Holds, Always
<1>8. (Holds("mi", f) <=> f.n) /\ (Holds("pl", f) <=> ~f.n)
  BY <1>5 DEF Holds, Always
<1>9. (Holds("vs", f) <=> f.v) /\ (Holds("vc", f) <=> ~f.v)
  BY <1>5 DEF Holds, Always
<1>10. (Holds("hi", f) <=> (f.c /\ ~f.z)) /\ (Holds("ls", f) <=> (~f.c \/ f.z))
  BY <1>5 DEF Holds, Always
<1>11. (Holds("ge", f) <=> (f.n = f.v)) /\ (Holds("lt", f) <=> (f.n # f.v))
  BY <1>5 DEF Holds, Always
<1>12. (Holds("gt", f) <=> (~f.z /\ f.n = f.v)) /\ (Holds("le", f) <=> (f.z \/ f.n # f.v))
  BY <1>5 DEF Holds, Always
<1>. QED
  BY <1>3, <1>4, <1>5, <1>6, <1>7, <1>8, <1>9, <1>10, <1>11, <1>12

\* The producer's register reads what was produced, the others as before.
LEMMA ReadsProduced ==
  ASSUME NEW m, Shaped(m), NEW p, Produces(p), NEW w, Value(m, p) \in SUBSET Low(Size(w))
  PROVE  /\ Reads(Exec(m, p), w, p.d) = Value(m, p)
         /\ \A r \in Reg \ {p.d} : Reads(Exec(m, p), w, r) = Reads(m, w, r)
BY ReadsAfter, ReadsValue

\* A select of what the producer makes of src is the select that makes it.
LEMMA SelectIsSound ==
  ASSUME NEW p, NEW w, Real(p), Real(w), Produces(p), NEW op \in {"csinc", "csinv", "csneg"}, NEW src \in Gprs,
         \A m \in RegisterStates :
           /\ Value(m, p) = ElseValue(op, Reads(m, p, src), Size(p))
           /\ Value(m, p) \in SUBSET Low(Size(p)),
         NEW fold \in SelectFold(p, w, op, src)
  PROVE  Sound(<<p, w>>, fold)
<1>1. PICK r \in Survivor(p, w, TRUE) :
        /\ fold = Fold(p, w, Select(op, w.sf, w.d, r, src, IF w.m = p.d THEN w.cond ELSE Invert[w.cond]))
        /\ w.op = "csel" /\ p.sf = w.sf /\ w.d # R31 /\ w.cond \notin Always
  BY DEF SelectFold, SameWidth
<1>. PICK cond : cond = IF w.m = p.d THEN w.cond ELSE Invert[w.cond]
  OBVIOUS
<1>. PICK word : word = Select(op, w.sf, w.d, r, src, cond)
  OBVIOUS
<1>2. word.op = op /\ word.sf = w.sf /\ word.d = w.d /\ word.n = r /\ word.m = src /\ word.cond = cond
  BY SelectIs
<1>. PICK s : s = Size(w)
  OBVIOUS
<1>3. Size(p) = s /\ Size(word) = s
  BY <1>1, <1>2 DEF Size
<1>4. /\ word.op \in SelectOps /\ w.op \in SelectOps /\ word.op \in ComputeOps /\ w.op \in ComputeOps
      /\ word.op \notin FlagOps /\ w.op \notin FlagOps /\ word.op \notin SpSource /\ w.op \notin SpSource
  BY <1>1, <1>2 DEF SelectOps, ComputeOps, FlagOps, CondCmpOps, CondCmpImmOps, SpSource, ImmArithOps, ExtArithOps
<1>5. AsOne(w, word)
  BY <1>1, <1>2, <1>4, RealWord DEF AsOne
<1>6. ASSUME NEW m \in RegisterStates
      PROVE  Outcome(Exec(m, p), w, Size(w)) = Outcome(m, word, Size(word))
  <2>. PICK n, v, x, y, a, b : /\ n = Exec(m, p) /\ v = Value(m, p) /\ x = Reads(m, p, src) /\ y = Reads(m, w, r)
                               /\ a = Reads(n, w, w.n) /\ b = Reads(n, w, w.m)
    OBVIOUS
  <2>. PICK f : f = m.flags
    OBVIOUS
  <2>1. v = ElseValue(op, x, s) /\ v \in SUBSET Low(s)
    BY <1>3
  <2>2. Shaped(m) /\ w.n \in Reg /\ w.m \in Reg
    BY StatesAreShaped, RealWord
  <2>3. (r = w.n /\ w.m = p.d /\ a = y /\ b = v) \/ (r = w.m /\ w.n = p.d /\ w.m # p.d /\ b = y /\ a = v)
    <3>1. r # p.d /\ ((w.m = p.d /\ r = w.n) \/ (w.n = p.d /\ r = w.m))
      BY DEF Survivor
    <3>2. Reads(n, w, p.d) = v /\ \A g \in Reg \ {p.d} : Reads(n, w, g) = Reads(m, w, g)
      BY ZenonT(30), <2>1, <2>2, ReadsProduced
    <3>3. CASE w.m = p.d /\ r = w.n
      BY <2>2, <3>1, <3>2, <3>3
    <3>4. CASE w.n = p.d /\ r = w.m
      BY <2>2, <3>1, <3>2, <3>4
    <3>. QED
      BY <3>1, <3>3, <3>4
  <2>4. n.flags = f
    BY <2>2, ReadsAfter
  <2>5. Outcome(n, w, s) = Plainly(IF Holds(w.cond, f) THEN a ELSE b, s)
    <3>1. \A u : ElseValue(w.op, u, s) = u
      BY <1>1 DEF ElseValue
    <3>. QED
      BY <1>4, <2>4, <3>1, OutcomeOfSelect
  <2>6. Outcome(m, word, s) = Plainly(IF Holds(cond, f) THEN y ELSE v, s)
    <3>1. Reads(m, word, r) = y
      BY <1>2, <1>4, SameRead
    <3>2. Reads(m, word, src) = x
      <4>1. src # R31
        BY AluAssumption
      <4>. QED
        BY <1>1, <1>2, <4>1, SameRead
    <3>. QED
      BY <1>2, <1>4, <2>1, <3>1, <3>2, OutcomeOfSelect
  <2>7. CASE w.m = p.d
    <3>1. cond = w.cond /\ a = y /\ b = v
      BY <2>3, <2>7
    <3>. QED
      BY <1>3, <2>5, <2>6, <3>1
  <2>8. CASE w.m # p.d
    <3>1. cond = Invert[w.cond] /\ b = y /\ a = v
      BY <2>3, <2>8
    <3>2. Holds(cond, f) <=> ~Holds(w.cond, f)
      <4>1. f \in [n : BOOLEAN, z : BOOLEAN, c : BOOLEAN, v : BOOLEAN] /\ w.cond \in Conds \ Always
        BY <1>1 DEF RegisterStates, Real, Words
      <4>. QED
        BY <3>1, <4>1, InverseHolds
    <3>. QED
      BY <1>3, <2>5, <2>6, <3>1, <3>2
  <2>. QED
    BY <2>7, <2>8
<1>. QED
  BY <1>1, <1>5, <1>6, FoldSound

LEMMA NegProduces ==
  ASSUME NEW m, NEW p, Real(p), NegOpens(p)
  PROVE  /\ Produces(p) /\ p.m \in Gprs /\ p.op \notin SpSource
         /\ Value(m, p) = NegationOf(Reads(m, p, p.m), Size(p)) /\ Value(m, p) \in SUBSET Low(Size(p))
<1>. PICK s, x : s = Size(p) /\ x = Reads(m, p, p.m)
  OBVIOUS
<1>1. /\ p.op = "sub" /\ p.n = R31 /\ p.k = 0 /\ p.d \in Gprs /\ p.m \in Gprs /\ p.op \in ArithOps /\ p.sh \in ShiftOps
      /\ p.op \notin FlagOps /\ p.op \in SubOps /\ p.op \notin SpSource /\ p.op \in ComputeOps
  BY RealWord DEF NegOpens, Reg, ArithOps, FlagOps, CondCmpOps, CondCmpImmOps, SubOps, SpSource, ImmArithOps,
     ExtArithOps, Real
<1>2. s \in 0 .. W /\ s \in Nat \ {0} /\ x \in SUBSET Low(s)
  BY ReadFits
<1>3. Reads(m, p, p.n) = {}
  BY <1>1 DEF Reads
<1>4. ShiftBy(p.sh, x, p.k, s) = x
  BY <1>1, <1>2, ShiftByNothing
<1>5. Outcome(m, p, s) = Totalled(p.op, {}, x, s)
  BY <1>1, <1>3, <1>4, OutcomeOfArith
<1>6. Totalled(p.op, {}, x, s).v = NegationOf(x, s)
  BY <1>1 DEF Totalled, Lessened, NegationOf, Subtracted
<1>7. NegationOf(x, s) \in SUBSET Low(s)
  <2>1. {} \in SUBSET Low(W)
    OBVIOUS
  <2>. QED
    BY <1>2, <2>1, NegatedOperand
<1>. QED
  BY <1>1, <1>5, <1>6, <1>7 DEF Produces, Value

LEMMA NegIsSound ==
  ASSUME NEW p, NEW w, Real(p), Real(w), NegOpens(p), NEW fold \in NegFold(p, w)
  PROVE  Sound(<<p, w>>, fold)
<1>1. Produces(p) /\ p.m \in Gprs /\ p.op \notin SpSource /\ p.m # R31
  BY NegProduces, AluAssumption
<1>2. CASE fold \in SelectFold(p, w, "csneg", p.m)
  <2>1. ASSUME NEW m \in RegisterStates
        PROVE  /\ Value(m, p) = ElseValue("csneg", Reads(m, p, p.m), Size(p))
               /\ Value(m, p) \in SUBSET Low(Size(p))
    <3>. PICK s, x : s = Size(p) /\ x = Reads(m, p, p.m)
      OBVIOUS
    <3>1. s \in 0 .. W /\ x \in SUBSET Low(s) /\ {} \in SUBSET Low(W)
      BY ReadFits
    <3>2. NegationOf(x, s) = MinusOf(x, s)
      BY <3>1, NegatedOperand
    <3>3. ElseValue("csneg", x, s) = MinusOf(x, s)
      BY DEF ElseValue
    <3>. QED
      BY <3>2, <3>3, NegProduces
  <2>2. "csneg" \in {"csinc", "csinv", "csneg"}
    OBVIOUS
  <2>. QED
    BY <1>1, <1>2, <2>1, <2>2, SelectIsSound
<1>3. CASE \E r \in Survivor(p, w, w.op = "add") :
             /\ fold = Fold(p, w, Ternary(IF w.op = "sub" THEN "add" ELSE "sub", w.sf, w.d, r, p.m))
             /\ w.op \in {"add", "sub"} /\ w.k = 0 /\ p.sf = w.sf /\ w.d # R31 /\ r # R31
  <2>1. PICK r \in Survivor(p, w, w.op = "add") :
             /\ fold = Fold(p, w, Ternary(IF w.op = "sub" THEN "add" ELSE "sub", w.sf, w.d, r, p.m))
             /\ w.op \in {"add", "sub"} /\ w.k = 0 /\ p.sf = w.sf /\ w.d # R31 /\ r # R31
    BY <1>3
  <2>. PICK op : op = IF w.op = "sub" THEN "add" ELSE "sub"
    OBVIOUS
  <2>. PICK word : word = Ternary(op, w.sf, w.d, r, p.m)
    OBVIOUS
  <2>. PICK s : s = Size(w)
    OBVIOUS
  <2>2. /\ word.op = op /\ word.sf = w.sf /\ word.d = w.d /\ word.n = r /\ word.m = p.m /\ word.sh = "lsl" /\ word.k = 0
        /\ Size(word) = s /\ Size(p) = s
    BY <2>1, TernaryIs DEF Size
  <2>3. /\ word.op \in ArithOps /\ w.op \in ArithOps /\ word.op \in ComputeOps /\ w.op \in ComputeOps
        /\ word.op \notin FlagOps /\ w.op \notin FlagOps /\ w.sh \in ShiftOps /\ word.sh \in ShiftOps
    BY <2>1, <2>2 DEF ArithOps, ComputeOps, FlagOps, CondCmpOps, CondCmpImmOps, Real, ShiftOps
  <2>4. AsOne(w, word)
    BY <2>1, <2>2, <2>3, RealWord DEF AsOne
  <2>5. ASSUME NEW m \in RegisterStates PROVE Value(Exec(m, p), w) = Value(m, word)
    <3>. PICK n, v, x, y, a, b : /\ n = Exec(m, p) /\ v = Value(m, p) /\ x = Reads(m, p, p.m) /\ y = Reads(m, w, r)
                                 /\ a = Reads(n, w, w.n) /\ b = Reads(n, w, w.m)
      OBVIOUS
    <3>1. /\ s \in 0 .. W /\ s \in Nat \ {0} /\ x \in SUBSET Low(s) /\ y \in SUBSET Low(s) /\ y \in SUBSET Low(W)
          /\ a \in SUBSET Low(s) /\ b \in SUBSET Low(s)
      BY <2>2, ReadFits
    <3>2. v = NegationOf(x, s) /\ v \in SUBSET Low(s)
      BY <2>2, NegProduces
    <3>3. Shaped(m) /\ w.n \in Reg /\ w.m \in Reg
      BY StatesAreShaped, RealWord
    <3>4. (a = y /\ b = v) \/ (w.op = "add" /\ b = y /\ a = v)
      <4>1. r # p.d /\ ((w.m = p.d /\ r = w.n) \/ (w.op = "add" /\ w.n = p.d /\ r = w.m))
        BY DEF Survivor
      <4>2. Reads(n, w, p.d) = v /\ \A g \in Reg \ {p.d} : Reads(n, w, g) = Reads(m, w, g)
        BY ZenonT(30), <1>1, <3>2, <3>3, ReadsProduced
      <4>3. CASE w.m = p.d /\ r = w.n
        BY <3>3, <4>2, <4>1, <4>3
      <4>4. CASE w.op = "add" /\ w.n = p.d /\ r = w.m
        BY <3>3, <4>2, <4>1, <4>4
      <4>. QED
        BY <4>1, <4>3, <4>4
    <3>5. Outcome(n, w, s) = Totalled(w.op, a, b, s)
      <4>1. ShiftBy(w.sh, b, w.k, s) = b
        BY <2>1, <2>3, <3>1, ShiftByNothing
      <4>. QED
        BY <2>3, <4>1, OutcomeOfArith
    <3>6. Outcome(m, word, s) = Totalled(op, y, x, s)
      <4>1. Reads(m, word, r) = y /\ Reads(m, word, p.m) = x
        BY <1>1, <2>1, <2>2, SameRead
      <4>2. ShiftBy(word.sh, x, word.k, s) = x
        BY <2>2, <2>3, <3>1, ShiftByNothing
      <4>. QED
        BY <2>2, <2>3, <4>1, <4>2, OutcomeOfArith
    <3>7. Added(y, v, s) = Subtracted(y, x, s) /\ Added(v, y, s) = Subtracted(y, x, s) /\ Subtracted(y, v, s) = Added(y, x, s)
      BY <3>1, <3>2, NegatedOperand
    <3>8. \A c, d : Totalled("add", c, d, s).v = Added(c, d, s) /\ Totalled("sub", c, d, s).v = Subtracted(c, d, s)
      BY DEF Totalled, Summed, Lessened, Added, Subtracted, SubOps
    <3>9. Totalled(w.op, a, b, s).v = Totalled(op, y, x, s).v
      BY <2>1, <3>4, <3>7, <3>8
    <3>. QED
      BY <2>2, <3>5, <3>6, <3>9 DEF Value
  <2>. QED
    BY <1>1, <2>1, <2>3, <2>4, <2>5, ValueSound
<1>. QED
  BY <1>2, <1>3 DEF NegFold, SameWidth

LEMMA MvnProduces ==
  ASSUME NEW m, NEW p, Real(p), MvnOpens(p)
  PROVE  /\ Produces(p) /\ p.m \in Gprs /\ p.op \notin SpSource
         /\ Value(m, p) = Low(Size(p)) \ Reads(m, p, p.m)
<1>. PICK s, x : s = Size(p) /\ x = Reads(m, p, p.m)
  OBVIOUS
<1>1. /\ p.op = "orn" /\ p.n = R31 /\ p.k = 0 /\ p.d \in Gprs /\ p.m \in Gprs /\ p.op \in LogicOps /\ p.sh \in ShiftOps
      /\ p.op \notin FlagOps /\ p.op \in InvertedOps /\ p.op \notin SpSource /\ p.op \in ComputeOps
  BY RealWord DEF MvnOpens, Reg, LogicOps, FlagOps, CondCmpOps, CondCmpImmOps, InvertedOps, SpSource, ImmArithOps,
     ExtArithOps, Real
<1>2. s \in Nat \ {0} /\ x \in SUBSET Low(s)
  BY ReadFits
<1>3. Reads(m, p, p.n) = {}
  BY <1>1 DEF Reads
<1>4. ShiftBy(p.sh, x, p.k, s) = x
  BY <1>1, <1>2, ShiftByNothing
<1>5. Outcome(m, p, s) = Plainly(Logical(p, {}, x, s), s)
  BY <1>1, <1>3, <1>4, OutcomeOfLogic
<1>6. Logical(p, {}, x, s) = Low(s) \ x
  BY <1>1 DEF Logical, Logic
<1>7. \A u : Plainly(u, s).v = u
  BY DEF Plainly
<1>. QED
  BY <1>1, <1>5, <1>6, <1>7 DEF Produces, Value

LEMMA MvnIsSound ==
  ASSUME NEW p, NEW w, Real(p), Real(w), MvnOpens(p), NEW fold \in MvnFold(p, w)
  PROVE  Sound(<<p, w>>, fold)
<1>1. Produces(p) /\ p.m \in Gprs /\ p.op \notin SpSource /\ p.m # R31
  BY MvnProduces, AluAssumption
<1>2. CASE fold \in SelectFold(p, w, "csinv", p.m)
  <2>1. ASSUME NEW m \in RegisterStates
        PROVE  /\ Value(m, p) = ElseValue("csinv", Reads(m, p, p.m), Size(p))
               /\ Value(m, p) \in SUBSET Low(Size(p))
    BY MvnProduces DEF ElseValue
  <2>2. "csinv" \in {"csinc", "csinv", "csneg"}
    OBVIOUS
  <2>. QED
    BY <1>1, <1>2, <2>1, <2>2, SelectIsSound
<1>3. CASE \E r \in Survivor(p, w, TRUE) :
             /\ fold = Fold(p, w, Ternary(Inverted[w.op], w.sf, w.d, r, p.m))
             /\ w.op \in DOMAIN Inverted /\ w.k = 0 /\ p.sf = w.sf /\ w.d # R31 /\ r # R31
  <2>1. PICK r \in Survivor(p, w, TRUE) :
             /\ fold = Fold(p, w, Ternary(Inverted[w.op], w.sf, w.d, r, p.m))
             /\ w.op \in DOMAIN Inverted /\ w.k = 0 /\ p.sf = w.sf /\ w.d # R31 /\ r # R31
    BY <1>3
  <2>. PICK op : op = Inverted[w.op]
    OBVIOUS
  <2>2. <<w.op, op>> \in {<<"and", "bic">>, <<"orr", "orn">>, <<"eor", "eon">>, <<"ands", "bics">>}
    BY <2>1 DEF Inverted
  <2>. PICK word : word = Ternary(op, w.sf, w.d, r, p.m)
    OBVIOUS
  <2>. PICK s : s = Size(w)
    OBVIOUS
  <2>3. /\ word.op = op /\ word.sf = w.sf /\ word.d = w.d /\ word.n = r /\ word.m = p.m /\ word.sh = "lsl" /\ word.k = 0
        /\ Size(word) = s /\ Size(p) = s
    BY <2>1, TernaryIs DEF Size
  <2>4. /\ word.op \in LogicOps /\ w.op \in LogicOps /\ word.op \in ComputeOps /\ w.op \in ComputeOps
        /\ word.op \in FlagOps <=> w.op \in FlagOps
        /\ w.sh \in ShiftOps /\ word.sh \in ShiftOps /\ word.op \in InvertedOps /\ w.op \notin InvertedOps
    BY <2>2, <2>3 DEF LogicOps, ComputeOps, FlagOps, CondCmpOps, CondCmpImmOps, Real, ShiftOps, InvertedOps
  <2>5. AsOne(w, word)
    BY <2>1, <2>3, <2>4, RealWord DEF AsOne
  <2>6. ASSUME NEW m \in RegisterStates PROVE Outcome(Exec(m, p), w, Size(w)) = Outcome(m, word, Size(word))
    <3>. PICK n, v, x, y, a, b : /\ n = Exec(m, p) /\ v = Value(m, p) /\ x = Reads(m, p, p.m) /\ y = Reads(m, w, r)
                                 /\ a = Reads(n, w, w.n) /\ b = Reads(n, w, w.m)
      OBVIOUS
    <3>1. s \in Nat \ {0} /\ x \in SUBSET Low(s) /\ b \in SUBSET Low(s)
      BY <2>3, ReadFits
    <3>2. v = Low(s) \ x /\ v \in SUBSET Low(s)
      BY <2>3, MvnProduces
    <3>3. Shaped(m) /\ w.n \in Reg /\ w.m \in Reg
      BY StatesAreShaped, RealWord
    <3>4. (a = y /\ b = v) \/ (b = y /\ a = v)
      <4>1. r # p.d /\ ((w.m = p.d /\ r = w.n) \/ (w.n = p.d /\ r = w.m))
        BY DEF Survivor
      <4>2. Reads(n, w, p.d) = v /\ \A g \in Reg \ {p.d} : Reads(n, w, g) = Reads(m, w, g)
        <5>1. v \in SUBSET Low(s)
          BY <3>2
        <5>. QED
          BY <1>1, <3>3, <5>1, ReadsProduced
      <4>3. CASE w.m = p.d /\ r = w.n
        BY <3>3, <4>1, <4>2, <4>3
      <4>4. CASE w.n = p.d /\ r = w.m
        BY <3>3, <4>1, <4>2, <4>4
      <4>. QED
        BY <4>1, <4>3, <4>4
    <3>5. Outcome(n, w, s) = Plainly(Logic(w.op, a, b), s)
      <4>1. ShiftBy(w.sh, b, w.k, s) = b
        BY <2>1, <2>4, <3>1, ShiftByNothing
      <4>2. \A c, d : Logical(w, c, d, s) = Logic(w.op, c, d)
        BY <2>4 DEF Logical
      <4>. QED
        BY <2>4, <4>1, <4>2, OutcomeOfLogic
    <3>6. Outcome(m, word, s) = Plainly(Logic(op, y, v), s)
      <4>1. Reads(m, word, r) = y /\ Reads(m, word, p.m) = x
        BY <1>1, <2>1, <2>3, SameRead
      <4>2. ShiftBy(word.sh, x, word.k, s) = x
        BY <2>3, <2>4, <3>1, ShiftByNothing
      <4>. QED
        BY <2>3, <2>4, <3>2, <4>1, <4>2, OutcomeOfLogic DEF Logical
    <3>7. Logic(w.op, a, b) = Logic(op, y, v)
      BY <2>2, <3>4 DEF Logic, SymDiff
    <3>. QED
      BY <2>3, <3>5, <3>6, <3>7
  <2>. QED
    BY <1>1, <2>1, <2>5, <2>6, FoldSound
<1>. QED
  BY <1>2, <1>3 DEF MvnFold, SameWidth

LEMMA AddOneIsSound ==
  ASSUME NEW p, NEW w, Real(p), Real(w), AddOneOpens(p), NEW fold \in AddOneFold(p, w)
  PROVE  Sound(<<p, w>>, fold)
<1>1. /\ p.op = "addi" /\ p.k = 1 /\ p.d \in Gprs /\ p.n \in Gprs /\ p.op \in ComputeOps /\ p.op \notin FlagOps
  BY RealWord DEF AddOneOpens, Reg, FlagOps, CondCmpOps, CondCmpImmOps
<1>2. ASSUME NEW m \in RegisterStates
      PROVE  /\ Value(m, p) = ElseValue("csinc", Reads(m, p, p.n), Size(p))
             /\ Value(m, p) \in SUBSET Low(Size(p))
  <2>. PICK s, x : s = Size(p) /\ x = Reads(m, p, p.n)
    OBVIOUS
  <2>1. s \in 0 .. W /\ x \in SUBSET Low(W) /\ 1 \in Int
    BY ReadFits
  <2>2. Added(x, Bits(1, s), s) = Bits(NatOf[x] + 1, s) /\ Added(x, Bits(1, s), s) \in SUBSET Low(s)
    BY <2>1, AddConstant
  <2>3. Outcome(m, p, s) = Summed(x, Bits(1, s), s)
    BY <1>1, OutcomeOfAdjust
  <2>4. Summed(x, Bits(1, s), s).v = Added(x, Bits(1, s), s)
    BY DEF Summed, Added
  <2>5. ElseValue("csinc", x, s) = Bits(NatOf[x] + 1, s)
    BY DEF ElseValue
  <2>. QED
    BY <2>2, <2>3, <2>4, <2>5 DEF Value
<1>3. Produces(p) /\ "csinc" \in {"csinc", "csinv", "csneg"}
  BY <1>1 DEF Produces
<1>. QED
  BY <1>1, <1>2, <1>3, SelectIsSound DEF AddOneFold

-----------------------------------------------------------------------------
(* Multiplies.                                                             *)

LEMMA MultiplyIs ==
  ASSUME NEW p, Real(p), p.op \in {"madd", "smaddl", "umaddl"}, p.a = R31, p.d # R31
  PROVE  /\ Produces(p) /\ p.op \in MulOps /\ p.op \notin SpSource
         /\ \A m : Value(m, p) = Product(m, p, Size(p)) /\ Value(m, p) \in SUBSET Low(Size(p))
<1>1. p.op \in MulOps /\ p.op \notin SubOps /\ p.op \notin SpSource /\ p.op \in ComputeOps /\ p.op \notin FlagOps /\ p.d \in Gprs
  BY RealWord DEF MulOps, SubOps, SpSource, ImmArithOps, ExtArithOps, ComputeOps, FlagOps, CondCmpOps, CondCmpImmOps, Reg
<1>2. ASSUME NEW m PROVE Value(m, p) = Product(m, p, Size(p)) /\ Value(m, p) \in SUBSET Low(Size(p))
  <2>. PICK s, x : s = Size(p) /\ x = Product(m, p, s)
    OBVIOUS
  <2>1. Reads(m, p, p.a) = {}
    BY <1>1 DEF Reads
  <2>2. Outcome(m, p, s) = Totalled(p.op, {}, x, s)
    BY <1>1, <2>1, OutcomeOfMultiply
  <2>3. Totalled(p.op, {}, x, s).v = Added({}, x, s)
    BY <1>1 DEF Totalled, Summed, Added
  <2>4. x \in SUBSET Low(s) /\ s \in 0 .. W
    BY ReadFits DEF Product, Bits
  <2>5. Added({}, x, s) = x
    BY <2>4, AddNothing
  <2>. QED
    BY <2>2, <2>3, <2>4, <2>5 DEF Value
<1>. QED
  BY <1>1, <1>2 DEF Produces

\* The product rides on the addition or the subtraction.
LEMMA ProductIsSound ==
  ASSUME NEW p, NEW w, Real(p), Real(w), p.op \in {"madd", "smaddl", "umaddl"}, p.a = R31, p.d # R31,
         PlainArith(w), p.sf = w.sf, NEW r \in Accumulator(p, w), NEW op,
         <<p.op, w.op, op>> \in {<<"madd", "add", "madd">>, <<"madd", "sub", "msub">>,
                                 <<"smaddl", "add", "smaddl">>, <<"smaddl", "sub", "smsubl">>,
                                 <<"umaddl", "add", "umaddl">>, <<"umaddl", "sub", "umsubl">>}
  PROVE  Sound(<<p, w>>, Fold(p, w, MulAdd(op, w.sf, w.d, p.n, p.m, r)))
<1>. PICK word, s : word = MulAdd(op, w.sf, w.d, p.n, p.m, r) /\ s = Size(w)
  OBVIOUS
<1>1. /\ word.op = op /\ word.sf = w.sf /\ word.d = w.d /\ word.n = p.n /\ word.m = p.m /\ word.a = r
      /\ Size(p) = s /\ Size(word) = s
  BY MulAddIs DEF Size
<1>2. w.op \in {"add", "sub"} /\ w.sh = "lsl" /\ w.k = 0 /\ w.d # R31 /\ op \in MulOps /\ (op \in SubOps <=> w.op \in SubOps)
  BY DEF PlainArith, Accumulator, MulOps, SubOps
<1>3. /\ word.op \notin SpSource /\ w.op \notin SpSource /\ word.op \notin FlagOps /\ w.op \notin FlagOps
      /\ word.op \in ComputeOps /\ w.op \in ArithOps
  BY <1>1, <1>2 DEF MulOps, SpSource, ImmArithOps, ExtArithOps, ComputeOps, FlagOps, CondCmpOps, CondCmpImmOps, ArithOps
<1>4. AsOne(w, word)
  BY <1>1, <1>2, <1>3, RealWord DEF AsOne
<1>5. Produces(p) /\ p.op \notin SpSource
  BY MultiplyIs
<1>6. ASSUME NEW m \in RegisterStates PROVE Value(Exec(m, p), w) = Value(m, word)
  <2>. PICK n, v, y, a, b : /\ n = Exec(m, p) /\ v = Value(m, p) /\ y = Reads(m, w, r)
                            /\ a = Reads(n, w, w.n) /\ b = Reads(n, w, w.m)
    OBVIOUS
  <2>1. v = Product(m, p, s)
    BY <1>1, MultiplyIs
  <2>2. v \in SUBSET Low(s)
    BY <1>1, MultiplyIs
  <2>3. s \in 0 .. W /\ s \in Nat \ {0} /\ b \in SUBSET Low(s) /\ y \in SUBSET Low(W) /\ a \in SUBSET Low(W) /\ b \in SUBSET Low(W)
    BY ReadFits
  <2>4. Shaped(m) /\ w.n \in Reg /\ w.m \in Reg
    BY StatesAreShaped, RealWord
  <2>5. (a = y /\ b = v) \/ (w.op = "add" /\ b = y /\ a = v)
    <3>1. r # p.d /\ ((w.m = p.d /\ r = w.n) \/ (w.op = "add" /\ w.n = p.d /\ r = w.m))
      BY DEF Accumulator, Survivor
    <3>2. Reads(n, w, p.d) = v /\ \A g \in Reg \ {p.d} : Reads(n, w, g) = Reads(m, w, g)
      BY <1>5, <2>2, <2>4, ReadsProduced
    <3>3. CASE w.m = p.d /\ r = w.n
      BY <2>4, <3>1, <3>2, <3>3
    <3>4. CASE w.op = "add" /\ w.n = p.d /\ r = w.m
      BY <2>4, <3>1, <3>2, <3>4
    <3>. QED
      BY <3>1, <3>3, <3>4
  <2>6. Outcome(n, w, s) = Totalled(w.op, a, b, s)
    <3>1. ShiftBy(w.sh, b, w.k, s) = b
      BY <1>2, <2>3, ShiftByNothing DEF ShiftOps
    <3>. QED
      BY <1>3, <3>1, OutcomeOfArith
  <2>7. Outcome(m, word, s) = Totalled(op, y, v, s)
    <3>1. Reads(m, word, r) = y /\ Reads(m, word, p.n) = Reads(m, p, p.n) /\ Reads(m, word, p.m) = Reads(m, p, p.m)
      BY <1>1, <1>3, <1>5, SameRead
    <3>2. \A x : Multiplicand(word.op, x) = Multiplicand(p.op, x)
      BY <1>1 DEF Multiplicand
    <3>3. Product(m, word, s) = Product(m, p, s)
      BY <1>1, <3>1, <3>2 DEF Product
    <3>. QED
      BY <1>1, <1>2, <2>1, <3>1, <3>3, OutcomeOfMultiply
  <2>8. Totalled(op, y, v, s) = Totalled(w.op, y, v, s)
    BY <1>2 DEF Totalled
  <2>9. w.op = "add" => Totalled(w.op, v, y, s) = Totalled(w.op, y, v, s)
    <3>1. v \in SUBSET Low(W)
      BY <2>2, <2>3, NumberFits
    <3>2. Summed(v, y, s) = Summed(y, v, s)
      BY <2>3, <3>1, AddCommutes DEF Summed
    <3>. QED
      BY <3>2 DEF Totalled, SubOps
  <2>10. Outcome(n, w, s) = Outcome(m, word, s)
    BY <2>5, <2>6, <2>7, <2>8, <2>9
  <2>. QED
    BY <1>1, <2>10 DEF Value
<1>7. Sound(<<p, w>>, Fold(p, w, word))
  BY <1>3, <1>4, <1>5, <1>6, ValueSound
<1>. QED
  BY <1>7

LEMMA MulIsSound ==
  ASSUME NEW p, NEW w, Real(p), Real(w), MulOpens(p), NEW fold \in MulFold(p, w)
  PROVE  Sound(<<p, w>>, fold)
<1>. PICK op : op = IF w.op = "sub" THEN "msub" ELSE "madd"
  OBVIOUS
<1>1. PICK r \in Accumulator(p, w) :
        fold = Fold(p, w, MulAdd(op, w.sf, w.d, p.n, p.m, r)) /\ PlainArith(w) /\ p.sf = w.sf
  BY DEF MulFold, SameWidth
<1>2. p.op = "madd" /\ p.a = R31 /\ p.d # R31 /\ w.op \in {"add", "sub"}
  BY <1>1 DEF MulOpens, PlainArith
<1>3. <<p.op, w.op, op>> \in {<<"madd", "add", "madd">>, <<"madd", "sub", "msub">>,
                              <<"smaddl", "add", "smaddl">>, <<"smaddl", "sub", "smsubl">>,
                              <<"umaddl", "add", "umaddl">>, <<"umaddl", "sub", "umsubl">>}
  BY <1>2
<1>4. p.op \in {"madd", "smaddl", "umaddl"}
  BY <1>2
<1>. QED
  BY <1>1, <1>2, <1>3, <1>4, ProductIsSound

LEMMA WideMulIsSound ==
  ASSUME NEW p, NEW w, Real(p), Real(w), WideMulOpens(p), NEW fold \in WideMulFold(p, w)
  PROVE  Sound(<<p, w>>, fold)
<1>. PICK op : op = Widening[p.op][w.op]
  OBVIOUS
<1>1. PICK r \in Accumulator(p, w) :
        fold = Fold(p, w, MulAdd(op, TRUE, w.d, p.n, p.m, r)) /\ PlainArith(w) /\ w.sf
  BY DEF WideMulFold
<1>2. p.op \in {"smaddl", "umaddl"} /\ p.a = R31 /\ p.d # R31 /\ w.op \in {"add", "sub"}
  BY <1>1 DEF WideMulOpens, PlainArith, Widening
<1>3. <<p.op, w.op, op>> \in {<<"madd", "add", "madd">>, <<"madd", "sub", "msub">>,
                              <<"smaddl", "add", "smaddl">>, <<"smaddl", "sub", "smsubl">>,
                              <<"umaddl", "add", "umaddl">>, <<"umaddl", "sub", "umsubl">>}
  BY <1>2 DEF Widening
<1>4. p.op \in {"madd", "smaddl", "umaddl"}
  BY <1>2
<1>5. w.sf = TRUE /\ p.sf = w.sf
  <2>1. p.op \in MulOps \ {"madd", "msub"}
    BY <1>2 DEF MulOps
  <2>. QED
    BY <1>1, <2>1 DEF Real, Words, Encodable
<1>6. Sound(<<p, w>>, Fold(p, w, MulAdd(op, w.sf, w.d, p.n, p.m, r)))
  <2>1. p.sf = w.sf /\ PlainArith(w) /\ p.a = R31 /\ p.d # R31
    BY <1>1, <1>2, <1>5
  <2>. QED
    BY <1>3, <1>4, <2>1, ProductIsSound
<1>7. MulAdd(op, w.sf, w.d, p.n, p.m, r) = MulAdd(op, TRUE, w.d, p.n, p.m, r)
  <2>. PICK b : b = w.sf
    OBVIOUS
  <2>1. b = TRUE
    BY <1>5
  <2>. QED
    BY <2>1
<1>. QED
  BY <1>1, <1>6, <1>7

-----------------------------------------------------------------------------
(* Folds with a fallback that keeps the producer.                          *)

LEMMA AfterAlike ==
  ASSUME NEW n, Shaped(n), NEW w, NEW word, AsOne(w, word), Value(n, w) = Value(n, word),
         w.op \in FlagOps => Outcome(n, w, Size(w)) = Outcome(n, word, Size(word))
  PROVE  Alike(Exec(n, w), Exec(n, word), {})
<1>1. /\ Exec(n, w).sp = IF w.d = R31 /\ w.op \in SpDest THEN Value(n, w) ELSE n.sp
      /\ Exec(n, w).flags = IF w.op \in FlagOps THEN Outcome(n, w, Size(w)).flags ELSE n.flags
      /\ \A g \in Gprs : Exec(n, w).x[g] = IF g = w.d THEN Value(n, w) ELSE n.x[g]
  BY AfterCompute DEF AsOne
<1>2. /\ Exec(n, word).sp = IF word.d = R31 /\ word.op \in SpDest THEN Value(n, word) ELSE n.sp
      /\ Exec(n, word).flags = IF word.op \in FlagOps THEN Outcome(n, word, Size(word)).flags ELSE n.flags
      /\ \A g \in Gprs : Exec(n, word).x[g] = IF g = word.d THEN Value(n, word) ELSE n.x[g]
  BY AfterCompute DEF AsOne
<1>. QED
  BY <1>1, <1>2 DEF Alike, AsOne

\* The word has to do the same whether the producer ran or not.
LEMMA FoldOrKeepSound ==
  ASSUME NEW p, Produces(p), NEW w, NEW word, AsOne(w, word),
         \A m \in RegisterStates : \A u \in {m, Exec(m, p)} :
           /\ Value(Exec(m, p), w) = Value(u, word)
           /\ w.op \in FlagOps => Outcome(Exec(m, p), w, Size(w)) = Outcome(u, word, Size(word))
  PROVE  Sound(<<p, w>>, FoldOrKeep(p, w, word))
<1>1. /\ FoldOrKeep(p, w, word).rewrite = Fold(p, w, word).rewrite
      /\ FoldOrKeep(p, w, word).dead = Fold(p, w, word).dead
      /\ \A kept \in FoldOrKeep(p, w, word).kept : kept = <<p, word>>
  BY DEF FoldOrKeep, Fold, Replace
<1>2. Sound(<<p, w>>, Fold(p, w, word))
  BY ValueSound
<1>3. ASSUME NEW m \in RegisterStates
      PROVE  Alike(Run(m, <<p, w>>), Run(m, <<p, word>>), {})
  <2>. PICK n : n = Exec(m, p)
    OBVIOUS
  <2>1. Run(m, <<p, w>>) = Exec(n, w) /\ Run(m, <<p, word>>) = Exec(n, word)
    BY RunOfTwo
  <2>2. Shaped(n)
    BY StatesAreShaped, AfterCompute DEF Produces
  <2>3. /\ Value(n, w) = Value(n, word)
        /\ w.op \in FlagOps => Outcome(n, w, Size(w)) = Outcome(n, word, Size(word))
    OBVIOUS
  <2>. QED
    BY <2>1, <2>2, <2>3, AfterAlike
<1>. QED
  BY <1>1, <1>2, <1>3 DEF Sound

-----------------------------------------------------------------------------
(* Extensions.                                                             *)

\* An extension looks at the low bits and shows them; a large shift shows
\* no other.
LEMMA ExtensionShows ==
  ASSUME NEW s \in Nat \ {0}, NEW x \in SUBSET Low(s), NEW wd \in 1 .. s, NEW sh, NEW e, e = ExtendBy(sh, x, wd, s)
  PROVE  /\ e \in SUBSET Low(s)
         /\ ExtendBy(sh, e, wd, s) = e
         /\ \A k \in 0 .. s : k >= s - wd => Lsl(e, k, s) = Lsl(x, k, s)
<1>. PICK f : f = x \cap Low(wd)
  OBVIOUS
<1>1. e = f \/ (e = f \cup (wd - 1 .. s - 1) /\ wd - 1 \in f)
  BY DEF ExtendBy, Extend
<1>2. \A i \in wd - 1 .. s - 1 : i \in Low(s) /\ (i \in Low(wd) => i = wd - 1)
  BY DEF Low
<1>3. e \in SUBSET Low(s)
  BY <1>1, <1>2
<1>4. e \cap Low(wd) = f
  BY <1>1, <1>2
<1>5. ExtendBy(sh, e, wd, s) = e
  BY <1>4 DEF ExtendBy
<1>6. ASSUME NEW k \in 0 .. s, k >= s - wd PROVE Lsl(e, k, s) = Lsl(x, k, s)
  <2>1. Low(s - k) \subseteq Low(wd)
    BY <1>6 DEF Low
  <2>2. e \cap Low(s - k) = x \cap Low(s - k)
    BY <1>4, <2>1
  <2>. QED
    BY <2>2 DEF Lsl
<1>. QED
  BY <1>3, <1>5, <1>6

LEMMA ExtendProduces ==
  ASSUME NEW m, NEW p, Real(p), ExtendOpens(p), NEW sh, sh = IF p.op = "sbfx" THEN "sxt" ELSE "uxt"
  PROVE  /\ Produces(p) /\ p.n \in Gprs /\ p.op \in {"sbfx", "ubfx"} /\ p.op \notin SpSource
         /\ p.wd \in 1 .. Size(p)
         /\ Value(m, p) = ExtendBy(sh, Reads(m, p, p.n), p.wd, Size(p))
<1>. PICK s, wd, x : s = Size(p) /\ wd = p.wd /\ x = Reads(m, p, p.n)
  OBVIOUS
<1>1. /\ p.op \in {"sbfx", "ubfx"} /\ p.k = 0 /\ p.d \in Gprs /\ p.n \in Gprs /\ p.op \notin FlagOps /\ p.op \in ComputeOps
      /\ p.op \in ExtractOps /\ p.op \notin SpSource
  BY RealWord DEF ExtendOpens, SbfmSext, UbfmZext, Reg, ExtractOps, FlagOps, CondCmpOps, CondCmpImmOps, SpSource,
     ImmArithOps, ExtArithOps
<1>2. wd \in 1 .. s
  <2>1. p.wd \in 1 .. Size(p) - p.k
    BY <1>1 DEF Real, Encodable
  <2>. QED
    BY <1>1, <2>1, ReadFits
<1>3. s \in Nat \ {0} /\ x \in SUBSET Low(s)
  BY ReadFits
<1>4. Extract(x, 0, wd) = x \cap Low(wd)
  <2>1. Lsr(x, 0) = x
    <3>1. "lsr" \in ShiftOps
      BY DEF ShiftOps
    <3>2. ShiftBy("lsr", x, 0, s) = x
      BY <1>3, <3>1, ShiftByNothing
    <3>. QED
      BY <3>2 DEF ShiftBy
  <2>. QED
    BY <2>1 DEF Extract
<1>5. Value(m, p) = IF p.op = "sbfx" THEN Extend(x \cap Low(wd), wd - 1, s) ELSE x \cap Low(wd)
  BY <1>1, <1>4, BitfieldValue
<1>. QED
  BY <1>1, <1>2, <1>5 DEF Produces, ExtendBy

\* Whether the extension ran or not, the word that extends reads the value
\* it gives.
LEMMA ExtensionRead ==
  ASSUME NEW p, NEW w, Real(p), Real(w), ExtendOpens(p), ExtendWidths(p, w), NEW word, word.sf = w.sf,
         NEW sh, sh = IF p.op = "sbfx" THEN "sxt" ELSE "uxt", NEW m \in RegisterStates, NEW u \in {m, Exec(m, p)}
  PROVE  Value(m, p) = ExtendBy(sh, Reads(u, word, p.n), p.wd, Size(w)) /\ Value(m, p) \in SUBSET Low(Size(w))
<1>. PICK s, t, wd, v, x, y : /\ s = Size(w) /\ t = Size(p) /\ wd = p.wd /\ v = Value(m, p)
                              /\ x = Reads(m, p, p.n) /\ y = Reads(m, word, p.n)
  OBVIOUS
<1>1. /\ Produces(p) /\ p.n \in Gprs /\ p.n # R31 /\ p.op \in {"sbfx", "ubfx"}
      /\ wd \in 1 .. t /\ v = ExtendBy(sh, x, wd, t)
  BY ExtendProduces, AluAssumption
<1>2. Size(word) = s /\ s \in Nat \ {0} /\ t \in Nat \ {0} /\ y \in SUBSET Low(s)
  BY ReadFits DEF Size
<1>3. (t = s /\ x = y) \/ (p.op = "ubfx" /\ x = y \cap Low(t) /\ t <= s)
  <2>1. CASE p.sf = w.sf
    BY <1>1, <2>1 DEF Reads, Size
  <2>2. CASE p.sf # w.sf
    <3>1. w.sf = TRUE /\ p.sf = FALSE /\ p.op = "ubfx"
      BY <2>2 DEF ExtendWidths, SameWidth, Real, Words
    <3>2. s = W /\ t = H /\ Size(word) = W
      BY <1>2, <3>1 DEF Size
    <3>3. H <= W /\ Low(H) \subseteq Low(W)
      BY AluAssumption DEF Low
    <3>4. x = m.x[p.n] \cap Low(H) /\ y = m.x[p.n] \cap Low(W)
      BY <1>1, <3>2 DEF Reads
    <3>. QED
      BY <3>1, <3>2, <3>3, <3>4
  <2>. QED
    BY <2>1, <2>2 DEF ExtendWidths, SameWidth
<1>4. wd \in 1 .. s /\ v = ExtendBy(sh, y, wd, s)
  <2>1. CASE t = s /\ x = y
    BY <1>1, <2>1
  <2>2. CASE p.op = "ubfx" /\ x = y \cap Low(t) /\ t <= s
    <3>1. Low(wd) \subseteq Low(t) /\ wd \in 1 .. s
      BY <1>1, <1>2, <2>2 DEF Low
    <3>2. sh = "uxt"
      BY <2>2
    <3>3. v = x \cap Low(wd)
      BY <1>1, <3>2 DEF ExtendBy
    <3>4. ExtendBy(sh, y, wd, s) = y \cap Low(wd)
      BY <3>2 DEF ExtendBy
    <3>. QED
      BY <2>2, <3>1, <3>3, <3>4
  <2>. QED
    BY <1>3, <2>1, <2>2
<1>5. v \in SUBSET Low(s) /\ ExtendBy(sh, v, wd, s) = v
  <2>1. s \in Nat \ {0} /\ y \in SUBSET Low(s) /\ wd \in 1 .. s
    BY <1>2, <1>4
  <2>2. v = ExtendBy(sh, y, wd, s)
    BY <1>4
  <2>. QED
    BY <2>1, <2>2, ExtensionShows
<1>6. Reads(u, word, p.n) = y \/ Reads(u, word, p.n) = v
  <2>1. CASE u = m
    BY <2>1
  <2>2. CASE u = Exec(m, p)
    <3>1. Shaped(m) /\ p.n \in Reg /\ Value(m, p) \in SUBSET Low(Size(word))
      BY <1>1, <1>2, <1>5, StatesAreShaped DEF Reg
    <3>2. Reads(Exec(m, p), word, p.d) = Value(m, p) /\ \A r \in Reg \ {p.d} : Reads(Exec(m, p), word, r) = Reads(m, word, r)
      BY <1>1, <3>1, ReadsProduced
    <3>. QED
      BY <2>2, <3>1, <3>2
  <2>. QED
    BY <2>1, <2>2
<1>. QED
  BY <1>4, <1>5, <1>6

LEMMA ExtendIsSound ==
  ASSUME NEW p, NEW w, Real(p), Real(w), ExtendOpens(p), NEW fold \in ExtendFold(p, w)
  PROVE  Sound(<<p, w>>, fold)
<1>. PICK sh, ext, k, s, wd : /\ sh = IF p.op = "sbfx" THEN "sxt" ELSE "uxt"
                              /\ ext = Extending[w.op] /\ k = w.k /\ s = Size(w) /\ wd = p.wd
  OBVIOUS
<1>1. PICK r : /\ fold = FoldOrKeep(p, w, IF w.k <= ExtShift
                           THEN Extended(ext, w.sf, w.d, r, p.n, sh, p.wd, w.k)
                           ELSE Barrel(w.op, w.sf, w.d, r, p.n, "lsl", w.k))
               /\ r \in {w.n, w.m} /\ r # p.d
               /\ (w.m = p.d /\ r = w.n) \/ (w.k = 0 /\ w.op \in {"add", "adds"} /\ w.n = p.d /\ r = w.m)
               /\ w.op \in ArithOps /\ w.sh = "lsl" /\ ExtendWidths(p, w)
               /\ w.d # R31 /\ r # R31
               /\ w.k <= ExtShift \/ w.k >= Size(w) - p.wd
  BY DEF ExtendFold, Survivor
<1>. PICK word : word = IF w.k <= ExtShift
                        THEN Extended(ext, w.sf, w.d, r, p.n, sh, p.wd, w.k)
                        ELSE Barrel(w.op, w.sf, w.d, r, p.n, "lsl", w.k)
  OBVIOUS
<1>2. word.sf = w.sf /\ word.d = w.d /\ word.n = r /\ word.m = p.n /\ word.k = k /\ Size(word) = s
  BY ExtendedIs, BarrelIs DEF Size
<1>3. \/ /\ word.op = ext /\ word.sh = sh /\ word.wd = wd
      \/ /\ word.op = w.op /\ word.sh = "lsl" /\ k >= s - wd
  BY <1>1, ExtendedIs, BarrelIs
<1>4. /\ w.op \in ComputeOps /\ w.op \notin SpSource /\ ext \in ExtArithOps /\ ext \in ComputeOps
      /\ ext \in FlagOps <=> w.op \in FlagOps
      /\ ext \in SubOps <=> w.op \in SubOps
  BY <1>1 DEF Extending, ArithOps, ExtArithOps, ComputeOps, FlagOps, CondCmpOps, CondCmpImmOps, SubOps, SpSource, ImmArithOps
<1>5. AsOne(w, word)
  BY <1>1, <1>2, <1>3, <1>4, RealWord DEF AsOne
<1>6. s \in Nat \ {0} /\ s \in 0 .. W /\ k \in 0 .. s - 1 /\ k \in 0 .. s
  <2>1. w.k \in Low(Size(w))
    BY <1>1 DEF Real, Encodable
  <2>. QED
    BY <2>1, ReadFits DEF Low
<1>7. Produces(p) /\ p.n \in Gprs /\ p.n # R31 /\ wd \in 1 .. s
  <2>1. p.wd \in 1 .. Size(p) /\ Size(p) <= Size(w)
    <3>1. p.sf = w.sf \/ w.sf
      BY <1>1 DEF ExtendWidths, SameWidth
    <3>2. Size(p) <= Size(w)
      BY <3>1, AluAssumption DEF Size
    <3>. QED
      BY <3>2, ExtendProduces
  <2>2. wd \in 1 .. s
    BY <2>1, ReadFits
  <2>. QED
    BY <2>2, ExtendProduces, AluAssumption
<1>8. ASSUME NEW m \in RegisterStates, NEW u \in {m, Exec(m, p)}
      PROVE  Outcome(Exec(m, p), w, s) = Outcome(u, word, s)
  <2>. PICK n, v, x, y, a, b : /\ n = Exec(m, p) /\ v = Value(m, p) /\ x = Reads(u, word, p.n) /\ y = Reads(m, w, r)
                               /\ a = Reads(n, w, w.n) /\ b = Reads(n, w, w.m)
    OBVIOUS
  <2>1. v = ExtendBy(sh, x, wd, s) /\ v \in SUBSET Low(s)
    BY <1>1, <1>2, ExtensionRead
  <2>2. x \in SUBSET Low(s) /\ y \in SUBSET Low(s) /\ b \in SUBSET Low(s)
    BY <1>2, ReadFits
  <2>3. Shaped(m) /\ w.n \in Reg /\ w.m \in Reg /\ r \in Reg /\ Value(m, p) \in SUBSET Low(Size(w))
    BY <1>1, <2>1, StatesAreShaped, RealWord
  <2>4. Reads(n, w, p.d) = v /\ \A g \in Reg \ {p.d} : Reads(n, w, g) = Reads(m, w, g)
    BY <1>7, <2>3, ReadsProduced
  <2>5. (a = y /\ b = v) \/ (k = 0 /\ w.op \in {"add", "adds"} /\ b = y /\ a = v)
    <3>1. CASE w.m = p.d /\ r = w.n
      BY <1>1, <2>3, <2>4, <3>1
    <3>2. CASE w.k = 0 /\ w.op \in {"add", "adds"} /\ w.n = p.d /\ r = w.m
      BY <1>1, <2>3, <2>4, <3>2
    <3>. QED
      BY <1>1, <3>1, <3>2
  <2>6. Reads(u, word, r) = y
    <3>1. Reads(n, w, r) = y
      BY <1>1, <2>3, <2>4
    <3>2. Reads(u, word, r) = Reads(u, w, r)
      BY <1>1, <1>2, SameRead
    <3>. QED
      BY <3>1, <3>2
  <2>7. Outcome(n, w, s) = Totalled(w.op, y, Lsl(v, k, s), s)
    <3>1. \A c : ShiftBy(w.sh, c, w.k, s) = Lsl(c, k, s)
      BY <1>1 DEF ShiftBy
    <3>2. Outcome(n, w, s) = Totalled(w.op, a, Lsl(b, k, s), s)
      BY <1>1, <3>1, OutcomeOfArith
    <3>3. CASE a = y /\ b = v
      BY <3>2, <3>3
    <3>4. CASE k = 0 /\ w.op \in {"add", "adds"} /\ b = y /\ a = v
      <4>1. Lsl(y, 0, s) = y /\ Lsl(v, 0, s) = v
        <5>1. "lsl" \in ShiftOps
          BY DEF ShiftOps
        <5>2. ShiftBy("lsl", y, 0, s) = y /\ ShiftBy("lsl", v, 0, s) = v
          BY <1>6, <2>1, <2>2, <5>1, ShiftByNothing
        <5>. QED
          BY <5>2 DEF ShiftBy
      <4>2. y \in SUBSET Low(W) /\ v \in SUBSET Low(W)
        BY <1>6, <2>1, <2>2, NumberFits
      <4>3. Summed(v, y, s) = Summed(y, v, s)
        BY <4>2, AddCommutes DEF Summed
      <4>4. \A c, d : Totalled(w.op, c, d, s) = Summed(c, d, s)
        BY <3>4 DEF Totalled, SubOps
      <4>. QED
        BY <3>2, <3>4, <4>1, <4>3, <4>4
    <3>. QED
      BY <2>5, <3>3, <3>4
  <2>8. CASE word.op = ext /\ word.sh = sh /\ word.wd = wd
    <3>1. Outcome(u, word, s) = Totalled(ext, y, Lsl(v, k, s), s)
      BY <1>2, <1>4, <1>7, <2>1, <2>6, <2>8, OutcomeOfExtended
    <3>2. Totalled(ext, y, Lsl(v, k, s), s) = Totalled(w.op, y, Lsl(v, k, s), s)
      BY <1>4 DEF Totalled
    <3>. QED
      BY <2>7, <3>1, <3>2
  <2>9. CASE word.op = w.op /\ word.sh = "lsl" /\ k >= s - wd
    <3>1. Lsl(v, k, s) = Lsl(x, k, s)
      BY <1>6, <1>7, <2>1, <2>2, <2>9, ExtensionShows
    <3>2. ShiftBy(word.sh, x, word.k, s) = Lsl(x, k, s)
      BY <1>2, <2>9 DEF ShiftBy
    <3>3. Outcome(u, word, s) = Totalled(w.op, y, Lsl(x, k, s), s)
      BY <1>1, <1>2, <2>6, <2>9, <3>2, OutcomeOfArith
    <3>. QED
      BY <2>7, <3>1, <3>3
  <2>. QED
    BY <1>3, <2>8, <2>9
<1>9. \A m \in RegisterStates : \A u \in {m, Exec(m, p)} :
        /\ Value(Exec(m, p), w) = Value(u, word)
        /\ w.op \in FlagOps => Outcome(Exec(m, p), w, Size(w)) = Outcome(u, word, Size(word))
  BY <1>2, <1>8 DEF Value
<1>10. Sound(<<p, w>>, FoldOrKeep(p, w, word))
  BY <1>5, <1>7, <1>9, FoldOrKeepSound
<1>. QED
  BY <1>1, <1>10

-----------------------------------------------------------------------------
(* Register copies.                                                        *)

LEMMA CopyProduces ==
  ASSUME NEW p, Real(p), RegisterCopy(p)
  PROVE  /\ Produces(p) /\ p.m \in Gprs /\ p.m # p.d /\ p.op \notin SpSource
         /\ \A m : Value(m, p) = m.x[p.m] \cap Low(Size(p))
<1>1. /\ p.op = "orr" /\ p.n = R31 /\ p.k = 0 /\ p.d \in Gprs /\ p.m \in Gprs /\ p.op \in LogicOps /\ p.sh \in ShiftOps
      /\ p.op \notin FlagOps /\ p.op \notin InvertedOps /\ p.op \notin SpSource /\ p.op \in ComputeOps /\ p.m # p.d
      /\ p.m # R31
  BY RealWord DEF RegisterCopy, Reg, LogicOps, FlagOps, CondCmpOps, CondCmpImmOps, InvertedOps, SpSource, ImmArithOps,
     ExtArithOps, Real
<1>2. ASSUME NEW m PROVE Value(m, p) = m.x[p.m] \cap Low(Size(p))
  <2>. PICK s, x : s = Size(p) /\ x = Reads(m, p, p.m)
    OBVIOUS
  <2>1. s \in Nat \ {0} /\ x \in SUBSET Low(s)
    BY ReadFits
  <2>2. Reads(m, p, p.n) = {} /\ x = m.x[p.m] \cap Low(s)
    BY <1>1 DEF Reads
  <2>3. ShiftBy(p.sh, x, p.k, s) = x
    BY <1>1, <2>1, ShiftByNothing
  <2>4. Outcome(m, p, s) = Plainly(Logical(p, {}, x, s), s)
    BY <1>1, <2>2, <2>3, OutcomeOfLogic
  <2>5. Logical(p, {}, x, s) = x
    BY <1>1 DEF Logical, Logic
  <2>6. \A u : Plainly(u, s).v = u
    BY DEF Plainly
  <2>. QED
    BY <2>2, <2>4, <2>5, <2>6 DEF Value
<1>. QED
  BY <1>1, <1>2 DEF Produces

LEMMA CopyRead ==
  ASSUME NEW p, NEW w, ReadsCopied(p, w), NEW m, Shaped(m), Produces(p), NEW x, Value(m, p) = x \cap Low(Size(p))
  PROVE  Reads(Exec(m, p), w, p.d) = x \cap Low(Size(w))
<1>1. p.d \in Reg
  BY DEF Produces, Reg
<1>2. Size(w) <= Size(p) /\ Low(Size(w)) \subseteq Low(Size(p))
  <2>1. Size(w) <= Size(p)
    BY AluAssumption DEF ReadsCopied, Size
  <2>2. Size(w) \in Int /\ Size(p) \in Int
    BY ReadFits
  <2>. QED
    BY <2>1, <2>2 DEF Low
<1>3. Reads(Exec(m, p), w, p.d) = Value(m, p) \cap Low(Size(w))
  BY <1>1, ReadsAfter
<1>. QED
  BY <1>2, <1>3

LEMMA CopyChainIsSound ==
  ASSUME NEW p, NEW w, Real(p), Real(w), RegisterCopy(p), NEW fold \in CopyChain(p, w)
  PROVE  Sound(<<p, w>>, fold)
<1>1. /\ fold = Replace(IF w.d = p.m THEN <<p>> ELSE <<p, Mov(w.sf, w.d, p.m)>>, {})
      /\ RegisterCopy(w) /\ w.m = p.d /\ ReadsCopied(p, w)
      /\ w.d = p.m => w.sf /\ p.sf
  BY DEF CopyChain
<1>2. /\ Produces(p) /\ p.m \in Gprs /\ p.m # p.d /\ p.m # R31
      /\ Produces(w) /\ w.op \notin SpSource /\ w.m # w.d /\ w.m # R31
  BY <1>1, CopyProduces, AluAssumption DEF Produces
<1>3. ASSUME NEW m \in RegisterStates
      PROVE  /\ Shaped(m) /\ Shaped(Exec(m, p)) /\ Value(Exec(m, p), w) = m.x[p.m] \cap Low(Size(w))
             /\ Exec(m, p).x[p.m] = m.x[p.m] /\ m.x[p.m] \in SUBSET Low(W)
  <2>. PICK n, x : n = Exec(m, p) /\ x = m.x[p.m]
    OBVIOUS
  <2>1. Shaped(m) /\ Shaped(n) /\ n.x[p.m] = x
    BY <1>2, StatesAreShaped, AfterCompute DEF Produces
  <2>2. Value(m, p) = x \cap Low(Size(p))
    BY CopyProduces
  <2>3. Reads(n, w, p.d) = x \cap Low(Size(w))
    BY <1>1, <1>2, <2>1, <2>2, CopyRead
  <2>4. Value(n, w) = n.x[w.m] \cap Low(Size(w))
    BY <1>1, CopyProduces
  <2>5. Reads(n, w, p.d) = n.x[w.m] \cap Low(Size(w))
    BY <1>1, <1>2 DEF Reads
  <2>6. m.x[p.m] \in SUBSET Low(W)
    BY <1>2 DEF RegisterStates
  <2>. QED
    BY <2>1, <2>3, <2>4, <2>5, <2>6
<1>4. CASE w.d = p.m
  <2>1. fold = Replace(<<p>>, {}) /\ Size(w) = W
    BY <1>1, <1>4 DEF Size
  <2>2. ASSUME NEW m \in RegisterStates PROVE Alike(Run(m, <<p, w>>), Run(m, <<p>>), {})
    <3>. PICK n : n = Exec(m, p)
      OBVIOUS
    <3>1. Run(m, <<p, w>>) = Exec(n, w) /\ Run(m, <<p>>) = n
      BY RunOfOne, RunOfTwo
    <3>2. Shaped(n) /\ Value(n, w) = n.x[w.d]
      BY <1>3, <1>4, <2>1
    <3>3. /\ Exec(n, w).sp = n.sp /\ Exec(n, w).flags = n.flags
          /\ \A g \in Gprs : Exec(n, w).x[g] = IF g = w.d THEN Value(n, w) ELSE n.x[g]
      BY <1>2, <3>2, AfterCompute, AluAssumption DEF Produces
    <3>. QED
      BY <3>1, <3>2, <3>3 DEF Alike
  <2>. QED
    BY <2>1, <2>2 DEF Sound, Replace
<1>5. CASE w.d # p.m
  <2>. PICK word : word = Mov(w.sf, w.d, p.m)
    OBVIOUS
  <2>1. fold = Replace(<<p, word>>, {})
    BY <1>1, <1>5
  <2>2. /\ word.op = "orr" /\ word.sf = w.sf /\ word.d = w.d /\ word.n = R31 /\ word.m = p.m /\ word.sh = "lsl" /\ word.k = 0
        /\ Size(word) = Size(w)
    BY DEF Mov, Ternary, Word, Size
  <2>3. /\ word.op \in LogicOps /\ word.op \notin InvertedOps /\ word.op \notin FlagOps /\ word.op \in ComputeOps
        /\ word.sh \in ShiftOps /\ word.op \notin SpSource
    BY <2>2 DEF LogicOps, InvertedOps, FlagOps, CondCmpOps, CondCmpImmOps, ComputeOps, ShiftOps, SpSource, ImmArithOps,
       ExtArithOps
  <2>4. AsOne(w, word)
    BY <1>2, <2>2, <2>3, AluAssumption DEF AsOne, Produces, Reg
  <2>5. ASSUME NEW m \in RegisterStates PROVE Alike(Run(m, <<p, w>>), Run(m, <<p, word>>), {})
    <3>. PICK n, s, x : n = Exec(m, p) /\ s = Size(w) /\ x = Reads(n, word, p.m)
      OBVIOUS
    <3>1. Run(m, <<p, w>>) = Exec(n, w) /\ Run(m, <<p, word>>) = Exec(n, word)
      BY RunOfTwo
    <3>2. Shaped(n) /\ Value(n, w) = x
      BY <1>2, <1>3, <2>2 DEF Reads
    <3>3. s \in Nat \ {0} /\ x \in SUBSET Low(s)
      BY <2>2, ReadFits
    <3>4. Reads(n, word, word.n) = {}
      BY <2>2, <2>3 DEF Reads
    <3>5. ShiftBy(word.sh, x, word.k, s) = x
      BY <2>2, <2>3, <3>3, ShiftByNothing
    <3>6. Outcome(n, word, s) = Plainly(Logical(word, {}, x, s), s)
      BY <2>2, <2>3, <3>4, <3>5, OutcomeOfLogic
    <3>7. Logical(word, {}, x, s) = x
      BY <2>2, <2>3 DEF Logical, Logic
    <3>8. \A u : Plainly(u, s).v = u
      BY DEF Plainly
    <3>9. Value(n, word) = Value(n, w)
      BY <2>2, <3>2, <3>6, <3>7, <3>8 DEF Value
    <3>. QED
      BY <1>2, <2>4, <3>1, <3>2, <3>9, AfterAlike DEF Produces
  <2>. QED
    BY <2>1, <2>5 DEF Sound, Replace
<1>. QED
  BY <1>4, <1>5

LEMMA CopyAddIsSound ==
  ASSUME NEW p, NEW w, Real(p), Real(w), CopyOpens(p), NEW fold \in CopyAdd(p, w)
  PROVE  Sound(<<p, w>>, fold)
<1>. PICK src : src = IF p.op = "addi" THEN R31 ELSE p.m
  OBVIOUS
<1>. PICK word : word = [w EXCEPT !.n = src]
  OBVIOUS
<1>1. /\ fold = Replace(<<word>>, {})
      /\ w.op = "addi" /\ w.d = p.d /\ w.n = p.d /\ ReadsCopied(p, w)
  BY DEF CopyAdd, InPlace
<1>2. /\ word.op = "addi" /\ word.sf = w.sf /\ word.d = w.d /\ word.n = src /\ word.k = w.k /\ Size(word) = Size(w)
  <2>1. w.op = "addi" /\ DOMAIN w = DOMAIN w
    BY <1>1
  <2>2. word.op = w.op /\ word.sf = w.sf /\ word.d = w.d /\ word.n = src /\ word.k = w.k
    BY DEF Real, Words
  <2>. QED
    BY <2>1, <2>2 DEF Size
<1>3. w.op \notin FlagOps /\ AsOne(w, word)
  BY <1>1, <1>2, RealWord DEF AsOne, FlagOps, CondCmpOps, CondCmpImmOps
<1>4. SUFFICES Produces(p) /\ \A m \in RegisterStates : Value(Exec(m, p), w) = Value(m, word)
  <2>1. Sound(<<p, w>>, Fold(p, w, word))
    BY <1>3, ValueSound
  <2>. QED
    BY <1>1, <2>1 DEF Fold
<1>5. CASE p.op = "addi"
  <2>1. p.k = 0 /\ p.n = R31 /\ p.d \in Gprs /\ p.d # R31 /\ src = R31 /\ p.op \notin FlagOps /\ p.op \in SpSource
    BY <1>5, RealWord DEF CopyOpens, CopiesSp, RegisterCopy, Reg, FlagOps, CondCmpOps, CondCmpImmOps, SpSource, ImmArithOps
  <2>2. Produces(p)
    BY <2>1, RealWord DEF Produces
  <2>3. ASSUME NEW m \in RegisterStates PROVE Value(Exec(m, p), w) = Value(m, word)
    <3>. PICK n, x : n = Exec(m, p) /\ x = m.sp
      OBVIOUS
    <3>1. Value(m, p) = x \cap Low(Size(p))
      BY <1>5, <2>1, AdjustValue DEF Reads
    <3>2. Reads(n, w, p.d) = x \cap Low(Size(w))
      BY <1>1, <2>2, <3>1, StatesAreShaped, CopyRead
    <3>3. Reads(m, word, word.n) = x \cap Low(Size(w))
      BY <1>2, <1>5, <2>1 DEF Reads
    <3>. QED
      BY ZenonT(30), <1>1, <1>2, <3>2, <3>3, AdjustValue
  <2>. QED
    BY <1>1, <1>2, <2>1, <2>2, <2>3
<1>6. CASE p.op # "addi"
  <2>1. RegisterCopy(p) /\ src = p.m
    BY <1>6 DEF CopyOpens, CopiesSp
  <2>2. Produces(p) /\ p.m \in Gprs /\ p.m # R31 /\ \A m : Value(m, p) = m.x[p.m] \cap Low(Size(p))
    BY <2>1, CopyProduces, AluAssumption
  <2>3. ASSUME NEW m \in RegisterStates PROVE Value(Exec(m, p), w) = Value(m, word)
    <3>. PICK n, x : n = Exec(m, p) /\ x = m.x[p.m]
      OBVIOUS
    <3>1. Value(m, p) = x \cap Low(Size(p))
      BY <2>2
    <3>2. Reads(n, w, p.d) = x \cap Low(Size(w))
      BY <1>1, <2>2, <3>1, StatesAreShaped, CopyRead
    <3>3. Reads(m, word, word.n) = x \cap Low(Size(w))
      BY <1>2, <2>1, <2>2 DEF Reads
    <3>4. Value(n, w) = Added(Reads(n, w, w.n), Bits(w.k, Size(w)), Size(w))
      BY <1>1, AdjustValue
    <3>5. Value(m, word) = Added(Reads(m, word, word.n), Bits(word.k, Size(word)), Size(word))
      BY <1>2, AdjustValue
    <3>6. Value(n, w) = Value(m, word)
      BY <1>1, <1>2, <3>2, <3>3, <3>4, <3>5
    <3>. QED
      BY <3>6
  <2>. QED
    BY <2>2, <2>3
<1>. QED
  BY <1>5, <1>6

LEMMA SpMovIsSound ==
  ASSUME NEW p, NEW w, Real(p), Real(w), SpMovOpens(p), NEW fold \in SpMovOverwritten(p, w)
  PROVE  SoundThen(<<p, w>>, fold, <<w>>)
<1>1. /\ fold = Replace(<<>>, {}) /\ w.op = "addi" /\ w.d = R31 /\ w.n # R31
      /\ p.op = "addi" /\ p.d = R31
  BY DEF SpMovOverwritten, SpMovOpens
<1>2. p.op \in ComputeOps /\ p.op \notin FlagOps /\ w.op \in ComputeOps /\ w.op \notin FlagOps /\ w.op \in SpDest /\ w.n \in Gprs
  BY <1>1, RealWord DEF FlagOps, CondCmpOps, CondCmpImmOps, SpDest, Reg
<1>3. ASSUME NEW m \in RegisterStates PROVE Alike(Run(m, <<p, w>>), Run(Run(m, <<>>), <<w>>), {})
  <2>. PICK n : n = Exec(m, p)
    OBVIOUS
  <2>1. Run(m, <<p, w>>) = Exec(n, w) /\ Run(Run(m, <<>>), <<w>>) = Exec(m, w)
    BY RunOfNone, RunOfOne, RunOfTwo
  <2>2. Shaped(m) /\ Shaped(n) /\ n.flags = m.flags /\ \A g \in Gprs : n.x[g] = m.x[g]
    BY <1>1, <1>2, StatesAreShaped, AfterCompute, AluAssumption
  <2>3. Value(n, w) = Value(m, w)
    <3>1. Reads(n, w, w.n) = Reads(m, w, w.n)
      BY <1>1, <1>2, <2>2 DEF Reads
    <3>. QED
      BY <1>1, <3>1, AdjustValue
  <2>4. ASSUME NEW u, Shaped(u)
        PROVE  /\ Exec(u, w).sp = Value(u, w) /\ Exec(u, w).flags = u.flags
               /\ \A g \in Gprs : Exec(u, w).x[g] = u.x[g]
    BY <1>1, <1>2, <2>4, AfterCompute, AluAssumption
  <2>. QED
    BY <2>1, <2>2, <2>3, <2>4 DEF Alike
<1>. QED
  BY <1>1, <1>3 DEF SoundThen, Replace

-----------------------------------------------------------------------------
(* Materialized conditions.                                                *)

\* A CSET of a condition that does not always hold.
LEMMA CsetValue ==
  ASSUME NEW m, NEW p, p.op = "csinc", p.n = R31, p.m = R31
  PROVE  Value(m, p) = IF Holds(p.cond, m.flags) THEN {} ELSE {0}
<1>. PICK s : s = Size(p)
  OBVIOUS
<1>1. Reads(m, p, p.n) = {} /\ Reads(m, p, p.m) = {} /\ p.op \in SelectOps
  BY DEF Reads, SpSource, ImmArithOps, ExtArithOps, SelectOps
<1>2. ElseValue(p.op, {}, s) = {0}
  <2>1. NatOf[{}] + 1 = 1
    BY NumberAdds
  <2>2. ElseValue(p.op, {}, s) = Bits(NatOf[{}] + 1, s)
    BY DEF ElseValue
  <2>3. s \in {H, W}
    BY Widths
  <2>. QED
    BY <2>1, <2>2, <2>3, BitsOfOne
<1>3. \A u : Plainly(u, s).v = u
  BY DEF Plainly
<1>. QED
  BY <1>1, <1>2, <1>3, OutcomeOfSelect DEF Value

LEMMA CsetmValue ==
  ASSUME NEW m, NEW p, p.op = "csinv", p.n = R31, p.m = R31
  PROVE  Value(m, p) = IF Holds(p.cond, m.flags) THEN {} ELSE Low(Size(p))
<1>. PICK s : s = Size(p)
  OBVIOUS
<1>1. Reads(m, p, p.n) = {} /\ Reads(m, p, p.m) = {} /\ p.op \in SelectOps
  BY DEF Reads, SpSource, ImmArithOps, ExtArithOps, SelectOps
<1>2. ElseValue(p.op, {}, s) = Low(s)
  BY DEF ElseValue
<1>3. \A u : Plainly(u, s).v = u
  BY DEF Plainly
<1>. QED
  BY <1>1, <1>2, <1>3, OutcomeOfSelect DEF Value

\* Minus one has every bit.
LEMMA MinusOneIs ==
  ASSUME NEW s \in {H, W}
  PROVE  Subtracted({}, {0}, s) = Low(s) /\ Subtracted({}, {}, s) = {}
<1>1. s \in 0 .. W /\ {0} \in SUBSET Low(s) /\ {} \in SUBSET Low(s) /\ {} \in SUBSET Low(W)
  BY Widths, BitsOfOne
<1>2. NatOf[{}] = 0 /\ NatOf[{0}] = 1
  <2>1. {0} \in SUBSET Low(W) /\ 0 \in {0} /\ {0} \ {0} = {}
    BY <1>1, NumberFits
  <2>2. NatOf[{}] = 0
    BY NumberAdds
  <2>3. NatOf[{0}] = NatOf[{0} \ {0}] + 2^0
    BY <2>1, NumberAdds
  <2>. QED
    BY <2>1, <2>2, <2>3, PowerOfZero
<1>3. Subtracted({}, {0}, s) = Bits(0 - 1, s)
  <2>1. Subtracted({}, {0}, s) = Bits(NatOf[{}] - NatOf[{0}], s)
    BY <1>1, DifferenceOfValues
  <2>. QED
    BY <1>2, <2>1
<1>4. Bits(0 - 1, s) = Bits(Modulus(s) - 1, s)
  <2>. PICK q : q = Modulus(s)
    OBVIOUS
  <2>1. q \in Nat \ {0}
    BY <1>1, PowerIsPositive DEF Modulus
  <2>2. 0 - 1 \in Int /\ q - 1 \in Int /\ -1 \in Int /\ 0 - 1 = (q - 1) + q * (-1)
    BY <2>1
  <2>. QED
    BY <1>1, <2>2, BitsPast
<1>5. Bits(Modulus(s) - 1, s) = Low(s)
  <2>1. NatOf[Low(s)] = Modulus(s) - 1 /\ Low(s) \in SUBSET Low(s)
    BY <1>1, NumberOfAll DEF Modulus
  <2>2. Bits(NatOf[Low(s)], s) = Low(s)
    BY <1>1, <2>1, BitsOfNumber
  <2>. QED
    BY <2>1, <2>2
<1>6. Subtracted({}, {}, s) = {}
  BY <1>1, SubtractNothing
<1>. QED
  BY <1>3, <1>4, <1>5, <1>6

LEMMA CsetIsSound ==
  ASSUME NEW p, NEW w, Real(p), Real(w), CsetOpens(p), NEW fold \in CsetFold(p, w)
  PROVE  Sound(<<p, w>>, fold)
<1>. PICK s : s = Size(w)
  OBVIOUS
<1>1. /\ p.op = "csinc" /\ p.n = R31 /\ p.m = R31 /\ p.d \in Gprs /\ p.cond \in Conds \ Always
      /\ p.op \notin FlagOps /\ p.op \in ComputeOps
  BY RealWord DEF CsetOpens, Reg, Real, Words, FlagOps, CondCmpOps, CondCmpImmOps
<1>2. Produces(p)
  BY <1>1 DEF Produces
<1>3. s \in {H, W} /\ {0} \in SUBSET Low(s)
  BY Widths, BitsOfOne
<1>4. ASSUME NEW m \in RegisterStates
      PROVE  /\ Reads(Exec(m, p), w, p.d) = IF Holds(p.cond, m.flags) THEN {} ELSE {0}
             /\ \A u \in {m, Exec(m, p)} : u.flags = m.flags
  <2>1. Value(m, p) = IF Holds(p.cond, m.flags) THEN {} ELSE {0}
    BY <1>1, CsetValue
  <2>2. Shaped(m) /\ Value(m, p) \in SUBSET Low(Size(w))
    BY <1>3, <2>1, StatesAreShaped
  <2>3. Reads(Exec(m, p), w, p.d) = Value(m, p)
    BY <1>2, <2>2, ReadsProduced
  <2>4. Exec(m, p).flags = m.flags
    BY <1>2, <2>2, AfterCompute DEF Produces
  <2>. QED
    BY <2>1, <2>3, <2>4
<1>5. CASE \E x \in {w} : /\ fold = FoldOrKeep(p, w, CSet(w.sf, w.d, Invert[p.cond]))
                          /\ InvertsBool(w) /\ w.n = p.d /\ w.d # R31
  <2>. PICK cond : cond = Invert[p.cond]
    OBVIOUS
  <2>. PICK word : word = CSet(w.sf, w.d, cond)
    OBVIOUS
  <2>1. word.op = "csinc" /\ word.sf = w.sf /\ word.d = w.d /\ word.n = R31 /\ word.m = R31 /\ word.cond = cond
    BY DEF CSet, Select, Ternary, Word
  <2>2. w.op = "eori" /\ w.mask = {0} /\ w.n = p.d /\ w.d # R31
    BY <1>5 DEF InvertsBool
  <2>3. w.op \notin FlagOps /\ AsOne(w, word)
    BY <2>1, <2>2, RealWord DEF AsOne, FlagOps, CondCmpOps, CondCmpImmOps, ComputeOps, SelectOps, ImmLogicOps
  <2>4. ASSUME NEW m \in RegisterStates, NEW u \in {m, Exec(m, p)} PROVE Value(Exec(m, p), w) = Value(u, word)
    <3>. PICK n, f, v : n = Exec(m, p) /\ f = m.flags /\ v = Reads(n, w, w.n)
      OBVIOUS
    <3>1. v = (IF Holds(p.cond, f) THEN {} ELSE {0}) /\ u.flags = f
      BY <1>4, <2>2
    <3>2. Value(n, w) = SymDiff(v, {0})
      BY <2>2, MaskValue
    <3>3. Value(u, word) = IF Holds(cond, f) THEN {} ELSE {0}
      BY <2>1, <3>1, CsetValue
    <3>4. Holds(cond, f) <=> ~Holds(p.cond, f)
      <4>1. f \in [n : BOOLEAN, z : BOOLEAN, c : BOOLEAN, v : BOOLEAN]
        BY DEF RegisterStates
      <4>. QED
        BY <1>1, <4>1, InverseHolds
    <3>5. SymDiff({}, {0}) = {0} /\ SymDiff({0}, {0}) = {}
      BY DEF SymDiff
    <3>. QED
      BY <3>1, <3>2, <3>3, <3>4, <3>5
  <2>5. Sound(<<p, w>>, FoldOrKeep(p, w, word))
    BY <1>2, <2>3, <2>4, FoldOrKeepSound
  <2>. QED
    BY <1>5, <2>5
<1>6. CASE \E x \in {w} : /\ fold = FoldOrKeep(p, w, Select("csinv", w.sf, w.d, R31, R31, p.cond))
                          /\ NegatesBool(w) /\ w.m = p.d /\ w.d # R31
  <2>. PICK word : word = Select("csinv", w.sf, w.d, R31, R31, p.cond)
    OBVIOUS
  <2>1. word.op = "csinv" /\ word.sf = w.sf /\ word.d = w.d /\ word.n = R31 /\ word.m = R31 /\ word.cond = p.cond
    BY DEF Select, Ternary, Word
  <2>2. w.op = "sub" /\ w.n = R31 /\ w.sh = "lsl" /\ w.k = 0 /\ w.m = p.d /\ w.d # R31
    BY <1>6 DEF NegatesBool
  <2>3. w.op \notin FlagOps /\ AsOne(w, word) /\ w.op \in ArithOps /\ w.op \in SubOps /\ w.op \notin SpSource
        /\ w.sh \in ShiftOps
    BY <2>1, <2>2, RealWord DEF AsOne, FlagOps, CondCmpOps, CondCmpImmOps, ComputeOps, SelectOps, ArithOps, SubOps,
       SpSource, ImmArithOps, ExtArithOps, ShiftOps
  <2>4. ASSUME NEW m \in RegisterStates, NEW u \in {m, Exec(m, p)} PROVE Value(Exec(m, p), w) = Value(u, word)
    <3>. PICK n, f, v : n = Exec(m, p) /\ f = m.flags /\ v = Reads(n, w, w.m)
      OBVIOUS
    <3>1. v = (IF Holds(p.cond, f) THEN {} ELSE {0}) /\ u.flags = f
      BY <1>4, <2>2
    <3>2. Value(n, w) = Subtracted({}, v, s)
      <4>1. Reads(n, w, w.n) = {}
        BY <2>2, <2>3 DEF Reads
      <4>2. s \in Nat \ {0} /\ v \in SUBSET Low(s)
        BY ReadFits
      <4>3. ShiftBy(w.sh, v, w.k, s) = v
        BY <2>2, <2>3, <4>2, ShiftByNothing
      <4>4. Outcome(n, w, s) = Totalled(w.op, {}, v, s)
        BY <2>3, <4>1, <4>3, OutcomeOfArith
      <4>. QED
        BY <2>3, <4>4 DEF Value, Totalled, Lessened, Subtracted
    <3>3. Value(u, word) = IF Holds(p.cond, f) THEN {} ELSE Low(s)
      <4>1. Size(word) = s
        BY <2>1 DEF Size
      <4>. QED
        BY <2>1, <3>1, <4>1, CsetmValue
    <3>. QED
      BY <1>3, <3>1, <3>2, <3>3, MinusOneIs
  <2>5. Sound(<<p, w>>, FoldOrKeep(p, w, word))
    BY <1>2, <2>3, <2>4, FoldOrKeepSound
  <2>. QED
    BY <1>6, <2>5
<1>. QED
  BY <1>5, <1>6 DEF CsetFold

-----------------------------------------------------------------------------
(* Words that need no producer.                                            *)

\* Two words that leave the same, and a word that leaves nothing new.
LEMMA SingleSound ==
  ASSUME NEW w, NEW word, AsOne(w, word), w.op \notin FlagOps, \A m \in RegisterStates : Value(m, w) = Value(m, word)
  PROVE  Sound(<<w>>, Replace(<<word>>, {}))
<1>1. ASSUME NEW m \in RegisterStates PROVE Alike(Run(m, <<w>>), Run(m, <<word>>), {})
  BY StatesAreShaped, AfterAlike, RunOfOne
<1>. QED
  BY <1>1 DEF Sound, Replace

LEMMA NothingSound ==
  ASSUME NEW w, Produces(w), \A m \in RegisterStates : Value(m, w) = m.x[w.d]
  PROVE  Sound(<<w>>, Replace(<<>>, {}))
<1>1. ASSUME NEW m \in RegisterStates PROVE Alike(Run(m, <<w>>), Run(m, <<>>), {})
  <2>1. Run(m, <<w>>) = Exec(m, w) /\ Run(m, <<>>) = m
    BY RunOfNone, RunOfOne
  <2>2. /\ Exec(m, w).sp = m.sp /\ Exec(m, w).flags = m.flags
        /\ \A g \in Gprs : Exec(m, w).x[g] = IF g = w.d THEN Value(m, w) ELSE m.x[g]
    BY StatesAreShaped, AfterCompute, AluAssumption DEF Produces
  <2>. QED
    BY <2>1, <2>2 DEF Alike
<1>. QED
  BY <1>1 DEF Sound, Replace

\* What an operation of unshifted registers leaves.
LEMMA PlainValue ==
  ASSUME NEW m, NEW w, w.op \in ArithOps \cup LogicOps, w.k = 0, w.sh \in ShiftOps
  PROVE  Value(m, w) = Operated(w.op, Reads(m, w, w.n), Reads(m, w, w.m), Size(w)).v
<1>. PICK s, b : s = Size(w) /\ b = Reads(m, w, w.m)
  OBVIOUS
<1>1. s \in Nat \ {0} /\ b \in SUBSET Low(s)
  BY ReadFits
<1>2. ShiftBy(w.sh, b, w.k, s) = b
  BY <1>1, ShiftByNothing
<1>. QED
  BY <1>2, OutcomeOfOperation DEF Value

\* The copy, the constant and the complement that are suggested.
LEMMA MovValue ==
  ASSUME NEW sf, NEW d, NEW r \in Gprs, NEW w, w = Mov(sf, d, r)
  PROVE  /\ w.sf = sf /\ w.d = d /\ w.op \in ComputeOps \ FlagOps
         /\ \A m : Value(m, w) = m.x[r] \cap Low(Size(w))
<1>1. w.op = "orr" /\ w.sf = sf /\ w.d = d /\ w.n = R31 /\ w.m = r /\ w.sh = "lsl" /\ w.k = 0
  BY DEF Mov, Ternary, Word
<1>2. /\ w.op \in ArithOps \cup LogicOps /\ w.sh \in ShiftOps /\ w.op \notin SpSource /\ w.op \notin FlagOps
      /\ w.op \notin ArithOps /\ w.op \notin InvertedOps /\ w.op \in ComputeOps /\ r # R31
  BY <1>1, AluAssumption DEF ArithOps, LogicOps, ShiftOps, SpSource, ImmArithOps, ExtArithOps, FlagOps, CondCmpOps, CondCmpImmOps,
     InvertedOps, ComputeOps
<1>3. ASSUME NEW m PROVE Value(m, w) = m.x[r] \cap Low(Size(w))
  <2>. PICK s, x : s = Size(w) /\ x = Reads(m, w, r)
    OBVIOUS
  <2>1. Value(m, w) = Operated(w.op, {}, x, s).v
    <3>1. Reads(m, w, w.n) = {}
      BY <1>1, <1>2 DEF Reads
    <3>. QED
      BY <1>1, <1>2, <3>1, PlainValue
  <2>2. Operated(w.op, {}, x, s) = Plainly(x, s)
    BY <1>1, <1>2 DEF Operated, Logic
  <2>3. Plainly(x, s).v = x
    BY DEF Plainly
  <2>. QED
    BY <1>2, <2>1, <2>2, <2>3 DEF Reads
<1>. QED
  BY <1>1, <1>2, <1>3

LEMMA MovImmValue ==
  ASSUME NEW sf, NEW d, NEW bits, NEW w, w = MovImm(sf, d, bits)
  PROVE  w.sf = sf /\ w.d = d /\ w.op \in ComputeOps \ FlagOps /\ \A m : Value(m, w) = bits
<1>1. w.op = "mov" /\ w.sf = sf /\ w.d = d /\ w.mask = bits
  BY DEF MovImm, Masked, Word
<1>2. w.op \notin FlagOps /\ w.op \in ComputeOps
  BY <1>1 DEF FlagOps, CondCmpOps, CondCmpImmOps, ComputeOps
<1>. QED
  BY <1>1, <1>2, MaskValue

LEMMA MvnValue ==
  ASSUME NEW sf, NEW d, NEW r \in Gprs, NEW w, w = Mvn(sf, d, r)
  PROVE  /\ w.sf = sf /\ w.d = d /\ w.op \in ComputeOps \ FlagOps
         /\ \A m : Value(m, w) = Low(Size(w)) \ (m.x[r] \cap Low(Size(w)))
<1>1. w.op = "orn" /\ w.sf = sf /\ w.d = d /\ w.n = R31 /\ w.m = r /\ w.sh = "lsl" /\ w.k = 0
  BY DEF Mvn, Ternary, Word
<1>2. /\ w.op \in ArithOps \cup LogicOps /\ w.sh \in ShiftOps /\ w.op \notin SpSource /\ w.op \notin FlagOps
      /\ w.op \notin ArithOps /\ w.op \in InvertedOps /\ w.op \in ComputeOps /\ r # R31
  BY <1>1, AluAssumption DEF ArithOps, LogicOps, ShiftOps, SpSource, ImmArithOps, ExtArithOps, FlagOps, CondCmpOps, CondCmpImmOps,
     InvertedOps, ComputeOps
<1>3. ASSUME NEW m PROVE Value(m, w) = Low(Size(w)) \ (m.x[r] \cap Low(Size(w)))
  <2>. PICK s, x : s = Size(w) /\ x = Reads(m, w, r)
    OBVIOUS
  <2>1. Value(m, w) = Operated(w.op, {}, x, s).v
    <3>1. Reads(m, w, w.n) = {}
      BY <1>1, <1>2 DEF Reads
    <3>. QED
      BY <1>1, <1>2, <3>1, PlainValue
  <2>2. Operated(w.op, {}, x, s) = Plainly(Low(s) \ x, s)
    BY <1>1, <1>2 DEF Operated, Logic
  <2>3. \A u : Plainly(u, s).v = u
    BY DEF Plainly
  <2>. QED
    BY <1>2, <2>1, <2>2, <2>3 DEF Reads
<1>. QED
  BY <1>1, <1>2, <1>3

\* A value with itself, and with nothing.
LEMMA OperatedWithItself ==
  ASSUME NEW s \in 0 .. W, NEW x \in SUBSET Low(s), NEW op
  PROVE  /\ op \in {"and", "orr"} => Operated(op, x, x, s).v = x
         /\ op \in {"eor", "bic", "sub"} => Operated(op, x, x, s).v = {}
         /\ op \in {"orn", "eon"} => Operated(op, x, x, s).v = Low(s)
<1>1. \A u : Plainly(u, s).v = u
  BY DEF Plainly
<1>2. ASSUME op \in {"and", "orr", "eor"} PROVE Operated(op, x, x, s) = Plainly(Logic(op, x, x), s)
  BY <1>2 DEF Operated, ArithOps, InvertedOps
<1>3. ASSUME op \in {"bic", "orn", "eon"} PROVE Operated(op, x, x, s) = Plainly(Logic(op, x, Low(s) \ x), s)
  BY <1>3 DEF Operated, ArithOps, InvertedOps
<1>4. op \in {"and", "orr"} => Logic(op, x, x) = x
  BY DEF Logic
<1>5. Logic("eor", x, x) = {} /\ Logic("bic", x, Low(s) \ x) = {}
  BY DEF Logic, SymDiff
<1>6. op \in {"orn", "eon"} => Logic(op, x, Low(s) \ x) = Low(s)
  BY DEF Logic, SymDiff
<1>7. Operated("sub", x, x, s).v = {}
  <2>1. Subtracted(x, x, s) = {}
    BY SubtractNothing
  <2>. QED
    BY <2>1 DEF Operated, ArithOps, SubOps, Totalled, Lessened, Subtracted
<1>. QED
  BY <1>1, <1>2, <1>3, <1>4, <1>5, <1>6, <1>7

LEMMA OperatedWithNothing ==
  ASSUME NEW s \in 0 .. W, NEW x \in SUBSET Low(s), NEW op
  PROVE  /\ op \in {"bic", "orr", "eor", "add", "sub"} => Operated(op, x, {}, s).v = x
         /\ op = "and" => Operated(op, x, {}, s).v = {}
         /\ op = "orn" => Operated(op, x, {}, s).v = Low(s)
         /\ op = "eon" => Operated(op, x, {}, s).v = Low(s) \ x
<1>1. \A u : Plainly(u, s).v = u
  BY DEF Plainly
<1>2. ASSUME op \in {"and", "orr", "eor"} PROVE Operated(op, x, {}, s) = Plainly(Logic(op, x, {}), s)
  BY <1>2 DEF Operated, ArithOps, InvertedOps
<1>3. ASSUME op \in {"bic", "orn", "eon"} PROVE Operated(op, x, {}, s) = Plainly(Logic(op, x, Low(s)), s)
  <2>1. Low(s) \ {} = Low(s)
    OBVIOUS
  <2>. QED
    BY <1>3, <2>1 DEF Operated, ArithOps, InvertedOps
<1>4. Logic("and", x, {}) = {} /\ Logic("orr", x, {}) = x /\ Logic("eor", x, {}) = x
  BY DEF Logic, SymDiff
<1>5. Logic("bic", x, Low(s)) = x /\ Logic("orn", x, Low(s)) = Low(s)
  BY DEF Logic
<1>6. Logic("eon", x, Low(s)) = Low(s) \ x
  BY DEF Logic, SymDiff
<1>7. Operated("add", x, {}, s).v = x
  <2>1. Added(x, {}, s) = x
    BY AddNothing
  <2>. QED
    BY <2>1 DEF Operated, ArithOps, SubOps, Totalled, Summed, Added
<1>8. Operated("sub", x, {}, s).v = x
  <2>1. Subtracted(x, {}, s) = x
    BY SubtractNothing
  <2>. QED
    BY <2>1 DEF Operated, ArithOps, SubOps, Totalled, Lessened, Subtracted
<1>. QED
  BY <1>1, <1>2, <1>3, <1>4, <1>5, <1>6, <1>7, <1>8

\* The three words a degenerate spelling becomes.
LEMMA BecomesCopy ==
  ASSUME NEW w, w.d \in Gprs, w.n \in Gprs, w.op \in ComputeOps \ FlagOps,
         \A m \in RegisterStates : Value(m, w) = m.x[w.n] \cap Low(Size(w))
  PROVE  Sound(<<w>>, Replace(<<Copy(w)>>, {}))
<1>. PICK sf, d, r, word : sf = w.sf /\ d = w.d /\ r = w.n /\ word = Mov(sf, d, r)
  OBVIOUS
<1>1. /\ word.sf = sf /\ word.d = d /\ word.op \in ComputeOps \ FlagOps
      /\ \A m : Value(m, word) = m.x[r] \cap Low(Size(word))
  BY MovValue
<1>2. AsOne(w, word) /\ Size(word) = Size(w)
  BY <1>1, AluAssumption DEF AsOne, Reg, Size
<1>3. \A m \in RegisterStates : Value(m, w) = Value(m, word)
  BY ZenonT(30), <1>1, <1>2
<1>4. Sound(<<w>>, Replace(<<word>>, {}))
  BY <1>2, <1>3, SingleSound
<1>. QED
  BY <1>4 DEF Copy

LEMMA BecomesConstant ==
  ASSUME NEW w, w.d \in Gprs, w.op \in ComputeOps \ FlagOps, NEW bits, \A m \in RegisterStates : Value(m, w) = bits
  PROVE  Sound(<<w>>, Replace(<<MovImm(w.sf, w.d, bits)>>, {}))
<1>. PICK sf, d, word : sf = w.sf /\ d = w.d /\ word = MovImm(sf, d, bits)
  OBVIOUS
<1>1. word.sf = sf /\ word.d = d /\ word.op \in ComputeOps \ FlagOps /\ \A m : Value(m, word) = bits
  BY MovImmValue
<1>2. AsOne(w, word)
  BY <1>1, AluAssumption DEF AsOne, Reg
<1>3. Sound(<<w>>, Replace(<<word>>, {}))
  BY <1>1, <1>2, SingleSound
<1>. QED
  BY <1>3

LEMMA SelfOpIsSound ==
  ASSUME NEW w, Real(w), NEW ws \in SelfOp(w)
  PROVE  Sound(<<w>>, Replace(ws, {}))
<1>1. /\ w.k = 0 /\ w.n = w.m /\ w.d \in Gprs /\ w.n \in Gprs /\ w.n # R31
      /\ \/ w.op \in {"and", "orr"} /\ ws = <<Copy(w)>>
         \/ w.op \in {"eor", "bic", "sub"} /\ ws = <<Zero(w)>>
         \/ w.op \in {"orn", "eon"} /\ ws = <<MinusOne(w)>>
  <2>1. w.k = 0 /\ w.n = w.m /\ w.d # R31 /\ w.n # R31
    BY DEF SelfOp
  <2>2. /\ w.op \in {"and", "orr"} => SelfOp(w) = {<<Copy(w)>>}
        /\ w.op \in {"eor", "bic", "sub"} => SelfOp(w) = {<<Zero(w)>>}
        /\ w.op \in {"orn", "eon"} => SelfOp(w) = {<<MinusOne(w)>>}
        /\ w.op \notin {"and", "orr", "eor", "bic", "sub", "orn", "eon"} => SelfOp(w) = {}
    BY <2>1 DEF SelfOp
  <2>. QED
    BY <2>1, <2>2, RealWord DEF Reg
<1>2. /\ w.op \in ArithOps \cup LogicOps /\ w.sh \in ShiftOps /\ w.op \in ComputeOps \ FlagOps /\ w.op \notin SpSource
  BY <1>1 DEF Real, ArithOps, LogicOps, ShiftOps, ComputeOps, FlagOps, CondCmpOps, CondCmpImmOps, SpSource, ImmArithOps,
     ExtArithOps
<1>. PICK s : s = Size(w)
  OBVIOUS
<1>3. ASSUME NEW m
      PROVE  /\ w.op \in {"and", "orr"} => Value(m, w) = m.x[w.n] \cap Low(s)
             /\ w.op \in {"eor", "bic", "sub"} => Value(m, w) = {}
             /\ w.op \in {"orn", "eon"} => Value(m, w) = Low(s)
  <2>. PICK x : x = Reads(m, w, w.n)
    OBVIOUS
  <2>1. s \in 0 .. W /\ x \in SUBSET Low(s) /\ x = m.x[w.n] \cap Low(s)
    BY <1>1, ReadFits DEF Reads
  <2>2. Value(m, w) = Operated(w.op, x, x, s).v
    BY <1>1, <1>2, PlainValue
  <2>. QED
    BY <2>1, <2>2, OperatedWithItself
<1>4. CASE w.op \in {"and", "orr"} /\ ws = <<Copy(w)>>
  BY <1>1, <1>2, <1>3, <1>4, BecomesCopy
<1>5. CASE w.op \in {"eor", "bic", "sub"} /\ ws = <<Zero(w)>>
  BY <1>1, <1>2, <1>3, <1>5, BecomesConstant DEF Zero
<1>6. CASE w.op \in {"orn", "eon"} /\ ws = <<MinusOne(w)>>
  BY <1>1, <1>2, <1>3, <1>6, BecomesConstant DEF MinusOne
<1>. QED
  BY <1>1, <1>4, <1>5, <1>6

LEMMA ZrOperandIsSound ==
  ASSUME NEW w, Real(w), NEW ws \in ZrOperand(w)
  PROVE  Sound(<<w>>, Replace(ws, {}))
<1>1. /\ w.k = 0 /\ w.m = R31 /\ w.d \in Gprs /\ w.n \in Gprs /\ w.n # R31
      /\ \/ w.op \in {"bic", "orr", "eor", "add", "sub"} /\ ws = <<Copy(w)>>
         \/ w.op = "and" /\ ws = <<Zero(w)>>
         \/ w.op = "orn" /\ ws = <<MinusOne(w)>>
         \/ w.op = "eon" /\ ws = <<Mvn(w.sf, w.d, w.n)>>
  <2>1. w.k = 0 /\ w.m = R31 /\ w.d # R31 /\ w.n # R31
    BY DEF ZrOperand
  <2>2. /\ w.op \in {"bic", "orr", "eor", "add", "sub"} => ZrOperand(w) = {<<Copy(w)>>}
        /\ w.op = "and" => ZrOperand(w) = {<<Zero(w)>>}
        /\ w.op = "orn" => ZrOperand(w) = {<<MinusOne(w)>>}
        /\ w.op = "eon" => ZrOperand(w) = {<<Mvn(w.sf, w.d, w.n)>>}
        /\ w.op \notin {"bic", "orr", "eor", "add", "sub", "and", "orn", "eon"} => ZrOperand(w) = {}
    BY <2>1 DEF ZrOperand
  <2>. QED
    BY <2>1, <2>2, RealWord DEF Reg
<1>2. /\ w.op \in ArithOps \cup LogicOps /\ w.sh \in ShiftOps /\ w.op \in ComputeOps \ FlagOps /\ w.op \notin SpSource
  BY <1>1 DEF Real, ArithOps, LogicOps, ShiftOps, ComputeOps, FlagOps, CondCmpOps, CondCmpImmOps, SpSource, ImmArithOps,
     ExtArithOps
<1>. PICK s : s = Size(w)
  OBVIOUS
<1>3. ASSUME NEW m
      PROVE  /\ w.op \in {"bic", "orr", "eor", "add", "sub"} => Value(m, w) = m.x[w.n] \cap Low(s)
             /\ w.op = "and" => Value(m, w) = {}
             /\ w.op = "orn" => Value(m, w) = Low(s)
             /\ w.op = "eon" => Value(m, w) = Low(s) \ (m.x[w.n] \cap Low(s))
  <2>. PICK x : x = Reads(m, w, w.n)
    OBVIOUS
  <2>1. s \in 0 .. W /\ x \in SUBSET Low(s) /\ x = m.x[w.n] \cap Low(s) /\ Reads(m, w, w.m) = {}
    BY <1>1, <1>2, ReadFits DEF Reads
  <2>2. Value(m, w) = Operated(w.op, x, {}, s).v
    BY <1>1, <1>2, <2>1, PlainValue
  <2>3. /\ w.op \in {"bic", "orr", "eor", "add", "sub"} => Operated(w.op, x, {}, s).v = x
        /\ w.op = "and" => Operated(w.op, x, {}, s).v = {}
        /\ w.op = "orn" => Operated(w.op, x, {}, s).v = Low(s)
        /\ w.op = "eon" => Operated(w.op, x, {}, s).v = Low(s) \ x
    BY <2>1, OperatedWithNothing
  <2>4. PICK v : v = Value(m, w) /\ v = Operated(w.op, x, {}, s).v
    BY <2>2
  <2>. QED
    BY <2>1, <2>3, <2>4
<1>4. CASE w.op \in {"bic", "orr", "eor", "add", "sub"} /\ ws = <<Copy(w)>>
  BY <1>1, <1>2, <1>3, <1>4, BecomesCopy
<1>5. CASE w.op = "and" /\ ws = <<Zero(w)>>
  BY <1>1, <1>2, <1>3, <1>5, BecomesConstant DEF Zero
<1>6. CASE w.op = "orn" /\ ws = <<MinusOne(w)>>
  BY <1>1, <1>2, <1>3, <1>6, BecomesConstant DEF MinusOne
<1>7. CASE w.op = "eon" /\ ws = <<Mvn(w.sf, w.d, w.n)>>
  <2>. PICK sf, d, r, word : sf = w.sf /\ d = w.d /\ r = w.n /\ word = Mvn(sf, d, r)
    OBVIOUS
  <2>1. /\ word.sf = sf /\ word.d = d /\ word.op \in ComputeOps \ FlagOps
        /\ \A m : Value(m, word) = Low(Size(word)) \ (m.x[r] \cap Low(Size(word)))
    BY <1>1, MvnValue
  <2>2. AsOne(w, word) /\ Size(word) = s
    BY <1>1, <1>2, <2>1, AluAssumption DEF AsOne, Reg, Size
  <2>3. ASSUME NEW m \in RegisterStates PROVE Value(m, w) = Value(m, word)
    <3>1. Value(m, w) = Low(s) \ (m.x[w.n] \cap Low(s))
      BY <1>3, <1>7
    <3>2. Value(m, word) = Low(Size(word)) \ (m.x[w.n] \cap Low(Size(word)))
      BY <2>1
    <3>. QED
      BY <2>2, <3>1, <3>2
  <2>4. Sound(<<w>>, Replace(<<word>>, {}))
    BY <1>2, <2>2, <2>3, SingleSound
  <2>. QED
    BY <1>7, <2>4
<1>. QED
  BY <1>1, <1>4, <1>5, <1>6, <1>7

LEMMA Lo32MovIsSound ==
  ASSUME NEW w, Real(w), NEW ws \in Lo32Mov(w)
  PROVE  Sound(<<w>>, Replace(ws, {}))
<1>. PICK b : b = FALSE
  OBVIOUS
<1>. PICK word : word = Mov(b, w.d, w.n)
  OBVIOUS
<1>1. /\ ws = <<word>> /\ w.sf /\ w.d \in Gprs /\ w.n \in Gprs /\ w.n # R31
      /\ \/ w.op = "andi" /\ w.mask = Low(H)
         \/ w.op = "ubfx" /\ w.k = 0 /\ w.wd = H
  BY RealWord DEF Lo32Mov, LowMask, UbfmZext, Reg
<1>2. w.op \in ComputeOps \ FlagOps /\ w.op \notin SpSource
  BY <1>1, RealWord DEF FlagOps, CondCmpOps, CondCmpImmOps, SpSource, ImmArithOps, ExtArithOps
<1>3. /\ word.sf = b /\ word.d = w.d /\ word.op \in ComputeOps \ FlagOps
      /\ \A m : Value(m, word) = m.x[w.n] \cap Low(Size(word))
  BY <1>1, MovValue
<1>4. AsOne(w, word) /\ Size(word) = H /\ Size(w) = W
  BY <1>1, <1>2, <1>3, AluAssumption DEF AsOne, Reg, Size
<1>5. \A m : Value(m, w) = m.x[w.n] \cap Low(H)
  <2>1. Low(H) \subseteq Low(W)
    BY AluAssumption DEF Low
  <2>2. ASSUME NEW m PROVE Value(m, w) = Reads(m, w, w.n) \cap Low(H)
    <3>1. CASE w.op = "andi" /\ w.mask = Low(H)
      BY <3>1, MaskValue
    <3>2. CASE w.op = "ubfx" /\ w.k = 0 /\ w.wd = H
      <4>. PICK x : x = Reads(m, w, w.n)
        OBVIOUS
      <4>1. W \in Nat \ {0} /\ x \in SUBSET Low(W) /\ "lsr" \in ShiftOps
        BY Widths, ReadFits DEF ShiftOps
      <4>2. ShiftBy("lsr", x, 0, W) = x
        BY <4>1, ShiftByNothing
      <4>3. Extract(x, 0, H) = x \cap Low(H)
        BY <4>2 DEF ShiftBy, Extract
      <4>. QED
        BY <3>2, <4>3, BitfieldValue
    <3>. QED
      BY <1>1, <3>1, <3>2
  <2>. QED
    BY <1>1, <1>4, <2>1, <2>2 DEF Reads
<1>6. \A m \in RegisterStates : Value(m, w) = Value(m, word)
  BY <1>3, <1>4, <1>5
<1>7. Sound(<<w>>, Replace(<<word>>, {}))
  BY <1>2, <1>4, <1>6, SingleSound
<1>. QED
  BY <1>1, <1>7

LEMMA CselSelfIsSound ==
  ASSUME NEW w, Real(w), NEW ws \in CselSelf(w)
  PROVE  Sound(<<w>>, Replace(ws, {}))
<1>1. /\ w.op = "csel" /\ w.n = w.m /\ w.d \in Gprs
      /\ (w.n = R31 /\ ws = <<Zero(w)>>) \/ (w.n \in Gprs /\ w.n # R31 /\ ws = <<Copy(w)>>)
  BY RealWord DEF CselSelf, Reg
<1>2. w.op \in ComputeOps \ FlagOps /\ w.op \notin SpSource /\ w.op \in SelectOps
  BY <1>1, RealWord DEF FlagOps, CondCmpOps, CondCmpImmOps, SpSource, ImmArithOps, ExtArithOps, SelectOps
<1>3. \A m : Value(m, w) = Reads(m, w, w.n)
  <2>. TAKE m
  <2>. PICK s, x : s = Size(w) /\ x = Reads(m, w, w.n)
    OBVIOUS
  <2>1. ElseValue(w.op, x, s) = x
    BY <1>1 DEF ElseValue
  <2>2. Outcome(m, w, s) = Plainly(x, s)
    BY <1>1, <1>2, <2>1, OutcomeOfSelect
  <2>3. \A u : Plainly(u, s).v = u
    BY DEF Plainly
  <2>. QED
    BY <2>2, <2>3 DEF Value
<1>4. CASE w.n = R31 /\ ws = <<Zero(w)>>
  <2>1. \A m : Value(m, w) = {}
    BY <1>2, <1>3, <1>4 DEF Reads
  <2>. QED
    BY <1>1, <1>2, <1>4, <2>1, BecomesConstant DEF Zero
<1>5. CASE w.n \in Gprs /\ w.n # R31 /\ ws = <<Copy(w)>>
  <2>1. \A m : Value(m, w) = m.x[w.n] \cap Low(Size(w))
    BY <1>3, <1>5 DEF Reads
  <2>. QED
    BY <1>1, <1>2, <1>5, <2>1, BecomesCopy
<1>. QED
  BY <1>1, <1>4, <1>5

LEMMA MovSelfIsSound ==
  ASSUME NEW w, Real(w), NEW ws \in MovSelf(w)
  PROVE  Sound(<<w>>, Replace(ws, {}))
<1>1. ws = <<>> /\ w.op = "orr" /\ w.sf /\ w.n = R31 /\ w.k = 0 /\ w.m = w.d /\ w.d # R31 /\ w.d \in Gprs
  BY RealWord DEF MovSelf, Reg
<1>2. /\ w.op \in ComputeOps \ FlagOps /\ w.op \notin SpSource /\ w.op \in ArithOps \cup LogicOps /\ w.op \notin ArithOps
      /\ w.op \notin InvertedOps /\ w.sh \in ShiftOps
  BY <1>1, RealWord DEF FlagOps, CondCmpOps, CondCmpImmOps, SpSource, ImmArithOps, ExtArithOps, ArithOps, LogicOps,
     InvertedOps, Real
<1>3. Produces(w)
  BY <1>1, <1>2 DEF Produces
<1>4. ASSUME NEW m \in RegisterStates PROVE Value(m, w) = m.x[w.d]
  <2>. PICK s, x : s = Size(w) /\ x = Reads(m, w, w.m)
    OBVIOUS
  <2>1. s = W /\ m.x[w.d] \in SUBSET Low(W) /\ x = m.x[w.d] /\ Reads(m, w, w.n) = {}
    BY <1>1, <1>2 DEF Size, Reads, RegisterStates
  <2>2. Value(m, w) = Operated(w.op, {}, x, s).v
    BY <1>1, <1>2, <2>1, PlainValue
  <2>3. Operated(w.op, {}, x, s) = Plainly(x, s)
    BY <1>1, <1>2 DEF Operated, Logic
  <2>4. Plainly(x, s).v = x
    BY DEF Plainly
  <2>. QED
    BY <2>1, <2>2, <2>3, <2>4
<1>. QED
  BY <1>1, <1>3, <1>4, NothingSound

LEMMA AddSubZeroIsSound ==
  ASSUME NEW w, Real(w), ~ZeroesHighHalf(w), NEW adr, NEW ws \in AddSubZero(w, adr)
  PROVE  Sound(<<w>>, Replace(ws, {}))
<1>1. /\ w.op = "addi" /\ w.k = 0 /\ w.d \in Gprs /\ w.n \in Gprs /\ w.d # R31 /\ w.n # R31
      /\ (w.d = w.n /\ ws = <<>>) \/ (w.d # w.n /\ ws = <<Copy(w)>>)
  BY RealWord DEF AddSubZero, Reg
<1>2. w.op \in ComputeOps \ FlagOps
  BY <1>1, RealWord DEF FlagOps, CondCmpOps, CondCmpImmOps
<1>3. \A m : Value(m, w) = m.x[w.n] \cap Low(Size(w))
  BY <1>1, AdjustValue DEF Reads
<1>4. CASE w.d = w.n /\ ws = <<>>
  <2>1. Size(w) = W
    BY <1>1, <1>4 DEF ZeroesHighHalf, Size
  <2>2. ASSUME NEW m \in RegisterStates PROVE Value(m, w) = m.x[w.d]
    <3>1. m.x[w.d] \in SUBSET Low(W)
      BY <1>1 DEF RegisterStates
    <3>. QED
      BY <1>3, <1>4, <2>1, <3>1
  <2>. QED
    BY <1>1, <1>2, <1>4, <2>2, NothingSound DEF Produces
<1>5. CASE w.d # w.n /\ ws = <<Copy(w)>>
  BY <1>1, <1>2, <1>3, <1>5, BecomesCopy
<1>. QED
  BY <1>1, <1>4, <1>5

\* Every single word that is replaced leaves what it left.
LEMMA SinglesAreSound ==
  ASSUME NEW w, Real(w), ~ZeroesHighHalf(w), NEW adr, NEW ws \in Singles(w, adr)
  PROVE  Sound(<<w>>, Replace(ws, {}))
<1>1. \/ ws \in SelfOp(w) \/ ws \in ZrOperand(w) \/ ws \in Lo32Mov(w) \/ ws \in CselSelf(w) \/ ws \in MovSelf(w)
      \/ ws \in AddSubZero(w, adr)
  BY DEF Singles
<1>. QED
  BY <1>1, SelfOpIsSound, ZrOperandIsSound, Lo32MovIsSound, CselSelfIsSound, MovSelfIsSound, AddSubZeroIsSound

\* No check but the one of redundant extensions opens on a load, and none
\* closes on one.
LEMMA OpenedByCompute ==
  ASSUME NEW t \in Trackers \ {"sxt"}, NEW p, Opens(t, p)
  PROVE  p.op # "ldr"
<1>1. CASE t = "shf"
  BY <1>1 DEF Opens, ShiftOpens, ShiftOps
<1>2. CASE t = "fnl"
  BY <1>2 DEF Opens, FunnelOpens
<1>3. CASE t = "bsx"
  BY <1>3 DEF Opens, BitfieldOpens
<1>4. CASE t = "lra"
  BY <1>4 DEF Opens, LsrAndOpens
<1>5. CASE t = "alr"
  BY <1>5 DEF Opens, AndLsrOpens
<1>6. CASE t = "aul"
  BY <1>6 DEF Opens, UpOpens, LowField, ZextField, UbfmZext, LowMask, MovW
<1>7. CASE t = "aos"
  BY <1>7 DEF Opens, InsertOpens
<1>8. CASE t = "aec"
  BY <1>8 DEF Opens, ChainOpens, ChainRole, SextRole, UbfmZext, MovW, ShiftOps
<1>9. CASE t = "neg"
  BY <1>9 DEF Opens, NegOpens
<1>10. CASE t = "mvn"
  BY <1>10 DEF Opens, MvnOpens
<1>11. CASE t = "ao"
  BY <1>11 DEF Opens, AddOneOpens
<1>12. CASE t = "mul"
  BY <1>12 DEF Opens, MulOpens
<1>13. CASE t = "wmul"
  BY <1>13 DEF Opens, WideMulOpens, Widening
<1>14. CASE t = "ext"
  BY <1>14 DEF Opens, ExtendOpens, SbfmSext, UbfmZext
<1>15. CASE t = "rcc"
  BY <1>15 DEF Opens, RegisterCopy
<1>16. CASE t = "cpa"
  BY <1>16 DEF Opens, CopyOpens, RegisterCopy, CopiesSp
<1>17. CASE t = "spm"
  BY <1>17 DEF Opens, SpMovOpens
<1>18. CASE t = "cset"
  BY <1>18 DEF Opens, CsetOpens
<1>19. CASE t = "adr"
  BY <1>19 DEF Opens
<1>. QED
  BY <1>1, <1>2, <1>3, <1>4, <1>5, <1>6, <1>7, <1>8, <1>9, <1>10, <1>11, <1>12, <1>13, <1>14, <1>15, <1>16, <1>17, <1>18, <1>19 DEF Trackers

LEMMA ClosedByCompute ==
  ASSUME NEW t \in Trackers \ {"sxt"}, NEW p, NEW w, NEW fold \in Closes(t, p, w)
  PROVE  w.op # "ldr"
<1>1. CASE t = "shf"
  BY <1>1 DEF Closes, ShiftFold, ShiftedRegister, ArithOps, LogicOps
<1>2. CASE t = "fnl"
  BY <1>2 DEF Closes, FunnelFold, FunnelConsumer
<1>3. CASE t = "bsx"
  BY <1>3 DEF Closes, BitfieldFold
<1>4. CASE t = "lra"
  BY <1>4 DEF Closes, LsrAndFold, LowMask
<1>5. CASE t = "alr"
  BY <1>5 DEF Closes, AndLsrFold
<1>6. CASE t = "aul"
  BY <1>6 DEF Closes, UpFold
<1>7. CASE t = "aos"
  BY <1>7 DEF Closes, InsertFold
<1>8. CASE t = "aec"
  BY <1>8 DEF Closes, ChainFold, ChainRole, SextRole, UbfmZext, ShiftOps
<1>9. CASE t = "neg"
  BY <1>9 DEF Closes, NegFold, SelectFold
<1>10. CASE t = "mvn"
  BY <1>10 DEF Closes, MvnFold, SelectFold, Inverted
<1>11. CASE t = "ao"
  BY <1>11 DEF Closes, AddOneFold, SelectFold
<1>12. CASE t = "mul"
  BY <1>12 DEF Closes, MulFold, PlainArith
<1>13. CASE t = "wmul"
  BY <1>13 DEF Closes, WideMulFold, PlainArith
<1>14. CASE t = "ext"
  BY <1>14 DEF Closes, ExtendFold, ArithOps
<1>15. CASE t = "rcc"
  BY <1>15 DEF Closes, CopyChain, RegisterCopy
<1>16. CASE t = "cpa"
  BY <1>16 DEF Closes, CopyAdd
<1>17. CASE t = "spm"
  BY <1>17 DEF Closes, SpMovOverwritten
<1>18. CASE t = "cset"
  BY <1>18 DEF Closes, CsetFold, InvertsBool, NegatesBool
<1>19. CASE t = "adr"
  BY <1>19 DEF Closes
<1>. QED
  BY <1>1, <1>2, <1>3, <1>4, <1>5, <1>6, <1>7, <1>8, <1>9, <1>10, <1>11, <1>12, <1>13, <1>14, <1>15, <1>16, <1>17, <1>18, <1>19 DEF Trackers

\* Every pair a check folds leaves what it left; of a move to SP the next
\* word stays.
AfterPair(t, w) == IF t = "spm" THEN <<w>> ELSE <<>>
THEOREM PairsAreSound ==
  ASSUME NEW p, NEW w, Decoded(p), Decoded(w), NEW t \in Trackers, Opens(t, p), NEW fold \in Closes(t, p, w)
  PROVE  SoundThen(<<p, w>>, fold, AfterPair(t, w))
<1>. t # "sxt" => Real(p) /\ Real(w)
  BY DecodedIsReal, OpenedByCompute, ClosedByCompute
<1>. t # "spm" /\ Sound(<<p, w>>, fold) => SoundThen(<<p, w>>, fold, AfterPair(t, w))
  BY SoundThenNothing DEF AfterPair
<1>1. CASE t = "shf"
  <2>1. ShiftOpens(p) /\ fold \in ShiftFold(p, w)
    BY <1>1 DEF Opens, Closes
  <2>. QED
    BY <1>1, <2>1, ShiftIsSound
<1>2. CASE t = "fnl"
  <2>1. FunnelOpens(p) /\ fold \in FunnelFold(p, w)
    BY <1>2 DEF Opens, Closes
  <2>. QED
    BY <1>2, <2>1, FunnelIsSound
<1>3. CASE t = "bsx"
  <2>1. BitfieldOpens(p) /\ fold \in BitfieldFold(p, w)
    BY <1>3 DEF Opens, Closes
  <2>. QED
    BY <1>3, <2>1, BitfieldIsSound
<1>4. CASE t = "lra"
  <2>1. LsrAndOpens(p) /\ fold \in LsrAndFold(p, w)
    BY <1>4 DEF Opens, Closes
  <2>. QED
    BY <1>4, <2>1, LsrAndIsSound
<1>5. CASE t = "alr"
  <2>1. AndLsrOpens(p) /\ fold \in AndLsrFold(p, w)
    BY <1>5 DEF Opens, Closes
  <2>. QED
    BY <1>5, <2>1, AndLsrIsSound
<1>6. CASE t = "aul"
  <2>1. UpOpens(p) /\ fold \in UpFold(p, w)
    BY <1>6 DEF Opens, Closes
  <2>. QED
    BY <1>6, <2>1, UpIsSound
<1>7. CASE t = "aos"
  <2>1. InsertOpens(p) /\ fold \in InsertFold(p, w)
    BY <1>7 DEF Opens, Closes
  <2>. QED
    BY <1>7, <2>1, InsertIsSound
<1>8. CASE t = "sxt"
  <2>1. SextOpens(p) /\ fold \in SextFold(p, w)
    BY <1>8 DEF Opens, Closes
  <2>. QED
    BY <1>8, <2>1, SextIsSound
<1>9. CASE t = "aec"
  <2>1. ChainOpens(p) /\ fold \in ChainFold(p, w)
    BY <1>9 DEF Opens, Closes
  <2>. QED
    BY <1>9, <2>1, ChainIsSound
<1>10. CASE t = "neg"
  <2>1. NegOpens(p) /\ fold \in NegFold(p, w)
    BY <1>10 DEF Opens, Closes
  <2>. QED
    BY <1>10, <2>1, NegIsSound
<1>11. CASE t = "mvn"
  <2>1. MvnOpens(p) /\ fold \in MvnFold(p, w)
    BY <1>11 DEF Opens, Closes
  <2>. QED
    BY <1>11, <2>1, MvnIsSound
<1>12. CASE t = "ao"
  <2>1. AddOneOpens(p) /\ fold \in AddOneFold(p, w)
    BY <1>12 DEF Opens, Closes
  <2>. QED
    BY <1>12, <2>1, AddOneIsSound
<1>13. CASE t = "mul"
  <2>1. MulOpens(p) /\ fold \in MulFold(p, w)
    BY <1>13 DEF Opens, Closes
  <2>. QED
    BY <1>13, <2>1, MulIsSound
<1>14. CASE t = "wmul"
  <2>1. WideMulOpens(p) /\ fold \in WideMulFold(p, w)
    BY <1>14 DEF Opens, Closes
  <2>. QED
    BY <1>14, <2>1, WideMulIsSound
<1>15. CASE t = "ext"
  <2>1. ExtendOpens(p) /\ fold \in ExtendFold(p, w)
    BY <1>15 DEF Opens, Closes
  <2>. QED
    BY <1>15, <2>1, ExtendIsSound
<1>16. CASE t = "rcc"
  <2>1. RegisterCopy(p) /\ fold \in CopyChain(p, w)
    BY <1>16 DEF Opens, Closes
  <2>. QED
    BY <1>16, <2>1, CopyChainIsSound
<1>17. CASE t = "cpa"
  <2>1. CopyOpens(p) /\ fold \in CopyAdd(p, w)
    BY <1>17 DEF Opens, Closes
  <2>. QED
    BY <1>17, <2>1, CopyAddIsSound
<1>18. CASE t = "spm"
  <2>1. SpMovOpens(p) /\ fold \in SpMovOverwritten(p, w)
    BY <1>18 DEF Opens, Closes
  <2>. QED
    BY <1>18, <2>1, SpMovIsSound DEF AfterPair
<1>19. CASE t = "cset"
  <2>1. CsetOpens(p) /\ fold \in CsetFold(p, w)
    BY <1>19 DEF Opens, Closes
  <2>. QED
    BY <1>19, <2>1, CsetIsSound
<1>20. CASE t = "adr"
  BY <1>20 DEF Closes
<1>. QED
  BY <1>1, <1>2, <1>3, <1>4, <1>5, <1>6, <1>7, <1>8, <1>9, <1>10, <1>11, <1>12, <1>13, <1>14, <1>15, <1>16, <1>17, <1>18, <1>19, <1>20 DEF Trackers

-----------------------------------------------------------------------------
(* A chain of two adjustments: the words between do the same without the   *)
(* first.                                                                  *)

\* The words that may stand between an adjustment and the one that follows.
StandsBetween(p, u) ==
  /\ ~ReadsReg(u, p.d) /\ ~WritesReg(u, p.d)
  /\ IF p.n = R31 THEN ~(u.d = R31 /\ u.op \in SpDest) ELSE ~WritesReg(u, p.n)

\* The machines with and without the first adjustment: they differ in its
\* register, and what it read is still there.
Parted(p, v, x, m1, m2) ==
  /\ Shaped(m1) /\ Shaped(m2)
  /\ m1.sp = m2.sp /\ m1.flags = m2.flags /\ m1.base = m2.base
  /\ \A g \in Gprs \ {p.d} : m1.x[g] = m2.x[g]
  /\ m1.x[p.d] = v /\ Reads(m2, p, p.n) = x
  /\ "mem" \in DOMAIN m1 /\ "mem" \in DOMAIN m2 /\ m1["mem"] = m2["mem"]

LEMMA StaysParted ==
  ASSUME NEW p, Real(p), p.d # R31, p.op = "addi", NEW u, Decoded(u), StandsBetween(p, u),
         NEW v, NEW x, NEW m1, NEW m2, Parted(p, v, x, m1, m2)
  PROVE  Parted(p, v, x, Exec(m1, u), Exec(m2, u))
<1>1. u.d \in Reg /\ u.n \in Reg /\ u.m \in Reg /\ u.a \in Reg /\ p.n \in Reg /\ p.d \in Gprs
  BY RealWord, DecodedWord DEF Reg
<1>2. \A r \in Reg \ {p.d} : Reads(m1, u, r) = Reads(m2, u, r)
  BY DEF Parted, Reads, Reg
<1>3. ReadAlike(m1, m2, u)
  BY <1>1, <1>2 DEF ReadAlike, Parted, StandsBetween, ReadsReg
<1>. PICK o : o = Outcome(m1, u, Size(u))
  OBVIOUS
<1>4. o = Outcome(m2, u, Size(u))
  <2>1. CASE u.op = "ldr"
    <3>1. m1.mem = m2.mem
      BY DEF Parted
    <3>2. \A m : Outcome(m, u, Size(u)) = Plainly(ExtendBy(u.sh, m.mem, u.wd, Size(u)), Size(u))
      BY <2>1, LoadOutcome
    <3>. QED
      BY <3>1, <3>2
  <2>2. CASE u.op # "ldr"
    BY <1>3, <2>2, DecodedIsReal, SameOutcome DEF Real
  <2>. QED
    BY <2>1, <2>2
<1>. PICK n1, n2 : n1 = Exec(m1, u) /\ n2 = Exec(m2, u)
  OBVIOUS
<1>5. /\ Shaped(n1) /\ n1.base = m1.base
      /\ n1.sp = IF u.d = R31 /\ u.op \in SpDest THEN o.v ELSE m1.sp
      /\ n1.flags = IF u.op \in FlagOps THEN o.flags ELSE m1.flags
      /\ \A g \in Gprs : n1.x[g] = IF g = u.d THEN o.v ELSE m1.x[g]
      /\ "mem" \in DOMAIN n1 /\ n1["mem"] = m1["mem"]
  BY AfterWord DEF Parted, Value
<1>6. /\ Shaped(n2) /\ n2.base = m2.base
      /\ n2.sp = IF u.d = R31 /\ u.op \in SpDest THEN o.v ELSE m2.sp
      /\ n2.flags = IF u.op \in FlagOps THEN o.flags ELSE m2.flags
      /\ \A g \in Gprs : n2.x[g] = IF g = u.d THEN o.v ELSE m2.x[g]
      /\ "mem" \in DOMAIN n2 /\ n2["mem"] = m2["mem"]
  BY <1>4, AfterWord DEF Parted, Value
<1>7. Reads(n2, p, p.n) = Reads(m2, p, p.n)
  <2>1. CASE p.n = R31
    BY <1>6, <2>1 DEF StandsBetween, Reads
  <2>2. CASE p.n # R31
    BY <1>1, <1>6, <2>2 DEF StandsBetween, WritesReg, Reads, Reg
  <2>. QED
    BY <2>1, <2>2
<1>8. u.d # p.d
  BY DEF StandsBetween, WritesReg
<1>. QED
  BY <1>1, <1>5, <1>6, <1>7, <1>8 DEF Parted

\* The two adjustments, apart and as one.
LEMMA AdjustedAlike ==
  ASSUME NEW p, Real(p), p.d # R31, p.op = "addi", NEW w, Real(w), w.op = "addi", w.n = p.d, w.sf = p.sf,
         NEW sum, sum = Shifted("addi", w.sf, w.d, p.n, p.k + w.k),
         NEW m, NEW m1, NEW m2, Parted(p, Value(m, p), Reads(m, p, p.n), m1, m2)
  PROVE  Alike(Exec(m1, w), Exec(m2, sum), {p.d} \ {w.d})
<1>. PICK s, x, k, l : s = Size(w) /\ x = Reads(m, p, p.n) /\ k = p.k /\ l = w.k
  OBVIOUS
<1>1. sum.op = "addi" /\ sum.sf = w.sf /\ sum.d = w.d /\ sum.n = p.n /\ sum.k = k + l
  BY ShiftedIs
<1>2. Size(p) = s /\ Size(sum) = s
  BY <1>1 DEF Size
<1>3. s \in 0 .. W /\ x \in SUBSET Low(s) /\ x \in SUBSET Low(W)
  BY <1>2, ReadFits
<1>4. k \in Int /\ l \in Int /\ w.d \in Reg /\ p.d \in Gprs /\ w.op \in ComputeOps
  BY FieldsOfReal, RealWord DEF Reg
<1>5. Value(m, p) = Added(x, Bits(k, s), s)
  BY <1>2, AdjustValue
<1>. PICK y : y = Added(x, Bits(k, s), s)
  OBVIOUS
<1>6. y \in SUBSET Low(s)
  BY <1>3, <1>4, AddConstant
<1>7. Reads(m1, w, w.n) = y
  <2>1. m1.x[p.d] = y
    BY <1>5 DEF Parted
  <2>. QED
    BY <1>6, <2>1 DEF Reads
<1>8. Reads(m2, sum, sum.n) = x
  <2>1. Reads(m2, p, p.n) = x
    BY DEF Parted
  <2>2. Reads(m2, sum, sum.n) = Reads(m2, p, p.n)
    BY <1>1, SameRead
  <2>. QED
    BY <2>1, <2>2
<1>9. Value(m1, w) = Value(m2, sum)
  <2>1. Value(m1, w) = Added(y, Bits(l, s), s)
    BY <1>7, AdjustValue
  <2>2. Value(m2, sum) = Added(x, Bits(k + l, s), s)
    BY <1>1, <1>2, <1>8, AdjustValue
  <2>3. Added(y, Bits(l, s), s) = Added(x, Bits(k + l, s), s)
    BY <1>3, <1>4, AddedTwice
  <2>. QED
    BY <2>1, <2>2, <2>3
<1>. PICK v : v = Value(m1, w)
  OBVIOUS
<1>10. w.op \notin FlagOps /\ sum.op \notin FlagOps /\ sum.op \in ComputeOps
  BY <1>1, <1>4 DEF FlagOps, CondCmpOps, CondCmpImmOps
<1>11. Shaped(m1) /\ Shaped(m2)
  BY DEF Parted
<1>. PICK n1, n2 : n1 = Exec(m1, w) /\ n2 = Exec(m2, sum)
  OBVIOUS
<1>12. /\ n1.sp = IF w.d = R31 /\ w.op \in SpDest THEN Value(m1, w) ELSE m1.sp
       /\ n1.flags = m1.flags
       /\ \A g \in Gprs : n1.x[g] = IF g = w.d THEN Value(m1, w) ELSE m1.x[g]
  <2>1. ASSUME NEW u, u.op \in ComputeOps \ FlagOps
        PROVE  /\ Exec(m1, u).sp = IF u.d = R31 /\ u.op \in SpDest THEN Value(m1, u) ELSE m1.sp
               /\ Exec(m1, u).flags = m1.flags
               /\ \A g \in Gprs : Exec(m1, u).x[g] = IF g = u.d THEN Value(m1, u) ELSE m1.x[g]
    BY <1>11, <2>1, AfterCompute
  <2>. QED
    BY <1>4, <1>10, <2>1
<1>13. /\ n2.sp = IF sum.d = R31 /\ sum.op \in SpDest THEN Value(m2, sum) ELSE m2.sp
       /\ n2.flags = m2.flags
       /\ \A g \in Gprs : n2.x[g] = IF g = sum.d THEN Value(m2, sum) ELSE m2.x[g]
  BY <1>10, <1>11, AfterCompute
<1>14. sum.d = w.d /\ sum.op = w.op
  BY <1>1
<1>. QED
  BY <1>9, <1>12, <1>13, <1>14 DEF Parted, Alike

\* The windows of the chain and of its replacement, word by word.
ChainOf(p, w, sum, ws, rs, j) ==
  /\ Len(ws) = j + 2 /\ DOMAIN ws = 1 .. j + 2
  /\ Len(rs) = j + 1 /\ DOMAIN rs = 1 .. j + 1
  /\ ws[1] = p /\ ws[j + 2] = w /\ rs[j + 1] = sum
  /\ \A i \in 1 .. j : ws[i + 1] = rs[i] /\ Decoded(rs[i]) /\ StandsBetween(p, rs[i])

LEMMA AdjustmentsAreSound ==
  ASSUME NEW p, Real(p), p.d # R31, p.op = "addi", NEW w, Real(w), w.op = "addi", w.n = p.d, w.sf = p.sf,
         NEW sum, sum = Shifted("addi", w.sf, w.d, p.n, p.k + w.k),
         NEW ws, NEW rs, NEW j \in Nat, ChainOf(p, w, sum, ws, rs, j)
  PROVE  Sound(ws, Replace(rs, {p.d} \ {w.d}))
<1>. SUFFICES ASSUME NEW m \in RegisterStates PROVE Alike(Run(m, ws), Run(m, rs), {p.d} \ {w.d})
  BY DEF Sound, Replace
<1>1. Len(ws) \in Nat /\ DOMAIN ws = 1 .. Len(ws) /\ Len(rs) \in Nat /\ DOMAIN rs = 1 .. Len(rs)
      /\ Len(ws) = j + 2 /\ Len(rs) = j + 1
  BY DEF ChainOf
<1>2. PICK T : Trace(T, m, ws)
  BY <1>1, TraceExists
<1>3. PICK U : Trace(U, m, rs)
  BY <1>1, TraceExists
<1>4. Run(m, ws) = T[j + 2] /\ Run(m, rs) = U[j + 1]
  BY <1>1, <1>2, <1>3, RunIsTrace
<1>. PICK v, x : v = Value(m, p) /\ x = Reads(m, p, p.n)
  OBVIOUS
<1>. DEFINE S == {k \in Nat : k <= j => Parted(p, v, x, T[k + 1], U[k])}
<1>5. 0 \in S
  <2>1. T[0] = m /\ U[0] = m
    BY <1>2, <1>3 DEF Trace
  <2>2. 1 \in 1 .. Len(ws) /\ 1 - 1 = 0
    BY <1>1
  <2>3. T[1] = Exec(m, p)
    BY <1>2, <2>1, <2>2 DEF Trace, ChainOf
  <2>4. Parted(p, v, x, Exec(m, p), m)
    <3>1. Shaped(m) /\ p.op \in ComputeOps /\ p.op \notin FlagOps /\ p.d \in Gprs
      BY StatesAreShaped, RealWord DEF Reg, FlagOps, CondCmpOps, CondCmpImmOps
    <3>2. "mem" \in DOMAIN m
      BY DEF RegisterStates
    <3>. PICK n : n = Exec(m, p)
      OBVIOUS
    <3>3. /\ Shaped(n) /\ n.base = m.base /\ n.sp = m.sp /\ n.flags = m.flags
          /\ \A g \in Gprs : n.x[g] = IF g = p.d THEN v ELSE m.x[g]
      BY <3>1, AfterCompute
    <3>4. "mem" \in DOMAIN n /\ n["mem"] = m["mem"]
      BY <3>1, <3>2, ComputeKeeps
    <3>. QED
      BY <3>1, <3>2, <3>3, <3>4 DEF Parted
  <2>. QED
    BY <2>1, <2>3, <2>4
<1>6. ASSUME NEW k \in Nat, k \in S PROVE k + 1 \in S
  <2>. SUFFICES ASSUME k + 1 <= j PROVE Parted(p, v, x, T[k + 1 + 1], U[k + 1])
    OBVIOUS
  <2>1. Parted(p, v, x, T[k + 1], U[k])
    BY <1>6
  <2>. PICK u : u = rs[k + 1]
    OBVIOUS
  <2>2. k + 1 \in 1 .. j
    OBVIOUS
  <2>3. ws[k + 1 + 1] = u /\ Decoded(u) /\ StandsBetween(p, u)
    BY <2>2 DEF ChainOf
  <2>4. /\ k + 1 + 1 \in 1 .. Len(ws) /\ k + 1 + 1 - 1 = k + 1
        /\ k + 1 \in 1 .. Len(rs) /\ k + 1 - 1 = k
    BY <1>1
  <2>5. T[k + 1 + 1] = Exec(T[k + 1], u)
    BY <1>2, <2>3, <2>4 DEF Trace
  <2>6. U[k + 1] = Exec(U[k], u)
    BY <1>3, <2>4 DEF Trace
  <2>. QED
    BY <2>1, <2>3, <2>5, <2>6, StaysParted
<1>. HIDE DEF S
<1>7. j \in S
  BY <1>5, <1>6, HandedOn
<1>. PICK n1, n2 : n1 = T[j + 1] /\ n2 = U[j]
  OBVIOUS
<1>8. Parted(p, Value(m, p), Reads(m, p, p.n), n1, n2)
  BY <1>7 DEF S
<1>9. /\ j + 2 \in 1 .. Len(ws) /\ j + 2 - 1 = j + 1
      /\ j + 1 \in 1 .. Len(rs) /\ j + 1 - 1 = j
  BY <1>1
<1>10. T[j + 2] = Exec(n1, w)
  BY <1>2, <1>9 DEF Trace, ChainOf
<1>11. U[j + 1] = Exec(n2, sum)
  BY <1>3, <1>9 DEF Trace, ChainOf
<1>12. Alike(Exec(n1, w), Exec(n2, sum), {p.d} \ {w.d})
  BY <1>8, AdjustedAlike
<1>. QED
  BY <1>4, <1>10, <1>11, <1>12

-----------------------------------------------------------------------------
(* The field insert.                                                       *)

LEMMA RunOfBits ==
  ASSUME NEW s \in Nat, NEW field \in SUBSET Low(s), OneRun(field)
  PROVE  /\ Min(field) \in Low(s) /\ Min(field) \in Nat
         /\ Cardinality(field) \in 1 .. s - Min(field)
         /\ field = Min(field) .. Min(field) + Cardinality(field) - 1
<1>. PICK lo, hi : lo = Min(field) /\ hi = Max(field)
  OBVIOUS
<1>1. field # {} /\ field = lo .. hi
  BY DEF OneRun
<1>2. lo \in field /\ hi \in field
  BY <1>1, MaskEnds
<1>3. lo \in Nat /\ hi \in Nat /\ lo <= hi /\ hi <= s - 1
  <2>1. \A i \in field : i \in 0 .. s - 1
    BY DEF Low
  <2>2. lo \in 0 .. s - 1 /\ hi \in 0 .. s - 1
    BY <1>2, <2>1
  <2>3. lo \in lo .. hi
    BY <1>1, <1>2
  <2>. QED
    BY <2>2, <2>3
<1>4. Cardinality(field) = hi - lo + 1
  BY <1>1, <1>3, FS_Interval
<1>. QED
  BY <1>1, <1>2, <1>3, <1>4 DEF Low

\* The low bits of v at the places of a field.
Lifted(v, field) == {i \in field : i - Min(field) \in v}

LEMMA PlacedInField ==
  ASSUME NEW s \in Nat, NEW field \in SUBSET Low(s), OneRun(field), NEW v \in SUBSET Low(s)
  PROVE  Place(v, Min(field), Cardinality(field)) = Lifted(v, field)
<1>. PICK lo, n : lo = Min(field) /\ n = Cardinality(field)
  OBVIOUS
<1>1. lo \in Nat /\ lo \in Low(s) /\ n \in 1 .. s - lo /\ field = lo .. lo + n - 1
  BY RunOfBits
<1>2. Place(v, lo, n) = {i \in Low(s) : i - lo \in v /\ i - lo < n}
  BY <1>1, PlaceBits
<1>3. \A j \in v : j \in Nat
  BY DEF Low
<1>4. \A i \in Low(s) : (i - lo \in v /\ i - lo < n) => i \in field
  <2>. SUFFICES ASSUME NEW i \in Low(s), i - lo \in v, i - lo < n PROVE i \in field
    OBVIOUS
  <2>. PICK j : j = i - lo
    OBVIOUS
  <2>1. j \in Nat /\ i \in Int
    <3>1. i \in 0 .. s - 1
      BY DEF Low
    <3>. QED
      BY <1>3, <3>1
  <2>2. lo <= i /\ i <= lo + n - 1
    BY <1>1, <2>1
  <2>3. lo \in Int /\ n \in Int
    BY <1>1
  <2>4. i \in lo .. lo + n - 1
    BY <2>1, <2>2, <2>3
  <2>. QED
    BY <1>1, <2>4
<1>5. \A i \in field : i \in Low(s) /\ i - lo < n
  <2>. SUFFICES ASSUME NEW i \in field PROVE i \in Low(s) /\ i - lo < n
    OBVIOUS
  <2>1. i \in lo .. lo + n - 1
    BY <1>1
  <2>. QED
    BY <1>1, <2>1
<1>. QED
  BY <1>2, <1>4, <1>5 DEF Lifted

LEMMA LowRun == ASSUME NEW a \in Nat, NEW b \in Nat, a <= b PROVE Min(a .. b) = a /\ Max(a .. b) = b /\ OneRun(a .. b)
<1>. DEFINE S == a .. b
<1>1. S \in SUBSET Nat /\ S # {} /\ a \in S /\ b \in S /\ \A i \in S : a <= i /\ i <= b
  OBVIOUS
<1>2. Max(S) = b
  <2>. HIDE DEF S
  <2>. QED
    BY <1>1, Greatest
<1>3. Min(S) = a
  <2>1. Min(S) \in S /\ Min(S) <= a
    <3>. HIDE DEF S
    <3>. QED
      BY <1>1, LeastMember
  <2>. QED
    BY <2>1
<1>. QED
  BY <1>1, <1>2, <1>3 DEF OneRun

\* The isolate leaves the low bits of its source at the places of its field.
LEMMA IsolateValue ==
  ASSUME NEW m, NEW e, Real(e), IsolateOp(e)
  PROVE  /\ Produces(e) /\ e.n \in Gprs
         /\ IsolatedField(e) \in SUBSET Low(Size(e)) /\ OneRun(IsolatedField(e))
         /\ Value(m, e) = Lifted(Reads(m, e, e.n), IsolatedField(e)) /\ Value(m, e) \in SUBSET Low(Size(e))
<1>. PICK s, x, k, wd, field : s = Size(e) /\ x = Reads(m, e, e.n) /\ k = e.k /\ wd = e.wd /\ field = IsolatedField(e)
  OBVIOUS
<1>1. s \in Nat \ {0} /\ s \in Nat /\ x \in SUBSET Low(s)
  BY ReadFits
<1>2. e.d \in Gprs /\ e.n \in Gprs /\ e.op \in ComputeOps
  BY RealWord DEF IsolateOp, Reg
<1>3. e.op \in {"andi", "ubfiz", "lsl"}
  BY DEF IsolateOp, LowMask
<1>4. Produces(e)
  BY <1>2, <1>3 DEF Produces, FlagOps, CondCmpOps, CondCmpImmOps
<1>5. SUFFICES field \in SUBSET Low(s) /\ OneRun(field) /\ Value(m, e) = Lifted(x, field)
  <2>1. Lifted(x, field) \in SUBSET field
    BY DEF Lifted
  <2>. QED
    BY <1>2, <1>4, <2>1
<1>6. CASE e.op = "andi"
  <2>. PICK n : n = Cardinality(e.mask)
    OBVIOUS
  <2>1. LowMask(e)
    BY <1>6 DEF IsolateOp
  <2>2. n \in 1 .. s /\ e.mask = Low(n)
    BY <2>1, LowMaskIs
  <2>3. field = Low(n)
    BY <1>6, <2>2 DEF IsolatedField
  <2>4. field = 0 .. n - 1 /\ 0 \in Nat /\ n - 1 \in Nat /\ 0 <= n - 1
    BY <2>2, <2>3 DEF Low
  <2>5. Min(field) = 0 /\ OneRun(field)
    BY <2>4, LowRun
  <2>6. field \in SUBSET Low(s)
    <3>1. \A i \in 0 .. n - 1 : i \in 0 .. s - 1
      BY <1>1, <2>2
    <3>. QED
      BY <2>4, <3>1 DEF Low
  <2>7. Value(m, e) = x \cap field
    BY <1>6, <2>2, <2>3, MaskValue
  <2>8. \A i \in field : i - 0 = i
    BY <2>4
  <2>9. Lifted(x, field) = x \cap field
    BY <2>5, <2>8 DEF Lifted
  <2>. QED
    BY <2>5, <2>6, <2>7, <2>9
<1>7. CASE e.op = "ubfiz"
  <2>1. k \in Low(s) /\ wd \in 1 .. s - k
    BY <1>7 DEF Real, Encodable, PlaceOps
  <2>2. field = k .. k + wd - 1
    BY <1>7 DEF IsolatedField
  <2>3. k \in Nat /\ k + wd - 1 \in Nat /\ k <= k + wd - 1 /\ k + wd - 1 <= s - 1 /\ wd \in Int /\ wd <= s - k
    BY <1>1, <2>1 DEF Low
  <2>4. Min(field) = k /\ OneRun(field)
    BY <2>2, <2>3, LowRun
  <2>5. field \in SUBSET Low(s)
    BY <1>1, <2>2, <2>3 DEF Low
  <2>6. Value(m, e) = {i \in Low(s) : i - k \in x /\ i - k < wd}
    <3>1. Value(m, e) = Place(x, k, wd)
      BY <1>7, BitfieldValue
    <3>. QED
      BY <1>1, <2>3, <3>1, PlaceBits
  <2>7. \A i \in Low(s) : i - k \in x /\ i - k < wd <=> i \in field /\ i - k \in x
    BY <1>1, <2>2, <2>3 DEF Low
  <2>8. Value(m, e) = {i \in field : i - k \in x}
    BY <2>5, <2>6, <2>7
  <2>. QED
    BY <2>4, <2>5, <2>8 DEF Lifted
<1>8. CASE e.op = "lsl"
  <2>1. k \in 1 .. s - 1
    BY <1>8 DEF Real, Encodable, ShiftOps
  <2>2. field = k .. s - 1
    BY <1>8 DEF IsolatedField
  <2>3. k \in Nat /\ s - 1 \in Nat /\ k <= s - 1 /\ k \in 0 .. s
    BY <1>1, <2>1
  <2>4. Min(field) = k /\ OneRun(field)
    BY <2>2, <2>3, LowRun
  <2>5. field \in SUBSET Low(s)
    BY <1>1, <2>2, <2>3 DEF Low
  <2>6. Value(m, e) = {i \in Low(s) : i - k \in x}
    <3>1. Value(m, e) = ShiftBy(e.op, x, k, s)
      BY <1>8, ShiftValue DEF ShiftOps, IsolateOp
    <3>2. Value(m, e) = Lsl(x, k, s)
      BY <1>8, <3>1 DEF ShiftBy
    <3>. QED
      BY <1>1, <2>3, <3>2, LslBits
  <2>7. \A i \in Low(s) : i - k \in x <=> i \in field /\ i - k \in x
    BY <1>1, <2>2, <2>3 DEF Low
  <2>8. Value(m, e) = {i \in field : i - k \in x}
    BY <2>5, <2>6, <2>7
  <2>. QED
    BY <2>4, <2>5, <2>8 DEF Lifted
<1>. QED
  BY <1>3, <1>6, <1>7, <1>8

\* An AND in place that clears its field.
LEMMA ClearValue ==
  ASSUME NEW m, NEW c, Real(c), ClearsField(c)
  PROVE  /\ Produces(c) /\ c.d = c.n /\ Value(m, c) = Reads(m, c, c.d) \ (Low(Size(c)) \ c.mask)
         /\ Value(m, c) \in SUBSET Low(Size(c))
         /\ Low(Size(c)) \ c.mask \in SUBSET Low(Size(c)) /\ OneRun(Low(Size(c)) \ c.mask)
<1>. PICK s, x : s = Size(c) /\ x = Reads(m, c, c.d)
  OBVIOUS
<1>1. c.op = "andi" /\ c.d = c.n /\ c.d # R31 /\ OneRun(Low(s) \ c.mask)
  BY DEF ClearsField
<1>2. x \in SUBSET Low(s)
  BY ReadFits
<1>3. c.d \in Gprs /\ c.op \in ComputeOps /\ c.op \notin FlagOps
  BY <1>1, RealWord DEF Reg, FlagOps, CondCmpOps, CondCmpImmOps
<1>4. Value(m, c) = x \cap c.mask
  BY <1>1, MaskValue
<1>5. x \cap c.mask = x \ (Low(s) \ c.mask)
  BY <1>2
<1>. QED
  BY <1>1, <1>2, <1>3, <1>4, <1>5 DEF Produces

\* The two parts and the combination, from the machine n they leave.
LEMMA InsertedAlike ==
  ASSUME NEW w, Real(w), CombineOp(w), NEW t \in Gprs, NEW src \in Gprs, w.d \in Gprs, t # w.d,
         (w.n = w.d /\ w.m = t) \/ (w.n = t /\ w.m = w.d),
         NEW field \in SUBSET Low(Size(w)), OneRun(field),
         NEW word, word = Field("bfi", w.sf, w.d, src, Min(field), Cardinality(field)),
         NEW m, Shaped(m), NEW n, Shaped(n), n.sp = m.sp, n.flags = m.flags,
         \A g \in Gprs \ {w.d, t} : n.x[g] = m.x[g],
         Reads(n, w, w.d) = Reads(m, w, w.d) \ field,
         Reads(n, w, t) = Lifted(Reads(m, w, src), field)
  PROVE  Alike(Exec(n, w), Exec(m, word), {t})
<1>. PICK s, x, y, lo, wd :
       /\ s = Size(w) /\ x = Reads(m, w, w.d) /\ y = Reads(m, w, src)
       /\ lo = Min(field) /\ wd = Cardinality(field)
  OBVIOUS
<1>1. s \in Nat \ {0} /\ s \in Nat /\ x \in SUBSET Low(s) /\ y \in SUBSET Low(s)
  BY ReadFits
<1>2. w.op = "orr" /\ w.k = 0 /\ w.sh \in ShiftOps
  BY DEF CombineOp, Real, LogicOps
<1>3. /\ word.op = "bfi" /\ word.sf = w.sf /\ word.d = w.d /\ word.n = src /\ word.k = lo /\ word.wd = wd
      /\ Size(word) = s
  BY FieldIs DEF Size
<1>4. /\ word.op \in ComputeOps /\ w.op \in ComputeOps /\ word.op \notin FlagOps /\ w.op \notin FlagOps
      /\ w.op \in LogicOps /\ w.op \notin InvertedOps
  BY <1>2, <1>3 DEF ComputeOps, PlaceOps, FlagOps, CondCmpOps, CondCmpImmOps, LogicOps, InvertedOps
<1>5. Value(m, word) = (x \ field) \cup Lifted(y, field)
  <2>1. Reads(m, word, w.d) = x /\ Reads(m, word, src) = y
    BY <1>3, AluAssumption DEF Reads
  <2>2. Value(m, word) = (x \ Place(Low(s), lo, wd)) \cup Place(y, lo, wd)
    BY <1>3, <2>1, InsertValue
  <2>3. Place(y, lo, wd) = Lifted(y, field)
    BY <1>1, PlacedInField
  <2>4. Place(Low(s), lo, wd) = Lifted(Low(s), field)
    BY <1>1, PlacedInField
  <2>5. Lifted(Low(s), field) = field
    <3>1. \A i \in field : i - lo \in Low(s)
      <4>1. lo \in Nat /\ field = lo .. lo + wd - 1 /\ wd \in 1 .. s - lo
        BY <1>1, RunOfBits
      <4>2. \A i \in lo .. lo + wd - 1 : i - lo \in 0 .. s - 1
        BY SMTT(30), <1>1, <4>1
      <4>. QED
        BY <4>1, <4>2 DEF Low
    <3>. QED
      BY <3>1 DEF Lifted
  <2>. QED
    BY <2>2, <2>3, <2>4, <2>5
<1>. PICK u, v : u = x \ field /\ v = Lifted(y, field)
  OBVIOUS
<1>6. u \in SUBSET Low(s) /\ v \in SUBSET Low(s)
  BY <1>1 DEF Lifted
<1>7. Value(n, w) = u \cup v
  <2>. PICK a, b : a = Reads(n, w, w.n) /\ b = Reads(n, w, w.m)
    OBVIOUS
  <2>1. a \cup b = u \cup v
    OBVIOUS
  <2>2. b \in SUBSET Low(s)
    BY <1>6
  <2>3. ShiftBy(w.sh, b, w.k, s) = b
    <3>1. ShiftBy(w.sh, b, 0, s) = b
      BY <1>1, <1>2, <2>2, ShiftByNothing
    <3>. QED
      BY <1>2, <3>1
  <2>4. Logical(w, a, b, s) = a \cup b
    BY <1>2, <1>4 DEF Logical, Logic
  <2>5. Outcome(n, w, s) = Plainly(a \cup b, s)
    BY <1>4, <2>3, <2>4, OutcomeOfLogic
  <2>6. \A z : Plainly(z, s).v = z
    BY DEF Plainly
  <2>. PICK o : o = Outcome(n, w, s)
    OBVIOUS
  <2>7. o.v = a \cup b
    BY <2>5, <2>6
  <2>. QED
    BY <2>1, <2>7 DEF Value
<1>. PICK z : z = u \cup v
  OBVIOUS
<1>8. Value(n, w) = z /\ Value(m, word) = z
  BY <1>5, <1>7
<1>9. w.d # R31 /\ word.d # R31
  BY <1>3, AluAssumption
<1>. PICK n1, m1, q, r : n1 = Exec(n, w) /\ m1 = Exec(m, word) /\ q = Value(n, w) /\ r = Value(m, word)
  OBVIOUS
<1>10. n1.sp = n.sp /\ n1.flags = n.flags /\ \A g \in Gprs : n1.x[g] = IF g = w.d THEN q ELSE n.x[g]
  BY <1>4, <1>9, AfterCompute
<1>11. m1.sp = m.sp /\ m1.flags = m.flags /\ \A g \in Gprs : m1.x[g] = IF g = word.d THEN r ELSE m.x[g]
  BY <1>4, <1>9, AfterCompute
<1>12. q = r /\ word.d = w.d
  BY <1>3, <1>8
<1>13. n1.sp = m1.sp /\ n1.flags = m1.flags
  BY <1>10, <1>11
<1>14. \A g \in Gprs \ {t} : n1.x[g] = m1.x[g]
  <2>. SUFFICES ASSUME NEW g \in Gprs, g # t PROVE n1.x[g] = m1.x[g]
    OBVIOUS
  <2>1. CASE g = w.d
    <3>1. n1.x[g] = q
      BY <1>10, <2>1
    <3>2. m1.x[g] = r
      BY <1>11, <1>12, <2>1
    <3>. QED
      BY <1>12, <3>1, <3>2
  <2>2. CASE g # w.d
    BY <1>10, <1>11, <1>12, <2>2
  <2>. QED
    BY <2>1, <2>2
<1>. QED
  BY <1>13, <1>14 DEF Alike

\* A clear and an isolate of one field, in either order, and what combines
\* them.
LEMMA SynthesisIsSound ==
  ASSUME NEW c, NEW e, NEW w, Real(c), Real(e), Real(w), ClearsField(c), IsolateOp(e), CombineOp(w),
         c.sf = w.sf, e.sf = w.sf, NEW field, field = Low(Size(c)) \ c.mask, field = IsolatedField(e),
         c.d = w.d, {w.n, w.m} = {w.d, e.d}, e.d # w.d, e.d # e.n, e.n # w.d,
         NEW rewrite, rewrite = <<Field("bfi", w.sf, w.d, e.n, Min(field), Cardinality(field))>>
  PROVE  /\ Sound(<<c, e, w>>, Replace(rewrite, {e.d}))
         /\ Sound(<<e, c, w>>, Replace(rewrite, {e.d}))
<1>. PICK s, word, t, src :
       /\ s = Size(w) /\ t = e.d /\ src = e.n
       /\ word = Field("bfi", w.sf, w.d, e.n, Min(field), Cardinality(field))
  OBVIOUS
<1>1. Size(c) = s /\ Size(e) = s /\ s \in Nat
  BY Widths DEF Size
<1>2. c.op = "andi" /\ e.op \notin SpSource /\ c.op \notin SpSource /\ w.op \notin SpSource
  BY DEF ClearsField, IsolateOp, CombineOp, LowMask, SpSource, ImmArithOps, ExtArithOps
<1>3. \A m : /\ Produces(c) /\ c.d = c.n /\ Value(m, c) = Reads(m, c, c.d) \ field
             /\ Value(m, c) \in SUBSET Low(s) /\ field \in SUBSET Low(s) /\ OneRun(field)
  BY <1>1, ClearValue
<1>4. \A m : /\ Produces(e) /\ e.n \in Gprs
             /\ Value(m, e) = Lifted(Reads(m, e, e.n), field) /\ Value(m, e) \in SUBSET Low(s)
  BY <1>1, IsolateValue
<1>5. Produces(c) /\ Produces(e) /\ src \in Gprs /\ t \in Gprs /\ w.d \in Gprs /\ OneRun(field)
      /\ field \in SUBSET Low(s)
  BY <1>3, <1>4 DEF Produces
<1>6. w.d # R31 /\ t # R31 /\ src # R31 /\ src # w.d /\ t # w.d /\ w.d \in Reg /\ src \in Reg /\ t \in Reg /\ w.d # src /\ w.d # t
  BY <1>5, AluAssumption DEF Reg
<1>7. (w.n = w.d /\ w.m = t) \/ (w.n = t /\ w.m = w.d)
  OBVIOUS
<1>8. \A m : \A r \in Gprs : Reads(m, c, r) = Reads(m, w, r) /\ Reads(m, e, r) = Reads(m, w, r)
  BY AluAssumption DEF Reads, Size
<1>9. ASSUME NEW m, Shaped(m), NEW n, Shaped(n), n.sp = m.sp, n.flags = m.flags,
              \A g \in Gprs \ {w.d, t} : n.x[g] = m.x[g],
              Reads(n, w, w.d) = Reads(m, w, w.d) \ field, Reads(n, w, t) = Lifted(Reads(m, w, src), field)
       PROVE  Alike(Exec(n, w), Exec(m, word), {t})
  BY <1>1, <1>5, <1>6, <1>7, <1>9, InsertedAlike
<1>10. ASSUME NEW m \in RegisterStates PROVE Alike(Exec(Exec(Exec(m, c), e), w), Exec(m, word), {t})
  <2>. PICK a, n : a = Exec(m, c) /\ n = Exec(a, e)
    OBVIOUS
  <2>1. Shaped(m) /\ Shaped(a) /\ a.sp = m.sp /\ a.flags = m.flags /\ \A g \in Gprs \ {w.d} : a.x[g] = m.x[g]
    BY <1>5, <1>6, StatesAreShaped, AfterCompute DEF Produces
  <2>2. Shaped(n) /\ n.sp = a.sp /\ n.flags = a.flags /\ \A g \in Gprs \ {t} : n.x[g] = a.x[g]
    BY SMTT(30), <1>5, <1>6, <2>1, AfterCompute DEF Produces
  <2>3. Reads(a, w, w.d) = Reads(m, w, w.d) \ field
    BY <1>1, <1>3, <1>5, <1>8, <2>1, ReadsValue
  <2>4. Reads(a, w, src) = Reads(m, w, src)
    BY <1>5, <1>6, <2>1 DEF Reads
  <2>5. Reads(n, w, t) = Lifted(Reads(m, w, src), field)
    <3>1. Value(a, e) = Lifted(Reads(m, w, src), field) /\ Value(a, e) \in SUBSET Low(Size(w))
      BY <1>4, <1>5, <1>8, <2>4
    <3>. QED
      BY ZenonT(30), <1>5, <2>1, <3>1, ReadsValue
  <2>6. Reads(n, w, w.d) = Reads(a, w, w.d)
    BY <1>5, <1>6, <2>2 DEF Reads
  <2>7. Reads(n, w, w.d) = Reads(m, w, w.d) \ field /\ n.sp = m.sp /\ n.flags = m.flags
        /\ \A g \in Gprs \ {w.d, t} : n.x[g] = m.x[g]
    BY <2>1, <2>2, <2>3, <2>6
  <2>8. Alike(Exec(n, w), Exec(m, word), {t})
    BY <1>9, <2>1, <2>2, <2>5, <2>7
  <2>. QED
    BY <2>8
<1>11. ASSUME NEW m \in RegisterStates PROVE Alike(Exec(Exec(Exec(m, e), c), w), Exec(m, word), {t})
  <2>. PICK a, n : a = Exec(m, e) /\ n = Exec(a, c)
    OBVIOUS
  <2>1. Shaped(m) /\ Shaped(a) /\ a.sp = m.sp /\ a.flags = m.flags /\ \A g \in Gprs \ {t} : a.x[g] = m.x[g]
    BY <1>5, <1>6, StatesAreShaped, AfterCompute DEF Produces
  <2>2. Shaped(n) /\ n.sp = a.sp /\ n.flags = a.flags /\ \A g \in Gprs \ {w.d} : n.x[g] = a.x[g]
    BY SMTT(30), <1>5, <1>6, <2>1, AfterCompute DEF Produces
  <2>3. Reads(a, w, t) = Lifted(Reads(m, w, src), field)
    <3>1. Value(m, e) = Lifted(Reads(m, w, src), field) /\ Value(m, e) \in SUBSET Low(Size(w))
      BY <1>4, <1>5, <1>8
    <3>. QED
      BY ZenonT(30), <1>5, <2>1, <3>1, ReadsValue
  <2>4. Reads(a, w, w.d) = Reads(m, w, w.d)
    BY <1>5, <1>6, <2>1 DEF Reads
  <2>5. Reads(n, w, w.d) = Reads(m, w, w.d) \ field
    <3>1. Value(a, c) = Reads(m, w, w.d) \ field /\ Value(a, c) \in SUBSET Low(Size(w))
      BY <1>3, <1>5, <1>8, <2>4
    <3>. QED
      BY <1>5, <2>1, <3>1, ReadsValue
  <2>6. Reads(n, w, t) = Reads(a, w, t)
    BY <1>5, <1>6, <2>2 DEF Reads
  <2>7. Reads(n, w, t) = Lifted(Reads(m, w, src), field)
    BY <2>3, <2>6
  <2>8. Reads(n, w, w.d) = Reads(m, w, w.d) \ field /\ n.sp = m.sp /\ n.flags = m.flags
        /\ \A g \in Gprs \ {w.d, t} : n.x[g] = m.x[g]
    BY <2>1, <2>2, <2>5
  <2>9. Alike(Exec(n, w), Exec(m, word), {t})
    BY <1>9, <2>1, <2>2, <2>8, <2>7
  <2>. QED
    BY <2>9
<1>12. ASSUME NEW m
       PROVE  /\ Run(m, <<c, e, w>>) = Exec(Exec(Exec(m, c), e), w)
              /\ Run(m, <<e, c, w>>) = Exec(Exec(Exec(m, e), c), w)
              /\ Run(m, rewrite) = Exec(m, word)
  BY RunOfOne, RunOfThree
<1>. PICK fold : fold = Replace(rewrite, {t})
  OBVIOUS
<1>13. fold.rewrite = rewrite /\ fold.dead = {t} /\ fold.kept = {}
  BY DEF Replace
<1>14. ASSUME NEW m \in RegisterStates
       PROVE  Alike(Run(m, <<c, e, w>>), Run(m, rewrite), {t}) /\ Alike(Run(m, <<e, c, w>>), Run(m, rewrite), {t})
  BY <1>10, <1>11, <1>12
<1>15. Sound(<<c, e, w>>, fold) /\ Sound(<<e, c, w>>, fold)
  BY <1>13, <1>14 DEF Sound
<1>. QED
  BY <1>15

-----------------------------------------------------------------------------
(* Every finding is sound.                                                 *)

\* Words after a chain's first stand between; a clear and an isolate that
\* are held are the last words read, with no third between.
ChainsHeld ==
  \A h \in asc : /\ h.word.op = "addi" /\ h.word.k # 0 /\ h.word.d # R31
                 /\ h.at \in DOMAIN buf /\ h.word = buf[h.at]
                 /\ \A i \in h.at + 1 .. Len(buf) : StandsBetween(h.word, buf[i])
HeldClear(c) ==
  /\ ClearsField(c) /\ c.sf = bfx.sf /\ Low(Size(c)) \ c.mask = bfx.field /\ bfx.clear = {c.d}
HeldIsolate(e) ==
  /\ IsolateOp(e) /\ e.sf = bfx.sf /\ IsolatedField(e) = bfx.field
  /\ bfx.isolate = {[t |-> e.d, s |-> e.n]}
InsertHeld ==
  /\ DOMAIN bfx = DOMAIN NoInsert
  /\ bfx.clear # {} /\ bfx.isolate = {} =>
       Len(buf) > 0 /\ bfx.first = Len(buf) /\ HeldClear(buf[Len(buf)])
  /\ bfx.clear = {} /\ bfx.isolate # {} =>
       Len(buf) > 0 /\ bfx.first = Len(buf) /\ HeldIsolate(buf[Len(buf)])
  /\ bfx.clear # {} /\ bfx.isolate # {} =>
       /\ Len(buf) > 1 /\ bfx.first = Len(buf) - 1
       /\ \/ HeldClear(buf[Len(buf) - 1]) /\ HeldIsolate(buf[Len(buf)])
          \/ HeldIsolate(buf[Len(buf) - 1]) /\ HeldClear(buf[Len(buf)])

FindingsSound ==
  \A f \in out : /\ f.at \in 1 .. Len(buf) /\ f.start \in 1 .. f.at /\ f.count \in 1 .. f.at - f.start + 1
                 /\ SoundThen(ReadFrom(f), f, ReadAfter(f))
SoundWindows == Invariant /\ ChainsHeld /\ InsertHeld /\ FindingsSound

\* What Ordinary says of the words read.
LEMMA OrdinaryWords ==
  ASSUME Ordinary(Families), family \in DOMAIN Families, NEW i \in DOMAIN Families[family]
  PROVE  /\ \A w \in Families[family][i] : ~ZeroesHighHalf(w)
         /\ \A p \in Families[family][i] : ReadsSp(p) =>
              \A j \in DOMAIN Families[family] : j > i => \A u \in Families[family][j] : ~WritesSpUnseen(u)
         /\ \E j \in i .. i + 2 : j \in DOMAIN Families[family] =>
              \A w \in Families[family][j] : ~InsertPart(w)
BY DEF Ordinary

LEMMA PartOfBuffer ==
  ASSUME NEW s \in Seq(Words), NEW a \in 1 .. Len(s), NEW b \in a .. Len(s)
  PROVE  /\ SubSeq(s, a, b) \in Seq(Words) /\ Len(SubSeq(s, a, b)) = b - a + 1
         /\ DOMAIN SubSeq(s, a, b) = 1 .. b - a + 1
         /\ \A i \in 1 .. b - a + 1 : SubSeq(s, a, b)[i] = s[a + i - 1]
OBVIOUS

\* What a window replaces stays as the buffer grows.
LEMMA PartStays ==
  ASSUME NEW s \in Seq(Words), NEW w \in Words, NEW a \in Nat \ {0}, NEW b \in 0 .. Len(s)
  PROVE  SubSeq(Append(s, w), a, b) = SubSeq(s, a, b)
OBVIOUS

\* Nothing lies after the last word.
LEMMA NothingAfter ==
  ASSUME NEW s \in Seq(Words), NEW n \in Nat PROVE SubSeq(s, n + 1, n) = <<>>
OBVIOUS

\* Sequences with the same words are one.
LEMMA SameWords ==
  ASSUME NEW s \in Seq(Words), NEW t \in Seq(Words), Len(s) = Len(t), \A i \in 1 .. Len(s) : s[i] = t[i]
  PROVE  s = t
OBVIOUS

\* The last words of a buffer that has grown.
LEMMA LastWords ==
  ASSUME NEW s \in Seq(Words), NEW w \in Words, NEW n, n = Len(s), NEW b, b = Append(s, w)
  PROVE  /\ SubSeq(b, n + 1, n + 1) = <<w>>
         /\ n > 0 => SubSeq(b, n, n + 1) = <<s[n], w>>
         /\ n > 1 => SubSeq(b, n - 1, n + 1) = <<s[n - 1], s[n], w>>
<1>1. /\ b \in Seq(Words) /\ n \in Nat /\ Len(b) = n + 1 /\ b[n + 1] = w
      /\ \A i \in 1 .. n : b[i] = s[i] /\ s[i] \in Words
  OBVIOUS
<1>2. SubSeq(b, n + 1, n + 1) = <<w>>
  <2>. DEFINE part == SubSeq(b, n + 1, n + 1)
              words == <<w>>
  <2>1. part \in Seq(Words) /\ Len(part) = 1 /\ part[1] = w
    BY <1>1, PartOfBuffer
  <2>2. words \in Seq(Words) /\ Len(words) = 1 /\ words[1] = w
    OBVIOUS
  <2>. HIDE DEF part, words
  <2>3. part = words
    BY <2>1, <2>2, SameWords
  <2>. QED
    BY <2>3 DEF part, words
<1>3. ASSUME n > 0 PROVE SubSeq(b, n, n + 1) = <<s[n], w>>
  <2>. DEFINE part == SubSeq(b, n, n + 1)
              words == <<s[n], w>>
  <2>1. n \in 1 .. Len(b) /\ n + 1 \in n .. Len(b)
    BY <1>1, <1>3
  <2>2. /\ part \in Seq(Words) /\ Len(part) = n + 1 - n + 1
        /\ \A i \in 1 .. n + 1 - n + 1 : part[i] = b[n + i - 1]
    BY <1>1, <2>1, PartOfBuffer
  <2>3. words \in Seq(Words) /\ Len(words) = 2 /\ words[1] = s[n] /\ words[2] = w
    BY <1>1, <1>3
  <2>. HIDE DEF part, words
  <2>4. Len(part) = 2 /\ part[1] = s[n] /\ part[2] = w
    BY <1>1, <1>3, <2>2
  <2>5. Len(part) = Len(words) /\ \A i \in 1 .. Len(part) : part[i] = words[i]
    BY <2>3, <2>4
  <2>6. part = words
    BY <2>2, <2>3, <2>5, SameWords
  <2>. QED
    BY <2>6 DEF part, words
<1>4. ASSUME n > 1 PROVE SubSeq(b, n - 1, n + 1) = <<s[n - 1], s[n], w>>
  <2>. DEFINE part == SubSeq(b, n - 1, n + 1)
              words == <<s[n - 1], s[n], w>>
  <2>1. n - 1 \in 1 .. Len(b) /\ n + 1 \in n - 1 .. Len(b)
    BY <1>1, <1>4
  <2>2. /\ part \in Seq(Words) /\ Len(part) = n + 1 - (n - 1) + 1
        /\ \A i \in 1 .. n + 1 - (n - 1) + 1 : part[i] = b[n - 1 + i - 1]
    BY <1>1, <2>1, PartOfBuffer
  <2>3. words \in Seq(Words) /\ Len(words) = 3 /\ words[1] = s[n - 1] /\ words[2] = s[n] /\ words[3] = w
    BY <1>1, <1>4
  <2>. HIDE DEF part, words
  <2>4. Len(part) = 3 /\ part[1] = s[n - 1] /\ part[2] = s[n] /\ part[3] = w
    BY <1>1, <1>4, <2>2
  <2>5. Len(part) = Len(words) /\ \A i \in 1 .. Len(part) : part[i] = words[i]
    BY <2>3, <2>4
  <2>6. part = words
    BY <2>2, <2>3, <2>5, SameWords
  <2>. QED
    BY <2>6 DEF part, words
<1>. QED
  BY <1>2, <1>3, <1>4

\* What a finding of the word w, the next of the buffer, has to satisfy.
SoundNow(f, w) ==
  /\ f.at = At /\ f.start \in 1 .. At /\ f.count \in 1 .. At - f.start + 1
  /\ SoundThen(SubSeq(Append(buf, w), f.start, At), f, SubSeq(Append(buf, w), f.start + f.count, At))

LEMMA SoundFinding ==
  ASSUME At \in Nat, NEW start \in 1 .. At, NEW count \in 1 .. At - start + 1, NEW fold, NEW w,
         SoundThen(SubSeq(Append(buf, w), start, At), fold, SubSeq(Append(buf, w), start + count, At))
  PROVE  SoundNow(Finding(start, count, fold), w)
<1>. PICK f : f = Finding(start, count, fold)
  OBVIOUS
<1>1. /\ f.start = start /\ f.count = count /\ f.at = At
      /\ f.rewrite = fold.rewrite /\ f.dead = fold.dead /\ f.kept = fold.kept
  BY DEF Finding
<1>2. SoundThen(SubSeq(Append(buf, w), start, At), f, SubSeq(Append(buf, w), start + count, At))
  BY <1>1 DEF SoundThen
<1>. QED
  BY <1>1, <1>2 DEF SoundNow

\* A finding of a window that ends at the word.
LEMMA SoundWindow ==
  ASSUME buf \in Seq(Words), NEW w \in Words, At \in Nat, NEW start \in 1 .. At, NEW fold,
         Sound(SubSeq(Append(buf, w), start, At), fold)
  PROVE  SoundNow(Finding(start, At - start + 1, fold), w)
<1>1. SoundThen(SubSeq(Append(buf, w), start, At), fold, <<>>)
  BY SoundThenNothing
<1>2. Append(buf, w) \in Seq(Words) /\ start + (At - start + 1) = At + 1 /\ At - start + 1 \in 1 .. At - start + 1
  OBVIOUS
<1>3. SubSeq(Append(buf, w), start + (At - start + 1), At) = <<>>
  BY <1>2, NothingAfter
<1>. QED
  BY <1>1, <1>2, <1>3, SoundFinding

LEMMA SoundPairFindings ==
  ASSUME WidthOfElement, Invariant, NEW w, Decoded(w), NEW f \in PairFindings(w)
  PROVE  SoundNow(f, w)
<1>1. PICK t \in Trackers : f \in ClosedBy(t, w)
  BY DEF PairFindings
<1>2. PICK h \in held[t] : \E x \in Closes(t, h.word, w) : f = Finding(h.at, PairCount(t), x)
  BY <1>1 DEF ClosedBy
<1>3. PICK fold \in Closes(t, h.word, w) : f = Finding(h.at, PairCount(t), fold)
  BY <1>2
<1>4. h.at = Len(buf) /\ h.word = buf[h.at] /\ Len(buf) > 0 /\ Opens(t, h.word)
  BY <1>2 DEF Invariant, HeldOpens, TypeOK
<1>5. buf \in Seq(Words) /\ w \in Words /\ Len(buf) \in Nat /\ At = Len(buf) + 1
  BY DEF Invariant, Decoded, At
<1>6. Decoded(h.word)
  BY <1>4, <1>5, BufferIsDecoded
<1>7. SoundThen(<<h.word, w>>, fold, AfterPair(t, w))
  BY <1>4, <1>6, PairsAreSound
<1>8. SubSeq(Append(buf, w), h.at, At) = <<h.word, w>>
  <2>1. Len(buf) > 0 => SubSeq(Append(buf, w), Len(buf), Len(buf) + 1) = <<buf[Len(buf)], w>>
    BY <1>5, LastWords
  <2>. QED
    BY <1>4, <1>5, <2>1
<1>9. SubSeq(Append(buf, w), h.at + PairCount(t), At) = AfterPair(t, w)
  <2>1. CASE t = "spm"
    <3>1. h.at + PairCount(t) = Len(buf) + 1
      BY <1>4, <2>1 DEF PairCount
    <3>2. SubSeq(Append(buf, w), Len(buf) + 1, Len(buf) + 1) = <<w>>
      BY <1>5, LastWords
    <3>. QED
      BY <1>5, <2>1, <3>1, <3>2 DEF AfterPair
  <2>2. CASE t # "spm"
    <3>1. h.at + PairCount(t) = At + 1 /\ At \in Nat
      BY <1>4, <1>5, <2>2 DEF PairCount
    <3>2. Append(buf, w) \in Seq(Words)
      BY <1>5
    <3>. QED
      BY <2>2, <3>1, <3>2, NothingAfter DEF AfterPair
  <2>. QED
    BY <2>1, <2>2
<1>10. h.at \in 1 .. At /\ At \in Nat /\ PairCount(t) \in 1 .. At - h.at + 1
  BY <1>4, <1>5 DEF PairCount
<1>. QED
  BY <1>7, <1>8, <1>9, <1>10, <1>3, SoundFinding

LEMMA SoundSingleFindings ==
  ASSUME WidthOfElement, Invariant, NEW w, Decoded(w), ~ZeroesHighHalf(w), NEW f \in SingleFindings(w)
  PROVE  SoundNow(f, w)
<1>1. PICK ws \in Singles(w, held["adr"]) : f = Finding(At, 1, Replace(ws, {}))
  BY DEF SingleFindings
<1>2. buf \in Seq(Words) /\ w \in Words /\ Len(buf) \in Nat /\ At = Len(buf) + 1
  BY DEF Invariant, Decoded, At
<1>3. Sound(<<w>>, Replace(ws, {}))
  <2>1. w.op # "ldr"
    BY <1>1 DEF Singles, SelfOp, ZrOperand, Lo32Mov, LowMask, UbfmZext, CselSelf, MovSelf, AddSubZero
  <2>. QED
    BY <1>1, <2>1, DecodedIsReal, SinglesAreSound
<1>4. SubSeq(Append(buf, w), At, At) = <<w>>
  BY <1>2, LastWords
<1>5. At \in 1 .. At /\ At \in Nat /\ At - At + 1 = 1
  BY <1>2
<1>. QED
  BY <1>1, <1>2, <1>3, <1>4, <1>5, SoundWindow

LEMMA SoundInsertFindings ==
  ASSUME WidthOfElement, Invariant, InsertHeld, NEW w, Decoded(w), NEW f \in InsertFindings(w)
  PROVE  SoundNow(f, w)
<1>1. PICK i \in bfx.isolate :
        /\ f = Finding(bfx.first, 3,
                 Replace(<<Field("bfi", w.sf, w.d, i.s, Min(bfx.field), Cardinality(bfx.field))>>, {i.t}))
        /\ CombineOp(w) /\ bfx.sf = w.sf
        /\ bfx.clear = {w.d} /\ {w.n, w.m} = {w.d, i.t}
        /\ i.t # w.d /\ i.t # i.s /\ i.s # w.d
  BY DEF InsertFindings
<1>. PICK n : n = Len(buf)
  OBVIOUS
<1>2. buf \in Seq(Words) /\ w \in Words /\ n \in Nat /\ At = n + 1 /\ DOMAIN buf = 1 .. n
  BY DEF Invariant, Decoded, At
<1>3. /\ n > 1 /\ bfx.first = n - 1
      /\ \/ HeldClear(buf[n - 1]) /\ HeldIsolate(buf[n])
         \/ HeldIsolate(buf[n - 1]) /\ HeldClear(buf[n])
  BY <1>1 DEF InsertHeld
<1>4. PICK c, e : /\ HeldClear(c) /\ HeldIsolate(e)
                  /\ (c = buf[n - 1] /\ e = buf[n]) \/ (e = buf[n - 1] /\ c = buf[n])
  BY <1>3
<1>5. Real(c) /\ Real(e) /\ Real(w)
  <2>1. Decoded(c) /\ Decoded(e)
    BY <1>2, <1>3, <1>4, BufferIsDecoded
  <2>2. c.op # "ldr" /\ e.op # "ldr" /\ w.op # "ldr"
    BY <1>1, <1>4 DEF HeldClear, HeldIsolate, ClearsField, IsolateOp, LowMask, CombineOp
  <2>. QED
    BY <2>1, <2>2, DecodedIsReal
<1>6. /\ ClearsField(c) /\ c.sf = w.sf /\ Low(Size(c)) \ c.mask = bfx.field /\ c.d = w.d
      /\ IsolateOp(e) /\ e.sf = w.sf /\ IsolatedField(e) = bfx.field /\ i.t = e.d /\ i.s = e.n
  <2>1. bfx.sf = w.sf /\ bfx.clear = {w.d} /\ i \in bfx.isolate
    BY <1>1
  <2>2. ClearsField(c) /\ c.sf = bfx.sf /\ Low(Size(c)) \ c.mask = bfx.field /\ bfx.clear = {c.d}
    BY <1>4 DEF HeldClear
  <2>3. IsolateOp(e) /\ e.sf = bfx.sf /\ IsolatedField(e) = bfx.field /\ bfx.isolate = {[t |-> e.d, s |-> e.n]}
    BY <1>4 DEF HeldIsolate
  <2>4. i.t = e.d /\ i.s = e.n
    BY <2>1, <2>3
  <2>. QED
    BY <2>1, <2>2, <2>3, <2>4
<1>. PICK rewrite : rewrite = <<Field("bfi", w.sf, w.d, e.n, Min(bfx.field), Cardinality(bfx.field))>>
  OBVIOUS
<1>7. {w.n, w.m} = {w.d, e.d} /\ e.d # w.d /\ e.d # e.n /\ e.n # w.d
  BY <1>1, <1>6
<1>8. Sound(<<c, e, w>>, Replace(rewrite, {e.d})) /\ Sound(<<e, c, w>>, Replace(rewrite, {e.d}))
  BY <1>1, <1>5, <1>6, <1>7, SynthesisIsSound
<1>9. SubSeq(Append(buf, w), n - 1, At) = <<buf[n - 1], buf[n], w>>
  BY <1>2, <1>3, LastWords
<1>10. Sound(SubSeq(Append(buf, w), n - 1, At), Replace(rewrite, {e.d}))
  BY <1>4, <1>8, <1>9
<1>11. n - 1 \in 1 .. At /\ At \in Nat /\ At - (n - 1) + 1 = 3
  BY <1>2, <1>3
<1>12. f = Finding(n - 1, 3, Replace(rewrite, {e.d}))
  BY <1>1, <1>3, <1>6
<1>. QED
  BY <1>2, <1>10, <1>11, <1>12, SoundWindow

LEMMA PartFrom ==
  ASSUME NEW b \in Seq(Words), NEW a \in Nat \ {0}, NEW j \in Nat, a + j + 1 <= Len(b)
  PROVE  /\ Len(SubSeq(b, a, a + j + 1)) = j + 2 /\ DOMAIN SubSeq(b, a, a + j + 1) = 1 .. j + 2
         /\ \A i \in 1 .. j + 2 : SubSeq(b, a, a + j + 1)[i] = b[a + i - 1]
<1>1. a \in 1 .. Len(b) /\ a + j + 1 \in a .. Len(b)
  OBVIOUS
<1>2. a + j + 1 - a + 1 = j + 2
  OBVIOUS
<1>. QED
  BY SMTT(30), <1>1, <1>2, PartOfBuffer

LEMMA WindowOfChain ==
  ASSUME NEW s \in Seq(Words), NEW w \in Words, NEW a \in Nat \ {0}, NEW j \in Nat, Len(s) = a + j
  PROVE  \A ws : ws = SubSeq(Append(s, w), a, a + j + 1) =>
           /\ Len(ws) = j + 2 /\ DOMAIN ws = 1 .. j + 2 /\ ws[1] = s[a] /\ ws[j + 2] = w
           /\ \A i \in 1 .. j : ws[i + 1] = s[a + i]
<1>. SUFFICES ASSUME NEW ws, ws = SubSeq(Append(s, w), a, a + j + 1)
              PROVE  /\ Len(ws) = j + 2 /\ DOMAIN ws = 1 .. j + 2 /\ ws[1] = s[a] /\ ws[j + 2] = w
                     /\ \A i \in 1 .. j : ws[i + 1] = s[a + i]
  OBVIOUS
<1>. DEFINE b == Append(s, w)
<1>1. b \in Seq(Words) /\ Len(b) = Len(s) + 1 /\ b[Len(s) + 1] = w /\ \A i \in 1 .. Len(s) : b[i] = s[i]
  OBVIOUS
<1>. HIDE DEF b
<1>2. Len(b) = a + j + 1 /\ b[a + j + 1] = w /\ \A i \in 1 .. a + j : b[i] = s[i]
  BY <1>1
<1>3. /\ Len(SubSeq(b, a, a + j + 1)) = j + 2 /\ DOMAIN SubSeq(b, a, a + j + 1) = 1 .. j + 2
      /\ \A i \in 1 .. j + 2 : SubSeq(b, a, a + j + 1)[i] = b[a + i - 1]
  BY <1>1, <1>2, PartFrom
<1>4. Len(ws) = j + 2 /\ DOMAIN ws = 1 .. j + 2 /\ \A i \in 1 .. j + 2 : ws[i] = b[a + i - 1]
  BY <1>3 DEF b
<1>5. ws[1] = s[a]
  <2>1. 1 \in 1 .. j + 2 /\ a + 1 - 1 = a /\ a \in 1 .. a + j
    OBVIOUS
  <2>. QED
    BY <1>2, <1>4, <2>1
<1>6. ws[j + 2] = w
  <2>1. j + 2 \in 1 .. j + 2 /\ a + (j + 2) - 1 = a + j + 1
    OBVIOUS
  <2>. QED
    BY <1>2, <1>4, <2>1
<1>7. ASSUME NEW i \in 1 .. j PROVE ws[i + 1] = s[a + i]
  <2>1. i + 1 \in 1 .. j + 2 /\ a + (i + 1) - 1 = a + i /\ a + i \in 1 .. a + j
    OBVIOUS
  <2>. QED
    BY <1>2, <1>4, <2>1
<1>. QED
  BY <1>4, <1>5, <1>6, <1>7

LEMMA SoundChainFindings ==
  ASSUME WidthOfElement, Invariant, ChainsHeld, NEW w, Decoded(w), NEW f \in ChainFindings(w)
  PROVE  SoundNow(f, w)
<1>1. PICK h \in asc :
        /\ w.op = "addi" /\ w.n = h.word.d /\ SameWidth(h.word, w)
        /\ f = Finding(h.at, At - h.at + 1,
                 Replace(Append(SubSeq(buf, h.at + 1, Len(buf)),
                                Shifted("addi", w.sf, w.d, h.word.n, h.word.k + w.k)),
                         {h.word.d} \ {w.d}))
  BY DEF ChainFindings
<1>2. PICK n, a, p, sum : /\ n = Len(buf) /\ a = h.at /\ p = h.word
                           /\ sum = Shifted("addi", w.sf, w.d, p.n, p.k + w.k)
  OBVIOUS
<1>3. buf \in Seq(Words) /\ w \in Words /\ n \in Nat /\ At = n + 1 /\ DOMAIN buf = 1 .. n
  BY <1>2 DEF Invariant, Decoded, At
<1>4. /\ p.op = "addi" /\ p.d # R31 /\ a \in 1 .. n /\ p = buf[a]
      /\ \A i \in a + 1 .. n : StandsBetween(p, buf[i])
  BY <1>2, <1>3 DEF ChainsHeld
<1>5. w.sf = p.sf /\ Real(p) /\ Real(w)
  BY <1>2, <1>1, <1>3, <1>4, BufferIsDecoded, DecodedIsReal DEF SameWidth
<1>6. PICK j, ws, rs, between :
        /\ j = n - a /\ between = SubSeq(buf, a + 1, n) /\ rs = Append(between, sum)
        /\ ws = SubSeq(Append(buf, w), a, n + 1)
  OBVIOUS
<1>7. j \in Nat /\ a + j = n
  <2>1. n \in Nat /\ a \in 1 .. n /\ j = n - a
    BY <1>3, <1>4, <1>6
  <2>. QED
    BY <2>1
<1>8. /\ between \in Seq(Words) /\ Len(between) = j /\ DOMAIN between = 1 .. j
      /\ \A i \in 1 .. j : between[i] = buf[a + i]
  <2>1. CASE j = 0
    <3>1. between = <<>>
      BY <1>3, <1>4, <1>6, <1>7, <2>1
    <3>. QED
      BY <2>1, <3>1
  <2>2. CASE j > 0
    <3>1. a + 1 \in 1 .. Len(buf) /\ n \in a + 1 .. Len(buf)
      BY <1>2, <1>3, <1>4, <1>7, <2>2
    <3>2. /\ between \in Seq(Words) /\ Len(between) = n - (a + 1) + 1 /\ DOMAIN between = 1 .. n - (a + 1) + 1
          /\ \A i \in 1 .. n - (a + 1) + 1 : between[i] = buf[a + 1 + i - 1]
      BY <1>3, <1>6, <3>1, PartOfBuffer
    <3>3. n - (a + 1) + 1 = j /\ \A i \in 1 .. j : a + 1 + i - 1 = a + i
      BY <1>3, <1>4, <1>7
    <3>. QED
      BY <3>2, <3>3
  <2>. QED
    BY <1>7, <2>1, <2>2
<1>9. /\ Len(rs) = j + 1 /\ DOMAIN rs = 1 .. j + 1 /\ rs[j + 1] = sum
      /\ \A i \in 1 .. j : rs[i] = buf[a + i]
  <2>1. rs = Append(between, sum)
    BY <1>6
  <2>2. between \in Seq(Words \cup {sum}) /\ sum \in Words \cup {sum}
    BY <1>8
  <2>3. /\ Len(rs) = j + 1 /\ DOMAIN rs = 1 .. j + 1 /\ rs[j + 1] = sum
        /\ \A i \in 1 .. j : rs[i] = between[i]
    BY <1>7, <1>8, <2>1, <2>2
  <2>. QED
    BY <1>8, <2>3
<1>10. /\ Len(ws) = j + 2 /\ DOMAIN ws = 1 .. j + 2 /\ ws[1] = p /\ ws[j + 2] = w
      /\ \A i \in 1 .. j : ws[i + 1] = buf[a + i]
  <2>1. a \in Nat \ {0} /\ Len(buf) = a + j /\ n + 1 = a + j + 1 /\ buf[a] = p
    BY <1>2, <1>3, <1>4, <1>7
  <2>2. ws = SubSeq(Append(buf, w), a, a + j + 1)
    BY <1>6, <2>1
  <2>3. /\ Len(ws) = j + 2 /\ DOMAIN ws = 1 .. j + 2 /\ ws[1] = buf[a] /\ ws[j + 2] = w
        /\ \A i \in 1 .. j : ws[i + 1] = buf[a + i]
    <3>1. w \in Words /\ buf \in Seq(Words)
      BY <1>3
    <3>2. \A v : v = SubSeq(Append(buf, w), a, a + j + 1) =>
            /\ Len(v) = j + 2 /\ DOMAIN v = 1 .. j + 2 /\ v[1] = buf[a] /\ v[j + 2] = w
            /\ \A i \in 1 .. j : v[i + 1] = buf[a + i]
      BY <1>7, <2>1, <3>1, WindowOfChain
    <3>. QED
      BY <2>2, <3>2
  <2>. QED
    BY <2>1, <2>3
<1>11. \A i \in 1 .. j : Decoded(buf[a + i]) /\ StandsBetween(p, buf[a + i])
  <2>1. \A i \in 1 .. j : a + i \in 1 .. n /\ a + i \in a + 1 .. n
    BY <1>3, <1>4, <1>7
  <2>. QED
    BY <1>3, <1>4, <2>1, BufferIsDecoded
<1>12. ChainOf(p, w, sum, ws, rs, j)
  BY <1>2, <1>9, <1>10, <1>11 DEF ChainOf
<1>13. Sound(ws, Replace(rs, {p.d} \ {w.d}))
  BY <1>2, <1>1, <1>4, <1>5, <1>7, <1>12, AdjustmentsAreSound
<1>14. f = Finding(a, At - a + 1, Replace(rs, {p.d} \ {w.d})) /\ ws = SubSeq(Append(buf, w), a, At)
  BY <1>2, <1>1, <1>3, <1>6
<1>15. a \in 1 .. At /\ At \in Nat
  BY <1>2, <1>3, <1>4
<1>. QED
  BY <1>2, <1>3, <1>13, <1>14, <1>15, SoundWindow

\* A word a chain waits through stands between its adjustments.
LEMMA UndisturbedStands ==
  ASSUME Ordinary(Families), Invariant, ChainsHeld, Len(buf) < Len(Families[family]),
         NEW w \in Families[family][At], NEW h \in asc, ChainUndisturbed(h, w)
  PROVE  StandsBetween(h.word, w)
<1>1. /\ family \in DOMAIN Families /\ DOMAIN Families[family] = 1 .. Len(Families[family])
      /\ Len(Families[family]) \in Nat /\ Len(buf) \in Nat /\ At = Len(buf) + 1 /\ DOMAIN buf = 1 .. Len(buf)
  BY PeepholeAssumption DEF Invariant, TypeOK, At
<1>2. /\ h.word.op = "addi" /\ h.word.k # 0 /\ h.at \in DOMAIN buf /\ h.word = buf[h.at]
      /\ h.word \in Families[family][h.at]
  BY DEF ChainsHeld, Invariant, TypeOK
<1>3. h.at \in DOMAIN Families[family] /\ At \in DOMAIN Families[family] /\ At > h.at
  BY <1>1, <1>2
<1>4. h.word.n = R31 => ~(w.d = R31 /\ w.op \in SpDest)
  <2>. SUFFICES ASSUME h.word.n = R31 PROVE ~(w.d = R31 /\ w.op \in SpDest)
    OBVIOUS
  <2>1. ReadsSp(h.word)
    BY <1>2 DEF ReadsSp
  <2>2. ~WritesSpUnseen(w)
    BY <1>1, <1>2, <1>3, <2>1, OrdinaryWords
  <2>3. ~InsnWritesSp(w)
    BY DEF ChainUndisturbed
  <2>. QED
    BY <2>2, <2>3 DEF WritesSpUnseen, InsnWritesSp, SpDest
<1>. QED
  BY <1>4 DEF ChainUndisturbed, StandsBetween

LEMMA ChainsStayHeld ==
  ASSUME Ordinary(Families), Invariant, ChainsHeld, Len(buf) < Len(Families[family]),
         NEW w \in Families[family][At], w \in Words, buf' = Append(buf, w), HoldChain(w)
  PROVE  ChainsHeld'
<1>1. /\ buf' \in Seq(Words) /\ Len(buf') = At /\ Len(buf) \in Nat /\ At = Len(buf) + 1
      /\ buf'[At] = w /\ At \in DOMAIN buf' /\ DOMAIN buf = 1 .. Len(buf)
      /\ \A i \in DOMAIN buf : i \in DOMAIN buf' /\ buf'[i] = buf[i]
  BY BufferGrows DEF Invariant, At
<1>2. CASE w.op = "addi" /\ w.k # 0 /\ w.d # R31
  <2>1. \A g \in asc' : g.word = w /\ g.at = At
    BY <1>2 DEF HoldChain
  <2>2. At + 1 .. Len(buf') = {}
    BY <1>1
  <2>. QED
    BY <1>1, <1>2, <2>1, <2>2 DEF ChainsHeld
<1>3. CASE ~(w.op = "addi" /\ w.k # 0 /\ w.d # R31)
  <2>1. ASSUME NEW g \in asc'
        PROVE  /\ g.word.op = "addi" /\ g.word.k # 0 /\ g.word.d # R31
               /\ g.at \in DOMAIN buf' /\ g.word = buf'[g.at]
               /\ \A i \in g.at + 1 .. Len(buf') : StandsBetween(g.word, buf'[i])
    <3>1. PICK h \in asc : g = [h EXCEPT !.window = @ - 1] /\ ChainUndisturbed(h, w)
      BY <1>3 DEF HoldChain
    <3>2. g.at = h.at /\ g.word = h.word
      BY <3>1 DEF Invariant, ChainsOpen
    <3>3. /\ h.word.op = "addi" /\ h.word.k # 0 /\ h.word.d # R31 /\ h.at \in DOMAIN buf /\ h.word = buf[h.at]
          /\ \A i \in h.at + 1 .. Len(buf) : StandsBetween(h.word, buf[i])
      BY DEF ChainsHeld
    <3>4. StandsBetween(h.word, w)
      BY <3>1, UndisturbedStands
    <3>5. ASSUME NEW i \in h.at + 1 .. Len(buf') PROVE StandsBetween(h.word, buf'[i])
      <4>1. CASE i = At
        BY <1>1, <3>4, <4>1
      <4>2. CASE i # At
        <5>1. i \in h.at + 1 .. Len(buf) /\ i \in DOMAIN buf
          BY <1>1, <3>3, <3>5, <4>2
        <5>. QED
          BY <1>1, <3>3, <5>1
      <4>. QED
        BY <4>1, <4>2
    <3>6. h.at \in DOMAIN buf' /\ h.word = buf'[h.at]
      BY <1>1, <3>3
    <3>. QED
      BY <3>2, <3>3, <3>5, <3>6
  <2>. QED
    BY <2>1 DEF ChainsHeld
<1>. QED
  BY <1>2, <1>3

\* No third part of a field insert follows two.
LEMMA NoThirdPart ==
  ASSUME Ordinary(Families), Invariant, Len(buf) < Len(Families[family]), NEW w \in Families[family][At],
         InsertPart(w), Len(buf) > 1
  PROVE  ~(InsertPart(buf[Len(buf) - 1]) /\ InsertPart(buf[Len(buf)]))
<1>. PICK n : n = Len(buf)
  OBVIOUS
<1>1. /\ family \in DOMAIN Families /\ DOMAIN Families[family] = 1 .. Len(Families[family])
      /\ Len(Families[family]) \in Nat /\ n \in Nat /\ At = n + 1 /\ DOMAIN buf = 1 .. n
      /\ \A i \in DOMAIN buf : buf[i] \in Families[family][i]
  BY PeepholeAssumption DEF Invariant, TypeOK, At
<1>2. n - 1 \in DOMAIN Families[family] /\ n \in DOMAIN Families[family] /\ n + 1 \in DOMAIN Families[family]
  BY <1>1
<1>3. PICK j \in n - 1 .. n - 1 + 2 : j \in DOMAIN Families[family] => \A u \in Families[family][j] : ~InsertPart(u)
  BY <1>1, <1>2, OrdinaryWords
<1>4. j = n - 1 \/ j = n \/ j = n + 1
  BY <1>1
<1>5. buf[n - 1] \in Families[family][n - 1] /\ buf[n] \in Families[family][n]
  BY <1>1
<1>. QED
  BY <1>1, <1>2, <1>3, <1>4, <1>5

LEMMA InsertStaysHeld ==
  ASSUME Ordinary(Families), Invariant, InsertHeld, Len(buf) < Len(Families[family]),
         NEW w \in Families[family][At], w \in Words, buf' = Append(buf, w), HoldInsert(w)
  PROVE  InsertHeld'
<1>. PICK n : n = Len(buf)
  OBVIOUS
<1>. DEFINE cleared == Low(Size(w)) \ w.mask
            fresh(bits) == [NoInsert EXCEPT !.sf = w.sf, !.field = bits, !.first = At]
<1>1. /\ n \in Nat /\ At = n + 1 /\ Len(buf') = n + 1 /\ DOMAIN buf = 1 .. n /\ buf'[n + 1] = w
      /\ \A i \in 1 .. n : buf'[i] = buf[i]
  BY BufferGrows DEF Invariant, At
<1>2. \A bits : /\ fresh(bits).sf = w.sf /\ fresh(bits).field = bits /\ fresh(bits).first = At
                /\ fresh(bits).clear = {} /\ fresh(bits).isolate = {}
                /\ DOMAIN fresh(bits) = DOMAIN NoInsert
  BY DEF NoInsert
<1>. HIDE DEF fresh
<1>3. DOMAIN bfx = DOMAIN NoInsert /\ {"clear", "isolate"} \subseteq DOMAIN NoInsert
  BY DEF InsertHeld, NoInsert
<1>4. InsertPart(w) => ~(bfx.clear # {} /\ bfx.isolate # {})
  BY NoThirdPart DEF InsertHeld, HeldClear, HeldIsolate, InsertPart
<1>5. CASE ClearsField(w)
  <2>1. PICK b : /\ bfx' = [b EXCEPT !.clear = {w.d}]
                 /\ (b = bfx /\ bfx.isolate # {} /\ SameField(w, cleared)) \/ b = fresh(cleared)
    BY <1>5 DEF HoldInsert, fresh
  <2>2. DOMAIN b = DOMAIN NoInsert /\ b.field = cleared /\ b.sf = w.sf
    BY <1>2, <1>3, <2>1 DEF SameField
  <2>3. /\ bfx'.field = b.field /\ bfx'.sf = b.sf /\ bfx'.first = b.first /\ bfx'.isolate = b.isolate
        /\ bfx'.clear = {w.d} /\ DOMAIN bfx' = DOMAIN NoInsert
    BY <1>3, <2>1, <2>2
  <2>4. ClearsField(w) /\ w.sf = bfx'.sf /\ Low(Size(w)) \ w.mask = bfx'.field /\ bfx'.clear = {w.d}
    BY <1>5, <2>2, <2>3
  <2>5. CASE b = fresh(cleared)
    <3>1. bfx'.isolate = {} /\ bfx'.first = n + 1
      BY <1>1, <1>2, <2>3, <2>5
    <3>. QED
      BY <1>1, <2>3, <2>4, <3>1 DEF InsertHeld, HeldClear
  <2>6. CASE b = bfx /\ bfx.isolate # {}
    <3>1. n > 0 /\ bfx.first = n /\ HeldIsolate(buf[n])
      BY <1>4, <1>5, <2>6 DEF InsertHeld, InsertPart
    <3>2. /\ IsolateOp(buf'[n]) /\ buf'[n].sf = bfx'.sf /\ IsolatedField(buf'[n]) = bfx'.field
          /\ bfx'.isolate = {[t |-> buf'[n].d, s |-> buf'[n].n]}
      BY <1>1, <2>3, <2>6, <3>1 DEF HeldIsolate
    <3>3. n + 1 > 1 /\ bfx'.first = n + 1 - 1 /\ buf'[n + 1 - 1] = buf'[n] /\ bfx'.isolate # {} /\ bfx'.clear # {}
      BY <1>1, <2>3, <2>6, <3>1
    <3>4. Len(buf') - 1 = n /\ Len(buf') = n + 1
      BY <1>1
    <3>5. HeldIsolate(buf[Len(buf) - 1])'
      BY <3>2, <3>4 DEF HeldIsolate
    <3>6. HeldClear(buf[Len(buf)])'
      BY <1>1, <2>4, <3>4 DEF HeldClear
    <3>7. /\ Len(buf') > 1 /\ bfx'.first = Len(buf') - 1 /\ bfx'.clear # {} /\ bfx'.isolate # {}
          /\ DOMAIN bfx' = DOMAIN NoInsert
      BY <1>1, <2>3, <3>1, <3>3, <3>4
    <3>. QED
      BY <3>5, <3>6, <3>7 DEF InsertHeld
  <2>. QED
    BY <2>1, <2>5, <2>6
<1>6. CASE ~ClearsField(w) /\ IsolateOp(w)
  <2>1. PICK b : /\ bfx' = [b EXCEPT !.isolate = {[t |-> w.d, s |-> w.n]}]
                 /\ (b = bfx /\ bfx.clear # {} /\ SameField(w, IsolatedField(w))) \/ b = fresh(IsolatedField(w))
    BY <1>6 DEF HoldInsert, fresh
  <2>2. DOMAIN b = DOMAIN NoInsert /\ b.field = IsolatedField(w) /\ b.sf = w.sf
    BY <1>2, <1>3, <2>1 DEF SameField
  <2>3. /\ bfx'.field = b.field /\ bfx'.sf = b.sf /\ bfx'.first = b.first /\ bfx'.clear = b.clear
        /\ bfx'.isolate = {[t |-> w.d, s |-> w.n]} /\ DOMAIN bfx' = DOMAIN NoInsert
    BY <1>3, <2>1, <2>2
  <2>4. /\ IsolateOp(w) /\ w.sf = bfx'.sf /\ IsolatedField(w) = bfx'.field
        /\ bfx'.isolate = {[t |-> w.d, s |-> w.n]}
    BY <1>6, <2>2, <2>3
  <2>5. CASE b = fresh(IsolatedField(w))
    <3>1. bfx'.clear = {} /\ bfx'.first = n + 1
      BY <1>1, <1>2, <2>3, <2>5
    <3>. QED
      BY <1>1, <2>3, <2>4, <3>1 DEF InsertHeld, HeldIsolate
  <2>6. CASE b = bfx /\ bfx.clear # {}
    <3>1. n > 0 /\ bfx.first = n /\ HeldClear(buf[n])
      BY <1>4, <1>6, <2>6 DEF InsertHeld, InsertPart
    <3>2. /\ ClearsField(buf'[n]) /\ buf'[n].sf = bfx'.sf /\ Low(Size(buf'[n])) \ buf'[n].mask = bfx'.field
          /\ bfx'.clear = {buf'[n].d}
      BY <1>1, <2>3, <2>6, <3>1 DEF HeldClear
    <3>3. n + 1 > 1 /\ bfx'.first = n + 1 - 1 /\ buf'[n + 1 - 1] = buf'[n] /\ bfx'.isolate # {} /\ bfx'.clear # {}
      BY <1>1, <2>3, <2>6, <3>1
    <3>4. Len(buf') - 1 = n /\ Len(buf') = n + 1
      BY <1>1
    <3>5. HeldClear(buf[Len(buf) - 1])'
      BY <3>2, <3>4 DEF HeldClear
    <3>6. HeldIsolate(buf[Len(buf)])'
      BY <1>1, <2>4, <3>4 DEF HeldIsolate
    <3>7. /\ Len(buf') > 1 /\ bfx'.first = Len(buf') - 1 /\ bfx'.clear # {} /\ bfx'.isolate # {}
          /\ DOMAIN bfx' = DOMAIN NoInsert
      BY <1>1, <2>3, <3>1, <3>3, <3>4
    <3>. QED
      BY <3>5, <3>6, <3>7 DEF InsertHeld
  <2>. QED
    BY <2>1, <2>5, <2>6
<1>7. CASE ~ClearsField(w) /\ ~IsolateOp(w)
  <2>1. bfx' = NoInsert
    BY <1>7 DEF HoldInsert
  <2>. QED
    BY <2>1 DEF NoInsert, InsertHeld
<1>. QED
  BY <1>5, <1>6, <1>7

LEMMA SoundWindowsKept ==
  ASSUME WidthOfElement, Ordinary(Families), SoundWindows, Instruction
  PROVE  SoundWindows'
<1>1. PICK w \in Families[family][At] :
        /\ buf' = Append(buf, w)
        /\ out' = out \cup PairFindings(w) \cup SingleFindings(w)
                      \cup ChainFindings(w) \cup InsertFindings(w)
        /\ HoldChain(w) /\ HoldInsert(w)
  BY DEF Instruction
<1>2. Invariant /\ ChainsHeld /\ InsertHeld /\ FindingsSound /\ Len(buf) < Len(Families[family])
  BY DEF SoundWindows, Instruction
<1>3. Decoded(w) /\ w \in Words
  BY <1>2, NextIsDecoded DEF Decoded
<1>4. /\ buf \in Seq(Words) /\ Len(buf') = At /\ Len(buf) \in Nat /\ At = Len(buf) + 1
  BY <1>1, <1>2, <1>3, BufferGrows DEF Invariant, At
<1>5. ~ZeroesHighHalf(w)
  <2>1. family \in DOMAIN Families /\ At \in DOMAIN Families[family]
    BY <1>2, <1>4, PeepholeAssumption DEF Invariant, TypeOK
  <2>. QED
    BY <2>1, OrdinaryWords
<1>6. ASSUME NEW f \in out'
      PROVE  /\ f.at \in 1 .. Len(buf') /\ f.start \in 1 .. f.at /\ f.count \in 1 .. f.at - f.start + 1
             /\ SoundThen(SubSeq(buf', f.start, f.at), f, SubSeq(buf', f.start + f.count, f.at))
  <2>1. CASE f \in out
    <3>1. /\ f.at \in 1 .. Len(buf) /\ f.start \in 1 .. f.at /\ f.count \in 1 .. f.at - f.start + 1
          /\ SoundThen(SubSeq(buf, f.start, f.at), f, SubSeq(buf, f.start + f.count, f.at))
      BY <1>2, <2>1 DEF FindingsSound, ReadFrom, ReadAfter
    <3>2. f.at \in 0 .. Len(buf) /\ f.at \in 1 .. Len(buf') /\ f.start \in Nat \ {0} /\ f.start + f.count \in Nat \ {0}
      BY <1>4, <3>1
    <3>3. /\ SubSeq(buf', f.start, f.at) = SubSeq(buf, f.start, f.at)
          /\ SubSeq(buf', f.start + f.count, f.at) = SubSeq(buf, f.start + f.count, f.at)
      BY <1>1, <1>3, <1>4, <3>2, PartStays
    <3>. QED
      BY <3>1, <3>2, <3>3
  <2>2. CASE f \notin out
    <3>1. SoundNow(f, w)
      BY <1>1, <1>2, <1>3, <1>5, <2>2, SoundPairFindings, SoundSingleFindings, SoundChainFindings, SoundInsertFindings
    <3>2. /\ f.at = At /\ f.start \in 1 .. At /\ f.count \in 1 .. At - f.start + 1
          /\ SoundThen(SubSeq(buf', f.start, At), f, SubSeq(buf', f.start + f.count, At))
      BY <1>1, <3>1 DEF SoundNow
    <3>. QED
      BY <1>4, <3>2
  <2>. QED
    BY <2>1, <2>2
<1>7. FindingsSound'
  BY <1>6 DEF FindingsSound, ReadFrom, ReadAfter
<1>8. Invariant'
  BY <1>2, InstructionKeeps
<1>9. ChainsHeld'
  BY <1>1, <1>2, <1>3, ChainsStayHeld
<1>10. InsertHeld'
  BY <1>1, <1>2, <1>3, InsertStaysHeld
<1>. QED
  BY <1>7, <1>8, <1>9, <1>10 DEF SoundWindows

\* Sound windows are what TLC checks from a few machines.
LEMMA SoundFindingsAreSound == ASSUME FindingsSound PROVE FoldsSound
<1>1. ASSUME NEW f \in out, NEW m \in Machines
      PROVE  /\ Alike(Run(m, ReadFrom(f)), Run(Run(m, f.rewrite), ReadAfter(f)), f.dead)
             /\ \A ws \in f.kept : Alike(Run(m, ReadFrom(f)), Run(Run(m, ws), ReadAfter(f)), {})
  <2>1. m \in RegisterStates
    BY PeepholeAssumption
  <2>. QED
    BY <2>1 DEF FindingsSound, SoundThen
<1>. QED
  BY <1>1 DEF FoldsSound, Equivalent

\* The soundness rule of the README, for every width, every buffer but for
\* the three spellings that Ordinary leaves out, and every state of the
\* registers and flags: a rewrite in the place of its window leaves what the
\* words read leave, but for the register the deferral proves dead, and the
\* fallback leaves exactly that.
THEOREM FoldsAlwaysSound == ASSUME WidthOfElement, Ordinary(Families) PROVE Spec => []FoldsSound
<1>1. Init => SoundWindows
  <2>. SUFFICES ASSUME Init PROVE SoundWindows
    OBVIOUS
  <2>1. asc = {} /\ out = {} /\ bfx = NoInsert
    BY DEF Init
  <2>. QED
    BY <2>1, InvariantStarts DEF SoundWindows, ChainsHeld, InsertHeld, FindingsSound, NoInsert
<1>2. SoundWindows /\ [Next]_vars => SoundWindows'
  <2>1. CASE SoundWindows /\ Instruction
    BY <2>1, SoundWindowsKept
  <2>2. CASE SoundWindows /\ UNCHANGED vars
    <3>1. Invariant'
      BY <2>2, InvariantKept DEF SoundWindows
    <3>2. ChainsHeld' /\ InsertHeld' /\ FindingsSound'
      BY <2>2 DEF vars, SoundWindows, ChainsHeld, InsertHeld, HeldClear, HeldIsolate, FindingsSound, ReadFrom, ReadAfter
    <3>. QED
      BY <3>1, <3>2 DEF SoundWindows
  <2>. QED
    BY <2>1, <2>2 DEF Next, EndOfBuffer
<1>3. SoundWindows => FoldsSound
  BY SoundFindingsAreSound DEF SoundWindows
<1>. QED
  BY <1>1, <1>2, <1>3, PTL DEF Spec
=============================================================================
