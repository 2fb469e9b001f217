--------------------------- MODULE NumbersProofs ----------------------------
(***************************************************************************)
(* Proofs about local value numbering, for every buffer, register width    *)
(* and machine: registers of one number hold one value, what is known to   *)
(* be constant is, and a word reported as a recompute changes nothing.     *)
(***************************************************************************)
EXTENDS Facts, AluProofs, SequenceTheorems

-----------------------------------------------------------------------------
(* What a word writes fits its size.                                       *)

Fits(v, w) == v \in SUBSET Low(Size(w))

LEMMA InstructionIs ==
  ASSUME NEW w \in Instructions
  PROVE  /\ w.op \in (ComputeOps \ {"mov"}) \cup {"nop", "mrs", "fcmp"} \cup MemoryOps \cup Conditionals \cup Terminal
         /\ w.sf \in BOOLEAN /\ w.d \in Gprs \cup {R31} /\ w.n \in Gprs \cup {R31}
         /\ w.m \in Gprs \cup {R31} /\ w.a \in Gprs \cup {R31}
         /\ w.k \in Int /\ w.wd \in Nat /\ w.mask \in SUBSET Low(W) /\ w.cond \in Conds
         /\ Encodable(w)
         /\ w.op \in ArithOps \cup LogicOps => w.sh \in ShiftOps
         /\ w.op \in CondCmpOps \cup Conditionals \cup Terminal \cup {"nop"} => w.d = R31
         /\ w.op = "adr" => w.sf
         /\ w.op = "ldr" => w.wd <= Size(w)
         /\ w.op = "mrs" => 4 <= Size(w)
BY DEF Instructions

LEMMA ValueIs == ASSUME NEW m, NEW w PROVE Value(m, w) = Outcome(m, w, Size(w)).v
BY DEF Value

LEMMA SumFits ==
  ASSUME NEW m, NEW w
  PROVE  Sum(m, w, Size(w)).v \in SUBSET Low(Size(w))
BY DEF Sum, AddWithCarry, AddedUp, Flagged, Bits

LEMMA ShiftedFits ==
  ASSUME NEW w, NEW m, w \in Instructions, w.op \in ShiftOps
  PROVE  Fits(Value(m, w), w)
<1>1. w.k \in 0 .. Size(w) - 1
  BY InstructionIs, ReadFits DEF Encodable
<1>2. Value(m, w) = ShiftBy(w.op, Reads(m, w, w.n), w.k, Size(w))
  BY OutcomeOfShift DEF Value, Plainly
<1>. QED
  BY <1>1, <1>2, ReadFits, ShiftFits DEF Fits

\* Fields within s bits.
LEMMA FieldsFit ==
  ASSUME NEW s, NEW a, NEW k, NEW wd,
         s \in Nat \ {0}, a \in SUBSET Low(s), k \in 0 .. s - 1, wd \in 1 .. s - k
  PROVE  /\ Extract(a, k, wd) \in SUBSET Low(s) /\ Place(a, k, wd) \in SUBSET Low(s)
         /\ Extend(Extract(a, k, wd), wd - 1, s) \in SUBSET Low(s)
         /\ Extend(Place(a, k, wd), k + wd - 1, s) \in SUBSET Low(s)
<1>1. Low(wd) \subseteq Low(s)
  BY DEF Low
<1>2. Extract(a, k, wd) \in SUBSET Low(s)
  BY <1>1 DEF Extract
<1>3. Place(a, k, wd) \in SUBSET Low(s)
  BY DEF Place, Low
<1>4. ASSUME NEW v \in SUBSET Low(s), NEW top \in Nat
      PROVE  Extend(v, top, s) \in SUBSET Low(s)
  BY DEF Extend, Low
<1>5. wd - 1 \in Nat /\ k + wd - 1 \in Nat
  OBVIOUS
<1>. QED
  BY <1>2, <1>3, <1>4, <1>5

LEMMA PairFits ==
  ASSUME NEW s, NEW a, NEW b, NEW k,
         s \in Nat \ {0}, a \in SUBSET Low(s), b \in SUBSET Low(s), k \in 0 .. s - 1
  PROVE  Lsr(b, k) \cup Lsl(a, s - k, s) \in SUBSET Low(s)
<1>1. Lsr(b, k) \in SUBSET Low(s)
  BY LsrBits
<1>2. Lsl(a, s - k, s) \in SUBSET Low(s)
  BY DEF Lsl, Low
<1>. QED
  BY <1>1, <1>2

LEMMA BitmaskFits ==
  ASSUME NEW w, w.op \in ImmLogicOps, Encodable(w)
  PROVE  w.mask \in SUBSET Low(Size(w))
<1>1. w.mask \in BitmaskImmediates[Size(w)] /\ Size(w) \in {H, W}
  BY Widths DEF Encodable
<1>. QED
  BY <1>1 DEF BitmaskImmediates, Replicated

LEMMA DataFits ==
  ASSUME NEW w, NEW m, w \in Instructions, w.op \in PathOps \ {"mov"}
  PROVE  Fits(Value(m, w), w)
<1>. PICK s, a, c, old : /\ s = Size(w) /\ a = Reads(m, w, w.n) /\ c = Reads(m, w, w.m) /\ old = Reads(m, w, w.d)
  OBVIOUS
<1>1. /\ a \in SUBSET Low(s) /\ c \in SUBSET Low(s) /\ old \in SUBSET Low(s) /\ s \in Nat \ {0} /\ s \in {H, W}
      /\ s \in 0 .. W /\ a \in SUBSET Low(W) /\ c \in SUBSET Low(W)
  BY ReadFits
<1>2. /\ w.k \in Int /\ w.wd \in Nat /\ w.mask \in SUBSET Low(W) /\ Encodable(w)
      /\ w.op \in ArithOps \cup LogicOps => w.sh \in ShiftOps
  BY InstructionIs
<1>3. CASE w.op \in ShiftOps
  BY <1>3, ShiftedFits
<1>4. CASE w.op \in FieldOps
  <2>1. Value(m, w) = FieldValue(w, a, c, old, s)
    BY <1>4, OutcomeOfField DEF Value, Plainly
  <2>2. CASE w.op \in ExtractOps \cup PlaceOps
    <3>1. w.k \in 0 .. s - 1 /\ w.wd \in 1 .. s - w.k
      BY <1>2, <2>2 DEF Encodable, Low
    <3>. PICK k, wd : k = w.k /\ wd = w.wd /\ k \in 0 .. s - 1 /\ wd \in 1 .. s - k
      BY <3>1
    <3>2. /\ Extract(a, k, wd) \in SUBSET Low(s) /\ Place(a, k, wd) \in SUBSET Low(s)
          /\ Extend(Extract(a, k, wd), wd - 1, s) \in SUBSET Low(s)
          /\ Extend(Place(a, k, wd), k + wd - 1, s) \in SUBSET Low(s)
      BY <1>1, FieldsFit
    <3>. QED
      BY <1>1, <2>1, <2>2, <3>2 DEF FieldValue, ExtractOps, PlaceOps, Fits
  <2>3. CASE w.op = "extr"
    <3>1. w.k \in 0 .. s - 1
      BY <1>1, <1>2, <2>3 DEF Encodable, Low
    <3>. PICK k : k = w.k /\ k \in 0 .. s - 1
      BY <3>1
    <3>2. Lsr(c, k) \cup Lsl(a, s - k, s) \in SUBSET Low(s)
      BY <1>1, PairFits
    <3>. QED
      BY <2>1, <2>3, <3>2 DEF FieldValue, Fits
  <2>4. CASE w.op \in {"andi", "andsi"}
    BY <1>1, <2>1, <2>4 DEF FieldValue, Fits
  <2>5. CASE w.op = "eori"
    <3>1. w.mask \in SUBSET Low(s)
      BY <1>2, <2>5, BitmaskFits DEF ImmLogicOps
    <3>. QED
      BY <1>1, <2>1, <2>5, <3>1 DEF FieldValue, Fits, SymDiff
  <2>. QED
    BY <1>4, <2>2, <2>3, <2>4, <2>5 DEF FieldOps, ExtractOps, PlaceOps, PathOps
<1>5. CASE w.op \in MoveOps
  <2>1. w.op \notin ShiftOps /\ w.op \notin LogicOps /\ w.op \notin SelectOps /\ w.op \in {"movz", "movn", "movk"}
    BY <1>5 DEF MoveOps, ShiftOps, LogicOps, SelectOps
  <2>. PICK imm : imm = Lsl(w.mask, Piece * w.k, s)
    OBVIOUS
  <2>2. Value(m, w) = Wide(w, old, imm, s)
    <3>1. DataOf(m, w, a, c, old, s) = Wide(w, old, imm, s)
      BY <1>5, <2>1 DEF DataOf
    <3>2. w.op \in PathOps
      BY <1>5 DEF PathOps
    <3>. QED
      BY <3>1, <3>2, OnDataPath DEF Value, Plainly
  <2>3. imm \in SUBSET Low(s)
    <3>1. w.mask \in SUBSET Low(Piece) /\ Piece \in Nat \ {0} /\ w.k \in Nat /\ Piece * w.k \in Nat
      BY <1>1, <1>2, <1>5, AluAssumption DEF Encodable
    <3>. PICK p : p = Piece * w.k /\ p \in Nat
      BY <3>1
    <3>. QED
      BY <1>1, <3>1 DEF Lsl, Low
  <2>. QED
    BY <1>1, <2>1, <2>2, <2>3 DEF Wide, Fits
<1>6. CASE w.op \in LogicOps
  <2>1. w.k \in 0 .. s - 1 /\ w.sh \in ShiftOps
    BY <1>2, <1>6 DEF Encodable, Low
  <2>. PICK b : b = ShiftBy(w.sh, c, w.k, s)
    OBVIOUS
  <2>2. b \in SUBSET Low(s)
    BY <1>1, <2>1, ShiftFits
  <2>3. Value(m, w) = Logical(w, a, b, s)
    BY <1>6, OutcomeOfLogic DEF Value, Plainly
  <2>. QED
    BY <1>1, <1>6, <2>2, <2>3 DEF Logical, Logic, LogicOps, SymDiff, Fits
<1>7. CASE w.op \in SelectOps
  <2>1. Value(m, w) \in {a, ElseValue(w.op, c, s)}
    BY <1>7, OutcomeOfSelect DEF Value, Plainly
  <2>. QED
    BY <1>1, <1>7, <2>1 DEF ElseValue, SelectOps, MinusOf, Bits, Fits
<1>8. CASE w.op \in HighOps \cup TwoSourceOps \cup OneSourceOps \cup {"orri"}
  <2>1. w.op \notin MoveOps /\ w.op \notin ShiftOps /\ w.op \notin LogicOps /\ w.op \notin SelectOps
    BY <1>8 DEF HighOps, TwoSourceOps, OneSourceOps, ShiftOps, MoveOps, LogicOps, SelectOps
  <2>2. Value(m, w) = DataOf(m, w, a, c, old, s)
    BY <1>8, OnDataPath DEF Value, Plainly
  <2>3. CASE w.op \in {"umulh", "smulh", "udiv", "sdiv"}
    <3>1. \A i : Bits(i, s) \in SUBSET Low(s)
      BY DEF Bits
    <3>. QED
      BY <2>1, <2>2, <2>3, <3>1 DEF DataOf, Fits, HighOps, TwoSourceOps
  <2>4. CASE w.op \in {"lslv", "lsrv", "asrv", "rorv"}
    <3>1. NatOf[c] \in Nat
      BY <1>1, NumberAdds
    <3>. PICK k : k = NatOf[c] % s
      OBVIOUS
    <3>2. k \in 0 .. s - 1
      BY <1>1, <3>1
    <3>3. \A sh \in ShiftOps : ShiftBy(sh, a, k, s) \in SUBSET Low(s)
      BY <1>1, <3>2, ShiftFits
    <3>4. Lsl(a, k, s) \in SUBSET Low(s) /\ Lsr(a, k) \in SUBSET Low(s) /\ Asr(a, k, s) \in SUBSET Low(s)
          /\ Ror(a, k, s) \in SUBSET Low(s)
      BY <3>3 DEF ShiftBy, ShiftOps
    <3>. QED
      BY <2>1, <2>2, <2>4, <3>4 DEF DataOf, Fits, TwoSourceOps
  <2>5. CASE w.op \in {"umax", "umin", "smax", "smin"}
    <3>1. Value(m, w) \in {a, c}
      BY <2>1, <2>2, <2>5 DEF DataOf, TwoSourceOps
    <3>. QED
      BY <1>1, <3>1 DEF Fits
  <2>6. CASE w.op \in {"rbit", "clz", "cls"}
    <3>1. \A i : Bits(i, s) \in SUBSET Low(s)
      BY DEF Bits
    <3>2. {s - 1 - i : i \in a} \in SUBSET Low(s)
      BY <1>1 DEF Low
    <3>. QED
      BY <2>1, <2>2, <2>6, <3>1, <3>2 DEF DataOf, Fits
  <2>7. CASE w.op \in {"ctz", "cnt", "abs"}
    <3>1. \A i : Bits(i, s) \in SUBSET Low(s)
      BY DEF Bits
    <3>. QED
      BY ZenonT(30), <1>1, <2>1, <2>2, <2>7, <3>1 DEF DataOf, Fits, MinusOf
  <2>8. CASE w.op = "orri"
    <3>1. w.mask \in SUBSET Low(s)
      BY <1>2, <2>8, BitmaskFits DEF ImmLogicOps
    <3>. QED
      BY <1>1, <2>1, <2>2, <2>8, <3>1 DEF DataOf, Fits
  <2>. QED
    BY <1>8, <2>3, <2>4, <2>5, <2>6, <2>7, <2>8 DEF HighOps, TwoSourceOps, OneSourceOps
<1>. QED
  BY <1>3, <1>4, <1>5, <1>6, <1>7, <1>8 DEF PathOps, FieldOps, ExtractOps, PlaceOps, ImmLogicOps

\* What a word writes to its destination.
LEMMA ValueFits ==
  ASSUME NEW w \in Instructions, NEW m, w.op \in (ComputeOps \ {"mov"}) \cup {"fcmp", "ldr", "mrs"}
  PROVE  Fits(Value(m, w), w) /\ Value(m, w) \in SUBSET Low(W)
<1>1. Size(w) \in Nat /\ Size(w) \in 0 .. W
  BY Widths
<1>. SUFFICES Fits(Value(m, w), w)
  BY <1>1, NumberFits DEF Fits
<1>2. CASE w.op \in PathOps \ {"mov"}
  BY <1>2, DataFits
<1>3. CASE w.op \in AdderOps
  <2>1. w.op # "fcmp"
    BY <1>3 DEF AdderOps, ArithOps, ImmArithOps, ExtArithOps, MulOps, CondCmpOps, CondCmpImmOps, CarryOps
  <2>2. Value(m, w) \in {{}, Sum(m, w, Size(w)).v}
    BY <1>3, <2>1 DEF Outcome, Value
  <2>. QED
    BY <2>2, SumFits DEF Fits
<1>4. CASE w.op = "fcmp"
  <2>1. w.op \notin CondCmpOps /\ w.op \notin AdderOps
    BY <1>4 DEF AdderOps, ArithOps, ImmArithOps, ExtArithOps, MulOps, CondCmpOps, CondCmpImmOps, CarryOps
  <2>2. Value(m, w) = {}
    BY <1>4, <2>1 DEF Outcome, Value
  <2>. QED
    BY <2>2 DEF Fits
<1>5. CASE w.op = "ldr"
  <2>1. /\ w.op # "fcmp" /\ w.op \notin CondCmpOps /\ w.op \notin AdderOps /\ w.op \notin ShiftOps /\ w.op \notin MoveOps
        /\ w.op \notin LogicOps /\ w.op \notin SelectOps
    BY <1>5 DEF AdderOps, ArithOps, ImmArithOps, ExtArithOps, MulOps, CondCmpOps, CondCmpImmOps, CarryOps, ShiftOps,
       MoveOps, LogicOps, SelectOps
  <2>2. Value(m, w) = ExtendBy(w.sh, m.mem, w.wd, Size(w))
    BY <1>5, <2>1 DEF Outcome, Value, Plainly, DataOf
  <2>3. w.wd \in Nat /\ w.wd <= Size(w)
    BY <1>5, InstructionIs
  <2>. PICK s, wd, v : s = Size(w) /\ wd = w.wd /\ v = m.mem \cap Low(wd)
    OBVIOUS
  <2>4. v \in SUBSET Low(s)
    BY <1>1, <2>3 DEF Low
  <2>5. CASE w.sh = "sxt" /\ wd - 1 \in v
    <3>1. wd - 1 \in Nat
      BY <2>4, <2>5 DEF Low
    <3>2. Extend(v, wd - 1, s) \in SUBSET Low(s)
      BY <1>1, <2>4, <3>1, ExtendBits
    <3>. QED
      BY <2>2, <2>5, <3>2 DEF ExtendBy, Fits
  <2>6. CASE ~(w.sh = "sxt" /\ wd - 1 \in v)
    BY <2>2, <2>4, <2>6 DEF ExtendBy, Extend, Fits
  <2>. QED
    BY <2>5, <2>6
<1>6. CASE w.op = "mrs"
  <2>1. /\ w.op # "fcmp" /\ w.op \notin CondCmpOps /\ w.op \notin AdderOps /\ w.op \notin ShiftOps /\ w.op \notin MoveOps
        /\ w.op \notin LogicOps /\ w.op \notin SelectOps
    BY <1>6 DEF AdderOps, ArithOps, ImmArithOps, ExtArithOps, MulOps, CondCmpOps, CondCmpImmOps, CarryOps, ShiftOps,
       MoveOps, LogicOps, SelectOps
  <2>2. Value(m, w) = {i \in Low(4) : <<m.flags.v, m.flags.c, m.flags.z, m.flags.n>>[i + 1]}
    BY <1>6, <2>1 DEF Outcome, Value, Plainly, DataOf
  <2>3. \A i \in Low(4) : i \in Low(Size(w))
    BY <1>1, <1>6, InstructionIs DEF Low
  <2>. QED
    BY <2>2, <2>3 DEF Fits
<1>. QED
  BY <1>2, <1>3, <1>4, <1>5, <1>6 DEF ComputeOps, PathOps, AdderOps

-----------------------------------------------------------------------------
(* What a word does to a machine.                                          *)

FlagSets == [n : BOOLEAN, z : BOOLEAN, c : BOOLEAN, v : BOOLEAN]

LEMMA FlagsFit ==
  ASSUME NEW m, NEW w, NEW s
  PROVE  Outcome(m, w, s).flags \in FlagSets
<1>1. \A v : Plainly(v, s).flags \in FlagSets
  BY DEF Plainly, LogicFlags, FlagSets
<1>2. Sum(m, w, s).flags \in FlagSets
  BY DEF Sum, AddWithCarry, AddedUp, Flagged, FlagSets
<1>3. \A p : FpFlags(p) \in FlagSets
  BY DEF FpFlags, FlagSets
<1>4. \A v : NzcvOf(v) \in FlagSets
  BY DEF NzcvOf, FlagSets
<1>. QED
  BY <1>1, <1>2, <1>3, <1>4 DEF Outcome

LEMMA ContentsAre ==
  ASSUME NEW m \in Contents
  PROVE  /\ m.x \in [Gprs -> SUBSET Low(W)] /\ m.sp \in SUBSET Low(W) /\ m.base \in SUBSET Low(W)
         /\ m.mem \in SUBSET Low(W) /\ m.flags \in FlagSets
         /\ Shaped(m) /\ DOMAIN m = {"x", "sp", "base", "mem", "flags"}
<1>1. /\ m.x \in [Gprs -> SUBSET Low(W)] /\ m.sp \in SUBSET Low(W) /\ m.base \in SUBSET Low(W)
      /\ m.mem \in SUBSET Low(W) /\ m.flags \in FlagSets
  BY DEF Contents, FlagSets
<1>2. DOMAIN m = {"x", "sp", "base", "mem", "flags"} /\ m = [f \in DOMAIN m |-> m[f]]
  BY DEF Contents
<1>. QED
  BY <1>1, <1>2 DEF Shaped

LEMMA SlotNames ==
  /\ "sp" \notin Gprs /\ "nzcv" \notin Gprs /\ "zr" \notin Slots /\ R31 \notin Gprs
  /\ R31 # "sp" /\ R31 # "nzcv" /\ R31 # "zr"
BY FactsAssumption, AluAssumption DEF Slots

LEMMA HoldingIs ==
  ASSUME NEW m
  PROVE  /\ Holding(m, "sp") = m.sp /\ Holding(m, "nzcv") = m.flags
         /\ \A r \in Gprs : Holding(m, r) = m.x[r]
BY SlotNames DEF Holding

LEMMA CommitFits ==
  ASSUME NEW m \in Contents, NEW w, NEW r, r.v \in SUBSET Low(W), r.flags \in FlagSets
  PROVE  Committed(m, w, r) \in Contents
<1>. DEFINE x == IF w.d = R31 THEN m.x ELSE [m.x EXCEPT ![w.d] = r.v]
            sp == IF w.d = R31 /\ w.op \in SpDest THEN r.v ELSE m.sp
            flags == IF w.op \in FlagOps \cup {"fcmp"} THEN r.flags ELSE m.flags
<1>1. Committed(m, w, r) = [m EXCEPT !.x = x, !.sp = sp, !.flags = flags]
  BY DEF Committed
<1>2. x \in [Gprs -> SUBSET Low(W)] /\ sp \in SUBSET Low(W) /\ flags \in FlagSets
  BY ContentsAre
<1>. HIDE DEF x, sp, flags
<1>. QED
  BY <1>1, <1>2 DEF Contents, FlagSets

\* A word that computes.
LEMMA ComputeEffect ==
  ASSUME NEW m \in Contents, NEW w \in Instructions, w.op \in ComputeOps
  PROVE  /\ Exec(m, w) \in Contents /\ Exec(m, w).base = m.base
         /\ \A s \in Slots \ Written(w) : Holding(Exec(m, w), s) = Holding(m, s)
         /\ Pure(w) /\ LvnOut(w) # "zr" => LvnOut(w) \in Slots /\ Holding(Exec(m, w), LvnOut(w)) = Value(m, w)
         /\ Pure(w) /\ SetsFlags(w) => Holding(Exec(m, w), "nzcv") = Outcome(m, w, Size(w)).flags
<1>. PICK e : e = Exec(m, w)
  OBVIOUS
<1>1. w.op \in ComputeOps \ {"mov"} /\ w.op \notin MemoryOps /\ w.op \notin Impure /\ w.d \in Gprs \cup {R31}
      /\ (w.op \in CondCmpOps => w.d = R31)
  BY InstructionIs DEF Impure, MemoryOps, Conditionals, Terminal, CompareBranches, CbOps,
     ComputeOps, ShiftOps, ExtractOps, PlaceOps, MoveOps, LogicOps, ImmLogicOps, ArithOps, ImmArithOps, ExtArithOps,
     SelectOps, MulOps, HighOps, TwoSourceOps, OneSourceOps, CarryOps, CondCmpOps, CondCmpImmOps
<1>2. Value(m, w) \in SUBSET Low(W) /\ Outcome(m, w, Size(w)).flags \in FlagSets
  BY <1>1, ValueFits, FlagsFit
<1>3. e \in Contents
  <2>1. e = Committed(m, w, Outcome(m, w, Size(w)))
    BY ComputeCommits
  <2>. QED
    BY <1>2, <2>1, CommitFits DEF Value
<1>4. /\ e.base = m.base
      /\ e.sp = IF w.d = R31 /\ w.op \in SpDest THEN Value(m, w) ELSE m.sp
      /\ e.flags = IF w.op \in FlagOps THEN Outcome(m, w, Size(w)).flags ELSE m.flags
      /\ \A g \in Gprs : e.x[g] = IF g = w.d THEN Value(m, w) ELSE m.x[g]
  BY ContentsAre, AfterCompute
<1>5. Pure(w) <=> LvnOut(w) # "zr" \/ SetsFlags(w)
  BY <1>1 DEF Pure
<1>6. LvnOut(w) = IF w.d # R31 THEN w.d ELSE IF w.op \in SpDest THEN "sp" ELSE "zr"
  <2>1. w.op \in CondCmpOps => w.op \notin SpDest
    BY DEF CondCmpOps, CondCmpImmOps, SpDest
  <2>. QED
    BY <1>1, <2>1 DEF LvnOut, SpOr, ZrOr
<1>7. CASE Pure(w)
  <2>1. Written(w) = ({LvnOut(w)} \ {"zr"}) \cup (IF SetsFlags(w) THEN {"nzcv"} ELSE {})
    BY <1>7 DEF Written
  <2>2. \A s \in Slots \ Written(w) : Holding(e, s) = Holding(m, s)
    BY <1>1, <1>4, <1>6, <2>1, HoldingIs, SlotNames DEF Slots, SetsFlags
  <2>3. LvnOut(w) # "zr" => LvnOut(w) \in Slots /\ Holding(e, LvnOut(w)) = Value(m, w)
    BY <1>1, <1>4, <1>6, HoldingIs, SlotNames DEF Slots
  <2>4. SetsFlags(w) => Holding(e, "nzcv") = Outcome(m, w, Size(w)).flags
    BY <1>4, HoldingIs DEF SetsFlags
  <2>. QED
    BY <1>3, <1>4, <2>2, <2>3, <2>4
<1>8. CASE ~Pure(w)
  <2>1. LvnOut(w) = "zr" /\ ~SetsFlags(w) /\ w.d = R31
    BY <1>1, <1>5, <1>6, <1>8, SlotNames DEF Slots
  <2>2. w.op \notin SpDest
    BY <1>6, <2>1
  <2>3. e.sp = m.sp /\ e.flags = m.flags /\ \A g \in Gprs : e.x[g] = m.x[g]
    BY <1>4, <2>1, <2>2, SlotNames DEF SetsFlags
  <2>. QED
    BY <1>3, <1>4, <1>8, <2>3, HoldingIs DEF Slots
<1>. QED
  BY <1>7, <1>8

\* A load or store moves its base.
LEMMA WriteBackEffect ==
  ASSUME NEW m \in Contents, NEW w, w.n \in Gprs \cup {R31}
  PROVE  /\ WriteBack(m, w) \in Contents /\ WriteBack(m, w).base = m.base
         /\ WriteBack(m, w).flags = m.flags
         /\ ~(w.op \in MemoryOps /\ w.k # 0 /\ w.n = R31) => WriteBack(m, w).sp = m.sp
         /\ \A g \in Gprs : ~(w.op \in MemoryOps /\ w.k # 0 /\ w.n = g) => WriteBack(m, w).x[g] = m.x[g]
<1>1. CASE w.op \notin MemoryOps \/ w.k = 0
  BY <1>1 DEF WriteBack
<1>2. CASE w.op \in MemoryOps /\ w.k # 0
  <2>. PICK u : u = AddWithCarry(IF w.n = R31 THEN m.sp ELSE m.x[w.n], Bits(w.k, W), FALSE, W).v
    OBVIOUS
  <2>1. u \in SUBSET Low(W)
    BY DEF AddWithCarry, AddedUp, Flagged, Bits
  <2>2. WriteBack(m, w) = IF w.n = R31 THEN [m EXCEPT !.sp = u] ELSE [m EXCEPT !.x = [m.x EXCEPT ![w.n] = u]]
    BY <1>2 DEF WriteBack, MovedBase
  <2>3. CASE w.n = R31
    BY <1>2, <2>1, <2>2, <2>3, SlotNames DEF Contents
  <2>4. CASE w.n \in Gprs
    <3>. DEFINE x == [m.x EXCEPT ![w.n] = u]
    <3>1. x \in [Gprs -> SUBSET Low(W)] /\ \A g \in Gprs : g # w.n => x[g] = m.x[g]
      BY <2>1, ContentsAre
    <3>. HIDE DEF x
    <3>2. WriteBack(m, w) = [m EXCEPT !.x = x]
      BY <2>2, <2>4, SlotNames DEF x
    <3>. QED
      BY <1>2, <3>1, <3>2 DEF Contents
  <2>. QED
    BY <2>3, <2>4
<1>. QED
  BY <1>1, <1>2

LEMMA CommitEffect ==
  ASSUME NEW m \in Contents, NEW w \in Instructions, w.op \in {"mrs", "fcmp", "ldr"}
  PROVE  LET c == Committed(m, w, Outcome(m, w, Size(w)))
         IN  /\ c \in Contents /\ c.base = m.base /\ c.sp = m.sp
             /\ w.op # "fcmp" => c.flags = m.flags
             /\ \A g \in Gprs \ {w.d} : c.x[g] = m.x[g]
<1>1. Outcome(m, w, Size(w)).v \in SUBSET Low(W) /\ Outcome(m, w, Size(w)).flags \in FlagSets
  BY ValueFits, FlagsFit DEF Value
<1>2. w.op \notin SpDest /\ w.op \notin FlagOps
  BY DEF SpDest, FlagOps, CondCmpOps, CondCmpImmOps
<1>. PICK o : o = Outcome(m, w, Size(w))
  OBVIOUS
<1>3. Committed(m, w, o) \in Contents
  BY <1>1, CommitFits
<1>. QED
  BY <1>2, <1>3, ContentsAre, AfterCommit

LEMMA StoreEffect ==
  ASSUME NEW m \in Contents, NEW w, w.m \in Gprs \cup {R31}
  PROVE  /\ Stored(m, w) \in Contents /\ Stored(m, w).base = m.base /\ Stored(m, w).sp = m.sp
         /\ Stored(m, w).flags = m.flags /\ Stored(m, w).x = m.x
<1>. DEFINE mem == (m.mem \ Low(w.wd)) \cup (IF w.m = R31 THEN {} ELSE m.x[w.m] \cap Low(w.wd))
<1>1. mem \in SUBSET Low(W)
  BY ContentsAre
<1>2. Stored(m, w) = [m EXCEPT !.mem = mem]
  BY DEF Stored
<1>. HIDE DEF mem
<1>. QED
  BY <1>1, <1>2 DEF Contents

\* Any other word: what it may write is listed.
LEMMA OtherEffect ==
  ASSUME NEW m \in Contents, NEW w \in Instructions, w.op \notin ComputeOps
  PROVE  /\ ~Pure(w)
         /\ Exec(m, w) \in Contents /\ Exec(m, w).base = m.base
         /\ \A s \in Slots \ Written(w) : Holding(Exec(m, w), s) = Holding(m, s)
<1>1. /\ w.op \in Impure /\ w.op \notin {"msr", "ptest"} /\ w.d \in Gprs \cup {R31} /\ w.n \in Gprs \cup {R31} /\ w.m \in Gprs \cup {R31}
  <2>1. w.op \in Impure /\ w.d \in Gprs \cup {R31} /\ w.n \in Gprs \cup {R31} /\ w.m \in Gprs \cup {R31}
    BY InstructionIs DEF Impure
  <2>2. w.op \notin {"msr", "ptest"}
    BY <2>1 DEF Impure, MemoryOps, Conditionals, Terminal, CompareBranches, CbOps
  <2>. QED
    BY <2>1, <2>2
<1>2. ~Pure(w)
  BY <1>1 DEF Pure
<1>3. Written(w) = GprWrites(w)
                   \cup (IF w.op \in MemoryOps /\ w.k # 0 /\ w.n = R31 THEN {"sp"} ELSE {})
                   \cup (IF w.op \in {"fcmp", "mrs"} THEN {"nzcv"} ELSE {})
  BY <1>2 DEF Written
<1>4. CASE w.op \in {"nop"} \cup Conditionals \cup Terminal
  BY <1>1, <1>2, <1>4 DEF Exec
<1>5. CASE w.op \in {"mrs", "fcmp", "ldr", "str"}
  <2>1. w.op \notin {"nop"} \cup Conditionals \cup Terminal
    BY <1>5 DEF Conditionals, Terminal, CompareBranches, CbOps
  <2>. PICK c : c = IF w.op = "str" THEN Stored(m, w) ELSE Committed(m, w, Outcome(m, w, Size(w)))
    OBVIOUS
  <2>2. Exec(m, w) = WriteBack(c, w)
    BY <1>1, <2>1 DEF Exec
  <2>3. /\ c \in Contents /\ c.base = m.base /\ c.sp = m.sp
        /\ w.op # "fcmp" => c.flags = m.flags
        /\ \A g \in Gprs \ {w.d} : c.x[g] = m.x[g]
    BY <1>1, <1>5, CommitEffect, StoreEffect
  <2>4. /\ WriteBack(c, w) \in Contents /\ WriteBack(c, w).base = c.base /\ WriteBack(c, w).flags = c.flags
        /\ ~(w.op \in MemoryOps /\ w.k # 0 /\ w.n = R31) => WriteBack(c, w).sp = c.sp
        /\ \A g \in Gprs : ~(w.op \in MemoryOps /\ w.k # 0 /\ w.n = g) => WriteBack(c, w).x[g] = c.x[g]
    BY <1>1, <2>3, WriteBackEffect
  <2>. PICK e : e = Exec(m, w)
    OBVIOUS
  <2>5. \A g \in Gprs \ Written(w) : e.x[g] = m.x[g]
    BY <1>3, <2>2, <2>3, <2>4, SlotNames DEF GprWrites
  <2>6. "sp" \notin Written(w) => e.sp = m.sp
    BY <1>3, <2>2, <2>3, <2>4
  <2>7. "nzcv" \notin Written(w) => e.flags = m.flags
    BY <1>3, <2>2, <2>3, <2>4
  <2>. QED
    BY <1>2, <2>2, <2>3, <2>4, <2>5, <2>6, <2>7, HoldingIs DEF Slots
<1>. QED
  BY <1>1, <1>4, <1>5 DEF Impure, MemoryOps

LEMMA EffectOf ==
  ASSUME NEW m \in Contents, NEW w \in Instructions
  PROVE  /\ Exec(m, w) \in Contents /\ Exec(m, w).base = m.base
         /\ \A s \in Slots \ Written(w) : Holding(Exec(m, w), s) = Holding(m, s)
         /\ Pure(w) => w.op \in ComputeOps
BY ComputeEffect, OtherEffect

-----------------------------------------------------------------------------
(* Constants.                                                              *)

Constants == [v : SUBSET Low(W), rel : BOOLEAN]

\* What a known constant says of a register, ADR's by where the image is.
Meaning(c, base) == IF c.rel THEN Added(base, c.v, W) ELSE c.v
KnownTrue(l, m)  == \A r \in Gprs : \A c \in l.known[r] : m.x[r] = Meaning(c, m.base)

KnownOf(l, r) == IF r = R31 THEN {[v |-> {}, rel |-> FALSE]} ELSE l.known[r]
WideImm(w)    == {Piece * w.k + i : i \in w.mask}
WidePiece(w)  == Piece * w.k .. Piece * w.k + Piece - 1
Plainer(v, s) == [v |-> v \cap Low(s), rel |-> FALSE]

\* The cases of lvn_const_value.
ConstBy(l, w, c, s) ==
  \/ w.op = "adr" /\ c = [v |-> w.mask, rel |-> TRUE]
  \/ w.op = "movz" /\ c = Plainer(WideImm(w), s)
  \/ w.op = "movn" /\ c = Plainer(Low(W) \ WideImm(w), s)
  \/ /\ w.op = "movk" /\ w.d # R31
     /\ \E k \in KnownOf(l, w.d) : ~k.rel /\ c = Plainer((k.v \ WidePiece(w)) \cup WideImm(w), s)
  \/ w.op = "andi" /\ \E k \in KnownOf(l, w.n) : ~k.rel /\ c = Plainer(k.v \cap w.mask, s)
  \/ w.op = "orri" /\ \E k \in KnownOf(l, w.n) : ~k.rel /\ c = Plainer(k.v \cup w.mask, s)
  \/ w.op = "eori" /\ \E k \in KnownOf(l, w.n) : ~k.rel /\ c = Plainer(SymDiff(k.v, w.mask), s)
  \/ /\ w.op = "addi" /\ w.n # R31
     /\ \E k \in KnownOf(l, w.n) :
          (k.rel => w.sf) /\ c = [v |-> Bits((NatOf[k.v] + w.k) % 2^W, s), rel |-> k.rel]
  \/ /\ w.op = "orr" /\ w.n = R31 /\ w.k = 0
     /\ \E k \in KnownOf(l, w.m) : (k.rel => w.sf) /\ c = [v |-> k.v \cap Low(s), rel |-> k.rel]

LEMMA ConstCases ==
  ASSUME NEW l, NEW w, NEW c \in LvnConst(l, w)
  PROVE  ~SetsFlags(w) /\ ConstBy(l, w, c, Size(w))
<1>1. ~SetsFlags(w)
  BY DEF LvnConst
<1>2. CASE w.op = "adr"
  BY <1>1, <1>2 DEF LvnConst, ConstBy
<1>3. CASE w.op = "movz"
  BY <1>1, <1>3 DEF LvnConst, ConstBy, Plainer, WideImm
<1>4. CASE w.op = "movn"
  BY <1>1, <1>4 DEF LvnConst, ConstBy, Plainer, WideImm
<1>5. CASE w.op = "movk"
  BY <1>1, <1>5 DEF LvnConst, ConstBy, Plainer, WideImm, WidePiece, KnownOf
<1>6. CASE w.op = "andi"
  BY <1>1, <1>6 DEF LvnConst, ConstBy, Plainer, KnownOf
<1>7. CASE w.op = "orri"
  BY <1>1, <1>7 DEF LvnConst, ConstBy, Plainer, KnownOf
<1>8. CASE w.op = "eori"
  BY <1>1, <1>8 DEF LvnConst, ConstBy, Plainer, KnownOf
<1>9. CASE w.op = "addi"
  BY <1>1, <1>9 DEF LvnConst, ConstBy, KnownOf
<1>10. CASE w.op = "orr"
  BY <1>1, <1>10 DEF LvnConst, ConstBy, KnownOf
<1>11. w.op \in {"adr", "movz", "movn", "movk", "andi", "orri", "eori", "addi", "orr"}
  BY <1>1 DEF LvnConst
<1>. QED
  BY <1>1, <1>2, <1>3, <1>4, <1>5, <1>6, <1>7, <1>8, <1>9, <1>10, <1>11

LEMMA KnownOfTyped ==
  ASSUME NEW l, l.known \in [Gprs -> SUBSET Constants], NEW r \in Gprs \cup {R31}
  PROVE  KnownOf(l, r) \subseteq Constants
<1>1. CASE r = R31
  BY <1>1 DEF KnownOf, Constants
<1>2. CASE r # R31
  BY <1>2 DEF KnownOf
<1>. QED
  BY <1>1, <1>2

LEMMA ConstTyped ==
  ASSUME NEW l, l.known \in [Gprs -> SUBSET Constants], NEW w \in Instructions
  PROVE  LvnConst(l, w) \subseteq Constants
<1>. SUFFICES ASSUME NEW c \in LvnConst(l, w) PROVE c \in Constants
  OBVIOUS
<1>. PICK s : s = Size(w)
  OBVIOUS
<1>1. ConstBy(l, w, c, s)
  BY ConstCases
<1>2. \A i : i \in Low(s) => i \in Low(W)
  <2>1. s \in Nat /\ s <= W /\ W \in Nat
    BY Widths, AluAssumption
  <2>. QED
    BY <2>1 DEF Low
<1>3. \A v : Plainer(v, s) \in Constants
  BY <1>2 DEF Plainer, Constants
<1>4. \A n : \A rel \in BOOLEAN : [v |-> Bits(n, s), rel |-> rel] \in Constants
  BY <1>2 DEF Bits, Constants
<1>5. \A v : \A rel \in BOOLEAN : [v |-> v \cap Low(s), rel |-> rel] \in Constants
  BY <1>2 DEF Constants
<1>6. w.mask \in SUBSET Low(W) /\ w.n \in Gprs \cup {R31} /\ w.m \in Gprs \cup {R31}
  BY InstructionIs
<1>7. [v |-> w.mask, rel |-> TRUE] \in Constants
  BY <1>6 DEF Constants
<1>8. KnownOf(l, w.n) \subseteq Constants /\ KnownOf(l, w.m) \subseteq Constants
  BY <1>6, KnownOfTyped
<1>9. \A k \in Constants : k.rel \in BOOLEAN
  BY DEF Constants
<1>. QED
  BY <1>1, <1>3, <1>4, <1>5, <1>7, <1>8, <1>9 DEF ConstBy

LEMMA KnownRead ==
  ASSUME NEW m \in Contents, NEW l, l.known \in [Gprs -> SUBSET Constants], KnownTrue(l, m),
         NEW w, NEW r, r \in Gprs \cup {R31}, r = R31 => w.op \notin SpSource
  PROVE  \A k \in KnownOf(l, r) :
           /\ k \in Constants /\ k.v \in SUBSET Low(W)
           /\ Reads(m, w, r) = Meaning(k, m.base) \cap Low(Size(w))
           /\ Meaning(k, m.base) \in SUBSET Low(W)
<1>. TAKE k \in KnownOf(l, r)
<1>1. k \in Constants /\ k.v \in SUBSET Low(W)
  BY KnownOfTyped DEF Constants
<1>2. CASE r = R31
  <2>1. k.v = {} /\ ~k.rel
    BY <1>2 DEF KnownOf
  <2>. QED
    BY <1>1, <1>2, <2>1 DEF Reads, Meaning
<1>3. CASE r \in Gprs
  <2>1. m.x[r] = Meaning(k, m.base) /\ m.x[r] \in SUBSET Low(W)
    BY <1>3, SlotNames, ContentsAre DEF KnownOf, KnownTrue
  <2>. QED
    BY <1>1, <1>3, <2>1, SlotNames DEF Reads
<1>. QED
  BY <1>2, <1>3

\* A MOVZ, MOVN or MOVK of a piece.
LEMMA WideValue ==
  ASSUME NEW m, NEW w \in Instructions, w.op \in MoveOps, NEW v,
         w.op = "movk" => Reads(m, w, w.d) = v \cap Low(Size(w))
  PROVE  /\ w.op = "movz" => Value(m, w) = WideImm(w) \cap Low(Size(w))
         /\ w.op = "movn" => Value(m, w) = (Low(W) \ WideImm(w)) \cap Low(Size(w))
         /\ w.op = "movk" => Value(m, w) = ((v \ WidePiece(w)) \cup WideImm(w)) \cap Low(Size(w))
<1>. PICK s, a, c, old, p : /\ s = Size(w) /\ a = Reads(m, w, w.n) /\ c = Reads(m, w, w.m) /\ old = Reads(m, w, w.d)
                            /\ p = Piece * w.k
  OBVIOUS
<1>1. w.op \notin ShiftOps /\ w.op \notin LogicOps /\ w.op \notin SelectOps /\ w.op \in {"movz", "movn", "movk"}
  BY DEF MoveOps, ShiftOps, LogicOps, SelectOps
<1>2. Value(m, w) = Wide(w, old, Lsl(w.mask, p, s), s)
  <2>1. DataOf(m, w, a, c, old, s) = Wide(w, old, Lsl(w.mask, p, s), s)
    BY <1>1 DEF DataOf
  <2>2. w.op \in PathOps
    BY DEF PathOps
  <2>. QED
    BY <2>1, <2>2, OnDataPath DEF Value, Plainly
<1>3. /\ w.mask \in SUBSET Low(Piece) /\ Piece \in Nat \ {0} /\ w.k \in Nat /\ p \in Nat
      /\ s \in Nat /\ W \in Nat /\ s <= W
  <2>1. w.mask \in SUBSET Low(Piece) /\ w.k \in Nat
    BY InstructionIs DEF Encodable
  <2>. QED
    BY <2>1, AluAssumption, Widths
<1>4. \A q \in SUBSET Low(Piece) : Lsl(q, p, s) = {p + i : i \in q} \cap Low(s)
  <2>. TAKE q \in SUBSET Low(Piece)
  <2>1. ASSUME NEW i \in q PROVE i \in Nat /\ i + p = p + i /\ (i \in Low(s - p) <=> p + i \in Low(s))
    BY <1>3 DEF Low
  <2>. QED
    BY <2>1 DEF Lsl
<1>5. WidePiece(w) = {p + i : i \in Low(Piece)}
  <2>1. ASSUME NEW j \in p .. p + Piece - 1 PROVE j - p \in Low(Piece) /\ j = p + (j - p)
    BY <1>3 DEF Low
  <2>2. ASSUME NEW i \in Low(Piece) PROVE p + i \in p .. p + Piece - 1
    BY <1>3 DEF Low
  <2>. QED
    BY <2>1, <2>2 DEF WidePiece
<1>6. Lsl(w.mask, p, s) = WideImm(w) \cap Low(s) /\ Lsl(Low(Piece), p, s) = WidePiece(w) \cap Low(s)
  BY <1>3, <1>4, <1>5 DEF WideImm
<1>7. \A i : i \in Low(s) => i \in Low(W)
  BY <1>3 DEF Low
<1>. QED
  BY <1>1, <1>2, <1>6, <1>7 DEF Wide

LEMMA BitsReduced ==
  ASSUME NEW s \in 0 .. W, NEW n \in Int
  PROVE  n % Modulus(s) \in Int /\ Bits(n % Modulus(s), s) = Bits(n, s)
<1>1. n % Modulus(s) \in Int
  BY BitsModulo
<1>2. \A z \in Int : Bits((n % Modulus(s)) + z, s) = Bits(n + z, s)
  BY SumModulo
<1>3. (n % Modulus(s)) + 0 = n % Modulus(s) /\ n + 0 = n
  BY <1>1
<1>. QED
  BY <1>1, <1>2, <1>3

LEMMA NumberAdjusted ==
  ASSUME NEW s \in 0 .. W, NEW b \in SUBSET Low(W), NEW u \in SUBSET Low(W), NEW i \in Int
  PROVE  /\ Bits((NatOf[u] % Modulus(s)) + i, s) = Bits(NatOf[u] + i, s)
         /\ Added(Added(b, u, W), Bits(i, W), W) = Added(b, Bits(NatOf[u] + i, W), W)
<1>. PICK q : q = NatOf[u] /\ q \in Int
  BY NumberAdds
<1>1. Bits((q % Modulus(s)) + i, s) = Bits(q + i, s)
  BY SumModulo
<1>2. W \in 0 .. W
  BY Widths
<1>3. u = Bits(q, W)
  BY <1>2, BitsOfNumber
<1>4. Added(Added(b, Bits(q, W), W), Bits(i, W), W) = Added(b, Bits(q + i, W), W)
  BY <1>2, AddedTwice
<1>. QED
  BY <1>1, <1>3, <1>4

\* An addition of a constant to a known one.
LEMMA AdjustedConst ==
  ASSUME NEW m \in Contents, NEW w \in Instructions, w.op = "addi", NEW k \in Constants,
         k.rel => w.sf, Reads(m, w, w.n) = Meaning(k, m.base) \cap Low(Size(w)),
         NEW c, c = [v |-> Bits((NatOf[k.v] + w.k) % 2^W, Size(w)), rel |-> k.rel]
  PROVE  Value(m, w) = Meaning(c, m.base)
<1>. PICK s, u, i : s = Size(w) /\ u = k.v /\ i = w.k
  OBVIOUS
<1>1. s \in 0 .. W /\ s \in Nat /\ W \in 0 .. W /\ i \in Int /\ u \in SUBSET Low(W) /\ m.base \in SUBSET Low(W)
  BY Widths, InstructionIs, ContentsAre DEF Constants
<1>2. Value(m, w) = Added(Meaning(k, m.base) \cap Low(s), Bits(i, s), s)
  BY AdjustValue
<1>3. NatOf[u] \in Nat /\ NatOf[u] + i \in Int
  BY <1>1, NumberAdds
<1>. PICK n : n = NatOf[u] + i
  OBVIOUS
<1>4. 2^W = Modulus(W) /\ c.v = Bits(n % Modulus(W), s) /\ c.rel = k.rel
  BY DEF Modulus
<1>5. Bits(n % Modulus(W), s) = Bits(n, s)
  <2>1. Bits(n % Modulus(W), W) = Bits(n, W)
    BY <1>1, <1>3, BitsReduced
  <2>2. n % Modulus(W) \in Int
    BY <1>1, <1>3, BitsReduced
  <2>3. Bits(n % Modulus(W), W) \cap Low(s) = Bits(n % Modulus(W), s) /\ Bits(n, W) \cap Low(s) = Bits(n, s)
    BY <1>1, <1>3, <2>2, BitsCut
  <2>. QED
    BY <2>1, <2>3
<1>6. CASE ~k.rel
  <2>1. Meaning(k, m.base) = u /\ Meaning(c, m.base) = Bits(n, s)
    BY <1>4, <1>5, <1>6 DEF Meaning
  <2>2. u \cap Low(s) \in SUBSET Low(W) /\ NatOf[u \cap Low(s)] = NatOf[u] % Modulus(s)
    BY <1>1, NumberCut
  <2>3. Added(u \cap Low(s), Bits(i, s), s) = Bits(NatOf[u \cap Low(s)] + i, s)
    BY <1>1, <2>2, AddConstant
  <2>4. Bits((NatOf[u] % Modulus(s)) + i, s) = Bits(n, s)
    BY <1>1, NumberAdjusted
  <2>. QED
    BY <1>2, <2>1, <2>2, <2>3, <2>4
<1>7. CASE k.rel
  <2>1. s = W
    BY <1>7 DEF Size
  <2>2. Meaning(k, m.base) = Added(m.base, u, W) /\ Meaning(c, m.base) = Added(m.base, Bits(n, W), W)
    BY <1>4, <1>5, <1>7, <2>1 DEF Meaning
  <2>3. Added(m.base, u, W) \cap Low(W) = Added(m.base, u, W)
    BY <1>1, SumOfValues
  <2>4. Added(Added(m.base, u, W), Bits(i, W), W) = Added(m.base, Bits(n, W), W)
    BY <1>1, NumberAdjusted
  <2>. QED
    BY <1>2, <2>1, <2>2, <2>3, <2>4
<1>. QED
  BY <1>6, <1>7 DEF Constants

\* A copy of a known constant.
LEMMA CopiedConst ==
  ASSUME NEW m \in Contents, NEW w \in Instructions, w.op = "orr", w.n = R31, w.k = 0
  PROVE  Value(m, w) = Reads(m, w, w.m)
<1>. PICK s, b : s = Size(w) /\ b = Reads(m, w, w.m)
  OBVIOUS
<1>1. b \in SUBSET Low(s) /\ s \in Nat \ {0}
  BY ReadFits
<1>2. w.sh \in ShiftOps /\ w.op \in LogicOps /\ w.op \notin InvertedOps /\ w.op \notin SpSource
  BY InstructionIs DEF LogicOps, InvertedOps, SpSource, ImmArithOps, ExtArithOps
<1>3. ShiftBy(w.sh, b, w.k, s) = b
  BY <1>1, <1>2, ShiftByNothing
<1>4. Reads(m, w, w.n) = {}
  BY <1>2 DEF Reads
<1>5. Value(m, w) = Logical(w, {}, b, s)
  BY <1>2, <1>3, <1>4, OutcomeOfLogic DEF Value, Plainly
<1>. QED
  BY <1>2, <1>5 DEF Logical, Logic

LEMMA OrValue ==
  ASSUME NEW m, NEW w, w.op = "orri"
  PROVE  Value(m, w) = Reads(m, w, w.n) \cup w.mask
<1>1. w.op \in PathOps /\ w.op \notin MoveOps /\ w.op \notin ShiftOps /\ w.op \notin LogicOps /\ w.op \notin SelectOps
  BY DEF PathOps, ImmLogicOps, ShiftOps, MoveOps, LogicOps, SelectOps
<1>2. \A a, c, old, s : DataOf(m, w, a, c, old, s) = a \cup w.mask
  BY <1>1 DEF DataOf
<1>. QED
  BY <1>1, <1>2, OnDataPath DEF Value, Plainly

\* A word whose result lvn_const_value gives computes it.
LEMMA ConstTrue ==
  ASSUME NEW m \in Contents, NEW l, l.known \in [Gprs -> SUBSET Constants], KnownTrue(l, m),
         NEW w \in Instructions, NEW c \in LvnConst(l, w)
  PROVE  Value(m, w) = Meaning(c, m.base)
<1>. PICK s : s = Size(w)
  OBVIOUS
<1>1. ConstBy(l, w, c, s)
  BY ConstCases
<1>2. /\ w.d \in Gprs \cup {R31} /\ w.n \in Gprs \cup {R31} /\ w.m \in Gprs \cup {R31} /\ w.mask \in SUBSET Low(W)
      /\ w.op = "adr" => w.sf
      /\ Encodable(w)
  BY InstructionIs
<1>3. \A r \in Gprs \cup {R31} : (r = R31 => w.op \notin SpSource) => \A k \in KnownOf(l, r) :
        /\ k \in Constants /\ k.v \in SUBSET Low(W)
        /\ Reads(m, w, r) = Meaning(k, m.base) \cap Low(s)
        /\ Meaning(k, m.base) \in SUBSET Low(W)
  BY ZenonT(30), KnownRead
<1>4. CASE w.op = "adr"
  <2>1. w.op \notin SubOps /\ w.op \notin CarryOps /\ w.op \in SumOps /\ s = W
    BY <1>2, <1>4 DEF SubOps, CarryOps, SumOps, Size
  <2>2. Augend(m, w) = m.base /\ \A a : Addend(m, w, a, s) = w.mask
    <3>1. /\ w.op \notin MulOps /\ w.op \notin ImmArithOps \cup CondCmpImmOps /\ w.op \notin ExtArithOps
          /\ w.op \notin ArithOps
      BY <1>4 DEF MulOps, ImmArithOps, CondCmpImmOps, ExtArithOps, ArithOps
    <3>. QED
      BY <1>4, <3>1 DEF Augend, Addend
  <2>3. Value(m, w) = Added(m.base, w.mask, W)
    <3>1. Sum(m, w, s) = AddWithCarry(m.base, w.mask, FALSE, s)
      BY <2>1, <2>2, SumCombines DEF Totalled, Summed
    <3>2. Value(m, w) = Sum(m, w, s).v
      BY <2>1, OnAdder DEF Value
    <3>. QED
      BY <2>1, <3>1, <3>2 DEF Added
  <2>4. c = [v |-> w.mask, rel |-> TRUE]
    BY <1>1, <1>4 DEF ConstBy
  <2>. QED
    BY <2>3, <2>4 DEF Meaning
<1>5. CASE w.op \in {"movz", "movn"}
  <2>1. w.op \in MoveOps /\ w.op # "movk"
    BY <1>5 DEF MoveOps
  <2>2. c = Plainer(IF w.op = "movz" THEN WideImm(w) ELSE Low(W) \ WideImm(w), s)
    BY <1>1, <1>5 DEF ConstBy
  <2>3. Value(m, w) = (IF w.op = "movz" THEN WideImm(w) ELSE Low(W) \ WideImm(w)) \cap Low(s)
    BY <1>5, <2>1, WideValue
  <2>. QED
    BY <2>2, <2>3 DEF Meaning, Plainer
<1>6. CASE w.op = "movk"
  <2>. PICK k \in KnownOf(l, w.d) : ~k.rel /\ c = Plainer((k.v \ WidePiece(w)) \cup WideImm(w), s)
    BY <1>1, <1>6 DEF ConstBy
  <2>1. w.op \in MoveOps /\ w.op \notin SpSource
    BY <1>6 DEF MoveOps, SpSource, ImmArithOps, ExtArithOps
  <2>2. Reads(m, w, w.d) = k.v \cap Low(Size(w))
    BY <1>2, <1>3, <2>1 DEF Meaning
  <2>3. Value(m, w) = ((k.v \ WidePiece(w)) \cup WideImm(w)) \cap Low(s)
    BY <1>6, <2>1, <2>2, WideValue
  <2>. QED
    BY <2>3 DEF Meaning, Plainer
<1>7. CASE w.op \in {"andi", "orri", "eori"}
  <2>. DEFINE Masks(v) == CASE w.op = "andi" -> v \cap w.mask [] w.op = "orri" -> v \cup w.mask
                            [] w.op = "eori" -> SymDiff(v, w.mask)
  <2>. PICK k \in KnownOf(l, w.n) : ~k.rel /\ c = Plainer(Masks(k.v), s)
    BY <1>1, <1>7 DEF ConstBy
  <2>1. w.op \notin SpSource /\ w.op \in ImmLogicOps
    BY <1>7 DEF SpSource, ImmArithOps, ExtArithOps, ImmLogicOps
  <2>2. Reads(m, w, w.n) = k.v \cap Low(s)
    BY <1>2, <1>3, <2>1 DEF Meaning
  <2>3. w.mask \in SUBSET Low(s)
    BY <1>2, <2>1, BitmaskFits
  <2>4. Value(m, w) = Masks(k.v \cap Low(s))
    BY <1>7, <2>2, MaskValue, OrValue
  <2>5. Masks(k.v \cap Low(s)) = Masks(k.v) \cap Low(s)
    BY <1>7, <2>3 DEF SymDiff
  <2>. QED
    BY <2>4, <2>5 DEF Meaning, Plainer
<1>8. CASE w.op = "addi"
  <2>. PICK k \in KnownOf(l, w.n) : /\ w.n # R31 /\ (k.rel => w.sf)
                                    /\ c = [v |-> Bits((NatOf[k.v] + w.k) % 2^W, s), rel |-> k.rel]
    BY <1>1, <1>8 DEF ConstBy
  <2>1. k \in Constants /\ Reads(m, w, w.n) = Meaning(k, m.base) \cap Low(Size(w))
    BY <1>2, <1>3
  <2>. QED
    BY <1>8, <2>1, AdjustedConst
<1>9. CASE w.op = "orr"
  <2>. PICK k \in KnownOf(l, w.m) : /\ w.n = R31 /\ w.k = 0 /\ (k.rel => w.sf)
                                    /\ c = [v |-> k.v \cap Low(s), rel |-> k.rel]
    BY <1>1, <1>9 DEF ConstBy
  <2>1. w.op \notin SpSource
    BY <1>9 DEF SpSource, ImmArithOps, ExtArithOps
  <2>2. /\ Reads(m, w, w.m) = Meaning(k, m.base) \cap Low(s) /\ Meaning(k, m.base) \in SUBSET Low(W)
        /\ k.v \in SUBSET Low(W) /\ k \in Constants
    BY <1>2, <1>3, <2>1
  <2>3. Value(m, w) = Meaning(k, m.base) \cap Low(s)
    BY <1>9, <2>2, CopiedConst
  <2>4. k.rel => s = W
    BY DEF Size
  <2>5. k.rel => k.v \cap Low(s) = k.v /\ Meaning(k, m.base) \cap Low(s) = Meaning(k, m.base)
    BY <2>2, <2>4
  <2>. QED
    BY <2>2, <2>3, <2>5 DEF Meaning, Constants
<1>. QED
  BY <1>1, <1>4, <1>5, <1>6, <1>7, <1>8, <1>9 DEF ConstBy

-----------------------------------------------------------------------------
(* What a word reads, and what its key tells.                              *)

SlotValue(m, s) == IF s = "zr" THEN {} ELSE Holding(m, s)
Sources == Slots \cup {"zr"}

LEMMA RegisterSlots ==
  ASSUME NEW r \in Gprs \cup {R31}
  PROVE  /\ ZrOr(r) \in Sources /\ SpOr(r) \in Slots
         /\ \A m, w : w.op \notin SpSource => Reads(m, w, r) = SlotValue(m, ZrOr(r)) \cap Low(Size(w))
         /\ \A m, w : w.op \in SpSource => Reads(m, w, r) = SlotValue(m, SpOr(r)) \cap Low(Size(w))
         /\ \A m, w : r # R31 => Reads(m, w, r) = SlotValue(m, ZrOr(r)) \cap Low(Size(w))
<1>1. CASE r = R31
  BY <1>1, SlotNames, HoldingIs DEF ZrOr, SpOr, Sources, Slots, Reads, SlotValue
<1>2. CASE r \in Gprs
  BY <1>2, SlotNames, HoldingIs DEF ZrOr, SpOr, Sources, Slots, Reads, SlotValue
<1>. QED
  BY <1>1, <1>2

FirstSource(w) == IF w.op \in SpSource THEN SpOr(w.n) ELSE ZrOr(w.n)

\* What decode_lvn_op lists, by operation.
LEMMA SourcesListed ==
  ASSUME NEW w, w.op \in ComputeOps \ {"mov"}
  PROVE  \/ w.op \in {"adr", "movz", "movn"} /\ LvnIn(w) = <<>>
         \/ w.op = "movk" /\ LvnIn(w) = <<ZrOr(w.d)>>
         \/ w.op \in {"bfi", "bfxil"} /\ LvnIn(w) = <<ZrOr(w.n), ZrOr(w.d)>>
         \/ w.op = "ror" /\ LvnIn(w) = <<ZrOr(w.n), ZrOr(w.n)>>
         \/ w.op \in MulOps /\ LvnIn(w) = <<ZrOr(w.n), ZrOr(w.m), ZrOr(w.a)>>
         \/ w.op \in ExtArithOps /\ LvnIn(w) = <<SpOr(w.n), ZrOr(w.m)>>
         \/ w.op \in TwoRegisters \ (ExtArithOps \cup MulOps) /\ LvnIn(w) = <<ZrOr(w.n), ZrOr(w.m)>>
         \/ w.op \in ImmArithOps /\ LvnIn(w) = <<SpOr(w.n)>>
         \/ /\ w.op \notin Immediates \cup TwoRegisters \cup MulOps \cup SpSource \cup {"bfi", "bfxil"}
            /\ LvnIn(w) = <<ZrOr(w.n)>>
<1>. DEFINE Fixed == {"adr", "movz", "movn", "movk", "ror", "bfi", "bfxil"}
            Two   == TwoRegisters \ (ExtArithOps \cup MulOps)
<1>1. /\ w.op \in ImmArithOps => w.op \notin Fixed
      /\ w.op \in TwoRegisters => w.op \notin Fixed /\ w.op \notin ImmArithOps
      /\ w.op \in ExtArithOps => w.op \in TwoRegisters /\ w.op \notin MulOps
      /\ w.op \in MulOps => w.op \in TwoRegisters
  BY DEF ImmArithOps, ExtArithOps, MulOps, TwoRegisters, ArithOps, LogicOps, SelectOps, HighOps, TwoSourceOps, CarryOps
<1>2. CASE w.op \in Fixed
  <2>1. /\ w.op \in {"adr", "movz", "movn"} => LvnIn(w) = <<>>
        /\ w.op = "movk" => LvnIn(w) = <<ZrOr(w.d)>>
        /\ w.op \in {"bfi", "bfxil"} => LvnIn(w) = <<ZrOr(w.n), ZrOr(w.d)>>
        /\ w.op = "ror" => LvnIn(w) = <<ZrOr(w.n), ZrOr(w.n)>>
    BY <1>1, <1>2 DEF LvnIn
  <2>. QED
    BY <1>2, <2>1
<1>3. CASE w.op \in ImmArithOps
  <2>1. LvnIn(w) = <<SpOr(w.n)>>
    BY <1>1, <1>3 DEF LvnIn
  <2>. QED
    BY <1>3, <2>1
<1>4. CASE w.op \in ExtArithOps
  <2>1. LvnIn(w) = <<SpOr(w.n), ZrOr(w.m)>>
    BY <1>1, <1>4 DEF LvnIn
  <2>. QED
    BY <1>4, <2>1
<1>5. CASE w.op \in MulOps
  <2>1. LvnIn(w) = <<ZrOr(w.n), ZrOr(w.m), ZrOr(w.a)>>
    BY <1>1, <1>5 DEF LvnIn
  <2>. QED
    BY <1>5, <2>1
<1>6. CASE w.op \in Two
  <2>1. LvnIn(w) = <<ZrOr(w.n), ZrOr(w.m)>>
    BY <1>1, <1>6 DEF LvnIn
  <2>. QED
    BY <1>6, <2>1
<1>7. CASE w.op \notin TwoRegisters /\ w.op \notin ImmArithOps /\ w.op \notin Fixed
  <2>1. w.op \notin ExtArithOps /\ w.op \notin MulOps /\ w.op \notin Immediates
    BY <1>1, <1>7 DEF Immediates, MoveOps
  <2>2. LvnIn(w) = <<ZrOr(w.n)>>
    BY <1>7, <2>1 DEF LvnIn
  <2>. QED
    BY <1>7, <2>1, <2>2 DEF SpSource
<1>. HIDE DEF Fixed, Two
<1>8. w.op \in Fixed \/ w.op \in ImmArithOps \/ w.op \in ExtArithOps \/ w.op \in MulOps \/ w.op \in Two
      \/ (w.op \notin TwoRegisters /\ w.op \notin ImmArithOps /\ w.op \notin Fixed)
  BY DEF Two
<1>. QED
  BY <1>2, <1>3, <1>4, <1>5, <1>6, <1>7, <1>8

LEMMA SourcesOf ==
  ASSUME NEW w \in Instructions, w.op \in ComputeOps
  PROVE  /\ LvnIn(w) \in Seq(Sources) /\ Len(LvnIn(w)) \in Nat /\ DOMAIN LvnIn(w) = 1 .. Len(LvnIn(w))
         /\ w.op \notin Immediates => 1 \in DOMAIN LvnIn(w) /\ LvnIn(w)[1] = FirstSource(w)
         /\ w.op \in TwoRegisters => 2 \in DOMAIN LvnIn(w) /\ LvnIn(w)[2] = ZrOr(w.m)
         /\ w.op \in MulOps => 3 \in DOMAIN LvnIn(w) /\ LvnIn(w)[3] = ZrOr(w.a)
         /\ w.op \in {"bfi", "bfxil"} => 2 \in DOMAIN LvnIn(w) /\ LvnIn(w)[2] = ZrOr(w.d)
         /\ w.op = "movk" => 1 \in DOMAIN LvnIn(w) /\ LvnIn(w)[1] = ZrOr(w.d)
<1>1. /\ w.op \in ComputeOps \ {"mov"}
      /\ ZrOr(w.d) \in Sources /\ ZrOr(w.n) \in Sources /\ ZrOr(w.m) \in Sources /\ ZrOr(w.a) \in Sources
      /\ SpOr(w.n) \in Sources
  <2>1. w.op # "mov"
    BY InstructionIs DEF MemoryOps, Conditionals, Terminal, CompareBranches, CbOps
  <2>. QED
    BY <2>1, InstructionIs, RegisterSlots DEF Sources
<1>2. CASE w.op \in {"adr", "movz", "movn"} /\ LvnIn(w) = <<>>
  BY <1>2 DEF Immediates, TwoRegisters, MoveOps, MulOps, ArithOps, ExtArithOps, LogicOps, SelectOps, HighOps, TwoSourceOps,
     CarryOps
<1>3. CASE w.op = "movk" /\ LvnIn(w) = <<ZrOr(w.d)>>
  BY <1>1, <1>3 DEF Immediates, TwoRegisters, MoveOps, MulOps, ArithOps, ExtArithOps, LogicOps, SelectOps, HighOps,
     TwoSourceOps, CarryOps
<1>4. CASE w.op \in {"bfi", "bfxil"} /\ LvnIn(w) = <<ZrOr(w.n), ZrOr(w.d)>>
  BY <1>1, <1>4 DEF TwoRegisters, MoveOps, MulOps, ArithOps, ExtArithOps, LogicOps, SelectOps, HighOps,
     TwoSourceOps, CarryOps, FirstSource, SpSource, ImmArithOps
<1>5. CASE w.op = "ror" /\ LvnIn(w) = <<ZrOr(w.n), ZrOr(w.n)>>
  BY <1>1, <1>5 DEF TwoRegisters, MoveOps, MulOps, ArithOps, ExtArithOps, LogicOps, SelectOps, HighOps,
     TwoSourceOps, CarryOps, FirstSource, SpSource, ImmArithOps
<1>6. CASE w.op \in MulOps /\ LvnIn(w) = <<ZrOr(w.n), ZrOr(w.m), ZrOr(w.a)>>
  BY <1>1, <1>6 DEF MulOps, FirstSource, SpSource, ImmArithOps, ExtArithOps
<1>7. CASE w.op \in ExtArithOps /\ LvnIn(w) = <<SpOr(w.n), ZrOr(w.m)>>
  BY <1>1, <1>7 DEF ExtArithOps, MulOps, FirstSource, SpSource
<1>8. CASE w.op \in TwoRegisters \ (ExtArithOps \cup MulOps) /\ LvnIn(w) = <<ZrOr(w.n), ZrOr(w.m)>>
  <2>1. w.op \notin {"bfi", "bfxil", "movk"} /\ w.op \notin SpSource
    BY <1>8 DEF ImmArithOps, TwoRegisters, ArithOps, LogicOps, SelectOps, HighOps, TwoSourceOps, CarryOps, SpSource
  <2>. QED
    BY <1>1, <1>8, <2>1 DEF FirstSource
<1>9. CASE w.op \in ImmArithOps /\ LvnIn(w) = <<SpOr(w.n)>>
  BY <1>1, <1>9 DEF ImmArithOps, TwoRegisters, MoveOps, MulOps, ArithOps, ExtArithOps, LogicOps, SelectOps, HighOps,
     TwoSourceOps, CarryOps, FirstSource, SpSource
<1>10. CASE /\ w.op \notin Immediates \cup TwoRegisters \cup MulOps \cup SpSource \cup {"bfi", "bfxil"}
            /\ LvnIn(w) = <<ZrOr(w.n)>>
  BY <1>1, <1>10 DEF FirstSource, Immediates, MoveOps
<1>. QED
  BY <1>1, <1>2, <1>3, <1>4, <1>5, <1>6, <1>7, <1>8, <1>9, <1>10, SourcesListed

-----------------------------------------------------------------------------
(* Keys.                                                                   *)

\* A word and a machine that find under a key what it lists, the numbers
\* standing for the values val gives them.
Fitting(m, w, key, val) ==
  /\ m \in Contents /\ w \in Instructions /\ w.op \in ComputeOps \ {"adr"}
  /\ key.word = KeyWord(w)
  /\ \A i \in DOMAIN LvnIn(w) : i \in DOMAIN key.in /\ val[key.in[i]] = SlotValue(m, LvnIn(w)[i])
  /\ ReadsFlags(w) => /\ Len(LvnIn(w)) + 1 \in DOMAIN key.in
                      /\ val[key.in[Len(LvnIn(w)) + 1]] = m.flags

LEMMA FlagsPosition ==
  ASSUME NEW w, ReadsFlags(w), w.op \in ComputeOps \ {"mov"}
  PROVE  Len(LvnIn(w)) = IF w.op \in CondCmpImmOps THEN 1 ELSE 2
<1>. DEFINE Fixed == {"adr", "movz", "movn", "movk", "ror", "bfi", "bfxil"}
<1>1. w.op \in SelectOps \cup CarryOps \cup CondCmpOps
  BY DEF ReadsFlags
<1>2. /\ w.op \notin Fixed /\ w.op \notin ImmArithOps /\ w.op \notin ExtArithOps /\ w.op \notin MulOps
      /\ w.op \notin CondCmpImmOps <=> w.op \in TwoRegisters
  BY <1>1 DEF SelectOps, CarryOps, CondCmpOps, CondCmpImmOps, ImmArithOps, ExtArithOps, MulOps, TwoRegisters, ArithOps,
     LogicOps, HighOps, TwoSourceOps
<1>3. CASE w.op \in CondCmpImmOps
  <2>1. LvnIn(w) = <<ZrOr(w.n)>>
    BY <1>2, <1>3 DEF LvnIn
  <2>. QED
    BY <1>3, <2>1
<1>4. CASE w.op \notin CondCmpImmOps
  <2>1. LvnIn(w) = <<ZrOr(w.n), ZrOr(w.m)>>
    BY <1>2, <1>4 DEF LvnIn
  <2>. QED
    BY <1>4, <2>1
<1>. QED
  BY <1>3, <1>4

LEMMA KeyWords ==
  ASSUME NEW v \in Instructions, NEW w \in Instructions, KeyWord(v) = KeyWord(w)
  PROVE  AlikeWords(v, w) /\ Size(v) = Size(w)
<1>1. \A f \in {"op", "sf", "sh", "k", "wd", "mask", "cond"} : v[f] = w[f]
  <2>1. \A u \in Instructions : KeyWord(u).op = u.op /\ KeyWord(u).sf = u.sf /\ KeyWord(u).sh = u.sh
                                /\ KeyWord(u).k = u.k /\ KeyWord(u).wd = u.wd /\ KeyWord(u).mask = u.mask
                                /\ KeyWord(u).cond = u.cond
    BY DEF KeyWord, Instructions
  <2>. QED
    BY <2>1
<1>. QED
  BY <1>1 DEF AlikeWords, Size

\* The first source and the others, as the word reads them.
LEMMA SourcesRead ==
  ASSUME NEW m, NEW w \in Instructions
  PROVE  /\ Reads(m, w, w.n) = SlotValue(m, FirstSource(w)) \cap Low(Size(w))
         /\ Second(m, w) = SlotValue(m, ZrOr(w.m)) \cap Low(Size(w))
         /\ w.op \notin SpSource => Reads(m, w, w.a) = SlotValue(m, ZrOr(w.a)) \cap Low(Size(w))
         /\ w.op \notin SpSource => Reads(m, w, w.d) = SlotValue(m, ZrOr(w.d)) \cap Low(Size(w))
<1>1. w.d \in Gprs \cup {R31} /\ w.n \in Gprs \cup {R31} /\ w.m \in Gprs \cup {R31} /\ w.a \in Gprs \cup {R31}
  BY InstructionIs
<1>2. \A r \in Gprs \cup {R31} :
        /\ w.op \notin SpSource => Reads(m, w, r) = SlotValue(m, ZrOr(r)) \cap Low(Size(w))
        /\ w.op \in SpSource => Reads(m, w, r) = SlotValue(m, SpOr(r)) \cap Low(Size(w))
        /\ r # R31 => Reads(m, w, r) = SlotValue(m, ZrOr(r)) \cap Low(Size(w))
  BY RegisterSlots
<1>3. w.m = R31 => SlotValue(m, ZrOr(w.m)) = {}
  BY DEF SlotValue, ZrOr
<1>. QED
  BY <1>1, <1>2, <1>3 DEF FirstSource, Second

\* Whatever fits a key computes the same.
LEMMA KeyDetermines ==
  ASSUME NEW key, NEW val, NEW m, NEW v, NEW n, NEW w, Fitting(m, v, key, val), Fitting(n, w, key, val)
  PROVE  Value(m, v) = Value(n, w) /\ Outcome(m, v, Size(v)).flags = Outcome(n, w, Size(w)).flags
<1>1. v \in Instructions /\ w \in Instructions /\ v.op \in ComputeOps /\ v.op # "adr" /\ w.op \in ComputeOps
  BY DEF Fitting
<1>2. AlikeWords(v, w) /\ Size(v) = Size(w) /\ v.op = w.op
  <2>1. KeyWord(v) = KeyWord(w)
    BY DEF Fitting
  <2>. QED
    BY <1>1, <2>1, KeyWords DEF AlikeWords
<1>3. \A i \in DOMAIN LvnIn(v) : i \in DOMAIN LvnIn(w) =>
        SlotValue(m, LvnIn(v)[i]) = SlotValue(n, LvnIn(w)[i])
  BY DEF Fitting
<1>4. v.op \notin Immediates => Reads(m, v, v.n) = Reads(n, w, w.n)
  <2>. SUFFICES ASSUME v.op \notin Immediates PROVE Reads(m, v, v.n) = Reads(n, w, w.n)
    OBVIOUS
  <2>1. SlotValue(m, FirstSource(v)) = SlotValue(n, FirstSource(w))
    BY <1>1, <1>2, <1>3, SourcesOf
  <2>. QED
    BY <1>1, <1>2, <2>1, SourcesRead
<1>5. v.op \in TwoRegisters => Second(m, v) = Second(n, w)
  <2>. SUFFICES ASSUME v.op \in TwoRegisters PROVE Second(m, v) = Second(n, w)
    OBVIOUS
  <2>1. SlotValue(m, ZrOr(v.m)) = SlotValue(n, ZrOr(w.m))
    BY <1>1, <1>2, <1>3, SourcesOf
  <2>. QED
    BY ZenonT(30), <1>1, <1>2, <2>1, SourcesRead
<1>6. v.op \in MulOps => Reads(m, v, v.a) = Reads(n, w, w.a)
  <2>. SUFFICES ASSUME v.op \in MulOps PROVE Reads(m, v, v.a) = Reads(n, w, w.a)
    OBVIOUS
  <2>1. SlotValue(m, ZrOr(v.a)) = SlotValue(n, ZrOr(w.a))
    BY <1>1, <1>2, <1>3, SourcesOf
  <2>2. v.op \notin SpSource
    BY DEF MulOps, SpSource, ImmArithOps, ExtArithOps
  <2>. QED
    BY ZenonT(30), <1>1, <1>2, <2>1, <2>2, SourcesRead
<1>7. v.op \in {"bfi", "bfxil", "movk"} => Reads(m, v, v.d) = Reads(n, w, w.d)
  <2>. SUFFICES ASSUME v.op \in {"bfi", "bfxil", "movk"} PROVE Reads(m, v, v.d) = Reads(n, w, w.d)
    OBVIOUS
  <2>1. SlotValue(m, ZrOr(v.d)) = SlotValue(n, ZrOr(w.d))
    <3>1. CASE v.op = "movk"
      BY <1>1, <1>2, <1>3, <3>1, SourcesOf
    <3>2. CASE v.op \in {"bfi", "bfxil"}
      BY <1>1, <1>2, <1>3, <3>2, SourcesOf
    <3>. QED
      BY <3>1, <3>2
  <2>2. v.op \notin SpSource
    BY DEF SpSource, ImmArithOps, ExtArithOps
  <2>. QED
    BY ZenonT(30), <1>1, <1>2, <2>1, <2>2, SourcesRead
<1>8. v.op \in SelectOps \cup CarryOps \cup CondCmpOps => m.flags = n.flags
  <2>. SUFFICES ASSUME v.op \in SelectOps \cup CarryOps \cup CondCmpOps PROVE m.flags = n.flags
    OBVIOUS
  <2>1. ReadsFlags(v) /\ ReadsFlags(w) /\ v.op # "mov"
    BY <1>2 DEF ReadsFlags, SelectOps, CarryOps, CondCmpOps, CondCmpImmOps
  <2>2. Len(LvnIn(v)) = Len(LvnIn(w))
    BY <1>1, <1>2, <2>1, FlagsPosition
  <2>. QED
    BY <2>1, <2>2 DEF Fitting
<1>9. Outcome(m, v, Size(v)) = Outcome(n, w, Size(v))
  <2>1. SameInputs(m, v, n, w)
    BY <1>1, <1>2, <1>4, <1>5, <1>6, <1>7, <1>8 DEF SameInputs
  <2>. QED
    BY <1>1, <2>1, SameComputation
<1>. QED
  BY <1>2, <1>9 DEF Value

\* What the table says of a number u under a key, the numbers standing for
\* val.
Meant(key, u, val, base) ==
  /\ key.kind = "const"  => u = key.v
  /\ key.kind = "rel"    => u = Added(base, key.v, W)
  /\ key.kind = "result" => \A m, w : Fitting(m, w, key, val) => u = Value(m, w)
  /\ key.kind = "flags"  => \A m, w : Fitting(m, w, key, val) => u = Outcome(m, w, Size(w)).flags

\* The numbers a key lists are below n.
KeyOver(key, n) == \A i \in DOMAIN key.in : key.in[i] \in 1 .. n

Sane(l) ==
  /\ {"vn", "known", "next", "table"} \subseteq DOMAIN l
  /\ l.next \in Nat
  /\ l.vn \in [Slots -> 1 .. l.next]
  /\ l.known \in [Gprs -> SUBSET Constants]
  /\ \A e \in l.table : e.vn \in 1 .. l.next /\ KeyOver(e.key, l.next)

\* The numbers stand for what a machine holds, and the table is right.
Knows(l, m, val) ==
  /\ \A s \in Slots : val[l.vn[s]] = Holding(m, s)
  /\ \A e \in l.table : Meant(e.key, val[e.vn], val, m.base)

Agree(val, u, n) == \A i \in 1 .. n : u[i] = val[i]

LEMMA MeantSame ==
  ASSUME NEW key, NEW n, KeyOver(key, n), NEW val, NEW val2, Agree(val, val2, n), NEW u, NEW base,
         Meant(key, u, val, base)
  PROVE  Meant(key, u, val2, base)
<1>1. \A i \in DOMAIN key.in : val2[key.in[i]] = val[key.in[i]]
  BY DEF KeyOver, Agree
<1>2. \A m, w : Fitting(m, w, key, val2) => Fitting(m, w, key, val)
  BY <1>1 DEF Fitting
<1>. QED
  BY <1>2 DEF Meant

LEMMA KeyAbove ==
  ASSUME NEW key, NEW n \in Nat, NEW k \in Nat, n <= k, KeyOver(key, n)
  PROVE  KeyOver(key, k)
BY DEF KeyOver

\* A number is given to a key, once.
LEMMA NumberedSane ==
  ASSUME NEW l, Sane(l), NEW key, KeyOver(key, l.next)
  PROVE  LET k == Numbered(l, key)
         IN  /\ Sane(k) /\ k.next \in Nat /\ l.next <= k.next /\ k.vn = l.vn /\ k.known = l.known
             /\ l.table \subseteq k.table /\ \E e \in k.table : e.key = key
<1>1. CASE \E e \in l.table : e.key = key
  BY <1>1 DEF Numbered, Sane
<1>2. CASE ~ \E e \in l.table : e.key = key
  <2>. DEFINE e == [key |-> key, vn |-> l.next + 1]
              k == [l EXCEPT !.next = l.next + 1, !.table = l.table \cup {e}]
  <2>1. Numbered(l, key) = k
    BY <1>2 DEF Numbered
  <2>2. /\ k.next = l.next + 1 /\ k.table = l.table \cup {e} /\ k.vn = l.vn /\ k.known = l.known
        /\ DOMAIN k = DOMAIN l
    BY DEF Sane
  <2>3. e.key = key /\ e.vn = l.next + 1
    OBVIOUS
  <2>. HIDE DEF e, k
  <2>4. l.next \in Nat /\ k.next \in Nat /\ l.next <= k.next /\ l.next + 1 \in 1 .. k.next
    BY <2>2 DEF Sane
  <2>5. \A f \in l.table : KeyOver(f.key, k.next) /\ f.vn \in 1 .. k.next
    BY <2>4, KeyAbove DEF Sane
  <2>6. KeyOver(key, k.next)
    BY <2>4, KeyAbove
  <2>7. k.vn \in [Slots -> 1 .. k.next]
    <3>1. 1 .. l.next \subseteq 1 .. k.next
      BY <2>4
    <3>2. l.vn \in [Slots -> 1 .. l.next]
      BY DEF Sane
    <3>. QED
      BY <2>2, <3>1, <3>2
  <2>8. Sane(k)
    BY <2>2, <2>3, <2>4, <2>5, <2>6, <2>7 DEF Sane
  <2>. QED
    BY <2>1, <2>2, <2>3, <2>4, <2>8
<1>. QED
  BY <1>1, <1>2

LEMMA NumberOfIs ==
  ASSUME NEW l, NEW key, \E e \in l.table : e.key = key
  PROVE  \E e \in l.table : e.key = key /\ e.vn = NumberOf(l, key)
<1>. DEFINE f == CHOOSE e \in l.table : e.key = key
<1>1. f \in l.table /\ f.key = key
  OBVIOUS
<1>. QED
  BY <1>1 DEF NumberOf

\* The numbers of a region that a key is added to.
LEMMA NumberedKnows ==
  ASSUME NEW l, Sane(l), NEW m, NEW val, Knows(l, m, val), NEW key, KeyOver(key, l.next),
         NEW u, Meant(key, u, val, m.base)
  PROVE  \E val2 : Agree(val, val2, l.next) /\ Knows(Numbered(l, key), m, val2)
<1>1. CASE \E e \in l.table : e.key = key
  BY <1>1 DEF Numbered, Agree
<1>2. CASE ~ \E e \in l.table : e.key = key
  <2>. DEFINE e == [key |-> key, vn |-> l.next + 1]
              k == [l EXCEPT !.next = l.next + 1, !.table = l.table \cup {e}]
              val2 == [n \in Nat |-> IF n = l.next + 1 THEN u ELSE val[n]]
  <2>1. Numbered(l, key) = k
    BY <1>2 DEF Numbered
  <2>2. k.table = l.table \cup {e} /\ k.vn = l.vn
    BY DEF Sane
  <2>3. e.key = key /\ e.vn = l.next + 1
    OBVIOUS
  <2>4. l.next \in Nat /\ l.next + 1 \in Nat
    BY DEF Sane
  <2>5. \A n \in 1 .. l.next : n \in Nat /\ n # l.next + 1
    BY <2>4
  <2>6. Agree(val, val2, l.next) /\ val2[l.next + 1] = u
    BY <2>4, <2>5 DEF Agree
  <2>. HIDE DEF e, k, val2
  <2>7. \A s \in Slots : val2[k.vn[s]] = Holding(m, s)
    <3>1. \A s \in Slots : l.vn[s] \in 1 .. l.next
      BY DEF Sane
    <3>. QED
      BY <2>2, <2>6, <3>1 DEF Knows, Agree
  <2>8. \A f \in l.table : Meant(f.key, val2[f.vn], val2, m.base)
    <3>. TAKE f \in l.table
    <3>1. f.vn \in 1 .. l.next /\ KeyOver(f.key, l.next)
      BY DEF Sane
    <3>2. Meant(f.key, val[f.vn], val, m.base) /\ val2[f.vn] = val[f.vn]
      BY <2>6, <3>1 DEF Knows, Agree
    <3>. QED
      BY <2>6, <3>1, <3>2, MeantSame
  <2>9. Meant(key, val2[l.next + 1], val2, m.base)
    BY <2>6, MeantSame
  <2>10. Knows(k, m, val2)
    BY <2>2, <2>3, <2>7, <2>8, <2>9 DEF Knows
  <2>. QED
    BY <2>1, <2>6, <2>10
<1>. QED
  BY <1>1, <1>2

LEMMA AgreeThrough ==
  ASSUME NEW v1, NEW v2, NEW v3, NEW n \in Nat, NEW k \in Nat, n <= k, Agree(v1, v2, n), Agree(v2, v3, k)
  PROVE  Agree(v1, v3, n)
<1>1. \A i \in 1 .. n : i \in 1 .. k
  OBVIOUS
<1>. QED
  BY <1>1 DEF Agree

-----------------------------------------------------------------------------
(* What a pure word is numbered.                                           *)

Grown(l, k) ==
  /\ Sane(k) /\ k.next \in Nat /\ l.next <= k.next /\ k.vn = l.vn /\ k.known = l.known

Formed(l, w, c) ==
  /\ Grown(l, c.lv)
  /\ c.result \in 1 .. c.lv.next
  /\ SetsFlags(w) => c.flags \in 1 .. c.lv.next
  /\ c.known \subseteq Constants

\* The numbers stand for what the word computes.
Right(l, m, w, c, val) ==
  /\ \A k \in c.known : Value(m, w) = Meaning(k, m.base)
  /\ \E val2 : /\ Agree(val, val2, l.next) /\ Knows(c.lv, m, val2)
               /\ val2[c.result] = Value(m, w)
               /\ SetsFlags(w) => val2[c.flags] = Outcome(m, w, Size(w)).flags

LEMMA GrownThrough ==
  ASSUME NEW l, NEW k, NEW j, l.next \in Nat, Grown(l, k), Grown(k, j)
  PROVE  Grown(l, j)
BY DEF Grown

LEMMA NumberIn ==
  ASSUME NEW l, Sane(l), NEW key, \E e \in l.table : e.key = key
  PROVE  NumberOf(l, key) \in 1 .. l.next
BY NumberOfIs DEF Sane

LEMMA NumberMeans ==
  ASSUME NEW l, NEW m, NEW val, Knows(l, m, val), NEW key, \E e \in l.table : e.key = key
  PROVE  Meant(key, val[NumberOf(l, key)], val, m.base)
BY NumberOfIs DEF Knows

LEMMA ConstKeyIs ==
  ASSUME NEW c \in Constants
  PROVE  /\ \A n : KeyOver(ConstKey(c), n)
         /\ \A u, val, base : Meant(ConstKey(c), u, val, base) <=> u = Meaning(c, base)
<1>1. ConstKey(c).in = <<>> /\ ConstKey(c).v = c.v /\ ConstKey(c).kind = IF c.rel THEN "rel" ELSE "const"
  BY DEF ConstKey, Key
<1>. QED
  BY <1>1 DEF KeyOver, Meant, Meaning

\* A constant is numbered by its value.
LEMMA ConstNumbered ==
  ASSUME NEW l, Sane(l), NEW w \in Instructions, LvnConst(l, w) # {},
         NEW c, c = ByConst(l, LvnConst(l, w), ConstKey(CHOOSE x \in LvnConst(l, w) : TRUE))
  PROVE  /\ Formed(l, w, c)
         /\ \A m \in Contents : \A val : KnownTrue(l, m) /\ Knows(l, m, val) => Right(l, m, w, c, val)
<1>. PICK x \in LvnConst(l, w) : x = CHOOSE y \in LvnConst(l, w) : TRUE
  OBVIOUS
<1>1. l.known \in [Gprs -> SUBSET Constants]
  BY DEF Sane
<1>2. LvnConst(l, w) \subseteq Constants /\ x \in Constants /\ ~SetsFlags(w)
  BY <1>1, ConstTyped, ConstCases
<1>. PICK key, k : key = ConstKey(x) /\ k = Numbered(l, key)
  OBVIOUS
<1>3. c.lv = k /\ c.result = NumberOf(k, key) /\ c.known = LvnConst(l, w)
  BY DEF ByConst
<1>4. KeyOver(key, l.next)
  BY <1>2, ConstKeyIs
<1>5. Grown(l, k) /\ \E e \in k.table : e.key = key
  BY <1>4, NumberedSane DEF Grown
<1>6. Formed(l, w, c)
  BY <1>2, <1>3, <1>5, NumberIn DEF Formed, Grown
<1>7. ASSUME NEW m \in Contents, NEW val, KnownTrue(l, m), Knows(l, m, val)
      PROVE  Right(l, m, w, c, val)
  <2>1. \A y \in LvnConst(l, w) : Value(m, w) = Meaning(y, m.base)
    BY <1>1, <1>7, ConstTrue
  <2>2. Meant(key, Value(m, w), val, m.base)
    BY <1>2, <2>1, ConstKeyIs
  <2>. PICK val2 : Agree(val, val2, l.next) /\ Knows(k, m, val2)
    BY <1>4, <1>7, <2>2, NumberedKnows
  <2>3. Meant(key, val2[NumberOf(k, key)], val2, m.base)
    BY <1>5, NumberMeans
  <2>4. val2[NumberOf(k, key)] = Meaning(x, m.base)
    BY <1>2, <2>3, ConstKeyIs
  <2>. QED
    BY <1>2, <1>3, <2>1, <2>4 DEF Right
<1>. QED
  BY <1>6, <1>7

\* A copy takes its source's number.
LEMMA CopySource ==
  ASSUME NEW w \in Instructions, Copy(w)
  PROVE  CopySrc(w) \in Slots /\ ~SetsFlags(w) /\ Size(w) = W
<1>1. w.n \in Gprs \cup {R31} /\ w.m \in Gprs \cup {R31}
  BY InstructionIs
<1>2. ~SetsFlags(w) /\ Size(w) = W
  BY DEF Copy, MovX, SetsFlags, FlagOps, CondCmpOps, CondCmpImmOps, Size
<1>. QED
  BY <1>1, <1>2, RegisterSlots DEF Copy, MovX, CopySrc, Slots

LEMMA CopyValue ==
  ASSUME NEW m \in Contents, NEW w \in Instructions, Copy(w)
  PROVE  Value(m, w) = Holding(m, CopySrc(w))
<1>1. /\ w.n \in Gprs \cup {R31} /\ w.m \in Gprs \cup {R31}
      /\ m.x \in [Gprs -> SUBSET Low(W)] /\ m.sp \in SUBSET Low(W)
  BY InstructionIs, ContentsAre
<1>2. Size(w) = W
  BY CopySource
<1>3. CASE w.op = "orr" /\ w.n = R31 /\ w.m # R31 /\ w.k = 0
  <2>1. Value(m, w) = Reads(m, w, w.m)
    BY <1>3, CopiedConst
  <2>2. Reads(m, w, w.m) = m.x[w.m] /\ CopySrc(w) = w.m /\ w.m \in Gprs
    BY <1>1, <1>2, <1>3 DEF Reads, CopySrc
  <2>. QED
    BY <2>1, <2>2, HoldingIs
<1>4. CASE w.op = "addi" /\ w.k = 0
  <2>1. w.op \in SpSource /\ CopySrc(w) = SpOr(w.n)
    BY <1>4 DEF SpSource, ImmArithOps, CopySrc
  <2>. PICK u : u = IF w.n = R31 THEN m.sp ELSE m.x[w.n]
    OBVIOUS
  <2>2. /\ Reads(m, w, w.n) = u /\ u \in SUBSET Low(W) /\ SpOr(w.n) \in Slots /\ Holding(m, SpOr(w.n)) = u
    BY <1>1, <1>2, <2>1, HoldingIs, SlotNames DEF Reads, SpOr, Slots
  <2>. QED
    BY <1>4, <2>1, <2>2, AdjustValue
<1>. QED
  BY <1>3, <1>4 DEF Copy, MovX

LEMMA CopyNumbered ==
  ASSUME NEW l, Sane(l), NEW w \in Instructions, Copy(w),
         NEW c, c = [lv |-> l, result |-> l.vn[CopySrc(w)], flags |-> 0, known |-> {}]
  PROVE  /\ Formed(l, w, c)
         /\ \A m \in Contents : \A val : Knows(l, m, val) => Right(l, m, w, c, val)
<1>1. c.lv = l /\ c.result = l.vn[CopySrc(w)] /\ c.known = {}
  OBVIOUS
<1>2. l.next \in Nat /\ l.vn \in [Slots -> 1 .. l.next]
  BY DEF Sane
<1>3. Formed(l, w, c)
  BY <1>1, <1>2, CopySource DEF Formed, Grown
<1>4. ASSUME NEW m \in Contents, NEW val, Knows(l, m, val) PROVE Right(l, m, w, c, val)
  <2>1. CopySrc(w) \in Slots /\ Value(m, w) = Holding(m, CopySrc(w)) /\ ~SetsFlags(w)
    BY CopySource, CopyValue
  <2>2. val[c.result] = Value(m, w) /\ Agree(val, val, l.next)
    BY <1>1, <1>4, <2>1 DEF Knows, Agree
  <2>. QED
    BY <1>1, <1>4, <2>1, <2>2 DEF Right
<1>. QED
  BY <1>3, <1>4

LEMMA Joined ==
  ASSUME NEW S, NEW a \in Seq(S), NEW b \in Seq(S), NEW j, j = a \o b
  PROVE  /\ \A i \in DOMAIN j : j[i] \in S
         /\ \A i \in 1 .. Len(a) : i \in DOMAIN j /\ j[i] = a[i]
         /\ Len(b) = 1 => Len(a) + 1 \in DOMAIN j /\ j[Len(a) + 1] = b[1]
<1>1. j \in Seq(S) /\ Len(j) = Len(a) + Len(b) /\ Len(a) \in Nat /\ Len(b) \in Nat
  BY ConcatProperties
<1>2. \A i \in 1 .. Len(a) + Len(b) : j[i] = IF i <= Len(a) THEN a[i] ELSE b[i - Len(a)]
  BY ConcatProperties
<1>3. DOMAIN j = 1 .. Len(a) + Len(b)
  BY <1>1
<1>4. \A i \in DOMAIN j : j[i] \in S
  BY <1>1
<1>5. \A i \in 1 .. Len(a) : i \in DOMAIN j /\ j[i] = a[i]
  BY <1>1, <1>2, <1>3
<1>6. Len(b) = 1 => Len(a) + 1 \in DOMAIN j /\ j[Len(a) + 1] = b[1]
  <2>. PICK k : k = Len(a)
    OBVIOUS
  <2>1. ASSUME Len(b) = 1 PROVE k + 1 \in 1 .. k + Len(b) /\ ~(k + 1 <= k) /\ (k + 1) - k = 1
    BY <1>1, <2>1
  <2>. QED
    BY <1>2, <1>3, <2>1
<1>. QED
  BY <1>4, <1>5, <1>6

NumbersIn(l, w, vn) ==
  vn["nzcv"] \in 1 .. l.next /\ \A i \in DOMAIN LvnIn(w) : vn[LvnIn(w)[i]] \in 1 .. l.next

\* The numbers of the sources; ZR has that of the constant zero.
LEMMA SourcesNumbered ==
  ASSUME NEW l, Sane(l), NEW w \in Instructions, w.op \in ComputeOps,
         NEW vn, NumbersIn(l, w, vn), NEW word, NEW kind, NEW v,
         NEW key, key = Key(kind, word, Inputs(l, w, vn), v)
  PROVE  /\ KeyOver(key, l.next) /\ key.kind = kind /\ key.word = word
         /\ \A i \in DOMAIN LvnIn(w) : i \in DOMAIN key.in /\ key.in[i] = vn[LvnIn(w)[i]]
         /\ ReadsFlags(w) => /\ Len(LvnIn(w)) + 1 \in DOMAIN key.in
                             /\ key.in[Len(LvnIn(w)) + 1] = vn["nzcv"]
<1>. DEFINE in == [i \in DOMAIN LvnIn(w) |-> vn[LvnIn(w)[i]]]
            more == IF ReadsFlags(w) THEN <<vn["nzcv"]>> ELSE <<>>
<1>. PICK n : n = Len(LvnIn(w))
  OBVIOUS
<1>1. n \in Nat /\ DOMAIN LvnIn(w) = 1 .. n /\ \A i \in 1 .. n : LvnIn(w)[i] \in Sources
  BY SourcesOf
<1>2. vn["nzcv"] \in 1 .. l.next /\ \A i \in 1 .. n : vn[LvnIn(w)[i]] \in 1 .. l.next
  BY <1>1 DEF NumbersIn
<1>3. in \in Seq(1 .. l.next) /\ Len(in) = n /\ \A i \in 1 .. n : in[i] = vn[LvnIn(w)[i]]
  BY <1>1, <1>2
<1>4. /\ more \in Seq(1 .. l.next) /\ Len(more) \in Nat
      /\ ReadsFlags(w) => Len(more) = 1 /\ more[1] = vn["nzcv"]
  <2>1. CASE ReadsFlags(w)
    <3>1. more = <<vn["nzcv"]>>
      BY <2>1
    <3>. HIDE DEF more
    <3>. QED
      BY <1>2, <3>1
  <2>2. CASE ~ReadsFlags(w)
    <3>1. more = <<>>
      BY <2>2
    <3>. HIDE DEF more
    <3>. QED
      BY <2>2, <3>1
  <2>. QED
    BY <2>1, <2>2
<1>5. key.in = in \o more /\ key.kind = kind /\ key.word = word
  BY DEF Key, Inputs
<1>. HIDE DEF in, more
<1>6. KeyOver(key, l.next)
  BY ZenonT(30), <1>3, <1>4, <1>5, Joined DEF KeyOver
<1>7. \A i \in DOMAIN LvnIn(w) : i \in DOMAIN key.in /\ key.in[i] = vn[LvnIn(w)[i]]
  <2>1. \A i \in 1 .. Len(in) : i \in DOMAIN key.in /\ key.in[i] = in[i]
    BY <1>3, <1>4, <1>5, Joined
  <2>. QED
    BY <1>1, <1>3, <2>1
<1>8. ReadsFlags(w) => n + 1 \in DOMAIN key.in /\ key.in[n + 1] = vn["nzcv"]
  <2>1. Len(more) = 1 => Len(in) + 1 \in DOMAIN key.in /\ key.in[Len(in) + 1] = more[1]
    BY <1>3, <1>4, <1>5, Joined
  <2>2. ReadsFlags(w) => n + 1 \in DOMAIN key.in /\ key.in[n + 1] = more[1]
    BY <1>3, <1>4, <2>1, Zenon
  <2>. QED
    BY <1>4, <2>2, Zenon
<1>. QED
  BY <1>5, <1>6, <1>7, <1>8

\* A word's key tells of its result and of its flags.
LEMMA InputsNumbered ==
  ASSUME NEW l, Sane(l), NEW w \in Instructions, w.op \in ComputeOps \ {"adr"}, Pure(w),
         NEW vn, NumbersIn(l, w, vn), NEW c, c = ByInputs(l, w, Inputs(l, w, vn))
  PROVE  /\ Formed(l, w, c)
         /\ \A m \in Contents : \A val :
              /\ Knows(l, m, val)
              /\ \A i \in DOMAIN LvnIn(w) : val[vn[LvnIn(w)[i]]] = SlotValue(m, LvnIn(w)[i])
              /\ val[vn["nzcv"]] = m.flags
              => Right(l, m, w, c, val)
<1>. PICK word, in : word = KeyWord(w) /\ in = Inputs(l, w, vn)
  OBVIOUS
<1>. PICK result, flags : result = Key("result", word, in, {}) /\ flags = Key("flags", word, in, {})
  OBVIOUS
<1>. PICK l1 : l1 = Numbered(l, result)
  OBVIOUS
<1>. PICK l2 : l2 = IF SetsFlags(w) THEN Numbered(l1, flags) ELSE l1
  OBVIOUS
<1>1. /\ c.lv = l2 /\ c.result = NumberOf(l2, result) /\ c.known = {}
      /\ SetsFlags(w) => c.flags = NumberOf(l2, flags)
  BY DEF ByInputs
<1>2. /\ KeyOver(result, l.next) /\ result.kind = "result" /\ result.word = KeyWord(w)
      /\ \A i \in DOMAIN LvnIn(w) : i \in DOMAIN result.in /\ result.in[i] = vn[LvnIn(w)[i]]
      /\ ReadsFlags(w) => /\ Len(LvnIn(w)) + 1 \in DOMAIN result.in
                          /\ result.in[Len(LvnIn(w)) + 1] = vn["nzcv"]
  BY SourcesNumbered
<1>3. /\ KeyOver(flags, l.next) /\ flags.kind = "flags" /\ flags.word = KeyWord(w)
      /\ \A i \in DOMAIN LvnIn(w) : i \in DOMAIN flags.in /\ flags.in[i] = vn[LvnIn(w)[i]]
      /\ ReadsFlags(w) => /\ Len(LvnIn(w)) + 1 \in DOMAIN flags.in
                          /\ flags.in[Len(LvnIn(w)) + 1] = vn["nzcv"]
  BY SourcesNumbered
<1>4. l.next \in Nat
  BY DEF Sane
<1>5. Grown(l, l1) /\ \E e \in l1.table : e.key = result
  BY <1>2, NumberedSane DEF Grown
<1>6. KeyOver(flags, l1.next)
  BY <1>3, <1>4, <1>5, KeyAbove DEF Grown
<1>7. /\ Sane(l2) /\ l2.next \in Nat /\ l1.next <= l2.next /\ l2.vn = l1.vn /\ l2.known = l1.known
      /\ \E e \in l2.table : e.key = result
      /\ SetsFlags(w) => \E e \in l2.table : e.key = flags
  <2>1. CASE SetsFlags(w)
    <3>1. /\ Sane(l2) /\ l2.next \in Nat /\ l1.next <= l2.next /\ l2.vn = l1.vn /\ l2.known = l1.known
          /\ l1.table \subseteq l2.table /\ \E e \in l2.table : e.key = flags
      BY <1>5, <1>6, <2>1, NumberedSane DEF Grown
    <3>. QED
      BY <1>5, <3>1
  <2>2. CASE ~SetsFlags(w)
    BY <1>5, <2>2 DEF Grown
  <2>. QED
    BY <2>1, <2>2
<1>8. Formed(l, w, c)
  <2>1. Grown(l, l2)
    BY <1>4, <1>5, <1>7 DEF Grown
  <2>. QED
    BY <1>1, <1>7, <2>1, NumberIn DEF Formed
<1>9. ASSUME NEW m \in Contents, NEW val, Knows(l, m, val),
             \A i \in DOMAIN LvnIn(w) : val[vn[LvnIn(w)[i]]] = SlotValue(m, LvnIn(w)[i]),
             val[vn["nzcv"]] = m.flags
      PROVE  Right(l, m, w, c, val)
  <2>1. Fitting(m, w, result, val) /\ Fitting(m, w, flags, val)
    BY <1>2, <1>3, <1>9 DEF Fitting
  <2>2. \A u : Meant(result, u, val, m.base) <=> u = Value(m, w)
    <3>1. \A n, v : Fitting(n, v, result, val) => Value(n, v) = Value(m, w)
      BY <2>1, KeyDetermines
    <3>. QED
      BY <1>2, <2>1, <3>1 DEF Meant
  <2>. PICK val1 : Agree(val, val1, l.next) /\ Knows(l1, m, val1)
    BY <1>2, <1>9, <2>2, NumberedKnows
  <2>3. Fitting(m, w, flags, val1) /\ Fitting(m, w, result, val1)
    <3>1. \A i \in DOMAIN flags.in : val1[flags.in[i]] = val[flags.in[i]]
      BY <1>3 DEF KeyOver, Agree
    <3>2. \A i \in DOMAIN result.in : val1[result.in[i]] = val[result.in[i]]
      BY <1>2 DEF KeyOver, Agree
    <3>. QED
      BY <2>1, <3>1, <3>2 DEF Fitting
  <2>4. Meant(flags, Outcome(m, w, Size(w)).flags, val1, m.base)
    <3>1. \A n, v : Fitting(n, v, flags, val1) => Outcome(n, v, Size(v)).flags = Outcome(m, w, Size(w)).flags
      BY <2>3, KeyDetermines
    <3>. QED
      BY <1>3, <3>1 DEF Meant
  <2>5. \E val2 : Agree(val1, val2, l1.next) /\ Knows(l2, m, val2)
    <3>1. CASE SetsFlags(w)
      BY <1>5, <1>6, <2>4, <3>1, NumberedKnows DEF Grown
    <3>2. CASE ~SetsFlags(w)
      BY <3>2 DEF Agree
    <3>. QED
      BY <3>1, <3>2
  <2>. PICK val2 : Agree(val1, val2, l1.next) /\ Knows(l2, m, val2)
    BY <2>5
  <2>6. Agree(val, val2, l.next)
    BY <1>4, <1>5, AgreeThrough DEF Grown
  <2>7. Fitting(m, w, flags, val2) /\ Fitting(m, w, result, val2)
    <3>1. \A i \in DOMAIN flags.in : val2[flags.in[i]] = val[flags.in[i]]
      BY <1>3, <2>6 DEF KeyOver, Agree
    <3>2. \A i \in DOMAIN result.in : val2[result.in[i]] = val[result.in[i]]
      BY <1>2, <2>6 DEF KeyOver, Agree
    <3>. QED
      BY <2>1, <3>1, <3>2 DEF Fitting
  <2>8. val2[c.result] = Value(m, w)
    <3>1. Meant(result, val2[c.result], val2, m.base)
      BY <1>1, <1>7, NumberMeans
    <3>. QED
      BY <1>2, <2>7, <3>1 DEF Meant
  <2>9. SetsFlags(w) => val2[c.flags] = Outcome(m, w, Size(w)).flags
    <3>. SUFFICES ASSUME SetsFlags(w) PROVE val2[c.flags] = Outcome(m, w, Size(w)).flags
      OBVIOUS
    <3>1. Meant(flags, val2[c.flags], val2, m.base)
      BY <1>1, <1>7, NumberMeans
    <3>. QED
      BY <1>3, <2>7, <3>1 DEF Meant
  <2>. QED
    BY <1>1, <2>6, <2>8, <2>9 DEF Right
<1>. QED
  BY <1>8, <1>9

\* A word's numbers, the zero constant numbered first if it is read.
LEMMA WordNumbered ==
  ASSUME NEW l, Sane(l), NEW w \in Instructions, w.op \in ComputeOps \ {"adr"}, Pure(w)
  PROVE  /\ Formed(l, w, ByWord(l, w))
         /\ \A m \in Contents : \A val : Knows(l, m, val) => Right(l, m, w, ByWord(l, w), val)
<1>. PICK zc, zero : zc = [v |-> {}, rel |-> FALSE] /\ zero = ConstKey(zc)
  OBVIOUS
<1>. PICK l0 : l0 = IF "zr" \in Range(LvnIn(w)) THEN Numbered(l, zero) ELSE l
  OBVIOUS
<1>. PICK vn : vn = [s \in Slots \cup {"zr"} |-> IF s = "zr" THEN NumberOf(l0, zero) ELSE l.vn[s]]
  OBVIOUS
<1>. PICK c : c = ByInputs(l0, w, Inputs(l0, w, vn))
  OBVIOUS
<1>1. ByWord(l, w) = c
  BY DEF ByWord
<1>2. zc \in Constants /\ KeyOver(zero, l.next) /\ \A base : Meaning(zc, base) = {}
  <2>1. zc \in Constants
    BY DEF Constants
  <2>. QED
    BY <2>1, ConstKeyIs DEF Meaning
<1>3. l.next \in Nat /\ l.vn \in [Slots -> 1 .. l.next]
  BY DEF Sane
<1>4. /\ Grown(l, l0)
      /\ "zr" \in Range(LvnIn(w)) => \E e \in l0.table : e.key = zero
  BY <1>2, <1>3, NumberedSane DEF Grown
<1>5. /\ "zr" \in Range(LvnIn(w)) => vn["zr"] \in 1 .. l0.next
      /\ \A s \in Slots : vn[s] = l.vn[s] /\ vn[s] \in 1 .. l0.next
  <2>1. vn["zr"] = NumberOf(l0, zero) /\ \A s \in Slots : vn[s] = l.vn[s]
    BY SlotNames
  <2>2. \A s \in Slots : l.vn[s] \in 1 .. l0.next
    BY <1>3, <1>4 DEF Grown
  <2>. QED
    BY <1>4, <2>1, <2>2, NumberIn DEF Grown
<1>6. /\ DOMAIN LvnIn(w) = 1 .. Len(LvnIn(w))
      /\ \A i \in DOMAIN LvnIn(w) : LvnIn(w)[i] \in Slots \/ (LvnIn(w)[i] = "zr" /\ "zr" \in Range(LvnIn(w)))
  BY SourcesOf DEF Sources, Range
<1>7. NumbersIn(l0, w, vn)
  BY <1>5, <1>6 DEF NumbersIn, Slots
<1>8. Sane(l0) /\ l0.next \in Nat /\ l.next <= l0.next
  BY <1>4 DEF Grown
<1>9. Formed(l, w, c)
  <2>1. Formed(l0, w, c)
    BY <1>7, <1>8, InputsNumbered
  <2>2. Grown(l, c.lv)
    BY <1>3, <1>4, <2>1, GrownThrough DEF Formed
  <2>. QED
    BY <2>1, <2>2 DEF Formed
<1>10. ASSUME NEW m \in Contents, NEW val, Knows(l, m, val)
       PROVE  Right(l, m, w, c, val)
  <2>1. \E val0 : Agree(val, val0, l.next) /\ Knows(l0, m, val0)
    <3>1. CASE "zr" \in Range(LvnIn(w))
      <4>1. Meant(zero, {}, val, m.base)
        BY <1>2, ConstKeyIs
      <4>. QED
        BY <1>2, <1>10, <3>1, <4>1, NumberedKnows
    <3>2. CASE "zr" \notin Range(LvnIn(w))
      BY <1>10, <3>2 DEF Agree
    <3>. QED
      BY <3>1, <3>2
  <2>. PICK val0 : Agree(val, val0, l.next) /\ Knows(l0, m, val0)
    BY <2>1
  <2>2. \A s \in Slots : val0[vn[s]] = SlotValue(m, s)
    BY <1>4, <1>5, SlotNames DEF Knows, Grown, SlotValue
  <2>3. "zr" \in Range(LvnIn(w)) => val0[vn["zr"]] = SlotValue(m, "zr")
    <3>. SUFFICES ASSUME "zr" \in Range(LvnIn(w)) PROVE val0[vn["zr"]] = {}
      BY DEF SlotValue
    <3>1. Meant(zero, val0[NumberOf(l0, zero)], val0, m.base)
      BY <1>4, NumberMeans
    <3>2. vn["zr"] = NumberOf(l0, zero)
      OBVIOUS
    <3>. QED
      BY <1>2, <3>1, <3>2, ConstKeyIs
  <2>4. /\ \A i \in DOMAIN LvnIn(w) : val0[vn[LvnIn(w)[i]]] = SlotValue(m, LvnIn(w)[i])
        /\ val0[vn["nzcv"]] = m.flags
    <3>1. SlotValue(m, "nzcv") = m.flags /\ "nzcv" \in Slots
      BY SlotNames, HoldingIs DEF SlotValue, Slots
    <3>. QED
      BY <1>6, <2>2, <2>3, <3>1
  <2>5. Right(l0, m, w, c, val0)
    BY <1>7, <1>8, <2>4, InputsNumbered
  <2>. PICK val2 : /\ Agree(val0, val2, l0.next) /\ Knows(c.lv, m, val2)
                   /\ val2[c.result] = Value(m, w)
                   /\ SetsFlags(w) => val2[c.flags] = Outcome(m, w, Size(w)).flags
    BY <2>5 DEF Right
  <2>6. Agree(val, val2, l.next)
    BY <1>3, <1>8, AgreeThrough
  <2>. QED
    BY <2>5, <2>6 DEF Right
<1>. QED
  BY <1>1, <1>9, <1>10

\* What a pure word is numbered is what it computes.
LEMMA ComputedRight ==
  ASSUME NEW l, Sane(l), NEW w \in Instructions, Pure(w)
  PROVE  /\ Formed(l, w, Computed(l, w))
         /\ \A m \in Contents : \A val :
              KnownTrue(l, m) /\ Knows(l, m, val) => Right(l, m, w, Computed(l, w), val)
<1>1. w.op \in ComputeOps
  <2>1. w.op # "msr" /\ w.op \notin Impure
    BY InstructionIs DEF Pure, MemoryOps, Conditionals, Terminal, CompareBranches, CbOps,
       ComputeOps, ShiftOps, ExtractOps, PlaceOps, MoveOps, LogicOps, ImmLogicOps, ArithOps, ImmArithOps, ExtArithOps,
       SelectOps, MulOps, HighOps, TwoSourceOps, OneSourceOps, CarryOps, CondCmpOps, CondCmpImmOps
  <2>. QED
    BY <2>1, InstructionIs DEF Impure
<1>2. CASE LvnConst(l, w) # {}
  BY <1>2, ConstNumbered DEF Computed, Numbers
<1>3. CASE LvnConst(l, w) = {} /\ Copy(w)
  BY <1>3, CopyNumbered DEF Computed, Numbers
<1>4. CASE LvnConst(l, w) = {} /\ ~Copy(w)
  <2>1. w.op # "adr"
    BY <1>4 DEF LvnConst, SetsFlags, FlagOps, CondCmpOps, CondCmpImmOps
  <2>2. Computed(l, w) = ByWord(l, w)
    BY <1>4 DEF Computed, Numbers
  <2>. QED
    BY <1>1, <2>1, <2>2, WordNumbered
<1>. QED
  BY <1>2, <1>3, <1>4

-----------------------------------------------------------------------------
(* The region after a word, and a new one.                                 *)

\* First numbers the slots one by one.
LEMMA FirstNumbers ==
  /\ Cardinality(Slots) \in Nat
  /\ First \in [Slots -> 1 .. Cardinality(Slots)]
  /\ \A s, t \in Slots : First[s] = First[t] => s = t
<1>. PICK n : n = Cardinality(Slots)
  OBVIOUS
<1>1. IsFiniteSet(Slots)
  <2>1. IsFiniteSet(Gprs \cup {"sp"})
    BY FactsAssumption, FS_AddElement
  <2>2. IsFiniteSet((Gprs \cup {"sp"}) \cup {"nzcv"})
    BY <2>1, FS_AddElement
  <2>3. (Gprs \cup {"sp"}) \cup {"nzcv"} = Slots
    BY DEF Slots
  <2>. QED
    BY <2>2, <2>3
<1>2. n \in Nat /\ ExistsBijection(1 .. n, Slots)
  BY <1>1, FS_CardinalityType
<1>. PICK b \in Bijection(1 .. n, Slots) : TRUE
  BY <1>2 DEF ExistsBijection
<1>3. \A s \in Slots : \E i \in 1 .. n : b[i] = s
  BY DEF Bijection, Surjection
<1>. DEFINE f == [s \in Slots |-> CHOOSE i \in 1 .. n : b[i] = s]
<1>4. \A s \in Slots : f[s] \in 1 .. n /\ b[f[s]] = s
  BY <1>3
<1>5. f \in [Slots -> 1 .. n] /\ \A s, t \in Slots : f[s] = f[t] => s = t
  BY <1>4
<1>. HIDE DEF f
<1>6. First = CHOOSE g \in [Slots -> 1 .. n] : \A s, t \in Slots : g[s] = g[t] => s = t
  BY DEF First
<1>7. First \in [Slots -> 1 .. n] /\ \A s, t \in Slots : First[s] = First[t] => s = t
  BY <1>5, <1>6
<1>. QED
  BY <1>2, <1>7

\* A word that computes writes its destination and its flags.
LEMMA PureWrites ==
  ASSUME NEW w \in Instructions, Pure(w)
  PROVE  /\ \A s \in Written(w) : s = LvnOut(w) \/ (s = "nzcv" /\ SetsFlags(w))
         /\ LvnOut(w) \in Slots \cup {"zr"} /\ LvnOut(w) # "nzcv"
         /\ LvnOut(w) # "zr" => LvnOut(w) \in Written(w)
         /\ SetsFlags(w) => "nzcv" \in Written(w)
<1>1. LvnOut(w) \in Slots \cup {"zr"} /\ LvnOut(w) # "nzcv"
  BY InstructionIs, SlotNames DEF LvnOut, SpOr, ZrOr, Slots
<1>2. Written(w) = ({LvnOut(w)} \ {"zr"}) \cup (IF SetsFlags(w) THEN {"nzcv"} ELSE {})
  BY DEF Written
<1>. QED
  BY <1>1, <1>2

\* What a word is numbered before its slots are assigned.
Prepared(l, w, c) ==
  Grown(l, c.lv) /\ (Pure(w) => Formed(l, w, c))

NewNumber(l, w, c, s) ==
  IF s \notin Written(w) THEN l.vn[s]
  ELSE IF ~Pure(w) THEN c.lv.next + First[s]
  ELSE IF s = LvnOut(w) THEN c.result ELSE c.flags

LEMMA AssignIs ==
  ASSUME NEW l, NEW w, NEW c, NEW at, NEW a, a = Assign(l, w, c, at)
  PROVE  /\ a.vn = [s \in Slots |-> NewNumber(l, w, c, s)]
         /\ a.known = [r \in Gprs |-> IF r \notin Written(w) THEN l.known[r]
                                      ELSE IF Pure(w) THEN c.known ELSE {}]
         /\ a.next = c.lv.next + Cardinality(Slots) /\ a.table = c.lv.table
         /\ EndsRegion(w) => ~a.valid
         /\ {"valid", "vn", "known", "next", "table"} \subseteq DOMAIN a
BY DEF Assign, NewNumber

LEMMA NumbersBelow ==
  ASSUME NEW l, Sane(l), NEW w \in Instructions, NEW c, Prepared(l, w, c), NEW s \in Slots
  PROVE  /\ NewNumber(l, w, c, s) \in 1 .. c.lv.next + Cardinality(Slots)
         /\ (s \notin Written(w) \/ Pure(w)) => NewNumber(l, w, c, s) \in 1 .. c.lv.next
<1>. PICK n, k : n = c.lv.next /\ k = Cardinality(Slots)
  OBVIOUS
<1>1. l.next \in Nat /\ n \in Nat /\ l.next <= n /\ k \in Nat
  BY FirstNumbers DEF Prepared, Grown, Sane
<1>2. l.vn[s] \in 1 .. l.next /\ First[s] \in 1 .. k
  BY FirstNumbers DEF Sane
<1>3. l.vn[s] \in 1 .. n
  BY <1>1, <1>2
<1>4. \A i \in 1 .. n : i \in 1 .. n + k
  BY <1>1
<1>5. CASE s \notin Written(w)
  BY <1>3, <1>4, <1>5 DEF NewNumber
<1>6. CASE s \in Written(w) /\ ~Pure(w)
  BY <1>1, <1>2, <1>6 DEF NewNumber
<1>7. CASE s \in Written(w) /\ Pure(w)
  <2>1. NewNumber(l, w, c, s) \in 1 .. n
    BY <1>7, PureWrites DEF NewNumber, Prepared, Formed
  <2>. QED
    BY <1>4, <2>1
<1>. QED
  BY <1>5, <1>6, <1>7

LEMMA AssignSane ==
  ASSUME NEW l, Sane(l), NEW w \in Instructions, NEW c, Prepared(l, w, c), NEW at
  PROVE  Sane(Assign(l, w, c, at))
<1>. PICK a : a = Assign(l, w, c, at)
  OBVIOUS
<1>. PICK n, k : n = c.lv.next /\ k = Cardinality(Slots)
  OBVIOUS
<1>1. /\ a.vn = [s \in Slots |-> NewNumber(l, w, c, s)]
      /\ a.known = [r \in Gprs |-> IF r \notin Written(w) THEN l.known[r] ELSE IF Pure(w) THEN c.known ELSE {}]
      /\ a.next = n + k /\ a.table = c.lv.table
      /\ {"vn", "known", "next", "table"} \subseteq DOMAIN a
  BY AssignIs
<1>2. n \in Nat /\ k \in Nat /\ a.next \in Nat /\ n <= a.next
  <2>1. n \in Nat /\ k \in Nat
    BY FirstNumbers DEF Prepared, Grown
  <2>. QED
    BY <1>1, <2>1
<1>3. a.vn \in [Slots -> 1 .. a.next]
  <2>1. \A s \in Slots : NewNumber(l, w, c, s) \in 1 .. n + k
    BY NumbersBelow
  <2>. QED
    BY <1>1, <2>1
<1>4. a.known \in [Gprs -> SUBSET Constants]
  <2>1. \A r \in Gprs : l.known[r] \subseteq Constants
    BY DEF Sane
  <2>2. Pure(w) => c.known \subseteq Constants
    BY DEF Prepared, Formed
  <2>. QED
    BY <1>1, <2>1, <2>2
<1>5. \A e \in a.table : e.vn \in 1 .. a.next /\ KeyOver(e.key, a.next)
  <2>1. \A e \in a.table : e.vn \in 1 .. n /\ KeyOver(e.key, n)
    BY <1>1 DEF Prepared, Grown, Sane
  <2>. QED
    BY <1>2, <2>1, KeyAbove
<1>. QED
  BY <1>1, <1>2, <1>3, <1>4, <1>5 DEF Sane

\* The numbers stand for what the machine holds after the word.
LEMMA AssignKnows ==
  ASSUME NEW l, Sane(l), NEW w \in Instructions, NEW c, Prepared(l, w, c), NEW at,
         NEW m \in Contents, NEW val, Knows(c.lv, m, val),
         Pure(w) => val[c.result] = Value(m, w),
         Pure(w) /\ SetsFlags(w) => val[c.flags] = Outcome(m, w, Size(w)).flags
  PROVE  \E val2 : Knows(Assign(l, w, c, at), Exec(m, w), val2)
<1>. PICK a, e : a = Assign(l, w, c, at) /\ e = Exec(m, w)
  OBVIOUS
<1>. PICK n : n = c.lv.next /\ n \in Nat
  BY DEF Prepared, Grown
<1>. DEFINE Which(i) == CHOOSE s \in Slots : First[s] = i - n
            val2 == [i \in Nat |-> IF i > n THEN Holding(e, Which(i)) ELSE val[i]]
<1>1. a.vn = [s \in Slots |-> NewNumber(l, w, c, s)] /\ a.table = c.lv.table
  BY DEF Assign, NewNumber
<1>2. /\ e.base = m.base
      /\ \A s \in Slots \ Written(w) : Holding(e, s) = Holding(m, s)
      /\ Pure(w) => w.op \in ComputeOps
  BY EffectOf
<1>3. \A i \in 1 .. n : val2[i] = val[i]
  OBVIOUS
<1>4. \A s \in Slots : val2[n + First[s]] = Holding(e, s)
  <2>. TAKE s \in Slots
  <2>1. First[s] \in Nat \ {0} /\ n + First[s] \in Nat /\ n + First[s] > n /\ (n + First[s]) - n = First[s]
    BY FirstNumbers
  <2>2. \A t \in Slots : First[t] = First[s] => t = s
    BY FirstNumbers
  <2>3. Which(n + First[s]) = s
    BY <2>1, <2>2
  <2>. QED
    BY <2>1, <2>3
<1>. HIDE DEF val2
<1>5. \A s \in Slots : val2[a.vn[s]] = Holding(e, s)
  <2>. TAKE s \in Slots
  <2>1. a.vn[s] = NewNumber(l, w, c, s)
    BY <1>1
  <2>2. CASE s \notin Written(w)
    <3>1. NewNumber(l, w, c, s) = c.lv.vn[s] /\ NewNumber(l, w, c, s) \in 1 .. n
      BY <2>2, NumbersBelow DEF NewNumber, Prepared, Grown
    <3>. QED
      BY <1>2, <1>3, <2>1, <2>2, <3>1 DEF Knows
  <2>3. CASE s \in Written(w) /\ ~Pure(w)
    BY <1>4, <2>1, <2>3 DEF NewNumber
  <2>4. CASE s \in Written(w) /\ Pure(w)
    <3>1. NewNumber(l, w, c, s) \in 1 .. n /\ NewNumber(l, w, c, s) = IF s = LvnOut(w) THEN c.result ELSE c.flags
      BY <2>4, NumbersBelow DEF NewNumber
    <3>2. s = LvnOut(w) \/ (s = "nzcv" /\ SetsFlags(w) /\ s # LvnOut(w))
      BY <2>4, PureWrites
    <3>3. /\ LvnOut(w) # "zr" => Holding(e, LvnOut(w)) = Value(m, w)
          /\ SetsFlags(w) => Holding(e, "nzcv") = Outcome(m, w, Size(w)).flags
      BY <1>2, <2>4, ComputeEffect
    <3>. QED
      BY <1>3, <2>1, <2>4, <3>1, <3>2, <3>3, SlotNames
  <2>. QED
    BY <2>2, <2>3, <2>4
<1>6. \A f \in a.table : Meant(f.key, val2[f.vn], val2, e.base)
  <2>. TAKE f \in a.table
  <2>1. f.vn \in 1 .. n /\ KeyOver(f.key, n) /\ Meant(f.key, val[f.vn], val, m.base)
    BY <1>1 DEF Knows, Prepared, Grown, Sane
  <2>. QED
    BY <1>2, <1>3, <2>1, MeantSame DEF Agree
<1>7. Knows(a, e, val2)
  BY <1>5, <1>6 DEF Knows
<1>. QED
  BY <1>7

LEMMA AssignKnown ==
  ASSUME NEW l, NEW w \in Instructions, NEW c, NEW at, NEW m \in Contents, KnownTrue(l, m),
         Pure(w) => \A k \in c.known : Value(m, w) = Meaning(k, m.base)
  PROVE  KnownTrue(Assign(l, w, c, at), Exec(m, w))
<1>. PICK a, e : a = Assign(l, w, c, at) /\ e = Exec(m, w)
  OBVIOUS
<1>1. a.known = [r \in Gprs |-> IF r \notin Written(w) THEN l.known[r] ELSE IF Pure(w) THEN c.known ELSE {}]
  BY DEF Assign
<1>2. /\ e.base = m.base
      /\ \A s \in Slots \ Written(w) : Holding(e, s) = Holding(m, s)
      /\ Pure(w) => w.op \in ComputeOps
  BY EffectOf
<1>3. ASSUME NEW r \in Gprs, NEW k \in a.known[r]
      PROVE  e.x[r] = Meaning(k, e.base)
  <2>1. CASE r \notin Written(w)
    <3>1. e.x[r] = m.x[r] /\ k \in l.known[r]
      BY <1>1, <1>2, <1>3, <2>1, HoldingIs DEF Slots
    <3>. QED
      BY <1>2, <3>1 DEF KnownTrue
  <2>2. CASE r \in Written(w)
    <3>1. Pure(w) /\ k \in c.known
      BY <1>1, <1>3, <2>2
    <3>2. r = LvnOut(w) /\ LvnOut(w) # "zr"
      BY <2>2, <3>1, PureWrites, SlotNames DEF Slots
    <3>3. Holding(e, LvnOut(w)) = Value(m, w)
      BY <1>2, <3>1, <3>2, ComputeEffect
    <3>. QED
      BY <1>2, <3>1, <3>2, <3>3, HoldingIs
  <2>. QED
    BY <2>1, <2>2
<1>. QED
  BY <1>3 DEF KnownTrue

\* A region starts with a number for each slot.
LEMMA RegionKnows ==
  ASSUME NEW m \in Contents
  PROVE  Sane(Region) /\ KnownTrue(Region, m) /\ \E val : Knows(Region, m, val)
<1>1. /\ Region.vn = First /\ Region.known = [r \in Gprs |-> {}] /\ Region.next = Cardinality(Slots)
      /\ Region.table = {} /\ {"vn", "known", "next", "table"} \subseteq DOMAIN Region
  BY DEF Region
<1>2. Sane(Region)
  BY <1>1, FirstNumbers DEF Sane
<1>3. KnownTrue(Region, m)
  BY <1>1 DEF KnownTrue
<1>. DEFINE Which(i) == CHOOSE s \in Slots : First[s] = i
            val == [i \in Nat |-> Holding(m, Which(i))]
<1>4. \A s \in Slots : val[First[s]] = Holding(m, s)
  <2>. TAKE s \in Slots
  <2>1. First[s] \in Nat /\ \A t \in Slots : First[t] = First[s] => t = s
    BY FirstNumbers
  <2>2. Which(First[s]) = s
    BY <2>1
  <2>. QED
    BY <2>1, <2>2
<1>. HIDE DEF val
<1>5. Knows(Region, m, val)
  BY <1>1, <1>4 DEF Knows
<1>. QED
  BY <1>2, <1>3, <1>5

-----------------------------------------------------------------------------
(* A word, on a region entered.                                            *)

\* What a region says is true of a machine.
TrueOf(l, m) == m \in Contents /\ KnownTrue(l, m) /\ \E val : Knows(l, m, val)

LEMMA UnchangedBy ==
  ASSUME NEW l, Sane(l), NEW w \in Instructions, Pure(w), NEW m \in Contents, NEW c, Formed(l, w, c),
         NEW val, Knows(l, m, val), Right(l, m, w, c, val), Same(l, w, c)
  PROVE  \A s \in Slots : Holding(Exec(m, w), s) = Holding(m, s)
<1>. TAKE s \in Slots
<1>. PICK e : e = Exec(m, w)
  OBVIOUS
<1>. PICK val2 : /\ Agree(val, val2, l.next)
                 /\ val2[c.result] = Value(m, w)
                 /\ SetsFlags(w) => val2[c.flags] = Outcome(m, w, Size(w)).flags
  BY DEF Right
<1>1. \A t \in Slots : val2[l.vn[t]] = Holding(m, t)
  <2>1. \A t \in Slots : l.vn[t] \in 1 .. l.next
    BY DEF Sane
  <2>. QED
    BY <2>1 DEF Knows, Agree
<1>2. /\ \A t \in Slots \ Written(w) : Holding(e, t) = Holding(m, t)
      /\ LvnOut(w) # "zr" => LvnOut(w) \in Slots /\ Holding(e, LvnOut(w)) = Value(m, w)
      /\ SetsFlags(w) => Holding(e, "nzcv") = Outcome(m, w, Size(w)).flags
  BY EffectOf, ComputeEffect
<1>3. CASE s \notin Written(w)
  BY <1>2, <1>3
<1>4. CASE s = LvnOut(w)
  <2>1. LvnOut(w) # "zr"
    BY <1>4, SlotNames
  <2>. QED
    BY <1>1, <1>2, <1>4, <2>1 DEF Same
<1>5. CASE s = "nzcv" /\ SetsFlags(w)
  BY <1>1, <1>2, <1>5 DEF Same
<1>. QED
  BY <1>3, <1>4, <1>5, PureWrites

\* What holds at a word holds after it, and a word that is the same changes
\* nothing.
LEMMA NumberSound ==
  ASSUME NEW l, Sane(l), NEW w \in Instructions, NEW ahd, NEW at, NEW n, n = Number(l, w, ahd, at)
  PROVE  /\ Sane(n.lv) /\ "valid" \in DOMAIN n.lv /\ (EndsRegion(w) => ~n.lv.valid)
         /\ n.found => n.same
         /\ \A m : TrueOf(l, m) =>
              /\ TrueOf(n.lv, Exec(m, w))
              /\ n.same => \A s \in Slots : Holding(Exec(m, w), s) = Holding(m, s)
         /\ n.same => Pure(w)
<1>. PICK c : c = IF Pure(w) THEN Computed(l, w) ELSE [lv |-> l, result |-> 0, flags |-> 0, known |-> {}]
  OBVIOUS
<1>1. /\ n.lv = Assign(l, w, c, at) /\ n.same = (Pure(w) /\ Same(l, w, c))
      /\ n.found = (n.same /\ ~Skipped(l, w, ahd, at))
  BY DEF Number, NumberedAs
<1>2. Prepared(l, w, c)
  <2>1. CASE Pure(w)
    BY <2>1, ComputedRight DEF Prepared, Formed
  <2>2. CASE ~Pure(w)
    BY <2>2 DEF Prepared, Grown, Sane
  <2>. QED
    BY <2>1, <2>2
<1>3. Sane(n.lv) /\ "valid" \in DOMAIN n.lv /\ (EndsRegion(w) => ~n.lv.valid)
  <2>. PICK a : a = Assign(l, w, c, at)
    OBVIOUS
  <2>1. Sane(a)
    BY <1>2, AssignSane
  <2>2. (EndsRegion(w) => ~a.valid) /\ {"valid", "vn", "known", "next", "table"} \subseteq DOMAIN a
    BY DEF Assign
  <2>. QED
    BY <1>1, <2>1, <2>2
<1>4. ASSUME NEW m, TrueOf(l, m)
      PROVE  /\ TrueOf(n.lv, Exec(m, w))
             /\ n.same => \A s \in Slots : Holding(Exec(m, w), s) = Holding(m, s)
  <2>1. m \in Contents /\ KnownTrue(l, m) /\ Exec(m, w) \in Contents
    BY <1>4, EffectOf DEF TrueOf
  <2>. PICK val : Knows(l, m, val)
    BY <1>4 DEF TrueOf
  <2>2. Pure(w) => Formed(l, w, c) /\ Right(l, m, w, c, val)
    BY <2>1, ComputedRight
  <2>3. \E val2 : /\ Knows(c.lv, m, val2)
                  /\ Pure(w) => val2[c.result] = Value(m, w)
                  /\ Pure(w) /\ SetsFlags(w) => val2[c.flags] = Outcome(m, w, Size(w)).flags
    <3>1. CASE Pure(w)
      BY <2>2, <3>1 DEF Right
    <3>2. CASE ~Pure(w)
      BY <3>2
    <3>. QED
      BY <3>1, <3>2
  <2>4. \E val2 : Knows(n.lv, Exec(m, w), val2)
    <3>. PICK val2 : /\ Knows(c.lv, m, val2)
                     /\ Pure(w) => val2[c.result] = Value(m, w)
                     /\ Pure(w) /\ SetsFlags(w) => val2[c.flags] = Outcome(m, w, Size(w)).flags
      BY <2>3
    <3>1. \E v : Knows(Assign(l, w, c, at), Exec(m, w), v)
      BY <1>2, <2>1, AssignKnows
    <3>. QED
      BY <1>1, <3>1
  <2>5. KnownTrue(n.lv, Exec(m, w))
    <3>1. Pure(w) => \A k \in c.known : Value(m, w) = Meaning(k, m.base)
      BY <2>2 DEF Right
    <3>2. KnownTrue(Assign(l, w, c, at), Exec(m, w))
      BY <2>1, <3>1, AssignKnown
    <3>. QED
      BY <1>1, <3>2
  <2>6. n.same => \A s \in Slots : Holding(Exec(m, w), s) = Holding(m, s)
    BY <1>1, <2>1, <2>2, UnchangedBy
  <2>. QED
    BY <2>1, <2>4, <2>5, <2>6 DEF TrueOf
<1>. QED
  BY <1>1, <1>3, <1>4

\* The region a word finds: a side entry arrives without values, and a
\* remembered computation may have been replaced.
LEMMA EnteredTrue ==
  ASSUME NEW side \in BOOLEAN, NEW forgotten, NEW l, l = [Entered(lv, side) EXCEPT !.table = @ \ forgotten],
         lv.valid => Sane(lv)
  PROVE  /\ Sane(l)
         /\ \A m \in Contents : (side \/ ~lv.valid \/ TrueOf(lv, m)) => TrueOf(l, m)
<1>. PICK e : e = Entered(lv, side)
  OBVIOUS
<1>1. e = Region \/ (e = lv /\ lv.valid /\ ~side)
  BY DEF Entered
<1>2. Sane(Region)
  BY FirstNumbers DEF Region, Sane
<1>3. Sane(e)
  BY <1>1, <1>2
<1>4. /\ l.vn = e.vn /\ l.known = e.known /\ l.next = e.next /\ l.table = e.table \ forgotten
      /\ DOMAIN l = DOMAIN e
  BY <1>3 DEF Sane
<1>5. Sane(l)
  BY <1>3, <1>4 DEF Sane
<1>6. ASSUME NEW m \in Contents, TrueOf(e, m) PROVE TrueOf(l, m)
  <2>. PICK val : Knows(e, m, val)
    BY <1>6 DEF TrueOf
  <2>1. Knows(l, m, val)
    BY <1>4 DEF Knows
  <2>2. KnownTrue(l, m)
    BY <1>4, <1>6 DEF TrueOf, KnownTrue
  <2>. QED
    BY <2>1, <2>2 DEF TrueOf
<1>7. \A m \in Contents : (side \/ ~lv.valid \/ TrueOf(lv, m)) => TrueOf(e, m)
  <2>. TAKE m \in Contents
  <2>1. TrueOf(Region, m)
    BY RegionKnows DEF TrueOf
  <2>. QED
    BY <1>1, <2>1
<1>. QED
  BY <1>5, <1>6, <1>7

-----------------------------------------------------------------------------
(* The state.                                                              *)

\* The machines of each word are machines, and what the region says is true
\* of those that go on.
NumbersInv ==
  /\ program \in DOMAIN Programs
  /\ buf \in Seq(Instructions)
  /\ ahead \in {{}} \cup {{w} : w \in Instructions}
  /\ reach \in Seq(SUBSET Contents) /\ Len(reach) = Len(buf)
  /\ leaving \subseteq Contents
  /\ "valid" \in DOMAIN lv
  /\ lv.valid => Sane(lv) /\ \A m \in leaving : TrueOf(lv, m)

LEMMA WordsOf ==
  ASSUME NEW p \in DOMAIN Programs, NEW i \in 1 .. Len(Programs[p].words)
  PROVE  Programs[p].words[i] \subseteq Instructions
<1>1. Programs[p].words \in Seq(SUBSET Instructions)
  BY FactsAssumption
<1>. QED
  BY <1>1

LEMMA NumbersInit == Init => NumbersInv
<1>. SUFFICES ASSUME Init PROVE NumbersInv
  OBVIOUS
<1>1. program \in DOMAIN Programs /\ buf = <<>> /\ reach = <<>> /\ leaving = Machines /\ lv = [Region EXCEPT !.valid = FALSE]
      /\ ahead \in {{w} : w \in Programs[program].words[1]}
  BY DEF Init
<1>2. Programs[program].words[1] \subseteq Instructions
  <2>1. Programs[program].words \in Seq(SUBSET Instructions) \ {<<>>}
    BY <1>1, FactsAssumption
  <2>2. 1 \in 1 .. Len(Programs[program].words)
    BY <2>1
  <2>. QED
    BY <1>1, <2>2, WordsOf
<1>3. "valid" \in DOMAIN lv /\ ~lv.valid
  BY <1>1 DEF Region
<1>4. buf \in Seq(Instructions) /\ reach \in Seq(SUBSET Contents) /\ Len(reach) = Len(buf)
  BY <1>1
<1>. QED
  BY <1>1, <1>2, <1>3, <1>4, FactsAssumption DEF NumbersInv

\* The next word is one the program may hold.
LEMMA NextWord ==
  ASSUME NumbersInv,
         NEW next \in IF Len(buf) + 2 > Len(Programs[program].words) THEN {{}}
                      ELSE {{w} : w \in Programs[program].words[Len(buf) + 2]}
  PROVE  next \in {{}} \cup {{w} : w \in Instructions}
<1>1. program \in DOMAIN Programs /\ Len(buf) \in Nat
  BY DEF NumbersInv
<1>2. Programs[program].words \in Seq(SUBSET Instructions)
  BY <1>1, FactsAssumption
<1>3. CASE Len(buf) + 2 > Len(Programs[program].words)
  BY <1>3
<1>4. CASE ~(Len(buf) + 2 > Len(Programs[program].words))
  <2>1. Len(buf) + 2 \in 1 .. Len(Programs[program].words)
    BY <1>1, <1>2, <1>4
  <2>2. Programs[program].words[Len(buf) + 2] \subseteq Instructions
    BY <1>1, <2>1, WordsOf
  <2>. QED
    BY <1>4, <2>2
<1>. QED
  BY <1>3, <1>4

LEMMA SuccessorsOf ==
  ASSUME NEW ms, NEW w, NEW m \in Successors(ms, w), w.op \notin Terminal
  PROVE  \E p \in ms : m = Exec(p, w)
<1>1. CASE w.op \in Conditionals
  <2>1. m \in ms
    BY <1>1 DEF Successors
  <2>2. w.op \notin {"msr", "ptest"}
    BY <1>1 DEF Conditionals, CompareBranches, CbOps
  <2>3. Exec(m, w) = m
    BY <1>1, <2>2 DEF Exec
  <2>. QED
    BY <2>1, <2>3
<1>2. CASE w.op \notin Conditionals
  BY <1>2 DEF Successors
<1>. QED
  BY <1>1, <1>2

\* What a word is read with.
ReadAs(w, at, side, l, n, ms) ==
  /\ w \in Instructions /\ at = Len(buf) + 1 /\ Sane(l)
  /\ ms = leaving \cup (IF side THEN Machines ELSE {})
  /\ ms \subseteq Contents /\ \A m \in ms : TrueOf(l, m)
  /\ buf' = Append(buf, w) /\ reach' = Append(reach, ms) /\ leaving' = Successors(ms, w)
  /\ lv' = n.lv

LEMMA ReadIs ==
  ASSUME NumbersInv, NEW next, NEW side \in BOOLEAN, NEW forgotten, Read(next, side, forgotten)
  PROVE  \E w, at, l, n, ms, k, zeros, dead :
           /\ ReadAs(w, at, side, l, n, ms) /\ n = Number(l, w, next, at)
           /\ found' = Gated(WordFindings(w, at, next, l, k, zeros, n, dead), sides')
<1>. PICK w, at, l, n : /\ w = CHOOSE x \in ahead : TRUE
                        /\ at = Len(buf) + 1
                        /\ l = [Entered(lv, side) EXCEPT !.table = @ \ forgotten]
                        /\ n = Number(l, w, next, at)
  OBVIOUS
<1>. PICK ms : ms = leaving \cup (IF side THEN Machines ELSE {})
  OBVIOUS
<1>. PICK k, zeros, dead : /\ k = KvEntered(kv, side) /\ zeros = IF side THEN NoZeros ELSE wzx
                           /\ dead = DeadWrites(dw, w, n.same, next, at)
  OBVIOUS
<1>1. /\ ahead # {} /\ buf' = Append(buf, w) /\ reach' = Append(reach, ms) /\ leaving' = Successors(Last(reach'), w)
      /\ Numbering(w, at, next, side, l, k, zeros, n)
  BY DEF Read
<1>2. lv' = n.lv /\ found' = Gated(WordFindings(w, at, next, l, k, zeros, n, dead), sides')
  BY <1>1 DEF Numbering, Tracked
<1>3. w \in Instructions
  BY <1>1 DEF NumbersInv
<1>4. Last(reach') = ms
  <2>1. reach \in Seq(SUBSET Contents)
    BY DEF NumbersInv
  <2>. QED
    BY <1>1, <2>1 DEF Last
<1>5. Sane(l) /\ \A m \in Contents : (side \/ ~lv.valid \/ TrueOf(lv, m)) => TrueOf(l, m)
  <2>1. lv.valid => Sane(lv)
    BY DEF NumbersInv
  <2>. QED
    BY <2>1, EnteredTrue
<1>6. ms \subseteq Contents /\ \A m \in ms : TrueOf(l, m)
  BY <1>5, FactsAssumption DEF NumbersInv
<1>7. ReadAs(w, at, side, l, n, ms)
  BY <1>1, <1>2, <1>3, <1>4, <1>5, <1>6 DEF ReadAs
<1>. QED
  BY <1>2, <1>7

LEMMA NumbersStep == NumbersInv /\ [Next]_vars => NumbersInv'
<1>. SUFFICES ASSUME NumbersInv, [Next]_vars PROVE NumbersInv'
  OBVIOUS
<1>1. CASE UNCHANGED vars
  <2>1. lv.valid => Sane(lv) /\ \A m \in leaving : TrueOf(lv, m)
    BY DEF NumbersInv
  <2>2. lv' = lv /\ leaving' = leaving
    BY <1>1 DEF vars
  <2>3. lv'.valid => Sane(lv') /\ \A m \in leaving' : TrueOf(lv', m)
    BY <2>1, <2>2
  <2>4. (lv.valid => Sane(lv) /\ \A m \in leaving : TrueOf(lv, m))'
    BY <2>3 DEF Sane, TrueOf, KnownTrue, Knows, Meant
  <2>. QED
    BY <1>1, <2>4 DEF NumbersInv, vars
<1>2. CASE Next
  <2>. PICK next \in IF Len(buf) + 2 > Len(Programs[program].words) THEN {{}}
                     ELSE {{w} : w \in Programs[program].words[Len(buf) + 2]} :
         \/ Flush(next)
         \/ \E side \in IF Cardinality(sides) < Programs[program].entries THEN BOOLEAN ELSE {FALSE},
               forgotten \in {{}} \cup {{e} : e \in lv.table} : Read(next, side, forgotten)
    BY <1>2 DEF Next
  <2>1. next \in {{}} \cup {{w} : w \in Instructions}
    BY NextWord
  <2>2. CASE Flush(next)
    <3>. PICK w \in ahead : buf' = Append(buf, w)
      BY <2>2 DEF Flush
    <3>1. w \in Instructions
      BY DEF NumbersInv
    <3>2. /\ ahead' = next /\ program' = program /\ reach' = Append(reach, leaving) /\ leaving' = Machines
          /\ lv' = [lv EXCEPT !.valid = FALSE]
      BY <2>2 DEF Flush
    <3>3. buf' \in Seq(Instructions) /\ reach' \in Seq(SUBSET Contents) /\ Len(reach') = Len(buf')
      BY <3>1, <3>2 DEF NumbersInv
    <3>4. "valid" \in DOMAIN lv' /\ ~lv'.valid
      BY <3>2 DEF NumbersInv
    <3>. QED
      BY <2>1, <3>2, <3>3, <3>4, FactsAssumption DEF NumbersInv
  <2>3. CASE \E side \in IF Cardinality(sides) < Programs[program].entries THEN BOOLEAN ELSE {FALSE},
               forgotten \in {{}} \cup {{e} : e \in lv.table} : Read(next, side, forgotten)
    <3>. PICK side \in IF Cardinality(sides) < Programs[program].entries THEN BOOLEAN ELSE {FALSE},
              forgotten \in {{}} \cup {{e} : e \in lv.table} : Read(next, side, forgotten)
      BY <2>3
    <3>8. side \in BOOLEAN
      OBVIOUS
    <3>. PICK w, at, l, n, ms : ReadAs(w, at, side, l, n, ms) /\ n = Number(l, w, next, at)
      BY <3>8, ReadIs
    <3>1. /\ w \in Instructions /\ Sane(l) /\ ms \subseteq Contents /\ \A m \in ms : TrueOf(l, m)
          /\ buf' = Append(buf, w) /\ reach' = Append(reach, ms) /\ leaving' = Successors(ms, w)
          /\ lv' = n.lv /\ ahead' = next /\ program' = program
      BY DEF ReadAs, Read
    <3>2. /\ Sane(n.lv) /\ "valid" \in DOMAIN n.lv /\ (EndsRegion(w) => ~n.lv.valid)
          /\ \A m : TrueOf(l, m) => TrueOf(n.lv, Exec(m, w))
      BY <3>1, NumberSound
    <3>3. buf' \in Seq(Instructions) /\ reach' \in Seq(SUBSET Contents) /\ Len(reach') = Len(buf')
      BY <3>1 DEF NumbersInv
    <3>4. w.op \notin Terminal => \A m \in leaving' : TrueOf(n.lv, m)
      BY <3>1, <3>2, SuccessorsOf
    <3>5. leaving' \subseteq Contents
      <4>1. CASE w.op \in Terminal
        BY <3>1, <4>1, FactsAssumption DEF Successors
      <4>2. CASE w.op \notin Terminal
        BY <3>4, <4>2 DEF TrueOf
      <4>. QED
        BY <4>1, <4>2
    <3>6. /\ "valid" \in DOMAIN lv'
          /\ lv'.valid => Sane(lv') /\ \A m \in leaving' : TrueOf(lv', m)
      <4>1. w.op \in Terminal => ~n.lv.valid
        BY <3>2 DEF EndsRegion
      <4>. QED
        BY <3>1, <3>2, <3>4, <4>1
    <3>7. (lv.valid => Sane(lv) /\ \A m \in leaving : TrueOf(lv, m))'
      BY <3>6 DEF Sane, TrueOf, KnownTrue, Knows, Meant
    <3>. QED
      BY <2>1, <3>1, <3>3, <3>5, <3>6, <3>7 DEF NumbersInv
  <2>. QED
    BY <2>2, <2>3
<1>. QED
  BY <1>1, <1>2

LEMMA NumbersTell == NumbersInv => NumbersTrue
<1>. SUFFICES ASSUME NumbersInv, lv.valid, NEW m \in leaving
     PROVE  /\ \A s, t \in Gprs \cup {"sp"} : lv.vn[s] = lv.vn[t] => Holding(m, s) = Holding(m, t)
            /\ \A r \in Gprs : \A c \in lv.known[r] :
                 m.x[r] = IF c.rel THEN AddWithCarry(m.base, c.v, FALSE, W).v ELSE c.v
  BY DEF NumbersTrue
<1>1. TrueOf(lv, m)
  BY DEF NumbersInv
<1>. PICK val : Knows(lv, m, val)
  BY <1>1 DEF TrueOf
<1>2. \A s, t \in Gprs \cup {"sp"} : lv.vn[s] = lv.vn[t] => Holding(m, s) = Holding(m, t)
  <2>1. \A s \in Slots : val[lv.vn[s]] = Holding(m, s)
    BY DEF Knows
  <2>. QED
    BY <2>1 DEF Slots
<1>3. \A r \in Gprs : \A c \in lv.known[r] :
        m.x[r] = IF c.rel THEN AddWithCarry(m.base, c.v, FALSE, W).v ELSE c.v
  BY <1>1 DEF TrueOf, KnownTrue, Meaning, Added
<1>. QED
  BY <1>2, <1>3

\* Registers of one number hold one value in every machine that goes on, and
\* what is known to be constant is (the comment before lvn_reset;
\* lvn_const_value), for every buffer, entry and register width.
THEOREM NumbersAlwaysTrue == Spec => []NumbersTrue
<1>1. Init => NumbersInv
  BY NumbersInit
<1>2. NumbersInv /\ [Next]_vars => NumbersInv'
  BY NumbersStep
<1>3. NumbersInv => NumbersTrue
  BY NumbersTell
<1>. QED
  BY <1>1, <1>2, <1>3, PTL DEF Spec

-----------------------------------------------------------------------------
(* One owner.                                                              *)

\* A computation is numbered after what it reads.
Older(l) == \A e \in l.table : \A i \in DOMAIN e.key.in : e.key.in[i] < e.vn

LEMMA NumberedOlder ==
  ASSUME NEW l, Sane(l), Older(l), NEW key, KeyOver(key, l.next)
  PROVE  Older(Numbered(l, key))
<1>1. CASE \E e \in l.table : e.key = key
  BY <1>1 DEF Numbered
<1>2. CASE ~\E e \in l.table : e.key = key
  <2>. PICK new : new = [key |-> key, vn |-> l.next + 1]
    OBVIOUS
  <2>1. Numbered(l, key).table = l.table \cup {new}
    BY <1>2 DEF Numbered, Sane
  <2>2. \A i \in DOMAIN key.in : key.in[i] < l.next + 1
    BY DEF KeyOver, Sane
  <2>. QED
    BY <2>1, <2>2 DEF Older
<1>. QED
  BY <1>1, <1>2

LEMMA InputsOlder ==
  ASSUME NEW l, Sane(l), Older(l), NEW w \in Instructions, w.op \in ComputeOps,
         NEW vn, NumbersIn(l, w, vn), NEW c, c = ByInputs(l, w, Inputs(l, w, vn))
  PROVE  Older(c.lv) /\ \A i \in DOMAIN LvnIn(w) : vn[LvnIn(w)[i]] < c.result
<1>. PICK word, in : word = KeyWord(w) /\ in = Inputs(l, w, vn)
  OBVIOUS
<1>. PICK result, flags : result = Key("result", word, in, {}) /\ flags = Key("flags", word, in, {})
  OBVIOUS
<1>. PICK l1 : l1 = Numbered(l, result)
  OBVIOUS
<1>. PICK l2 : l2 = IF SetsFlags(w) THEN Numbered(l1, flags) ELSE l1
  OBVIOUS
<1>1. c.lv = l2 /\ c.result = NumberOf(l2, result)
  BY DEF ByInputs
<1>2. KeyOver(result, l.next) /\ \A i \in DOMAIN LvnIn(w) : i \in DOMAIN result.in /\ result.in[i] = vn[LvnIn(w)[i]]
  BY SourcesNumbered
<1>3. KeyOver(flags, l.next)
  BY SourcesNumbered
<1>4. /\ Sane(l1) /\ l1.next \in Nat /\ l.next \in Nat /\ l.next <= l1.next
      /\ \E e \in l1.table : e.key = result
  BY <1>2, NumberedSane DEF Sane
<1>5. Older(l1) /\ KeyOver(flags, l1.next)
  BY <1>2, <1>3, <1>4, NumberedOlder, KeyAbove
<1>6. Older(l2) /\ \E e \in l2.table : e.key = result
  BY <1>4, <1>5, NumberedOlder, NumberedSane
<1>. PICK e \in l2.table : e.key = result /\ e.vn = NumberOf(l2, result)
  BY <1>6, NumberOfIs
<1>7. \A i \in DOMAIN result.in : result.in[i] < e.vn
  BY <1>6 DEF Older
<1>. QED
  BY <1>1, <1>2, <1>6, <1>7

LEMMA WordOlder ==
  ASSUME NEW l, Sane(l), Older(l), NEW w \in Instructions, w.op \in ComputeOps
  PROVE  /\ Older(ByWord(l, w).lv)
         /\ \A i \in DOMAIN LvnIn(w) : LvnIn(w)[i] \in Slots => l.vn[LvnIn(w)[i]] < ByWord(l, w).result
<1>. PICK zc, zero : zc = [v |-> {}, rel |-> FALSE] /\ zero = ConstKey(zc)
  OBVIOUS
<1>. PICK l0 : l0 = IF "zr" \in Range(LvnIn(w)) THEN Numbered(l, zero) ELSE l
  OBVIOUS
<1>. PICK vn : vn = [s \in Slots \cup {"zr"} |-> IF s = "zr" THEN NumberOf(l0, zero) ELSE l.vn[s]]
  OBVIOUS
<1>. PICK c : c = ByInputs(l0, w, Inputs(l0, w, vn))
  OBVIOUS
<1>1. ByWord(l, w) = c
  BY DEF ByWord
<1>2. KeyOver(zero, l.next)
  <2>1. zc \in Constants
    BY DEF Constants
  <2>. QED
    BY <2>1, ConstKeyIs
<1>3. l.next \in Nat /\ l.vn \in [Slots -> 1 .. l.next]
  BY DEF Sane
<1>4. /\ Grown(l, l0)
      /\ "zr" \in Range(LvnIn(w)) => \E e \in l0.table : e.key = zero
  BY <1>2, <1>3, NumberedSane DEF Grown
<1>5. Older(l0)
  BY <1>2, NumberedOlder
<1>6. /\ "zr" \in Range(LvnIn(w)) => vn["zr"] \in 1 .. l0.next
      /\ \A s \in Slots : vn[s] = l.vn[s] /\ vn[s] \in 1 .. l0.next
  <2>1. vn["zr"] = NumberOf(l0, zero) /\ \A s \in Slots : vn[s] = l.vn[s]
    BY SlotNames
  <2>2. \A s \in Slots : l.vn[s] \in 1 .. l0.next
    BY <1>3, <1>4 DEF Grown
  <2>. QED
    BY <1>4, <2>1, <2>2, NumberIn DEF Grown
<1>7. /\ DOMAIN LvnIn(w) = 1 .. Len(LvnIn(w))
      /\ \A i \in DOMAIN LvnIn(w) : LvnIn(w)[i] \in Slots \/ (LvnIn(w)[i] = "zr" /\ "zr" \in Range(LvnIn(w)))
  BY SourcesOf DEF Sources, Range
<1>8. NumbersIn(l0, w, vn)
  BY <1>6, <1>7 DEF NumbersIn, Slots
<1>9. Older(c.lv) /\ \A i \in DOMAIN LvnIn(w) : vn[LvnIn(w)[i]] < c.result
  BY <1>4, <1>5, <1>8, InputsOlder DEF Grown
<1>. QED
  BY <1>1, <1>6, <1>9

LEMMA PureComputes ==
  ASSUME NEW w \in Instructions, Pure(w)
  PROVE  w.op \in ComputeOps
<1>1. w.op \notin Impure
  BY DEF Pure
<1>. QED
  BY <1>1, InstructionIs DEF Impure

\* A field extracted in place is never the number its register carries: no
\* computation is numbered as what it reads.
LEMMA NumberOlder ==
  ASSUME NEW l, Sane(l), Older(l), NEW w \in Instructions, NEW ahd, NEW at, NEW n, n = Number(l, w, ahd, at)
  PROVE  /\ Older(n.lv)
         /\ w.op = "ubfx" /\ w.d = w.n /\ w.d # R31 => ~n.same
<1>. PICK c : c = IF Pure(w) THEN Computed(l, w) ELSE [lv |-> l, result |-> 0, flags |-> 0, known |-> {}]
  OBVIOUS
<1>1. n.lv = Assign(l, w, c, at) /\ n.same = (Pure(w) /\ Same(l, w, c))
  BY DEF Number, NumberedAs
<1>2. n.lv.table = c.lv.table
  BY <1>1 DEF Assign
<1>3. ASSUME Pure(w)
      PROVE  /\ Older(Computed(l, w).lv)
             /\ w.op = "ubfx" /\ w.d = w.n /\ w.d # R31 => l.vn[w.d] < Computed(l, w).result
  <2>1. w.op \in ComputeOps
    BY <1>3, PureComputes
  <2>2. CASE LvnConst(l, w) # {}
    <3>. PICK x \in LvnConst(l, w) : x = CHOOSE y \in LvnConst(l, w) : TRUE
      BY <2>2
    <3>1. x \in Constants
      BY ConstTyped DEF Sane
    <3>2. Older(Numbered(l, ConstKey(x)))
      BY <3>1, ConstKeyIs, NumberedOlder
    <3>3. Computed(l, w).lv = Numbered(l, ConstKey(x))
      BY <2>2 DEF Computed, Numbers, ByConst
    <3>4. w.op # "ubfx"
      BY <2>2 DEF LvnConst
    <3>. QED
      BY <3>2, <3>3, <3>4
  <2>3. CASE LvnConst(l, w) = {} /\ Copy(w)
    BY <2>3 DEF Computed, Numbers, Copy, MovX
  <2>4. CASE LvnConst(l, w) = {} /\ ~Copy(w)
    <3>1. Computed(l, w) = ByWord(l, w)
      BY <2>4 DEF Computed, Numbers
    <3>2. w.op = "ubfx" /\ w.d = w.n /\ w.d # R31 => 1 \in DOMAIN LvnIn(w) /\ LvnIn(w)[1] = w.d /\ w.d \in Slots
      BY <2>1, SourcesOf, InstructionIs DEF FirstSource, ZrOr, Slots, SpSource, ImmArithOps, ExtArithOps, Immediates, MoveOps
    <3>. QED
      BY <2>1, <3>1, <3>2, WordOlder
  <2>. QED
    BY <2>2, <2>3, <2>4
<1>4. Older(c.lv)
  BY <1>3
<1>5. ASSUME w.op = "ubfx", w.d = w.n, w.d # R31, n.same PROVE FALSE
  <2>1. Pure(w) /\ l.vn[w.d] < Computed(l, w).result /\ c = Computed(l, w)
    BY <1>1, <1>3, <1>5
  <2>2. LvnOut(w) = w.d /\ w.d \in Gprs
    BY <1>5, InstructionIs DEF LvnOut, ZrOr, CondCmpOps, CondCmpImmOps, SpDest
  <2>3. l.vn[w.d] = c.result
    <3>1. Same(l, w, c)
      BY <1>1, <1>5
    <3>2. w.d # "zr"
      BY <2>2, SlotNames DEF Slots
    <3>. QED
      BY <2>2, <3>1, <3>2 DEF Same
  <2>4. l.vn[w.d] \in 1 .. l.next /\ l.next \in Nat
    BY <2>2 DEF Sane, Slots
  <2>. QED
    BY <2>1, <2>3, <2>4
<1>. QED
  BY <1>2, <1>4, <1>5 DEF Older

\* The region a word finds.
LEMMA EnteredOlder ==
  ASSUME NEW side \in BOOLEAN, NEW forgotten, NEW l, l = [Entered(lv, side) EXCEPT !.table = @ \ forgotten],
         lv.valid => Sane(lv) /\ Older(lv)
  PROVE  Older(l)
<1>. PICK e : e = Entered(lv, side)
  OBVIOUS
<1>1. e = Region \/ (e = lv /\ lv.valid)
  BY DEF Entered
<1>2. Older(Region) /\ Sane(Region)
  BY FirstNumbers DEF Region, Sane, Older
<1>3. Older(e) /\ l.table = e.table \ forgotten
  BY <1>1, <1>2 DEF Sane
<1>. QED
  BY <1>3 DEF Older
-----------------------------------------------------------------------------
\* The checks of the words' findings, and the words they are of.
LEMMA FindingIs ==
  \A check, first, last, new, dead :
    /\ Finding(check, first, last, new, dead).check = check
    /\ Finding(check, first, last, new, dead).first = first
    /\ DOMAIN Finding(check, first, last, new, dead) = {"check", "from", "first", "last", "new", "dead"}
BY DEF Finding

LEMMA ConsumptionIs ==
  \A check, c, w, at, new : Consumption(check, c, w, at, new).check = check
BY FindingIs DEF Consumption

LEMMA EachIs ==
  ASSUME NEW ch, NEW div, NEW w, NEW at
  PROVE  /\ \A f \in MulReduce(ch, w, at) : f.check = "mul"
         /\ \A f \in MnegReduce(ch, w, at) : f.check = "mneg"
         /\ \A f \in UdivReduce(ch, w, at) : f.check = "udiv"
         /\ \A f \in MaddFold(ch, w, at) : f.check = "madd"
         /\ \A f \in Remainder(div, w, at) : f.check = "remainder"
         /\ \A f \in AmountFold(ch, w, at) : f.check = "shift"
         /\ \A f \in CcmpFold(ch, w, at) : f.check = "ccmp"
         /\ \A f \in CselFold(ch, w, at) : f.check = "csel"
<1>1. ASSUME NEW f \in MulReduce(ch, w, at) PROVE f.check = "mul"
  <2>1. \E x, y : f = Consumption("mul", x, w, at, y)
    BY Zenon DEF MulReduce, Each
  <2>. QED
    BY <2>1, ConsumptionIs
<1>2. ASSUME NEW f \in MnegReduce(ch, w, at) PROVE f.check = "mneg"
  <2>1. \E x, y : f = Consumption("mneg", x, w, at, y)
    BY Zenon DEF MnegReduce, Each
  <2>. QED
    BY <2>1, ConsumptionIs
<1>3. ASSUME NEW f \in UdivReduce(ch, w, at) PROVE f.check = "udiv"
  <2>1. \E x, y : f = Consumption("udiv", x, w, at, y)
    BY Zenon DEF UdivReduce, Each
  <2>. QED
    BY <2>1, ConsumptionIs
<1>4. ASSUME NEW f \in MaddFold(ch, w, at) PROVE f.check = "madd"
  <2>1. \E x, y : f = Consumption("madd", x, w, at, y)
    BY Zenon DEF MaddFold, Each
  <2>. QED
    BY <2>1, ConsumptionIs
<1>5. ASSUME NEW f \in Remainder(div, w, at) PROVE f.check = "remainder"
  <2>1. \E x : f = Finding("remainder", x.start, at, <<Masked("andi", w.sf, w.d, x.of, Low(x.n))>>,
                            {x.q, x.by} \ {w.d})
    BY Zenon DEF Remainder
  <2>. QED
    BY <2>1, FindingIs
<1>6. ASSUME NEW f \in AmountFold(ch, w, at) PROVE f.check = "shift"
  <2>1. \E x, y : f = Consumption("shift", x, w, at, y)
    BY Zenon DEF AmountFold, Each
  <2>. QED
    BY <2>1, ConsumptionIs
<1>7. ASSUME NEW f \in CcmpFold(ch, w, at) PROVE f.check = "ccmp"
  <2>. DEFINE New(v, r) ==
         LET crossed == NatOf[v] >= 2^CmpBits
             k       == IF crossed THEN Negated(v, w.sf) ELSE NatOf[v]
             op      == IF (w.op = "ccmp") # crossed THEN "ccmpi" ELSE "ccmni"
         IN  {CondCmpImm(op, w.sf, r, kk, w.cond, w.mask) :
                kk \in {kk \in {k} \cap 0 .. 2^CmpBits - 1 : crossed => Top(w.sf) \in v}}
  <2>1. \E x : f \in {Consumption("ccmp", x[1], w, at, <<new>>) : new \in New(x[1].v, x[2])}
    BY ZenonT(30) DEF CcmpFold, Each
  <2>. HIDE DEF New
  <2>2. \E x, y : f = Consumption("ccmp", x, w, at, y)
    BY Zenon, <2>1
  <2>. QED
    BY <2>2, ConsumptionIs
<1>8. ASSUME NEW f \in CselFold(ch, w, at) PROVE f.check = "csel"
  <2>. DEFINE Op(v) == IF v = {0} THEN "csinc" ELSE "csinv"
              New(v, d) ==
                IF w.n = d THEN Select(Op(v), w.sf, w.d, w.m, R31, Invert[w.cond])
                ELSE Select(Op(v), w.sf, w.d, w.n, R31, w.cond)
  <2>1. \E c : f = Consumption("csel", c, w, at, <<New(c.v, c.d)>>)
    BY Zenon DEF CselFold
  <2>. HIDE DEF New
  <2>. QED
    BY <2>1, ConsumptionIs
<1>. QED
  BY <1>1, <1>2, <1>3, <1>4, <1>5, <1>6, <1>7, <1>8

LEMMA ZerosAre ==
  \A ch, w, at :
    \A f \in ZeroStored(ch, w, at) \cup ZeroAdded(ch, w, at) \cup ZeroLogic(ch, w, at)
              \cup ZeroSelected(ch, w, at) \cup ZeroCompared(ch, w, at) : f.check = "zero"
<1>1. \A c, w, at : ZeroFinding(c, w, at).check = "zero"
  BY FindingIs DEF ZeroFinding
<1>. QED
  BY <1>1 DEF ZeroStored, ZeroAdded, ZeroLogic, ZeroSelected, ZeroCompared

LEMMA ChainFindings ==
  ASSUME NEW ch, NEW k, NEW w, NEW at
  PROVE  /\ \A f \in AddSubImm(ch, w, at) : f.check = "add_imm"
         /\ \A f \in AddSubSplit(ch, w, at) : f.check = "add_split"
         /\ \A f \in LogicFold(ch, w, at) : f.check = "logic_imm"
         /\ \A f \in KnownBitsFold(ch, k, w, at) : f.check = "known_bits"
         /\ \A f \in CageFold(ch, w, at) : f.check = "cage"
         /\ \A f \in CheapCopy(ch, w, at) : f.check = "cheap_copy"
         /\ \A f \in ChainClosed(ch, w, at) : f.check = "suboptimal"
<1>1. ASSUME NEW f \in AddSubImm(ch, w, at) PROVE f.check = "add_imm"
  <2>1. \E x, y : f \in ImmFold(x, y, w, at)
    BY DEF AddSubImm
  <2>2. \A x, y : f \in ImmFold(x, y, w, at) => \E z : f = Consumption("add_imm", x, w, at, z)
    BY DEF ImmFold
  <2>. QED
    BY <2>1, <2>2, ConsumptionIs
<1>2. ASSUME NEW f \in AddSubSplit(ch, w, at) PROVE f.check = "add_split"
  <2>1. \E x, y : f \in SplitFold(x, y, w, at)
    BY DEF AddSubSplit
  <2>2. \A x, y : f \in SplitFold(x, y, w, at) => \E z : f = Consumption("add_split", x, w, at, z)
    BY DEF SplitFold
  <2>. QED
    BY <2>1, <2>2, ConsumptionIs
<1>3. ASSUME NEW f \in LogicFold(ch, w, at) PROVE f.check = "logic_imm"
  <2>1. \E x : f = Consumption("logic_imm", x[1], w, at,
                               <<Masked(LogicImm(w.op), w.sf, w.d, x[2], Direct(x[1], w))>>)
    BY Zenon DEF LogicFold
  <2>. QED
    BY <2>1, ConsumptionIs
<1>4. ASSUME NEW f \in KnownBitsFold(ch, k, w, at) PROVE f.check = "known_bits"
  <2>. DEFINE Of(x, may) ==
         {Consumption("known_bits", x[1], w, at, <<Masked(LogicImm(w.op), w.sf, w.d, x[2], v)>>) :
            v \in Nearest(Direct(x[1], w), may, Width(w.sf))}
       Over(x) == UNION {Of(x, may) : may \in {may \in MayBits(k, x[2], w.sf) : Direct(x[1], w) \cap may # {}}}
       X == {x \in ch \X Gprs :
               /\ LogicConsumer(w, {"and", "bic", "ands", "bics"}) /\ x[1].sf = w.sf
               /\ x[2] \in Consumed(x[1], w, w.op \in InvertedOps)
               /\ ~Bitmask(Direct(x[1], w), w.sf)}
  <2>1. f \in UNION {Over(x) : x \in X}
    BY Zenon DEF KnownBitsFold
  <2>2. \A x, may : f \in Of(x, may) => \E z, y : f = Consumption("known_bits", z, w, at, y)
    BY Zenon
  <2>. HIDE DEF Of
  <2>3. \A x : f \in Over(x) => \E may : f \in Of(x, may)
    OBVIOUS
  <2>. HIDE DEF Over, X
  <2>. QED
    BY <2>1, <2>2, <2>3, ConsumptionIs
<1>5. ASSUME NEW f \in CageFold(ch, w, at) PROVE f.check = "cage"
  <2>1. \E x : f = Consumption("cage", x[1], w, at, <<Shifted("addi", TRUE, w.d, x[2], NatOf[x[1].v])>>)
    BY Zenon DEF CageFold
  <2>. QED
    BY <2>1, ConsumptionIs
<1>6. ASSUME NEW f \in CheapCopy(ch, w, at) PROVE f.check = "cheap_copy"
  <2>1. \E c : f = [Finding("cheap_copy", at, at, <<MovImm(w.sf, w.d, c.v \cap Mask(w.sf))>>, {})
                      EXCEPT !.from = c.start]
    BY Zenon DEF CheapCopy
  <2>. QED
    BY <2>1 DEF Finding
<1>7. ASSUME NEW f \in ChainClosed(ch, w, at) PROVE f.check = "suboptimal"
  <2>1. \E a, b, y, d : f = Finding("suboptimal", a, b, y, d)
    BY DEF ChainClosed
  <2>. QED
    BY <2>1, FindingIs
<1>. QED
  BY <1>1, <1>2, <1>3, <1>4, <1>5, <1>6, <1>7

\* A finding of a check of single words.
LEMMA WordFindingIs ==
  ASSUME NEW w, NEW at, NEW nx, NEW l, NEW k, NEW zeros, NEW n, NEW dead,
         NEW f \in WordFindings(w, at, nx, l, k, zeros, n, dead), f.check \in WordChecks
  PROVE  \/ n.found /\ f = Finding("recompute", at, at, <<>>, {})
         \/ \E new \in ConstFold(k, buf, at, w, n.same) : f = Finding("const_fold", at, at, new, {})
         \/ \E new \in CselDecided(k, w) : f = Finding("csel_decided", at, at, new, {})
         \/ \E new \in AndKnownNoop(k, zeros, w, at) : f = Finding("and_noop", at, at, new, {})
         \/ \E z \in RedundantZext(zeros, w) : f = [Finding("redundant_zext", at, at, <<>>, {}) EXCEPT !.from = z.at]
<1>. f.check \in {"recompute", "const_fold", "csel_decided", "and_noop", "redundant_zext"}
  BY DEF WordChecks
<1>1. f \notin AddSubImm(chain, w, at) /\ f \notin AddSubSplit(chain, w, at) /\ f \notin LogicFold(chain, w, at)
      /\ f \notin KnownBitsFold(chain, k, w, at) /\ f \notin CageFold(chain, w, at)
      /\ f \notin CheapCopy(chain, w, at) /\ f \notin ChainClosed(chain, w, at)
  <2>1. /\ f \in AddSubImm(chain, w, at) => f.check = "add_imm"
        /\ f \in AddSubSplit(chain, w, at) => f.check = "add_split"
        /\ f \in LogicFold(chain, w, at) => f.check = "logic_imm"
        /\ f \in KnownBitsFold(chain, k, w, at) => f.check = "known_bits"
        /\ f \in CageFold(chain, w, at) => f.check = "cage"
        /\ f \in CheapCopy(chain, w, at) => f.check = "cheap_copy"
        /\ f \in ChainClosed(chain, w, at) => f.check = "suboptimal"
    BY ZenonT(30), ChainFindings
  <2>. QED
    BY <2>1
<1>2. f \notin ChainUses(chain, rem, w, at)
  <2>1. f \in ChainUses(chain, rem, w, at) =>
          f.check \in {"mul", "mneg", "udiv", "madd", "remainder", "shift", "ccmp", "csel", "zero"}
    <3>1. /\ f \in MulReduce(chain, w, at) => f.check = "mul"
          /\ f \in MnegReduce(chain, w, at) => f.check = "mneg"
          /\ f \in UdivReduce(chain, w, at) => f.check = "udiv"
          /\ f \in MaddFold(chain, w, at) => f.check = "madd"
          /\ f \in Remainder(rem, w, at) => f.check = "remainder"
          /\ f \in AmountFold(chain, w, at) => f.check = "shift"
          /\ f \in CcmpFold(chain, w, at) => f.check = "ccmp"
          /\ f \in CselFold(chain, w, at) => f.check = "csel"
      BY ZenonT(30), EachIs
    <3>2. f \in ZeroStored(chain, w, at) \cup ZeroAdded(chain, w, at) \cup ZeroLogic(chain, w, at)
                 \cup ZeroSelected(chain, w, at) \cup ZeroCompared(chain, w, at) => f.check = "zero"
      BY Zenon, ZerosAre
    <3>. QED
      BY <3>1, <3>2 DEF ChainUses
  <2>. QED
    BY <2>1
<1>3. f \notin DeadWriteFound(dead, Append(buf, w))
  <2>1. f \in DeadWriteFound(dead, Append(buf, w)) => f.check = "dead_write"
    BY DEF DeadWriteFound, Finding
  <2>. QED
    BY <2>1
<1>. QED
  BY <1>1, <1>2, <1>3 DEF WordFindings

-----------------------------------------------------------------------------
\* Each of these checks claims a word once.
Lone(S) == \A x, y \in S : x = y

LEMMA ExactLone == \A f : Lone(Exact(f))
BY DEF Exact, Lone

LEMMA FoldLone ==
  ASSUME NEW k, NEW words, NEW at, NEW w, NEW same
  PROVE  Lone(ConstFold(k, words, at, w, same))
<1>. DEFINE E == Exact(KvOpFact(k, words, at, w))
            Of(v) == IF v \in KvValue(k, w.d, FALSE) THEN {<<>>}
                     ELSE IF OneInstructionConstant(v, Size(w)) THEN {<<MovImm(w.sf, w.d, v)>>} ELSE {}
<1>1. ConstFold(k, words, at, w, same) = {} \/ ConstFold(k, words, at, w, same) = UNION {Of(v) : v \in E}
  BY Zenon DEF ConstFold
<1>2. Lone(E)
  BY ExactLone
<1>3. \A v : Lone(Of(v))
  BY DEF Lone
<1>. HIDE DEF E, Of
<1>. QED
  BY <1>1, <1>2, <1>3 DEF Lone

LEMMA CselLone ==
  ASSUME NEW k, NEW w
  PROVE  Lone(CselDecided(k, w))
<1>1. CselDecided(k, w) = {} \/ CselDecided(k, w) = {Taken(w, d = 1) : d \in {DecideCond(k, w.cond)} \ {-1}}
  BY Zenon DEF CselDecided
<1>. QED
  BY <1>1 DEF Lone

LEMMA NoopLone ==
  ASSUME NEW k, NEW zeros, NEW w, NEW at
  PROVE  Lone(AndKnownNoop(k, zeros, w, at))
BY DEF AndKnownNoop, Lone

\* The words the checks claim.
LEMMA Claimed ==
  ASSUME NEW k, NEW zeros, NEW w, NEW at, NEW words, NEW same
  PROVE  /\ ConstFold(k, words, at, w, same) # {} => ~same /\ ~NotFolded(w)
         /\ CselDecided(k, w) # {} => w.op \in SelectOps
         /\ AndKnownNoop(k, zeros, w, at) # {} =>
              /\ w.op = "andi" \/ UbfxZero(w)
              /\ w.d = w.n => ~\E c \in ZextWidth(w) : \E z \in zeros[w.n] : z.from <= c
         /\ RedundantZext(zeros, w) # {} =>
              ZextInPlace(w) /\ \E c \in ZextWidth(w) : \E z \in zeros[w.d] : z.from <= c
<1>1. ConstFold(k, words, at, w, same) # {} => ~same /\ ~NotFolded(w)
  BY DEF ConstFold
<1>2. CselDecided(k, w) # {} => w.op \in SelectOps
  BY DEF CselDecided
<1>3. AndKnownNoop(k, zeros, w, at) # {} =>
        /\ w.op = "andi" \/ UbfxZero(w)
        /\ w.d = w.n => ~\E c \in ZextWidth(w) : \E z \in zeros[w.n] : z.from <= c
  BY DEF AndKnownNoop
<1>4. RedundantZext(zeros, w) # {} =>
        ZextInPlace(w) /\ \E c \in ZextWidth(w) : \E z \in zeros[w.d] : z.from <= c
  BY DEF RedundantZext
<1>. QED
  BY <1>1, <1>2, <1>3, <1>4

LEMMA InPlace ==
  ASSUME NEW w, ZextInPlace(w)
  PROVE  /\ MovWSelf(w) \/ (UbfxZero(w) /\ w.d = w.n /\ w.d # R31) \/ (LowMask(w) /\ w.d = w.n /\ w.d # R31)
         /\ w.op \in {"orr", "ubfx", "andi"} /\ w.d # R31
BY DEF ZextInPlace, ZextWidth, UbfxZero, LowMask, MovWSelf

\* A word's findings of these checks.
LEMMA OwnedOnce ==
  ASSUME NEW l, Sane(l), Older(l), NEW w \in Instructions, NEW next, NEW at, NEW n, n = Number(l, w, next, at),
         NEW k, NEW zeros, \A r \in Gprs : Lone(zeros[r]), NEW dead,
         NEW f \in WordFindings(w, at, next, l, k, zeros, n, dead),
         NEW g \in WordFindings(w, at, next, l, k, zeros, n, dead),
         {f.check, g.check} \subseteq WordChecks, {f.check, g.check} \notin Shared
  PROVE  f = g
<1>. DEFINE Is(x) == \/ x.check = "recompute" /\ n.found /\ x = Finding("recompute", at, at, <<>>, {})
                     \/ x.check = "const_fold"
                        /\ \E new \in ConstFold(k, buf, at, w, n.same) : x = Finding("const_fold", at, at, new, {})
                     \/ x.check = "csel_decided"
                        /\ \E new \in CselDecided(k, w) : x = Finding("csel_decided", at, at, new, {})
                     \/ x.check = "and_noop"
                        /\ \E new \in AndKnownNoop(k, zeros, w, at) : x = Finding("and_noop", at, at, new, {})
                     \/ x.check = "redundant_zext"
                        /\ \E z \in RedundantZext(zeros, w) :
                             x = [Finding("redundant_zext", at, at, <<>>, {}) EXCEPT !.from = z.at]
<1>1. ASSUME NEW x \in WordFindings(w, at, next, l, k, zeros, n, dead), x.check \in WordChecks PROVE Is(x)
  <2>1. \/ n.found /\ x = Finding("recompute", at, at, <<>>, {})
        \/ \E new \in ConstFold(k, buf, at, w, n.same) : x = Finding("const_fold", at, at, new, {})
        \/ \E new \in CselDecided(k, w) : x = Finding("csel_decided", at, at, new, {})
        \/ \E new \in AndKnownNoop(k, zeros, w, at) : x = Finding("and_noop", at, at, new, {})
        \/ \E z \in RedundantZext(zeros, w) : x = [Finding("redundant_zext", at, at, <<>>, {}) EXCEPT !.from = z.at]
    BY <1>1, WordFindingIs
  <2>2. \A c, new : Finding(c, at, at, new, {}).check = c
    BY FindingIs
  <2>3. \A from : [Finding("redundant_zext", at, at, <<>>, {}) EXCEPT !.from = from].check = "redundant_zext"
    BY DEF Finding
  <2>. QED
    BY <2>1, <2>2, <2>3
<1>2. Is(f) /\ Is(g)
  BY <1>1
<1>3. /\ ConstFold(k, buf, at, w, n.same) # {} => ~n.same /\ ~NotFolded(w)
      /\ CselDecided(k, w) # {} => w.op \in SelectOps
      /\ AndKnownNoop(k, zeros, w, at) # {} =>
           /\ w.op = "andi" \/ UbfxZero(w)
           /\ w.d = w.n => ~\E c \in ZextWidth(w) : \E z \in zeros[w.n] : z.from <= c
      /\ RedundantZext(zeros, w) # {} =>
           ZextInPlace(w) /\ \E c \in ZextWidth(w) : \E z \in zeros[w.d] : z.from <= c
  BY Claimed
<1>4. n.found => n.same /\ ~Skipped(l, w, next, at)
  BY DEF Number, NumberedAs
<1>5. n.found => RedundantZext(zeros, w) = {}
  <2>. SUFFICES ASSUME n.found, ZextInPlace(w) PROVE FALSE
    BY <1>3
  <2>1. ~(MovWSelf(w) \/ (LowMask(w) /\ w.d = w.n))
    BY <1>4 DEF Skipped
  <2>2. w.op = "ubfx" /\ w.d = w.n /\ w.d # R31
    BY <2>1, InPlace DEF UbfxZero
  <2>. QED
    BY <1>4, <2>2, NumberOlder
<1>6. CselDecided(k, w) # {} => ConstFold(k, buf, at, w, n.same) = {} /\ AndKnownNoop(k, zeros, w, at) = {}
                               /\ RedundantZext(zeros, w) = {}
  <2>1. w.op \in SelectOps => ReadsFlags(w)
    BY DEF ReadsFlags
  <2>2. w.op \in SelectOps => w.op \notin {"orr", "ubfx", "andi"}
    BY DEF SelectOps
  <2>3. ~NotFolded(w) => ~ReadsFlags(w)
    BY DEF NotFolded
  <2>. QED
    BY <1>3, <2>1, <2>2, <2>3, InPlace DEF UbfxZero
<1>7. RedundantZext(zeros, w) # {} => ConstFold(k, buf, at, w, n.same) = {} /\ AndKnownNoop(k, zeros, w, at) = {}
  <2>1. ~NotFolded(w) => ~ZextInPlace(w)
    BY DEF NotFolded
  <2>2. ZextInPlace(w) /\ (w.op = "andi" \/ UbfxZero(w)) => w.d = w.n
    BY InPlace DEF MovWSelf, UbfxZero
  <2>. QED
    BY <1>3, <2>1, <2>2
<1>8. Lone(RedundantZext(zeros, w))
  <2>1. ZextInPlace(w) => w.d \in Gprs
    BY InstructionIs, InPlace
  <2>. QED
    BY <2>1 DEF RedundantZext, Lone
<1>9. /\ Lone(ConstFold(k, buf, at, w, n.same)) /\ Lone(CselDecided(k, w)) /\ Lone(AndKnownNoop(k, zeros, w, at))
  BY FoldLone, CselLone, NoopLone
<1>10. /\ {f.check, g.check} # {"recompute", "csel_decided"} /\ {f.check, g.check} # {"recompute", "and_noop"}
       /\ {f.check, g.check} # {"const_fold", "and_noop"}
  BY DEF Shared
<1>11. CASE f.check = g.check
  BY <1>2, <1>8, <1>9, <1>11 DEF Lone
<1>12. CASE f.check # g.check
  <2>1. n.found => ConstFold(k, buf, at, w, n.same) = {}
    BY <1>3, <1>4
  <2>2. /\ f.check = "recompute" => n.found
        /\ f.check = "const_fold" => ConstFold(k, buf, at, w, n.same) # {}
        /\ f.check = "csel_decided" => CselDecided(k, w) # {}
        /\ f.check = "and_noop" => AndKnownNoop(k, zeros, w, at) # {}
        /\ f.check = "redundant_zext" => RedundantZext(zeros, w) # {}
    BY <1>2
  <2>3. /\ g.check = "recompute" => n.found
        /\ g.check = "const_fold" => ConstFold(k, buf, at, w, n.same) # {}
        /\ g.check = "csel_decided" => CselDecided(k, w) # {}
        /\ g.check = "and_noop" => AndKnownNoop(k, zeros, w, at) # {}
        /\ g.check = "redundant_zext" => RedundantZext(zeros, w) # {}
    BY <1>2
  <2>4. /\ f.check \in {"recompute", "const_fold", "csel_decided", "and_noop", "redundant_zext"}
        /\ g.check \in {"recompute", "const_fold", "csel_decided", "and_noop", "redundant_zext"}
    BY DEF WordChecks
  <2>. HIDE DEF Is
  <2>. QED
    BY <1>5, <1>6, <1>7, <1>10, <1>12, <2>1, <2>2, <2>3, <2>4
<1>. QED
  BY <1>11, <1>12

LEMMA ZeroedLone ==
  ASSUME NEW zeros, \A r \in Gprs : Lone(zeros[r]), NEW w, NEW at
  PROVE  \A r \in Gprs : Lone(ZeroedBy(zeros, w, at)[r])
<1>1. Lone(ZeroFrom(w))
  BY DEF ZeroFrom, Lone
<1>2. Lone({[from |-> x, at |-> at] : x \in ZeroFrom(w)})
  BY <1>1 DEF Lone
<1>. QED
  BY <1>2 DEF ZeroedBy, NoZeros, Lone

-----------------------------------------------------------------------------
OwnersInv ==
  /\ NumbersInv
  /\ lv.valid => Older(lv)
  /\ \A r \in Gprs : Lone(wzx[r])
  /\ OneOwner

\* What a word read leaves, and what the trackers were once entered.
Seen(w, at, next, side, forgotten, l, n, ms, k, zeros, dead) ==
  /\ ReadAs(w, at, side, l, n, ms) /\ n = Number(l, w, next, at)
  /\ l = [Entered(lv, side) EXCEPT !.table = @ \ forgotten]
  /\ k = KvEntered(kv, side) /\ zeros = IF side THEN NoZeros ELSE wzx
  /\ kv' = Commit(k, buf, at, w) /\ wzx' = ZeroedBy(zeros, w, at)
  /\ decided' = BranchDecided(k, w)
  /\ found' = Gated(WordFindings(w, at, next, l, k, zeros, n, dead), sides')

LEMMA ReadSees ==
  ASSUME NumbersInv, NEW next, NEW side \in BOOLEAN, NEW forgotten, Read(next, side, forgotten)
  PROVE  \E w, at, l, n, ms, k, zeros, dead : Seen(w, at, next, side, forgotten, l, n, ms, k, zeros, dead)
<1>. PICK w, at, l, n : /\ w = CHOOSE x \in ahead : TRUE
                        /\ at = Len(buf) + 1
                        /\ l = [Entered(lv, side) EXCEPT !.table = @ \ forgotten]
                        /\ n = Number(l, w, next, at)
  OBVIOUS
<1>. PICK ms : ms = leaving \cup (IF side THEN Machines ELSE {})
  OBVIOUS
<1>. PICK k, zeros, dead : /\ k = KvEntered(kv, side) /\ zeros = IF side THEN NoZeros ELSE wzx
                           /\ dead = DeadWrites(dw, w, n.same, next, at)
  OBVIOUS
<1>1. /\ ahead # {} /\ buf' = Append(buf, w) /\ reach' = Append(reach, ms) /\ leaving' = Successors(Last(reach'), w)
      /\ Numbering(w, at, next, side, l, k, zeros, n) /\ decided' = BranchDecided(k, w)
  BY DEF Read
<1>2. /\ lv' = n.lv /\ found' = Gated(WordFindings(w, at, next, l, k, zeros, n, dead), sides')
      /\ kv' = Commit(k, buf, at, w) /\ wzx' = ZeroedBy(zeros, w, at)
  BY <1>1 DEF Numbering, Tracked
<1>3. w \in Instructions
  BY <1>1 DEF NumbersInv
<1>4. Last(reach') = ms
  <2>1. reach \in Seq(SUBSET Contents)
    BY DEF NumbersInv
  <2>. QED
    BY <1>1, <2>1 DEF Last
<1>5. Sane(l) /\ \A m \in Contents : (side \/ ~lv.valid \/ TrueOf(lv, m)) => TrueOf(l, m)
  <2>1. lv.valid => Sane(lv)
    BY DEF NumbersInv
  <2>. QED
    BY <2>1, EnteredTrue
<1>6. ms \subseteq Contents /\ \A m \in ms : TrueOf(l, m)
  BY <1>5, FactsAssumption DEF NumbersInv
<1>7. ReadAs(w, at, side, l, n, ms)
  BY <1>1, <1>2, <1>3, <1>4, <1>5, <1>6 DEF ReadAs
<1>8. Seen(w, at, next, side, forgotten, l, n, ms, k, zeros, dead)
  BY <1>1, <1>2, <1>7 DEF Seen
<1>. QED
  BY <1>8

LEMMA OwnersInit == Init => OwnersInv
<1>. SUFFICES ASSUME Init PROVE OwnersInv
  OBVIOUS
<1>1. NumbersInv
  BY NumbersInit
<1>2. ~lv.valid /\ found = {} /\ wzx = NoZeros
  BY DEF Init, Region
<1>. QED
  BY <1>1, <1>2 DEF OwnersInv, OneOwner, NoZeros, Lone

LEMMA OwnersStep == OwnersInv /\ [Next]_vars => OwnersInv'
<1>. SUFFICES ASSUME OwnersInv, [Next]_vars PROVE OwnersInv'
  OBVIOUS
<1>0. NumbersInv'
  BY NumbersStep DEF OwnersInv
<1>1. CASE UNCHANGED vars
  <2>1. lv' = lv /\ wzx' = wzx /\ found' = found
    BY <1>1 DEF vars
  <2>. QED
    BY <1>0, <2>1 DEF OwnersInv, Older, OneOwner
<1>2. CASE Next
  <2>. PICK next \in IF Len(buf) + 2 > Len(Programs[program].words) THEN {{}}
                     ELSE {{w} : w \in Programs[program].words[Len(buf) + 2]} :
         \/ Flush(next)
         \/ \E side \in IF Cardinality(sides) < Programs[program].entries THEN BOOLEAN ELSE {FALSE},
               forgotten \in {{}} \cup {{e} : e \in lv.table} : Read(next, side, forgotten)
    BY <1>2 DEF Next
  <2>2. CASE Flush(next)
    <3>1. ~lv'.valid /\ wzx' = NoZeros
      BY <2>2 DEF Flush, OwnersInv, NumbersInv
    <3>2. \A f \in found' : f.check \in {"suboptimal", "dead_write"}
      <4>. PICK fs : /\ found' = Gated(fs, sides)
                     /\ \E at : fs \in {ChainClosed(chain, Plain("data"), at), DeadWriteFound(dw, buf)}
        BY <2>2 DEF Flush
      <4>. PICK at : fs \in {ChainClosed(chain, Plain("data"), at), DeadWriteFound(dw, buf)}
        OBVIOUS
      <4>1. \A f \in ChainClosed(chain, Plain("data"), at) : f.check = "suboptimal"
        BY ChainFindings
      <4>2. \A f \in DeadWriteFound(dw, buf) : f.check = "dead_write"
        BY DEF DeadWriteFound, Finding
      <4>. QED
        BY <4>1, <4>2 DEF Gated
    <3>3. OneOwner'
      <4>. SUFFICES ASSUME NEW f \in found', NEW g \in found', {f.check, g.check} \subseteq WordChecks PROVE FALSE
        BY DEF OneOwner
      <4>. QED
        BY <3>2 DEF WordChecks
    <3>. QED
      BY <1>0, <3>1, <3>3 DEF OwnersInv, NoZeros, Lone
  <2>3. CASE \E side \in IF Cardinality(sides) < Programs[program].entries THEN BOOLEAN ELSE {FALSE},
               forgotten \in {{}} \cup {{e} : e \in lv.table} : Read(next, side, forgotten)
    <3>. PICK side \in IF Cardinality(sides) < Programs[program].entries THEN BOOLEAN ELSE {FALSE},
              forgotten \in {{}} \cup {{e} : e \in lv.table} : Read(next, side, forgotten)
      BY <2>3
    <3>8. side \in BOOLEAN /\ NumbersInv
      BY DEF OwnersInv
    <3>. PICK w, at, l, n, ms, k, zeros, dead : Seen(w, at, next, side, forgotten, l, n, ms, k, zeros, dead)
      BY <3>8, ReadSees
    <3>1. /\ w \in Instructions /\ Sane(l) /\ lv' = n.lv /\ n = Number(l, w, next, at)
          /\ l = [Entered(lv, side) EXCEPT !.table = @ \ forgotten] /\ zeros = IF side THEN NoZeros ELSE wzx
          /\ wzx' = ZeroedBy(zeros, w, at)
          /\ found' = Gated(WordFindings(w, at, next, l, k, zeros, n, dead), sides')
      BY DEF ReadAs, Seen
    <3>2. Older(l)
      <4>1. lv.valid => Sane(lv) /\ Older(lv)
        BY DEF OwnersInv, NumbersInv
      <4>. QED
        BY <3>1, <3>8, <4>1, EnteredOlder
    <3>3. \A r \in Gprs : Lone(zeros[r])
      BY <3>1 DEF OwnersInv, NoZeros, Lone
    <3>4. Older(n.lv)
      BY <3>1, <3>2, NumberOlder
    <3>5. \A r \in Gprs : Lone(wzx'[r])
      BY <3>1, <3>3, ZeroedLone
    <3>6. OneOwner'
      <4>. SUFFICES ASSUME NEW f \in found', NEW g \in found', {f.check, g.check} \subseteq WordChecks,
                           {f.check, g.check} \notin Shared
           PROVE  f = g
        BY DEF OneOwner, WordChecks, Shared
      <4>1. /\ f \in WordFindings(w, at, next, l, k, zeros, n, dead)
            /\ g \in WordFindings(w, at, next, l, k, zeros, n, dead)
        BY <3>1 DEF Gated
      <4>. QED
        BY <3>1, <3>2, <3>3, <4>1, OwnedOnce
    <3>7. (lv.valid => Older(lv))'
      BY <3>1, <3>4 DEF Older
    <3>. QED
      BY <1>0, <3>5, <3>6, <3>7 DEF OwnersInv, Lone
  <2>. QED
    BY <2>2, <2>3
<1>. QED
  BY <1>1, <1>2

\* No two of the checks that leave each other's shapes alone claim one word,
\* and none claims it twice (analyses.md, "Scope of this check" of each),
\* whatever the buffer, its entries and the width.
THEOREM OwnersApart == Spec => []OneOwner
<1>1. Init => OwnersInv
  BY OwnersInit
<1>2. OwnersInv /\ [Next]_vars => OwnersInv'
  BY OwnersStep
<1>3. OwnersInv => OneOwner
  BY DEF OwnersInv
<1>. QED
  BY <1>1, <1>2, <1>3, PTL DEF Spec
=============================================================================
