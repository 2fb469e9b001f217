--------------------------- MODULE PeepholeProofs ---------------------------
(***************************************************************************)
(* Proofs about the folding checks, whatever the buffer and at every width *)
(* of the registers: every word they suggest can be encoded, and no two of *)
(* them report the same window.                                            *)
(***************************************************************************)
EXTENDS Peephole, AluProofs, FiniteSetTheorems, WellFoundedInduction, TLAPS

\* The widths the bitmask immediates know (the code's is 64).
WidthOfElement == W \in {2, 4, 8, 16, 32, 64}

Bitwidth(sf) == IF sf THEN W ELSE H
Decoded(w) ==
  /\ w \in Words /\ Encodable(w)
  /\ w.op \in ArithOps \cup LogicOps => w.sh \in ShiftOps
  /\ w.op = "ldr" => SignedLoad(w)

\* A fold whose words can be encoded, that leaves a general register to be
\* proven dead.
Good(fold) ==
  /\ fold.dead \subseteq Gprs
  /\ \A ws \in {fold.rewrite} \cup fold.kept : \A i \in DOMAIN ws : Encodable(ws[i])

-----------------------------------------------------------------------------
(* The words a fold suggests.                                              *)

LEMMA WidthsArePositive ==
  /\ H \in Nat \ {0} /\ W \in Nat \ {0} /\ H < W
  /\ \A sf : Bitwidth(sf) \in {H, W} /\ 0 \in Low(Bitwidth(sf))
  /\ \A w : Size(w) = Bitwidth(w.sf)
BY AluAssumption DEF Bitwidth, Size, Low

LEMMA EncodeField ==
  ASSUME NEW op \in ExtractOps \cup PlaceOps, NEW sf, NEW d, NEW n, NEW k, NEW wd,
         k \in Low(Bitwidth(sf)), wd \in 1 .. Bitwidth(sf) - k
  PROVE  Encodable(Field(op, sf, d, n, k, wd))
BY DEF Encodable, Field, Word, Size, Bitwidth, ExtractOps, PlaceOps, ShiftOps, ArithOps, LogicOps, ImmLogicOps,
   ImmArithOps, CondCmpImmOps, MoveOps, ExtArithOps, MulOps, HighOps

LEMMA EncodeMasked ==
  ASSUME NEW op \in {"andi", "andsi"}, NEW sf, NEW d, NEW n, NEW mask, mask \in BitmaskImmediates[Bitwidth(sf)]
  PROVE  Encodable(Masked(op, sf, d, n, mask))
BY DEF Encodable, Masked, Word, Size, Bitwidth, ExtractOps, PlaceOps, ShiftOps, ArithOps, LogicOps, ImmLogicOps,
   ImmArithOps, CondCmpImmOps, MoveOps, ExtArithOps, MulOps, HighOps

LEMMA EncodeBarrel ==
  ASSUME NEW op \in ArithOps \cup LogicOps, NEW sf, NEW d, NEW n, NEW m, NEW sh, NEW k,
         k \in Low(Bitwidth(sf)), op \in ArithOps => sh # "ror"
  PROVE  Encodable(Barrel(op, sf, d, n, m, sh, k))
BY DEF Encodable, Barrel, Ternary, Word, Size, Bitwidth, ExtractOps, PlaceOps, ShiftOps, ArithOps, LogicOps, ImmLogicOps,
   ImmArithOps, CondCmpImmOps, MoveOps, ExtArithOps, MulOps, HighOps

LEMMA EncodeTernary ==
  ASSUME NEW op \in ArithOps \cup LogicOps, NEW sf, NEW d, NEW n, NEW m
  PROVE  Encodable(Ternary(op, sf, d, n, m))
BY WidthsArePositive
   DEF Encodable, Ternary, Word, Size, Bitwidth, ExtractOps, PlaceOps, ShiftOps, ArithOps, LogicOps, ImmLogicOps,
   ImmArithOps, CondCmpImmOps, MoveOps, ExtArithOps, MulOps, HighOps

LEMMA EncodeExtr ==
  ASSUME NEW sf, NEW d, NEW n, NEW m, NEW k, k \in Low(Bitwidth(sf))
  PROVE  Encodable([Ternary("extr", sf, d, n, m) EXCEPT !.k = k])
BY DEF Encodable, Ternary, Word, Size, Bitwidth, ExtractOps, PlaceOps, ShiftOps, ArithOps, LogicOps, ImmLogicOps,
   ImmArithOps, CondCmpImmOps, MoveOps, ExtArithOps, MulOps, HighOps

LEMMA EncodeSelect ==
  ASSUME NEW op \in SelectOps, NEW sf, NEW d, NEW n, NEW m, NEW cond
  PROVE  Encodable(Select(op, sf, d, n, m, cond))
BY DEF Encodable, Select, Ternary, Word, Size, SelectOps, ExtractOps, PlaceOps, ShiftOps, ArithOps, LogicOps, ImmLogicOps,
   ImmArithOps, CondCmpImmOps, MoveOps, ExtArithOps, MulOps, HighOps

LEMMA EncodeMulAdd ==
  ASSUME NEW op \in MulOps, NEW sf, NEW d, NEW n, NEW m, NEW a, op \notin {"madd", "msub"} => sf
  PROVE  Encodable(MulAdd(op, sf, d, n, m, a))
BY DEF Encodable, MulAdd, Ternary, Word, Size, ExtractOps, PlaceOps, ShiftOps, ArithOps, LogicOps, ImmLogicOps,
   ImmArithOps, CondCmpImmOps, MoveOps, ExtArithOps, MulOps, HighOps

LEMMA EncodeExtended ==
  ASSUME NEW op \in ExtArithOps, NEW sf, NEW d, NEW n, NEW m, NEW sh, NEW wd, NEW k,
         k \in 0 .. ExtShift, wd \in 1 .. Bitwidth(sf)
  PROVE  Encodable(Extended(op, sf, d, n, m, sh, wd, k))
BY DEF Encodable, Extended, Ternary, Word, Size, Bitwidth, ExtractOps, PlaceOps, ShiftOps, ArithOps, LogicOps, ImmLogicOps,
   ImmArithOps, CondCmpImmOps, MoveOps, ExtArithOps, MulOps, HighOps

LEMMA EncodeAdjust ==
  ASSUME NEW sf, NEW d, NEW n, NEW k, AddSubEncodable(k)
  PROVE  Encodable(Shifted("addi", sf, d, n, k))
BY DEF Encodable, Shifted, Word, Size, ExtractOps, PlaceOps, ShiftOps, ArithOps, LogicOps, ImmLogicOps,
   ImmArithOps, CondCmpImmOps, MoveOps, ExtArithOps, MulOps, HighOps

LEMMA EncodeMov ==
  ASSUME NEW sf, NEW d, NEW bits, OneInstructionConstant(bits, Bitwidth(sf))
  PROVE  Encodable(MovImm(sf, d, bits))
BY DEF Encodable, MovImm, Masked, Word, Size, Bitwidth, ExtractOps, PlaceOps, ShiftOps, ArithOps, LogicOps, ImmLogicOps,
   ImmArithOps, CondCmpImmOps, MoveOps, ExtArithOps, MulOps, HighOps

\* A word read from another register is encoded like the word.
LEMMA EncodeRenamed ==
  ASSUME NEW w, Decoded(w), NEW r PROVE Encodable([w EXCEPT !.n = r])
<1>. DEFINE v == [w EXCEPT !.n = r]
<1>1. /\ v.op = w.op /\ v.sf = w.sf /\ v.k = w.k /\ v.wd = w.wd /\ v.mask = w.mask /\ v.sh = w.sh
  BY DEF Decoded, Words
<1>. HIDE DEF v
<1>. QED
  BY <1>1 DEF Decoded, Encodable, Size

-----------------------------------------------------------------------------
(* Constants and masks.                                                    *)

\* MOVZ materialises 0.
LEMMA ZeroIsOneWord == ASSUME NEW s \in {H, W} PROVE OneInstructionConstant({}, s)
<1>. DEFINE In(p) == {} \cap (Piece * p .. Piece * p + Piece - 1)
            P == {p \in 0 .. s \div Piece - 1 : In(p) # {}}
<1>1. P = {}
  OBVIOUS
<1>2. Cardinality(P) = 0
  BY <1>1, FS_EmptySet
<1>. QED
  BY <1>2 DEF OneInstructionConstant

\* A piece of a register is inside it.
LEMMA PieceInside ==
  ASSUME NEW s \in {H, W}, NEW p \in 0 .. s \div Piece - 1
  PROVE  /\ Piece * p \in Nat /\ Piece * p + Piece - 1 \in Nat
         /\ Piece * p + Piece - 1 <= s - 1
<1>. DEFINE q == s \div Piece
<1>1. Piece \in Nat \ {0} /\ s \in Nat
  BY AluAssumption
<1>2. q \in Nat /\ Piece * q <= s
  BY <1>1
<1>. HIDE DEF q
<1>3. PICK e \in Nat : q = p + 1 + e
  <2>1. q - p - 1 \in Nat
    BY <1>2 DEF q
  <2>. QED
    BY <2>1, <1>2
<1>4. p \in Nat
  BY <1>1, <1>2 DEF q
<1>5. Piece * q = Piece * p + Piece + Piece * e /\ Piece * p \in Nat /\ Piece * e \in Nat
  BY <1>1, <1>3, <1>4
<1>. QED
  BY <1>1, <1>2, <1>5

\* MOVN materialises -1.
LEMMA MinusOneIsOneWord == ASSUME NEW s \in {H, W} PROVE OneInstructionConstant(Low(s), s)
<1>. DEFINE In(p) == Low(s) \cap (Piece * p .. Piece * p + Piece - 1)
            P == {p \in 0 .. s \div Piece - 1 : In(p) # Piece * p .. Piece * p + Piece - 1}
<1>1. P = {}
  <2>. SUFFICES ASSUME NEW p \in 0 .. s \div Piece - 1
               PROVE  In(p) = Piece * p .. Piece * p + Piece - 1
    OBVIOUS
  <2>1. s \in Nat
    BY AluAssumption
  <2>. QED
    BY <2>1, PieceInside DEF Low
<1>2. Cardinality(P) = 0
  BY <1>1, FS_EmptySet
<1>. QED
  BY <1>2 DEF OneInstructionConstant

\* A set of naturals below a bound has a least member and a greatest.
LEMMA MaskEnds ==
  ASSUME NEW s \in Nat, NEW mask \in SUBSET Low(s), mask # {}
  PROVE  /\ Max(mask) \in mask /\ \A i \in mask : i <= Max(mask)
         /\ Min(mask) \in mask /\ \A i \in mask : Min(mask) <= i
         /\ Cardinality(mask) \in 1 .. s
<1>1. mask \in SUBSET Nat /\ \A i \in mask : i <= s - 1
  BY DEF Low
<1>2. Min(mask) \in mask /\ \A i \in mask : Min(mask) <= i
  BY <1>1, LeastMember
<1>3. \E x \in mask : \A y \in mask : x >= y
  <2>. DEFINE S == {n \in Nat : s - 1 - n \in mask}
  <2>1. S \in SUBSET Nat /\ S # {}
    <3>1. PICK i : i \in mask
      OBVIOUS
    <3>2. s - 1 - i \in Nat /\ s - 1 - (s - 1 - i) = i
      BY <1>1, <3>1
    <3>. QED
      BY <3>1, <3>2
  <2>2. PICK j \in S : \A i \in S : j <= i
    <3>. HIDE DEF S
    <3>. QED
      BY <2>1, LeastMember
  <2>3. s - 1 - j \in mask
    BY <2>2
  <2>4. ASSUME NEW y \in mask PROVE s - 1 - j >= y
    <3>1. s - 1 - y \in Nat /\ s - 1 - (s - 1 - y) = y
      BY <1>1
    <3>2. j <= s - 1 - y
      BY <3>1, <2>2
    <3>. QED
      BY <3>1, <3>2, <2>2
  <2>. QED
    BY <2>3, <2>4
<1>4. Max(mask) \in mask /\ \A i \in mask : i <= Max(mask)
  BY <1>3, <1>1 DEF Max
<1>5. Cardinality(mask) \in 1 .. s
  <2>1. IsFiniteSet(Low(s)) /\ Cardinality(Low(s)) = s
    BY FS_Interval DEF Low
  <2>2. IsFiniteSet(mask) /\ Cardinality(mask) <= s
    BY <2>1, FS_Subset
  <2>3. Cardinality(mask) \in Nat /\ Cardinality(mask) # 0
    BY <2>2, FS_CardinalityType, FS_EmptySet
  <2>. QED
    BY <2>2, <2>3
<1>. QED
  BY <1>2, <1>4, <1>5

\* The smaller of two numbers.
LEMMA Smaller ==
  ASSUME NEW a \in Nat, NEW b \in Nat
  PROVE  Min({a, b}) \in {a, b} /\ Min({a, b}) <= a /\ Min({a, b}) <= b
<1>1. {a, b} \in SUBSET Nat /\ {a, b} # {}
  OBVIOUS
<1>. QED
  BY <1>1, LeastMember

\* A bitmask immediate has a bit and none outside its register.
LEMMA BitmaskHasBits ==
  ASSUME NEW s \in {H, W}, NEW mask \in BitmaskImmediates[s]
  PROVE  mask \in SUBSET Low(s) /\ mask # {}
<1>1. PICK e \in ElementSizes(s) : mask \in Replicated(s, e)
  BY DEF BitmaskImmediates
<1>2. PICK r \in Low(e), ones \in 1 .. e - 1 : mask = {i \in Low(s) : (i + r) % e < ones}
  BY <1>1 DEF Replicated
<1>3. e \in {2, 4, 8, 16, 32, 64} /\ e <= s /\ s \in Nat
  BY AluAssumption DEF ElementSizes
<1>4. r \in 0 .. e - 1
  BY <1>2 DEF Low
<1>5. PICK i \in Low(s) : (i + r) % e = 0
  <2>1. CASE r = 0
    BY <2>1, <1>3 DEF Low
  <2>2. CASE r # 0
    <3>1. e - r \in Low(s) /\ e - r + r = e
      BY <2>2, <1>3, <1>4 DEF Low
    <3>2. e % e = 0
      BY <1>3
    <3>. QED
      BY <3>1, <3>2
  <2>. QED
    BY <2>1, <2>2
<1>. QED
  BY <1>2, <1>3, <1>5

\* The bits from k up are a bitmask immediate.
LEMMA HighBitsEncode ==
  ASSUME WidthOfElement, NEW s \in {H, W}, NEW k \in 1 .. s - 1
  PROVE  Low(s) \ Low(k) \in BitmaskImmediates[s]
<1>1. s \in {2, 4, 8, 16, 32, 64}
  BY AluAssumption DEF WidthOfElement
<1>2. s - k \in Low(s) /\ s - k \in 1 .. s - 1
  BY <1>1 DEF Low
<1>3. ASSUME NEW i \in Low(s) PROVE (i + (s - k)) % s < s - k <=> i >= k
  <2>. i \in 0 .. s - 1
    BY DEF Low
  <2>1. CASE i >= k
    <3>1. (i + (s - k)) % s = i - k
      BY <1>1, <2>1
    <3>. QED
      BY <1>1, <2>1, <3>1
  <2>2. CASE ~(i >= k)
    <3>1. (i + (s - k)) % s = i + (s - k)
      BY <1>1, <2>2
    <3>. QED
      BY <1>1, <2>2, <3>1
  <2>. QED
    BY <2>1, <2>2
<1>4. Low(s) \ Low(k) = {i \in Low(s) : (i + (s - k)) % s < s - k}
  <2>1. \A i \in Low(s) : i \notin Low(k) <=> i >= k
    BY <1>1 DEF Low
  <2>. QED
    BY <2>1, <1>3
<1>5. Low(s) \ Low(k) \in Replicated(s, s)
  BY <1>2, <1>4 DEF Replicated
<1>6. s \in ElementSizes(s)
  BY <1>1 DEF ElementSizes
<1>. QED
  BY <1>5, <1>6 DEF BitmaskImmediates

-----------------------------------------------------------------------------
(* Shifts, masks and extensions.                                           *)

LEMMA FieldsOfWord ==
  ASSUME NEW w, Decoded(w)
  PROVE  /\ w.sf \in BOOLEAN /\ w.k \in Int /\ w.wd \in Nat /\ w.d \in Gprs \cup {R31}
         /\ w.op \in ShiftOps => w.k \in 1 .. Bitwidth(w.sf) - 1
         /\ w.op \in ExtractOps \cup PlaceOps =>
              w.k \in Low(Bitwidth(w.sf)) /\ w.wd \in 1 .. Bitwidth(w.sf) - w.k
         /\ w.op \in {"extr"} \cup ArithOps \cup LogicOps => w.k \in Low(Bitwidth(w.sf))
         /\ w.op \in ArithOps => w.sh # "ror"
         /\ w.op \in ImmLogicOps => w.mask \in BitmaskImmediates[Bitwidth(w.sf)]
BY DEF Decoded, Words, Encodable, Size, Bitwidth

LEMMA GoodFold ==
  ASSUME NEW p, NEW w, NEW word, Decoded(p), p.d # R31, Encodable(word)
  PROVE  Good(Fold(p, w, word))
BY FieldsOfWord DEF Good, Fold, Replace

LEMMA GoodShiftFold ==
  ASSUME NEW p, NEW w, Decoded(p), Decoded(w), ShiftOpens(p), NEW fold \in ShiftFold(p, w)
  PROVE  Good(fold)
<1>1. PICK r : /\ fold = Fold(p, w, Barrel(w.op, w.sf, w.d, r, p.n, p.op, p.k))
               /\ ShiftedRegister(w) /\ SameWidth(p, w) /\ ~(w.op \in ArithOps /\ p.op = "ror")
  BY DEF ShiftFold
<1>2. p.k \in Low(Bitwidth(w.sf))
  BY <1>1, FieldsOfWord, WidthsArePositive DEF ShiftOpens, SameWidth, Low
<1>3. Encodable(Barrel(w.op, w.sf, w.d, r, p.n, p.op, p.k))
  BY <1>1, <1>2, EncodeBarrel DEF ShiftedRegister
<1>. QED
  BY <1>1, <1>3, GoodFold DEF ShiftOpens

LEMMA GoodFunnelFold ==
  ASSUME NEW p, NEW w, Decoded(p), Decoded(w), FunnelOpens(p), NEW fold \in FunnelFold(p, w)
  PROVE  Good(fold)
<1>1. /\ fold = Fold(p, w, IF p.op = "lsr"
                           THEN [Ternary("extr", w.sf, w.d, w.m, p.n) EXCEPT !.k = p.k]
                           ELSE [Ternary("extr", w.sf, w.d, p.n, w.m) EXCEPT !.k = w.k])
      /\ FunnelConsumer(w) /\ SameWidth(p, w)
  BY DEF FunnelFold
<1>2. p.k \in Low(Bitwidth(w.sf)) /\ w.k \in Low(Bitwidth(w.sf))
  BY <1>1, FieldsOfWord, WidthsArePositive
     DEF FunnelOpens, FunnelConsumer, SameWidth, Low, ShiftOps, ArithOps, LogicOps
<1>. QED
  BY <1>1, <1>2, EncodeExtr, GoodFold DEF FunnelOpens

LEMMA GoodBitfieldFold ==
  ASSUME NEW p, NEW w, Decoded(p), Decoded(w), BitfieldOpens(p), NEW fold \in BitfieldFold(p, w)
  PROVE  Good(fold)
<1>. DEFINE s == Bitwidth(w.sf)
            signed == w.op = "asr"
            word == IF w.k < p.k
                    THEN Field(IF signed THEN "sbfiz" ELSE "ubfiz", w.sf, w.d, p.n, p.k - w.k, s - p.k)
                    ELSE Field(IF signed THEN "sbfx" ELSE "ubfx", w.sf, w.d, p.n, w.k - p.k, s - w.k)
<1>1. fold = Fold(p, w, word) /\ w.op \in {"lsr", "asr"} /\ SameWidth(p, w)
  BY WidthsArePositive DEF BitfieldFold
<1>2. p.k \in 1 .. s - 1 /\ w.k \in 1 .. s - 1 /\ s \in Nat
  BY <1>1, FieldsOfWord, WidthsArePositive DEF BitfieldOpens, SameWidth, ShiftOps
<1>3. CASE w.k < p.k
  <2>1. p.k - w.k \in Low(s) /\ s - p.k \in 1 .. s - (p.k - w.k)
    BY <1>2, <1>3 DEF Low
  <2>2. (IF signed THEN "sbfiz" ELSE "ubfiz") \in ExtractOps \cup PlaceOps
    BY DEF PlaceOps
  <2>3. Encodable(word)
    BY <1>3, <2>1, <2>2, EncodeField
  <2>. QED
    BY <1>1, <2>3, GoodFold DEF BitfieldOpens
<1>4. CASE ~(w.k < p.k)
  <2>1. w.k - p.k \in Low(s) /\ s - w.k \in 1 .. s - (w.k - p.k)
    BY <1>2, <1>4 DEF Low
  <2>2. (IF signed THEN "sbfx" ELSE "ubfx") \in ExtractOps \cup PlaceOps
    BY DEF ExtractOps
  <2>3. Encodable(word)
    BY <1>4, <2>1, <2>2, EncodeField
  <2>. QED
    BY <1>1, <2>3, GoodFold DEF BitfieldOpens
<1>. QED
  BY <1>3, <1>4

\* The low mask of an AND keeps at least a bit.
LEMMA LowMaskWidth ==
  ASSUME NEW w, Decoded(w), LowMask(w)
  PROVE  Cardinality(w.mask) \in 1 .. Bitwidth(w.sf)
<1>1. w.mask \in SUBSET Low(Bitwidth(w.sf)) /\ w.mask # {}
  BY FieldsOfWord, BitmaskHasBits, WidthsArePositive DEF LowMask, ImmLogicOps
<1>. QED
  BY <1>1, MaskEnds, WidthsArePositive

LEMMA GoodLsrAndFold ==
  ASSUME NEW p, NEW w, Decoded(p), Decoded(w), LsrAndOpens(p), NEW fold \in LsrAndFold(p, w)
  PROVE  Good(fold)
<1>. DEFINE s == Bitwidth(w.sf)
            wd == Min({Cardinality(w.mask), s - p.k})
<1>1. /\ fold = Fold(p, w, Field("ubfx", w.sf, w.d, p.n, p.k, wd))
      /\ LowMask(w) /\ SameWidth(p, w)
  BY WidthsArePositive DEF LsrAndFold
<1>2. p.k \in 1 .. s - 1 /\ s \in Nat
  BY <1>1, FieldsOfWord, WidthsArePositive DEF LsrAndOpens, SameWidth, ShiftOps
<1>3. wd \in 1 .. s - p.k
  <2>1. Cardinality(w.mask) \in Nat \ {0} /\ s - p.k \in Nat \ {0}
    BY <1>1, <1>2, LowMaskWidth
  <2>. QED
    BY <2>1, Smaller
<1>4. Encodable(Field("ubfx", w.sf, w.d, p.n, p.k, wd))
  BY <1>2, <1>3, EncodeField DEF ExtractOps, Low
<1>. QED
  BY <1>1, <1>4, GoodFold DEF LsrAndOpens

LEMMA GoodAndLsrFold ==
  ASSUME NEW p, NEW w, Decoded(p), Decoded(w), AndLsrOpens(p), NEW fold \in AndLsrFold(p, w)
  PROVE  Good(fold)
<1>. DEFINE s == Bitwidth(w.sf)
            wd == Max(p.mask) + 1 - w.k
<1>1. /\ fold = Fold(p, w, Field("ubfx", w.sf, w.d, p.n, w.k, wd))
      /\ w.op = "lsr" /\ SameWidth(p, w) /\ w.k <= Max(p.mask)
  BY DEF AndLsrFold
<1>2. w.k \in 1 .. s - 1 /\ s \in Nat
  BY <1>1, FieldsOfWord, WidthsArePositive DEF ShiftOps
<1>3. Max(p.mask) \in 0 .. s - 1
  <2>1. p.mask \in SUBSET Low(s) /\ p.mask # {}
    BY <1>1, FieldsOfWord, BitmaskHasBits, WidthsArePositive DEF AndLsrOpens, ImmLogicOps, SameWidth
  <2>2. Max(p.mask) \in p.mask
    BY <1>2, <2>1, MaskEnds
  <2>. QED
    BY <2>1, <2>2 DEF Low
<1>4. wd \in 1 .. s - w.k
  BY <1>1, <1>2, <1>3
<1>5. Encodable(Field("ubfx", w.sf, w.d, p.n, w.k, wd))
  BY <1>2, <1>4, EncodeField DEF ExtractOps, Low
<1>. QED
  BY <1>1, <1>5, GoodFold DEF AndLsrOpens

LEMMA GoodUpFold ==
  ASSUME WidthOfElement, NEW p, NEW w, Decoded(p), Decoded(w), UpOpens(p), NEW fold \in UpFold(p, w)
  PROVE  Good(fold)
<1>. DEFINE s == Bitwidth(w.sf)
<1>1. p.d # R31
  BY DEF UpOpens, LowField, ZextField
<1>2. CASE \E f \in LowField(p) :
             /\ fold = Fold(p, w, Field("ubfiz", w.sf, w.d, f.n, w.k, Min({f.wd, s - w.k})))
             /\ w.op = "lsl" /\ f.sf = w.sf
  <2>1. PICK f \in LowField(p) :
             /\ fold = Fold(p, w, Field("ubfiz", w.sf, w.d, f.n, w.k, Min({f.wd, s - w.k})))
             /\ w.op = "lsl" /\ f.sf = w.sf
    BY <1>2
  <2>. DEFINE wd == Min({f.wd, s - w.k})
  <2>2. f.wd \in Nat \ {0}
    <3>1. CASE LowMask(p) /\ p.d # R31
      BY <3>1, <2>1, LowMaskWidth DEF LowField
    <3>2. CASE ~(LowMask(p) /\ p.d # R31)
      <4>1. f \in ZextField(p)
        BY <3>2, <2>1 DEF LowField
      <4>2. f.wd \in {p.wd, H} /\ (f.wd = H \/ p.op = "ubfx")
        BY <4>1 DEF ZextField, UbfmZext
      <4>3. p.op = "ubfx" => p.wd \in Nat \ {0}
        BY FieldsOfWord, WidthsArePositive DEF ExtractOps
      <4>. QED
        BY <4>2, <4>3, WidthsArePositive
    <3>. QED
      BY <3>1, <3>2
  <2>3. w.k \in 1 .. s - 1 /\ s \in Nat
    BY <2>1, FieldsOfWord, WidthsArePositive DEF ShiftOps
  <2>4. wd \in 1 .. s - w.k
    <3>1. s - w.k \in Nat \ {0}
      BY <2>3
    <3>. QED
      BY <3>1, <2>2, Smaller
  <2>5. Encodable(Field("ubfiz", w.sf, w.d, f.n, w.k, wd))
    <3>1. w.k \in Low(s) /\ "ubfiz" \in ExtractOps \cup PlaceOps
      BY <2>3 DEF Low, PlaceOps
    <3>. HIDE DEF wd, s
    <3>2. Encodable(Field("ubfiz", w.sf, w.d, f.n, w.k, wd))
      BY <3>1, <2>4, EncodeField DEF s
    <3>. QED
      BY <3>2 DEF wd, s
  <2>. QED
    BY <1>1, <2>1, <2>5, GoodFold
<1>3. CASE /\ fold = Fold(p, w, Masked("andi", w.sf, w.d, p.n, Low(s) \ Low(w.k)))
           /\ w.op = "lsl"
  <2>1. w.k \in 1 .. s - 1 /\ s \in {H, W}
    BY <1>3, FieldsOfWord, WidthsArePositive DEF ShiftOps
  <2>2. Encodable(Masked("andi", w.sf, w.d, p.n, Low(s) \ Low(w.k)))
    BY <2>1, HighBitsEncode, EncodeMasked
  <2>. QED
    BY <1>1, <1>3, <2>2, GoodFold
<1>. QED
  BY <1>2, <1>3, WidthsArePositive DEF UpFold

LEMMA GoodInsertFold ==
  ASSUME NEW p, NEW w, Decoded(p), Decoded(w), InsertOpens(p), NEW fold \in InsertFold(p, w)
  PROVE  Good(fold)
<1>. DEFINE s == Bitwidth(w.sf)
            word == Field(IF w.sh = "lsr" THEN "bfxil" ELSE "bfi", w.sf, w.d, w.m, w.k, s - w.k)
<1>1. fold = Fold(p, w, word) /\ w.op = "orr" /\ w.k # 0
  BY WidthsArePositive DEF InsertFold
<1>2. w.k \in Low(s) /\ s - w.k \in 1 .. s - w.k
  BY <1>1, FieldsOfWord, WidthsArePositive DEF LogicOps, Low
<1>3. Encodable(word)
  BY <1>2, EncodeField DEF ExtractOps, PlaceOps
<1>. QED
  BY <1>1, <1>3, GoodFold DEF InsertOpens

\* A fold that leaves words of the buffer, and no register to be proven dead.
LEMMA GoodReplace ==
  ASSUME NEW ws, \A i \in DOMAIN ws : Encodable(ws[i])
  PROVE  Good(Replace(ws, {}))
BY DEF Good, Replace

LEMMA GoodSextFold ==
  ASSUME NEW p, NEW w, Decoded(p), Decoded(w), NEW fold \in SextFold(p, w)
  PROVE  Good(fold)
<1>1. fold = Replace(<<p>>, {}) \/ fold = Replace(<<w>>, {})
  BY DEF SextFold
<1>. QED
  BY <1>1, GoodReplace DEF Decoded

LEMMA GoodChainFold ==
  ASSUME NEW p, NEW w, Decoded(p), Decoded(w), ChainOpens(p), NEW fold \in ChainFold(p, w)
  PROVE  Good(fold)
<1>1. PICK word \in Chained(p, w) : fold = Fold(p, w, word) /\ ChainRole(w)
  BY DEF ChainFold
<1>. DEFINE noop  == ConsumerIsNoop(p, w)
            keeps == Passes(p) \cap Passes(w)
            flags == w.op = "andsi"
            And(sf) == Masked(IF flags THEN "andsi" ELSE "andi", sf, w.d, Source(p), keeps)
            Sext(sf) == Field("sbfx", sf, w.d, p.n, 0, p.wd)
            Merged == CASE keeps = {} /\ flags  -> {}
                        [] keeps = {} /\ ~flags -> {MovImm(w.sf, w.d, {})}
                        [] keeps \in BitmaskImmediates[Size(w)] -> {And(w.sf)}
                        [] OTHER -> {And(sf) : sf \in {sf \in {FALSE} :
                                       w.sf /\ ~flags /\ keeps \in BitmaskImmediates[H]}}
<1>2. \/ word = [w EXCEPT !.n = Source(p)]
      \/ word \in Merged
      \/ word = Sext(w.sf) /\ SextRole(p) /\ SextRole(w) /\ p.wd <= w.wd
      \/ word = Sext(p.sf) /\ SextRole(p)
  <2>. HIDE DEF Merged
  <2>1. word \in IF noop /\ w.d = p.d /\ ~flags THEN {}
                 ELSE IF ~noop /\ Passes(w) \subseteq Passes(p)
                      THEN IF SextRole(p) /\ p.n = p.d /\ w.d = p.d /\ (UbfmZext(w) \/ LowMask(w))
                           THEN {} ELSE {[w EXCEPT !.n = Source(p)]}
                 ELSE IF ~SextRole(p) /\ (~SextRole(w) \/ noop) THEN Merged
                 ELSE IF flags \/ ~SextRole(p) THEN {}
                 ELSE IF SextRole(w) /\ p.wd <= w.wd /\ w.wd <= Size(p) THEN {Sext(w.sf)}
                 ELSE IF ~SextRole(w) /\ noop THEN {Sext(p.sf)}
                 ELSE {}
    BY <1>1 DEF Chained, Merged
  <2>. QED
    BY <2>1
<1>. SUFFICES Encodable(word)
  BY <1>1, GoodFold DEF ChainOpens
<1>3. CASE word = [w EXCEPT !.n = Source(p)]
  BY <1>3, EncodeRenamed
<1>4. CASE word \in Merged
  <2>1. \/ word = MovImm(w.sf, w.d, {})
        \/ word = And(w.sf) /\ keeps \in BitmaskImmediates[Size(w)]
        \/ word = And(FALSE) /\ keeps \in BitmaskImmediates[H]
    BY <1>4
  <2>2. CASE word = MovImm(w.sf, w.d, {})
    BY <2>2, EncodeMov, ZeroIsOneWord, WidthsArePositive
  <2>3. CASE word = And(w.sf) /\ keeps \in BitmaskImmediates[Size(w)]
    BY <2>3, EncodeMasked, WidthsArePositive
  <2>4. CASE word = And(FALSE) /\ keeps \in BitmaskImmediates[H]
    BY <2>4, EncodeMasked DEF Bitwidth
  <2>. QED
    BY <2>1, <2>2, <2>3, <2>4
<1>5. CASE word = Sext(w.sf) /\ SextRole(p) /\ SextRole(w) /\ p.wd <= w.wd
  <2>1. p.wd \in 1 .. Bitwidth(w.sf) - 0
    BY <1>5, FieldsOfWord, WidthsArePositive DEF SextRole, ExtractOps, Low
  <2>. QED
    BY <1>5, <2>1, EncodeField, WidthsArePositive DEF ExtractOps
<1>6. CASE word = Sext(p.sf) /\ SextRole(p)
  <2>1. p.wd \in 1 .. Bitwidth(p.sf) - 0
    BY <1>6, FieldsOfWord, WidthsArePositive DEF SextRole, ExtractOps, Low
  <2>. QED
    BY <1>6, <2>1, EncodeField, WidthsArePositive DEF ExtractOps
<1>. QED
  BY <1>2, <1>3, <1>4, <1>5, <1>6

-----------------------------------------------------------------------------
(* Negations, selects, multiplies, extended operands, copies.              *)

LEMMA GoodSelectFold ==
  ASSUME NEW p, NEW w, Decoded(p), p.d # R31, NEW op \in SelectOps, NEW src,
         NEW fold \in SelectFold(p, w, op, src)
  PROVE  Good(fold)
<1>1. PICK r, c : fold = Fold(p, w, Select(op, w.sf, w.d, r, src, c))
  BY DEF SelectFold
<1>. QED
  BY <1>1, EncodeSelect, GoodFold

LEMMA GoodNegFold ==
  ASSUME NEW p, NEW w, Decoded(p), NegOpens(p), NEW fold \in NegFold(p, w)
  PROVE  Good(fold)
<1>1. CASE fold \in SelectFold(p, w, "csneg", p.m)
  BY <1>1, GoodSelectFold DEF NegOpens, SelectOps
<1>2. CASE fold \notin SelectFold(p, w, "csneg", p.m)
  <2>1. PICK op, r : op \in {"add", "sub"} /\ fold = Fold(p, w, Ternary(op, w.sf, w.d, r, p.m))
    BY <1>2 DEF NegFold
  <2>. QED
    BY <2>1, EncodeTernary, GoodFold DEF NegOpens, ArithOps
<1>. QED
  BY <1>1, <1>2

LEMMA GoodMvnFold ==
  ASSUME NEW p, NEW w, Decoded(p), MvnOpens(p), NEW fold \in MvnFold(p, w)
  PROVE  Good(fold)
<1>1. CASE fold \in SelectFold(p, w, "csinv", p.m)
  BY <1>1, GoodSelectFold DEF MvnOpens, SelectOps
<1>2. CASE fold \notin SelectFold(p, w, "csinv", p.m)
  <2>1. PICK r : /\ fold = Fold(p, w, Ternary(Inverted[w.op], w.sf, w.d, r, p.m))
                 /\ w.op \in DOMAIN Inverted
    BY <1>2 DEF MvnFold
  <2>2. Inverted[w.op] \in LogicOps
    BY <2>1 DEF Inverted, LogicOps
  <2>. QED
    BY <2>1, <2>2, EncodeTernary, GoodFold DEF MvnOpens
<1>. QED
  BY <1>1, <1>2

LEMMA GoodAddOneFold ==
  ASSUME NEW p, NEW w, Decoded(p), AddOneOpens(p), NEW fold \in AddOneFold(p, w)
  PROVE  Good(fold)
BY GoodSelectFold DEF AddOneOpens, AddOneFold, SelectOps

LEMMA GoodMulFold ==
  ASSUME NEW p, NEW w, Decoded(p), MulOpens(p), NEW fold \in MulFold(p, w)
  PROVE  Good(fold)
<1>1. PICK op, r : op \in {"madd", "msub"} /\ fold = Fold(p, w, MulAdd(op, w.sf, w.d, p.n, p.m, r))
  BY DEF MulFold
<1>. QED
  BY <1>1, EncodeMulAdd, GoodFold DEF MulOpens, MulOps

LEMMA GoodWideMulFold ==
  ASSUME NEW p, NEW w, Decoded(p), WideMulOpens(p), NEW fold \in WideMulFold(p, w)
  PROVE  Good(fold)
<1>1. PICK r : /\ fold = Fold(p, w, MulAdd(Widening[p.op][w.op], TRUE, w.d, p.n, p.m, r))
               /\ PlainArith(w)
  BY DEF WideMulFold
<1>2. p.op \in {"smaddl", "umaddl"} /\ w.op \in {"add", "sub"} /\ p.d # R31
  BY <1>1 DEF WideMulOpens, Widening, PlainArith
<1>3. Widening[p.op][w.op] \in {"smaddl", "smsubl", "umaddl", "umsubl"}
  BY <1>2 DEF Widening
<1>4. Encodable(MulAdd(Widening[p.op][w.op], TRUE, w.d, p.n, p.m, r))
  <2>. DEFINE op == Widening[p.op][w.op]
  <2>1. op \in MulOps
    BY <1>3 DEF MulOps
  <2>. HIDE DEF op
  <2>2. Encodable(MulAdd(op, TRUE, w.d, p.n, p.m, r))
    BY <2>1, EncodeMulAdd
  <2>. QED
    BY <2>2 DEF op
<1>. QED
  BY <1>1, <1>2, <1>4, GoodFold

LEMMA GoodFoldOrKeep ==
  ASSUME NEW p, NEW w, NEW word, Decoded(p), p.d # R31, Encodable(word)
  PROVE  Good(FoldOrKeep(p, w, word))
<1>1. /\ FoldOrKeep(p, w, word).rewrite = <<word>>
      /\ FoldOrKeep(p, w, word).dead = {p.d} \ {w.d}
      /\ FoldOrKeep(p, w, word).kept \subseteq {<<p, word>>}
  BY DEF FoldOrKeep, Fold, Replace
<1>2. p.d \in Gprs /\ Encodable(p)
  BY FieldsOfWord DEF Decoded
<1>. QED
  BY <1>1, <1>2 DEF Good

LEMMA GoodExtendFold ==
  ASSUME NEW p, NEW w, Decoded(p), Decoded(w), ExtendOpens(p), NEW fold \in ExtendFold(p, w)
  PROVE  Good(fold)
<1>. DEFINE word(r) ==
       IF w.k <= ExtShift
       THEN Extended(Extending[w.op], w.sf, w.d, r, p.n,
                     IF p.op = "sbfx" THEN "sxt" ELSE "uxt", p.wd, w.k)
       ELSE Barrel(w.op, w.sf, w.d, r, p.n, "lsl", w.k)
<1>1. PICK r : fold = FoldOrKeep(p, w, word(r)) /\ w.op \in ArithOps /\ ExtendWidths(p, w)
  BY DEF ExtendFold
<1>2. p.d # R31 /\ p.op \in {"sbfx", "ubfx"}
  BY DEF ExtendOpens, SbfmSext, UbfmZext
<1>3. w.k \in Low(Bitwidth(w.sf)) /\ w.k \in Nat
  BY <1>1, FieldsOfWord, WidthsArePositive DEF Low
<1>4. CASE w.k <= ExtShift
  <2>1. p.wd \in 1 .. Bitwidth(w.sf)
    <3>1. p.wd \in 1 .. Bitwidth(p.sf)
      BY <1>2, FieldsOfWord, WidthsArePositive DEF ExtractOps, Low
    <3>2. p.sf => w.sf
      BY <1>1, FieldsOfWord DEF ExtendWidths, SameWidth
    <3>. QED
      BY <3>1, <3>2, WidthsArePositive DEF Bitwidth
  <2>2. Extending[w.op] \in ExtArithOps
    BY <1>1 DEF ArithOps, Extending, ExtArithOps
  <2>3. w.k \in 0 .. ExtShift
    BY <1>3, <1>4, AluAssumption
  <2>. DEFINE op == Extending[w.op]
  <2>. HIDE DEF op
  <2>4. \A sh : Encodable(Extended(op, w.sf, w.d, r, p.n, sh, p.wd, w.k))
    BY <2>1, <2>2, <2>3, EncodeExtended DEF op
  <2>5. Encodable(word(r))
    BY <1>4, <2>4 DEF op
  <2>. QED
    BY <1>1, <1>2, <2>5, GoodFoldOrKeep
<1>5. CASE ~(w.k <= ExtShift)
  <2>1. Encodable(word(r))
    BY <1>1, <1>3, <1>5, EncodeBarrel
  <2>. QED
    BY <1>1, <1>2, <2>1, GoodFoldOrKeep
<1>. QED
  BY <1>4, <1>5

LEMMA GoodCopies ==
  ASSUME NEW p, NEW w, Decoded(p), Decoded(w),
         NEW fold \in CopyChain(p, w) \cup CopyAdd(p, w) \cup SpMovOverwritten(p, w)
  PROVE  Good(fold)
<1>1. Encodable(Mov(w.sf, w.d, p.m))
  BY EncodeTernary DEF Mov, LogicOps
<1>2. Encodable(p) /\ Encodable(w)
  BY DEF Decoded
<1>3. CASE fold \in CopyChain(p, w)
  <2>1. fold = Replace(<<p>>, {}) \/ fold = Replace(<<p, Mov(w.sf, w.d, p.m)>>, {})
    BY <1>3 DEF CopyChain
  <2>. QED
    BY <1>1, <1>2, <2>1, GoodReplace
<1>4. CASE fold \in CopyAdd(p, w)
  <2>1. PICK src : fold = Replace(<<[w EXCEPT !.n = src]>>, {})
    BY <1>4 DEF CopyAdd
  <2>. QED
    BY <2>1, EncodeRenamed, GoodReplace
<1>5. CASE fold \in SpMovOverwritten(p, w)
  BY <1>5, <1>2, GoodReplace DEF SpMovOverwritten
<1>. QED
  BY <1>3, <1>4, <1>5

LEMMA GoodCsetFold ==
  ASSUME NEW p, NEW w, Decoded(p), CsetOpens(p), NEW fold \in CsetFold(p, w)
  PROVE  Good(fold)
<1>1. \/ fold = FoldOrKeep(p, w, CSet(w.sf, w.d, Invert[p.cond]))
      \/ fold = FoldOrKeep(p, w, Select("csinv", w.sf, w.d, R31, R31, p.cond))
  BY DEF CsetFold
<1>2. \A c : Encodable(CSet(w.sf, w.d, c)) /\ Encodable(Select("csinv", w.sf, w.d, R31, R31, c))
  BY EncodeSelect DEF CSet, SelectOps
<1>. QED
  BY <1>1, <1>2, GoodFoldOrKeep DEF CsetOpens

\* The words that need no producer.
LEMMA GoodSingles ==
  ASSUME NEW w, NEW adr, NEW ws \in Singles(w, adr)
  PROVE  Good(Replace(ws, {}))
<1>1. /\ Encodable(Copy(w)) /\ Encodable(Mvn(w.sf, w.d, w.n)) /\ Encodable(Mov(FALSE, w.d, w.n))
      /\ Encodable(Zero(w)) /\ Encodable(MinusOne(w))
  <2>1. Encodable(Copy(w)) /\ Encodable(Mvn(w.sf, w.d, w.n)) /\ Encodable(Mov(FALSE, w.d, w.n))
    BY EncodeTernary DEF Copy, Mov, Mvn, LogicOps
  <2>2. Encodable(Zero(w)) /\ Encodable(MinusOne(w))
    BY EncodeMov, ZeroIsOneWord, MinusOneIsOneWord, WidthsArePositive DEF Zero, MinusOne
  <2>. QED
    BY <2>1, <2>2
<1>2. ws \in {<<>>, <<Copy(w)>>, <<Zero(w)>>, <<MinusOne(w)>>, <<Mvn(w.sf, w.d, w.n)>>, <<Mov(FALSE, w.d, w.n)>>}
  <2>1. CASE ws \in SelfOp(w)
    BY <2>1 DEF SelfOp
  <2>2. CASE ws \in ZrOperand(w)
    BY <2>2 DEF ZrOperand
  <2>3. CASE ws \in Lo32Mov(w) \cup CselSelf(w) \cup MovSelf(w) \cup AddSubZero(w, adr)
    BY <2>3 DEF Lo32Mov, CselSelf, MovSelf, AddSubZero
  <2>. QED
    BY <2>1, <2>2, <2>3 DEF Singles
<1>3. ASSUME NEW word, Encodable(word) PROVE \A i \in DOMAIN <<word>> : Encodable(<<word>>[i])
  BY <1>3
<1>4. \A i \in DOMAIN <<>> : Encodable(<<>>[i])
  OBVIOUS
<1>5. ASSUME NEW word, Encodable(word), ws = <<word>> PROVE \A i \in DOMAIN ws : Encodable(ws[i])
  BY <1>5, <1>3
<1>6. \A i \in DOMAIN ws : Encodable(ws[i])
  <2>1. CASE ws = <<>>
    BY <2>1, <1>4
  <2>. QED
    BY <1>1, <1>2, <1>5, <2>1
<1>. QED
  BY <1>6, GoodReplace

\* Whatever check closes on a pair of words, its fold is good.
LEMMA GoodCloses ==
  ASSUME WidthOfElement, NEW p, NEW w, Decoded(p), Decoded(w), NEW t \in Trackers, Opens(t, p),
         NEW fold \in Closes(t, p, w)
  PROVE  Good(fold)
<1>1. CASE t = "shf"
  <2>1. ShiftOpens(p) /\ fold \in ShiftFold(p, w)
    BY <1>1 DEF Opens, Closes
  <2>. QED
    BY <2>1, GoodShiftFold
<1>2. CASE t = "fnl"
  <2>1. FunnelOpens(p) /\ fold \in FunnelFold(p, w)
    BY <1>2 DEF Opens, Closes
  <2>. QED
    BY <2>1, GoodFunnelFold
<1>3. CASE t = "bsx"
  <2>1. BitfieldOpens(p) /\ fold \in BitfieldFold(p, w)
    BY <1>3 DEF Opens, Closes
  <2>. QED
    BY <2>1, GoodBitfieldFold
<1>4. CASE t = "lra"
  <2>1. LsrAndOpens(p) /\ fold \in LsrAndFold(p, w)
    BY <1>4 DEF Opens, Closes
  <2>. QED
    BY <2>1, GoodLsrAndFold
<1>5. CASE t = "alr"
  <2>1. AndLsrOpens(p) /\ fold \in AndLsrFold(p, w)
    BY <1>5 DEF Opens, Closes
  <2>. QED
    BY <2>1, GoodAndLsrFold
<1>6. CASE t = "aul"
  <2>1. UpOpens(p) /\ fold \in UpFold(p, w)
    BY <1>6 DEF Opens, Closes
  <2>. QED
    BY <2>1, GoodUpFold
<1>7. CASE t = "aos"
  <2>1. InsertOpens(p) /\ fold \in InsertFold(p, w)
    BY <1>7 DEF Opens, Closes
  <2>. QED
    BY <2>1, GoodInsertFold
<1>8. CASE t = "sxt"
  <2>1. fold \in SextFold(p, w)
    BY <1>8 DEF Closes
  <2>. QED
    BY <2>1, GoodSextFold
<1>9. CASE t = "aec"
  <2>1. ChainOpens(p) /\ fold \in ChainFold(p, w)
    BY <1>9 DEF Opens, Closes
  <2>. QED
    BY <2>1, GoodChainFold
<1>10. CASE t = "neg"
  <2>1. NegOpens(p) /\ fold \in NegFold(p, w)
    BY <1>10 DEF Opens, Closes
  <2>. QED
    BY <2>1, GoodNegFold
<1>11. CASE t = "mvn"
  <2>1. MvnOpens(p) /\ fold \in MvnFold(p, w)
    BY <1>11 DEF Opens, Closes
  <2>. QED
    BY <2>1, GoodMvnFold
<1>12. CASE t = "ao"
  <2>1. AddOneOpens(p) /\ fold \in AddOneFold(p, w)
    BY <1>12 DEF Opens, Closes
  <2>. QED
    BY <2>1, GoodAddOneFold
<1>13. CASE t = "mul"
  <2>1. MulOpens(p) /\ fold \in MulFold(p, w)
    BY <1>13 DEF Opens, Closes
  <2>. QED
    BY <2>1, GoodMulFold
<1>14. CASE t = "wmul"
  <2>1. WideMulOpens(p) /\ fold \in WideMulFold(p, w)
    BY <1>14 DEF Opens, Closes
  <2>. QED
    BY <2>1, GoodWideMulFold
<1>15. CASE t = "ext"
  <2>1. ExtendOpens(p) /\ fold \in ExtendFold(p, w)
    BY <1>15 DEF Opens, Closes
  <2>. QED
    BY <2>1, GoodExtendFold
<1>16. CASE t \in {"rcc", "cpa", "spm"}
  <2>1. fold \in CopyChain(p, w) \cup CopyAdd(p, w) \cup SpMovOverwritten(p, w)
    BY <1>16 DEF Closes
  <2>. QED
    BY <2>1, GoodCopies
<1>17. CASE t = "cset"
  <2>1. CsetOpens(p) /\ fold \in CsetFold(p, w)
    BY <1>17 DEF Opens, Closes
  <2>. QED
    BY <2>1, GoodCsetFold
<1>18. CASE t = "adr"
  BY <1>18 DEF Closes
<1>. QED
  BY <1>1, <1>2, <1>3, <1>4, <1>5, <1>6, <1>7, <1>8, <1>9, <1>10, <1>11, <1>12, <1>13, <1>14,
     <1>15, <1>16, <1>17, <1>18 DEF Trackers

-----------------------------------------------------------------------------
(* The inductive invariant.                                                *)

\* The trackers hold words that open them.
HeldOpens ==
  /\ DOMAIN held = Trackers
  /\ \A t \in Trackers : \A h \in held[t] : Len(buf) > 0 /\ Opens(t, h.word)
ChainsOpen ==
  \A h \in asc : /\ DOMAIN h = {"word", "at", "window"}
                 /\ h.at \in DOMAIN buf /\ h.word.d # R31

\* A clear and an isolate are of one field that is a run of bits.
InsertOfOneField ==
  /\ DOMAIN bfx = DOMAIN NoInsert
  /\ bfx.first \in Nat
  /\ bfx.clear # {} \/ bfx.isolate # {} => bfx.first \in 1 .. Len(buf)
  /\ bfx.clear # {} /\ bfx.isolate # {} => bfx.first < Len(buf)
  /\ \A i \in bfx.isolate : i.t \in Gprs
  /\ bfx.clear # {} => OneRun(bfx.field) /\ bfx.field \subseteq Low(Bitwidth(bfx.sf))

Invariant ==
  /\ buf \in Seq(Words)
  /\ TypeOK /\ HeldOpens /\ ChainsOpen /\ InsertOfOneField /\ RewritesEncode

\* The words read can be encoded.
LEMMA BufferIsDecoded ==
  ASSUME Invariant PROVE \A i \in DOMAIN buf : Decoded(buf[i])
BY PeepholeAssumption DEF Invariant, TypeOK, Decoded

LEMMA NextIsDecoded ==
  ASSUME Invariant, Len(buf) < Len(Families[family]), NEW w \in Families[family][At]
  PROVE  Decoded(w)
<1>1. family \in DOMAIN Families /\ Families[family] \in Seq(SUBSET Words) /\ Len(buf) \in Nat
  BY PeepholeAssumption DEF Invariant, TypeOK
<1>2. At \in DOMAIN Families[family]
  BY <1>1 DEF At
<1>3. Families[family][At] \in SUBSET Words
  BY <1>1, <1>2
<1>. QED
  BY <1>1, <1>2, <1>3, PeepholeAssumption DEF Decoded

\* What a finding has to satisfy.
GoodFinding(f) ==
  /\ f.at = At /\ f.start \in 1 .. At /\ f.count \in 1 .. At - f.start + 1 /\ f.dead \subseteq Gprs
  /\ \A ws \in {f.rewrite} \cup f.kept : \A i \in DOMAIN ws : Encodable(ws[i])

LEMMA FindingOfGood ==
  ASSUME At \in Nat, NEW start \in 1 .. At, NEW count \in 1 .. At - start + 1, NEW fold, Good(fold)
  PROVE  GoodFinding(Finding(start, count, fold))
BY DEF GoodFinding, Finding, Good

LEMMA GoodPairFindings ==
  ASSUME WidthOfElement, Invariant, NEW w, Decoded(w), NEW f \in PairFindings(w)
  PROVE  GoodFinding(f)
<1>1. PICK t \in Trackers : f \in ClosedBy(t, w)
  BY DEF PairFindings
<1>2. PICK h \in held[t] : \E fold \in Closes(t, h.word, w) : f = Finding(h.at, PairCount(t), fold)
  BY <1>1 DEF ClosedBy
<1>3. PICK fold \in Closes(t, h.word, w) : f = Finding(h.at, PairCount(t), fold)
  BY <1>2
<1>4. Opens(t, h.word) /\ h.at = Len(buf) /\ h.word = buf[h.at] /\ Len(buf) > 0
  BY <1>2 DEF Invariant, HeldOpens, TypeOK
<1>5. Len(buf) \in Nat /\ h.at \in DOMAIN buf
  BY <1>4 DEF Invariant
<1>6. Decoded(h.word)
  BY <1>4, <1>5, BufferIsDecoded
<1>7. Good(fold)
  BY <1>4, <1>6, GoodCloses
<1>8. h.at \in 1 .. At /\ At \in Nat /\ PairCount(t) \in 1 .. At - h.at + 1
  BY <1>4, <1>5 DEF At, PairCount
<1>. QED
  BY <1>3, <1>7, <1>8, FindingOfGood

LEMMA GoodSingleFindings ==
  ASSUME Invariant, NEW w, NEW f \in SingleFindings(w) PROVE GoodFinding(f)
<1>1. PICK ws \in Singles(w, held["adr"]) : f = Finding(At, 1, Replace(ws, {}))
  BY DEF SingleFindings
<1>2. At \in Nat /\ At \in 1 .. At /\ 1 \in 1 .. At - At + 1
  BY DEF Invariant, At
<1>. QED
  BY <1>1, <1>2, GoodSingles, FindingOfGood

LEMMA GoodChainFindings ==
  ASSUME Invariant, NEW w, NEW f \in ChainFindings(w) PROVE GoodFinding(f)
<1>1. PICK h \in asc :
        /\ f = Finding(h.at, At - h.at + 1,
                 Replace(Append(SubSeq(buf, h.at + 1, Len(buf)),
                                Shifted("addi", w.sf, w.d, h.word.n, h.word.k + w.k)),
                         {h.word.d} \ {w.d}))
        /\ AddSubEncodable(h.word.k + w.k)
  BY DEF ChainFindings
<1>. DEFINE between == SubSeq(buf, h.at + 1, Len(buf))
            sum == Shifted("addi", w.sf, w.d, h.word.n, h.word.k + w.k)
            ws == Append(between, sum)
<1>2. h.at \in DOMAIN buf /\ h.at \in Int /\ At \in Int /\ Len(buf) \in Nat
  BY DEF Invariant, ChainsOpen, At
<1>3. h.word.d \in Gprs
  <2>1. Decoded(h.word)
    BY <1>2, BufferIsDecoded DEF Invariant, TypeOK
  <2>. QED
    BY <2>1, FieldsOfWord DEF Invariant, ChainsOpen
<1>4. between \in Seq(Words) /\ Len(between) = Len(buf) - h.at
      /\ \A i \in 1 .. Len(between) : between[i] = buf[h.at + i]
  BY SMTT(30), <1>2 DEF Invariant
<1>5. \A i \in DOMAIN between : Encodable(between[i])
  <2>1. \A i \in DOMAIN between : h.at + i \in DOMAIN buf /\ between[i] = buf[h.at + i]
    <3>1. DOMAIN buf = 1 .. Len(buf)
      BY DEF Invariant
    <3>. HIDE DEF between
    <3>. QED
      BY <3>1, <1>2, <1>4
  <2>. QED
    BY <2>1, BufferIsDecoded DEF Decoded
<1>6. Encodable(sum)
  BY <1>1, EncodeAdjust
<1>7. \A i \in DOMAIN ws : Encodable(ws[i])
  <2>. HIDE DEF between, sum
  <2>1. between \in Seq(Words)
    BY <1>4
  <2>2. \A i \in DOMAIN ws : (i \in DOMAIN between /\ ws[i] = between[i]) \/ ws[i] = sum
    BY <2>1
  <2>. QED
    BY <2>2, <1>5, <1>6
<1>8. Good(Replace(ws, {h.word.d} \ {w.d}))
  <2>. HIDE DEF ws
  <2>. QED
    BY <1>3, <1>7 DEF Good, Replace
<1>9. At \in Nat /\ h.at \in 1 .. At /\ At - h.at + 1 \in 1 .. At - h.at + 1
  <2>1. DOMAIN buf = 1 .. Len(buf)
    BY DEF Invariant
  <2>. QED
    BY <1>2, <2>1 DEF At
<1>. QED
  BY <1>1, <1>8, <1>9, FindingOfGood

LEMMA GoodInsertFindings ==
  ASSUME Invariant, NEW w, NEW f \in InsertFindings(w) PROVE GoodFinding(f)
<1>1. PICK i \in bfx.isolate :
        /\ f = Finding(bfx.first, 3,
                 Replace(<<Field("bfi", w.sf, w.d, i.s, Min(bfx.field), Cardinality(bfx.field))>>, {i.t}))
        /\ bfx.sf = w.sf /\ bfx.clear = {w.d}
  BY DEF InsertFindings
<1>. DEFINE s == Bitwidth(w.sf)
            lo == Min(bfx.field)
            hi == Max(bfx.field)
<1>2. bfx.field # {} /\ bfx.field = lo .. hi /\ bfx.field \in SUBSET Low(s)
  BY <1>1 DEF Invariant, InsertOfOneField, OneRun
<1>3. lo \in Low(s) /\ hi \in Low(s) /\ s \in Nat
  <2>1. s \in Nat
    BY WidthsArePositive
  <2>. QED
    BY <1>2, <2>1, MaskEnds
<1>4. Cardinality(bfx.field) \in 1 .. s - lo
  <2>. HIDE DEF lo, hi, s
  <2>1. lo \in Int /\ hi \in Int /\ hi <= s - 1 /\ lo <= hi
    BY <1>2, <1>3 DEF Low
  <2>2. Cardinality(lo .. hi) = hi - lo + 1
    BY <2>1, FS_Interval
  <2>. QED
    BY <1>2, <1>3, <2>1, <2>2
<1>5. Encodable(Field("bfi", w.sf, w.d, i.s, lo, Cardinality(bfx.field)))
  <2>1. "bfi" \in ExtractOps \cup PlaceOps
    BY DEF PlaceOps
  <2>. QED
    BY <1>3, <1>4, <2>1, EncodeField
<1>6. /\ i.t \in Gprs /\ At \in Nat /\ bfx.first \in 1 .. At /\ 3 \in 1 .. At - bfx.first + 1
  <2>1. bfx.clear # {} /\ bfx.isolate # {}
    BY <1>1
  <2>2. bfx.first \in 1 .. Len(buf) /\ bfx.first < Len(buf) /\ Len(buf) \in Nat
    BY <2>1 DEF Invariant, InsertOfOneField
  <2>. QED
    BY <2>2 DEF Invariant, InsertOfOneField, At
<1>7. Good(Replace(<<Field("bfi", w.sf, w.d, i.s, lo, Cardinality(bfx.field))>>, {i.t}))
  BY <1>5, <1>6 DEF Good, Replace
<1>. QED
  BY <1>1, <1>6, <1>7, FindingOfGood

-----------------------------------------------------------------------------
(* Every step.                                                             *)

\* The words of the buffer stay where they are.
LEMMA BufferGrows ==
  ASSUME buf \in Seq(Words), NEW w \in Words, buf' = Append(buf, w)
  PROVE  /\ buf' \in Seq(Words) /\ Len(buf') = At /\ Len(buf) \in Nat /\ At \in Nat
         /\ buf'[At] = w /\ At \in DOMAIN buf' /\ DOMAIN buf = 1 .. Len(buf) /\ DOMAIN buf' = 1 .. At
         /\ \A i \in DOMAIN buf : i \in DOMAIN buf' /\ buf'[i] = buf[i]
<1>. DEFINE grown == Append(buf, w)
<1>1. /\ grown \in Seq(Words) /\ Len(grown) = Len(buf) + 1 /\ Len(buf) \in Nat
      /\ grown[Len(buf) + 1] = w /\ DOMAIN buf = 1 .. Len(buf) /\ DOMAIN grown = 1 .. Len(buf) + 1
      /\ \A i \in 1 .. Len(buf) : grown[i] = buf[i]
  OBVIOUS
<1>. HIDE DEF grown
<1>2. buf' = grown
  BY DEF grown
<1>. QED
  BY <1>1, <1>2 DEF At

LEMMA HoldKeeps ==
  ASSUME Invariant, NEW w \in Words, buf' = Append(buf, w), Hold(w)
  PROVE  /\ HeldOpens'
         /\ \A t \in Trackers : \A h \in held'[t] : h.at = Len(buf') /\ h.word = buf'[h.at]
<1>1. /\ Len(buf') = At /\ Len(buf) \in Nat /\ buf'[At] = w
  BY BufferGrows DEF Invariant
<1>2. held' = [t \in Trackers |-> IF Opens(t, w) THEN {Here(w)} ELSE {}]
  BY DEF Hold
<1>3. ASSUME NEW t \in Trackers, NEW h \in held'[t]
      PROVE  h = Here(w) /\ Opens(t, w)
  BY <1>2
<1>4. Here(w).at = At /\ Here(w).word = w /\ At > 0
  BY <1>1 DEF Here, At
<1>. QED
  BY <1>1, <1>2, <1>3, <1>4 DEF HeldOpens

LEMMA HoldChainKeeps ==
  ASSUME Invariant, NEW w \in Words, buf' = Append(buf, w), HoldChain(w)
  PROVE  ChainsOpen' /\ \A h \in asc' : h.word = buf'[h.at] /\ h.window \in 1 .. Window
<1>1. /\ At \in DOMAIN buf' /\ buf'[At] = w
      /\ \A i \in DOMAIN buf : i \in DOMAIN buf' /\ buf'[i] = buf[i]
  BY BufferGrows DEF Invariant
<1>2. CASE asc' = {[word |-> w, at |-> At, window |-> Window]} /\ w.d # R31
  BY <1>1, <1>2, PeepholeAssumption DEF ChainsOpen
<1>3. CASE asc' = {[h EXCEPT !.window = @ - 1] : h \in {h \in asc : ChainUndisturbed(h, w) /\ h.window > 1}}
  <2>1. ASSUME NEW g \in asc'
        PROVE  /\ DOMAIN g = {"word", "at", "window"}
               /\ g.at \in DOMAIN buf' /\ g.word.d # R31
               /\ g.word = buf'[g.at] /\ g.window \in 1 .. Window
    <3>1. PICK h \in asc : g = [h EXCEPT !.window = @ - 1] /\ h.window > 1
      BY <1>3, <2>1
    <3>2. h.at \in DOMAIN buf /\ h.word.d # R31 /\ h.word = buf[h.at] /\ h.window \in 1 .. Window
      BY DEF Invariant, ChainsOpen, TypeOK
    <3>3. /\ g.at = h.at /\ g.word = h.word /\ g.window = h.window - 1
          /\ DOMAIN g = {"word", "at", "window"}
      BY <3>1 DEF Invariant, ChainsOpen
    <3>. QED
      BY <1>1, <3>1, <3>2, <3>3, PeepholeAssumption
  <2>. QED
    BY <2>1 DEF ChainsOpen
<1>. QED
  BY <1>2, <1>3 DEF HoldChain

LEMMA HoldInsertKeeps ==
  ASSUME Invariant, NEW w \in Words, Decoded(w), buf' = Append(buf, w), HoldInsert(w)
  PROVE  InsertOfOneField'
<1>. DEFINE cleared == Low(Size(w)) \ w.mask
            fresh(bits) == [NoInsert EXCEPT !.sf = w.sf, !.field = bits, !.first = At]
<1>0. Len(buf') = Len(buf) + 1 /\ At = Len(buf) + 1 /\ Len(buf) \in Nat
  BY BufferGrows DEF Invariant, At
<1>1. /\ At \in Nat /\ bfx.first \in Nat /\ \A i \in bfx.isolate : i.t \in Gprs
      /\ DOMAIN bfx = DOMAIN NoInsert
      /\ bfx.clear # {} \/ bfx.isolate # {} => bfx.first \in 1 .. Len(buf)
  BY DEF Invariant, InsertOfOneField, At
<1>2. \A bits : /\ fresh(bits).sf = w.sf /\ fresh(bits).field = bits /\ fresh(bits).first = At
                /\ fresh(bits).clear = {} /\ fresh(bits).isolate = {}
                /\ DOMAIN fresh(bits) = DOMAIN NoInsert
  BY DEF NoInsert
<1>. HIDE DEF fresh
<1>3. CASE ClearsField(w)
  <2>1. PICK b : /\ bfx' = [b EXCEPT !.clear = {w.d}]
                 /\ (b = bfx /\ bfx.isolate # {} /\ SameField(w, cleared)) \/ b = fresh(cleared)
    BY <1>3 DEF HoldInsert, fresh
  <2>0. /\ b.first \in 1 .. Len(buf')
        /\ b.isolate # {} => b.first < Len(buf')
    <3>1. CASE b = bfx /\ bfx.isolate # {}
      BY <1>0, <1>1, <3>1
    <3>2. CASE b = fresh(cleared)
      BY <1>0, <1>2, <3>2
    <3>. QED
      BY <2>1, <3>1, <3>2
  <2>2. /\ b.field = cleared /\ b.sf = w.sf /\ b.first \in Nat /\ \A i \in b.isolate : i.t \in Gprs
        /\ DOMAIN b = DOMAIN NoInsert
    BY <1>1, <1>2, <2>1 DEF SameField
  <2>3. /\ bfx'.field = b.field /\ bfx'.sf = b.sf /\ bfx'.first = b.first /\ bfx'.isolate = b.isolate
        /\ DOMAIN bfx' = DOMAIN b
    BY <2>1
  <2>4. OneRun(cleared) /\ cleared \subseteq Low(Bitwidth(w.sf))
    BY <1>3, WidthsArePositive DEF ClearsField
  <2>. QED
    BY <2>0, <2>2, <2>3, <2>4 DEF InsertOfOneField
<1>4. CASE ~ClearsField(w) /\ IsolateOp(w)
  <2>1. PICK b : /\ bfx' = [b EXCEPT !.isolate = {[t |-> w.d, s |-> w.n]}]
                 /\ (b = bfx /\ bfx.clear # {}) \/ b = fresh(IsolatedField(w))
    BY <1>4 DEF HoldInsert, fresh
  <2>0. /\ b.first \in 1 .. Len(buf')
        /\ b.clear # {} => b.first < Len(buf')
    <3>1. CASE b = bfx /\ bfx.clear # {}
      BY <1>0, <1>1, <3>1
    <3>2. CASE b = fresh(IsolatedField(w))
      BY <1>0, <1>2, <3>2
    <3>. QED
      BY <2>1, <3>1, <3>2
  <2>2. /\ bfx'.field = b.field /\ bfx'.sf = b.sf /\ bfx'.first = b.first /\ bfx'.clear = b.clear
        /\ bfx'.isolate = {[t |-> w.d, s |-> w.n]} /\ DOMAIN bfx' = DOMAIN NoInsert
    <3>1. DOMAIN b = DOMAIN NoInsert /\ "isolate" \in DOMAIN NoInsert
      BY <1>1, <1>2, <2>1 DEF NoInsert
    <3>. QED
      BY <2>1, <3>1
  <2>3. w.d \in Gprs
    BY <1>4, FieldsOfWord DEF IsolateOp
  <2>4. /\ b.first \in Nat
        /\ b.clear # {} => OneRun(b.field) /\ b.field \subseteq Low(Bitwidth(b.sf))
    BY <1>1, <1>2, <2>1 DEF Invariant, InsertOfOneField
  <2>. QED
    BY <2>0, <2>2, <2>3, <2>4 DEF InsertOfOneField
<1>5. CASE ~ClearsField(w) /\ ~IsolateOp(w)
  <2>1. bfx' = NoInsert
    BY <1>5 DEF HoldInsert
  <2>. QED
    BY <2>1 DEF NoInsert, InsertOfOneField
<1>. QED
  BY <1>3, <1>4, <1>5

LEMMA InstructionKeeps ==
  ASSUME WidthOfElement, Invariant, Instruction
  PROVE  Invariant'
<1>1. PICK w \in Families[family][At] :
        /\ buf' = Append(buf, w)
        /\ out' = out \cup PairFindings(w) \cup SingleFindings(w)
                      \cup ChainFindings(w) \cup InsertFindings(w)
        /\ Hold(w) /\ HoldChain(w) /\ HoldInsert(w)
  BY DEF Instruction
<1>2. family' = family /\ Len(buf) < Len(Families[family])
  BY DEF Instruction
<1>3. Decoded(w) /\ w \in Words
  BY <1>2, NextIsDecoded DEF Decoded
<1>4. /\ buf' \in Seq(Words) /\ Len(buf') = At /\ Len(buf) \in Nat /\ At \in Nat
      /\ buf'[At] = w /\ DOMAIN buf = 1 .. Len(buf) /\ DOMAIN buf' = 1 .. At
      /\ \A i \in DOMAIN buf : buf'[i] = buf[i]
  BY <1>1, <1>3, BufferGrows DEF Invariant
<1>5. \A f \in out' : f \in out \/ GoodFinding(f)
  BY <1>1, <1>3, GoodPairFindings, GoodSingleFindings, GoodChainFindings, GoodInsertFindings
<1>6. HeldOpens' /\ \A t \in Trackers : \A h \in held'[t] : h.at = Len(buf') /\ h.word = buf'[h.at]
  BY <1>1, <1>3, HoldKeeps
<1>7. ChainsOpen' /\ \A h \in asc' : h.word = buf'[h.at] /\ h.window \in 1 .. Window
  BY <1>1, <1>3, HoldChainKeeps
<1>8. InsertOfOneField'
  BY <1>1, <1>3, HoldInsertKeeps
<1>9. TypeOK'
  <2>1. family' \in DOMAIN Families
    BY <1>2 DEF Invariant, TypeOK
  <2>2. Len(buf') <= Len(Families[family'])
    <3>1. Len(Families[family]) \in Nat
      BY PeepholeAssumption DEF Invariant, TypeOK
    <3>. QED
      BY <1>2, <1>4, <3>1 DEF At
  <2>3. \A i \in DOMAIN buf' : buf'[i] \in Families[family'][i]
    <3>1. \A i \in DOMAIN buf : buf[i] \in Families[family][i]
      BY DEF Invariant, TypeOK
    <3>2. \A i \in DOMAIN buf' : i \in DOMAIN buf \/ i = At
      BY <1>4 DEF At
    <3>. QED
      BY <1>2, <1>4, <3>1, <3>2
  <2>4. \A f \in out' : /\ f.at \in 1 .. Len(buf') /\ f.start \in 1 .. f.at
                        /\ f.count \in 1 .. f.at - f.start + 1 /\ f.dead \subseteq Gprs
    <3>1. \A f \in out : /\ f.at \in 1 .. Len(buf) /\ f.start \in 1 .. f.at
                         /\ f.count \in 1 .. f.at - f.start + 1 /\ f.dead \subseteq Gprs
      BY DEF Invariant, TypeOK
    <3>2. \A f \in out' : f \notin out =>
            /\ f.at = At /\ f.start \in 1 .. At /\ f.count \in 1 .. At - f.start + 1 /\ f.dead \subseteq Gprs
      BY <1>5 DEF GoodFinding
    <3>3. At \in 1 .. Len(buf') /\ 1 .. Len(buf) \subseteq 1 .. Len(buf')
      BY <1>4 DEF At
    <3>. QED
      BY <3>1, <3>2, <3>3
  <2>. QED
    BY <2>1, <2>2, <2>3, <2>4, <1>6, <1>7 DEF TypeOK
<1>10. RewritesEncode'
  BY <1>5 DEF Invariant, RewritesEncode, GoodFinding
<1>. QED
  BY <1>4, <1>6, <1>7, <1>8, <1>9, <1>10 DEF Invariant

LEMMA InvariantStarts == ASSUME Init PROVE Invariant
<1>1. buf = <<>> /\ buf \in Seq(Words) /\ Len(buf) = 0 /\ DOMAIN buf = {}
  BY DEF Init
<1>2. Len(Families[family]) \in Nat
  BY PeepholeAssumption DEF Init
<1>3. TypeOK
  BY <1>1, <1>2 DEF Init, TypeOK
<1>4. HeldOpens /\ ChainsOpen /\ InsertOfOneField /\ RewritesEncode
  BY DEF Init, HeldOpens, ChainsOpen, InsertOfOneField, NoInsert, RewritesEncode
<1>. QED
  BY <1>1, <1>3, <1>4 DEF Invariant

LEMMA InvariantKept == ASSUME WidthOfElement, Invariant, [Next]_vars PROVE Invariant'
<1>1. CASE Instruction
  BY <1>1, InstructionKeeps
<1>2. CASE UNCHANGED vars
  BY <1>2 DEF vars, Invariant, TypeOK, HeldOpens, ChainsOpen, InsertOfOneField, RewritesEncode
<1>. QED
  BY <1>1, <1>2 DEF Next, EndOfBuffer

LEMMA InvariantHolds == ASSUME WidthOfElement PROVE Spec => []Invariant
<1>1. Init => Invariant
  BY InvariantStarts
<1>2. Invariant /\ [Next]_vars => Invariant'
  BY InvariantKept
<1>. QED
  BY <1>1, <1>2, PTL DEF Spec

\* Whatever the buffers and the width, each tracker holds words of the buffer
\* where it says it found them, and every finding ends at a word read and
\* names general registers to be proven dead (the asc_*, bfx_* and pair
\* fields of struct armlint).
THEOREM TypesHold == ASSUME WidthOfElement PROVE Spec => []TypeOK
<1>1. Invariant => TypeOK
  BY DEF Invariant
<1>. QED
  BY <1>1, InvariantHolds, PTL

\* Whatever the buffers and the width, every word a folding check suggests,
\* in its rewrite and in its fallback, can be encoded: a field fits its
\* register, a mask is a bitmask immediate, an adjustment fits its field, a
\* constant is one instruction (the format_* calls of the checks).
THEOREM RewritesAlwaysEncode == ASSUME WidthOfElement PROVE Spec => []RewritesEncode
<1>1. Invariant => RewritesEncode
  BY DEF Invariant
<1>. QED
  BY <1>1, InvariantHolds, PTL

-----------------------------------------------------------------------------
(* No window is reported twice.                                            *)

\* The pairs of words each check can fold, by what tells the checks apart.
Claims(t, p, w) ==
  CASE t = "shf"  -> p.op \in ShiftOps /\ w.op \in ArithOps \cup LogicOps /\ w.k = 0
    [] t = "fnl"  -> p.op \in ShiftOps /\ w.op \in ArithOps \cup LogicOps /\ w.k # 0
    [] t = "bsx"  -> p.op = "lsl" /\ w.op \in {"lsr", "asr"}
    [] t = "lra"  -> p.op \in {"lsr", "asr"} /\ w.op = "andi"
    [] t = "alr"  -> p.op = "andi" /\ w.op = "lsr"
    [] t = "aul"  -> p.op \in {"andi", "ubfx", "orr", "lsr"} /\ w.op = "lsl"
    [] t = "aos"  -> p.op = "andi" /\ w.op = "orr"
    [] t = "sxt"  -> /\ p.op \in {"sbfx", "sbfiz", "asr", "ldr"} /\ SignedFrom(p) < Size(p)
                     /\ Again(p, w) \/ DeadSext(p, w)
    [] t = "aec"  -> ChainRole(w) /\ Chained(p, w) # {}
                     /\ p.op \in {"orr", "andi", "ubfx", "sbfx"} /\ (p.op = "sbfx" => p.k = 0)
    [] t = "neg"  -> p.op = "sub"
    [] t = "mvn"  -> p.op = "orn"
    [] t = "ao"   -> p.op = "addi" /\ w.op = "csel"
    [] t = "mul"  -> p.op = "madd"
    [] t = "wmul" -> p.op \in {"smaddl", "umaddl"}
    [] t = "ext"  -> p.op \in {"sbfx", "ubfx"} /\ w.op \in ArithOps
    [] t = "rcc"  -> p.op = "orr" /\ w.op = "orr"
    [] t = "cpa"  -> p.op \in {"orr", "addi"} /\ w.op = "addi" /\ p.d # R31 /\ (p.op = "addi" => p.k = 0)
    [] t = "spm"  -> p.op = "addi" /\ w.op = "addi" /\ p.d = R31
    [] t = "cset" -> p.op = "csinc"
    [] OTHER -> FALSE

\* There is but one operand that survives.
LEMMA OneSurvivor ==
  ASSUME NEW p, NEW w, NEW swaps, NEW r \in Survivor(p, w, swaps), NEW q \in Survivor(p, w, swaps)
  PROVE  r = q
BY DEF Survivor

LEMMA ClaimsOfShifts ==
  ASSUME NEW p, NEW w, NEW t \in {"shf", "fnl", "bsx", "lra", "alr", "aul", "aos"},
         Opens(t, p), NEW fold \in Closes(t, p, w)
  PROVE  Claims(t, p, w)
<1>1. CASE t = "shf"
  BY <1>1 DEF Opens, Closes, Claims, ShiftOpens, ShiftFold, ShiftedRegister, Survivor
<1>2. CASE t = "fnl"
  BY <1>2 DEF Opens, Closes, Claims, FunnelOpens, FunnelFold, FunnelConsumer, ShiftOps, ArithOps, LogicOps
<1>3. CASE t = "bsx"
  BY <1>3 DEF Opens, Closes, Claims, BitfieldOpens, BitfieldFold
<1>4. CASE t = "lra"
  BY <1>4 DEF Opens, Closes, Claims, LsrAndOpens, LsrAndFold, LowMask
<1>5. CASE t = "alr"
  BY <1>5 DEF Opens, Closes, Claims, AndLsrOpens, AndLsrFold
<1>6. CASE t = "aul"
  <2>1. fold \in UpFold(p, w) /\ UpOpens(p)
    BY <1>6 DEF Opens, Closes
  <2>2. w.op = "lsl"
    BY <2>1 DEF UpFold
  <2>3. p.op \in {"andi", "ubfx", "orr", "lsr"}
    BY <2>1 DEF UpOpens, LowField, LowMask, ZextField, UbfmZext, MovW
  <2>. QED
    BY <1>6, <2>2, <2>3 DEF Claims
<1>7. CASE t = "aos"
  BY <1>7 DEF Opens, Closes, Claims, InsertOpens, InsertFold
<1>. QED
  BY <1>1, <1>2, <1>3, <1>4, <1>5, <1>6, <1>7

LEMMA ClaimsOfOthers ==
  ASSUME NEW p, NEW w, NEW t \in Trackers \ {"shf", "fnl", "bsx", "lra", "alr", "aul", "aos"},
         Opens(t, p), NEW fold \in Closes(t, p, w)
  PROVE  Claims(t, p, w)
<1>1. CASE t = "sxt"
  BY <1>1 DEF Opens, Closes, Claims, SextOpens, SextFold
<1>2. CASE t = "aec"
  <2>1. ChainOpens(p) /\ fold \in ChainFold(p, w)
    BY <1>2 DEF Opens, Closes
  <2>2. ChainRole(w) /\ Chained(p, w) # {}
    BY <2>1 DEF ChainFold
  <2>3. p.op \in {"orr", "andi", "ubfx", "sbfx"} /\ (p.op = "sbfx" => p.k = 0)
    BY <2>1 DEF ChainOpens, MovW, ChainRole, UbfmZext, SextRole
  <2>. QED
    BY <1>2, <2>2, <2>3 DEF Claims
<1>3. CASE t \in {"neg", "mvn", "mul", "wmul", "cset"}
  BY <1>3 DEF Opens, Claims, NegOpens, MvnOpens, MulOpens, WideMulOpens, Widening, CsetOpens
<1>4. CASE t = "ao"
  BY <1>4 DEF Opens, Closes, Claims, AddOneOpens, AddOneFold, SelectFold
<1>5. CASE t = "ext"
  BY <1>5 DEF Opens, Closes, Claims, ExtendOpens, SbfmSext, UbfmZext, ExtendFold
<1>6. CASE t = "rcc"
  BY <1>6 DEF Opens, Closes, Claims, RegisterCopy, CopyChain
<1>7. CASE t = "cpa"
  BY <1>7 DEF Opens, Closes, Claims, CopyOpens, CopiesSp, RegisterCopy, CopyAdd
<1>8. CASE t = "spm"
  BY <1>8 DEF Opens, Closes, Claims, SpMovOpens, SpMovOverwritten
<1>9. CASE t = "adr"
  BY <1>9 DEF Closes
<1>. QED
  BY <1>1, <1>2, <1>3, <1>4, <1>5, <1>6, <1>7, <1>8, <1>9 DEF Trackers

\* What check_redundant_sext reports check_and_ext_chain leaves alone.
LEMMA SextIsNotChained ==
  ASSUME NEW p, NEW w, Decoded(p), Decoded(w), ChainRole(w), p.op = "sbfx", p.k = 0,
         SignedFrom(p) < Size(p), Again(p, w) \/ DeadSext(p, w)
  PROVE  Chained(p, w) = {}
<1>1. SignedFrom(p) = p.wd /\ SextRole(p) /\ Passes(p) = Low(p.wd) /\ p.wd \in Nat
  BY FieldsOfWord DEF SignedFrom, SextRole, Passes
<1>2. CASE Again(p, w)
  <2>1. SextRole(w) /\ w.d = p.d /\ w.op # "andsi" /\ w.wd >= p.wd /\ SameWidth(p, w)
    BY <1>1, <1>2, FieldsOfWord DEF Again, SbfmSext, SextRole, InPlace
  <2>2. ConsumerIsNoop(p, w)
    BY <1>1, <2>1 DEF ConsumerIsNoop
  <2>. QED
    BY <2>1, <2>2 DEF Chained
<1>3. CASE DeadSext(p, w)
  <2>1. PICK c \in ZextWidth(w) : c <= p.wd
    BY <1>1, <1>3 DEF DeadSext
  <2>2. ~MovW(w)
    BY DEF MovW, ChainRole, UbfmZext, SextRole
  <2>3. (UbfmZext(w) /\ c = w.wd) \/ (LowMask(w) /\ c = Cardinality(w.mask))
    BY <2>1, <2>2 DEF ZextWidth
  <2>4. Passes(w) = Low(c) /\ c \in Nat /\ ~SextRole(w)
    <3>1. CASE UbfmZext(w) /\ c = w.wd
      BY <3>1, FieldsOfWord DEF UbfmZext, Passes, SextRole
    <3>2. CASE LowMask(w) /\ c = Cardinality(w.mask)
      BY <3>2, LowMaskWidth DEF LowMask, Passes, SextRole
    <3>. QED
      BY <2>3, <3>1, <3>2
  <2>5. Passes(w) \subseteq Passes(p)
    BY <1>1, <2>1, <2>4 DEF Low
  <2>6. ~ConsumerIsNoop(p, w)
    <3>1. Size(p) - 1 \in Low(Size(p)) /\ Size(p) - 1 \notin Low(c)
      BY <1>1, <2>1, <2>4, WidthsArePositive DEF Low
    <3>. QED
      BY <1>1, <2>4, <3>1 DEF ConsumerIsNoop
  <2>7. p.n = p.d /\ w.d = p.d
    BY <1>3 DEF DeadSext, InPlaceZext
  <2>. QED
    BY <1>1, <2>3, <2>5, <2>6, <2>7 DEF Chained
<1>. QED
  BY <1>2, <1>3

\* No two checks claim one pair.
LEMMA OneClaim ==
  ASSUME NEW p, NEW w, Decoded(p), Decoded(w),
         NEW t \in Trackers, NEW u \in Trackers, Claims(t, p, w), Claims(u, p, w)
  PROVE  t = u
<1>1. ~({t, u} = {"sxt", "aec"})
  <2>. SUFFICES ASSUME Claims("sxt", p, w), Claims("aec", p, w) PROVE FALSE
    OBVIOUS
  <2>1. /\ p.op \in {"sbfx", "sbfiz", "asr", "ldr"} /\ SignedFrom(p) < Size(p)
        /\ Again(p, w) \/ DeadSext(p, w)
    BY DEF Claims
  <2>2. /\ ChainRole(w) /\ Chained(p, w) # {} /\ p.op \in {"orr", "andi", "ubfx", "sbfx"}
        /\ p.op = "sbfx" => p.k = 0
    BY DEF Claims
  <2>. QED
    BY <2>1, <2>2, SextIsNotChained
<1>2. ASSUME Claims("aec", p, w)
      PROVE  w.op \in {"andi", "andsi", "ubfx", "sbfx"} /\ p.op \in {"orr", "andi", "ubfx", "sbfx"}
  BY <1>2 DEF Claims, ChainRole, UbfmZext, SextRole
<1>3. ASSUME Claims("sxt", p, w)
      PROVE  /\ p.op \in {"sbfx", "sbfiz", "asr", "ldr"}
             /\ w.op = "sbfx" \/ (p.op = "sbfx" /\ w.op \in {"ubfx", "andi", "orr"})
  BY <1>3 DEF Claims, Again, SbfmSext, DeadSext, ZextWidth, UbfmZext, LowMask, MovW
<1>4. CASE t \in {"sxt", "aec"} /\ u \in {"sxt", "aec"}
  BY <1>1, <1>4
<1>5. CASE t = "aec" /\ u \notin {"sxt", "aec"}
  BY <1>2, <1>5 DEF Claims, Trackers, ShiftOps, ArithOps, LogicOps
<1>6. CASE t = "sxt" /\ u \notin {"sxt", "aec"}
  BY <1>3, <1>6 DEF Claims, Trackers, ShiftOps, ArithOps, LogicOps
<1>7. CASE u = "aec" /\ t \notin {"sxt", "aec"}
  BY <1>2, <1>7 DEF Claims, Trackers, ShiftOps, ArithOps, LogicOps
<1>8. CASE u = "sxt" /\ t \notin {"sxt", "aec"}
  BY <1>3, <1>8 DEF Claims, Trackers, ShiftOps, ArithOps, LogicOps
<1>9. CASE t \notin {"sxt", "aec"} /\ u \notin {"sxt", "aec"}
  BY <1>9 DEF Claims, Trackers, ShiftOps, ArithOps, LogicOps
<1>. QED
  BY <1>4, <1>5, <1>6, <1>7, <1>8, <1>9

\* The chained mask folds to one word.
LEMMA OneChained ==
  ASSUME NEW p, NEW w, NEW a \in Chained(p, w), NEW b \in Chained(p, w)
  PROVE  a = b
<1>. DEFINE noop  == ConsumerIsNoop(p, w)
            keeps == Passes(p) \cap Passes(w)
            flags == w.op = "andsi"
            And(sf) == Masked(IF flags THEN "andsi" ELSE "andi", sf, w.d, Source(p), keeps)
            Sext(sf) == Field("sbfx", sf, w.d, p.n, 0, p.wd)
            Narrowed == {And(sf) : sf \in {sf \in {FALSE} :
                           w.sf /\ ~flags /\ keeps \in BitmaskImmediates[H]}}
            Merged == CASE keeps = {} /\ flags  -> {}
                        [] keeps = {} /\ ~flags -> {MovImm(w.sf, w.d, {})}
                        [] keeps \in BitmaskImmediates[Size(w)] -> {And(w.sf)}
                        [] OTHER -> Narrowed
            Whole == IF noop /\ w.d = p.d /\ ~flags THEN {}
                     ELSE IF ~noop /\ Passes(w) \subseteq Passes(p)
                          THEN IF SextRole(p) /\ p.n = p.d /\ w.d = p.d /\ (UbfmZext(w) \/ LowMask(w))
                               THEN {} ELSE {[w EXCEPT !.n = Source(p)]}
                     ELSE IF ~SextRole(p) /\ (~SextRole(w) \/ noop) THEN Merged
                     ELSE IF flags \/ ~SextRole(p) THEN {}
                     ELSE IF SextRole(w) /\ p.wd <= w.wd /\ w.wd <= Size(p) THEN {Sext(w.sf)}
                     ELSE IF ~SextRole(w) /\ noop THEN {Sext(p.sf)}
                     ELSE {}
<1>1. Chained(p, w) = Whole
  BY DEF Chained
<1>2. \A x, y \in Merged : x = y
  <2>1. \A x \in Narrowed : x = And(FALSE)
    OBVIOUS
  <2>2. {} \notin BitmaskImmediates[Size(w)]
    BY BitmaskHasBits, WidthsArePositive
  <2>. HIDE DEF And, keeps, flags, Narrowed
  <2>3. CASE keeps = {} /\ flags
    BY <2>3, <2>2
  <2>4. CASE keeps = {} /\ ~flags
    BY <2>4, <2>2
  <2>5. CASE keeps # {} /\ keeps \in BitmaskImmediates[Size(w)]
    BY <2>5
  <2>6. CASE keeps # {} /\ keeps \notin BitmaskImmediates[Size(w)]
    BY <2>6, <2>1
  <2>. QED
    BY <2>3, <2>4, <2>5, <2>6
<1>3. \A x, y \in Whole : x = y
  <2>. HIDE DEF Merged, Sext, noop, flags
  <2>. QED
    BY <1>2
<1>. HIDE DEF Whole
<1>. QED
  BY <1>1, <1>3

\* A check folds a pair in one way.
LEMMA OneShiftFold ==
  ASSUME NEW p, NEW w, NEW t \in {"shf", "fnl", "bsx", "lra", "alr", "aul", "aos", "sxt", "aec"},
         NEW f \in Closes(t, p, w), NEW g \in Closes(t, p, w)
  PROVE  f = g
<1>1. CASE t = "shf"
  BY <1>1, OneSurvivor DEF Closes, ShiftFold
<1>2. CASE t = "fnl"
  BY <1>2 DEF Closes, FunnelFold
<1>3. CASE t = "bsx"
  BY <1>3 DEF Closes, BitfieldFold
<1>4. CASE t = "lra"
  BY <1>4 DEF Closes, LsrAndFold
<1>5. CASE t = "alr"
  BY <1>5 DEF Closes, AndLsrFold
<1>6. CASE t = "aul"
  <2>. DEFINE source == IF LowMask(p) /\ p.d # R31
                        THEN [n |-> p.n, wd |-> Cardinality(p.mask), sf |-> p.sf]
                        ELSE IF p.op = "ubfx" THEN [n |-> p.n, wd |-> p.wd, sf |-> p.sf]
                        ELSE [n |-> p.m, wd |-> H, sf |-> TRUE]
  <2>1. \A x \in LowField(p) : x = source
    BY DEF LowField, ZextField, UbfmZext, MovW
  <2>2. p.op = "lsr" => LowField(p) = {}
    BY DEF LowField, ZextField, UbfmZext, MovW, LowMask
  <2>3. f \in UpFold(p, w) /\ g \in UpFold(p, w)
    BY <1>6 DEF Closes
  <2>. DEFINE field(x) == Fold(p, w, Field("ubfiz", w.sf, w.d, x.n, w.k, Min({x.wd, Size(w) - w.k})))
              mask == Fold(p, w, Masked("andi", w.sf, w.d, p.n, Low(Size(w)) \ Low(w.k)))
  <2>4. \A h \in UpFold(p, w) : (\E x \in LowField(p) : h = field(x)) \/ (p.op = "lsr" /\ h = mask)
    BY DEF UpFold
  <2>. HIDE DEF field, mask, source
  <2>. QED
    BY <2>1, <2>2, <2>3, <2>4
<1>7. CASE t = "aos"
  BY <1>7 DEF Closes, InsertFold
<1>8. CASE t = "sxt"
  BY <1>8 DEF Closes, SextFold
<1>9. CASE t = "aec"
  BY <1>9, OneChained DEF Closes, ChainFold
<1>. QED
  BY <1>1, <1>2, <1>3, <1>4, <1>5, <1>6, <1>7, <1>8, <1>9

LEMMA OneSelectFold ==
  ASSUME NEW p, NEW w, NEW op, NEW src, NEW f \in SelectFold(p, w, op, src), NEW g \in SelectFold(p, w, op, src)
  PROVE  f = g /\ w.op = "csel"
<1>. DEFINE word(r) == Fold(p, w, Select(op, w.sf, w.d, r, src, IF w.m = p.d THEN w.cond ELSE Invert[w.cond]))
<1>1. w.op = "csel" /\ \E r \in Survivor(p, w, TRUE) : f = word(r)
  BY DEF SelectFold
<1>2. \E r \in Survivor(p, w, TRUE) : g = word(r)
  BY DEF SelectFold
<1>. HIDE DEF word
<1>. QED
  BY <1>1, <1>2, OneSurvivor

LEMMA OneOtherFold ==
  ASSUME NEW p, NEW w, NEW t \in Trackers \ {"shf", "fnl", "bsx", "lra", "alr", "aul", "aos", "sxt", "aec"},
         NEW f \in Closes(t, p, w), NEW g \in Closes(t, p, w)
  PROVE  f = g
<1>1. CASE t = "neg"
  <2>. DEFINE plain == NegFold(p, w) \ SelectFold(p, w, "csneg", p.m)
  <2>1. \A x \in plain : w.op \in {"add", "sub"}
    BY DEF NegFold
  <2>2. \A x, y \in plain : x = y
    <3>. DEFINE word(r) == Fold(p, w, Ternary(IF w.op = "sub" THEN "add" ELSE "sub", w.sf, w.d, r, p.m))
    <3>1. \A x \in plain : \E r \in Survivor(p, w, w.op = "add") : x = word(r)
      BY DEF NegFold
    <3>. HIDE DEF word, plain
    <3>. QED
      BY <3>1, OneSurvivor
  <2>3. f \in NegFold(p, w) /\ g \in NegFold(p, w)
    BY <1>1 DEF Closes
  <2>. HIDE DEF plain
  <2>4. \A x \in NegFold(p, w) : x \in plain \/ x \in SelectFold(p, w, "csneg", p.m)
    BY DEF plain
  <2>. QED
    BY <2>1, <2>2, <2>3, <2>4, OneSelectFold
<1>2. CASE t = "mvn"
  <2>. DEFINE plain == MvnFold(p, w) \ SelectFold(p, w, "csinv", p.m)
  <2>1. \A x \in plain : w.op \in DOMAIN Inverted
    BY DEF MvnFold
  <2>2. \A x, y \in plain : x = y
    <3>. DEFINE word(r) == Fold(p, w, Ternary(Inverted[w.op], w.sf, w.d, r, p.m))
    <3>1. \A x \in plain : \E r \in Survivor(p, w, TRUE) : x = word(r)
      BY DEF MvnFold
    <3>2. \A r, q \in Survivor(p, w, TRUE) : r = q
      BY DEF Survivor
    <3>. HIDE DEF word, plain
    <3>. QED
      BY <3>1, <3>2
  <2>3. f \in MvnFold(p, w) /\ g \in MvnFold(p, w) /\ "csel" \notin DOMAIN Inverted
    BY <1>2 DEF Closes, Inverted
  <2>. HIDE DEF plain
  <2>4. \A x \in MvnFold(p, w) : x \in plain \/ x \in SelectFold(p, w, "csinv", p.m)
    BY DEF plain
  <2>. QED
    BY <2>1, <2>2, <2>3, <2>4, OneSelectFold
<1>3. CASE t = "ao"
  BY <1>3, OneSelectFold DEF Closes, AddOneFold
<1>4. CASE t = "mul"
  BY <1>4, OneSurvivor DEF Closes, MulFold, Accumulator
<1>5. CASE t = "wmul"
  <2>. DEFINE word(r) == Fold(p, w, MulAdd(Widening[p.op][w.op], TRUE, w.d, p.n, p.m, r))
  <2>1. f \in WideMulFold(p, w) /\ g \in WideMulFold(p, w)
    BY <1>5 DEF Closes
  <2>2. \A x \in WideMulFold(p, w) : \E r \in Survivor(p, w, w.op = "add") : x = word(r)
    BY DEF WideMulFold, Accumulator
  <2>. HIDE DEF word
  <2>. QED
    BY <2>1, <2>2, OneSurvivor
<1>6. CASE t = "ext"
  BY <1>6, OneSurvivor DEF Closes, ExtendFold
<1>7. CASE t \in {"rcc", "cpa", "spm"}
  <2>1. \A x, y \in CopyChain(p, w) : x = y
    BY DEF CopyChain
  <2>2. \A x, y \in CopyAdd(p, w) : x = y
    BY DEF CopyAdd
  <2>3. \A x, y \in SpMovOverwritten(p, w) : x = y
    BY DEF SpMovOverwritten
  <2>. QED
    BY <1>7, <2>1, <2>2, <2>3 DEF Closes
<1>8. CASE t = "cset"
  BY <1>8 DEF Closes, CsetFold, InvertsBool, NegatesBool
<1>9. CASE t = "adr"
  BY <1>9 DEF Closes
<1>. QED
  BY <1>1, <1>2, <1>3, <1>4, <1>5, <1>6, <1>7, <1>8, <1>9 DEF Trackers

\* A word is replaced by itself in one way.
LEMMA OneSingle ==
  ASSUME NEW w, Decoded(w), NEW adr, NEW a \in Singles(w, adr), NEW b \in Singles(w, adr)
  PROVE  a = b
<1>1. ASSUME NEW x \in SelfOp(w)
      PROVE  w.op \in LogicOps \cup {"sub"} /\ w.n = w.m /\ w.n # R31
  BY <1>1 DEF SelfOp, LogicOps
<1>2. ASSUME NEW x \in ZrOperand(w)
      PROVE  w.op \in LogicOps \cup {"add", "sub"} /\ w.m = R31 /\ w.n # R31
  BY <1>2 DEF ZrOperand, LogicOps
<1>3. ASSUME NEW x \in Lo32Mov(w) PROVE w.op \in {"andi", "ubfx"}
  BY <1>3 DEF Lo32Mov, LowMask, UbfmZext
<1>4. ASSUME NEW x \in CselSelf(w) PROVE w.op = "csel"
  BY <1>4 DEF CselSelf
<1>5. ASSUME NEW x \in MovSelf(w) PROVE w.op = "orr" /\ w.n = R31
  BY <1>5 DEF MovSelf
<1>6. ASSUME NEW x \in AddSubZero(w, adr) PROVE w.op = "addi"
  BY <1>6 DEF AddSubZero
<1>7. \A x, y \in SelfOp(w) : x = y
  BY DEF SelfOp
<1>8. \A x, y \in ZrOperand(w) : x = y
  BY DEF ZrOperand
<1>9. \A x, y \in Lo32Mov(w) : x = y
  BY DEF Lo32Mov
<1>10. \A x, y \in CselSelf(w) : x = y
  BY DEF CselSelf
<1>11. \A x, y \in MovSelf(w) : x = y
  BY DEF MovSelf
<1>12. \A x, y \in AddSubZero(w, adr) : x = y
  BY DEF AddSubZero
<1>13. \A x : x \in Singles(w, adr) <=>
         x \in SelfOp(w) \/ x \in ZrOperand(w) \/ x \in Lo32Mov(w) \/ x \in CselSelf(w)
         \/ x \in MovSelf(w) \/ x \in AddSubZero(w, adr)
  BY DEF Singles
<1>. QED
  BY <1>1, <1>2, <1>3, <1>4, <1>5, <1>6, <1>7, <1>8, <1>9, <1>10, <1>11, <1>12, <1>13 DEF LogicOps

-----------------------------------------------------------------------------
(* The inductive invariant of the windows.                                 *)

\* The chains are adjustments, and there is one isolate.
ChainsAdjust == \A h \in asc : h.word.op = "addi" /\ h.word.k # 0
OneIsolate == \A i, j \in bfx.isolate : i = j

\* No window of a single word is one the next word may be said of, and none
\* of three begins where the field insert that is being collected does.
WindowsApart ==
  \A f \in out :
    /\ f.count = 1 /\ f.start = Len(buf) => buf[Len(buf)].d # R31
    /\ f.count = 3 /\ (bfx.clear # {} \/ bfx.isolate # {}) => f.start # bfx.first
Windows == Invariant /\ ChainsAdjust /\ OneIsolate /\ WindowsApart /\ ReportedOnce

\* Two findings of a word with one window.
SameWindow(f, g) == f.start = g.start /\ f.count = g.count

LEMMA OnePair ==
  ASSUME Invariant, NEW w, Decoded(w), NEW f \in PairFindings(w), NEW g \in PairFindings(w)
  PROVE  f = g
<1>1. PICK t \in Trackers : f \in ClosedBy(t, w)
  BY DEF PairFindings
<1>2. PICK u \in Trackers : g \in ClosedBy(u, w)
  BY DEF PairFindings
<1>. DEFINE p == buf[Len(buf)]
<1>3. ASSUME NEW s \in Trackers, NEW x \in ClosedBy(s, w)
      PROVE  /\ Decoded(p) /\ Opens(s, p)
             /\ \E fold \in Closes(s, p, w) : x = Finding(Len(buf), PairCount(s), fold)
  <2>1. PICK h \in held[s] : \E fold \in Closes(s, h.word, w) : x = Finding(h.at, PairCount(s), fold)
    BY <1>3 DEF ClosedBy
  <2>2. h.at = Len(buf) /\ h.word = p /\ Len(buf) > 0 /\ Opens(s, p)
    BY <2>1 DEF Invariant, HeldOpens, TypeOK
  <2>3. Len(buf) \in DOMAIN buf
    BY <2>2 DEF Invariant
  <2>. QED
    BY <2>1, <2>2, <2>3, BufferIsDecoded
<1>. HIDE DEF p
<1>4. PICK a \in Closes(t, p, w) : f = Finding(Len(buf), PairCount(t), a)
  BY <1>1, <1>3
<1>5. PICK b \in Closes(u, p, w) : g = Finding(Len(buf), PairCount(u), b)
  BY <1>2, <1>3
<1>6. Decoded(p) /\ Opens(t, p) /\ Opens(u, p)
  BY <1>1, <1>2, <1>3
<1>7. Claims(t, p, w) /\ Claims(u, p, w)
  BY <1>4, <1>5, <1>6, ClaimsOfShifts, ClaimsOfOthers DEF Trackers
<1>8. t = u
  BY <1>6, <1>7, OneClaim
<1>9. a = b
  BY <1>4, <1>5, <1>8, OneShiftFold, OneOtherFold DEF Trackers
<1>. QED
  BY <1>4, <1>5, <1>8, <1>9

LEMMA StartOfFinding ==
  ASSUME NEW start, NEW count, NEW fold
  PROVE  Finding(start, count, fold).start = start /\ Finding(start, count, fold).count = count
BY DEF Finding

\* Where the window of a finding starts, by the kind of check.
LEMMA PairWindow ==
  ASSUME Invariant, NEW w, NEW f \in PairFindings(w)
  PROVE  /\ f.start = Len(buf) /\ Len(buf) > 0
         /\ f.count = 2 \/ (f.count = 1 /\ buf[Len(buf)].d = R31)
<1>1. PICK t \in Trackers : f \in ClosedBy(t, w)
  BY DEF PairFindings
<1>2. PICK h \in held[t] : \E fold \in Closes(t, h.word, w) : f = Finding(h.at, PairCount(t), fold)
  BY <1>1 DEF ClosedBy
<1>3. h.at = Len(buf) /\ h.word = buf[h.at] /\ Opens(t, h.word) /\ Len(buf) > 0
  BY <1>2 DEF Invariant, TypeOK, HeldOpens
<1>4. f.start = h.at /\ f.count = PairCount(t)
  BY <1>2, StartOfFinding
<1>5. t = "spm" => h.word.d = R31
  BY <1>3 DEF Opens, SpMovOpens
<1>. QED
  BY <1>3, <1>4, <1>5 DEF PairCount

LEMMA SingleWindow ==
  ASSUME Invariant, NEW w, NEW f \in SingleFindings(w)
  PROVE  f.start = Len(buf) + 1 /\ f.count = 1 /\ w.d # R31
<1>1. PICK ws \in Singles(w, held["adr"]) : f = Finding(At, 1, Replace(ws, {}))
  BY DEF SingleFindings
<1>2. w.d # R31
  BY <1>1 DEF Singles, SelfOp, ZrOperand, Lo32Mov, CselSelf, MovSelf, AddSubZero
<1>. QED
  BY <1>1, <1>2, StartOfFinding DEF At

LEMMA InsertWindow ==
  ASSUME Windows, NEW w, NEW f \in InsertFindings(w)
  PROVE  /\ w.op = "orr" /\ f.start = bfx.first /\ f.count = 3 /\ bfx.clear # {}
         /\ f.start < Len(buf) /\ f.start \in Nat
<1>1. PICK i, fold : i \in bfx.isolate /\ f = Finding(bfx.first, 3, fold) /\ CombineOp(w) /\ bfx.clear = {w.d}
  BY DEF InsertFindings
<1>2. w.op = "orr" /\ f.start = bfx.first /\ f.count = 3 /\ bfx.clear # {} /\ bfx.isolate # {}
  BY <1>1, StartOfFinding DEF CombineOp
<1>. QED
  BY <1>2 DEF Windows, Invariant, InsertOfOneField

LEMMA ChainWindow ==
  ASSUME Windows, NEW w, NEW f \in ChainFindings(w)
  PROVE  /\ w.op = "addi" /\ w.k # 0 /\ f.start \in DOMAIN buf
         /\ buf[f.start].op = "addi" /\ buf[f.start].k # 0 /\ buf[f.start].d # R31
         /\ f.count = At - f.start + 1
<1>1. PICK h, fold : h \in asc /\ f = Finding(h.at, At - h.at + 1, fold) /\ w.op = "addi" /\ w.k # 0
  BY DEF ChainFindings
<1>2. f.start = h.at /\ f.count = At - h.at + 1
  BY <1>1, StartOfFinding
<1>. QED
  BY <1>1, <1>2 DEF Windows, ChainsAdjust, Invariant, ChainsOpen, TypeOK

\* A chain of adjacent adjustments is no pair of another check.
LEMMA ChainIsNoPair ==
  ASSUME Windows, NEW w, Decoded(w), NEW f \in ChainFindings(w), NEW g \in PairFindings(w)
  PROVE  f.start # g.start
<1>. SUFFICES ASSUME f.start = Len(buf) PROVE FALSE
  BY PairWindow DEF Windows
<1>1. /\ w.op = "addi" /\ w.k # 0 /\ Len(buf) \in DOMAIN buf
      /\ buf[Len(buf)].op = "addi" /\ buf[Len(buf)].k # 0 /\ buf[Len(buf)].d # R31
  BY ChainWindow
<1>2. PICK t \in Trackers : g \in ClosedBy(t, w)
  BY DEF PairFindings
<1>3. PICK h \in held[t] : \E fold \in Closes(t, h.word, w) : g = Finding(h.at, PairCount(t), fold)
  BY <1>2 DEF ClosedBy
<1>4. h.word = buf[Len(buf)] /\ Opens(t, h.word)
  BY <1>3 DEF Windows, Invariant, HeldOpens, TypeOK
<1>5. Claims(t, buf[Len(buf)], w)
  BY <1>3, <1>4, ClaimsOfShifts, ClaimsOfOthers DEF Trackers
<1>. QED
  BY <1>1, <1>5 DEF Claims, Trackers, ShiftOps, ChainRole, UbfmZext, SextRole

LEMMA OneChainSum ==
  ASSUME Windows, NEW w, NEW f \in ChainFindings(w), NEW g \in ChainFindings(w), f.start = g.start
  PROVE  f = g
<1>. DEFINE sum(at) ==
       Finding(at, At - at + 1,
         Replace(Append(SubSeq(buf, at + 1, Len(buf)),
                        Shifted("addi", w.sf, w.d, buf[at].n, buf[at].k + w.k)),
                 {buf[at].d} \ {w.d}))
<1>1. ASSUME NEW x \in ChainFindings(w) PROVE x = sum(x.start)
  <2>1. PICK h \in asc :
          x = Finding(h.at, At - h.at + 1,
                Replace(Append(SubSeq(buf, h.at + 1, Len(buf)),
                               Shifted("addi", w.sf, w.d, h.word.n, h.word.k + w.k)),
                        {h.word.d} \ {w.d}))
    BY DEF ChainFindings
  <2>2. h.word = buf[h.at]
    BY DEF Windows, Invariant, TypeOK
  <2>3. x = sum(h.at)
    BY <2>1, <2>2
  <2>4. x.start = h.at
    BY <2>1 DEF Finding
  <2>. QED
    BY <2>3, <2>4
<1>. HIDE DEF sum
<1>. QED
  BY <1>1

\* The findings of one word have windows of their own.
LEMMA OneWindow ==
  ASSUME Windows, NEW w, Decoded(w),
         NEW f \in PairFindings(w) \cup SingleFindings(w) \cup ChainFindings(w) \cup InsertFindings(w),
         NEW g \in PairFindings(w) \cup SingleFindings(w) \cup ChainFindings(w) \cup InsertFindings(w),
         SameWindow(f, g)
  PROVE  f = g
<1>1. \A x, y \in PairFindings(w) : x = y
  BY OnePair DEF Windows
<1>2. \A x, y \in SingleFindings(w) : x = y
  BY OneSingle DEF SingleFindings
<1>3. \A x, y \in InsertFindings(w) : x = y
  BY DEF InsertFindings, Windows, OneIsolate
<1>4. \A x, y \in ChainFindings(w) : x.start = y.start => x = y
  BY OneChainSum
<1>5. \A x \in PairFindings(w) : x.start = Len(buf)
  BY PairWindow DEF Windows
<1>6. \A x \in SingleFindings(w) : x.start = Len(buf) + 1
  BY SingleWindow DEF Windows
<1>7. \A x \in InsertFindings(w) : w.op = "orr" /\ x.start < Len(buf) /\ x.start \in Nat
  BY InsertWindow
<1>8. \A x \in ChainFindings(w) : w.op = "addi" /\ x.start \in 1 .. Len(buf)
  BY ChainWindow DEF Windows, Invariant
<1>9. \A x \in ChainFindings(w), y \in PairFindings(w) : x.start # y.start
  BY ChainIsNoPair
<1>10. Len(buf) \in Nat
  BY DEF Windows, Invariant
<1>. QED
  BY <1>1, <1>2, <1>3, <1>4, <1>5, <1>6, <1>7, <1>8, <1>9, <1>10 DEF SameWindow

LEMMA WindowsKept ==
  ASSUME WidthOfElement, Windows, Instruction
  PROVE  Windows'
<1>1. PICK w \in Families[family][At] :
        /\ buf' = Append(buf, w)
        /\ out' = out \cup PairFindings(w) \cup SingleFindings(w)
                      \cup ChainFindings(w) \cup InsertFindings(w)
        /\ HoldChain(w) /\ HoldInsert(w)
  BY DEF Instruction
<1>2. Decoded(w) /\ w \in Words
  BY NextIsDecoded DEF Decoded, Instruction, Windows
<1>3. /\ Len(buf') = At /\ Len(buf) \in Nat /\ At = Len(buf) + 1
  BY <1>1, <1>2, BufferGrows DEF Windows, Invariant, At
<1>4. Invariant'
  BY InstructionKeeps DEF Windows
<1>5. ChainsAdjust'
  <2>1. CASE w.op = "addi" /\ w.k # 0 /\ w.d # R31
    BY <1>1, <2>1 DEF HoldChain, ChainsAdjust
  <2>2. CASE ~(w.op = "addi" /\ w.k # 0 /\ w.d # R31)
    <3>1. ASSUME NEW g \in asc' PROVE \E h \in asc : g.word = h.word
      <4>1. PICK h \in asc : g = [h EXCEPT !.window = @ - 1]
        BY <1>1, <2>2 DEF HoldChain
      <4>. QED
        BY <4>1 DEF Windows, Invariant, ChainsOpen
    <3>2. \A h \in asc : h.word.op = "addi" /\ h.word.k # 0
      BY DEF Windows, ChainsAdjust
    <3>3. \A g \in asc' : g.word.op = "addi" /\ g.word.k # 0
      BY <3>1, <3>2
    <3>. QED
      BY <3>3 DEF ChainsAdjust
  <2>. QED
    BY <2>1, <2>2
<1>6. OneIsolate'
  <2>. DEFINE fresh(bits) == [NoInsert EXCEPT !.sf = w.sf, !.field = bits, !.first = At]
  <2>1. \A bits : fresh(bits).isolate = {} /\ DOMAIN fresh(bits) = DOMAIN NoInsert
    BY DEF NoInsert
  <2>2. DOMAIN bfx = DOMAIN NoInsert /\ "isolate" \in DOMAIN NoInsert
    BY DEF Windows, Invariant, InsertOfOneField, NoInsert
  <2>3. CASE ClearsField(w)
    <3>1. PICK b : bfx' = [b EXCEPT !.clear = {w.d}] /\ (b = bfx \/ \E bits : b = fresh(bits))
      BY <1>1, <2>3 DEF HoldInsert
    <3>. HIDE DEF fresh
    <3>2. bfx'.isolate = b.isolate
      BY <3>1
    <3>. QED
      BY <2>1, <3>1, <3>2 DEF Windows, OneIsolate
  <2>4. CASE ~ClearsField(w) /\ IsolateOp(w)
    <3>1. PICK b : /\ bfx' = [b EXCEPT !.isolate = {[t |-> w.d, s |-> w.n]}]
                   /\ b = bfx \/ \E bits : b = fresh(bits)
      BY <1>1, <2>4 DEF HoldInsert
    <3>2. DOMAIN b = DOMAIN NoInsert
      BY <2>1, <2>2, <3>1
    <3>3. bfx'.isolate = {[t |-> w.d, s |-> w.n]}
      BY <2>2, <3>1, <3>2
    <3>. QED
      BY <3>3 DEF OneIsolate
  <2>5. CASE ~ClearsField(w) /\ ~IsolateOp(w)
    <3>1. bfx' = NoInsert
      BY <1>1, <2>5 DEF HoldInsert
    <3>. QED
      BY <3>1 DEF NoInsert, OneIsolate
  <2>. QED
    BY <2>3, <2>4, <2>5
<1>. DEFINE new == PairFindings(w) \cup SingleFindings(w) \cup ChainFindings(w) \cup InsertFindings(w)
<1>7. out' = out \cup new
  BY <1>1
<1>8. ASSUME NEW f \in out
      PROVE  f.start \in 1 .. Len(buf) /\ f.count \in 1 .. Len(buf) - f.start + 1
  <2>1. f.at \in 1 .. Len(buf) /\ f.start \in 1 .. f.at /\ f.count \in 1 .. f.at - f.start + 1
    BY DEF Windows, Invariant, TypeOK
  <2>. QED
    BY <1>3, <2>1
<1>9. WindowsApart'
  <2>1. ASSUME NEW f \in out', f.count = 1, f.start = Len(buf') PROVE buf'[Len(buf')].d # R31
    <3>1. f \in new
      BY <1>3, <1>7, <1>8, <2>1
    <3>2. f \in SingleFindings(w)
      <4>1. f \in PairFindings(w) => f.start = Len(buf)
        BY PairWindow DEF Windows
      <4>2. f \in ChainFindings(w) => f.start \in 1 .. Len(buf)
        BY ChainWindow DEF Windows, Invariant
      <4>3. f \in InsertFindings(w) => f.start < Len(buf)
        BY InsertWindow
      <4>. QED
        BY <1>3, <2>1, <3>1, <4>1, <4>2, <4>3
    <3>3. w.d # R31
      BY <3>2, SingleWindow DEF Windows
    <3>4. buf'[Len(buf')] = w
      BY <1>1, <1>2, <1>3, BufferGrows DEF Windows, Invariant
    <3>. QED
      BY <3>3, <3>4
  <2>2. ASSUME NEW f \in out', f.count = 3, bfx'.clear # {} \/ bfx'.isolate # {}
        PROVE  f.start # bfx'.first
    <3>1. ClearsField(w) \/ IsolateOp(w)
      BY <1>1, <2>2 DEF HoldInsert, NoInsert
    <3>2. w.op \notin {"addi", "orr"}
      BY <3>1 DEF ClearsField, IsolateOp, LowMask
    <3>3. f \notin new
      <4>1. ChainFindings(w) = {} /\ InsertFindings(w) = {}
        BY <3>2, ChainWindow, InsertWindow
      <4>2. f \notin PairFindings(w) /\ f \notin SingleFindings(w)
        BY <2>2, PairWindow, SingleWindow DEF Windows
      <4>. QED
        BY <4>1, <4>2
    <3>4. f \in out /\ f.start \in 1 .. Len(buf)
      BY <1>7, <1>8, <3>3
    <3>5. \/ bfx'.first = At
          \/ bfx'.first = bfx.first /\ (bfx.clear # {} \/ bfx.isolate # {})
      <4>. DEFINE fresh(bits) == [NoInsert EXCEPT !.sf = w.sf, !.field = bits, !.first = At]
      <4>1. \A bits : fresh(bits).first = At
        BY DEF NoInsert
      <4>2. CASE ClearsField(w)
        <5>1. PICK b : /\ bfx' = [b EXCEPT !.clear = {w.d}]
                       /\ (b = bfx /\ bfx.isolate # {}) \/ \E bits : b = fresh(bits)
          BY <1>1, <4>2 DEF HoldInsert
        <5>. HIDE DEF fresh
        <5>2. bfx'.first = b.first
          BY <5>1
        <5>. QED
          BY <4>1, <5>1, <5>2
      <4>3. CASE ~ClearsField(w) /\ IsolateOp(w)
        <5>1. PICK b : /\ bfx' = [b EXCEPT !.isolate = {[t |-> w.d, s |-> w.n]}]
                       /\ (b = bfx /\ bfx.clear # {}) \/ \E bits : b = fresh(bits)
          BY <1>1, <4>3 DEF HoldInsert
        <5>. HIDE DEF fresh
        <5>2. bfx'.first = b.first
          BY <5>1
        <5>. QED
          BY <4>1, <5>1, <5>2
      <4>. QED
        BY <3>1, <4>2, <4>3
    <3>6. CASE bfx'.first = At
      BY <1>3, <3>4, <3>6
    <3>7. CASE bfx'.first = bfx.first /\ (bfx.clear # {} \/ bfx.isolate # {})
      BY <2>2, <3>4, <3>7 DEF Windows, WindowsApart
    <3>. QED
      BY <3>5, <3>6, <3>7
  <2>. QED
    BY <2>1, <2>2 DEF WindowsApart
<1>10. ReportedOnce'
  <2>4. \A f, g \in new : SameWindow(f, g) => f = g
    BY <1>2, OneWindow
  <2>5. \A f, g \in out : SameWindow(f, g) => f = g
    BY DEF Windows, ReportedOnce, SameWindow
  <2>6. ASSUME NEW f \in out, NEW g \in new PROVE ~SameWindow(f, g) /\ ~SameWindow(g, f)
    <3>. SUFFICES ASSUME f.start = g.start, f.count = g.count PROVE FALSE
      BY DEF SameWindow
    <3>1. /\ f.start \in 1 .. Len(buf) /\ f.count \in 1 .. Len(buf) - f.start + 1
          /\ f.count = 1 /\ f.start = Len(buf) => buf[Len(buf)].d # R31
          /\ f.count = 3 /\ (bfx.clear # {} \/ bfx.isolate # {}) => f.start # bfx.first
      BY <1>8 DEF Windows, WindowsApart
    <3>2. CASE g \in PairFindings(w)
      <4>1. g.start = Len(buf) /\ (g.count = 2 \/ (g.count = 1 /\ buf[Len(buf)].d = R31))
        BY <3>2, PairWindow DEF Windows
      <4>. QED
        BY <1>3, <3>1, <4>1
    <3>3. CASE g \in SingleFindings(w)
      BY <1>3, <3>1, <3>3, SingleWindow DEF Windows
    <3>4. CASE g \in ChainFindings(w)
      BY <1>3, <3>1, <3>4, ChainWindow
    <3>5. CASE g \in InsertFindings(w)
      BY <3>1, <3>5, InsertWindow
    <3>. QED
      BY <3>2, <3>3, <3>4, <3>5
  <2>. HIDE DEF new
  <2>7. \A f, g \in out' : SameWindow(f, g) => f = g
    BY <1>7, <2>4, <2>5, <2>6
  <2>. QED
    BY <2>7 DEF SameWindow, ReportedOnce
<1>. QED
  BY <1>4, <1>5, <1>6, <1>9, <1>10 DEF Windows

\* Whatever the buffers, no two checks report the same window, so that no
\* fold is counted twice and none displaces another from the one deferral
\* slot (the guards by which each check leaves the others' shapes alone).
THEOREM WindowsReportedOnce == ASSUME WidthOfElement PROVE Spec => []ReportedOnce
<1>1. Init => Windows
  <2>. SUFFICES ASSUME Init PROVE Windows
    OBVIOUS
  <2>. QED
    BY InvariantStarts DEF Init, Windows, ChainsAdjust, OneIsolate, WindowsApart, NoInsert, ReportedOnce
<1>2. Windows /\ [Next]_vars => Windows'
  <2>1. ASSUME Windows, UNCHANGED vars PROVE Windows'
    <3>1. Invariant'
      BY <2>1, InvariantKept DEF Windows
    <3>. QED
      BY <2>1, <3>1 DEF vars, Windows, ChainsAdjust, OneIsolate, WindowsApart, ReportedOnce
  <2>. QED
    BY <2>1, WindowsKept DEF Next, EndOfBuffer
<1>3. Windows => ReportedOnce
  BY DEF Windows
<1>. QED
  BY <1>1, <1>2, <1>3, PTL DEF Spec
=============================================================================
