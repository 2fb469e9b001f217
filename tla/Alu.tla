-------------------------------- MODULE Alu --------------------------------
(***************************************************************************)
(* The integer A64 words the folding checks match and suggest, and what    *)
(* they compute.  armlint never executes a word: this is the architecture  *)
(* its soundness rule appeals to, scaled down.                             *)
(*                                                                         *)
(* A value is the set of positions of its 1 bits, so AND, ORR and a shift  *)
(* are intersection, union and a change of index.  An X register has W     *)
(* bits and its W form the low H of them; a W-form result clears the rest. *)
(***************************************************************************)
EXTENDS Integers, Sequences, FiniteSetsExt, SequencesExt

CONSTANTS
  W,         \* bits of an X register (64)
  H,         \* bits of a W register (32)
  ImmBits,   \* bits of the ADD/SUB immediate field (12)
  Gprs,      \* the general registers of the instance
  R31,       \* register 31: ZR or SP, by the operand it stands in
  CmpBits,   \* bits of the conditional compare's immediate field (5)
  ExtShift,  \* the largest shift of an extended operand (4)
  Piece      \* bits of a move-wide immediate (16)

ASSUME AluAssumption ==
  /\ H \in Nat \ {0} /\ W = 2 * H
  /\ Piece \in Nat \ {0} /\ H % Piece = 0
  /\ ImmBits \in Nat /\ CmpBits \in Nat /\ ExtShift \in Nat
  /\ R31 \notin Gprs

Low(n)  == 0 .. n - 1
Size(w) == IF w.sf THEN W ELSE H

-----------------------------------------------------------------------------
(* Words.  d, n, m are registers and a the addend of a multiply; k is a    *)
(* shift amount, the position of a field or an ADD immediate (SUB's is     *)
(* negative); wd the width of a field or of an extended operand.           *)

Word(op, sf, d, n) ==
  [op |-> op, sf |-> sf, d |-> d, n |-> n, m |-> R31, a |-> R31, sh |-> "lsl", k |-> 0,
   wd |-> 0, mask |-> {}, cond |-> "al"]
Shifted(op, sf, d, n, k)      == [Word(op, sf, d, n) EXCEPT !.k = k]
Field(op, sf, d, n, k, wd)    == [Word(op, sf, d, n) EXCEPT !.k = k, !.wd = wd]
Masked(op, sf, d, n, mask)    == [Word(op, sf, d, n) EXCEPT !.mask = mask]
Ternary(op, sf, d, n, m)      == [Word(op, sf, d, n) EXCEPT !.m = m]
Barrel(op, sf, d, n, m, sh, k) == [Ternary(op, sf, d, n, m) EXCEPT !.sh = sh, !.k = k]
Select(op, sf, d, n, m, cond) == [Ternary(op, sf, d, n, m) EXCEPT !.cond = cond]

Mov(sf, d, m) == Ternary("orr", sf, d, R31, m)
Mvn(sf, d, m) == Ternary("orn", sf, d, R31, m)
MovImm(sf, d, bits) == Masked("mov", sf, d, R31, bits)

\* MOVZ, MOVN and MOVK of the k-th piece; CMP and TST; CSET.
MoveWide(op, sf, d, k, imm) == [Word(op, sf, d, R31) EXCEPT !.k = k, !.mask = imm]
Cmp(sf, n, m)     == Ternary("subs", sf, R31, n, m)
CmpImm(sf, n, k)  == Shifted("subsi", sf, R31, n, k)
TstImm(sf, n, mask) == Masked("andsi", sf, R31, n, mask)
CondCmp(op, sf, n, m, cond, nzcv) == [Select(op, sf, R31, n, m, cond) EXCEPT !.mask = nzcv]
CondCmpImm(op, sf, n, k, cond, nzcv) ==
  [CondCmp(op, sf, n, R31, cond, nzcv) EXCEPT !.k = k]
CmpAlways(sf, n, m, cond, nzcv) == CondCmp("ccmp", sf, n, m, cond, nzcv)
CSet(sf, d, cond) == Select("csinc", sf, d, R31, R31, cond)
MulAdd(op, sf, d, n, m, a) == [Ternary(op, sf, d, n, m) EXCEPT !.a = a]
Mul(sf, d, n, m)  == MulAdd("madd", sf, d, n, m, R31)
Extended(op, sf, d, n, m, sh, wd, k) ==
  [Ternary(op, sf, d, n, m) EXCEPT !.sh = sh, !.wd = wd, !.k = k]

\* A load of wd bits and a store, with writeback of k to the base; a branch,
\* whose k is its displacement and wd the bit or the number it tests.
Load(sf, d, n, sh, wd, k) == [Word("ldr", sf, d, n) EXCEPT !.sh = sh, !.wd = wd, !.k = k]
Store(m, n, wd, k)        == [Word("str", TRUE, R31, n) EXCEPT !.m = m, !.wd = wd, !.k = k]
BCond(cond, k)            == [Word("bcond", TRUE, R31, R31) EXCEPT !.cond = cond, !.k = k]
Branch(op, sf, n, wd, k)  == [Word(op, sf, R31, n) EXCEPT !.wd = wd, !.k = k]
CompareBranch(op, sf, n, m, wd, cond, k) ==
  [Branch(op, sf, n, wd, k) EXCEPT !.m = m, !.cond = cond]
Plain(op)                 == Word(op, TRUE, R31, R31)

ShiftOps    == {"lsl", "lsr", "asr", "ror"}
ExtractOps  == {"ubfx", "sbfx", "bfxil"}
PlaceOps    == {"ubfiz", "sbfiz", "bfi"}
ArithOps    == {"add", "adds", "sub", "subs"}
LogicOps    == {"and", "bic", "orr", "orn", "eor", "eon", "ands", "bics"}
InvertedOps == {"bic", "orn", "eon", "bics"}
MoveOps     == {"movz", "movn", "movk"}
ImmLogicOps == {"andi", "orri", "eori", "andsi"}
ImmArithOps == {"addi", "addsi", "subsi"}
ExtArithOps == {"addx", "subx", "addsx", "subsx"}
SelectOps   == {"csel", "csinc", "csinv", "csneg"}
MulOps      == {"madd", "msub", "smaddl", "smsubl", "umaddl", "umsubl"}
HighOps     == {"smulh", "umulh"}
TwoSourceOps == {"udiv", "sdiv", "lslv", "lsrv", "asrv", "rorv", "smax", "umax", "smin", "umin"}
OneSourceOps == {"rbit", "clz", "cls", "ctz", "cnt", "abs"}
CarryOps    == {"adc", "sbc", "adcs", "sbcs"}
CondCmpImmOps == {"ccmpi", "ccmni"}
CondCmpOps  == {"ccmp", "ccmn"} \cup CondCmpImmOps
AdderOps    == {"adr"} \cup ArithOps \cup ImmArithOps \cup ExtArithOps \cup CarryOps
               \cup CondCmpOps \cup MulOps
SubOps      == {"sub", "subs", "subsi", "subx", "subsx", "sbc", "sbcs", "ccmp", "ccmpi",
                "msub", "smsubl", "umsubl"}
FlagOps     == {"adds", "subs", "ands", "bics", "andsi", "addsi", "subsi", "addsx", "subsx", "adcs", "sbcs"}
               \cup CondCmpOps
MemoryOps   == {"ldr", "str"}
CompareBranches == {"cbz", "cbnz", "tbz", "tbnz"}
CbOps       == {"cb", "cbi"}      \* CB<cc> of FEAT_CMPBR
Conditionals == {"bcond"} \cup CompareBranches \cup CbOps
\* Words after which the next is reached otherwise than by falling through,
\* or with registers nothing is known of: B, BL, SVC and undecodable data.
Terminal    == {"b", "bl", "svc", "data"}

\* Words that compute from registers and flags.
ComputeOps ==
  {"extr", "mov", "adr"} \cup ShiftOps \cup ExtractOps \cup PlaceOps \cup MoveOps \cup LogicOps
  \cup ImmLogicOps \cup ArithOps \cup ImmArithOps \cup ExtArithOps \cup SelectOps \cup MulOps
  \cup HighOps \cup TwoSourceOps \cup OneSourceOps \cup CarryOps \cup CondCmpOps

\* Conditions come in pairs that differ in the low bit of the encoding; AL
\* and NV both hold always.
CondPairs == {<<"eq", "ne">>, <<"cs", "cc">>, <<"mi", "pl">>, <<"vs", "vc">>,
              <<"hi", "ls">>, <<"ge", "lt">>, <<"gt", "le">>, <<"al", "nv">>}
Conds   == {p[1] : p \in CondPairs} \cup {p[2] : p \in CondPairs}
Always  == {"al", "nv"}
Invert  == [c \in Conds |->
              CHOOSE d \in Conds : <<c, d>> \in CondPairs \/ <<d, c>> \in CondPairs]
Holds(cond, f) ==
  CASE cond = "eq" -> f.z                 [] cond = "ne" -> ~f.z
    [] cond = "cs" -> f.c                 [] cond = "cc" -> ~f.c
    [] cond = "mi" -> f.n                 [] cond = "pl" -> ~f.n
    [] cond = "vs" -> f.v                 [] cond = "vc" -> ~f.v
    [] cond = "hi" -> f.c /\ ~f.z         [] cond = "ls" -> ~f.c \/ f.z
    [] cond = "ge" -> f.n = f.v           [] cond = "lt" -> f.n # f.v
    [] cond = "gt" -> ~f.z /\ f.n = f.v   [] cond = "le" -> f.z \/ f.n # f.v
    [] cond \in Always -> TRUE

-----------------------------------------------------------------------------
(* Values.                                                                 *)

Bits(n, s) == {i \in Low(s) : (n \div 2^i) % 2 = 1}

\* The value as a number, and as a signed number of s bits.
NatOf == [v \in SUBSET Low(W) |-> MapThenSumSet(LAMBDA i : 2^i, v)]
SignedOf(v, s) == NatOf[v] - (IF s - 1 \in v THEN 2^s ELSE 0)

\* How many bits a value needs.
BitsUsed(v) == IF v = {} THEN 0 ELSE Max(v) + 1

Lsl(v, k, s) == {i + k : i \in v \cap Low(s - k)}
Lsr(v, k)    == {i - k : i \in v \ Low(k)}
Asr(v, k, s) == Lsr(v, k) \cup (IF s - 1 \in v THEN s - k .. s - 1 ELSE {})
Ror(v, k, s) == {(i + s - k) % s : i \in v}
ShiftBy(sh, v, k, s) ==
  CASE sh = "lsl" -> Lsl(v, k, s)
    [] sh = "lsr" -> Lsr(v, k)
    [] sh = "asr" -> Asr(v, k, s)
    [] sh = "ror" -> Ror(v, k, s)

Extract(v, k, wd) == Lsr(v, k) \cap Low(wd)
Place(v, k, wd)   == {i + k : i \in v \cap Low(wd)}
Extend(v, top, s) == v \cup (IF top \in v THEN top .. s - 1 ELSE {})
ExtendBy(sh, v, wd, s) ==
  IF sh = "sxt" THEN Extend(v \cap Low(wd), wd - 1, s) ELSE v \cap Low(wd)

\* The architecture's adder: it overflows when the operands agree on a sign
\* that the sum has not.
Flagged(a, b, total, sum, s) ==
  [v |-> sum,
   flags |-> [n |-> s - 1 \in sum, z |-> sum = {}, c |-> total >= 2^s,
              v |-> /\ (s - 1 \in a) = (s - 1 \in b)
                    /\ (s - 1 \in a) # (s - 1 \in sum)]]
AddedUp(a, b, total, s) == Flagged(a, b, total, Bits(total, s), s)
AddWithCarry(a, b, carry, s) ==
  AddedUp(a, b, NatOf[a] + NatOf[b] + (IF carry THEN 1 ELSE 0), s)
LogicFlags(v, s) == [n |-> s - 1 \in v, z |-> v = {}, c |-> FALSE, v |-> FALSE]

-----------------------------------------------------------------------------
(* Execution.  A machine is [x : registers, sp : SP, flags : NZCV, base :  *)
(* where the image is loaded, mem : what loads, compares of floating-point *)
(* registers and tests of predicates (PTEST) see].                         *)

\* Register 31 as an operand: SP as the first of ADD/SUB immediate and
\* extended and as the destination of the logical immediates, else ZR.
SpSource == ImmArithOps \cup ExtArithOps
SpDest   == {"addi", "andi", "orri", "eori", "addx", "subx"}
Reads(m, w, r) ==
  (IF r # R31 THEN m.x[r] ELSE IF w.op \in SpSource THEN m.sp ELSE {}) \cap Low(Size(w))

Logic(op, a, b) ==
  CASE op \in {"and", "bic", "ands", "bics"} -> a \cap b
    [] op \in {"orr", "orn"} -> a \cup b
    [] op \in {"eor", "eon"} -> SymDiff(a, b)

\* What the adder is given: a first operand, and a second that the
\* subtractions invert.
Multiplicand(op, v) ==
  CASE op \in {"madd", "msub"}     -> NatOf[v]
    [] op \in {"smaddl", "smsubl"} -> SignedOf(v \cap Low(H), H)
    [] OTHER                       -> NatOf[v \cap Low(H)]
Augend(m, w) ==
  CASE w.op = "adr" -> m.base
    [] w.op \in MulOps -> Reads(m, w, w.a)
    [] OTHER -> Reads(m, w, w.n)
Addend(m, w, c, s) ==
  CASE w.op = "adr" -> w.mask
    [] w.op \in MulOps ->
         Bits(Multiplicand(w.op, Reads(m, w, w.n)) * Multiplicand(w.op, c), s)
    [] w.op \in ImmArithOps \cup CondCmpImmOps -> Bits(w.k, s)
    [] w.op \in ExtArithOps ->
         Lsl(ExtendBy(w.sh, IF w.m = R31 THEN {} ELSE c, w.wd, s), w.k, s)
    [] w.op \in ArithOps -> ShiftBy(w.sh, c, w.k, s)
    [] OTHER -> c
Sum(m, w, s) ==
  LET y == Addend(m, w, Reads(m, w, w.m), s)
  IN  AddWithCarry(Augend(m, w), IF w.op \in SubOps THEN Low(s) \ y ELSE y,
                   IF w.op \in CarryOps THEN m.flags.c ELSE w.op \in SubOps, s)

\* What the other words write, from what they read in n, m and d.
MinusOf(v, s) == Bits(2^s - NatOf[v], s)
SignedDivide(x, y) ==
  LET Mag(i) == IF i < 0 THEN -i ELSE i
  IN  IF y = 0 THEN 0
      ELSE (IF (x < 0) # (y < 0) THEN -1 ELSE 1) * (Mag(x) \div Mag(y))
Logical(w, a, b, s) == Logic(w.op, a, IF w.op \in InvertedOps THEN Low(s) \ b ELSE b)
ElseValue(op, c, s) ==
  CASE op = "csel"  -> c
    [] op = "csinc" -> Bits(NatOf[c] + 1, s)
    [] op = "csinv" -> Low(s) \ c
    [] op = "csneg" -> MinusOf(c, s)
Wide(w, old, imm, s) ==
  CASE w.op = "movz" -> imm
    [] w.op = "movn" -> Low(s) \ imm
    [] w.op = "movk" -> (old \ Lsl(Low(Piece), Piece * w.k, s)) \cup imm
SameTops(v, s) ==
  {n \in 1 .. s : s - n .. s - 1 \subseteq v \/ (s - n .. s - 1) \cap v = {}}
DataOf(m, w, a, c, old, s) ==
  CASE w.op \in ShiftOps -> ShiftBy(w.op, a, w.k, s)
    [] w.op = "ubfx"  -> Extract(a, w.k, w.wd)
    [] w.op = "sbfx"  -> Extend(Extract(a, w.k, w.wd), w.wd - 1, s)
    [] w.op = "ubfiz" -> Place(a, w.k, w.wd)
    [] w.op = "sbfiz" -> Extend(Place(a, w.k, w.wd), w.k + w.wd - 1, s)
    [] w.op = "bfi"   -> (old \ Place(Low(s), w.k, w.wd)) \cup Place(a, w.k, w.wd)
    [] w.op = "bfxil" -> (old \ Low(w.wd)) \cup Extract(a, w.k, w.wd)
    [] w.op = "extr"  -> Lsr(c, w.k) \cup Lsl(a, s - w.k, s)
    [] w.op \in {"andi", "andsi"} -> a \cap w.mask
    [] w.op = "orri"  -> a \cup w.mask
    [] w.op = "eori"  -> SymDiff(a, w.mask)
    [] w.op = "mov"   -> w.mask
    [] w.op \in MoveOps -> Wide(w, old, Lsl(w.mask, Piece * w.k, s), s)
    [] w.op \in LogicOps -> Logical(w, a, ShiftBy(w.sh, c, w.k, s), s)
    [] w.op \in SelectOps -> IF Holds(w.cond, m.flags) THEN a ELSE ElseValue(w.op, c, s)
    [] w.op = "umulh" -> Bits((NatOf[a] * NatOf[c]) \div 2^s, s)
    [] w.op = "smulh" -> Bits((SignedOf(a, s) * SignedOf(c, s)) \div 2^s, s)
    [] w.op = "udiv"  -> IF c = {} THEN {} ELSE Bits(NatOf[a] \div NatOf[c], s)
    [] w.op = "sdiv"  -> Bits(SignedDivide(SignedOf(a, s), SignedOf(c, s)), s)
    [] w.op = "lslv"  -> Lsl(a, NatOf[c] % s, s)
    [] w.op = "lsrv"  -> Lsr(a, NatOf[c] % s)
    [] w.op = "asrv"  -> Asr(a, NatOf[c] % s, s)
    [] w.op = "rorv"  -> Ror(a, NatOf[c] % s, s)
    [] w.op = "umax"  -> IF NatOf[a] > NatOf[c] THEN a ELSE c
    [] w.op = "umin"  -> IF NatOf[a] < NatOf[c] THEN a ELSE c
    [] w.op = "smax"  -> IF SignedOf(a, s) > SignedOf(c, s) THEN a ELSE c
    [] w.op = "smin"  -> IF SignedOf(a, s) < SignedOf(c, s) THEN a ELSE c
    [] w.op = "rbit"  -> {s - 1 - i : i \in a}
    [] w.op = "clz"   -> Bits(s - BitsUsed(a), s)
    [] w.op = "cls"   -> Bits(Max(SameTops(a, s)) - 1, s)
    [] w.op = "ctz"   -> Bits(IF a = {} THEN s ELSE Min(a), s)
    [] w.op = "cnt"   -> Bits(Cardinality(a), s)
    [] w.op = "abs"   -> IF s - 1 \in a THEN MinusOf(a, s) ELSE a
    [] w.op = "ldr"   -> ExtendBy(w.sh, m.mem, w.wd, s)
    [] w.op = "mrs"   -> {i \in Low(4) : <<m.flags.v, m.flags.c, m.flags.z, m.flags.n>>[i + 1]}

\* Of two floating-point numbers: less, equal, and neither or unordered.
FpFlags(pair) ==
  [n |-> pair = {0}, z |-> pair = {1}, c |-> pair # {0}, v |-> pair = {0, 1}]
NzcvOf(v) == [n |-> 3 \in v, z |-> 2 \in v, c |-> 1 \in v, v |-> 0 \in v]

\* What a word writes to its destination, and the flags if it sets them.
Plainly(v, s) == [v |-> v, flags |-> LogicFlags(v, s)]
Outcome(m, w, s) ==
  CASE w.op = "fcmp" -> [v |-> {}, flags |-> FpFlags(m.mem \cap {0, 1})]
    [] w.op \in CondCmpOps /\ ~Holds(w.cond, m.flags) -> [v |-> {}, flags |-> NzcvOf(w.mask)]
    [] w.op \in AdderOps /\ (w.op \in CondCmpOps => Holds(w.cond, m.flags)) -> Sum(m, w, s)
    [] OTHER -> Plainly(DataOf(m, w, Reads(m, w, w.n), Reads(m, w, w.m), Reads(m, w, w.d), s), s)

\* A load or store with writeback moves its base.
MovedBase(m, w, base) ==
  IF w.n = R31 THEN [m EXCEPT !.sp = base] ELSE [m EXCEPT !.x[w.n] = base]
WriteBack(m, w) ==
  IF w.op \notin MemoryOps \/ w.k = 0 THEN m
  ELSE MovedBase(m, w, AddWithCarry(IF w.n = R31 THEN m.sp ELSE m.x[w.n], Bits(w.k, W), FALSE, W).v)

Stored(m, w) ==
  [m EXCEPT !.mem = (@ \ Low(w.wd)) \cup (IF w.m = R31 THEN {} ELSE m.x[w.m] \cap Low(w.wd))]
Committed(m, w, r) ==
  [m EXCEPT !.x = IF w.d = R31 THEN @ ELSE [@ EXCEPT ![w.d] = r.v],
            !.sp = IF w.d = R31 /\ w.op \in SpDest THEN r.v ELSE @,
            !.flags = IF w.op \in FlagOps \cup {"fcmp"} THEN r.flags ELSE @]
Exec(m, w) ==
  CASE w.op = "msr"   -> [m EXCEPT !.flags = NzcvOf(Reads(m, w, w.n))]
    [] w.op = "ptest" -> [m EXCEPT !.flags = NzcvOf(m.mem)]
    [] w.op \in {"nop"} \cup Conditionals \cup Terminal -> m
    [] OTHER -> WriteBack(IF w.op = "str" THEN Stored(m, w)
                          ELSE Committed(m, w, Outcome(m, w, Size(w))), w)

\* CB<cc> decides by the values: signed for GE, LT, GT and LE.
Compares(cond, a, b, s) ==
  CASE cond = "eq" -> a = b                  [] cond = "ne" -> a # b
    [] cond = "cs" -> NatOf[a] >= NatOf[b]   [] cond = "cc" -> NatOf[a] < NatOf[b]
    [] cond = "hi" -> NatOf[a] > NatOf[b]    [] cond = "ls" -> NatOf[a] <= NatOf[b]
    [] cond = "ge" -> SignedOf(a, s) >= SignedOf(b, s)
    [] cond = "lt" -> SignedOf(a, s) < SignedOf(b, s)
    [] cond = "gt" -> SignedOf(a, s) > SignedOf(b, s)
    [] cond = "le" -> SignedOf(a, s) <= SignedOf(b, s)

\* Whether a conditional branch is taken.
Takes(m, w) ==
  CASE w.op = "bcond" -> Holds(w.cond, m.flags)
    [] w.op = "cbz"   -> Reads(m, w, w.n) = {}
    [] w.op = "cbnz"  -> Reads(m, w, w.n) # {}
    [] w.op = "tbz"   -> w.wd \notin Reads(m, w, w.n)
    [] w.op = "tbnz"  -> w.wd \in Reads(m, w, w.n)
    [] w.op = "cb"    -> Compares(w.cond, Reads(m, w, w.n), Reads(m, w, w.m), Size(w))
    [] w.op = "cbi"   -> Compares(w.cond, Reads(m, w, w.n), Bits(w.wd, Size(w)), Size(w))

Run(m, words) == FoldLeft(Exec, m, words)

-----------------------------------------------------------------------------
(* Encodings.                                                              *)

\* The bitmask immediates of a size: an element of 2, 4, 8, ... bits that
\* holds one run of ones, rotated, is repeated across the register; zero and
\* all ones are not among them.
ElementSizes(s) == {2, 4, 8, 16, 32, 64} \cap 1 .. s
Replicated(s, e) ==
  { {i \in Low(s) : (i + r) % e < ones} : r \in Low(e), ones \in 1 .. e - 1 }
BitmaskImmediates == [s \in {H, W} |-> UNION {Replicated(s, e) : e \in ElementSizes(s)}]

\* An ADD/SUB immediate is a small field, or the field shifted by its width.
AddSubEncodable(k) ==
  LET mag == IF k < 0 THEN -k ELSE k
  IN  \/ mag < 2^ImmBits
      \/ mag % 2^ImmBits = 0 /\ mag \div 2^ImmBits < 2^ImmBits

\* The constants one word can materialise: MOVZ, MOVN or a bitmask ORR.
OneInstructionConstant(v, s) ==
  LET pieces == 0 .. s \div Piece - 1
      In(p)  == v \cap (Piece * p .. Piece * p + Piece - 1)
      Full(p) == In(p) = Piece * p .. Piece * p + Piece - 1
  IN  \/ Cardinality({p \in pieces : In(p) # {}}) <= 1
      \/ Cardinality({p \in pieces : ~Full(p)}) <= 1
      \/ v \in BitmaskImmediates[s]

Encodable(w) ==
  LET s == Size(w)
  IN  /\ w.op \in ShiftOps => w.k \in 1 .. s - 1
      /\ w.op \in ExtractOps \cup PlaceOps => w.k \in Low(s) /\ w.wd \in 1 .. s - w.k
      /\ w.op \in {"extr"} \cup ArithOps \cup LogicOps => w.k \in Low(s)
      /\ w.op \in ArithOps => w.sh # "ror"
      /\ w.op \in ImmLogicOps => w.mask \in BitmaskImmediates[s]
      /\ w.op \in ImmArithOps => AddSubEncodable(w.k)
      /\ w.op \in {"addsi", "subsi"} => w.k >= 0
      /\ w.op \in CondCmpImmOps => w.k \in 0 .. 2^CmpBits - 1
      /\ w.op \in MoveOps => w.k \in 0 .. s \div Piece - 1 /\ w.mask \subseteq Low(Piece)
      /\ w.op \in ExtArithOps => w.k \in 0 .. ExtShift /\ w.wd \in 1 .. s
      /\ w.op \in (MulOps \ {"madd", "msub"}) \cup HighOps => w.sf
      /\ w.op = "mov" => OneInstructionConstant(w.mask, s)

\* The registers a word reads and writes.
Immediates   == {"mov", "adr"} \cup MoveOps
TwoRegisters == {"extr", "ccmp", "ccmn", "cb"} \cup ArithOps \cup ExtArithOps \cup LogicOps \cup SelectOps
                \cup MulOps \cup HighOps \cup TwoSourceOps \cup CarryOps
ReadsReg(w, r) ==
  \/ r = w.n /\ w.op \notin Immediates
  \/ r = w.m /\ w.op \in TwoRegisters
  \/ r = w.a /\ w.op \in MulOps
  \/ r = w.d /\ w.op \in {"bfi", "bfxil", "movk"}
WritesReg(w, r) == r = w.d
=============================================================================
