----------------------------- MODULE MCPeephole -----------------------------
(* Instances of Peephole for TLC: an X register of 4 bits, a W of 2.  The  *)
(* checks compare registers and never order them, so a producer writes r1, *)
(* from itself or from r2, and r3 is the register nothing else touches.    *)
EXTENDS Peephole, TLC

CONSTANTS r1, r2, r3, reg31
ThreeGprs == {r1, r2, r3}
Regs      == Gprs \cup {R31}
BitOnly   == {1}

\* None, the low half, the high half, every other bit, both ends, all.
Values == {{}, {0, 1}, {2, 3}, {1, 3}, {0, 3}, Low(W)}
Start(a, b) ==
  [x  |-> r1 :> a @@ r2 :> b @@ r3 :> Ror(a, 1, W),
   sp |-> Ror(b, 1, W),
   base |-> {},
   mem |-> SymDiff(a, b),
   flags |-> [n |-> 3 \in b, z |-> 0 \in b, c |-> 1 \in a, v |-> FALSE]]
Starts == {Start(a, b) : a \in Values, b \in Values}

-----------------------------------------------------------------------------
(* Words, each encoding once: a UBFX or UBFIZ that reaches the top is LSR  *)
(* or LSL, an SBFX that does is ASR.                                       *)
Canonical(w) ==
  /\ Encodable(w)
  /\ w.op \in {"ubfx", "sbfx", "ubfiz", "sbfiz"} => w.k + w.wd < Size(w)
  /\ w.op \in {"ubfiz", "sbfiz"} => w.k > 0
Real(words) == {w \in words : Canonical(w)}

\* The destinations and sources of a word, as a set of pairs.
FirstPlaces == {<<r1, r1>>, <<r1, r2>>}
NextPlaces  == {<<r1, r1>>, <<r2, r1>>, <<r3, r1>>, <<r1, r2>>}

Shifts(ops, places) ==
  Real({Shifted(op, sf, x[1], x[2], k) :
          op \in ops, sf \in BOOLEAN, x \in places, k \in 1 .. W - 1})
Fields(ops, places) ==
  Real({Field(op, sf, x[1], x[2], k, wd) :
          op \in ops, sf \in BOOLEAN, x \in places, k \in Low(W), wd \in 1 .. W})
Masks(op, places) ==
  Real({Masked(op, sf, x[1], x[2], mask) :
          sf \in BOOLEAN, x \in places, mask \in BitmaskImmediates[H] \cup BitmaskImmediates[W]})
Registers(ops, D, N, M) ==
  {Ternary(op, sf, d, n, m) : op \in ops, sf \in BOOLEAN, d \in D, n \in N, m \in M}
Riding ==
  Real({Barrel(op, sf, d, n, m, sh, k) :
          op \in {"add", "orr", "eor", "and"}, sf \in BOOLEAN, d \in {r1, r3},
          n \in {r1, r2}, m \in {r1, r2}, sh \in {"lsl", "lsr"}, k \in 1 .. W - 1})
Selects ==
  {Select("csel", sf, d, n, m, c) :
     sf \in BOOLEAN, d \in {r1, r3, R31}, n \in {r1, r2, R31}, m \in {r1, r2, R31},
     c \in {"eq", "mi", "al"}}
Adds(ks, D, N) == {Shifted("addi", sf, d, n, k) : sf \in BOOLEAN, d \in D, n \in N, k \in ks}
SignedLoads(D, N) ==
  {w \in {Load(sf, d, n, "sxt", wd, 0) : sf \in BOOLEAN, d \in D, n \in N, wd \in Exts \cup {H}} :
     SignedLoad(w)}

-----------------------------------------------------------------------------
(* Buffers.                                                                *)

\* Shifts, fields, masks, extensions, signed loads and W-form moves, in pairs.
FieldOps  == {"ubfx", "sbfx", "ubfiz", "sbfiz"}
FieldWords(places) ==
  Shifts(ShiftOps, places) \cup Fields(FieldOps, places) \cup Masks("andi", places)
FieldPairs ==
  <<FieldWords(FirstPlaces) \cup Masks("andi", {<<R31, r1>>})
      \cup SignedLoads({r1, R31}, {r1, r2, R31})
      \cup {Mov(sf, r1, m) : sf \in BOOLEAN, m \in {r1, r2, R31}},
    FieldWords(NextPlaces) \cup Masks("andi", {<<R31, r1>>})
      \cup Masks("andsi", NextPlaces \cup {<<R31, r1>>})
      \cup {Mov(sf, d, m) : sf \in BOOLEAN, d \in Regs, m \in {r1, R31}}>>

\* A producer and a register operation, a select or a degenerate spelling.
\* ADD #0 in place on a W register is left out: it is reported as a no-op.
Producers ==
  Shifts(ShiftOps, FirstPlaces \cup {<<r1, R31>>})
  \cup Registers({"sub", "orn"}, {r1}, {R31}, {r1, r2}) \cup Adds({1, 2}, {r1}, {r1, r2})
  \cup {Masked("adr", TRUE, r1, R31, {1})} \cup Masks("andi", {<<r1, r1>>})
Consumers ==
  Registers(ArithOps \cup LogicOps, {r1, r3, R31}, {r1, r2, R31}, {r1, r2, R31})
  \cup Riding \cup Selects
  \cup {w \in Adds({0}, {r1, r3, R31}, {r1, r2, R31}) : w.sf \/ w.d # w.n}
RegisterPairs == <<Producers, Consumers>>

\* Two adjustments with a word between, which may adjust as well, load or
\* write SP.
Between == {w \in Adds({1}, Regs, Regs) \cup {Mov(TRUE, d, m) : d \in Regs, m \in Regs}
                  \cup SignedLoads(Regs, Regs)
                  \cup {Extended(op, TRUE, R31, n, r2, "uxt", 1, 0) : op \in {"addx", "subx"}, n \in {r2, R31}} :
              w.sf}
ChainTriples ==
  <<Adds({1, -1}, {r1, R31}, {r1, r2, R31}), Between, Adds({1, -1, 2}, {r1, r3, R31}, {r1})>>

\* A clear and an isolate, in either order, and a combination.
Clears   == Masks("andi", {<<r1, r1>>})
Isolates == {w \in Masks("andi", {<<r2, r3>>, <<r2, r1>>, <<r1, r3>>}) : LowMask(w)}
            \cup Fields({"ubfiz"}, {<<r2, r3>>, <<r2, r2>>, <<r2, r1>>}) \cup Shifts({"lsl"}, {<<r2, r3>>})
InsertTriples ==
  <<Clears \cup Isolates, Clears \cup Isolates,
    Registers({"orr"}, {r1, r2}, {r1, r2, r3}, {r1, r2})>>

\* A multiply, an extension, a copy or a CSET, and arithmetic on its result.
Products   == {MulAdd(op, sf, r1, n, r2, a) :
                 op \in {"madd"}, sf \in BOOLEAN, n \in {r1, r2}, a \in {r2, R31}}
              \cup {MulAdd(op, TRUE, r1, n, r2, R31) : op \in {"smaddl", "umaddl"}, n \in {r1, r2}}
Extensions == {w \in Fields({"ubfx", "sbfx"}, {<<r1, r1>>, <<r1, r2>>, <<r1, R31>>}) : w.k = 0}
Copies(D, M) == {Mov(sf, d, m) : sf \in BOOLEAN, d \in D, m \in M}
Csets      == {CSet(sf, r1, c) : sf \in BOOLEAN, c \in {"eq", "lt", "al"}}
Sums       == Real({Barrel(op, sf, d, n, m, "lsl", k) :
                      op \in ArithOps, sf \in BOOLEAN, d \in {r1, r3, R31},
                      n \in {r1, r2, R31}, m \in {r1, r2}, k \in Low(W)})
ArithPairs ==
  <<Products \cup Extensions \cup Copies({r1, R31}, {r1, r2, R31}) \cup Csets
      \cup Adds({0}, {r1, R31}, {r2, R31}),
    Sums \cup Copies({r1, r2, r3, R31}, {r1, r2})
      \cup {w \in Adds({0, 1, -2}, {r1, r3, R31}, {r1, r2, R31}) : w.sf \/ w.k # 0 \/ w.d # w.n}
      \cup {Masked("eori", sf, d, r1, {0}) : sf \in BOOLEAN, d \in {r1, r3, R31}}>>

FoldFamilies == <<FieldPairs, RegisterPairs, ChainTriples, InsertTriples, ArithPairs>>
ASSUME FoldsAreOrdinary == Ordinary(FoldFamilies)

\* A clear, two isolates and a combination.
SynthesisFamilies ==
  <<<<Clears, Masks("andi", {<<r1, r2>>}), Masks("andi", {<<r2, r3>>}),
      Registers({"orr"}, {r1}, {r1}, {r2, r3})>>>>
=============================================================================
