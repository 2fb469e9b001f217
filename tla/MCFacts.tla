------------------------------ MODULE MCFacts -------------------------------
(* Instances of Facts for TLC: an X register of 8 bits, a W of 4, pieces   *)
(* and ADD immediates of 2; r3 stands for the frame registers, which dead  *)
(* writes leave alone, and for the cage base.                              *)
EXTENDS Facts, TLC

CONSTANTS r1, r2, r3, reg31
ThreeGprs == {r1, r2, r3}
OnlyR3    == {r3}

Values == {{}, {1, 3}, {0, 2, 4, 7}}
Start(a, b) ==
  [x |-> r1 :> a @@ r2 :> b @@ r3 :> Lsl(a, 4, W), sp |-> Ror(b, 1, W), base |-> {4, 6},
   mem |-> SymDiff(a, b),
   flags |-> [n |-> 3 \in b, z |-> 0 \in b, c |-> 1 \in a, v |-> 4 \in a]]
Starts == {Start(a, b) : a \in Values, b \in Values}

-----------------------------------------------------------------------------
Buffer(words, entries) == [words |-> words, entries |-> entries]

\* Numbers: copies, recomputations and partial writes between them.
Givens ==
  {MoveWide("movz", TRUE, r1, 0, {0}), Mov(TRUE, r2, r1), Ternary("eor", TRUE, r2, r1, r3),
   Cmp(TRUE, r1, r2), CSet(TRUE, r2, "eq"), Masked("adr", TRUE, r1, R31, {2})}
Writes ==
  {Mov(TRUE, r1, r2), Mov(FALSE, r1, r2), Ternary("eor", FALSE, r1, r1, r3),
   Ternary("subs", TRUE, r2, r1, r2),
   Load(TRUE, r1, r2, "uxt", W, 4), Store(r1, r2, W, 0)}
Enders == {Plain("svc"), Plain("data"), Plain("mrs"), Plain("nop"), BCond("eq", 1)}
NumberProgram ==
  Buffer(<<Givens, Givens \cup Writes, Writes \cup Enders,
           Givens \cup {Mov(FALSE, r1, r2), Ternary("subs", TRUE, r2, r1, r2)}>>, 1)

\* Decisions: a register bounded or not, a setter, a branch or another
\* setter, and what they decide.
Bounded ==
  {Masked("andi", TRUE, r1, r2, {0, 1}), MoveWide("movz", FALSE, r1, 0, {1}),
   Load(FALSE, r1, r3, "sxt", 2, 0), Branch("tbz", TRUE, r1, 7, 2)}
Setters ==
  {CmpImm(TRUE, r1, 3), CmpImm(FALSE, r1, 1), Shifted("addsi", TRUE, R31, r1, 2),
   TstImm(TRUE, r1, {1}), TstImm(FALSE, r1, {1, 2}), Cmp(TRUE, r1, r2),
   Extended("subsx", TRUE, R31, r2, r1, "sxt", 2, 1), Extended("addsx", TRUE, r1, R31, r1, "uxt", 4, 0)}
Branches ==
  {BCond(c, 2) : c \in {"hi", "eq", "ne", "lt", "mi"}}
  \cup {Branch("cbz", TRUE, r1, 0, 2), Branch("cbnz", FALSE, r1, 0, 2)}
Selected(op, n, m) == {Select(op, TRUE, r2, n, m, c) : c \in {"ls", "ge", "ne"}}
Decided ==
  {BCond(c, 2) : c \in Conds} \cup Selected("csel", r1, r3) \cup Selected("csinc", R31, R31)
  \cup Selected("csneg", r1, R31) \cup Selected("csinv", r3, r1)
  \cup {Branch(op, sf, r1, 0, 2) : op \in {"cbz", "cbnz"}, sf \in BOOLEAN}
  \cup {Branch("tbz", TRUE, r1, k, 2) : k \in {1, 2, 7}}
BoundProgram  == Buffer(<<Bounded, Setters, Decided>>, 1)
BranchProgram ==
  Buffer(<<Setters, Branches, Setters \cup Branches \cup {MoveWide("movk", TRUE, r1, 0, {0})}, Decided>>, 0)

\* Bits: words whose results are partly known, and what that makes of a mask
\* or of an operation on constants.
Producers ==
  {Load(FALSE, r1, r3, "uxt", 2, 0), Load(TRUE, r1, r3, "sxt", 2, 0), CSet(TRUE, r1, "lt"),
   Field("ubfx", TRUE, r1, r2, 3, 3), Masked("andi", FALSE, r1, r2, {1, 2}),
   MoveWide("movz", TRUE, r1, 1, {0}), MoveWide("movn", FALSE, r1, 0, {1}), Mov(FALSE, r1, r2)}
Middles ==
  {Shifted("lsl", TRUE, r1, r1, 2), Shifted("asr", FALSE, r1, r1, 1), Field("bfi", TRUE, r2, r1, 2, 3),
   Field("sbfx", TRUE, r2, r1, 1, 2), Masked("orri", TRUE, r2, r1, {7}), Mov(FALSE, r2, r1),
   Ternary("orn", TRUE, r2, r1, r3), Barrel("eor", FALSE, r2, r1, r1, "ror", 1),
   MoveWide("movz", TRUE, r2, 0, {1}), Select("csel", TRUE, r2, r1, r2, "eq"),
   Word("clz", TRUE, r2, r1), BCond("eq", 2)}
Consumers ==
  {Masked("andi", sf, d, r1, Low(n)) : sf \in BOOLEAN, d \in {r1, r2}, n \in {2, 3}}
  \cup {Masked("andi", TRUE, r2, r2, Low(n)) : n \in {4, 6}} \cup {Mov(FALSE, r, r) : r \in {r1, r2}}
  \cup {Field("ubfx", TRUE, d, r2, 0, 5) : d \in {r2, r3}}
  \cup {Ternary(op, sf, r1, r1, r2) : op \in TwoSourceOps \cup {"add", "sub", "bic", "umulh", "smulh"},
                                      sf \in BOOLEAN}
  \cup {Word(op, sf, r2, r1) : op \in OneSourceOps, sf \in BOOLEAN}
  \cup {MulAdd("msub", TRUE, r2, r1, r1, r2), MulAdd("smaddl", TRUE, r2, r1, r2, r1)}
  \cup {Barrel("extr", TRUE, r2, r1, r2, "lsl", 3), Extended("addx", TRUE, r2, r2, r1, "sxt", 2, 1)}
BitProgram ==
  Buffer(<<Producers, Middles \cup Producers, {w \in Consumers : w.op \notin HighOps \/ w.sf}>>, 0)

\* Chains: a bounded register, a chain on another and its consumer.
Opening ==
  {MoveWide("movz", TRUE, r1, 0, {0}), MoveWide("movz", FALSE, r1, 1, {0, 1}),
   MoveWide("movn", TRUE, r1, 1, {1}), MoveWide("movn", FALSE, r1, 0, {0, 1})}
Extending ==
  {MoveWide("movk", TRUE, r1, 1, {0}), MoveWide("movk", TRUE, r1, 3, {0, 1}),
   MoveWide("movk", FALSE, r1, 0, {1}), MoveWide("movk", TRUE, r1, 2, {})}
Using ==
  {Ternary(op, sf, r2, r2, r1) : op \in ArithOps \cup LogicOps, sf \in BOOLEAN}
  \cup {Ternary(op, TRUE, r1, r1, r3) : op \in {"sub", "bic", "and", "orr", "adds"}}
  \cup {Ternary("orr", TRUE, r2, r3, r1), Ternary("ands", FALSE, R31, r1, r2), Mov(FALSE, r2, r1), Mov(TRUE, r2, r1)}
Closing == {Plain("nop"), Plain("data"), Ternary("sub", TRUE, r2, r2, r1)}
ChainProgram  == Buffer(<<Opening, Opening \cup Extending, Extending \cup Closing, Using>>, 0)
ConsumerProgram == Buffer(<<Opening, Using, {Mov(TRUE, r2, r1), Plain("nop")}>>, 1)
MaskedProgram ==
  Buffer(<<{Masked("andi", TRUE, r2, r2, {0, 1, 2}), Load(FALSE, r2, r3, "uxt", 2, 0)},
           Opening, Extending, Using>>, 0)

\* A constant and an operation that has a form without it.
Constants ==
  {MoveWide("movz", sf, r1, 0, v) : sf \in BOOLEAN, v \in {{}, {0}, {1}, {0, 1}}}
  \cup {MoveWide("movn", sf, r1, 0, v) : sf \in BOOLEAN, v \in {{}, {0}, {1}}}
  \cup {MoveWide("movz", TRUE, r1, 3, {1}), MoveWide("movz", FALSE, r1, 1, {0, 1})}
Operands == {<<r1, r2>>, <<r2, r1>>, <<r1, r1>>, <<R31, r1>>, <<r1, R31>>}
Multiplying ==
  {MulAdd(op, sf, d, x[1], x[2], a) : op \in {"madd", "msub"}, sf \in BOOLEAN,
     d \in {r1, r3}, x \in Operands, a \in {r1, r2, R31}}
Amounts ==
  {Ternary(op, sf, d, x[1], x[2]) : op \in {"udiv"} \cup DOMAIN Immediate, sf \in BOOLEAN,
     d \in {r1, r3, R31}, x \in Operands}
Choosing ==
  {CondCmp(op, sf, x[1], x[2], c, {1}) : op \in {"ccmp", "ccmn"}, sf \in BOOLEAN,
     x \in Operands, c \in {"ne", "al"}}
  \cup {Select(op, sf, d, x[1], x[2], c) : op \in SelectOps, sf \in BOOLEAN, d \in {r1, r3},
           x \in Operands, c \in {"ge", "al"}}
Zeroing ==
  {Ternary(op, sf, d, x[1], x[2]) : op \in ArithOps \cup LogicOps, sf \in BOOLEAN,
     d \in {r1, r3, R31}, x \in Operands}
  \cup {Store(r1, n, W, k) : n \in {r1, r2, R31}, k \in {0, 2}}
UseProgram == Buffer(<<Constants, Multiplying \cup Amounts \cup Choosing \cup Zeroing>>, 0)
LinkProgram ==
  Buffer(<<{MoveWide("movz", sf, r1, 0, v) : sf \in BOOLEAN, v \in {{}, {0}}},
           {MoveWide("movk", sf, r1, 1, v) : sf \in BOOLEAN, v \in {{}, {0}}},
           {w \in Multiplying \cup Amounts : w.d = r3 /\ w.n = r2}>>, 0)
RemainderProgram ==
  Buffer(<<{MoveWide("movz", sf, r1, 0, v) : sf \in BOOLEAN, v \in {{0}, {1}, {0, 1}}},
           {Ternary("udiv", sf, x[1], x[2], r1) : sf \in BOOLEAN,
              x \in {<<r2, r3>>, <<r2, r2>>, <<r1, r3>>, <<r3, r2>>, <<r2, R31>>}},
           {MulAdd("msub", sf, d, x[1], x[2], a) : sf \in BOOLEAN, d \in Gprs,
              x \in {<<r1, r2>>, <<r2, r1>>, <<r1, r1>>}, a \in {r3, r2}}>>, 1)

\* Words that two checks claim: a select or a mask repeated, and a mask whose
\* result two bit tests pin under a bound.
SharedProgram ==
  Buffer(<<{Load(FALSE, r1, r3, "uxt", 2, 0), CmpImm(TRUE, r1, 3)},
           {CmpImm(TRUE, r1, 3), Masked("andi", TRUE, r2, r1, Low(2)), BCond("hi", 2)},
           {Masked("andi", TRUE, r2, r1, Low(2)), Select("csel", TRUE, r2, r1, r3, "ls"),
            Branch("tbz", TRUE, r1, 0, 2)},
           {Select("csel", TRUE, r2, r1, r3, "ls"), Branch("tbnz", TRUE, r1, 1, 2)},
           {Masked("andi", TRUE, r2, r1, Low(2))}>>, 0)

AllPrograms == <<NumberProgram, BoundProgram, BranchProgram, BitProgram, ChainProgram,
                 ConsumerProgram, MaskedProgram, UseProgram,
                 LinkProgram, RemainderProgram, SharedProgram>>

\* Deletions: a constant, what computes with it, and what the result decides.
ComposeProgram ==
  Buffer(<<{MoveWide(op, TRUE, r1, 0, {0}) : op \in {"movz", "movn"}},
           Middles, {Word(op, TRUE, r2, r1) : op \in OneSourceOps}, {Plain("nop")}>>, 0)
ComposePrograms == <<ComposeProgram>>
=============================================================================
