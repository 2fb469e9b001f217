------------------------------- MODULE MCFlags -------------------------------
(* Instances of Flags for TLC: an X register of 8 bits, a W of 4.  A       *)
(* buffer is a producer, what consumes it, and what may end the deferred   *)
(* finding's proof or spoil it.                                            *)
(*                                                                         *)
(* Left out of AllFamilies are the windows whose rewrite is known not to   *)
(* preserve the result: a field extracted in place before a zero branch    *)
(* (SingleBitFamilies), a NEG of W registers in place before one, an MSR   *)
(* to NZCV between a CSET and the compare of its result, a constant before *)
(* the masked field in a compare whose order matters (FieldFamilies), and  *)
(* a CCMP that begins a finding where another waits.                       *)
EXTENDS Flags, TLC

CONSTANTS r1, r2, r3, reg31
ThreeGprs == {r1, r2, r3}

\* Zero, small numbers, both sides of the sign of each width, all ones.
Values == {{}, {0}, {1}, {0, 1}, {2}, {3}, {0, 1, 2}, {0, 1, 2, 3}, {7}, {0, 7}, Low(7), Low(W), Low(W) \ {0}}
Start(a, b) ==
  [x |-> r1 :> a @@ r2 :> b @@ r3 :> Ror(a, 1, W), sp |-> Ror(a, 3, W), base |-> {}, mem |-> b,
   flags |-> [n |-> 0 \in a, z |-> b = {}, c |-> 7 \in a, v |-> 1 \in a]]
Starts == {Start(a, b) : a \in Values, b \in {{}, {0, 3, 7}}} \cup {Start(a, a) : a \in {{0}, {7}}}

-----------------------------------------------------------------------------
(* Words.                                                                  *)
Cmn(sf, n, k) == Shifted("addsi", sf, R31, n, k)
Movz(d)       == MoveWide("movz", TRUE, d, 0, {0})
Mrs(d)        == Word("mrs", TRUE, d, R31)
CSetM(sf, d, cond) == Select("csinv", sf, d, R31, R31, cond)
Away == {-5, 3, 7}     \* displacements that leave a buffer of 4

ZeroTests(n) ==
  {CmpImm(TRUE, n, 0), CmpImm(FALSE, n, 0), Cmp(TRUE, n, R31), Cmn(FALSE, n, 0),
   Ternary("adds", TRUE, R31, n, R31), Ternary("ands", TRUE, R31, n, n), Ternary("ands", FALSE, R31, n, n)}
BConds(conds, ks) == {BCond(c, k) : c \in conds, k \in ks}
Csets(d, conds)   == {CSet(sf, d, c) : sf \in BOOLEAN, c \in conds}
                     \cup {CSetM(sf, d, c) : sf \in BOOLEAN, c \in conds}

\* What may follow a deferral about the flags, and what ends it.
FlagTail == {Nop, Cmp(TRUE, r3, r2), Mrs(r3), Plain("bl"), Branch("cbz", TRUE, r3, 0, 9)}
FlagEnds == {CmpImm(FALSE, r2, 1), Mrs(r3), Select("csel", TRUE, r3, r1, r2, "lt")}

\* The same about r1 and r2.
RegTail == {Nop, Movz(r2), Movz(r1), Ternary("add", TRUE, r3, r2, r1), BCond("eq", 9), Branch("b", TRUE, R31, 0, -9)}
RegEnds == {Movz(r2), Movz(r1), Ternary("add", FALSE, r2, r3, r3)}

-----------------------------------------------------------------------------
(* Buffers.                                                                *)
ZeroBranch ==
  <<ZeroTests(r1), BConds(RealConds \ {"cc", "vs", "vc"}, {-5, 1, 2, 3}), FlagTail, FlagEnds>>
BitTest ==
  <<{TstImm(TRUE, r1, {7}), TstImm(TRUE, r1, {1}), TstImm(FALSE, r1, {3}), TstImm(TRUE, r1, {1, 2})},
    BConds({"eq", "ne", "mi"}, {-5, 1, 2, 3}) \cup Csets(r1, {"ne", "eq", "pl", "mi"}), FlagTail, FlagEnds>>
BitProducers ==
  {Masked("andi", TRUE, r2, r1, {1}), Masked("andi", TRUE, r1, r1, {6}), Masked("andi", FALSE, r2, r1, {3}),
   Field("ubfx", TRUE, r2, r1, 5, 1), Field("sbfx", FALSE, r2, r1, 2, 1), Shifted("lsr", TRUE, r2, r1, 7),
   Shifted("asr", FALSE, r1, r2, 3), CSet(TRUE, r2, "lt"), CSet(FALSE, r1, "eq")}
BitBranches ==
  {Branch(op, sf, n, 0, k) : op \in {"cbz"}, sf \in BOOLEAN, n \in {r1, r2}, k \in {-5, 1, 2, 3, 7}}
  \cup {Branch("cbnz", TRUE, n, 0, 2) : n \in {r1, r2}}
  \cup {Branch(op, FALSE, n, b, 2) : op \in {"tbz", "tbnz"}, n \in {r1, r2}, b \in {0, 1}}
BitBranch == <<BitProducers, BitBranches, RegTail, RegEnds>>
NegBranches ==
  <<{Ternary("sub", TRUE, r2, R31, r1), Ternary("sub", FALSE, r2, R31, r1), Ternary("sub", TRUE, r1, R31, r1),
     Barrel("sub", TRUE, r2, R31, r1, "lsl", 1)},
    {Branch(op, sf, n, 0, k) : op \in {"cbz", "cbnz"}, sf \in BOOLEAN, n \in {r1, r2}, k \in {-5, 2}},
    RegTail, RegEnds>>
Setting ==
  {Ternary("adds", TRUE, r2, r1, r3), Ternary("ands", FALSE, r2, r1, r3), Shifted("subsi", TRUE, r2, r2, 1),
   Masked("andsi", FALSE, r1, r1, {1}), Ternary("adcs", TRUE, r2, r1, r3), Ternary("sbcs", FALSE, r2, r2, r1)}
SetTest == <<Setting, ZeroTests(r2) \ {Cmn(FALSE, r2, 0)}, BConds({"eq", "ne", "mi"}, {2, -9}), FlagTail, FlagEnds>>
Settable ==
  {Shifted("addi", TRUE, r2, r1, 3), Shifted("addi", FALSE, r2, r2, -2), Ternary("sub", TRUE, r2, r1, r3),
   Ternary("and", TRUE, r2, r1, r3), Ternary("bic", FALSE, r2, r1, r3), Masked("andi", TRUE, r2, r1, {1, 2}),
   Extended("addx", TRUE, r2, r1, r3, "uxt", 4, 1)}
Readers ==
  {Nop, Mrs(r3), CmpImm(TRUE, r1, 1), Plain("bl")} \cup BConds({"ne", "lt"}, {9})
  \cup {Select("csel", TRUE, r3, r1, r2, c) : c \in {"eq", "hi", "ge", "mi", "al"}}
  \cup {CondCmpImm("ccmpi", TRUE, r1, 1, c, {2}) : c \in {"eq", "cs", "pl"}}
Twins == <<Settable, ZeroTests(r2), Readers, FlagEnds>>
Gaps  ==
  <<Settable, {Nop, Word("msr", TRUE, R31, r3), Plain("ptest"), Movz(r3), Movz(r2), Mrs(r3), Ternary("add", TRUE, r3, r2, r2)},
    {Nop, Mov(TRUE, r1, r2)} \cup ZeroTests(r2), {Nop} \cup ZeroTests(r2), {Nop, CmpImm(TRUE, r1, 1)}>>
Pairing ==
  {Ternary("add", TRUE, r2, r1, r3), Ternary("add", TRUE, r1, r1, r3), Ternary("sub", TRUE, r2, r1, r3), Ternary("sub", TRUE, r3, r1, r3),
   Shifted("addi", TRUE, r2, r1, 2), Shifted("addi", TRUE, r2, r1, -2), Shifted("addi", TRUE, r1, r1, -2),
   Extended("subx", TRUE, r2, r1, r3, "uxt", 4, 1)}
Compared == {CompareOf(SForm(w)) : w \in Pairing} \cup {Ternary("adds", TRUE, R31, r3, r1), Ternary("adds", TRUE, R31, r1, r2)}
PairTest ==
  LET all == Pairing \cup {SForm(w) : w \in Pairing} \cup Compared \cup {CondCmpImm("ccmpi", TRUE, r1, 1, "eq", {2})}
  IN  <<all, all, {Nop, CmpImm(TRUE, r1, 1), Mrs(r3), Plain("bl"), BCond("eq", 9)}>>
Recompare ==
  <<{CSet(TRUE, r1, "lt"), CSet(FALSE, r1, "eq"), CSet(FALSE, r2, "hi")},
    {Nop, BCond("lt", 9), Movz(r1), CmpImm(TRUE, r3, 1), Mrs(r2)} \cup ZeroTests(r1),
    {Nop, Ternary("eor", TRUE, r1, r1, r1), Select("csel", TRUE, r2, r3, r1, "ne"), CSet(TRUE, r2, "ne")}
      \cup {CmpImm(TRUE, r1, 0), Ternary("ands", FALSE, R31, r1, r1)},
    {Select("csel", TRUE, r3, r1, r2, c) : c \in {"eq", "ne", "lt"}} \cup {CSet(FALSE, r2, "eq"), Mrs(r3)},
    {CmpImm(TRUE, r3, 1), Mrs(r3)}>>
Selecting ==
  <<{CmpImm(TRUE, r1, 0), CmpImm(FALSE, r1, 0), Cmp(TRUE, r1, r2), Cmp(FALSE, r1, r2), Cmp(TRUE, r1, R31), CmpImm(TRUE, r1, 2)},
    Csets(r2, {"pl", "ge", "lt"})
      \cup {Select("csel", sf, r3, x[1], x[2], c) : sf \in BOOLEAN, x \in {<<r1, r2>>, <<r2, r1>>, <<r1, R31>>}, c \in RealConds}
      \cup {Select("csneg", TRUE, r2, r1, r1, c) : c \in {"pl", "ge", "gt", "mi"}}, FlagTail, FlagEnds>>
CompareAndBranch ==
  <<{CmpImm(sf, r1, k) : sf \in BOOLEAN, k \in {0, 1, 2, 3, 4, 5}} \cup {Cmp(sf, r1, m) : sf \in BOOLEAN, m \in {r2, R31}},
    BConds(RealConds, {-5, 2, 3}), {CmpImm(TRUE, r3, 1), Mrs(r3)}>>
Jumps == <<{Branch("b", TRUE, R31, 0, k) : k \in {1, 2}} \cup {BCond("al", 1), Branch("tbnz", FALSE, r1, 2, 1)}, FlagTail, FlagEnds>>

Link(op, k, cond, nzcv) == CondCmpImm(op, TRUE, r1, k, cond, nzcv)
FirstLinks == {CmpImm(TRUE, r1, k) : k \in {0, 1, 2, 4}} \cup {Cmn(TRUE, r1, k) : k \in {1, 3}}
NextLinks  == {Link(op, k, c, f) : op \in CondCmpImmOps, k \in {0, 1, 3}, c \in {"ne", "hi", "lt"}, f \in {{}, {2}, {1}}}
ChainReaders == BConds({"eq", "hi", "lt"}, {-9}) \cup {Select("csel", TRUE, r2, r3, r1, c) : c \in {"ne", "ls", "al"}}
Ending == {CmpImm(TRUE, r3, 1), Mrs(r3)}
TwoLinks   == <<FirstLinks, NextLinks \cup {Link("ccmp", 0, "ne", {}), [Link("ccmpi", 1, "ne", {}) EXCEPT !.sf = FALSE]}, ChainReaders, Ending>>
FewLinks   == {Link("ccmpi", 1, "ne", {2}), Link("ccmpi", 1, "hi", {}), Link("ccmpi", 2, "cs", {1}), Link("ccmni", 1, "cs", {1})}
ManyLinks  == <<{CmpImm(TRUE, r1, 0), CmpImm(TRUE, r1, 3)}, FewLinks, FewLinks, FewLinks \cup ChainReaders, ChainReaders \cup Ending, Ending>>

Constants == {MoveWide("movz", TRUE, r2, 0, {0, 3}), MoveWide("movn", FALSE, r2, 0, {1}), MoveWide("movn", TRUE, r2, 0, {1}),
              MovImm(FALSE, r2, {1, 2, 3}), MoveWide("movz", TRUE, r2, 1, {0})}
NarrowTail ==
  {Nop, Movz(r2), CmpImm(TRUE, r3, 1), Mrs(r3), Plain("bl"), BCond("eq", 9), BCond("hi", 9), BCond("lt", 9),
   Branch("cbz", TRUE, r2, 0, 9), Branch("cbnz", TRUE, r3, 0, 9), Branch("b", TRUE, R31, 0, 9),
   Select("csel", TRUE, r3, r1, r3, "ne"), Select("csel", TRUE, r2, r1, r3, "cs"), Select("csel", TRUE, r3, r1, r3, "mi"),
   CondCmpImm("ccmpi", TRUE, r1, 1, "ls", {}), CondCmpImm("ccmpi", TRUE, r1, 1, "ge", {})}
Narrow == <<Constants, {Cmp(TRUE, r1, r2), Cmp(TRUE, r2, r1), Cmp(FALSE, r1, r2), Cmp(TRUE, r3, r2)},
            NarrowTail, NarrowTail>>

\* Compares with an extreme, what reads Z of them, and what ends the proofs.
Extremal == {MoveWide(op, TRUE, r1, 1, {3}) : op \in {"movz", "movn"}} \cup {MoveWide(op, FALSE, r1, 0, {3}) : op \in {"movz", "movn"}}
SideTail == {Movz(r1), CmpImm(TRUE, r3, 1), Mrs(r3), Plain("bl"), BCond("eq", 9), Branch("cbz", TRUE, r2, 0, 9),
             Branch("cbz", TRUE, r1, 0, 9), Branch("b", TRUE, R31, 0, 9), Ternary("adds", TRUE, r1, r2, r2), CSet(TRUE, r1, "cc")}
ExtremeTest ==
  <<Extremal, {Cmp(TRUE, r2, r1), Cmp(FALSE, r1, r2)},
    {BCond("ne", 9), BCond("lt", -9), CSet(TRUE, r1, "ne")} \cup {Select("csel", TRUE, r3, n, r2, "eq") : n \in {R31, r1}},
    SideTail, {Movz(r1), CmpImm(TRUE, r3, 1), Mrs(r3), Ternary("adds", TRUE, r1, r2, r2)}>>
ExtremeLink ==
  <<Extremal, {Cmp(TRUE, r2, r1), Cmp(FALSE, r1, r2)},
    {CondCmp("ccmp", sf, r3, r1, c, f) : sf \in BOOLEAN, c \in {"eq", "ne"}, f \in {{}, {2}, {1}}},
    {BCond("ne", 9), Select("csel", FALSE, r3, r2, r3, "eq")}, {Movz(r1)}, {CmpImm(TRUE, r3, 1)}>>

\* The extreme in two pieces, or in a chain whose widths part it.
ExtremeChain ==
  <<{MoveWide(op, TRUE, r1, 0, {}) : op \in {"movz", "movn"}},
    {MoveWide("movk", TRUE, r1, 1, m) : m \in {{3}, {0, 1, 2}}} \cup {MoveWide("movk", FALSE, r1, 0, {3})},
    {Cmp(TRUE, r2, r1), Cmp(FALSE, r1, r2)},
    {BCond("ne", 9), CSet(TRUE, r1, "ne"), CondCmp("ccmp", TRUE, r3, r1, "eq", {1}), CondCmp("ccmp", TRUE, R31, r1, "eq", {1})},
    {Movz(r1), BCond("eq", 9)}, {CmpImm(TRUE, r3, 1), Movz(r1)}, {CmpImm(TRUE, r3, 1)}>>

\* Compares of a masked field with a constant, in either order.
FieldMasks == {Masked("andi", TRUE, r1, r3, m) : m \in {{2, 3}, {1, 2, 3}, {6, 7}, {0, 1, 2, 3}}}
              \cup {Masked("andi", TRUE, r1, n, {2, 3}) : n \in {r1, r2}}
Numbers == {MoveWide("movz", TRUE, r2, h, {2, 3}) : h \in {0, 1}} \cup {MoveWide("movz", TRUE, r2, 0, {1, 3})}
Beside  == {Nop, Ternary("add", TRUE, r3, r3, r3), Mov(TRUE, r3, r1), BCond("eq", 9)}
FieldTail == {Movz(r1), Movz(r2), CmpImm(TRUE, r3, 1), Mrs(r2), Plain("bl")}
FieldTest ==
  <<FieldMasks, Numbers, {Cmp(TRUE, r1, r2)},
    BConds({"hi", "mi"}, {9}) \cup {CSet(TRUE, r1, "cc"), Select("csel", TRUE, r2, r3, R31, "lt"), Select("csel", TRUE, r3, r1, r3, "eq")},
    FieldTail, FieldTail, {Movz(r1), Movz(r2), CmpImm(TRUE, r3, 1)}>>
FieldLater ==
  <<Numbers, Beside, FieldMasks, {Cmp(TRUE, r2, r1)}, {BCond("ne", 9), Select("csel", TRUE, r2, r3, R31, "eq")},
    {Movz(r1)}, {Ternary("adds", TRUE, r2, r3, r3)}>>
FieldChain ==
  <<{Masked("andi", TRUE, r1, r3, {2, 3}), Masked("andi", TRUE, r1, r3, {2, 3, 4, 5})},
    {MoveWide("movz", sf, r2, 0, {0}) : sf \in BOOLEAN} \cup {MoveWide("movn", TRUE, r2, 0, {})},
    {MoveWide("movk", sf, r2, 0, {2, 3}) : sf \in BOOLEAN} \cup {MoveWide("movk", TRUE, r1, 0, {2, 3})},
    {Cmp(TRUE, r1, r2)}, {BCond("ne", 9), Select("csel", TRUE, r2, r3, R31, "eq")},
    {Movz(r1), Movz(r2)}, {Ternary("adds", TRUE, r2, r3, r3), Ternary("adds", TRUE, r1, r3, r3)}>>

\* The constant before the field, and a reader that minds.
FieldFamilies ==
  << <<{Masked("andi", TRUE, r1, r3, {2, 3})}, {MoveWide("movz", TRUE, r2, 0, {2, 3})}, {Cmp(TRUE, r2, r1)},
       {BCond("hi", 9), Select("csel", TRUE, r2, r3, R31, "cc")}, FieldTail, FieldTail, FieldTail>> >>

AllFamilies ==
  <<ZeroBranch, BitTest, BitBranch, NegBranches, SetTest, Twins, Gaps, PairTest, Recompare, Selecting,
    CompareAndBranch, Jumps, TwoLinks, ManyLinks, Narrow, ExtremeTest, ExtremeLink, ExtremeChain,
    FieldTest, FieldLater, FieldChain>>

\* The bit extracted in place, and its register still read.
SingleBitFamilies ==
  << <<{Field("ubfx", FALSE, r1, r1, 2, 1), Shifted("asr", TRUE, r1, r1, 7)}, BitBranches, RegTail, RegEnds>> >>
=============================================================================
