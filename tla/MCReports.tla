----------------------------- MODULE MCReports ------------------------------
(* Instances of Reports for TLC: tables that start with two slots, files   *)
(* of two code ranges of a few words.                                      *)
EXTENDS Reports

\* Keys of one length share a home slot, but for the addresses.
Home(k) == IF 0 \in DOMAIN k THEN k[0] + 2 * k[1]
           ELSE IF Len(k) = 1 THEN k[1] \div 4 ELSE 3 * Len(k) + 1

CONSTANT none
Find(t, o, v) == [type |-> t, at |-> o, value |-> v]
Name(o, size) == [at |-> o, size |-> size, named |-> TRUE]
Bare(o)        == [at |-> o, size |-> 0, named |-> FALSE]
Code(base, words, anchors) == [base |-> base, words |-> words, anchors |-> anchors]

Alu(r)      == Word("alu", r, 0, 0, 0, 0)
Nop         == Word("nop", 0, 0, 0, 0, 0)
Ret         == Word("jump", 0, 0, 0, 0, 0)
Call(d)     == Word("branch", 0, 0, 0, d, 0)
Literal(d, n) == Word("literal", 1, 0, 0, d, n)
Adrp(p)     == Word("adrp", 1, 0, 0, 0, p)
AddLow(rn, i) == Word("add", 2, rn, 0, 0, i)
Load(rn, i) == Word("mem", 1, rn, 0, 0, i)
Pair(rn)    == Word("access", 3, rn, 1, 0, 0)
Movz(s, r, i) == Word("movz", r, s, 0, 0, i)
Movk(s, r, i) == Word("movk", r, s, 1, 0, i)
Pool(n)     == Word("pool", 31, 0, 0, n, n)

\* Two functions of three words side by side, for every choice of the middle
\* word: copies, near copies and functions of their own.
Middles == {Alu(1), Call(-1), Call(2), Literal(1, 1), AddLow(1, 1), AddLow(1, 2), Nop}
Stub(a, b) == <<Adrp(a), b, Ret>>
Stubs ==
  {<<Code(16, Stub(0, m) \o Stub(1, n), <<Name(16, 0), Bare(28)>>),
     Code(64, Stub(1, m), <<>>)>> : m \in Middles, n \in Middles}
\* What drops a page, data among the words, padding, sized and unaligned
\* anchors, code before the first.
Layouts ==
  {<<Code(16, <<Adrp(1), d, u, Adrp(1), d, v>>, <<Name(16, 0), Name(28, 0)>>), Code(60, <<u, Nop>>, <<Bare(60)>>)>> :
     d \in {Alu(1), Alu(3), Load(1, 0), Pair(1), Call(0), Pool(1), Pool(3)}, u \in {Load(1, 1), AddLow(1, 2)}, v \in {Load(1, 2)}}
  \cup {<<Code(16, <<Alu(1), Literal(2, n), Ret, Alu(9), Nop, Nop>>, as), Code(16, <<Alu(1), Literal(2, 1), Ret, Alu(5)>>, <<>>)>> :
     n \in 0 .. 2, as \in {<<Name(16, 16), Name(38, 0)>>, <<Name(20, 8)>>, <<Name(4, 0)>>, <<Name(18, 0), Bare(32)>>}}
\* Chains: builds of a value in one function and in another, of one width
\* and of two, and a MOVK at another width than its chain.
Chains ==
  {<<Code(16, <<Movz(0, 1, 3), Movk(0, 1, b), x, Movz(0, 2, 3), Movk(0, r, 4), Ret, Movz(q, 1, 3), Movk(q, 1, 4)>>, as)>> :
     b \in {4, 5}, r \in {1, 2}, x \in {Alu(1), Pool(2), Movk(0, 1, 4), Movk(1, 1, 4)}, q \in {0, 1},
     as \in {<<>>, <<Name(28, 0)>>, <<Name(20, 16), Name(40, 0)>>, <<Name(16, 20), Name(40, 0)>>}}
Fills == {<<Code(16, <<Alu(1), Alu(2), Ret>>, as)>> : as \in {<<Name(16, 0)>>, <<Name(20, 4)>>, <<Name(16, 12), Bare(24)>>}}
SomeFiles == Fills \cup Stubs \cup Layouts \cup Chains
SomeFindings(file) ==
  CASE file \in Chains  -> {}
    [] file \in Stubs   -> {Find(1, 4, none)}
    [] file \in Layouts -> {Find(2, 16, 5)}
    [] OTHER -> {Find(1, 0, none), Find(2, 0, 5), Find(1, 4, 6), Find(2, 8, none)}
=============================================================================
