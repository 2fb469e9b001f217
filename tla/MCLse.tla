------------------------------- MODULE MCLse --------------------------------
(* Instances of LseLoops for TLC: an X register of 4 bits, a W of 2, a     *)
(* byte of 1.                                                              *)
EXTENDS LseLoops, TLC

CONSTANTS r1, r2, r3, r4, r5, reg31
FiveGprs == {r1, r2, r3, r4, r5}
Address  == {0, 3}
OthersValues == {{0}, {1, 3}, Low(W)}

\* The address is in r1, the operand or the comparand in r3; the rest holds
\* what was there before.
Start(v, u) ==
  [x |-> r1 :> {1} @@ r2 :> {1, 2} @@ r3 :> v @@ r4 :> u @@ r5 :> {0, 2}, sp |-> {}, base |-> {}, mem |-> {},
   flags |-> [n |-> 0 \in u, z |-> v = {}, c |-> FALSE, v |-> TRUE]]
Starts == {Start({}, {1}), Start({0}, {2, 3}), Start({1, 3}, {0, 1}), Start(Low(W), {})}

-----------------------------------------------------------------------------
Sizes == {1, H, W}
Movz(d) == MoveWide("movz", TRUE, d, 0, {1})
Add(d, n, m) == Ternary("add", TRUE, d, n, m)
Nop     == Plain("nop")
Data    == Plain("data")
Back(sf, n, k) == Branch("cbnz", sf, n, 0, k)

RegOps == Commutative \cup {"sub", "bic"}
Middles ==
  {Ternary(op, sf, d, r2, r3) : op \in RegOps, sf \in BOOLEAN, d \in {r2, r4}}
  \cup {Ternary(op, TRUE, d, r3, r2) : op \in RegOps, d \in {r2, r4}}
  \cup {Ternary("add", TRUE, d, r2, m) : d \in {r1, r3, r4, R31}, m \in {r1, r2, r3, r4, R31}}
  \cup {Shifted("addi", sf, d, r2, k) : sf \in BOOLEAN, d \in {r2, r4}, k \in {-1, 0, 1, 2}}
  \cup {Barrel("orr", TRUE, r4, r2, r3, "lsl", 1), Ternary("orn", TRUE, r4, r2, r3), Ternary("adds", TRUE, r4, r2, r3)}
Dying == <<{Movz(r4), Movz(r1)}, {Movz(r5)}, {Movz(r2)}>>

\* LDXR, an operation, STXR, CBNZ.
Fetch(wd) ==
  <<{Ldxr(wd, r2, r1)}, Middles,
    {Stxr(wd, d, m, r1) : d \in {r3, r5}, m \in {r1, r2, r4}} \cup {Stxr(wd, d, r4, n) : d \in {r1, r2, r4}, n \in {r1, r3}},
    {Back(FALSE, r5, -3), Back(FALSE, r3, -3)}>> \o Dying

\* What may follow a loop whose result and status must die.
After == {Nop, Movz(r4), Movz(r5), Add(r4, r5, r3), Add(r5, r4, r3), Plain("bl"), Back(TRUE, r5, 2)}
Afterwards ==
  <<{Ldxr(H, r2, r1)}, {Ternary("eor", FALSE, r4, r2, r3)}, {Stxr(H, r5, r4, r1)}, {Back(TRUE, r5, -3)},
    After, After \cup {Data}, After>>

\* LDXR, STXR, CBNZ.
Swap ==
  <<{Ldxr(wd, d, r1) : wd \in Sizes, d \in {r1, r2, R31}},
    {Stxr(wd, d, m, r1) : wd \in Sizes, d \in {r1, r2, r3, r5}, m \in {r1, r2, r3, R31}},
    {Back(FALSE, r5, k) : k \in {-3, -2}}, {Nop, Movz(r5), Add(r4, r5, r3)}, {Movz(r5)}>>

\* LDXR, CMP, B.NE, STXR, CBNZ.
CompareAndSwap(wd) ==
  <<{Ldxr(wd, r2, r1)},
    {Cmp(sf, p[1], p[2]) : sf \in BOOLEAN, p \in {<<r2, r3>>, <<r3, r2>>, <<r2, R31>>, <<R31, r2>>, <<r2, r2>>, <<r2, r1>>}}
    \cup {Barrel("subs", wd = W, R31, r2, r3, "lsl", 1)},
    {BCond("ne", 3), BCond("eq", 3), BCond("ne", 2)},
    {Stxr(wd, d, m, r1) : d \in {r2, r3, r5}, m \in {r2, r3, r4, R31}}, {Back(TRUE, d, -4) : d \in {r2, r5}},
    {Movz(r5), Movz(r2)}, {Nop, Movz(r2)}>>

\* A load that takes the place of another, and words between.
Reopened ==
  <<{Ldxr(H, r2, r1)}, {Ldxr(wd, r4, r1) : wd \in {H, W}} \cup {Nop, Data},
    {Ternary("sub", TRUE, r5, r4, r3), Ternary("sub", TRUE, r5, r2, r3), Add(r5, r4, r2), Nop},
    {Stxr(H, d, r5, r1) : d \in {r2, r4}} \cup {Data, Add(r3, r3, r3)},
    {Back(TRUE, d, k) : d \in {r2, r4}, k \in {-3, -4}} \cup {Stxr(H, r2, r5, r1)},
    {Movz(r5), Back(TRUE, r2, -3)}, {Movz(r2)}, {Movz(r5)}>>

AllFamilies ==
  <<Fetch(1), Fetch(H), Fetch(W), Afterwards, Swap, CompareAndSwap(1), CompareAndSwap(H), CompareAndSwap(W), Reopened>>
=============================================================================
