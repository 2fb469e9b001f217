------------------------------ MODULE MCStream ------------------------------
(* Instances of Stream for TLC.                                            *)
EXTENDS Stream

W(op, reads, writes, to) == [op |-> op, reads |-> reads, writes |-> writes, to |-> to]
Plain(op)                == W(op, {}, {}, 0)
To(op, reads, targets)   == {W(op, reads, {}, t) : t \in targets}

OneReg == {"x1"}
TwoRegs == {"x1", "x2"}
NoRegs == {}

\* Proofs about the flags, with data and pools in the way.
FlagWords ==
  {Plain("alu"), W("cmp0", {}, {NZCV}, 0), W("alu", {NZCV}, {}, 0),
   W("cmp", {NZCV}, {NZCV}, 0), W("bl", {}, {}, 2), Plain("undef")}
  \cup To("bcond", {NZCV}, {1, 4, 5}) \cup To("cbz", {}, {3}) \cup To("pool", {}, {4})

\* Proofs about a register: every producer and consumer, kills and readers,
\* and branches that are followed or not.
RegWords ==
  {Plain("alu"), W("alu", OneReg, {}, 0), W("alu", {}, OneReg, 0),
   W("mov0", {}, OneReg, 0), W("str", OneReg, {}, 0),
   W("cset", {NZCV}, OneReg, 0), W("eor", OneReg, {}, 0), W("eor", OneReg, OneReg, 0),
   W("lsl", {}, OneReg, 0), W("lsl", OneReg, OneReg, 0),
   W("orr", OneReg, {}, 0), W("orr", OneReg, OneReg, 0), Plain("bl")}
  \cup To("cbz", OneReg, {2, 5, N}) \cup To("b", {}, {2, 5}) \cup To("bcond", {NZCV}, {4})

\* Producers and consumers whose windows can share words, kills and loops.
ComposeWords ==
  {W("cmp0", {}, {NZCV}, 0), W("mov0", {}, OneReg, 0), W("str", OneReg, {}, 0),
   W("cset", {NZCV}, OneReg, 0), W("eor", OneReg, {}, 0)}
  \cup To("bcond", {NZCV}, {3, 5}) \cup To("cbz", OneReg, {5}) \cup To("b", {}, {1})

\* CSETs of two registers with consumers that have a downgrade, so that both
\* slots that can hold one are open when a flush comes.
DowngradeWords ==
  {W("cset", {NZCV}, {"x1"}, 0), W("cset", {NZCV}, {"x2"}, 0), W("eor", {"x1"}, {}, 0),
   W("alu", {}, {"x1"}, 0), W("alu", {"x2"}, {}, 0), Plain("undef")}
  \cup To("cbz", {"x2"}, {5})

\* A shift, its consumer and a word that does not decode.
GapWords ==
  {W("lsl", {}, OneReg, 0), W("orr", OneReg, OneReg, 0), W("orr", OneReg, {}, 0),
   W("alu", {}, OneReg, 0), Plain("undef")}

\* A buffer that ends in one of the first words and k others, after
\* bystanders: the windows and proofs of each family fit in its slots.
Buffers(first, k, words) ==
  \E f \in first, rest \in [1 .. k -> words] :
    prog = [o \in Slots |-> CASE o < N - k - 1 -> Plain("alu")
                             [] o = N - k - 1 -> f
                             [] OTHER         -> rest[o - N + k + 1]]
DriverWords == FlagWords \cup RegWords \cup ComposeWords \cup DowngradeWords
DriverInit ==
  /\ \/ Buffers({w \in FlagWords : w.op \in {"cmp0", "cmp", "pool"}}, 4, FlagWords)
     \/ Buffers({w \in RegWords : w.op \in {"mov0", "cset", "lsl", "str"}}, 3, RegWords)
     \/ Buffers({w \in ComposeWords : w.op \in {"cmp0", "mov0", "cset"}}, 4, ComposeWords)
     \/ Buffers({w \in DowngradeWords : w.op = "cset"}, 5, DowngradeWords)
     \/ Buffers({w \in GapWords : w.op = "lsl"}, 5, GapWords)
  /\ Init
DriverSpec == DriverInit /\ [][Next]_vars

=============================================================================
