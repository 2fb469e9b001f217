---------------------------- MODULE MCTargetWalk ----------------------------
(* Instances of TargetWalk for TLC.                                        *)
EXTENDS TargetWalk

W(op, reads, writes, to) == [op |-> op, reads |-> reads, writes |-> writes, to |-> to]
Plain(op)                == W(op, {}, {}, 0)
To(op, reads, targets)   == {W(op, reads, {}, t) : t \in targets}

OneReg == {"x1"}
Both   == OneReg \cup {NZCV}

\* One word of each grade, for either kind of proof: a bystander, a kill, a
\* reader, a call, an indirect jump, a word the register walk cannot decode;
\* and direct branches backwards, forwards, onto themselves and out of the
\* buffer, with every reader a branch can be.
WalkWords ==
  {Plain("alu"), W("alu", {}, Both, 0), W("alu", Both, Both, 0),
   Plain("bl"), Plain("br"), Plain("opaque")}
  \cup To("b", {}, {0, 2, N}) \cup To("cbz", {}, {0, 3})
  \cup To("cbz", OneReg, {2}) \cup To("bcond", {NZCV}, {1, 3})

\* Pools, well formed and not, and branches into and over them.
PoolWords ==
  {Plain("alu"), W("alu", {}, Both, 0), W("alu", Both, {}, 0),
   Plain("undef"), Plain("svc"), Plain("ret")}
  \cup To("pool", {}, {1, 2, 3, N + 1}) \cup To("cbz", {}, 0 .. N - 1)
AllWords == WalkWords \cup PoolWords
WalkInit == prog \in [Slots -> WalkWords] \cup [Slots -> PoolWords] /\ Init
WalkSpec == WalkInit /\ [][Next]_vars /\ WF_vars(Next)
=============================================================================
