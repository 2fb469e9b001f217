-------------------------- MODULE TargetWalkProofs --------------------------
(***************************************************************************)
(* Proofs about TargetWalk for every buffer, every set of registers and    *)
(* words, and every value of the three bounds.                             *)
(***************************************************************************)
EXTENDS TargetWalk, SequenceTheorems, TLAPS

USE DEF Programs, Verdicts

-----------------------------------------------------------------------------
(* What a grade lets the walk conclude about the processor.                *)

\* A word that ends a path kills the resource unseen.
LEMMA ProvenKills ==
  ASSUME NEW w \in Words, watch \in Resources,
         ~Follows(w), Grade(w) \in {"OVERWRITE", "TERM_SAFE"}
  PROVE  Kills(w, watch) /\ ~Observes(w, watch)
<1>1. CASE watch = NZCV
  BY <1>1, WordsAssumption
     DEF Follows, Grade, Kills, Observes, ClassifyLiveness, ReadsNzcv, SetsNzcv
<1>2. CASE watch # NZCV
  <2>1. Grade(w) = ClassifyWordRegLiveness(w, watch)
    BY <1>2 DEF Grade
  <2>2. w.op \notin TransferOps /\ watch \notin w.reads /\ watch \in w.writes
    BY <2>1 DEF ClassifyWordRegLiveness
  <2>. QED
    BY <2>2 DEF Kills, Observes, TransferOps
<1>. QED
  BY <1>1, <1>2

\* A word the walk steps over leaves the resource alone and falls through.
LEMMA UnknownFallsThrough ==
  ASSUME NEW w \in Words, NEW o, watch \in Resources,
         ~Follows(w), Grade(w) = "UNKNOWN"
  PROVE  ~Observes(w, watch) /\ Successors(w, o) = {o + 1}
<1>1. CASE watch = NZCV
  <2>1. w.op \notin {"b", "cbz", "br", "bl", "ret"} /\ NZCV \notin w.reads
    BY <1>1 DEF Follows, Grade, ClassifyLiveness, ReadsNzcv, SetsNzcv
  <2>2. w.op # "bcond"
    BY <2>1, WordsAssumption
  <2>. QED
    BY <1>1, <2>1, <2>2 DEF Observes, Successors, CondBranchOps
<1>2. CASE watch # NZCV
  <2>1. Grade(w) = ClassifyWordRegLiveness(w, watch)
    BY <1>2 DEF Grade
  <2>2. w.op \notin TransferOps /\ watch \notin w.reads
    BY <2>1 DEF ClassifyWordRegLiveness
  <2>. QED
    BY <2>2 DEF Observes, Successors, TransferOps, CondBranchOps
<1>. QED
  BY <1>1, <1>2

\* A branch the walk follows leaves the resource alone.
LEMMA FollowedLeavesAlone ==
  ASSUME NEW w \in Words, NEW o, watch \in Resources, Follows(w)
  PROVE  /\ ~Observes(w, watch)
         /\ ~IsConditional(w) => Successors(w, o) = {w.to}
         /\ IsConditional(w) => Successors(w, o) = {o + 1, w.to}
<1>1. w.op \in {"b", "bcond", "cbz"}
  BY DEF Follows, IsDirectBranch, CondBranchOps
<1>2. watch \notin w.reads
  <2>1. CASE watch = NZCV
    BY <2>1, WordsAssumption DEF Follows
  <2>2. CASE watch # NZCV
    <3>1. watch \in Regs
      BY <2>2 DEF Resources
    <3>2. CASE w.op = "cbz"
      BY <2>2, <3>2 DEF Follows, BranchReadsReg
    <3>3. CASE w.op = "bcond"
      BY <3>3, <3>1, <2>2, WordsAssumption
    <3>4. CASE w.op = "b"
      BY <3>4, WordsAssumption
    <3>. QED
      BY <1>1, <3>2, <3>3, <3>4
  <2>. QED
    BY <2>1, <2>2
<1>3. ~Observes(w, watch)
  BY <1>1, <1>2 DEF Observes
<1>4. ~IsConditional(w) => Successors(w, o) = {w.to}
  BY <1>1 DEF IsConditional, Successors, CondBranchOps
<1>5. IsConditional(w) => Successors(w, o) = {o + 1, w.to}
  BY <1>1 DEF IsConditional, Successors, CondBranchOps
<1>. QED
  BY <1>3, <1>4, <1>5

-----------------------------------------------------------------------------
(* Types and array bounds.                                                 *)

\* The variables keep their types and neither fixed-size array overflows.
THEOREM TypeCorrect == Spec => [](TypeOK /\ ArraysInBounds)
<1>1. Window \in Nat /\ MaxPaths \in Nat /\ MaxPaths >= 1 /\ Budget \in Nat
  BY BoundsAssumption, WordsAssumption
<1>. USE <1>1
<1>2. Init => TypeOK /\ ArraysInBounds
  <2>. SUFFICES ASSUME Init PROVE TypeOK /\ ArraysInBounds
    OBVIOUS
  <2>1. target \in Int /\ pathAt = <<target>> /\ seen = <<>>
    BY BoundsAssumption DEF Init
  <2>2. pathAt \in Seq(Int) /\ Len(pathAt) = 1 /\ seen \in Seq(Slots) /\ Len(seen) = 0
    BY <2>1
  <2>3. TypeOK
    BY <2>1, <2>2 DEF Init, TypeOK
  <2>4. ArraysInBounds
    BY <2>2 DEF ArraysInBounds
  <2>. QED
    BY <2>3, <2>4
<1>3. TypeOK /\ ArraysInBounds /\ [Next]_vars => (TypeOK /\ ArraysInBounds)'
  <2>. SUFFICES ASSUME TypeOK, ArraysInBounds, [Next]_vars
                PROVE  (TypeOK /\ ArraysInBounds)'
    OBVIOUS
  <2>. USE DEF TypeOK, ArraysInBounds, Slots
  <2>1. CASE PopEdge
    BY <2>1 DEF PopEdge, Front, Last
  <2>2. CASE Conclude
    BY <2>2 DEF Conclude
  <2>3. CASE LeaveBuffer
    BY <2>3 DEF LeaveBuffer, Refuse
  <2>4. CASE Rejoin
    BY <2>4 DEF Rejoin
  <2>5. CASE Exhaust
    BY <2>5 DEF Exhaust, Refuse
  <2>6. ASSUME Examine
        PROVE  /\ prog' \in Programs /\ watch' \in Resources /\ target' \in Int
               /\ seen' \in Seq(Slots) /\ Len(seen') <= Budget
               /\ at \in Slots /\ Op.to \in Int
               /\ at + 1 \in Int /\ window - 1 \in 0 .. Window
    <3>1. at \in Slots /\ window > 0 /\ Len(seen) < Budget
      BY <2>6 DEF Examine, Fresh, InBuffer, CanExtend
    <3>2. Op.to \in Int
      <4>1. prog[at] \in Words
        BY <3>1
      <4>. QED
        BY <4>1, WordsAssumption DEF Op
    <3>3. at + 1 \in Int /\ window - 1 \in 0 .. Window
      BY <3>1
    <3>4. /\ seen' = Append(seen, at)
          /\ prog' = prog /\ watch' = watch /\ target' = target
      BY <2>6 DEF Examine
    <3>5. seen' \in Seq(Slots) /\ Len(seen') = Len(seen) + 1
      BY <3>1, <3>4, AppendProperties
    <3>6. Len(seen') <= Budget
      BY <3>1, <3>5
    <3>. QED
      BY <3>1, <3>2, <3>4, <3>5, <3>6, <3>3
  <2>7. CASE FollowJump
    BY <2>6, <2>7 DEF FollowJump
  <2>8. CASE ForkEdge
    <3>1. Examine
      BY <2>8 DEF ForkEdge
    <3>2. Len(pathAt) < MaxPaths /\ pathAt' = Append(pathAt, Op.to)
      BY <2>8 DEF ForkEdge
    <3>3. pathAt' \in Seq(Int) /\ Len(pathAt') = Len(pathAt) + 1
      BY <2>6, <3>1, <3>2, AppendProperties
    <3>4. at' = at + 1 /\ window' = Window /\ arrived' = FALSE /\ phase' = phase
      BY <2>8 DEF ForkEdge
    <3>5. /\ prog' \in Programs /\ watch' \in Resources /\ target' \in Int
          /\ seen' \in Seq(Slots) /\ Len(seen') <= Budget /\ at + 1 \in Int
      BY ONLY <2>6, <3>1
    <3>6. TypeOK'
      <4>1. at' \in Int
        BY <3>4, <3>5
      <4>2. window' \in 0 .. Window
        BY <3>4
      <4>3. arrived' \in BOOLEAN /\ phase' \in {"pop", "walk"} \cup Verdicts
        BY <3>4
      <4>. QED
        BY <3>3, <3>5, <4>1, <4>2, <4>3
    <3>7. ArraysInBounds'
      BY <3>2, <3>3, <3>5
    <3>. QED
      BY <3>6, <3>7
  <2>9. CASE ForkOverflow
    BY <2>6, <2>9 DEF ForkOverflow, Refuse
  <2>10. CASE PathProven
    BY <2>6, <2>10 DEF PathProven
  <2>11. CASE PathRefused
    BY <2>6, <2>11 DEF PathRefused, Refuse
  <2>12. CASE WalkOn
    BY <2>6, <2>12 DEF WalkOn
  <2>13. CASE UNCHANGED vars
    BY <2>13 DEF vars
  <2>. QED
    BY <2>1, <2>2, <2>3, <2>4, <2>5, <2>7, <2>8, <2>9, <2>10, <2>11, <2>12, <2>13
       DEF Next, NzcvDeadAtTarget, RegDeadAtTarget, LoopBody, Returned
<1>. QED
  BY <1>2, <1>3, PTL DEF Spec

-----------------------------------------------------------------------------
(* Soundness of a proof.                                                   *)

\* Appending to a list of slots adds one element to its set.
LEMMA AppendElements ==
  ASSUME NEW S, NEW s \in Seq(S), NEW e \in S
  PROVE  ToSet(Append(s, e)) = ToSet(s) \cup {e}
<1>. DEFINE t == Append(s, e)
<1>1. /\ t \in Seq(S) /\ Len(t) = Len(s) + 1
      /\ \A i \in 1 .. Len(s) : t[i] = s[i]
      /\ t[Len(s) + 1] = e
  BY AppendProperties
<1>2. DOMAIN t = 1 .. Len(s) + 1 /\ DOMAIN s = 1 .. Len(s) /\ Len(s) \in Nat
  BY <1>1
<1>. HIDE DEF t
<1>3. ToSet(t) \subseteq ToSet(s) \cup {e}
  <2>. SUFFICES ASSUME NEW i \in 1 .. Len(s) + 1
                PROVE  t[i] \in ToSet(s) \cup {e}
    BY <1>2 DEF ToSet
  <2>1. CASE i = Len(s) + 1
    BY <2>1, <1>1
  <2>2. CASE i # Len(s) + 1
    <3>1. i \in 1 .. Len(s)
      BY <2>2, <1>2
    <3>. QED
      BY <3>1, <1>1, <1>2 DEF ToSet
  <2>. QED
    BY <2>1, <2>2
<1>4. ToSet(s) \subseteq ToSet(t)
  <2>. SUFFICES ASSUME NEW i \in 1 .. Len(s)
                PROVE  s[i] \in ToSet(t)
    BY <1>2 DEF ToSet
  <2>1. i \in DOMAIN t /\ t[i] = s[i]
    BY <1>1, <1>2
  <2>. QED
    BY <2>1 DEF ToSet
<1>5. e \in ToSet(t)
  <2>1. Len(s) + 1 \in DOMAIN t
    BY <1>2
  <2>. QED
    BY <2>1, <1>1 DEF ToSet
<1>. QED
  BY <1>3, <1>4, <1>5 DEF t

\* Popping the last element of a stack leaves the others.
LEMMA PopElements ==
  ASSUME NEW S, NEW s \in Seq(S), s # <<>>
  PROVE  ToSet(s) = ToSet(Front(s)) \cup {Last(s)}
<1>1. Len(s) \in Nat /\ Len(s) >= 1
  BY EmptySeq
<1>2. Len(s) \in Nat /\ Len(s) >= 1 /\ DOMAIN s = 1 .. Len(s)
  BY <1>1
<1>3. \A i \in 1 .. Len(s) - 1 : s[i] \in S
  BY <1>2
<1>. DEFINE f == Front(s)
<1>4. /\ Len(f) = Len(s) - 1
      /\ DOMAIN f = 1 .. Len(s) - 1
      /\ \A i \in 1 .. Len(s) - 1 : f[i] = s[i]
  <2>1. /\ f \in Seq(S)
        /\ Len(f) = IF 1 <= Len(s) - 1 THEN Len(s) - 1 - 1 + 1 ELSE 0
        /\ \A i \in 1 .. Len(s) - 1 - 1 + 1 : f[i] = s[1 + i - 1]
    <3>1. 1 \in Int /\ Len(s) - 1 \in Int
      BY <1>2
    <3>2. /\ SubSeq(s, 1, Len(s) - 1) \in Seq(S)
          /\ Len(SubSeq(s, 1, Len(s) - 1)) = IF 1 <= Len(s) - 1 THEN Len(s) - 1 - 1 + 1 ELSE 0
          /\ \A i \in 1 .. Len(s) - 1 - 1 + 1 : SubSeq(s, 1, Len(s) - 1)[i] = s[1 + i - 1]
      BY <3>1, <1>3, SubSeqProperties
    <3>. QED
      BY <3>2 DEF Front
  <2>. HIDE DEF f
  <2>2. Len(f) = Len(s) - 1
    <3>1. \A n \in Nat : n >= 1 => (IF 1 <= n - 1 THEN n - 1 - 1 + 1 ELSE 0) = n - 1
      OBVIOUS
    <3>. QED
      BY <2>1, <1>1, <3>1, Zenon
  <2>3. DOMAIN f = 1 .. Len(f)
    BY <2>1
  <2>4. ASSUME NEW i \in 1 .. Len(s) - 1
        PROVE  f[i] = s[i]
    <3>1. Len(s) - 1 - 1 + 1 = Len(s) - 1 /\ 1 + i - 1 = i
      BY <1>2
    <3>. QED
      BY <2>1, <3>1
  <2>. QED
    BY <2>2, <2>3, <2>4
<1>. HIDE DEF f
<1>5. ToSet(s) \subseteq ToSet(f) \cup {Last(s)}
  <2>. SUFFICES ASSUME NEW i \in 1 .. Len(s)
                PROVE  s[i] \in ToSet(f) \cup {s[Len(s)]}
    BY <1>2 DEF ToSet, Last
  <2>1. CASE i = Len(s)
    BY <2>1
  <2>2. CASE i # Len(s)
    <3>1. i \in 1 .. Len(s) - 1
      BY <2>2, <1>1
    <3>. QED
      BY <3>1, <1>4 DEF ToSet
  <2>. QED
    BY <2>1, <2>2
<1>6. ToSet(f) \subseteq ToSet(s)
  <2>. SUFFICES ASSUME NEW i \in 1 .. Len(s) - 1
                PROVE  s[i] \in ToSet(s)
    <3>1. \A x \in ToSet(f) : \E i \in 1 .. Len(s) - 1 : x = s[i]
      BY <1>4 DEF ToSet
    <3>. QED
      BY <3>1
  <2>1. i \in DOMAIN s
    BY <1>2
  <2>. QED
    BY <2>1 DEF ToSet
<1>7. Last(s) \in ToSet(s)
  BY <1>2 DEF ToSet, Last
<1>. QED
  BY <1>5, <1>6, <1>7 DEF f

\* The elements of a sequence over S are in S.
LEMMA ElementsInSet ==
  ASSUME NEW S, NEW s \in Seq(S)
  PROVE  ToSet(s) \subseteq S
<1>1. \A i \in DOMAIN s : s[i] \in S
  OBVIOUS
<1>. QED
  BY <1>1 DEF ToSet

\* What was covered stays covered while nothing known is forgotten, so a step
\* has only to account for the slot it examines.
LEMMA CoverageGrows ==
  ASSUME WalkInv, phase # "unproven", UNCHANGED <<prog, watch, target>>,
         Known \subseteq Known', phase' = "dead" => pathAt' = <<>>,
         \A o \in ToSet(seen') : o \in ToSet(seen) \/ Covered(o)'
  PROVE  WalkInv'
<1>1. target \in Known /\ \A o \in ToSet(seen) : Covered(o)
  BY DEF WalkInv
<1>2. target' \in Known'
  BY <1>1
<1>3. ASSUME NEW o \in ToSet(seen)
      PROVE  Covered(o)'
  <2>1. Covered(o)
    BY <1>1, <1>3
  <2>2. IsPool(prog, o)' = IsPool(prog, o)
    BY DEF IsPool
  <2>3. Kills(prog[o], watch) \/ Successors(prog[o], o) \subseteq Known
    BY <2>1 DEF Covered
  <2>4. Kills(prog'[o], watch') \/ Successors(prog'[o], o) \subseteq Known'
    BY <2>3
  <2>. QED
    BY <2>1, <2>2, <2>4 DEF Covered
<1>4. \A o \in ToSet(seen') : Covered(o)'
  BY <1>3
<1>. QED
  BY <1>2, <1>4 DEF WalkInv

\* What examining a word gives, whatever the word turns out to be.
LEMMA ExamineFacts ==
  ASSUME TypeOK, Examine
  PROVE  /\ at \in Slots /\ Op = prog[at] /\ Op \in Words /\ watch \in Resources
         /\ phase = "walk" /\ ~IsPool(prog, at)
         /\ prog' = prog /\ watch' = watch /\ target' = target
         /\ ToSet(seen') = ToSet(seen) \cup {at}
         /\ Op.to \in Int
<1>1. at \in Slots /\ phase = "walk" /\ ~IsPool(prog, at)
  BY DEF Examine, Fresh, InBuffer, CanExtend
<1>2. Op = prog[at] /\ Op \in Words /\ watch \in Resources
  BY <1>1 DEF TypeOK, Op
<1>3. seen \in Seq(Slots) /\ seen' = Append(seen, at)
  BY DEF TypeOK, Examine
<1>4. ToSet(seen') = ToSet(seen) \cup {at}
  <2>1. ToSet(Append(seen, at)) = ToSet(seen) \cup {at}
    BY <1>1, <1>3, AppendElements
  <2>. QED
    BY <1>3, <2>1
<1>5. prog' = prog /\ watch' = watch /\ target' = target
  BY DEF Examine
<1>6. Op.to \in Int
  BY <1>2, WordsAssumption
<1>. QED
  BY <1>1, <1>2, <1>4, <1>5, <1>6

\* Every step keeps the frontier a frontier.
LEMMA WalkStep ==
  ASSUME TypeOK, WalkInv, [Next]_vars
  PROVE  WalkInv'
<1>1. CASE PopEdge
  <2>1. /\ phase = "pop" /\ phase' = "walk" /\ at' = Last(pathAt)
        /\ pathAt' = Front(pathAt) /\ seen' = seen
        /\ UNCHANGED <<prog, watch, target>>
    BY <1>1 DEF PopEdge
  <2>2. ToSet(pathAt) = ToSet(pathAt') \cup {at'}
    BY <1>1, <2>1, PopElements DEF PopEdge, TypeOK
  <2>3. Known \subseteq Known'
    BY <2>1, <2>2 DEF Known, Frontier
  <2>. QED
    BY <2>1, <2>3, CoverageGrows
<1>2. CASE Conclude
  <2>1. /\ phase = "pop" /\ phase' = "dead" /\ pathAt = <<>>
        /\ UNCHANGED <<prog, watch, target, pathAt, at, seen>>
    BY <1>2 DEF Conclude
  <2>2. Known \subseteq Known'
    BY <2>1 DEF Known, Frontier
  <2>. QED
    BY <2>1, <2>2, CoverageGrows
<1>3. CASE LeaveBuffer \/ Exhaust \/ ForkOverflow \/ PathRefused
  BY <1>3 DEF LeaveBuffer, Exhaust, ForkOverflow, PathRefused, Refuse, WalkInv
<1>4. CASE Rejoin
  <2>1. /\ phase = "walk" /\ phase' = "pop" /\ at \in ToSet(seen)
        /\ UNCHANGED <<prog, watch, target, pathAt, at, seen>>
    BY <1>4 DEF Rejoin, Examined
  <2>2. Known \subseteq Known'
    BY <2>1 DEF Known, Frontier
  <2>. QED
    BY <2>1, <2>2, CoverageGrows
<1>5. ASSUME Examine, phase' \in {"pop", "walk"},
             ToSet(pathAt) \subseteq ToSet(pathAt'),
             ~Observes(Op, watch),
             Kills(Op, watch) \/ Successors(Op, at) \subseteq Known'
      PROVE  WalkInv'
  <2>1. /\ phase = "walk" /\ ToSet(seen') = ToSet(seen) \cup {at}
        /\ prog' = prog /\ watch' = watch /\ target' = target
        /\ Op = prog[at] /\ ~IsPool(prog, at)
    BY <1>5, ExamineFacts
  <2>2. Known \subseteq Known'
    BY <1>5, <2>1 DEF Known, Frontier
  <2>3. ASSUME NEW o, o = at
        PROVE  Covered(o)'
    <3>1. ~Observes(prog'[o], watch')
      BY <1>5, <2>1, <2>3
    <3>2. Kills(prog'[o], watch') \/ Successors(prog'[o], o) \subseteq Known'
      BY <1>5, <2>1, <2>3
    <3>3. ~IsPool(prog', o)
      BY <2>1, <2>3
    <3>. QED
      BY <3>1, <3>2, <3>3 DEF Covered
  <2>4. phase # "unproven" /\ ~(phase' = "dead")
    BY <1>5, <2>1
  <2>5. \A o \in ToSet(seen') : o \in ToSet(seen) \/ Covered(o)'
    BY <2>1, <2>3
  <2>. QED
    BY <2>1, <2>2, <2>4, <2>5, CoverageGrows
<1>6. CASE FollowJump
  <2>1. /\ Examine /\ Follows(Op) /\ ~IsConditional(Op)
        /\ at' = Op.to /\ phase' = phase /\ pathAt' = pathAt
    BY <1>6 DEF FollowJump
  <2>2. phase = "walk" /\ Op \in Words /\ watch \in Resources
    BY <2>1, ExamineFacts
  <2>3. ~Observes(Op, watch) /\ Successors(Op, at) = {at'}
    BY <2>1, <2>2, FollowedLeavesAlone
  <2>4. at' \in Known'
    BY <2>1, <2>2 DEF Known, Frontier
  <2>. QED
    BY <1>5, <2>1, <2>2, <2>3, <2>4
<1>7. CASE ForkEdge
  <2>1. /\ Examine /\ Follows(Op) /\ IsConditional(Op)
        /\ pathAt' = Append(pathAt, Op.to) /\ at' = at + 1 /\ phase' = phase
    BY <1>7 DEF ForkEdge
  <2>2. phase = "walk" /\ Op \in Words /\ watch \in Resources /\ Op.to \in Int
    BY <2>1, ExamineFacts
  <2>3. ~Observes(Op, watch) /\ Successors(Op, at) = {at', Op.to}
    BY <2>1, <2>2, FollowedLeavesAlone
  <2>4. ToSet(pathAt') = ToSet(pathAt) \cup {Op.to}
    <3>1. pathAt \in Seq(Int)
      BY DEF TypeOK
    <3>2. ToSet(Append(pathAt, Op.to)) = ToSet(pathAt) \cup {Op.to}
      BY <2>2, <3>1, AppendElements
    <3>. QED
      BY <2>1, <3>2
  <2>5. {at', Op.to} \subseteq Known'
    BY <2>1, <2>2, <2>4 DEF Known, Frontier
  <2>. QED
    BY <1>5, <2>1, <2>2, <2>3, <2>4, <2>5
<1>8. CASE PathProven
  <2>1. /\ Examine /\ ~Follows(Op) /\ Grade(Op) \in {"OVERWRITE", "TERM_SAFE"}
        /\ phase' = "pop" /\ pathAt' = pathAt
    BY <1>8 DEF PathProven
  <2>2. Op \in Words /\ watch \in Resources
    BY <2>1, ExamineFacts
  <2>3. Kills(Op, watch) /\ ~Observes(Op, watch)
    BY <2>1, <2>2, ProvenKills
  <2>. QED
    BY <1>5, <2>1, <2>3
<1>9. CASE WalkOn
  <2>1. /\ Examine /\ ~Follows(Op) /\ Grade(Op) = "UNKNOWN"
        /\ at' = at + 1 /\ phase' = phase /\ pathAt' = pathAt
    BY <1>9 DEF WalkOn
  <2>2. phase = "walk" /\ Op \in Words /\ watch \in Resources
    BY <2>1, ExamineFacts
  <2>3. ~Observes(Op, watch) /\ Successors(Op, at) = {at'}
    BY <2>1, <2>2, UnknownFallsThrough
  <2>4. at' \in Known'
    BY <2>1, <2>2 DEF Known, Frontier
  <2>. QED
    BY <1>5, <2>1, <2>2, <2>3, <2>4
<1>10. CASE UNCHANGED vars
  <2>1. UNCHANGED <<prog, watch, target, phase, pathAt, at, seen>>
    BY <1>10 DEF vars
  <2>2. CASE phase = "unproven"
    BY <2>1, <2>2 DEF WalkInv
  <2>3. CASE phase # "unproven"
    <3>1. Known \subseteq Known'
      BY <2>1 DEF Known, Frontier
    <3>2. phase' = "dead" => pathAt' = <<>>
      BY <2>1 DEF WalkInv
    <3>. QED
      BY <2>1, <2>3, <3>1, <3>2, CoverageGrows
  <2>. QED
    BY <2>2, <2>3
<1>. QED
  BY <1>1, <1>2, <1>3, <1>4, <1>6, <1>7, <1>8, <1>9, <1>10
     DEF Next, NzcvDeadAtTarget, RegDeadAtTarget, LoopBody, Returned

\* A verdict of "dead" is a proof, for every buffer and every target.
THEOREM WalkSound == Spec => []DeadIsDead
<1>1. Init => WalkInv
  <2>. SUFFICES ASSUME Init PROVE WalkInv
    OBVIOUS
  <2>1. pathAt = <<target>> /\ seen = <<>> /\ phase = "pop"
    BY DEF Init
  <2>2. ToSet(seen) = {}
    BY <2>1 DEF ToSet
  <2>3. target \in ToSet(pathAt)
    <3>1. 1 \in DOMAIN pathAt /\ pathAt[1] = target
      BY <2>1
    <3>. QED
      BY <3>1 DEF ToSet
  <2>. QED
    BY <2>1, <2>2, <2>3 DEF WalkInv, Known, Frontier
<1>2. TypeOK /\ WalkInv /\ [Next]_vars => WalkInv'
  BY WalkStep
<1>3. TypeOK /\ WalkInv => DeadIsDead
  <2>. SUFFICES ASSUME TypeOK, WalkInv, phase = "dead"
                PROVE  DeadFrom(prog, target, watch)
    BY DEF DeadIsDead
  <2>1. pathAt = <<>> /\ target \in Known /\ \A o \in ToSet(seen) : Covered(o)
    BY DEF WalkInv
  <2>2. Known = ToSet(seen)
    <3>1. ToSet(pathAt) = {}
      BY <2>1 DEF ToSet
    <3>. QED
      BY <3>1 DEF Known, Frontier
  <2>3. ToSet(seen) \subseteq Slots
    <3>1. seen \in Seq(Slots)
      BY DEF TypeOK
    <3>. QED
      BY <3>1, ElementsInSet
  <2>. QED
    BY <2>1, <2>2, <2>3 DEF DeadFrom, Covered
<1>. QED
  BY <1>1, <1>2, <1>3, TypeCorrect, PTL DEF Spec

-----------------------------------------------------------------------------
(* A refusal has a reason.                                                 *)

\* S is a set of slots by which GradedDead holds.
GradedOn(S) ==
  /\ target \in S
  /\ \A o \in S :
       /\ ~IsPool(prog, o)
       /\ \/ Follows(prog[o]) /\ Successors(prog[o], o) \subseteq S
          \/ /\ ~Follows(prog[o])
             /\ \/ Grade(prog[o]) \in {"OVERWRITE", "TERM_SAFE"}
                \/ Grade(prog[o]) = "UNKNOWN" /\ o + 1 \in S

\* Until the verdict the walk has nothing before it but slots of every such
\* set: the first slot outside them all is the reason.
ReasonInv ==
  /\ phase \in {"pop", "walk"} => \A S \in SUBSET Slots : GradedOn(S) => Frontier \subseteq S
  /\ RefusalHasReason

LEMMA SameGrades ==
  ASSUME UNCHANGED <<prog, watch, target>>
  PROVE  /\ \A S : GradedOn(S)' <=> GradedOn(S)
         /\ GradedDead' <=> GradedDead
<1>1. \A w : (Follows(w)' <=> Follows(w)) /\ Grade(w)' = Grade(w)
  BY DEF Follows, Grade
<1>2. \A o : IsPool(prog, o)' <=> IsPool(prog, o)
  BY DEF IsPool
<1>3. \A S : GradedOn(S)' <=> GradedOn(S)
  BY <1>1, <1>2 DEF GradedOn
<1>4. GradedDead <=> \E S \in SUBSET Slots : GradedOn(S)
  BY DEF GradedDead, GradedOn
<1>5. GradedDead' <=> \E S \in SUBSET Slots : GradedOn(S)'
  BY DEF GradedDead, GradedOn
<1>. QED
  BY <1>3, <1>4, <1>5

\* The walk goes on: what is before it now is in every graded set.
LEMMA FrontierKept ==
  ASSUME ReasonInv, UNCHANGED <<prog, watch, target>>, phase \in {"pop", "walk"},
         phase' \in {"pop", "walk", "dead"},
         \A S \in SUBSET Slots : GradedOn(S) /\ Frontier \subseteq S => Frontier' \subseteq S
  PROVE  ReasonInv'
<1>1. \A S \in SUBSET Slots : GradedOn(S)' => Frontier' \subseteq S
  BY SameGrades DEF ReasonInv
<1>. QED
  BY <1>1 DEF ReasonInv, RefusalHasReason

\* The walk refuses: a bound is reached or no set is graded dead.
LEMMA RefusalKept ==
  ASSUME TypeOK, ReasonInv, phase = "walk", Refuse, Bounded' \/ ~GradedDead
  PROVE  ReasonInv'
<1>1. UNCHANGED <<prog, watch, target>> /\ phase' = "unproven"
  BY DEF Refuse
<1>2. GradedDead' <=> GradedDead
  BY <1>1, SameGrades
<1>. QED
  BY <1>1, <1>2 DEF ReasonInv, RefusalHasReason

LEMMA ReasonStep ==
  ASSUME TypeOK, ArraysInBounds, ReasonInv, [Next]_vars
  PROVE  ReasonInv'
<1>1. GradedDead <=> \E S \in SUBSET Slots : GradedOn(S)
  BY DEF GradedDead, GradedOn
<1>2. phase = "walk" => at \in Frontier
  BY DEF Frontier
<1>3. ASSUME phase = "walk", \A S \in SUBSET Slots : GradedOn(S) => at \notin S
      PROVE  ~GradedDead
  BY <1>1, <1>2, <1>3 DEF ReasonInv
<1>4. CASE PopEdge
  <2>1. /\ phase = "pop" /\ phase' = "walk" /\ at' = Last(pathAt)
        /\ pathAt' = Front(pathAt) /\ UNCHANGED <<prog, watch, target>>
    BY <1>4 DEF PopEdge
  <2>2. ToSet(pathAt) = ToSet(pathAt') \cup {at'}
    BY <1>4, <2>1, PopElements DEF PopEdge, TypeOK
  <2>3. Frontier' \subseteq Frontier
    BY <2>1, <2>2 DEF Frontier
  <2>. QED
    BY <2>1, <2>3, FrontierKept
<1>5. CASE Conclude \/ Rejoin
  <2>1. /\ phase \in {"pop", "walk"} /\ phase' \in {"pop", "dead"}
        /\ UNCHANGED <<prog, watch, target, pathAt, at>>
    BY <1>5 DEF Conclude, Rejoin
  <2>2. Frontier' \subseteq Frontier
    BY <2>1 DEF Frontier
  <2>. QED
    BY <2>1, <2>2, FrontierKept
<1>6. CASE LeaveBuffer
  <2>1. phase = "walk" /\ at \notin Slots /\ Refuse
    BY <1>6 DEF LeaveBuffer, InBuffer
  <2>. QED
    BY <1>3, <2>1, RefusalKept
<1>7. CASE Exhaust
  <2>1. phase = "walk" /\ Refuse /\ seen' = seen
    BY <1>7 DEF Exhaust, Fresh
  <2>2. CASE IsPool(prog, at)
    <3>1. \A S : GradedOn(S) => at \notin S
      BY <2>2 DEF GradedOn
    <3>. QED
      BY <1>3, <2>1, <3>1, RefusalKept
  <2>3. CASE ~IsPool(prog, at)
    <3>1. ~(window > 0) \/ ~(Len(seen) < Budget)
      BY <1>7, <2>3 DEF Exhaust, CanExtend
    <3>2. Len(seen) \in Nat /\ Len(seen) <= Budget /\ window \in Nat /\ Budget \in Nat
      BY BoundsAssumption DEF TypeOK, ArraysInBounds
    <3>3. window = 0 \/ Len(seen) = Budget
      BY <3>1, <3>2
    <3>4. Bounded'
      BY <2>1, <3>3 DEF Bounded, Refuse
    <3>. QED
      BY <2>1, <3>4, RefusalKept
  <2>. QED
    BY <2>2, <2>3
<1>8. CASE ForkOverflow
  <2>1. Examine /\ Refuse /\ Len(pathAt) = MaxPaths
    BY <1>8 DEF ForkOverflow
  <2>2. phase = "walk" /\ Bounded'
    BY <2>1 DEF Examine, Fresh, Bounded, Refuse
  <2>. QED
    BY <2>1, <2>2, RefusalKept
<1>9. CASE PathRefused
  <2>1. /\ Examine /\ Refuse /\ ~Follows(prog[at])
        /\ Grade(prog[at]) \in {"READ", "TERM_UNSAFE"}
    BY <1>9 DEF PathRefused, Op
  <2>2. \A S : GradedOn(S) => at \notin S
    BY <2>1 DEF GradedOn
  <2>3. phase = "walk"
    BY <2>1 DEF Examine, Fresh
  <2>. QED
    BY <1>3, <2>1, <2>2, <2>3, RefusalKept
<1>10. ASSUME Examine, phase' \in {"pop", "walk"},
              \A S \in SUBSET Slots : GradedOn(S) /\ Frontier \subseteq S => Frontier' \subseteq S
       PROVE  ReasonInv'
  <2>1. phase = "walk" /\ UNCHANGED <<prog, watch, target>>
    BY <1>10, ExamineFacts
  <2>. QED
    BY <1>10, <2>1, FrontierKept
<1>11. CASE FollowJump
  <2>1. /\ Examine /\ Follows(Op) /\ ~IsConditional(Op)
        /\ at' = Op.to /\ phase' = phase /\ pathAt' = pathAt
    BY <1>11 DEF FollowJump
  <2>2. phase = "walk" /\ Op = prog[at] /\ Op \in Words /\ watch \in Resources
    BY <2>1, ExamineFacts
  <2>3. Successors(Op, at) = {at'}
    BY <2>1, <2>2, FollowedLeavesAlone
  <2>4. \A S : GradedOn(S) /\ at \in S => at' \in S
    BY <2>1, <2>2, <2>3 DEF GradedOn
  <2>5. \A S : GradedOn(S) /\ Frontier \subseteq S => Frontier' \subseteq S
    BY <1>2, <2>1, <2>2, <2>4 DEF Frontier
  <2>. QED
    BY <1>10, <2>1, <2>2, <2>5
<1>12. CASE ForkEdge
  <2>1. /\ Examine /\ Follows(Op) /\ IsConditional(Op)
        /\ pathAt' = Append(pathAt, Op.to) /\ at' = at + 1 /\ phase' = phase
    BY <1>12 DEF ForkEdge
  <2>2. /\ phase = "walk" /\ Op = prog[at] /\ Op \in Words /\ watch \in Resources
        /\ Op.to \in Int
    BY <2>1, ExamineFacts
  <2>3. Successors(Op, at) = {at', Op.to}
    BY <2>1, <2>2, FollowedLeavesAlone
  <2>4. ToSet(pathAt') = ToSet(pathAt) \cup {Op.to}
    <3>1. pathAt \in Seq(Int)
      BY DEF TypeOK
    <3>2. ToSet(Append(pathAt, Op.to)) = ToSet(pathAt) \cup {Op.to}
      BY <2>2, <3>1, AppendElements
    <3>. QED
      BY <2>1, <3>2
  <2>5. \A S : GradedOn(S) /\ at \in S => {at', Op.to} \subseteq S
    BY <2>1, <2>2, <2>3 DEF GradedOn
  <2>6. \A S : GradedOn(S) /\ Frontier \subseteq S => Frontier' \subseteq S
    BY <1>2, <2>1, <2>2, <2>4, <2>5 DEF Frontier
  <2>. QED
    BY <1>10, <2>1, <2>2, <2>6
<1>13. CASE PathProven
  <2>1. Examine /\ phase' = "pop" /\ pathAt' = pathAt
    BY <1>13 DEF PathProven
  <2>2. Frontier' \subseteq Frontier
    BY <2>1 DEF Frontier
  <2>. QED
    BY <1>10, <2>1, <2>2
<1>14. CASE WalkOn
  <2>1. /\ Examine /\ ~Follows(Op) /\ Grade(Op) = "UNKNOWN"
        /\ at' = at + 1 /\ phase' = phase /\ pathAt' = pathAt
    BY <1>14 DEF WalkOn
  <2>2. phase = "walk" /\ Op = prog[at]
    BY <2>1, ExamineFacts
  <2>3. \A S : GradedOn(S) /\ at \in S => at' \in S
    BY <2>1, <2>2 DEF GradedOn
  <2>4. \A S : GradedOn(S) /\ Frontier \subseteq S => Frontier' \subseteq S
    BY <1>2, <2>1, <2>2, <2>3 DEF Frontier
  <2>. QED
    BY <1>10, <2>1, <2>2, <2>4
<1>15. CASE UNCHANGED vars
  <2>1. UNCHANGED <<prog, watch, target, phase, pathAt, at, window, seen>>
    BY <1>15 DEF vars
  <2>2. Frontier' = Frontier /\ (Bounded' <=> Bounded)
    BY <2>1 DEF Frontier, Bounded
  <2>. QED
    BY <2>1, <2>2, SameGrades DEF ReasonInv, RefusalHasReason
<1>. QED
  BY <1>4, <1>5, <1>6, <1>7, <1>8, <1>9, <1>11, <1>12, <1>13, <1>14, <1>15
     DEF Next, NzcvDeadAtTarget, RegDeadAtTarget, LoopBody, Returned

\* The walk loses no proof (armlint.c:6458, 6542): when it refuses, a bound
\* was reached, or some path from the target ends badly by the classifiers'
\* own grades -- for every buffer, target and bounds.
THEOREM RefusalsExplained == Spec => []RefusalHasReason
<1>1. Init => ReasonInv
  <2>. SUFFICES ASSUME Init PROVE ReasonInv
    OBVIOUS
  <2>1. pathAt = <<target>> /\ phase = "pop"
    BY DEF Init
  <2>2. ToSet(pathAt) \subseteq {target}
    BY <2>1 DEF ToSet
  <2>. QED
    BY <2>1, <2>2 DEF ReasonInv, RefusalHasReason, GradedOn, Frontier
<1>2. TypeOK /\ ArraysInBounds /\ ReasonInv /\ [Next]_vars => ReasonInv'
  BY ReasonStep
<1>3. ReasonInv => RefusalHasReason
  BY DEF ReasonInv
<1>. QED
  BY <1>1, <1>2, <1>3, TypeCorrect, PTL DEF Spec
=============================================================================
