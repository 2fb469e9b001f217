---------------------------- MODULE StreamProofs ----------------------------
(***************************************************************************)
(* Proofs about Stream for every buffer, every set of registers and words, *)
(* and every window.  First that what the driver reports is proven; then   *)
(* that it reports each pair once, nothing proven across skipped data, no  *)
(* downgrade lost and no side entry, and that the findings may be applied  *)
(* together.                                                               *)
(***************************************************************************)
EXTENDS Stream, WellFoundedInduction, TLAPS

-----------------------------------------------------------------------------
(* Grades.                                                                 *)

LEMMA GradeKinds ==
  ASSUME NEW w, NEW r
  PROVE  /\ ClassifyLiveness(w) \in Liveness
         /\ ClassifyRegLiveness(w, r) \in Liveness \ {"TERM_SAFE"}
<1>1. ClassifyLiveness(w) \in Liveness
  BY DEF ClassifyLiveness, Liveness
<1>2. ClassifyRegLiveness(w, r) \in Liveness \ {"TERM_SAFE"}
  BY DEF ClassifyRegLiveness, Liveness
<1>. QED
  BY <1>1, <1>2

-----------------------------------------------------------------------------
(* Types.                                                                  *)

\* What an advancer returns.
Result == [slot : SlotType, emit : SUBSET Findings]

LEMMA ActiveInUse ==
  ASSUME NEW p \in SlotType, p.on
  PROVE  p \in InUse
<1>1. ~Idle.on
  BY DEF Idle
<1>2. p # Idle
  BY <1>1
<1>. QED
  BY <1>2 DEF SlotType

\* The four things an advancer may do with a slot in use.
LEMMA SlotResults ==
  ASSUME NEW p \in SlotType
  PROVE  Stay(p) \in Result /\ (p.on => {Prove(p), Fail(p), Tick(p)} \subseteq Result)
<1>1. Idle \in SlotType
  BY DEF SlotType
<1>2. Stay(p) \in Result
  BY DEF Stay, Result
<1>3. ASSUME p.on
      PROVE  Prove(p) \in Result /\ Fail(p) \in Result /\ Tick(p) \in Result
  <2>1. p \in InUse
    BY <1>3, ActiveInUse
  <2>2. p.finding \in Findings /\ p.fallback \subseteq Findings
    BY <2>1 DEF InUse
  <2>3. Prove(p) \in Result
    BY <1>1, <2>2 DEF Prove, Result
  <2>4. Fail(p) \in Result
    BY <1>1, <2>2 DEF Fail, Result
  <2>5. CASE p.window <= 1
    BY <2>3, <2>4, <2>5 DEF Tick
  <2>6. CASE ~(p.window <= 1)
    <3>1. p.window - 1 \in 1 .. Window
      BY <2>1, <2>6, WordsAssumption DEF InUse
    <3>2. [p EXCEPT !.window = @ - 1] \in InUse
      BY <2>1, <3>1 DEF InUse
    <3>3. Tick(p) = Stay([p EXCEPT !.window = @ - 1])
      BY <2>6 DEF Tick
    <3>4. Tick(p) \in Result
      BY <3>2, <3>3 DEF Stay, Result, SlotType
    <3>. QED
      BY <2>3, <2>4, <3>4
  <2>. QED
    BY <2>5, <2>6
<1>. QED
  BY <1>2, <1>3

LEMMA AdvancerResults ==
  ASSUME TypeOK, NEW w, NEW dead \in BOOLEAN
  PROVE  /\ AdvancePending(w) \in Result
         /\ AdvancePendingDc(w) \in Result
         /\ AdvancePendingMz(w, dead) \in Result
         /\ AdvancePendingTb(w) \in Result
<1>1. pending \in SlotType /\ dc \in SlotType /\ mz \in SlotType /\ tb \in SlotType
  BY DEF TypeOK
<1>2. AdvancePending(w) \in Result
  BY <1>1, SlotResults, GradeKinds DEF AdvancePending, Liveness
<1>3. AdvancePendingDc(w) \in Result
  BY <1>1, SlotResults, GradeKinds DEF AdvancePendingDc, Liveness
<1>4. AdvancePendingMz(w, dead) \in Result
  BY <1>1, SlotResults, GradeKinds DEF AdvancePendingMz, Liveness
<1>5. AdvancePendingTb(w) \in Result
  BY <1>1, SlotResults, GradeKinds DEF AdvancePendingTb, Liveness
<1>. QED
  BY <1>2, <1>3, <1>4, <1>5

\* A finding paired from a tracked producer is a finding.
LEMMA PairTyped ==
  ASSUME TypeOK, cur \in Slots,
         NEW kind \in Deleting \cup Downgrade, NEW t \in Tracker, t.on
  PROVE  Pair(kind, t) \in Findings
<1>1. ~Off.on
  BY DEF Off
<1>2. t # Off
  BY <1>1
<1>3. t \in [on : {TRUE}, reg : Resources, at : Slots]
  BY <1>2 DEF Tracker
<1>. QED
  BY <1>3 DEF Pair, Findings

LEMMA DeferTyped ==
  ASSUME NEW f \in Findings, NEW fb \in SUBSET Findings, NEW t \in Int
  PROVE  Defer(f, fb, t) \in SlotType
<1>1. Window \in 1 .. Window
  BY WordsAssumption
<1>. QED
  BY <1>1 DEF Defer, SlotType, InUse

LEMMA FoundTyped ==
  ASSUME cur \in Slots, NEW r \in Resources
  PROVE  Found(r) \in Tracker
BY DEF Found, Tracker

LEMMA DestTyped ==
  ASSUME NEW w \in Words, w.op \in {"mov0", "cset", "lsl"}
  PROVE  Dest(w) \in Regs /\ w.writes = {Dest(w)}
<1>1. PICK r \in Regs : w.writes = {r}
  BY ShapesAssumption DEF Writes1
<1>2. r \in w.writes
  BY <1>1
<1>3. Dest(w) \in Regs /\ Dest(w) \in w.writes
  BY <1>2 DEF Dest
<1>. QED
  BY <1>1, <1>3

\* A check leaves every slot well formed.
LEMMA CheckTyped ==
  ASSUME TypeOK, cur \in Slots, NEW w \in Words, NEW dead \in BOOLEAN,
         NEW p \in SlotType
  PROVE  /\ CheckPending(w, dead, p) \in SlotType
         /\ CheckDc(w, p) \in SlotType
         /\ CheckMz(w, p) \in SlotType
         /\ CheckTb(w, p) \in SlotType
         /\ CheckEmits(w) \subseteq Findings
<1>1. cmp \in Tracker /\ cset \in Tracker /\ mov \in Tracker /\ fnl \in Tracker
  BY DEF TypeOK
<1>2. w.to \in Int /\ 0 \in Int
  BY WordsAssumption
<1>3. {"cbz", "dc", "zr", "extr", "cset", "bcond", "cset-fb", "bcond-fb"}
        \subseteq Deleting \cup Downgrade
  BY DEF Deleting, Downgrade
<1>4. \A f \in Findings, fb \in SUBSET Findings, t \in Int : Defer(f, fb, t) \in SlotType
  BY DeferTyped
<1>5. \A kind \in Deleting \cup Downgrade, t \in Tracker : t.on => Pair(kind, t) \in Findings
  BY PairTyped
<1>6. CheckPending(w, dead, p) \in SlotType
  <2>1. CASE CmpBranch(w, dead)
    <3>1. Pair("cbz", cmp) \in Findings
      BY <1>1, <1>3, <1>5, <2>1 DEF CmpBranch
    <3>. QED
      BY <1>2, <1>4, <2>1, <3>1 DEF CheckPending
  <2>2. CASE ~CmpBranch(w, dead)
    BY <2>2 DEF CheckPending
  <2>. QED
    BY <2>1, <2>2
<1>7. CheckDc(w, p) \in SlotType
  <2>1. Found(NZCV) \in Tracker /\ Found(NZCV).on
    BY FoundTyped DEF Resources, Found
  <2>2. Pair("dc", Found(NZCV)) \in Findings
    BY <1>3, <1>5, <2>1
  <2>. QED
    BY <1>2, <1>4, <2>2 DEF CheckDc
<1>8. Funnel(w) => Pair("extr", fnl) \in Findings
  BY <1>1, <1>3, <1>5 DEF Funnel
<1>9. CsetEor(w) => Pair("cset", cset) \in Findings /\ Pair("cset-fb", cset) \in Findings
  BY <1>1, <1>3, <1>5 DEF CsetEor
<1>10. CsetBranch(w) => Pair("bcond", cset) \in Findings /\ Pair("bcond-fb", cset) \in Findings
  BY <1>1, <1>3, <1>5 DEF CsetBranch
<1>11. CheckMz(w, p) \in SlotType
  <2>1. CASE MovZeroUse(w)
    <3>1. Pair("zr", mov) \in Findings
      BY <1>1, <1>3, <1>5, <2>1 DEF MovZeroUse
    <3>2. Defer(Pair("zr", mov), {}, 0) \in SlotType
      BY <1>2, <1>4, <3>1
    <3>. QED
      BY <3>2, <2>1 DEF CheckMz, MovZeroUse, Funnel, CsetEor
  <2>2. CASE ~MovZeroUse(w) /\ Funnel(w) /\ fnl.reg \notin w.writes
    <3>1. Defer(Pair("extr", fnl), {}, 0) \in SlotType
      BY <1>2, <1>4, <1>8, <2>2
    <3>. QED
      BY <3>1, <2>2 DEF CheckMz, MovZeroUse, Funnel, CsetEor
  <2>3. CASE ~MovZeroUse(w) /\ ~(Funnel(w) /\ fnl.reg \notin w.writes)
             /\ CsetEor(w) /\ cset.reg \notin w.writes
    <3>1. Defer(Pair("cset", cset), {Pair("cset-fb", cset)}, 0) \in SlotType
      BY <1>2, <1>4, <1>9, <2>3
    <3>. QED
      BY <3>1, <2>3 DEF CheckMz
  <2>4. CASE ~MovZeroUse(w) /\ ~(Funnel(w) /\ fnl.reg \notin w.writes)
             /\ ~(CsetEor(w) /\ cset.reg \notin w.writes)
    BY <2>4 DEF CheckMz
  <2>. QED
    BY <2>1, <2>2, <2>3, <2>4
<1>12. CheckTb(w, p) \in SlotType
  <2>1. CASE CsetBranch(w) /\ Forward(w)
    <3>1. Defer(Pair("bcond", cset), {Pair("bcond-fb", cset)}, w.to) \in SlotType
      BY <1>2, <1>4, <1>10, <2>1
    <3>. QED
      BY <3>1, <2>1 DEF CheckTb
  <2>2. CASE ~(CsetBranch(w) /\ Forward(w))
    BY <2>2 DEF CheckTb
  <2>. QED
    BY <2>1, <2>2
<1>13. CheckEmits(w) \subseteq Findings
  BY <1>8, <1>9, <1>10 DEF CheckEmits
<1>. QED
  BY <1>6, <1>7, <1>11, <1>12, <1>13

LEMMA TrackTyped ==
  ASSUME TypeOK, cur \in Slots, NEW w \in Words, Track(w)
  PROVE  {cmp, cset, mov, fnl}' \subseteq Tracker
<1>1. Off \in Tracker
  BY DEF Tracker
<1>2. w.op \in {"mov0", "cset", "lsl"} => Found(Dest(w)) \in Tracker
  BY DestTyped, FoundTyped DEF Resources
<1>3. Found(NZCV) \in Tracker
  BY FoundTyped DEF Resources
<1>4. cmp' \in Tracker
  BY <1>1, <1>3 DEF Track
<1>5. cset' \in Tracker
  BY <1>1, <1>2 DEF Track
<1>6. mov' \in Tracker
  BY <1>1, <1>2 DEF Track
<1>7. fnl' \in Tracker
  BY <1>1, <1>2 DEF Track
<1>. QED
  BY <1>4, <1>5, <1>6, <1>7

\* A flush empties every slot and reports one downgrade at most.
LEMMA FlushTyped ==
  ASSUME TypeOK, Flush
  PROVE  /\ {cmp, cset, mov, fnl}' \subseteq Tracker
         /\ pending' \in SlotType /\ dc' \in SlotType
         /\ mz' \in SlotType /\ tb' \in SlotType
         /\ out' \subseteq Findings
<1>1. Off \in Tracker /\ Idle \in SlotType
  BY DEF Tracker, SlotType
<1>2. {cmp, cset, mov, fnl}' \subseteq Tracker
  BY <1>1 DEF Flush, TypeOK
<1>3. pending' \in SlotType /\ dc' \in SlotType /\ mz' \in SlotType /\ tb' \in SlotType
  BY <1>1 DEF Flush
<1>4. \A p \in SlotType : p.on => p.fallback \subseteq Findings
  BY ActiveInUse DEF InUse
<1>5. out' \subseteq Findings
  BY <1>4 DEF Flush, Emit, TypeOK
<1>. QED
  BY <1>2, <1>3, <1>5

LEMMA SlotFacts ==
  ASSUME TypeOK, cur < N
  PROVE  cur \in Slots /\ prog[cur] \in Words
<1>1. cur \in Slots
  BY WordsAssumption DEF TypeOK, Slots
<1>2. prog[cur] \in Words
  BY <1>1 DEF TypeOK, Programs
<1>. QED
  BY <1>1, <1>2

LEMMA InitTyped == Init => TypeOK
<1>. SUFFICES ASSUME Init PROVE TypeOK
  OBVIOUS
<1>1. Off \in Tracker /\ Idle \in SlotType
  BY DEF Tracker, SlotType
<1>2. cur \in 0 .. N
  BY WordsAssumption DEF Init
<1>. QED
  BY <1>1, <1>2 DEF Init, TypeOK

LEMMA InstructionTyped ==
  ASSUME TypeOK, Instruction
  PROVE  TypeOK'
<1>. DEFINE w == prog[cur]
<1>1. cur < N
  BY DEF Instruction, AtCode
<1>2. cur \in Slots /\ w \in Words
  BY <1>1, SlotFacts
<1>3. PICK nd \in Verdict(w, NZCV), rd \in Verdict(w, mz.finding.reg) :
        /\ pending' = CheckPending(w, nd, AdvancePending(w).slot)
        /\ dc' = CheckDc(w, AdvancePendingDc(w).slot)
        /\ mz' = CheckMz(w, AdvancePendingMz(w, rd).slot)
        /\ tb' = CheckTb(w, AdvancePendingTb(w).slot)
        /\ Emit(AdvancePending(w).emit \cup AdvancePendingDc(w).emit
                \cup AdvancePendingMz(w, rd).emit \cup AdvancePendingTb(w).emit
                \cup CheckEmits(w))
        /\ Track(w)
  BY DEF Instruction
<1>4. nd \in BOOLEAN /\ rd \in BOOLEAN
  BY DEF Verdict
<1>5. /\ AdvancePending(w) \in Result
      /\ AdvancePendingDc(w) \in Result
      /\ AdvancePendingMz(w, rd) \in Result
      /\ AdvancePendingTb(w) \in Result
  BY <1>4, AdvancerResults
<1>. HIDE DEF w
<1>6. \A r \in Result : r.slot \in SlotType /\ r.emit \subseteq Findings
  BY DEF Result
<1>7. pending' \in SlotType
  BY <1>2, <1>3, <1>4, <1>5, <1>6, CheckTyped
<1>8. dc' \in SlotType
  BY <1>2, <1>3, <1>4, <1>5, <1>6, CheckTyped
<1>9. mz' \in SlotType
  BY <1>2, <1>3, <1>4, <1>5, <1>6, CheckTyped
<1>10. tb' \in SlotType
  BY <1>2, <1>3, <1>4, <1>5, <1>6, CheckTyped
<1>11. out' \subseteq Findings
  <2>1. CheckEmits(w) \subseteq Findings
    BY <1>2, <1>4, <1>5, <1>6, CheckTyped
  <2>. QED
    BY <1>3, <1>5, <1>6, <2>1 DEF Emit, TypeOK
<1>12. {cmp, cset, mov, fnl}' \subseteq Tracker
  BY <1>2, <1>3, TrackTyped
<1>13. cur' \in 0 .. N
  BY <1>1, WordsAssumption DEF Instruction, TypeOK
<1>14. decoded' \subseteq Slots
  BY <1>2 DEF Instruction, TypeOK
<1>15. prog' \in Programs /\ done' \in BOOLEAN /\ gaps' \subseteq Slots
  BY DEF Instruction, TypeOK
<1>. QED
  BY <1>7, <1>8, <1>9, <1>10, <1>11, <1>12, <1>13, <1>14, <1>15 DEF TypeOK

LEMMA NextTyped ==
  ASSUME TypeOK, [Next]_vars
  PROVE  TypeOK'
<1>1. CASE SkipPool
  <2>1. cur' \in cur + 1 .. N
    BY <1>1, WordsAssumption DEF SkipPool, IsPool, NextSlot, TypeOK
  <2>2. cur' \in 0 .. N
    BY <2>1, WordsAssumption DEF TypeOK
  <2>3. (cur .. cur' - 1) \subseteq Slots
    <3>1. cur \in Nat /\ cur' \in Int /\ cur' <= N /\ N \in Int
      BY <2>1, WordsAssumption DEF TypeOK
    <3>2. \A a \in Nat, b, c \in Int : b <= c => (a .. b - 1) \subseteq (0 .. c - 1)
      OBVIOUS
    <3>. QED
      BY <3>1, <3>2 DEF Slots
  <2>4. gaps' \subseteq Slots
    BY <1>1, <2>3 DEF SkipPool, TypeOK
  <2>5. Flush
    BY <1>1 DEF SkipPool
  <2>6. prog' \in Programs /\ done' \in BOOLEAN /\ decoded' \subseteq Slots
    BY <1>1 DEF SkipPool, TypeOK
  <2>. QED
    BY <2>2, <2>4, <2>5, <2>6, FlushTyped DEF TypeOK
<1>2. CASE SkipUndecodable
  <2>1. cur < N
    BY <1>2 DEF SkipUndecodable, AtCode
  <2>2. cur' \in 0 .. N
    BY <1>2, <2>1, WordsAssumption DEF SkipUndecodable, TypeOK
  <2>3. gaps' \subseteq Slots
    BY <1>2, <2>1, SlotFacts DEF SkipUndecodable, TypeOK
  <2>4. Flush
    BY <1>2 DEF SkipUndecodable
  <2>5. prog' \in Programs /\ done' \in BOOLEAN /\ decoded' \subseteq Slots
    BY <1>2 DEF SkipUndecodable, TypeOK
  <2>. QED
    BY <2>2, <2>3, <2>4, <2>5, FlushTyped DEF TypeOK
<1>3. CASE Instruction
  BY <1>3, InstructionTyped
<1>4. CASE EndOfBuffer
  <2>1. Flush
    BY <1>4 DEF EndOfBuffer
  <2>2. prog' \in Programs /\ cur' \in 0 .. N /\ done' \in BOOLEAN
        /\ decoded' \subseteq Slots /\ gaps' \subseteq Slots
    BY <1>4 DEF EndOfBuffer, TypeOK
  <2>. QED
    BY <2>1, <2>2, FlushTyped DEF TypeOK
<1>5. CASE UNCHANGED vars
  BY <1>5 DEF vars, trackers, slots, TypeOK
<1>. QED
  BY <1>1, <1>2, <1>3, <1>4, <1>5 DEF Next, Returned

\* In every buffer the trackers and slots hold what their checks put there: an
\* idle one nothing, an open one a finding of two slots of the buffer and a
\* window LIVENESS_WINDOW bounds (struct armlint_state, armlint.c:203).
THEOREM TypeCorrect == Spec => []TypeOK
<1>1. Init => TypeOK
  BY InitTyped
<1>2. TypeOK /\ [Next]_vars => TypeOK'
  BY NextTyped
<1>. QED
  BY <1>1, <1>2, PTL DEF Spec

-----------------------------------------------------------------------------
(* Dead resources.                                                         *)

\* A slot that leaves r alone is dead for r when it kills r, or when every
\* slot control may go to is dead: the step by which a scan extends a proof
\* backwards over a word it has passed.
LEMMA DeadStep ==
  ASSUME NEW pr, NEW o \in Slots, NEW r,
         ~IsPool(pr, o), ~Observes(pr[o], r),
         Kills(pr[o], r) \/ \A s \in Successors(pr[o], o) : DeadFrom(pr, s, r)
  PROVE  DeadFrom(pr, o, r)
<1>. DEFINE Step(x, S) == /\ ~IsPool(pr, x)
                          /\ ~Observes(pr[x], r)
                          /\ Kills(pr[x], r) \/ Successors(pr[x], x) \subseteq S
            D == {t \in Slots : DeadFrom(pr, t, r)} \cup {o}
<1>1. \A t : DeadFrom(pr, t, r) <=>
               \E S \in SUBSET Slots : t \in S /\ \A x \in S : Step(x, S)
  BY DEF DeadFrom
<1>2. \A t : DeadFrom(pr, t, r) => t \in D
  BY <1>1
<1>3. Step(o, D)
  BY <1>2
<1>4. ASSUME NEW x \in D
      PROVE  Step(x, D)
  <2>1. CASE x = o
    BY <1>3, <2>1
  <2>2. CASE x # o
    <3>1. DeadFrom(pr, x, r)
      BY <2>2
    <3>2. PICK S \in SUBSET Slots : x \in S /\ \A y \in S : Step(y, S)
      BY <1>1, <3>1
    <3>3. \A y \in S : y \in D
      BY <1>1, <1>2, <3>2
    <3>. QED
      BY <3>2, <3>3
  <2>. QED
    BY <2>1, <2>2
<1>5. D \in SUBSET Slots /\ o \in D
  OBVIOUS
<1>. HIDE DEF D, Step
<1>. QED
  BY <1>1, <1>4, <1>5

\* What the grades of the flag scans promise.
LEMMA NzcvGrades ==
  ASSUME NEW w \in Words
  PROVE  /\ ClassifyLiveness(w) \in {"OVERWRITE", "TERM_SAFE"} =>
              ~Observes(w, NZCV) /\ Kills(w, NZCV)
         /\ ClassifyLiveness(w) = "UNKNOWN" =>
              /\ ~Observes(w, NZCV)
              /\ w.op \notin CondBranchOps \cup {"b", "ret", "br"}
<1>1. /\ w.op \in TransferOps => w.writes = {}
      /\ w.op \in {"b", "bl", "ret", "br"} => NZCV \notin w.reads
      /\ w.op = "bcond" => NZCV \in w.reads
      /\ w.op = "cbz" => NZCV \notin w.reads
  BY WordsAssumption
<1>2. CASE NZCV \in w.reads
  <2>1. ClassifyLiveness(w) = "READ"
    BY <1>1, <1>2 DEF ClassifyLiveness, ReadsNzcv, SetsNzcv
  <2>. QED
    BY <2>1
<1>3. CASE NZCV \notin w.reads /\ NZCV \in w.writes
  <2>1. w.op \notin TransferOps
    BY <1>1, <1>3
  <2>. QED
    BY <1>3, <2>1 DEF ClassifyLiveness, ReadsNzcv, SetsNzcv, Observes, Kills, TransferOps,
                      CondBranchOps
<1>4. CASE NZCV \notin w.reads /\ NZCV \notin w.writes
  BY <1>1, <1>4 DEF ClassifyLiveness, ReadsNzcv, SetsNzcv, Observes, Kills, CondBranchOps
<1>. QED
  BY <1>2, <1>3, <1>4

\* What the grades of the register scans promise.
LEMMA RegGrades ==
  ASSUME NEW w \in Words, NEW r \in Regs
  PROVE  /\ ClassifyRegLiveness(w, r) = "OVERWRITE" => ~Observes(w, r) /\ Kills(w, r)
         /\ ClassifyRegLiveness(w, r) = "UNKNOWN" =>
              ~Observes(w, r) /\ w.op \notin TransferOps
BY DEF ClassifyRegLiveness, RegAccess, Observes, Kills, CondBranchOps, TransferOps

\* A direct branch that does not test the register leaves it alone.
LEMMA BranchQuiet ==
  ASSUME NEW w \in Words, NEW r \in Regs, IsDirectBranch(w), ~BranchReadsReg(w, r)
  PROVE  ~Observes(w, r)
BY WordsAssumption DEF IsDirectBranch, BranchReadsReg, Observes, CondBranchOps

LEMMA SuccessorFacts ==
  ASSUME NEW w, NEW o
  PROVE  /\ w.op \notin CondBranchOps \cup {"b", "ret", "br"} => Successors(w, o) = {o + 1}
         /\ w.op \in CondBranchOps => Successors(w, o) = {o + 1, w.to}
         /\ w.op = "b" => Successors(w, o) = {w.to}
BY DEF Successors, CondBranchOps

-----------------------------------------------------------------------------
(* Sound slots.                                                            *)

Safe(pr, f) == f.kind \in Deleting => DeadAfterIn(pr, f)

\* An open slot whose proof stands at slot c: its downgrade needs no proof,
\* and once its resource -- one of R -- is shown dead at c the fold is safe.
SlotSound(pr, p, c, R) ==
  p.on => /\ p.finding.reg \in R
          /\ \A f \in p.fallback : Safe(pr, f)
          /\ DeadFrom(pr, c, p.finding.reg) => Safe(pr, p.finding)

\* The branch's slot: what the fall-through proves at c it has proved at
\* every slot since the branch.
BranchSound(pr, p, c) ==
  p.on => /\ p.finding.reg \in Regs
          /\ \A f \in p.fallback : Safe(pr, f)
          /\ pr[p.finding.use].op = "cbz"
          /\ p.target = pr[p.finding.use].to
          /\ p.finding.use + 1 <= c
          /\ \A t \in p.finding.use + 1 .. c :
               DeadFrom(pr, c, p.finding.reg) => DeadFrom(pr, t, p.finding.reg)

AllSafe(pr, F) == \A f \in F : Safe(pr, f)
SoundResult(pr, res, c, R) == SlotSound(pr, res.slot, c, R) /\ AllSafe(pr, res.emit)

LEMMA Outcomes ==
  ASSUME NEW pr, NEW p, NEW c \in Int, NEW R, p.on, SlotSound(pr, p, c, R)
  PROVE  /\ SoundResult(pr, Fail(p), c + 1, R)
         /\ DeadFrom(pr, c, p.finding.reg) => SoundResult(pr, Prove(p), c + 1, R)
         /\ (/\ p \in InUse
             /\ DeadFrom(pr, c + 1, p.finding.reg) => DeadFrom(pr, c, p.finding.reg))
            => SoundResult(pr, Tick(p), c + 1, R)
<1>1. \A cc : SlotSound(pr, Idle, cc, R)
  BY DEF SlotSound, Idle
<1>2. SoundResult(pr, Fail(p), c + 1, R)
  BY <1>1 DEF SoundResult, Fail, AllSafe, SlotSound
<1>3. ASSUME DeadFrom(pr, c, p.finding.reg)
      PROVE  SoundResult(pr, Prove(p), c + 1, R)
  BY <1>1, <1>3 DEF SoundResult, Prove, AllSafe, SlotSound
<1>4. ASSUME DeadFrom(pr, c + 1, p.finding.reg) => DeadFrom(pr, c, p.finding.reg),
             p \in InUse
      PROVE  SoundResult(pr, Tick(p), c + 1, R)
  <2>1. CASE p.window <= 1
    BY <1>2, <2>1 DEF Tick
  <2>2. CASE ~(p.window <= 1)
    <3>. DEFINE q == [p EXCEPT !.window = @ - 1]
    <3>1. q.on = p.on /\ q.finding = p.finding /\ q.fallback = p.fallback
      BY <1>4 DEF InUse
    <3>2. SlotSound(pr, q, c + 1, R)
      BY <1>4, <3>1 DEF SlotSound
    <3>3. Tick(p) = Stay(q)
      BY <2>2 DEF Tick
    <3>. QED
      BY <3>2, <3>3 DEF SoundResult, Stay, AllSafe
  <2>. QED
    BY <2>1, <2>2
<1>. QED
  BY <1>2, <1>3, <1>4

\* A closed slot stays closed.
LEMMA StaysClosed ==
  ASSUME NEW pr, NEW p, NEW c, NEW R, ~p.on
  PROVE  SoundResult(pr, Stay(p), c, R)
BY DEF SoundResult, SlotSound, Stay, AllSafe

-----------------------------------------------------------------------------
(* The advancers keep the slots sound.                                     *)

SoundInv ==
  /\ AllSafe(prog, out)
  /\ SlotSound(prog, pending, cur, {NZCV})
  /\ SlotSound(prog, dc, cur, {NZCV})
  /\ SlotSound(prog, mz, cur, Regs)
  /\ BranchSound(prog, tb, cur)
  /\ cmp.on => cmp.reg = NZCV
  /\ \A t \in {cset, mov, fnl} : t.on => t.reg \in Regs

\* Carrying a proof over the word at cur.
LEMMA CarryBack ==
  ASSUME TypeOK, AtCode, NEW r, ~Observes(prog[cur], r)
  PROVE  /\ Kills(prog[cur], r) => DeadFrom(prog, cur, r)
         /\ (\A s \in Successors(prog[cur], cur) : DeadFrom(prog, s, r)) =>
              DeadFrom(prog, cur, r)
<1>1. cur \in Slots /\ ~IsPool(prog, cur)
  BY SlotFacts DEF AtCode
<1>. QED
  BY <1>1, DeadStep

LEMMA FlagAdvance ==
  ASSUME TypeOK, AtCode, SoundInv, NEW w \in Words, w = prog[cur]
  PROVE  /\ SoundResult(prog, AdvancePending(w), cur + 1, {NZCV})
         /\ SoundResult(prog, AdvancePendingDc(w), cur + 1, {NZCV})
<1>1. cur \in Int
  BY WordsAssumption DEF TypeOK
<1>2. ClassifyLiveness(w) \in Liveness
  BY GradeKinds
<1>3. ClassifyLiveness(w) \in {"OVERWRITE", "TERM_SAFE"} => DeadFrom(prog, cur, NZCV)
  BY NzcvGrades, CarryBack
<1>4. ClassifyLiveness(w) = "UNKNOWN" =>
        (DeadFrom(prog, cur + 1, NZCV) => DeadFrom(prog, cur, NZCV))
  <2>1. SUFFICES ASSUME ClassifyLiveness(w) = "UNKNOWN", DeadFrom(prog, cur + 1, NZCV)
                 PROVE  DeadFrom(prog, cur, NZCV)
    OBVIOUS
  <2>2. ~Observes(w, NZCV) /\ Successors(w, cur) = {cur + 1}
    BY <2>1, NzcvGrades, SuccessorFacts
  <2>. QED
    BY <2>1, <2>2, CarryBack
<1>5. ASSUME NEW p \in SlotType, p.on, SlotSound(prog, p, cur, {NZCV})
      PROVE  /\ SoundResult(prog, Fail(p), cur + 1, {NZCV})
             /\ ClassifyLiveness(w) \in {"OVERWRITE", "TERM_SAFE"} =>
                  SoundResult(prog, Prove(p), cur + 1, {NZCV})
             /\ ClassifyLiveness(w) = "UNKNOWN" =>
                  SoundResult(prog, Tick(p), cur + 1, {NZCV})
  <2>1. p.finding.reg = NZCV
    BY <1>5 DEF SlotSound
  <2>2. p \in InUse
    BY <1>5, ActiveInUse
  <2>. QED
    BY <1>1, <1>3, <1>4, <1>5, <2>1, <2>2, Outcomes
<1>6. SoundResult(prog, AdvancePending(w), cur + 1, {NZCV})
  <2>1. pending \in SlotType /\ SlotSound(prog, pending, cur, {NZCV})
    BY DEF TypeOK, SoundInv
  <2>2. CASE ~pending.on
    BY <2>2, StaysClosed DEF AdvancePending
  <2>3. CASE pending.on
    BY <1>2, <1>5, <2>1, <2>3 DEF AdvancePending, Liveness
  <2>. QED
    BY <2>2, <2>3
<1>7. SoundResult(prog, AdvancePendingDc(w), cur + 1, {NZCV})
  <2>1. dc \in SlotType /\ SlotSound(prog, dc, cur, {NZCV})
    BY DEF TypeOK, SoundInv
  <2>2. CASE ~dc.on
    BY <2>2, StaysClosed DEF AdvancePendingDc
  <2>3. CASE dc.on
    BY <1>2, <1>5, <2>1, <2>3 DEF AdvancePendingDc, Liveness
  <2>. QED
    BY <2>2, <2>3
<1>. QED
  BY <1>6, <1>7

LEMMA RegAdvance ==
  ASSUME TypeOK, AtCode, SoundInv, NEW w \in Words, w = prog[cur],
         NEW dead \in Verdict(w, mz.finding.reg)
  PROVE  SoundResult(prog, AdvancePendingMz(w, dead), cur + 1, Regs)
<1>. DEFINE r == mz.finding.reg
<1>1. cur \in Int
  BY WordsAssumption DEF TypeOK
<1>2. mz \in SlotType /\ SlotSound(prog, mz, cur, Regs)
  BY DEF TypeOK, SoundInv
<1>3. dead \in BOOLEAN /\ (dead => IsDirectBranch(w) /\ DeadFrom(prog, w.to, r))
  BY DEF Verdict
<1>4. CASE ~mz.on
  BY <1>4, StaysClosed DEF AdvancePendingMz
<1>5. CASE mz.on
  <2>1. r \in Regs
    BY <1>2, <1>5 DEF SlotSound
  <2>2. mz \in InUse
    BY <1>2, <1>5, ActiveInUse
  <2>3. SoundResult(prog, Fail(mz), cur + 1, Regs)
    BY <1>1, <1>2, <1>5, Outcomes
  <2>4. DeadFrom(prog, cur, r) => SoundResult(prog, Prove(mz), cur + 1, Regs)
    BY <1>1, <1>2, <1>5, Outcomes
  <2>5. (DeadFrom(prog, cur + 1, r) => DeadFrom(prog, cur, r)) =>
          SoundResult(prog, Tick(mz), cur + 1, Regs)
    BY <1>1, <1>2, <1>5, <2>2, Outcomes
  <2>6. CASE IsDirectBranch(w) /\ ~BranchReadsReg(w, r)
    <3>1. ~Observes(w, r)
      BY <2>1, <2>6, BranchQuiet
    <3>2. CASE ~dead
      BY <1>5, <2>3, <2>6, <3>2 DEF AdvancePendingMz
    <3>3. CASE dead /\ IsConditional(w)
      <4>1. Successors(w, cur) = {cur + 1, w.to}
        BY <3>3, SuccessorFacts DEF IsConditional
      <4>2. DeadFrom(prog, cur + 1, r) => DeadFrom(prog, cur, r)
        BY <1>3, <3>1, <3>3, <4>1, CarryBack
      <4>. QED
        BY <1>5, <2>5, <2>6, <3>3, <4>2 DEF AdvancePendingMz
    <3>4. CASE dead /\ ~IsConditional(w)
      <4>1. Successors(w, cur) = {w.to}
        BY <2>6, <3>4, SuccessorFacts DEF IsConditional, IsDirectBranch
      <4>2. DeadFrom(prog, cur, r)
        BY <1>3, <3>1, <3>4, <4>1, CarryBack
      <4>. QED
        BY <1>5, <2>4, <2>6, <3>4, <4>2 DEF AdvancePendingMz
    <3>. QED
      BY <1>3, <3>2, <3>3, <3>4
  <2>7. CASE ~(IsDirectBranch(w) /\ ~BranchReadsReg(w, r))
    <3>1. ClassifyRegLiveness(w, r) \in Liveness \ {"TERM_SAFE"}
      BY GradeKinds
    <3>2. CASE ClassifyRegLiveness(w, r) = "OVERWRITE"
      <4>1. DeadFrom(prog, cur, r)
        BY <2>1, <3>2, RegGrades, CarryBack
      <4>. QED
        BY <1>5, <2>4, <2>7, <3>2, <4>1 DEF AdvancePendingMz
    <3>3. CASE ClassifyRegLiveness(w, r) \in {"READ", "TERM_UNSAFE"}
      BY <1>5, <2>3, <2>7, <3>3 DEF AdvancePendingMz
    <3>4. CASE ClassifyRegLiveness(w, r) = "UNKNOWN"
      <4>1. ~Observes(w, r) /\ Successors(w, cur) = {cur + 1}
        BY <2>1, <3>4, RegGrades, SuccessorFacts DEF TransferOps
      <4>2. DeadFrom(prog, cur + 1, r) => DeadFrom(prog, cur, r)
        BY <4>1, CarryBack
      <4>. QED
        BY <1>5, <2>5, <2>7, <3>4, <4>2 DEF AdvancePendingMz
    <3>. QED
      BY <3>1, <3>2, <3>3, <3>4 DEF Liveness
  <2>. QED
    BY <2>6, <2>7
<1>. QED
  BY <1>4, <1>5

\* The branch's advancer, whose proof on the fall-through serves the target.
BranchResult(pr, res, c) == BranchSound(pr, res.slot, c) /\ AllSafe(pr, res.emit)

LEMMA BranchAdvance ==
  ASSUME TypeOK, AtCode, SoundInv, NEW w \in Words, w = prog[cur]
  PROVE  BranchResult(prog, AdvancePendingTb(w), cur + 1)
<1>. DEFINE r == tb.finding.reg
            use == tb.finding.use
<1>1. cur \in Int
  BY WordsAssumption DEF TypeOK
<1>2. tb \in SlotType /\ BranchSound(prog, tb, cur)
  BY DEF TypeOK, SoundInv
<1>3. \A c : BranchSound(prog, Idle, c)
  BY DEF BranchSound, Idle
<1>4. CASE ~tb.on
  BY <1>4 DEF AdvancePendingTb, BranchResult, BranchSound, Stay, AllSafe
<1>5. CASE tb.on
  <2>1. /\ r \in Regs
        /\ \A f \in tb.fallback : Safe(prog, f)
        /\ prog[use].op = "cbz"
        /\ tb.target = prog[use].to
        /\ use + 1 <= cur
        /\ \A t \in use + 1 .. cur : DeadFrom(prog, cur, r) => DeadFrom(prog, t, r)
    BY <1>2, <1>5 DEF BranchSound
  <2>2. tb \in InUse
    BY <1>2, <1>5, ActiveInUse
  <2>3. use \in Int
    BY <2>2 DEF InUse, Findings, Slots
  <2>4. BranchResult(prog, Fail(tb), cur + 1)
    BY <1>3, <2>1 DEF BranchResult, Fail, AllSafe
  <2>5. ASSUME DeadFrom(prog, cur, r), Contained(tb)
        PROVE  BranchResult(prog, Prove(tb), cur + 1)
    <3>1. Successors(prog[use], use) = {use + 1, tb.target}
      BY <2>1, SuccessorFacts DEF CondBranchOps
    <3>2. use + 1 \in use + 1 .. cur /\ tb.target \in use + 1 .. cur
      BY <1>1, <2>1, <2>3, <2>5 DEF Contained
    <3>3. DeadFrom(prog, use + 1, r) /\ DeadFrom(prog, tb.target, r)
      BY <2>1, <2>5, <3>2
    <3>4. Safe(prog, tb.finding)
      BY <3>1, <3>3 DEF Safe, DeadAfterIn
    <3>. QED
      BY <1>3, <3>4 DEF BranchResult, Prove, AllSafe
  <2>6. ASSUME DeadFrom(prog, cur + 1, r) => DeadFrom(prog, cur, r)
        PROVE  BranchResult(prog, Tick(tb), cur + 1)
    <3>1. CASE tb.window <= 1
      BY <2>4, <3>1 DEF Tick
    <3>2. CASE ~(tb.window <= 1)
      <4>. DEFINE q == [tb EXCEPT !.window = @ - 1]
      <4>1. /\ q.on = tb.on /\ q.finding = tb.finding /\ q.fallback = tb.fallback
            /\ q.target = tb.target
        BY <2>2 DEF InUse
      <4>2. \A t \in Int : t \in use + 1 .. cur + 1 => t = cur + 1 \/ t \in use + 1 .. cur
        BY <1>1, <2>3
      <4>3. \A t \in use + 1 .. cur + 1 :
              DeadFrom(prog, cur + 1, r) => DeadFrom(prog, t, r)
        BY <1>1, <2>1, <2>3, <2>6, <4>2
      <4>4. use + 1 <= cur + 1
        BY <1>1, <2>1, <2>3
      <4>5. BranchSound(prog, q, cur + 1)
        BY <2>1, <4>1, <4>3, <4>4 DEF BranchSound
      <4>6. Tick(tb) = Stay(q)
        BY <3>2 DEF Tick
      <4>. QED
        BY <4>5, <4>6 DEF BranchResult, Stay, AllSafe
    <3>. QED
      BY <3>1, <3>2
  <2>7. ClassifyRegLiveness(w, r) \in Liveness \ {"TERM_SAFE"}
    BY GradeKinds
  <2>8. CASE ClassifyRegLiveness(w, r) = "OVERWRITE"
    <3>1. DeadFrom(prog, cur, r)
      BY <2>1, <2>8, RegGrades, CarryBack
    <3>2. CASE Contained(tb)
      BY <1>5, <2>5, <2>8, <3>1, <3>2 DEF AdvancePendingTb
    <3>3. CASE ~Contained(tb)
      BY <1>5, <2>4, <2>8, <3>3 DEF AdvancePendingTb
    <3>. QED
      BY <3>2, <3>3
  <2>9. CASE ClassifyRegLiveness(w, r) \in {"READ", "TERM_UNSAFE"}
    BY <1>5, <2>4, <2>9 DEF AdvancePendingTb
  <2>10. CASE ClassifyRegLiveness(w, r) = "UNKNOWN"
    <3>1. ~Observes(w, r) /\ Successors(w, cur) = {cur + 1}
      BY <2>1, <2>10, RegGrades, SuccessorFacts DEF TransferOps
    <3>2. DeadFrom(prog, cur + 1, r) => DeadFrom(prog, cur, r)
      BY <3>1, CarryBack
    <3>. QED
      BY <1>5, <2>6, <2>10, <3>2 DEF AdvancePendingTb
  <2>. QED
    BY <2>7, <2>8, <2>9, <2>10 DEF Liveness
<1>. QED
  BY <1>4, <1>5

-----------------------------------------------------------------------------
(* The checks open sound slots.                                            *)

\* A finding whose consumer is the word at cur is safe once its resource is
\* dead at every slot that word can lead to.
LEMMA DeferSound ==
  ASSUME NEW f, NEW fb, NEW t, NEW R, f.reg \in R, AllSafe(prog, fb),
         f.use = cur,
         DeadFrom(prog, cur + 1, f.reg) =>
           \A s \in Successors(prog[cur], cur) : DeadFrom(prog, s, f.reg)
  PROVE  SlotSound(prog, Defer(f, fb, t), cur + 1, R)
BY DEF SlotSound, Defer, Safe, DeadAfterIn, AllSafe

\* A downgrade deletes nothing.
LEMMA DowngradeSafe ==
  ASSUME NEW t
  PROVE  Safe(prog, Pair("cset-fb", t)) /\ Safe(prog, Pair("bcond-fb", t))
BY DEF Safe, Pair, Deleting

LEMMA CheckSound ==
  ASSUME TypeOK, AtCode, SoundInv, NEW w \in Words, w = prog[cur],
         NEW dead \in Verdict(w, NZCV), NEW p
  PROVE  /\ SlotSound(prog, p, cur + 1, {NZCV}) =>
              /\ SlotSound(prog, CheckPending(w, dead, p), cur + 1, {NZCV})
              /\ SlotSound(prog, CheckDc(w, p), cur + 1, {NZCV})
         /\ SlotSound(prog, p, cur + 1, Regs) =>
              SlotSound(prog, CheckMz(w, p), cur + 1, Regs)
         /\ BranchSound(prog, p, cur + 1) => BranchSound(prog, CheckTb(w, p), cur + 1)
         /\ AllSafe(prog, CheckEmits(w))
<1>1. cur \in Int
  BY WordsAssumption DEF TypeOK
<1>2. /\ cmp.on => cmp.reg = NZCV
      /\ cset.on => cset.reg \in Regs
      /\ mov.on => mov.reg \in Regs
      /\ fnl.on => fnl.reg \in Regs
  BY DEF SoundInv
<1>3. \A kind, t : Pair(kind, t).use = cur /\ Pair(kind, t).reg = t.reg
                   /\ Pair(kind, t).kind = kind
  BY DEF Pair
<1>4. AllSafe(prog, {})
  BY DEF AllSafe
<1>5. ASSUME SlotSound(prog, p, cur + 1, {NZCV})
      PROVE  SlotSound(prog, CheckPending(w, dead, p), cur + 1, {NZCV})
  <2>1. CASE CmpBranch(w, dead)
    <3>1. DeadFrom(prog, w.to, NZCV)
      BY <2>1 DEF CmpBranch, Verdict
    <3>2. Successors(prog[cur], cur) = {cur + 1, w.to}
      BY <2>1, SuccessorFacts DEF CmpBranch, CondBranchOps
    <3>3. Pair("cbz", cmp).reg = NZCV
      BY <1>2, <1>3, <2>1 DEF CmpBranch
    <3>4. SlotSound(prog, Defer(Pair("cbz", cmp), {}, w.to), cur + 1, {NZCV})
      BY <1>3, <1>4, <3>1, <3>2, <3>3, DeferSound
    <3>. QED
      BY <2>1, <3>4 DEF CheckPending
  <2>2. CASE ~CmpBranch(w, dead)
    BY <1>5, <2>2 DEF CheckPending
  <2>. QED
    BY <2>1, <2>2
<1>6. ASSUME SlotSound(prog, p, cur + 1, {NZCV})
      PROVE  SlotSound(prog, CheckDc(w, p), cur + 1, {NZCV})
  <2>1. CASE w.op \in {"cmp0", "cmp"}
    <3>1. Successors(prog[cur], cur) = {cur + 1}
      BY <2>1, SuccessorFacts DEF CondBranchOps
    <3>2. Pair("dc", Found(NZCV)).reg = NZCV
      BY <1>3 DEF Found
    <3>3. SlotSound(prog, Defer(Pair("dc", Found(NZCV)), {}, 0), cur + 1, {NZCV})
      BY <1>3, <1>4, <3>1, <3>2, DeferSound
    <3>. QED
      BY <2>1, <3>3 DEF CheckDc
  <2>2. CASE w.op \notin {"cmp0", "cmp"}
    BY <1>6, <2>2 DEF CheckDc
  <2>. QED
    BY <2>1, <2>2
<1>7. ASSUME SlotSound(prog, p, cur + 1, Regs)
      PROVE  SlotSound(prog, CheckMz(w, p), cur + 1, Regs)
  <2>1. w.op \in {"str", "orr", "eor"} => Successors(prog[cur], cur) = {cur + 1}
    BY SuccessorFacts DEF CondBranchOps
  <2>2. CASE MovZeroUse(w)
    <3>1. SlotSound(prog, Defer(Pair("zr", mov), {}, 0), cur + 1, Regs)
      BY <1>2, <1>3, <1>4, <2>1, <2>2, DeferSound DEF MovZeroUse
    <3>. QED
      BY <2>2, <3>1 DEF CheckMz, MovZeroUse, Funnel, CsetEor
  <2>3. CASE ~MovZeroUse(w) /\ Funnel(w) /\ fnl.reg \notin w.writes
    <3>1. SlotSound(prog, Defer(Pair("extr", fnl), {}, 0), cur + 1, Regs)
      BY <1>2, <1>3, <1>4, <2>1, <2>3, DeferSound DEF Funnel
    <3>. QED
      BY <2>3, <3>1 DEF CheckMz, MovZeroUse, Funnel, CsetEor
  <2>4. CASE ~MovZeroUse(w) /\ ~(Funnel(w) /\ fnl.reg \notin w.writes)
             /\ CsetEor(w) /\ cset.reg \notin w.writes
    <3>1. AllSafe(prog, {Pair("cset-fb", cset)})
      BY DowngradeSafe DEF AllSafe
    <3>2. SlotSound(prog, Defer(Pair("cset", cset), {Pair("cset-fb", cset)}, 0),
                    cur + 1, Regs)
      BY <1>2, <1>3, <2>1, <2>4, <3>1, DeferSound DEF CsetEor
    <3>. QED
      BY <2>4, <3>2 DEF CheckMz
  <2>5. CASE ~MovZeroUse(w) /\ ~(Funnel(w) /\ fnl.reg \notin w.writes)
             /\ ~(CsetEor(w) /\ cset.reg \notin w.writes)
    BY <1>7, <2>5 DEF CheckMz
  <2>. QED
    BY <2>2, <2>3, <2>4, <2>5
<1>8. ASSUME BranchSound(prog, p, cur + 1)
      PROVE  BranchSound(prog, CheckTb(w, p), cur + 1)
  <2>1. CASE CsetBranch(w) /\ Forward(w)
    <3>. DEFINE q == Defer(Pair("bcond", cset), {Pair("bcond-fb", cset)}, w.to)
    <3>1. /\ q.finding = Pair("bcond", cset)
          /\ q.fallback = {Pair("bcond-fb", cset)}
          /\ q.target = w.to
      BY DEF Defer
    <3>2. q.finding.use = cur /\ q.finding.reg \in Regs
      BY <1>2, <1>3, <2>1, <3>1 DEF CsetBranch
    <3>3. prog[cur].op = "cbz"
      BY <2>1 DEF CsetBranch, BranchReadsReg
    <3>4. \A t \in cur + 1 .. cur + 1 : t = cur + 1
      BY <1>1
    <3>5. cur + 1 <= cur + 1
      BY <1>1
    <3>6. \A f \in q.fallback : Safe(prog, f)
      BY <3>1, DowngradeSafe
    <3>. HIDE DEF q
    <3>7. BranchSound(prog, q, cur + 1)
      BY <3>1, <3>2, <3>3, <3>4, <3>5, <3>6 DEF BranchSound
    <3>. QED
      BY <2>1, <3>7 DEF CheckTb, q
  <2>2. CASE ~(CsetBranch(w) /\ Forward(w))
    BY <1>8, <2>2 DEF CheckTb
  <2>. QED
    BY <2>1, <2>2
<1>9. AllSafe(prog, CheckEmits(w))
  <2>1. Funnel(w) /\ fnl.reg \in w.writes => Safe(prog, Pair("extr", fnl))
    BY <1>3 DEF Safe, DeadAfterIn
  <2>2. CsetEor(w) /\ cset.reg \in w.writes => Safe(prog, Pair("cset", cset))
    BY <1>3 DEF Safe, DeadAfterIn
  <2>. QED
    BY <2>1, <2>2, DowngradeSafe DEF AllSafe, CheckEmits
<1>. QED
  BY <1>5, <1>6, <1>7, <1>8, <1>9

LEMMA TrackSound ==
  ASSUME TypeOK, cur \in Slots, NEW w \in Words, Track(w)
  PROVE  /\ cmp'.on => cmp'.reg = NZCV
         /\ \A t \in {cset', mov', fnl'} : t.on => t.reg \in Regs
<1>1. ~Off.on
  BY DEF Off
<1>2. \A r : Found(r).reg = r
  BY DEF Found
<1>3. w.op \in {"mov0", "cset", "lsl"} => Dest(w) \in Regs
  BY DestTyped
<1>4. cmp'.on => cmp'.reg = NZCV
  BY <1>1, <1>2 DEF Track
<1>5. (cset'.on => cset'.reg \in Regs) /\ (mov'.on => mov'.reg \in Regs)
  BY <1>1, <1>2, <1>3 DEF Track
<1>6. fnl'.on => fnl'.reg \in Regs
  BY <1>1, <1>2, <1>3 DEF Track
<1>. QED
  BY <1>4, <1>5, <1>6

-----------------------------------------------------------------------------
(* The invariant.                                                          *)

LEMMA SoundInit == Init => SoundInv
<1>. SUFFICES ASSUME Init PROVE SoundInv
  OBVIOUS
<1>1. ~Idle.on /\ ~Off.on
  BY DEF Idle, Off
<1>. QED
  BY <1>1 DEF Init, SoundInv, AllSafe, SlotSound, BranchSound

\* A flush reports downgrades, which need no proof, and drops the rest.
LEMMA FlushSound ==
  ASSUME SoundInv, Flush, prog' = prog
  PROVE  SoundInv'
<1>1. ~Idle.on /\ ~Off.on
  BY DEF Idle, Off
<1>2. AllSafe(prog, out')
  <2>1. mz.on => AllSafe(prog, mz.fallback)
    BY DEF SoundInv, SlotSound, AllSafe
  <2>2. tb.on => AllSafe(prog, tb.fallback)
    BY DEF SoundInv, BranchSound, AllSafe
  <2>. QED
    BY <2>1, <2>2 DEF Flush, Emit, AllSafe, SoundInv
<1>3. AllSafe(prog, out)'
  BY <1>2
<1>4. /\ SlotSound(prog, pending, cur, {NZCV})'
      /\ SlotSound(prog, dc, cur, {NZCV})'
      /\ SlotSound(prog, mz, cur, Regs)'
      /\ BranchSound(prog, tb, cur)'
  BY <1>1 DEF Flush, SlotSound, BranchSound
<1>5. (cmp.on => cmp.reg = NZCV)' /\ (\A t \in {cset, mov, fnl} : t.on => t.reg \in Regs)'
  BY <1>1 DEF Flush, SoundInv
<1>. QED
  BY <1>3, <1>4, <1>5 DEF SoundInv

LEMMA InstructionSound ==
  ASSUME TypeOK, SoundInv, Instruction
  PROVE  SoundInv'
<1>. DEFINE w == prog[cur]
<1>1. AtCode /\ prog' = prog /\ cur' = cur + 1
  BY DEF Instruction
<1>2. cur \in Slots /\ w \in Words
  BY <1>1, SlotFacts DEF AtCode
<1>3. PICK nd \in Verdict(w, NZCV), rd \in Verdict(w, mz.finding.reg) :
        /\ pending' = CheckPending(w, nd, AdvancePending(w).slot)
        /\ dc' = CheckDc(w, AdvancePendingDc(w).slot)
        /\ mz' = CheckMz(w, AdvancePendingMz(w, rd).slot)
        /\ tb' = CheckTb(w, AdvancePendingTb(w).slot)
        /\ Emit(AdvancePending(w).emit \cup AdvancePendingDc(w).emit
                \cup AdvancePendingMz(w, rd).emit \cup AdvancePendingTb(w).emit
                \cup CheckEmits(w))
        /\ Track(w)
  BY DEF Instruction
<1>4. w = prog[cur]
  OBVIOUS
<1>. HIDE DEF w
<1>5. /\ SoundResult(prog, AdvancePending(w), cur + 1, {NZCV})
      /\ SoundResult(prog, AdvancePendingDc(w), cur + 1, {NZCV})
  BY <1>1, <1>2, <1>4, FlagAdvance
<1>6. SoundResult(prog, AdvancePendingMz(w, rd), cur + 1, Regs)
  BY <1>1, <1>2, <1>4, RegAdvance
<1>7. BranchResult(prog, AdvancePendingTb(w), cur + 1)
  BY <1>1, <1>2, <1>4, BranchAdvance
<1>8. SlotSound(prog, pending', cur + 1, {NZCV})
  BY <1>1, <1>2, <1>3, <1>4, <1>5, CheckSound DEF SoundResult
<1>9. SlotSound(prog, dc', cur + 1, {NZCV})
  BY <1>1, <1>2, <1>3, <1>4, <1>5, CheckSound DEF SoundResult
<1>10. SlotSound(prog, mz', cur + 1, Regs)
  BY <1>1, <1>2, <1>3, <1>4, <1>6, CheckSound DEF SoundResult
<1>11. BranchSound(prog, tb', cur + 1)
  BY <1>1, <1>2, <1>3, <1>4, <1>7, CheckSound DEF BranchResult
<1>12. AllSafe(prog, out')
  <2>1. AllSafe(prog, CheckEmits(w))
    BY <1>1, <1>2, <1>3, <1>4, CheckSound
  <2>. QED
    BY <1>3, <1>5, <1>6, <1>7, <2>1 DEF Emit, AllSafe, SoundResult, BranchResult, SoundInv
<1>13. /\ cmp'.on => cmp'.reg = NZCV
       /\ \A t \in {cset', mov', fnl'} : t.on => t.reg \in Regs
  BY <1>2, <1>3, TrackSound
<1>14. /\ AllSafe(prog, out)'
       /\ SlotSound(prog, pending, cur, {NZCV})'
       /\ SlotSound(prog, dc, cur, {NZCV})'
       /\ SlotSound(prog, mz, cur, Regs)'
       /\ BranchSound(prog, tb, cur)'
  BY <1>1, <1>8, <1>9, <1>10, <1>11, <1>12
<1>. QED
  BY <1>13, <1>14 DEF SoundInv

LEMMA SoundNext ==
  ASSUME TypeOK, SoundInv, [Next]_vars
  PROVE  SoundInv'
<1>1. CASE SkipPool
  BY <1>1, FlushSound DEF SkipPool
<1>2. CASE SkipUndecodable
  BY <1>2, FlushSound DEF SkipUndecodable
<1>3. CASE Instruction
  BY <1>3, InstructionSound
<1>4. CASE EndOfBuffer
  BY <1>4, FlushSound DEF EndOfBuffer
<1>5. CASE UNCHANGED vars
  BY <1>5 DEF vars, trackers, slots, SoundInv, AllSafe, SlotSound, BranchSound
<1>. QED
  BY <1>1, <1>2, <1>3, <1>4, <1>5 DEF Next, Returned

LEMMA SoundIsFindingsSound == SoundInv => FindingsSound
BY DEF SoundInv, AllSafe, Safe, FindingsSound, DeadAfterIn

\* Every reported deletion is sound (README.md:29): in every buffer, of any
\* words, with any registers and any window, what the deleted word wrote is
\* dead after the rewritten consumer down every edge.
THEOREM DriverSound == Spec => []FindingsSound
<1>1. Init => TypeOK /\ SoundInv
  BY InitTyped, SoundInit
<1>2. TypeOK /\ SoundInv /\ [Next]_vars => (TypeOK /\ SoundInv)'
  BY NextTyped, SoundNext
<1>3. TypeOK /\ SoundInv => FindingsSound
  BY SoundIsFindingsSound
<1>. QED
  BY <1>1, <1>2, <1>3, PTL DEF Spec

-----------------------------------------------------------------------------
(* What an advancer may do with a slot.                                    *)

\* The findings a slot holds: the fold and the downgrade that backs it up.
Held(p) == IF p.on THEN {p.finding} \cup p.fallback ELSE {}
Top(p)  == IF p.on THEN {p.finding} ELSE {}

\* It is left as it was but for its window, or closed, with the fold or the
\* downgrade emitted.
Kept(p, res) ==
  /\ res.emit = {}
  /\ res.slot.on = p.on
  /\ res.slot.finding = p.finding
  /\ res.slot.fallback = p.fallback
Closed(p, res) == p.on /\ res.slot = Idle /\ res.emit \in {{p.finding}, p.fallback}
Advanced(p, res) == Kept(p, res) \/ Closed(p, res)

LEMMA SlotMoves ==
  ASSUME NEW p \in SlotType
  PROVE  /\ Kept(p, Stay(p))
         /\ p.on => Closed(p, Prove(p)) /\ Closed(p, Fail(p)) /\ Advanced(p, Tick(p))
<1>1. Kept(p, Stay(p))
  BY DEF Kept, Stay
<1>2. p.on => Closed(p, Prove(p)) /\ Closed(p, Fail(p))
  BY DEF Closed, Prove, Fail
<1>3. ASSUME p.on
      PROVE  Advanced(p, Tick(p))
  <2>1. CASE p.window <= 1
    BY <1>2, <1>3, <2>1 DEF Tick, Advanced
  <2>2. CASE ~(p.window <= 1)
    <3>. DEFINE q == [p EXCEPT !.window = @ - 1]
    <3>1. q.on = p.on /\ q.finding = p.finding /\ q.fallback = p.fallback
      BY <1>3, ActiveInUse DEF InUse
    <3>2. Tick(p) = Stay(q)
      BY <2>2 DEF Tick
    <3>. HIDE DEF q
    <3>3. Kept(p, Stay(q))
      BY <3>1 DEF Stay, Kept
    <3>. QED
      BY <3>2, <3>3 DEF Advanced
  <2>. QED
    BY <2>1, <2>2
<1>. QED
  BY <1>1, <1>2, <1>3

\* A control transfer never leaves the branch's slot open.
LEMMA SlotsAdvance ==
  ASSUME TypeOK, NEW w, NEW dead \in BOOLEAN
  PROVE  /\ Advanced(pending, AdvancePending(w))
         /\ Advanced(dc, AdvancePendingDc(w))
         /\ Advanced(mz, AdvancePendingMz(w, dead))
         /\ Advanced(tb, AdvancePendingTb(w))
         /\ tb.on /\ w.op \in TransferOps => Closed(tb, AdvancePendingTb(w))
<1>1. pending \in SlotType /\ dc \in SlotType /\ mz \in SlotType /\ tb \in SlotType
  BY DEF TypeOK
<1>2. ClassifyLiveness(w) \in Liveness
  BY GradeKinds
<1>3. \A r : ClassifyRegLiveness(w, r) \in Liveness \ {"TERM_SAFE"}
  BY GradeKinds
<1>4. Advanced(pending, AdvancePending(w))
  BY <1>1, <1>2, SlotMoves DEF AdvancePending, Liveness, Advanced
<1>5. Advanced(dc, AdvancePendingDc(w))
  BY <1>1, <1>2, SlotMoves DEF AdvancePendingDc, Liveness, Advanced
<1>6. Advanced(mz, AdvancePendingMz(w, dead))
  BY <1>1, <1>3, SlotMoves DEF AdvancePendingMz, Liveness, Advanced
<1>7. Advanced(tb, AdvancePendingTb(w))
  BY <1>1, <1>3, SlotMoves DEF AdvancePendingTb, Liveness, Advanced
<1>8. tb.on /\ w.op \in TransferOps => Closed(tb, AdvancePendingTb(w))
  BY <1>1, SlotMoves DEF AdvancePendingTb, ClassifyRegLiveness
<1>. QED
  BY <1>4, <1>5, <1>6, <1>7, <1>8

-----------------------------------------------------------------------------
(* What a check may do with a slot.                                        *)

\* The slot is left alone, or reopened on a finding whose consumer is the
\* word at cur.
Opened(p, kind, t, fb) ==
  p.on /\ p.finding = Pair(kind, t) /\ p.fallback = fb

LEMMA ChecksOpen ==
  ASSUME NEW w, NEW dead, NEW p
  PROVE  /\ \/ CheckPending(w, dead, p) = p
            \/ CmpBranch(w, dead) /\ Opened(CheckPending(w, dead, p), "cbz", cmp, {})
         /\ \/ CheckDc(w, p) = p
            \/ Opened(CheckDc(w, p), "dc", Found(NZCV), {})
         /\ \/ CheckMz(w, p) = p
            \/ MovZeroUse(w) /\ Opened(CheckMz(w, p), "zr", mov, {})
            \/ /\ Funnel(w) /\ fnl.reg \notin w.writes
               /\ Opened(CheckMz(w, p), "extr", fnl, {})
            \/ /\ CsetEor(w) /\ cset.reg \notin w.writes
               /\ Opened(CheckMz(w, p), "cset", cset, {Pair("cset-fb", cset)})
         /\ \/ CheckTb(w, p) = p
            \/ /\ CsetBranch(w) /\ Forward(w)
               /\ Opened(CheckTb(w, p), "bcond", cset, {Pair("bcond-fb", cset)})
<1>1. \A f, fb, t : LET q == Defer(f, fb, t)
                    IN  q.on /\ q.finding = f /\ q.fallback = fb
  BY DEF Defer
<1>2. \/ CheckPending(w, dead, p) = p
      \/ CmpBranch(w, dead) /\ Opened(CheckPending(w, dead, p), "cbz", cmp, {})
  BY <1>1 DEF CheckPending, Opened
<1>3. \/ CheckDc(w, p) = p
      \/ Opened(CheckDc(w, p), "dc", Found(NZCV), {})
  BY <1>1 DEF CheckDc, Opened
<1>4. \/ CheckMz(w, p) = p
      \/ MovZeroUse(w) /\ Opened(CheckMz(w, p), "zr", mov, {})
      \/ /\ Funnel(w) /\ fnl.reg \notin w.writes
         /\ Opened(CheckMz(w, p), "extr", fnl, {})
      \/ /\ CsetEor(w) /\ cset.reg \notin w.writes
         /\ Opened(CheckMz(w, p), "cset", cset, {Pair("cset-fb", cset)})
  <2>1. CASE MovZeroUse(w)
    BY <1>1, <2>1 DEF CheckMz, Opened, MovZeroUse, Funnel, CsetEor
  <2>2. CASE ~MovZeroUse(w) /\ Funnel(w) /\ fnl.reg \notin w.writes
    BY <1>1, <2>2 DEF CheckMz, Opened, Funnel, CsetEor
  <2>3. CASE /\ ~MovZeroUse(w) /\ ~(Funnel(w) /\ fnl.reg \notin w.writes)
             /\ CsetEor(w) /\ cset.reg \notin w.writes
    BY <1>1, <2>3 DEF CheckMz, Opened
  <2>4. CASE /\ ~MovZeroUse(w) /\ ~(Funnel(w) /\ fnl.reg \notin w.writes)
             /\ ~(CsetEor(w) /\ cset.reg \notin w.writes)
    BY <2>4 DEF CheckMz
  <2>. QED
    BY <2>1, <2>2, <2>3, <2>4
<1>5. \/ CheckTb(w, p) = p
      \/ /\ CsetBranch(w) /\ Forward(w)
         /\ Opened(CheckTb(w, p), "bcond", cset, {Pair("bcond-fb", cset)})
  BY <1>1 DEF CheckTb, Opened
<1>. QED
  BY <1>2, <1>3, <1>4, <1>5

\* One pass over the registry, in terms of the results of the advancers.
Pass(w, nd, r1, r2, r3, r4) ==
  /\ pending' = CheckPending(w, nd, r1.slot)
  /\ dc' = CheckDc(w, r2.slot)
  /\ mz' = CheckMz(w, r3.slot)
  /\ tb' = CheckTb(w, r4.slot)
  /\ Emit(r1.emit \cup r2.emit \cup r3.emit \cup r4.emit \cup CheckEmits(w))
  /\ Track(w)
  /\ Advanced(pending, r1)
  /\ Advanced(dc, r2)
  /\ Advanced(mz, r3)
  /\ Advanced(tb, r4)
  /\ tb.on /\ w.op \in TransferOps => Closed(tb, r4)

LEMMA InstructionPasses ==
  ASSUME TypeOK, Instruction
  PROVE  \E nd, r1, r2, r3, r4 : Pass(prog[cur], nd, r1, r2, r3, r4)
<1>. DEFINE w == prog[cur]
<1>1. PICK nd \in Verdict(w, NZCV), rd \in Verdict(w, mz.finding.reg) :
        /\ pending' = CheckPending(w, nd, AdvancePending(w).slot)
        /\ dc' = CheckDc(w, AdvancePendingDc(w).slot)
        /\ mz' = CheckMz(w, AdvancePendingMz(w, rd).slot)
        /\ tb' = CheckTb(w, AdvancePendingTb(w).slot)
        /\ Emit(AdvancePending(w).emit \cup AdvancePendingDc(w).emit
                \cup AdvancePendingMz(w, rd).emit \cup AdvancePendingTb(w).emit
                \cup CheckEmits(w))
        /\ Track(w)
  BY DEF Instruction
<1>2. rd \in BOOLEAN
  BY DEF Verdict
<1>. HIDE DEF w
<1>3. Pass(w, nd, AdvancePending(w), AdvancePendingDc(w), AdvancePendingMz(w, rd),
           AdvancePendingTb(w))
  BY <1>1, <1>2, SlotsAdvance DEF Pass
<1>. QED
  BY <1>3 DEF w

\* A flush closes everything but the funnel's tracker.
LEMMA FlushEffects ==
  ASSUME Flush
  PROVE  /\ pending' = Idle /\ dc' = Idle /\ mz' = Idle /\ tb' = Idle
         /\ cmp' = Off /\ cset' = Off /\ mov' = Off /\ fnl' = fnl
         /\ \/ tb.on /\ tb.fallback # {} /\ Emit(tb.fallback)
            \/ ~(tb.on /\ tb.fallback # {}) /\ mz.on /\ Emit(mz.fallback)
            \/ ~(tb.on /\ tb.fallback # {}) /\ ~mz.on /\ Emit({})
BY DEF Flush

-----------------------------------------------------------------------------
(* Proofs stop at gaps.                                                    *)

\* No gap between the match of a finding and slot c.
Clear(f, c) == (Matched(f) .. c - 1) \cap gaps = {}
ClearSlot(p, c) == \A f \in Held(p) : Clear(f, c)

\* A tracker armed across a flush would break the second conjunct, a slot
\* left open across one the third.  The funnel's tracker needs none: what it
\* matches counts from the consumer.
GapInv ==
  /\ gaps \subseteq 0 .. cur - 1
  /\ \A t \in {cmp, cset, mov} : t.on => t.at = cur - 1 /\ t.at \notin gaps
  /\ ClearSlot(pending, cur) /\ ClearSlot(dc, cur)
  /\ ClearSlot(mz, cur) /\ ClearSlot(tb, cur)

\* What the word at cur matches is clear up to and past it.
LEMMA FreshClear ==
  ASSUME TypeOK, GapInv, NEW kind, NEW t,
         \/ kind # "extr" /\ t \in {cmp, cset, mov} /\ t.on
         \/ kind # "extr" /\ t = Found(NZCV)
         \/ kind = "extr"
  PROVE  Clear(Pair(kind, t), cur) /\ Clear(Pair(kind, t), cur + 1)
<1>1. cur \in Int /\ cur \notin gaps
  BY WordsAssumption DEF TypeOK, GapInv
<1>2. Matched(Pair(kind, t)) \in {cur - 1, cur} /\ Matched(Pair(kind, t)) \notin gaps
  BY <1>1 DEF GapInv, Matched, Pair, Found
<1>3. \A m \in {cur - 1, cur} : (m .. cur) \subseteq {m, cur} /\ (m .. cur - 1) \subseteq {m}
  BY <1>1
<1>4. cur + 1 - 1 = cur
  BY <1>1
<1>. QED
  BY <1>1, <1>2, <1>3, <1>4 DEF Clear

LEMMA AdvanceClear ==
  ASSUME TypeOK, GapInv, NEW p, NEW res, ClearSlot(p, cur), Advanced(p, res)
  PROVE  ClearSlot(res.slot, cur + 1) /\ \A f \in res.emit : Clear(f, cur)
<1>1. cur \in Int /\ cur \notin gaps
  BY WordsAssumption DEF TypeOK, GapInv
<1>2. \A m : (m .. cur + 1 - 1) \subseteq (m .. cur - 1) \cup {cur}
  BY <1>1
<1>3. \A f : Clear(f, cur) => Clear(f, cur + 1)
  BY <1>1, <1>2 DEF Clear
<1>4. Held(Idle) = {}
  BY DEF Held, Idle
<1>5. CASE Kept(p, res)
  <2>1. Held(res.slot) = Held(p)
    BY <1>5 DEF Kept, Held
  <2>. QED
    BY <1>3, <1>5, <2>1 DEF Kept, ClearSlot
<1>6. CASE Closed(p, res)
  <2>1. res.emit \subseteq Held(p)
    BY <1>6 DEF Closed, Held
  <2>. QED
    BY <1>4, <1>6, <2>1 DEF Closed, ClearSlot
<1>. QED
  BY <1>5, <1>6 DEF Advanced

\* The slots after the checks hold what they held or what they match now.
LEMMA CheckClear ==
  ASSUME TypeOK, GapInv, NEW w, NEW nd, NEW p, ClearSlot(p, cur + 1)
  PROVE  /\ ClearSlot(CheckPending(w, nd, p), cur + 1)
         /\ ClearSlot(CheckDc(w, p), cur + 1)
         /\ ClearSlot(CheckMz(w, p), cur + 1)
         /\ ClearSlot(CheckTb(w, p), cur + 1)
         /\ \A f \in CheckEmits(w) : Clear(f, cur)
<1>1. \A t \in {cmp, cset, mov} : t.on =>
        \A kind \in {"cbz", "zr", "cset", "cset-fb", "bcond", "bcond-fb"} :
          Clear(Pair(kind, t), cur) /\ Clear(Pair(kind, t), cur + 1)
  BY FreshClear
<1>2. Clear(Pair("dc", Found(NZCV)), cur + 1)
  BY FreshClear
<1>3. Clear(Pair("extr", fnl), cur) /\ Clear(Pair("extr", fnl), cur + 1)
  BY FreshClear
<1>4. \A q, kind, t, fb : Opened(q, kind, t, fb) => Held(q) = {Pair(kind, t)} \cup fb
  BY DEF Opened, Held
<1>5. ClearSlot(CheckPending(w, nd, p), cur + 1)
  <2>1. CmpBranch(w, nd) => cmp.on
    BY DEF CmpBranch
  <2>. QED
    BY <1>1, <1>4, <2>1, ChecksOpen DEF ClearSlot
<1>6. ClearSlot(CheckDc(w, p), cur + 1)
  BY <1>2, <1>4, ChecksOpen DEF ClearSlot
<1>7. (CsetEor(w) => cset.on) /\ (CsetBranch(w) => cset.on) /\ (MovZeroUse(w) => mov.on)
  BY DEF CsetEor, CsetBranch, MovZeroUse
<1>8. ClearSlot(CheckMz(w, p), cur + 1)
  <2>1. CASE CheckMz(w, p) = p
    BY <2>1
  <2>2. CASE MovZeroUse(w) /\ Opened(CheckMz(w, p), "zr", mov, {})
    BY <1>1, <1>4, <1>7, <2>2 DEF ClearSlot
  <2>3. CASE Opened(CheckMz(w, p), "extr", fnl, {})
    BY <1>3, <1>4, <2>3 DEF ClearSlot
  <2>4. CASE CsetEor(w) /\ Opened(CheckMz(w, p), "cset", cset, {Pair("cset-fb", cset)})
    BY <1>1, <1>4, <1>7, <2>4 DEF ClearSlot
  <2>. QED
    BY <2>1, <2>2, <2>3, <2>4, ChecksOpen
<1>9. ClearSlot(CheckTb(w, p), cur + 1)
  BY <1>1, <1>4, <1>7, ChecksOpen DEF ClearSlot
<1>10. \A f \in CheckEmits(w) : Clear(f, cur)
  BY <1>1, <1>3, <1>7 DEF CheckEmits
<1>. QED
  BY <1>5, <1>6, <1>8, <1>9, <1>10

\* A step of the driver: the findings it emits are clear, the invariant stays.
NewClear == \A f \in out' \ out : Clear(f, cur)

LEMMA FlushClear ==
  ASSUME GapInv, Flush, gaps' \subseteq 0 .. cur' - 1
  PROVE  NewClear /\ GapInv'
<1>1. /\ pending' = Idle /\ dc' = Idle /\ mz' = Idle /\ tb' = Idle
      /\ cmp' = Off /\ cset' = Off /\ mov' = Off
  BY FlushEffects
<1>2. Held(Idle) = {} /\ ~Off.on
  BY DEF Held, Idle, Off
<1>3. GapInv'
  BY <1>1, <1>2 DEF GapInv, ClearSlot
<1>4. out' \ out \subseteq Held(mz) \cup Held(tb)
  BY FlushEffects DEF Emit, Held
<1>. QED
  BY <1>3, <1>4 DEF NewClear, GapInv, ClearSlot

LEMMA InstructionClear ==
  ASSUME TypeOK, GapInv, Instruction
  PROVE  NewClear /\ GapInv'
<1>. DEFINE w == prog[cur]
<1>1. PICK nd, r1, r2, r3, r4 : Pass(w, nd, r1, r2, r3, r4)
  BY InstructionPasses
<1>. HIDE DEF w
<1>2. cur' = cur + 1 /\ gaps' = gaps /\ cur \in Int
  BY WordsAssumption DEF Instruction, TypeOK
<1>3. /\ ClearSlot(r1.slot, cur + 1) /\ \A f \in r1.emit : Clear(f, cur)
      /\ ClearSlot(r2.slot, cur + 1) /\ \A f \in r2.emit : Clear(f, cur)
      /\ ClearSlot(r3.slot, cur + 1) /\ \A f \in r3.emit : Clear(f, cur)
      /\ ClearSlot(r4.slot, cur + 1) /\ \A f \in r4.emit : Clear(f, cur)
  BY <1>1, AdvanceClear DEF Pass, GapInv
<1>4. NewClear
  <2>1. \A f \in CheckEmits(w) : Clear(f, cur)
    BY <1>3, CheckClear
  <2>2. out' \ out \subseteq r1.emit \cup r2.emit \cup r3.emit \cup r4.emit \cup CheckEmits(w)
    BY <1>1 DEF Pass, Emit
  <2>. QED
    BY <1>3, <2>1, <2>2 DEF NewClear
<1>5. /\ ClearSlot(pending', cur + 1) /\ ClearSlot(dc', cur + 1)
      /\ ClearSlot(mz', cur + 1) /\ ClearSlot(tb', cur + 1)
  BY <1>1, <1>3, CheckClear DEF Pass
<1>6. /\ ClearSlot(pending, cur)' /\ ClearSlot(dc, cur)'
      /\ ClearSlot(mz, cur)' /\ ClearSlot(tb, cur)'
  BY <1>2, <1>5 DEF ClearSlot, Clear, Held, Matched
<1>7. gaps' \subseteq 0 .. cur' - 1
  BY <1>2 DEF GapInv
<1>8. \A t \in {cmp', cset', mov'} : t.on => t.at = cur' - 1 /\ t.at \notin gaps'
  <2>1. cur \notin gaps
    BY <1>2 DEF GapInv
  <2>2. \A r : Found(r).at = cur
    BY DEF Found
  <2>3. \A t \in {cmp', cset', mov'} : t = Off \/ \E r : t = Found(r)
    BY <1>1 DEF Pass, Track
  <2>4. ~Off.on
    BY DEF Off
  <2>. QED
    BY <1>2, <2>1, <2>2, <2>3, <2>4
<1>. QED
  BY <1>4, <1>6, <1>7, <1>8 DEF GapInv

LEMMA StepClear ==
  ASSUME TypeOK, GapInv, [Next]_vars
  PROVE  NewClear /\ GapInv'
<1>1. cur \in Int
  BY WordsAssumption DEF TypeOK
<1>2. CASE SkipPool
  <2>1. cur' \in cur + 1 .. N /\ N \in Int
    BY <1>2, WordsAssumption DEF SkipPool, IsPool, NextSlot, TypeOK
  <2>2. cur' \in Int /\ cur <= cur' /\ 0 <= cur
    BY <1>1, <2>1 DEF TypeOK
  <2>3. \A a, b, c \in Int :
          0 <= a /\ c <= b => (0 .. c - 1) \subseteq (0 .. b - 1) /\ (a .. b - 1) \subseteq (0 .. b - 1)
    OBVIOUS
  <2>4. (0 .. cur - 1) \subseteq (0 .. cur' - 1) /\ (cur .. cur' - 1) \subseteq (0 .. cur' - 1)
    BY <1>1, <2>2, <2>3
  <2>5. gaps' \subseteq 0 .. cur' - 1
    BY <1>2, <2>4 DEF SkipPool, GapInv
  <2>. QED
    BY <1>2, <2>5, FlushClear DEF SkipPool
<1>3. CASE SkipUndecodable
  <2>1. 0 <= cur
    BY WordsAssumption DEF TypeOK
  <2>2. gaps' \subseteq 0 .. cur' - 1
    BY <1>1, <1>3, <2>1 DEF SkipUndecodable, GapInv
  <2>. QED
    BY <1>3, <2>2, FlushClear DEF SkipUndecodable
<1>4. CASE Instruction
  BY <1>4, InstructionClear
<1>5. CASE EndOfBuffer
  BY <1>5, FlushClear DEF EndOfBuffer, GapInv
<1>6. CASE UNCHANGED vars
  <2>1. UNCHANGED <<cur, cmp, cset, mov, pending, dc, mz, tb, out, gaps>>
    BY <1>6 DEF vars, trackers, slots
  <2>. QED
    BY <2>1 DEF NewClear, GapInv, ClearSlot, Clear, Held, Matched
<1>. QED
  BY <1>2, <1>3, <1>4, <1>5, <1>6 DEF Next, Returned

LEMMA InitClear == Init => GapInv
BY DEF Init, GapInv, ClearSlot, Held, Off, Idle

\* In every buffer armlint_flush (armlint.c:1781) ends every proof: a finding
\* is emitted only when no word skipped as data lies between its match -- for
\* the funnel, its consumer -- and the word that proves it.
THEOREM ProofsEndAtGaps == Spec => ProofsStopAtGaps
<1>1. Init => TypeOK /\ GapInv
  BY InitTyped, InitClear
<1>2. TypeOK /\ GapInv /\ [Next]_vars => (TypeOK /\ GapInv)'
  BY NextTyped, StepClear
<1>3. TypeOK /\ GapInv /\ [Next]_vars =>
        [\A f \in out' \ out : (Matched(f) .. cur - 1) \cap gaps = {}]_vars
  BY StepClear DEF NewClear, Clear
<1>. QED
  BY <1>1, <1>2, <1>3, PTL DEF Spec, ProofsStopAtGaps

-----------------------------------------------------------------------------
(* No downgrade is lost.                                                   *)

\* A downgrade is held only by a slot in use.
LEMMA FallbackOn ==
  ASSUME NEW p \in SlotType, p.fallback # {}
  PROVE  p.on
<1>1. Idle.fallback = {}
  BY DEF Idle
<1>2. p \in InUse
  BY <1>1 DEF SlotType
<1>. QED
  BY <1>2 DEF InUse

\* What an emission asks for is reported or gated.
LEMMA EmitSettles ==
  ASSUME NEW p, NEW F, Emit(F), F \cap (p.fallback \cup {p.finding}) # {}
  PROVE  Settled(p)
BY DEF Emit, Settled

KeptMz ==
  mz.fallback # {} /\ mz'.fallback # mz.fallback =>
    \/ Settled(mz)
    \/ mz'.on /\ mz'.finding.use = cur
    \/ Flushed /\ tb.fallback # {}
KeptTb == tb.fallback # {} /\ tb'.fallback # tb.fallback => Settled(tb)

LEMMA FlushKeeps ==
  ASSUME TypeOK, Flush, Flushed
  PROVE  KeptMz /\ KeptTb
<1>1. mz \in SlotType /\ tb \in SlotType
  BY DEF TypeOK
<1>2. ASSUME mz.fallback # {}
      PROVE  Settled(mz) \/ (Flushed /\ tb.fallback # {})
  <2>1. CASE tb.on /\ tb.fallback # {}
    BY <2>1
  <2>2. CASE ~(tb.on /\ tb.fallback # {})
    BY <1>1, <1>2, <2>2, FallbackOn, FlushEffects, EmitSettles
  <2>. QED
    BY <2>1, <2>2
<1>3. ASSUME tb.fallback # {}
      PROVE  Settled(tb)
  BY <1>1, <1>3, FallbackOn, FlushEffects, EmitSettles
<1>. QED
  BY <1>2, <1>3 DEF KeptMz, KeptTb

LEMMA InstructionKeeps ==
  ASSUME TypeOK, Instruction
  PROVE  KeptMz /\ KeptTb
<1>. DEFINE w == prog[cur]
<1>1. PICK nd, r1, r2, r3, r4 : Pass(w, nd, r1, r2, r3, r4)
  BY InstructionPasses
<1>. HIDE DEF w
<1>. DEFINE E == r1.emit \cup r2.emit \cup r3.emit \cup r4.emit \cup CheckEmits(w)
<1>2. Emit(E)
  BY <1>1 DEF Pass
<1>3. r3.emit \subseteq E /\ r4.emit \subseteq E
  OBVIOUS
<1>. HIDE DEF E
<1>4. mz \in SlotType /\ tb \in SlotType
  BY DEF TypeOK
<1>5. \A p, res : p.fallback # {} /\ Closed(p, res) =>
        res.emit # {} /\ res.emit \subseteq p.fallback \cup {p.finding}
  BY DEF Closed
<1>6. KeptMz
  <2>1. SUFFICES ASSUME mz.fallback # {}, mz'.fallback # mz.fallback
                 PROVE  Settled(mz) \/ (mz'.on /\ mz'.finding.use = cur)
    BY DEF KeptMz
  <2>2. CASE Closed(mz, r3)
    BY <1>2, <1>3, <1>5, <2>1, <2>2, EmitSettles
  <2>3. CASE Kept(mz, r3)
    <3>1. mz' # r3.slot
      BY <2>1, <2>3 DEF Kept
    <3>2. \E kind, t, fb : Opened(mz', kind, t, fb)
      BY <1>1, <3>1, ChecksOpen DEF Pass
    <3>. QED
      BY <3>2 DEF Opened, Pair
  <2>. QED
    BY <1>1, <2>2, <2>3 DEF Pass, Advanced
<1>7. KeptTb
  <2>1. SUFFICES ASSUME tb.fallback # {}, tb'.fallback # tb.fallback
                 PROVE  Settled(tb)
    BY DEF KeptTb
  <2>2. CASE Closed(tb, r4)
    BY <1>2, <1>3, <1>5, <2>1, <2>2, EmitSettles
  <2>3. CASE ~Closed(tb, r4)
    <3>1. w.op \notin TransferOps
      BY <1>1, <1>4, <2>1, <2>3, FallbackOn DEF Pass
    <3>2. ~CsetBranch(w)
      BY <3>1 DEF CsetBranch, BranchReadsReg, TransferOps, CondBranchOps
    <3>3. tb' = r4.slot
      BY <1>1, <3>2, ChecksOpen DEF Pass
    <3>. QED
      BY <1>1, <2>1, <2>3, <3>3 DEF Pass, Advanced, Kept
  <2>. QED
    BY <2>2, <2>3
<1>. QED
  BY <1>6, <1>7

LEMMA StepKeeps ==
  ASSUME TypeOK, [Next]_vars
  PROVE  KeptMz /\ KeptTb
<1>1. CASE SkipPool
  <2>1. cur \in Int /\ cur' \in Int /\ cur + 1 <= cur'
    BY <1>1, WordsAssumption DEF SkipPool, IsPool, NextSlot, TypeOK
  <2>2. \A a, b \in Int : a + 1 <= b => a \in a .. b - 1
    OBVIOUS
  <2>3. Flushed
    BY <1>1, <2>1, <2>2 DEF SkipPool, Flushed
  <2>. QED
    BY <1>1, <2>3, FlushKeeps DEF SkipPool
<1>2. CASE SkipUndecodable
  BY <1>2, FlushKeeps DEF SkipUndecodable, Flushed
<1>3. CASE Instruction
  BY <1>3, InstructionKeeps
<1>4. CASE EndOfBuffer
  BY <1>4, FlushKeeps DEF EndOfBuffer, Flushed
<1>5. CASE UNCHANGED vars
  BY <1>5 DEF vars, trackers, slots, KeptMz, KeptTb
<1>. QED
  BY <1>1, <1>2, <1>3, <1>4, <1>5 DEF Next, Returned

\* A downgrade is complete without the proof it backs up and is never lost
\* with it: the branch's is always reported or gated when its slot changes
\* hands, the register's unless another deferral takes the slot or a flush
\* reports the branch's instead (pending_mz_fallback, pending_tb_fallback).
THEOREM DowngradesKept == Spec => FallbackKept
<1>1. Init => TypeOK
  BY InitTyped
<1>2. TypeOK /\ [Next]_vars => TypeOK'
  BY NextTyped
<1>3. TypeOK /\ [Next]_vars =>
        [/\ mz.fallback # {} /\ mz'.fallback # mz.fallback =>
              \/ Settled(mz)
              \/ mz'.on /\ mz'.finding.use = cur
              \/ Flushed /\ tb.fallback # {}
         /\ tb.fallback # {} /\ tb'.fallback # tb.fallback => Settled(tb)]_vars
  BY StepKeeps DEF KeptMz, KeptTb
<1>. QED
  BY <1>1, <1>2, <1>3, PTL DEF Spec, FallbackKept

-----------------------------------------------------------------------------
(* Each pair once.                                                         *)

\* No finding of F is for the pair of one of G; those of F differ in pair.
Apart(F, G) == \A f \in F, g \in G : ~SamePair(f, g)
Single(F)   == \A f, g \in F : SamePair(f, g) => f = g
Before(F, c) == \A f \in F : f.use < c

\* A slot's downgrade is one finding at most, for the pair of its fold.
Backed(p) ==
  p.on => /\ \A f \in p.fallback : SamePair(f, p.finding)
          /\ \A f, g \in p.fallback : f = g

\* The pairs of the findings reported and of those the slots hold differ.
PairInv ==
  /\ Single(out) /\ Before(out, cur)
  /\ \A p \in {pending, dc, mz, tb} : Backed(p) /\ Before(Top(p), cur) /\ Apart(out, Top(p))
  /\ Apart(Top(pending), Top(dc)) /\ Apart(Top(pending), Top(mz)) /\ Apart(Top(pending), Top(tb))
  /\ Apart(Top(dc), Top(mz)) /\ Apart(Top(dc), Top(tb)) /\ Apart(Top(mz), Top(tb))
  /\ \A t \in {cmp, cset, mov, fnl} : t.on => t.at < cur

\* Every finding of G is for the pair of one of F.
Covers(F, G) == \A g \in G : \E f \in F : SamePair(f, g)

LEMMA CoveredApart ==
  ASSUME NEW F, NEW F1, NEW G, NEW G1, Apart(F, G), Covers(F, F1), Covers(G, G1)
  PROVE  Apart(F1, G1)
BY DEF Apart, Covers, SamePair

LEMMA CoveredBefore ==
  ASSUME NEW F, NEW F1, NEW c, Before(F, c), Covers(F, F1)
  PROVE  Before(F1, c)
BY DEF Before, Covers, SamePair

\* An advancer keeps a slot's pair: it stays, or is emitted once, as the fold
\* or as the downgrade.
LEMMA AdvancePairs ==
  ASSUME NEW p, NEW res, Backed(p), Advanced(p, res)
  PROVE  /\ Covers(Top(p), res.emit) /\ Covers(Top(p), Top(res.slot))
         /\ Single(res.emit) /\ Apart(res.emit, Top(res.slot))
         /\ Backed(res.slot)
<1>1. Top(Idle) = {} /\ Backed(Idle)
  BY DEF Top, Idle, Backed
<1>2. CASE Kept(p, res)
  <2>1. Top(res.slot) = Top(p) /\ Backed(res.slot)
    BY <1>2 DEF Kept, Top, Backed
  <2>. QED
    BY <1>2, <2>1 DEF Kept, Covers, Single, Apart, SamePair
<1>3. CASE Closed(p, res)
  <2>1. Top(p) = {p.finding} /\ res.slot = Idle
    BY <1>3 DEF Closed, Top
  <2>2. Covers(Top(p), res.emit)
    BY <1>3, <2>1 DEF Closed, Covers, Backed, SamePair
  <2>3. Single(res.emit)
    BY <1>3 DEF Closed, Single, Backed
  <2>. QED
    BY <1>1, <2>1, <2>2, <2>3 DEF Covers, Apart
<1>. QED
  BY <1>2, <1>3 DEF Advanced

\* Reporting findings for new pairs, or for pairs no longer held.
LEMMA ReportsGrow ==
  ASSUME NEW F, NEW c, NEW d, c \in Int, d \in Int, c <= d, F \cup out \subseteq Findings,
         Emit(F), Single(F), Single(out), Apart(out, F), Before(F, d), Before(out, c)
  PROVE  Single(out') /\ Before(out', d)
<1>1. out' \subseteq out \cup F
  BY DEF Emit
<1>2. Before(out, d)
  <2>1. \A f \in out : f.use \in Int
    BY DEF Findings, Slots
  <2>. QED
    BY <2>1 DEF Before
<1>3. \A f, g : SamePair(f, g) => SamePair(g, f)
  BY DEF SamePair
<1>. QED
  BY <1>1, <1>2, <1>3 DEF Single, Apart, Before

LEMMA FlushPairs ==
  ASSUME TypeOK, PairInv, Flush, cur' \in Int, cur <= cur'
  PROVE  PairInv'
<1>1. /\ pending' = Idle /\ dc' = Idle /\ mz' = Idle /\ tb' = Idle
      /\ cmp' = Off /\ cset' = Off /\ mov' = Off /\ fnl' = fnl
  BY FlushEffects
<1>2. ~Idle.on /\ Top(Idle) = {} /\ Backed(Idle) /\ ~Off.on
  BY DEF Top, Idle, Backed, Off
<1>3. cur \in Int /\ out \subseteq Findings /\ (fnl.on => fnl.at \in Int)
  <2>1. cur \in Int /\ out \subseteq Findings /\ fnl \in Tracker
    BY WordsAssumption DEF TypeOK
  <2>2. fnl.on => fnl # Off
    BY DEF Off
  <2>3. fnl.on => fnl.at \in Slots
    BY <2>1, <2>2 DEF Tracker
  <2>4. \A o \in Slots : o \in Int
    BY DEF Slots
  <2>. QED
    BY <2>1, <2>3, <2>4
<1>4. PICK p, F : /\ p \in {mz, tb} /\ Emit(F)
                  /\ F = {} \/ (p.on /\ F = p.fallback)
  BY FlushEffects
<1>5. F \subseteq Findings
  <2>1. p \in SlotType
    BY <1>4 DEF TypeOK
  <2>. QED
    BY <1>4, <2>1, ActiveInUse DEF InUse
<1>6. Covers(Top(p), F) /\ Single(F)
  BY <1>4 DEF PairInv, Covers, Top, Backed, Single, SamePair
<1>7. Apart(out, F)
  <2>1. Apart(out, Top(p)) /\ Covers(out, out)
    BY <1>4 DEF PairInv, Covers, SamePair
  <2>. QED
    BY <1>6, <2>1, CoveredApart
<1>8. Before(F, cur) /\ Before(F, cur')
  <2>1. Before(F, cur)
    BY <1>4, <1>6, CoveredBefore DEF PairInv
  <2>2. \A f \in F : f.use \in Int
    BY <1>5 DEF Findings, Slots
  <2>. QED
    BY <1>3, <2>1, <2>2 DEF Before
<1>9. Single(out') /\ Before(out', cur')
  BY <1>3, <1>4, <1>5, <1>6, <1>7, <1>8, ReportsGrow DEF PairInv
<1>10. \A F1, c : Before({}, c) /\ Apart(F1, {}) /\ Apart({}, F1)
  BY DEF Before, Apart
<1>11. \A q \in {pending', dc', mz', tb'} : Top(q) = {} /\ Backed(q)
  BY <1>1, <1>2
<1>12. \A t \in {cmp', cset', mov', fnl'} : t.on => t.at < cur'
  BY <1>1, <1>2, <1>3 DEF PairInv
<1>. QED
  BY <1>9, <1>10, <1>11, <1>12 DEF PairInv, Top, Backed, Before, Apart, Single, SamePair

-----------------------------------------------------------------------------
(* One word opens or completes one pair at most, the dead compare's apart. *)

\* A check leaves the slot p as it is, or opens it as q on a word of the
\* given kinds; only a dead compare starts at the word itself.
Opens(q, p, ops, w) ==
  \/ q = p
  \/ /\ q.on /\ q.finding.use = cur /\ Backed(q)
     /\ w.op \in ops /\ q.finding.start < cur
OpensDc(q, p) ==
  \/ q = p
  \/ q.on /\ q.finding.use = cur /\ q.finding.start = cur /\ Backed(q)

LEMMA ChecksPair ==
  ASSUME PairInv, NEW w, NEW nd, NEW p, NEW z, NEW t, cur \in Int
  PROVE  /\ Opens(CheckPending(w, nd, p), p, {"bcond"}, w)
         /\ OpensDc(CheckDc(w, p), p)
         /\ Opens(CheckMz(w, z), z, {"str", "orr", "eor"}, w)
         /\ Opens(CheckTb(w, t), t, {"cbz"}, w)
         /\ CheckMz(w, z) # z \/ CheckTb(w, t) # t => CheckEmits(w) = {}
         /\ CheckEmits(w) # {} => w.op \in {"orr", "eor", "cbz"}
         /\ Single(CheckEmits(w))
         /\ \A f \in CheckEmits(w) : f.use = cur /\ f.start < cur
<1>1. \A kind, s : Pair(kind, s).start = s.at /\ Pair(kind, s).use = cur
  BY DEF Pair
<1>2. \A q, kind, s, fb : Opened(q, kind, s, fb) =>
        q.on /\ q.finding = Pair(kind, s) /\ q.fallback = fb
  BY DEF Opened
<1>3. \A q, kind, s : Opened(q, kind, s, {}) => Backed(q)
  BY <1>2 DEF Backed
<1>4. \A q, k1, k2, s : Opened(q, k1, s, {Pair(k2, s)}) => Backed(q)
  BY <1>1, <1>2 DEF Backed, SamePair
<1>5. \A s \in {cmp, cset, mov, fnl} : s.on => s.at < cur
  BY DEF PairInv
<1>6. /\ CmpBranch(w, nd) => cmp.on /\ w.op = "bcond"
      /\ MovZeroUse(w) => mov.on /\ w.op = "str"
      /\ Funnel(w) => fnl.on /\ w.op = "orr"
      /\ CsetEor(w) => cset.on /\ w.op = "eor"
      /\ CsetBranch(w) => cset.on /\ w.op = "cbz"
  BY DEF CmpBranch, MovZeroUse, Funnel, CsetEor, CsetBranch, BranchReadsReg
<1>7. Opens(CheckPending(w, nd, p), p, {"bcond"}, w)
  BY <1>1, <1>2, <1>3, <1>5, <1>6, ChecksOpen DEF Opens
<1>8. OpensDc(CheckDc(w, p), p)
  <2>1. Found(NZCV).at = cur
    BY DEF Found
  <2>. QED
    BY <1>1, <1>2, <1>3, <2>1, ChecksOpen DEF OpensDc
<1>9. Opens(CheckMz(w, z), z, {"str", "orr", "eor"}, w)
  <2>1. CASE CheckMz(w, z) = z
    BY <2>1 DEF Opens
  <2>2. CASE MovZeroUse(w) /\ Opened(CheckMz(w, z), "zr", mov, {})
    BY <1>1, <1>2, <1>3, <1>5, <1>6, <2>2 DEF Opens
  <2>3. CASE Funnel(w) /\ Opened(CheckMz(w, z), "extr", fnl, {})
    BY <1>1, <1>2, <1>3, <1>5, <1>6, <2>3 DEF Opens
  <2>4. CASE CsetEor(w) /\ Opened(CheckMz(w, z), "cset", cset, {Pair("cset-fb", cset)})
    BY <1>1, <1>2, <1>4, <1>5, <1>6, <2>4 DEF Opens
  <2>. QED
    BY <2>1, <2>2, <2>3, <2>4, ChecksOpen
<1>10. Opens(CheckTb(w, t), t, {"cbz"}, w)
  BY <1>1, <1>2, <1>4, <1>5, <1>6, ChecksOpen DEF Opens
<1>11. CheckEmits(w) # {} => w.op \in {"orr", "eor", "cbz"}
  BY <1>6 DEF CheckEmits
<1>12. CheckMz(w, z) # z => CheckEmits(w) = {}
  BY <1>6, ChecksOpen DEF CheckEmits
<1>13. CheckTb(w, t) # t => CheckEmits(w) = {}
  BY <1>6, ChecksOpen DEF CheckEmits
<1>14. Single(CheckEmits(w))
  BY <1>6 DEF CheckEmits, Single
<1>15. \A f \in CheckEmits(w) : f.use = cur /\ f.start < cur
  BY <1>1, <1>5, <1>6 DEF CheckEmits
<1>. QED
  BY <1>7, <1>8, <1>9, <1>10, <1>11, <1>12, <1>13, <1>14, <1>15

LEMMA InstructionPairs ==
  ASSUME TypeOK, TypeOK', PairInv, Instruction
  PROVE  PairInv'
<1>. DEFINE w == prog[cur]
<1>1. PICK nd, r1, r2, r3, r4 : Pass(w, nd, r1, r2, r3, r4)
  BY InstructionPasses
<1>. HIDE DEF w
<1>. DEFINE C == CheckEmits(w)
            E == r1.emit \cup r2.emit \cup r3.emit \cup r4.emit
<1>2. cur \in Int /\ cur' = cur + 1
  BY WordsAssumption DEF Instruction, TypeOK
<1>3. \A F : Covers(F, F)
  BY DEF Covers, SamePair
<1>4. /\ Covers(Top(pending), r1.emit) /\ Covers(Top(pending), Top(r1.slot))
      /\ Single(r1.emit) /\ Apart(r1.emit, Top(r1.slot)) /\ Backed(r1.slot)
  BY <1>1, AdvancePairs DEF Pass, PairInv
<1>5. /\ Covers(Top(dc), r2.emit) /\ Covers(Top(dc), Top(r2.slot))
      /\ Single(r2.emit) /\ Apart(r2.emit, Top(r2.slot)) /\ Backed(r2.slot)
  BY <1>1, AdvancePairs DEF Pass, PairInv
<1>6. /\ Covers(Top(mz), r3.emit) /\ Covers(Top(mz), Top(r3.slot))
      /\ Single(r3.emit) /\ Apart(r3.emit, Top(r3.slot)) /\ Backed(r3.slot)
  BY <1>1, AdvancePairs DEF Pass, PairInv
<1>7. /\ Covers(Top(tb), r4.emit) /\ Covers(Top(tb), Top(r4.slot))
      /\ Single(r4.emit) /\ Apart(r4.emit, Top(r4.slot)) /\ Backed(r4.slot)
  BY <1>1, AdvancePairs DEF Pass, PairInv
<1>8. \A F, G : Apart(F, G) => Apart(G, F)
  BY DEF Apart, SamePair
<1>9. /\ Apart(Top(r1.slot), Top(r2.slot)) /\ Apart(Top(r1.slot), Top(r3.slot))
      /\ Apart(Top(r1.slot), Top(r4.slot)) /\ Apart(Top(r2.slot), Top(r3.slot))
      /\ Apart(Top(r2.slot), Top(r4.slot)) /\ Apart(Top(r3.slot), Top(r4.slot))
  BY <1>4, <1>5, <1>6, <1>7, CoveredApart DEF PairInv
<1>10. /\ Apart(r1.emit, r2.emit) /\ Apart(r1.emit, r3.emit) /\ Apart(r1.emit, r4.emit)
       /\ Apart(r2.emit, r3.emit) /\ Apart(r2.emit, r4.emit) /\ Apart(r3.emit, r4.emit)
  BY <1>4, <1>5, <1>6, <1>7, CoveredApart DEF PairInv
<1>11. Single(E)
  BY <1>4, <1>5, <1>6, <1>7, <1>10 DEF Single, Apart, SamePair
<1>12. \A p \in {pending, dc, mz, tb} : Apart(out, Top(p)) /\ Before(Top(p), cur)
  BY DEF PairInv
<1>13. Apart(out, E)
  <2>1. \A p \in {pending, dc, mz, tb} : \A G : Covers(Top(p), G) => Apart(out, G)
    BY <1>3, <1>12, CoveredApart
  <2>. QED
    BY <1>4, <1>5, <1>6, <1>7, <2>1 DEF Apart
<1>14. Before(E, cur)
  <2>1. \A p \in {pending, dc, mz, tb} : \A G : Covers(Top(p), G) => Before(G, cur)
    BY <1>12, CoveredBefore
  <2>. QED
    BY <1>4, <1>5, <1>6, <1>7, <2>1 DEF Before
<1>. DEFINE A == out \cup E
            After(p) == Before(Top(p), cur) /\ Backed(p) /\ Apart(A, Top(p))
<1>15. Single(A) /\ Before(A, cur)
  BY <1>8, <1>11, <1>13, <1>14 DEF Single, Apart, Before, PairInv
<1>16. After(r1.slot) /\ After(r2.slot) /\ After(r3.slot) /\ After(r4.slot)
  <2>1. \A p \in {pending, dc, mz, tb} : \A G : Covers(Top(p), G) =>
          Before(G, cur) /\ Apart(out, G)
    BY <1>3, <1>12, CoveredApart, CoveredBefore
  <2>2. /\ Before(Top(r1.slot), cur) /\ Apart(out, Top(r1.slot))
        /\ Before(Top(r2.slot), cur) /\ Apart(out, Top(r2.slot))
        /\ Before(Top(r3.slot), cur) /\ Apart(out, Top(r3.slot))
        /\ Before(Top(r4.slot), cur) /\ Apart(out, Top(r4.slot))
    BY <1>4, <1>5, <1>6, <1>7, <2>1
  <2>3. /\ Apart(r2.emit, Top(r1.slot)) /\ Apart(r3.emit, Top(r1.slot))
        /\ Apart(r4.emit, Top(r1.slot)) /\ Apart(r1.emit, Top(r2.slot))
        /\ Apart(r3.emit, Top(r2.slot)) /\ Apart(r4.emit, Top(r2.slot))
        /\ Apart(r1.emit, Top(r3.slot)) /\ Apart(r2.emit, Top(r3.slot))
        /\ Apart(r4.emit, Top(r3.slot)) /\ Apart(r1.emit, Top(r4.slot))
        /\ Apart(r2.emit, Top(r4.slot)) /\ Apart(r3.emit, Top(r4.slot))
    BY <1>4, <1>5, <1>6, <1>7, <1>8, CoveredApart DEF PairInv
  <2>. QED
    BY <1>4, <1>5, <1>6, <1>7, <2>2, <2>3 DEF Apart
<1>17. out' \subseteq A \cup C
  BY <1>1 DEF Pass, Emit
<1>18. /\ Opens(pending', r1.slot, {"bcond"}, w)
       /\ OpensDc(dc', r2.slot)
       /\ Opens(mz', r3.slot, {"str", "orr", "eor"}, w)
       /\ Opens(tb', r4.slot, {"cbz"}, w)
       /\ mz' # r3.slot \/ tb' # r4.slot => C = {}
       /\ C # {} => w.op \in {"orr", "eor", "cbz"}
       /\ Single(C)
       /\ \A f \in C : f.use = cur /\ f.start < cur
  BY <1>1, <1>2, ChecksPair DEF Pass
<1>19. Track(w)
  BY <1>1 DEF Pass
<1>. HIDE DEF A, C, E
<1>20. \A q \in {pending', dc', mz', tb'} : q.on => q.finding.use \in Int
  <2>1. \A q \in {pending', dc', mz', tb'} : q \in SlotType
    BY DEF TypeOK
  <2>2. \A f \in Findings : f.use \in Int
    BY DEF Findings, Slots
  <2>. QED
    BY <2>1, <2>2, ActiveInUse DEF InUse
<1>21. \A q \in {pending', dc', mz', tb'} :
         Backed(q) /\ (q.on => q.finding.use < cur + 1)
  BY <1>2, <1>16, <1>18, <1>20 DEF Opens, OpensDc, Before, Top
<1>22. \A f \in A : \A q : q.on /\ q.finding.use = cur => ~SamePair(f, q.finding)
  BY <1>2, <1>15 DEF Before, SamePair
<1>23. Apart(A, Top(pending')) /\ Apart(A, Top(dc')) /\ Apart(A, Top(mz')) /\ Apart(A, Top(tb'))
  BY <1>16, <1>18, <1>22 DEF Opens, OpensDc, Apart, Top
<1>24. \A f \in C : \A p : p.on /\ After(p) => ~SamePair(f, p.finding)
  BY <1>2, <1>18 DEF Before, Top, SamePair
<1>25. Apart(C, Top(pending')) /\ Apart(C, Top(dc')) /\ Apart(C, Top(mz')) /\ Apart(C, Top(tb'))
  <2>1. Apart(C, Top(pending'))
    BY <1>16, <1>18, <1>24 DEF Opens, Apart, Top
  <2>2. Apart(C, Top(dc'))
    BY <1>2, <1>16, <1>18, <1>24 DEF OpensDc, Apart, Top, SamePair
  <2>3. Apart(C, Top(mz'))
    BY <1>16, <1>18, <1>24 DEF Opens, Apart, Top
  <2>4. Apart(C, Top(tb'))
    BY <1>16, <1>18, <1>24 DEF Opens, Apart, Top
  <2>. QED
    BY <2>1, <2>2, <2>3, <2>4
<1>26. \A p, q, r, s, ops1, ops2 :
         /\ After(p) /\ After(r) /\ Apart(Top(p), Top(r))
         /\ Opens(q, p, ops1, w) /\ Opens(s, r, ops2, w) /\ ops1 \cap ops2 = {}
         => Apart(Top(q), Top(s))
  BY <1>2 DEF Opens, Before, Top, Apart, SamePair
<1>27. \A p, q, r, s, ops :
         /\ After(p) /\ After(r) /\ Apart(Top(p), Top(r))
         /\ OpensDc(q, p) /\ Opens(s, r, ops, w)
         => Apart(Top(q), Top(s))
  BY <1>2 DEF Opens, OpensDc, Before, Top, Apart, SamePair
<1>28. /\ Apart(Top(pending'), Top(dc')) /\ Apart(Top(pending'), Top(mz'))
       /\ Apart(Top(pending'), Top(tb')) /\ Apart(Top(dc'), Top(mz'))
       /\ Apart(Top(dc'), Top(tb')) /\ Apart(Top(mz'), Top(tb'))
  <2>1. Apart(Top(dc'), Top(pending')) /\ Apart(Top(dc'), Top(mz')) /\ Apart(Top(dc'), Top(tb'))
    BY <1>8, <1>9, <1>16, <1>18, <1>27
  <2>2. Apart(Top(pending'), Top(mz'))
    BY <1>9, <1>16, <1>18, <1>26
  <2>3. Apart(Top(pending'), Top(tb'))
    BY <1>9, <1>16, <1>18, <1>26
  <2>4. Apart(Top(mz'), Top(tb'))
    BY <1>9, <1>16, <1>18, <1>26
  <2>. QED
    BY <1>8, <2>1, <2>2, <2>3, <2>4
<1>29. Single(out')
  <2>1. \A f \in A, g \in C : ~SamePair(f, g) /\ ~SamePair(g, f)
    BY <1>2, <1>15, <1>18 DEF Before, SamePair
  <2>. QED
    BY <1>15, <1>17, <1>18, <2>1 DEF Single
<1>30. Before(out', cur')
  <2>1. \A f \in out' : f.use \in Int
    BY DEF TypeOK, Findings, Slots
  <2>. QED
    BY <1>2, <1>15, <1>17, <1>18, <2>1 DEF Before
<1>31. \A t \in {cmp', cset', mov', fnl'} : t.on => t.at < cur'
  <2>1. \A r : Found(r).at = cur
    BY DEF Found
  <2>2. \A t \in {cmp', cset', mov', fnl'} : t = Off \/ \E r : t = Found(r)
    BY <1>19 DEF Track
  <2>3. ~Off.on
    BY DEF Off
  <2>. QED
    BY <1>2, <2>1, <2>2, <2>3
<1>32. \A q \in {pending', dc', mz', tb'} :
         Backed(q) /\ Before(Top(q), cur') /\ Apart(out', Top(q))
  <2>1. \A q \in {pending', dc', mz', tb'} : Before(Top(q), cur')
    BY <1>2, <1>21 DEF Before, Top
  <2>2. \A q \in {pending', dc', mz', tb'} : Apart(out', Top(q))
    BY <1>17, <1>23, <1>25 DEF Apart
  <2>. QED
    BY <1>21, <2>1, <2>2
<1>. QED
  BY <1>28, <1>29, <1>30, <1>31, <1>32 DEF PairInv, Top, Backed, Before, Apart, Single, SamePair

LEMMA StepPairs ==
  ASSUME TypeOK, TypeOK', PairInv, [Next]_vars
  PROVE  PairInv'
<1>1. cur \in Int
  BY WordsAssumption DEF TypeOK
<1>2. CASE SkipPool
  <2>1. cur' \in Int /\ cur <= cur'
    BY <1>1, <1>2, WordsAssumption DEF SkipPool, IsPool, NextSlot, TypeOK
  <2>. QED
    BY <1>2, <2>1, FlushPairs DEF SkipPool
<1>3. CASE SkipUndecodable
  BY <1>1, <1>3, FlushPairs DEF SkipUndecodable
<1>4. CASE Instruction
  BY <1>4, InstructionPairs
<1>5. CASE EndOfBuffer
  BY <1>1, <1>5, FlushPairs DEF EndOfBuffer
<1>6. CASE UNCHANGED vars
  <2>1. UNCHANGED <<cur, cmp, cset, mov, fnl, pending, dc, mz, tb, out>>
    BY <1>6 DEF vars, trackers, slots
  <2>. QED
    BY <2>1 DEF PairInv, Top, Backed, Before, Apart, Single, SamePair
<1>. QED
  BY <1>2, <1>3, <1>4, <1>5, <1>6 DEF Next, Returned

LEMMA InitPairs == Init => PairInv
<1>1. ~Off.on /\ ~Idle.on
  BY DEF Off, Idle
<1>. QED
  BY <1>1 DEF Init, PairInv, Top, Backed, Before, Apart, Single

\* In every buffer a pair is reported once, as the fold or as its downgrade,
\* and never while a slot still holds it: however the slots are advanced,
\* reopened by the checks of the same word, and flushed
\* (check_instructions, armlint.c:23970).
THEOREM PairsReportedOnce == Spec => []OneReport
<1>1. Init => TypeOK /\ PairInv
  BY InitTyped, InitPairs
<1>2. TypeOK /\ PairInv /\ [Next]_vars => (TypeOK /\ PairInv)'
  BY NextTyped, StepPairs
<1>3. PairInv => OneReport
  BY DEF PairInv, OneReport, Single, Apart, Top
<1>. QED
  BY <1>1, <1>2, <1>3, PTL DEF Spec

-----------------------------------------------------------------------------
(* Reported windows are entered at their top.                              *)

\* The slots a scan of buffer p from each slot visits, pools stepped over.
VisitedIn(p) ==
  LET Scan[o \in 0 .. N] ==
        IF o = N THEN {}
        ELSE IF IsPool(p, o) THEN Scan[NextSlot(p, o)]
        ELSE {o} \cup Scan[o + 1]
  IN  Scan
Entered(p) ==
  {p[o].to : o \in {v \in VisitedIn(p)[0] : IsDirectBranch(p[v]) \/ p[v].op = "bl"}}

\* What lies in every set that holds a slot and is closed under the scan's
\* steps.
ScanClosed(p, S) == \A o \in S : o < N => NextSlot(p, o) \in S
OnTheWay(p, a) ==
  {v \in 0 .. N - 1 : ~IsPool(p, v) /\ \A S \in SUBSET (0 .. N) : a \in S /\ ScanClosed(p, S) => v \in S}

LEMMA WayStep ==
  ASSUME NEW p \in Programs, N \in Nat, NEW o \in 0 .. N - 1, NextSlot(p, o) \in 0 .. N
  PROVE  OnTheWay(p, o) = IF IsPool(p, o) THEN OnTheWay(p, NextSlot(p, o))
                          ELSE {o} \cup OnTheWay(p, NextSlot(p, o))
<1>. DEFINE n == NextSlot(p, o)
<1>1. o \in 0 .. N /\ n \in 0 .. N /\ o < N
  OBVIOUS
<1>2. ASSUME NEW v \in OnTheWay(p, n)
      PROVE  v \in OnTheWay(p, o)
  BY <1>1, <1>2 DEF OnTheWay, ScanClosed
<1>3. ~IsPool(p, o) => o \in OnTheWay(p, o)
  BY <1>1 DEF OnTheWay
<1>4. ASSUME NEW v \in OnTheWay(p, o), v # o
      PROVE  v \in OnTheWay(p, n)
  <2>1. ASSUME NEW S \in SUBSET (0 .. N), n \in S, ScanClosed(p, S)
        PROVE  v \in S
    <3>1. S \cup {o} \in SUBSET (0 .. N) /\ ScanClosed(p, S \cup {o})
      BY <1>1, <2>1 DEF ScanClosed
    <3>. QED
      BY <1>1, <1>4, <3>1 DEF OnTheWay
  <2>. QED
    BY <1>1, <1>4, <2>1 DEF OnTheWay
<1>5. IsPool(p, o) => o \notin OnTheWay(p, o)
  BY DEF OnTheWay
<1>. QED
  BY <1>2, <1>3, <1>4, <1>5

\* The scan's recursion has a solution.
LEMMA ScanVisits ==
  ASSUME NEW p \in Programs
  PROVE  /\ VisitedIn(p)[N] = {}
         /\ \A o \in 0 .. N - 1 :
              VisitedIn(p)[o] = IF IsPool(p, o) THEN VisitedIn(p)[NextSlot(p, o)]
                                ELSE {o} \cup VisitedIn(p)[o + 1]
<1>. DEFINE V == [a \in 0 .. N |-> OnTheWay(p, a)]
            Solves(f) == f = [o \in 0 .. N |-> IF o = N THEN {}
                                               ELSE IF IsPool(p, o) THEN f[NextSlot(p, o)]
                                               ELSE {o} \cup f[o + 1]]
<1>1. N \in Nat
  BY WordsAssumption
<1>2. \A o \in 0 .. N - 1 : NextSlot(p, o) \in 0 .. N
  BY <1>1 DEF NextSlot, IsPool
<1>3. OnTheWay(p, N) = {}
  <2>1. ScanClosed(p, {N}) /\ {N} \in SUBSET (0 .. N)
    BY <1>1 DEF ScanClosed
  <2>. QED
    BY <1>1, <2>1 DEF OnTheWay
<1>4. \A o \in 0 .. N - 1 : ~IsPool(p, o) => NextSlot(p, o) = o + 1
  BY DEF NextSlot
<1>5. \A o \in 0 .. N : V[o] = IF o = N THEN {} ELSE IF IsPool(p, o) THEN V[NextSlot(p, o)]
                               ELSE {o} \cup V[o + 1]
  BY <1>1, <1>2, <1>3, <1>4, WayStep
<1>6. V = [o \in 0 .. N |-> V[o]]
  OBVIOUS
<1>. HIDE DEF V
<1>7. Solves(V)
  BY <1>5, <1>6
<1>8. VisitedIn(p) = CHOOSE f : Solves(f)
  BY DEF VisitedIn
<1>9. Solves(VisitedIn(p))
  BY <1>7, <1>8
<1>10. \A o \in 0 .. N - 1 : o \in 0 .. N /\ o # N
  BY <1>1
<1>. HIDE DEF Solves
<1>. QED
  <2>1. \A f : Solves(f) => \A o \in 0 .. N - 1 :
          f[o] = IF IsPool(p, o) THEN f[NextSlot(p, o)] ELSE {o} \cup f[o + 1]
    BY <1>10 DEF Solves
  <2>2. \A f : Solves(f) => f[N] = {}
    BY <1>1 DEF Solves
  <2>. QED
    BY <1>9, <2>1, <2>2

\* Every slot handed to the checks, and every one ahead, is one the scan for
\* targets visits.
EntryInv ==
  /\ decoded \subseteq VisitedIn(prog)[0]
  /\ VisitedIn(prog)[cur] \subseteq VisitedIn(prog)[0]
  /\ \A f \in out : Inside(f) \cap Entered(prog) = {}

LEMMA StepEntered ==
  ASSUME TypeOK, EntryInv, [Next]_vars
  PROVE  EntryInv'
<1>1. BranchTargets = Entered(prog)
  BY DEF BranchTargets, Visited, Entered, VisitedIn
<1>2. ASSUME NEW F, Emit(F)
      PROVE  \A f \in out' : Inside(f) \cap Entered(prog) = {}
  BY <1>1, <1>2 DEF Emit, HasSideEntry, EntryInv
<1>3. Flush => \A f \in out' : Inside(f) \cap Entered(prog) = {}
  BY <1>2, FlushEffects
<1>4. cur < N => VisitedIn(prog)[cur] = IF IsPool(prog, cur) THEN VisitedIn(prog)[NextSlot(prog, cur)]
                                        ELSE {cur} \cup VisitedIn(prog)[cur + 1]
  <2>1. prog \in Programs /\ (cur < N => cur \in 0 .. N - 1)
    BY WordsAssumption DEF TypeOK
  <2>. QED
    BY <2>1, ScanVisits
<1>5. CASE SkipPool
  <2>1. prog' = prog /\ decoded' = decoded /\ Flush
    BY <1>5 DEF SkipPool
  <2>2. VisitedIn(prog)[cur'] = VisitedIn(prog)[cur]
    BY <1>4, <1>5 DEF SkipPool
  <2>. QED
    BY <1>3, <2>1, <2>2 DEF EntryInv
<1>6. CASE SkipUndecodable
  <2>1. prog' = prog /\ decoded' = decoded /\ Flush
    BY <1>6 DEF SkipUndecodable
  <2>2. VisitedIn(prog)[cur'] \subseteq VisitedIn(prog)[cur]
    BY <1>4, <1>6 DEF SkipUndecodable, AtCode
  <2>. QED
    BY <1>3, <2>1, <2>2 DEF EntryInv
<1>7. CASE Instruction
  <2>1. prog' = prog /\ decoded' = decoded \cup {cur} /\ cur' = cur + 1
    BY <1>7 DEF Instruction
  <2>2. cur \in VisitedIn(prog)[cur] /\ VisitedIn(prog)[cur'] \subseteq VisitedIn(prog)[cur]
    BY <1>4, <1>7, <2>1 DEF Instruction, AtCode
  <2>3. \A f \in out' : Inside(f) \cap Entered(prog) = {}
    BY <1>2, <1>7, InstructionPasses DEF Pass
  <2>. QED
    BY <2>1, <2>2, <2>3 DEF EntryInv
<1>8. CASE EndOfBuffer
  <2>1. prog' = prog /\ decoded' = decoded /\ cur' = cur /\ Flush
    BY <1>8 DEF EndOfBuffer
  <2>. QED
    BY <1>3, <2>1 DEF EntryInv
<1>9. CASE UNCHANGED vars
  BY <1>9 DEF vars, EntryInv
<1>. QED
  BY <1>5, <1>6, <1>7, <1>8, <1>9 DEF Next, Returned

\* No window reported can be entered past its top by a branch or a call the
\* driver decodes, in any buffer: the loop that collects the targets before
\* the first word (scan_branch_targets) and the one that decodes, written
\* apart, step over pools alike (armlint.c:1425, 1492).
THEOREM WindowsEnteredAtTop == Spec => []EnteredAtTop
<1>1. Init => TypeOK /\ EntryInv
  <2>1. ASSUME Init
        PROVE  EntryInv
    BY <2>1 DEF Init, EntryInv
  <2>. QED
    BY <2>1, InitTyped
<1>2. TypeOK /\ EntryInv /\ [Next]_vars => (TypeOK /\ EntryInv)'
  BY NextTyped, StepEntered
<1>3. EntryInv => EnteredAtTop
  BY DEF EntryInv, EnteredAtTop, Entered
<1>. QED
  BY <1>1, <1>2, <1>3, PTL DEF Spec

-----------------------------------------------------------------------------
(* The words the scan for targets visits.                                  *)

LEMMA LeastOf ==
  ASSUME NEW S \in SUBSET Nat, S # {}
  PROVE  \E m \in S : \A i \in S : m <= i
<1>. DEFINE Less == OpToRel(<, Nat)
<1>1. IsWellFoundedOn(Less, Nat)
  BY NatLessThanWellFounded
<1>2. \A x, y \in Nat : y < x => <<y, x>> \in Less
  BY DEF OpToRel
<1>. HIDE DEF Less
<1>3. PICK m \in S : \A y \in S : <<y, m>> \notin Less
  BY <1>1, WFMin
<1>4. ASSUME NEW y \in S
      PROVE  m <= y
  <2>1. m \in Nat /\ y \in Nat
    OBVIOUS
  <2>2. ~(y < m)
    BY <1>2, <1>3, <2>1
  <2>. QED
    BY <2>1, <2>2
<1>. QED
  BY <1>4

\* What the scan visits is what lies on its way, from the last slot back.
LEMMA ScanIsTheWay ==
  ASSUME NEW p \in Programs
  PROVE  \A a \in 0 .. N : VisitedIn(p)[a] = OnTheWay(p, a)
<1>. DEFINE Differs(k) == VisitedIn(p)[N - k] # OnTheWay(p, N - k)
            B == {k \in 0 .. N : Differs(k)}
<1>1. N \in Nat
  BY WordsAssumption
<1>2. SUFFICES ASSUME B # {}
               PROVE  FALSE
  <2>1. \A a \in 0 .. N : N - a \in 0 .. N /\ N - (N - a) = a
    BY <1>1
  <2>. QED
    BY <1>1, <1>2, <2>1
<1>3. PICK k \in B : \A i \in B : k <= i
  <2>1. B \in SUBSET Nat
    BY <1>1
  <2>. HIDE DEF B
  <2>. QED
    BY <1>2, <2>1, LeastOf
<1>. DEFINE o == N - k
<1>4. k \in 0 .. N /\ VisitedIn(p)[o] # OnTheWay(p, o)
  BY <1>1
<1>5. k # 0
  <2>1. ScanClosed(p, {N}) /\ {N} \in SUBSET (0 .. N)
    BY <1>1 DEF ScanClosed
  <2>2. OnTheWay(p, N) = {}
    BY <1>1, <2>1 DEF OnTheWay
  <2>3. k = 0 => o = N
    BY <1>1
  <2>. HIDE DEF o
  <2>. QED
    BY <1>4, <2>2, <2>3, ScanVisits
<1>6. o \in 0 .. N - 1
  BY <1>1, <1>4, <1>5
<1>. DEFINE n == NextSlot(p, o)
<1>7. n \in o + 1 .. N
  BY <1>1, <1>6 DEF NextSlot, IsPool
<1>8. VisitedIn(p)[n] = OnTheWay(p, n)
  <2>1. N - n \in 0 .. N /\ N - n < k /\ N - (N - n) = n
    BY <1>1, <1>6, <1>7
  <2>2. N - n \notin B
    BY <1>1, <1>3, <1>4, <2>1
  <2>. QED
    BY <2>1, <2>2
<1>9. ~IsPool(p, o) => n = o + 1
  BY DEF NextSlot
<1>10. n \in 0 .. N
  BY <1>1, <1>6, <1>7
<1>. HIDE DEF o, n
<1>11. VisitedIn(p)[o] = IF IsPool(p, o) THEN VisitedIn(p)[n] ELSE {o} \cup VisitedIn(p)[o + 1]
  BY <1>6, ScanVisits DEF n
<1>12. OnTheWay(p, o) = IF IsPool(p, o) THEN OnTheWay(p, n) ELSE {o} \cup OnTheWay(p, n)
  BY <1>1, <1>6, <1>10, WayStep DEF n
<1>. QED
  BY <1>4, <1>8, <1>9, <1>11, <1>12

\* The words visited are not pools, and falling through stays among them.
Code(p) == VisitedIn(p)[0]

LEMMA CodeFallsThrough ==
  ASSUME NEW p \in Programs, NEW o \in Code(p)
  PROVE  /\ o \in Slots /\ ~IsPool(p, o)
         /\ o + 1 \in Slots /\ ~IsPool(p, o + 1) => o + 1 \in Code(p)
<1>1. N \in Nat
  BY WordsAssumption
<1>2. o \in OnTheWay(p, 0)
  BY <1>1, ScanIsTheWay DEF Code
<1>3. o \in 0 .. N - 1 /\ ~IsPool(p, o) /\ NextSlot(p, o) = o + 1
  BY <1>2 DEF OnTheWay, NextSlot
<1>4. ASSUME o + 1 \in 0 .. N - 1, ~IsPool(p, o + 1)
      PROVE  o + 1 \in OnTheWay(p, 0)
  <2>1. ASSUME NEW S \in SUBSET (0 .. N), 0 \in S, ScanClosed(p, S)
        PROVE  o + 1 \in S
    <3>1. o \in S
      BY <1>2, <2>1 DEF OnTheWay
    <3>. QED
      BY <1>1, <1>3, <2>1, <3>1 DEF ScanClosed
  <2>. QED
    BY <1>4, <2>1 DEF OnTheWay
<1>. QED
  BY <1>1, <1>3, <1>4, ScanIsTheWay DEF Code, Slots

-----------------------------------------------------------------------------
(* What a finding is made of.                                              *)

Made(kind, op) ==
  CASE kind = "cbz"  -> op = "cmp0"
    [] kind = "dc"   -> op \in {"cmp0", "cmp"}
    [] kind = "zr"   -> op = "mov0"
    [] kind = "extr" -> op = "lsl"
    [] OTHER         -> op = "cset"
Used(kind, op) ==
  CASE kind = "cbz"  -> op = "bcond"
    [] kind = "dc"   -> op \in {"cmp0", "cmp"}
    [] kind = "zr"   -> op = "str"
    [] kind = "extr" -> op = "orr"
    [] kind \in {"cset", "cset-fb"} -> op = "eor"
    [] OTHER         -> op = "cbz"

\* The words of f are code the driver decodes, its producer writes its
\* resource and nothing else.
Formed(p, f) ==
  /\ f.start \in Code(p) /\ f.use \in Code(p)
  /\ p[f.start].writes = {f.reg}
  /\ Made(f.kind, p[f.start].op)
  /\ Used(f.kind, p[f.use].op)
  /\ f.kind = "dc" => f.use = f.start

\* A tracker in use has a producer of an op.
Follows(p, t, op) ==
  t.on => t.at \in Code(p) /\ p[t.at].op = op /\ p[t.at].writes = {t.reg}

FormInv ==
  /\ Follows(prog, cmp, "cmp0") /\ Follows(prog, cset, "cset")
  /\ Follows(prog, mov, "mov0") /\ Follows(prog, fnl, "lsl")
  /\ \A p \in {pending, dc, mz, tb} : \A f \in Held(p) : Formed(prog, f)
  /\ \A f \in out : Formed(prog, f)

\* A pair of a tracked producer and the word at cur.
LEMMA PairFormed ==
  ASSUME NEW p, NEW t, NEW kind, NEW op, t.on, Follows(p, t, op), cur \in Code(p),
         Made(kind, op), Used(kind, p[cur].op), kind # "dc"
  PROVE  Formed(p, Pair(kind, t))
BY DEF Formed, Follows, Pair

LEMMA ChecksForm ==
  ASSUME FormInv, cur \in Code(prog), prog[cur] \in Words, NEW nd, NEW p,
         \A f \in Held(p) : Formed(prog, f)
  PROVE  LET w == prog[cur]
         IN  /\ \A f \in Held(CheckPending(w, nd, p)) : Formed(prog, f)
             /\ \A f \in Held(CheckDc(w, p)) : Formed(prog, f)
             /\ \A f \in Held(CheckMz(w, p)) : Formed(prog, f)
             /\ \A f \in Held(CheckTb(w, p)) : Formed(prog, f)
             /\ \A f \in CheckEmits(w) : Formed(prog, f)
<1>. DEFINE w == prog[cur]
<1>1. \A q, kind, t, fb : Opened(q, kind, t, fb) => Held(q) = {Pair(kind, t)} \cup fb
  BY DEF Opened, Held
<1>2. CmpBranch(w, nd) => Formed(prog, Pair("cbz", cmp))
  BY PairFormed DEF CmpBranch, FormInv, Made, Used
<1>3. MovZeroUse(w) => Formed(prog, Pair("zr", mov))
  BY PairFormed DEF MovZeroUse, FormInv, Made, Used
<1>4. Funnel(w) => Formed(prog, Pair("extr", fnl))
  BY PairFormed DEF Funnel, FormInv, Made, Used
<1>5. CsetEor(w) => Formed(prog, Pair("cset", cset)) /\ Formed(prog, Pair("cset-fb", cset))
  BY PairFormed DEF CsetEor, FormInv, Made, Used
<1>6. CsetBranch(w) => Formed(prog, Pair("bcond", cset)) /\ Formed(prog, Pair("bcond-fb", cset))
  BY PairFormed DEF CsetBranch, BranchReadsReg, FormInv, Made, Used
<1>7. w.op \in {"cmp0", "cmp"} => Formed(prog, Pair("dc", Found(NZCV)))
  BY ShapesAssumption DEF Formed, Pair, Found, Made, Used
<1>. HIDE DEF w
<1>8. \A f \in Held(CheckPending(w, nd, p)) : Formed(prog, f)
  BY <1>1, <1>2, ChecksOpen
<1>9. \A f \in Held(CheckDc(w, p)) : Formed(prog, f)
  <2>1. w.op \in {"cmp0", "cmp"} \/ CheckDc(w, p) = p
    BY DEF CheckDc
  <2>. QED
    BY <1>1, <1>7, <2>1, ChecksOpen
<1>10. \A f \in Held(CheckMz(w, p)) : Formed(prog, f)
  <2>1. CASE CheckMz(w, p) = p
    BY <2>1
  <2>2. CASE MovZeroUse(w) /\ Opened(CheckMz(w, p), "zr", mov, {})
    BY <1>1, <1>3, <2>2
  <2>3. CASE Funnel(w) /\ Opened(CheckMz(w, p), "extr", fnl, {})
    BY <1>1, <1>4, <2>3
  <2>4. CASE CsetEor(w) /\ Opened(CheckMz(w, p), "cset", cset, {Pair("cset-fb", cset)})
    BY <1>1, <1>5, <2>4
  <2>. QED
    BY <2>1, <2>2, <2>3, <2>4, ChecksOpen
<1>11. \A f \in Held(CheckTb(w, p)) : Formed(prog, f)
  BY <1>1, <1>6, ChecksOpen
<1>12. \A f \in CheckEmits(w) : Formed(prog, f)
  BY <1>4, <1>5, <1>6 DEF CheckEmits
<1>. QED
  BY <1>8, <1>9, <1>10, <1>11, <1>12 DEF w

\* The trackers a word leaves follow their producers.
LEMMA TrackForm ==
  ASSUME cur \in Code(prog), prog[cur] \in Words, Track(prog[cur])
  PROVE  /\ Follows(prog, cmp', "cmp0") /\ Follows(prog, cset', "cset")
         /\ Follows(prog, mov', "mov0") /\ Follows(prog, fnl', "lsl")
<1>. DEFINE w == prog[cur]
<1>1. ~Off.on
  BY DEF Off
<1>2. w.op \in {"mov0", "cset", "lsl"} => w.writes = {Dest(w)}
  BY DestTyped
<1>3. w.op = "cmp0" => w.writes = {NZCV}
  BY ShapesAssumption
<1>4. \A r : Found(r).at = cur /\ Found(r).reg = r
  BY DEF Found
<1>. QED
  BY <1>1, <1>2, <1>3, <1>4 DEF Track, Follows

LEMMA FlushForm ==
  ASSUME FormInv, Flush, prog' = prog
  PROVE  FormInv'
<1>1. Held(Idle) = {} /\ ~Off.on
  BY DEF Held, Idle, Off
<1>2. \A f \in out' : f \in out \/ f \in Held(mz) \/ f \in Held(tb)
  BY FlushEffects DEF Emit, Held
<1>3. \A f \in out' : Formed(prog, f)
  BY <1>2 DEF FormInv
<1>4. /\ Follows(prog, cmp', "cmp0") /\ Follows(prog, cset', "cset")
      /\ Follows(prog, mov', "mov0") /\ Follows(prog, fnl', "lsl")
  BY <1>1, FlushEffects DEF FormInv, Follows
<1>5. \A p \in {pending', dc', mz', tb'} : \A f \in Held(p) : Formed(prog, f)
  BY <1>1, FlushEffects
<1>. QED
  BY <1>3, <1>4, <1>5 DEF FormInv, Follows, Formed, Held

LEMMA InstructionForm ==
  ASSUME TypeOK, EntryInv, FormInv, Instruction
  PROVE  FormInv'
<1>1. prog' = prog /\ AtCode
  BY DEF Instruction
<1>2. prog \in Programs /\ cur \in 0 .. N - 1 /\ prog[cur] \in Words
  BY <1>1, SlotFacts DEF AtCode, TypeOK, Slots
<1>3. cur \in Code(prog)
  <2>1. cur \in VisitedIn(prog)[cur]
    BY <1>1, <1>2, ScanVisits DEF AtCode
  <2>. QED
    BY <2>1 DEF EntryInv, Code
<1>4. PICK nd, r1, r2, r3, r4 : Pass(prog[cur], nd, r1, r2, r3, r4)
  BY InstructionPasses
<1>5. ASSUME NEW p, NEW res, Advanced(p, res), \A f \in Held(p) : Formed(prog, f)
      PROVE  /\ \A f \in Held(res.slot) : Formed(prog, f)
             /\ \A f \in res.emit : Formed(prog, f)
  <2>1. Held(Idle) = {}
    BY DEF Held, Idle
  <2>2. CASE Kept(p, res)
    BY <1>5, <2>2 DEF Kept, Held
  <2>3. CASE Closed(p, res)
    BY <1>5, <2>1, <2>3 DEF Closed, Held
  <2>. QED
    BY <1>5, <2>2, <2>3 DEF Advanced
<1>6. /\ \A f \in Held(r1.slot) \cup r1.emit : Formed(prog, f)
      /\ \A f \in Held(r2.slot) \cup r2.emit : Formed(prog, f)
      /\ \A f \in Held(r3.slot) \cup r3.emit : Formed(prog, f)
      /\ \A f \in Held(r4.slot) \cup r4.emit : Formed(prog, f)
  <2>1. \A p \in {pending, dc, mz, tb} : \A f \in Held(p) : Formed(prog, f)
    BY DEF FormInv
  <2>2. /\ Advanced(pending, r1) /\ Advanced(dc, r2)
        /\ Advanced(mz, r3) /\ Advanced(tb, r4)
    BY <1>4 DEF Pass
  <2>. QED
    BY <1>5, <2>1, <2>2
<1>7. /\ \A f \in Held(pending') : Formed(prog, f)
      /\ \A f \in Held(dc') : Formed(prog, f)
      /\ \A f \in Held(mz') : Formed(prog, f)
      /\ \A f \in Held(tb') : Formed(prog, f)
  BY <1>2, <1>3, <1>4, <1>6, ChecksForm DEF Pass
<1>8. \A f \in out' : Formed(prog, f)
  <2>1. \A f \in CheckEmits(prog[cur]) : Formed(prog, f)
    BY <1>2, <1>3, <1>6, ChecksForm
  <2>2. out' \subseteq out \cup (r1.emit \cup r2.emit \cup r3.emit \cup r4.emit
                                \cup CheckEmits(prog[cur]))
    BY <1>4 DEF Pass, Emit
  <2>. QED
    BY <1>6, <2>1, <2>2 DEF FormInv
<1>9. /\ Follows(prog, cmp', "cmp0") /\ Follows(prog, cset', "cset")
      /\ Follows(prog, mov', "mov0") /\ Follows(prog, fnl', "lsl")
  BY <1>2, <1>3, <1>4, TrackForm DEF Pass
<1>. QED
  BY <1>1, <1>7, <1>8, <1>9 DEF FormInv, Follows, Formed, Held

LEMMA StepForm ==
  ASSUME TypeOK, EntryInv, FormInv, [Next]_vars
  PROVE  FormInv'
<1>1. CASE SkipPool
  BY <1>1, FlushForm DEF SkipPool
<1>2. CASE SkipUndecodable
  BY <1>2, FlushForm DEF SkipUndecodable
<1>3. CASE Instruction
  BY <1>3, InstructionForm
<1>4. CASE EndOfBuffer
  BY <1>4, FlushForm DEF EndOfBuffer
<1>5. CASE UNCHANGED vars
  BY ZenonT(30), <1>5 DEF vars, trackers, slots, FormInv, Follows, Formed, Held
<1>. QED
  BY <1>1, <1>2, <1>3, <1>4, <1>5 DEF Next, Returned

LEMMA InitForm == Init => FormInv
<1>1. ~Idle.on /\ ~Off.on
  BY DEF Idle, Off
<1>. QED
  BY <1>1 DEF Init, FormInv, Follows, Held

-----------------------------------------------------------------------------
(* What applying findings does to a word.                                  *)

\* The driver has reported F: adjacent pairs and dead compares of code, apart
\* from one another, each sound on its own.
Ready == TypeOK /\ EntryInv /\ FormInv /\ SoundInv /\ LandsInCode
Composable(F) == F \in SUBSET {f \in out : Adjacent(f)} /\ Disjoint(F)

PairOf(f) == f.kind # "dc"

LEMMA ComposedForm ==
  ASSUME Ready, NEW F, Composable(F), NEW f \in F
  PROVE  /\ f \in Findings /\ Formed(prog, f)
         /\ f.start \in Slots /\ f.use \in Slots
         /\ prog[f.start] \in Words /\ prog[f.use] \in Words
         /\ Inside(f) \cap Entered(prog) = {}
         /\ f.kind \in Deleting => DeadAfterIn(prog, f)
         /\ PairOf(f) => f.use = f.start + 1 /\ Inside(f) = {f.use} /\ f.use # f.start
         /\ ~PairOf(f) => f.use = f.start
<1>1. f \in out /\ Adjacent(f)
  BY DEF Composable
<1>2. f \in Findings /\ f.start \in Slots /\ f.use \in Slots
  BY <1>1 DEF Ready, TypeOK, Findings
<1>3. prog[f.start] \in Words /\ prog[f.use] \in Words
  BY <1>2 DEF Ready, TypeOK, Programs
<1>4. Formed(prog, f) /\ Inside(f) \cap Entered(prog) = {}
  BY <1>1 DEF Ready, FormInv, EntryInv
<1>5. f.kind \in Deleting => DeadAfterIn(prog, f)
  BY <1>1 DEF Ready, SoundInv, AllSafe, Safe
<1>6. PairOf(f) => f.use = f.start + 1 /\ Inside(f) = {f.use} /\ f.use # f.start
  BY <1>1, <1>2 DEF PairOf, Adjacent, Inside, Slots
<1>. QED
  BY <1>2, <1>3, <1>4, <1>5, <1>6 DEF Formed, PairOf

\* Disjoint windows share neither word.
LEMMA WordsApart ==
  ASSUME Ready, NEW F, Composable(F), NEW f \in F, NEW g \in F,
         {f.start, f.use} \cap {g.start, g.use} # {}
  PROVE  f = g
<1>1. {f.start, f.use} \subseteq {f.start} \cup Inside(f)
  BY ComposedForm
<1>2. {g.start, g.use} \subseteq {g.start} \cup Inside(g)
  BY ComposedForm
<1>. QED
  BY <1>1, <1>2 DEF Composable, Disjoint

LEMMA AppliedAt ==
  ASSUME Ready, NEW F, Composable(F)
  PROVE  /\ \A f \in F : Applied(F)[f.use] = Rewritten(f)
         /\ \A f \in F : PairOf(f) /\ f.kind \in Deleting => Applied(F)[f.start] = Nop
         /\ \A o \in Slots : (\A f \in F : f.use # o /\ (f.kind \in Deleting => f.start # o))
                             => Applied(F)[o] = prog[o]
<1>1. ASSUME NEW f \in F
      PROVE  Applied(F)[f.use] = Rewritten(f)
  <2>1. f.use \in Slots
    BY ComposedForm
  <2>2. \A g \in F : g.use = f.use => g = f
    BY WordsApart
  <2>3. (CHOOSE g \in F : g.use = f.use) = f
    BY <2>2
  <2>. QED
    BY <2>1, <2>3 DEF Applied
<1>2. ASSUME NEW f \in F, PairOf(f), f.kind \in Deleting
      PROVE  Applied(F)[f.start] = Nop
  <2>1. f.start \in Slots /\ f.use # f.start
    BY <1>2, ComposedForm
  <2>2. \A g \in F : g.use # f.start
    BY <2>1, WordsApart
  <2>. QED
    BY <1>2, <2>1, <2>2 DEF Applied
<1>3. ASSUME NEW o \in Slots, \A f \in F : f.use # o /\ (f.kind \in Deleting => f.start # o)
      PROVE  Applied(F)[o] = prog[o]
  BY <1>3 DEF Applied
<1>. QED
  BY <1>1, <1>2, <1>3

\* The rewritten consumer of a pair writes and leads where the consumer did;
\* it reads what the pair read, and what the producer wrote only when the
\* producer read it.
LEMMA RewrittenPair ==
  ASSUME Ready, NEW F, Composable(F), NEW f \in F, PairOf(f)
  PROVE  LET w == prog[f.use]
             v == Rewritten(f)
         IN  /\ v.writes = w.writes
             /\ v.op \in {"cbz", "str", "alu", "bcond"}
             /\ w.op \in {"bcond", "cbz", "str", "orr", "eor"}
             /\ Successors(v, f.use) = Successors(w, f.use)
             /\ v.reads \subseteq w.reads \cup prog[f.start].reads
             /\ f.reg \in v.reads => f.reg \in prog[f.start].reads
             /\ prog[f.start].op \in {"cmp0", "mov0", "lsl", "cset"}
<1>. DEFINE w == prog[f.use]
            from == prog[f.start].reads
<1>1. w \in [op : Ops, reads : SUBSET Resources, writes : SUBSET Resources, to : Int]
  BY ComposedForm, WordsAssumption
<1>2. f.kind \in (Deleting \cup Downgrade) \ {"dc"}
  BY ComposedForm DEF Findings, PairOf
<1>3. Used(f.kind, w.op) /\ Made(f.kind, prog[f.start].op)
  BY ComposedForm DEF Formed
<1>. HIDE DEF w, from
<1>4. CASE f.kind = "cbz"
  <2>1. Rewritten(f) = [w EXCEPT !.op = "cbz", !.reads = from]
    BY <1>4 DEF Rewritten, w, from
  <2>2. w.op = "bcond" /\ prog[f.start].op = "cmp0"
    BY <1>3, <1>4 DEF Used, Made
  <2>. QED
    BY <1>1, <2>1, <2>2 DEF Successors, CondBranchOps, w, from
<1>5. CASE f.kind = "zr"
  <2>1. Rewritten(f) = [w EXCEPT !.reads = @ \ {f.reg}]
    BY <1>5 DEF Rewritten, w
  <2>2. w.op = "str" /\ prog[f.start].op = "mov0"
    BY <1>3, <1>5 DEF Used, Made
  <2>. QED
    BY <1>1, <2>1, <2>2 DEF Successors, CondBranchOps, w
<1>6. CASE f.kind \in {"extr", "cset", "cset-fb"}
  <2>1. Rewritten(f) = [w EXCEPT !.op = "alu", !.reads = (@ \ {f.reg}) \cup from]
    BY <1>6 DEF Rewritten, w, from
  <2>2. w.op \in {"orr", "eor"} /\ prog[f.start].op \in {"lsl", "cset"}
    BY <1>3, <1>6 DEF Used, Made
  <2>. QED
    BY <1>1, <2>1, <2>2 DEF Successors, CondBranchOps, w, from
<1>7. CASE f.kind \in {"bcond", "bcond-fb"}
  <2>1. Rewritten(f) = [w EXCEPT !.op = "bcond", !.reads = from]
    BY <1>7 DEF Rewritten, w, from
  <2>2. w.op = "cbz" /\ prog[f.start].op = "cset"
    BY <1>3, <1>7 DEF Used, Made
  <2>. QED
    BY <1>1, <2>1, <2>2 DEF Successors, CondBranchOps, w, from
<1>. QED
  BY <1>2, <1>4, <1>5, <1>6, <1>7 DEF Deleting, Downgrade

-----------------------------------------------------------------------------
(* What is dead stays dead.                                                *)

LEMMA DeadUnfolds ==
  ASSUME NEW p, NEW o, NEW r, DeadFrom(p, o, r)
  PROVE  /\ o \in Slots /\ ~IsPool(p, o) /\ ~Observes(p[o], r)
         /\ Kills(p[o], r) \/ \A s \in Successors(p[o], o) : DeadFrom(p, s, r)
<1>1. PICK S \in SUBSET Slots :
        /\ o \in S
        /\ \A x \in S : /\ ~IsPool(p, x) /\ ~Observes(p[x], r)
                        /\ Kills(p[x], r) \/ Successors(p[x], x) \subseteq S
  BY DEF DeadFrom
<1>2. \A s \in S : DeadFrom(p, s, r)
  BY <1>1 DEF DeadFrom
<1>. QED
  BY <1>1, <1>2

\* The consumer at o now reads r for its producer, or the deleted producer
\* no longer writes r for the consumer at o.
ReadAdded(F, r, o)  == \E f \in F : PairOf(f) /\ f.use = o /\ r \in prog[f.start].reads
WriteGone(F, r, o) ==
  \E f \in F : /\ PairOf(f) /\ f.kind \in Deleting /\ f.use = o
               /\ f.reg = r /\ r \notin prog[f.start].reads

\* The slots at which r is dead in the rewritten buffer.
StillDead(F, r) ==
  {o \in Code(prog) : DeadFrom(prog, o, r) /\ ~ReadAdded(F, r, o)}
    \cup {o \in Slots : WriteGone(F, r, o)}

\* A successor at which r was dead is one at which it is: control enters a
\* rewritten pair through its first word only.
LEMMA LeadsToDead ==
  ASSUME Ready, NEW F, Composable(F), NEW r, NEW o \in Code(prog),
         NEW s \in Successors(prog[o], o), DeadFrom(prog, s, r),
         \A f \in F : PairOf(f) /\ f.start = o => r \notin prog[f.start].reads
  PROVE  s \in StillDead(F, r)
<1>1. prog \in Programs /\ o \in Slots /\ o \in Int /\ Code(prog) = Visited
  <2>1. prog \in Programs
    BY DEF Ready, TypeOK
  <2>2. Code(prog) = Visited
    BY DEF Code, Visited, VisitedIn
  <2>3. o \in Slots
    BY <2>1, CodeFallsThrough
  <2>. QED
    BY <2>1, <2>2, <2>3 DEF Slots
<1>2. s \in Slots /\ ~IsPool(prog, s)
  BY DeadUnfolds
<1>3. s = o + 1 \/ (IsDirectBranch(prog[o]) /\ s = prog[o].to)
  BY DEF Successors, IsDirectBranch, CondBranchOps
<1>4. s \in Code(prog)
  <2>1. s = o + 1 => s \in Code(prog)
    BY <1>1, <1>2, CodeFallsThrough
  <2>2. IsDirectBranch(prog[o]) /\ s = prog[o].to => s \in Code(prog)
    BY <1>1, <1>2 DEF Ready, LandsInCode
  <2>. QED
    BY <1>3, <2>1, <2>2
<1>5. ASSUME NEW f \in F, PairOf(f), f.use = s
      PROVE  r \notin prog[f.start].reads
  <2>1. f.use = f.start + 1 /\ Inside(f) = {s} /\ f.start \in Int
            /\ Inside(f) \cap Entered(prog) = {}
    BY <1>5, ComposedForm DEF Slots
  <2>2. CASE s = o + 1
    <3>1. \A a, b \in Int : a + 1 = b + 1 => a = b
      OBVIOUS
    <3>2. f.start \in Int /\ o \in Int /\ f.start + 1 = o + 1
      BY <1>1, <1>5, <2>1, <2>2
    <3>3. f.start = o
      BY <3>1, <3>2
    <3>. QED
      BY <1>5, <3>3
  <2>3. CASE IsDirectBranch(prog[o]) /\ s = prog[o].to
    <3>1. s \in Entered(prog)
      BY <2>3 DEF Entered, Code
    <3>. QED
      BY <2>1, <3>1
  <2>. QED
    BY <1>3, <2>2, <2>3
<1>. QED
  BY <1>4, <1>5 DEF StillDead, ReadAdded

\* At such a slot the rewritten buffer's word does not see r, and it ends
\* r's life or leads to such slots only.
Passes(q, o, r, S) ==
  /\ ~IsPool(q, o)
  /\ ~Observes(q[o], r)
  /\ Kills(q[o], r) \/ Successors(q[o], o) \subseteq S

LEMMA NopPasses ==
  ASSUME NEW q, NEW o, NEW r, NEW S, q[o] = Nop, o + 1 \in S
  PROVE  Passes(q, o, r, S)
BY DEF Passes, Nop, IsPool, Observes, Successors, CondBranchOps

\* The consumer of a pair, when what its producer reads is not r's business.
LEMMA PairPasses ==
  ASSUME Ready, NEW F, Composable(F), NEW f \in F, PairOf(f), NEW r,
         r \notin Rewritten(f).reads,
         \/ r \in prog[f.use].writes
         \/ \A s \in Successors(prog[f.use], f.use) : DeadFrom(prog, s, r)
  PROVE  Passes(Applied(F), f.use, r, StillDead(F, r))
<1>. DEFINE v == Rewritten(f)
            S == StillDead(F, r)
<1>1. Applied(F)[f.use] = v
  BY AppliedAt
<1>2. /\ v.writes = prog[f.use].writes
      /\ v.op \in {"cbz", "str", "alu", "bcond"}
      /\ Successors(v, f.use) = Successors(prog[f.use], f.use)
  BY RewrittenPair
<1>3. f.use \in Code(prog) /\ f.start # f.use
  BY ComposedForm DEF Formed
<1>4. \A g \in F : ~(PairOf(g) /\ g.start = f.use)
  BY <1>3, WordsApart
<1>5. (\A s \in Successors(prog[f.use], f.use) : DeadFrom(prog, s, r)) =>
        Successors(v, f.use) \subseteq S
  BY <1>2, <1>3, <1>4, LeadsToDead
<1>. HIDE DEF v, S
<1>. QED
  BY <1>1, <1>2, <1>5 DEF Passes, IsPool, Observes, Kills, v, S

LEMMA StillDeadPasses ==
  ASSUME Ready, NEW F, Composable(F), NEW r, NEW o \in StillDead(F, r)
  PROVE  Passes(Applied(F), o, r, StillDead(F, r))
<1>. DEFINE q == Applied(F)
            S == StillDead(F, r)
            w == prog[o]
<1>1. CASE WriteGone(F, r, o)
  <2>1. PICK f \in F : /\ PairOf(f) /\ f.kind \in Deleting /\ f.use = o
                       /\ f.reg = r /\ r \notin prog[f.start].reads
    BY <1>1 DEF WriteGone
  <2>2. r \notin Rewritten(f).reads
    BY <2>1, RewrittenPair
  <2>3. DeadAfterIn(prog, f)
    BY <2>1, ComposedForm
  <2>. QED
    BY <2>1, <2>2, <2>3, PairPasses DEF DeadAfterIn
<1>2. CASE o \in Code(prog) /\ DeadFrom(prog, o, r) /\ ~ReadAdded(F, r, o)
  <2>1. /\ o \in Slots /\ ~IsPool(prog, o) /\ ~Observes(w, r)
        /\ Kills(w, r) \/ \A s \in Successors(w, o) : DeadFrom(prog, s, r)
    BY <1>2, DeadUnfolds
  <2>2. ASSUME NEW s \in Successors(w, o), DeadFrom(prog, s, r),
               \A f \in F : PairOf(f) /\ f.start = o => r \notin w.reads
        PROVE  s \in S
    BY <1>2, <2>2, LeadsToDead
  <2>3. ASSUME NEW f \in F, PairOf(f), f.use = o
        PROVE  Passes(q, o, r, S)
    <3>1. r \notin Rewritten(f).reads
      BY <1>2, <2>1, <2>3, RewrittenPair DEF ReadAdded, Observes
    <3>2. Kills(w, r) => r \in w.writes
      BY <2>3, RewrittenPair DEF Kills
    <3>. QED
      BY <2>1, <2>3, <3>1, <3>2, PairPasses
  <2>4. ASSUME NEW f \in F, ~PairOf(f), f.use = o
        PROVE  Passes(q, o, r, S)
    <3>1. f.kind = "dc" /\ f.start = o
      BY <2>4, ComposedForm DEF PairOf
    <3>2. w.op \in {"cmp0", "cmp"} /\ w.writes = {f.reg}
      BY <2>4, <3>1, ComposedForm DEF Formed, Used
    <3>3. q[o] = Nop
      BY ZenonT(30), <2>4, <3>1, AppliedAt DEF Rewritten
    <3>4. Successors(w, o) = {o + 1}
      BY <3>2, SuccessorFacts DEF CondBranchOps
    <3>5. DeadFrom(prog, o + 1, r)
      <4>1. CASE r = f.reg
        BY <2>4, <3>1, <3>4, <4>1, ComposedForm DEF DeadAfterIn, Deleting
      <4>2. CASE r # f.reg
        BY <2>1, <3>2, <3>4, <4>2 DEF Kills
      <4>. QED
        BY <4>1, <4>2
    <3>6. \A g \in F : ~(PairOf(g) /\ g.start = o)
      BY <2>4, <3>1, WordsApart
    <3>7. o + 1 \in S
      BY <2>2, <3>4, <3>5, <3>6
    <3>. QED
      BY <3>3, <3>7, NopPasses
  <2>5. ASSUME NEW f \in F, PairOf(f), f.kind \in Deleting, f.start = o
        PROVE  Passes(q, o, r, S)
    <3>1. f.use = o + 1 /\ f.use \in Slots /\ w.writes = {f.reg}
      BY <2>5, ComposedForm DEF Formed
    <3>2. q[o] = Nop
      BY <2>5, AppliedAt
    <3>3. r \notin w.reads
      BY <2>1 DEF Observes
    <3>4. w.op \in {"cmp0", "mov0", "lsl", "cset"}
      BY <2>5, RewrittenPair
    <3>5. Successors(w, o) = {o + 1}
      BY <3>4, SuccessorFacts DEF CondBranchOps
    <3>6. CASE r = f.reg
      <4>1. WriteGone(F, r, o + 1)
        BY <2>5, <3>1, <3>3, <3>6 DEF WriteGone
      <4>2. o + 1 \in S
        BY <3>1, <4>1 DEF StillDead
      <4>. QED
        BY <3>2, <4>2, NopPasses
    <3>7. CASE r # f.reg
      <4>1. DeadFrom(prog, o + 1, r)
        BY <2>1, <3>1, <3>4, <3>5, <3>7 DEF Kills
      <4>2. o + 1 \in S
        BY <2>2, <3>3, <3>5, <4>1
      <4>. QED
        BY <3>2, <4>2, NopPasses
    <3>. QED
      BY <3>6, <3>7
  <2>6. ASSUME \A f \in F : f.use # o /\ (f.kind \in Deleting => f.start # o)
        PROVE  Passes(q, o, r, S)
    <3>1. q[o] = w
      BY <2>1, <2>6, AppliedAt
    <3>2. r \notin w.reads
      BY <2>1 DEF Observes
    <3>3. Kills(w, r) \/ Successors(w, o) \subseteq S
      BY <2>1, <2>2, <3>2
    <3>. QED
      BY <2>1, <3>1, <3>3 DEF Passes, IsPool
  <2>7. \A f \in F : ~PairOf(f) => f.start = f.use
    BY ComposedForm
  <2>. QED
    BY <2>3, <2>4, <2>5, <2>6, <2>7
<1>. QED
  BY <1>1, <1>2 DEF StillDead

LEMMA StillDeadIsDead ==
  ASSUME Ready, NEW F, Composable(F), NEW r, NEW o \in StillDead(F, r)
  PROVE  DeadFrom(Applied(F), o, r)
<1>. DEFINE S == StillDead(F, r)
<1>1. S \in SUBSET Slots
  <2>1. \A x \in Code(prog) : x \in Slots
    BY CodeFallsThrough DEF Ready, TypeOK
  <2>. QED
    BY <2>1 DEF StillDead
<1>2. \A x \in S : Passes(Applied(F), x, r, S)
  BY StillDeadPasses
<1>. HIDE DEF S
<1>3. o \in S
  BY DEF S
<1>. QED
  BY <1>1, <1>2, <1>3 DEF DeadFrom, Passes

LEMMA AppliedSound ==
  ASSUME Ready, NEW F, Composable(F), NEW f \in F, f.kind \in Deleting
  PROVE  DeadAfterIn(Applied(F), f)
<1>. DEFINE w == prog[f.use]
            S == StillDead(F, f.reg)
<1>1. DeadAfterIn(prog, f) /\ f.use \in Code(prog)
  BY ComposedForm DEF Formed
<1>2. \A g \in F : ~(PairOf(g) /\ g.start = f.use)
  BY WordsApart, ComposedForm
<1>3. (\A s \in Successors(w, f.use) : DeadFrom(prog, s, f.reg)) =>
        \A s \in Successors(w, f.use) : DeadFrom(Applied(F), s, f.reg)
  BY <1>1, <1>2, LeadsToDead, StillDeadIsDead
<1>4. CASE PairOf(f)
  <2>1. Applied(F)[f.use] = Rewritten(f)
    BY AppliedAt
  <2>2. Rewritten(f).writes = w.writes /\ Successors(Rewritten(f), f.use) = Successors(w, f.use)
    BY <1>4, RewrittenPair
  <2>. QED
    BY <1>1, <1>3, <1>4, <2>1, <2>2 DEF DeadAfterIn, PairOf
<1>5. CASE ~PairOf(f)
  <2>1. f.kind = "dc" /\ f.start = f.use
    BY <1>5, ComposedForm DEF PairOf
  <2>2. Applied(F)[f.use] = Nop
    BY <2>1, AppliedAt DEF Rewritten
  <2>3. w.op \in {"cmp0", "cmp"}
    BY <2>1, ComposedForm DEF Formed, Used
  <2>4. Successors(w, f.use) = {f.use + 1} /\ Successors(Nop, f.use) = {f.use + 1}
    BY <2>3, SuccessorFacts DEF CondBranchOps, Nop
  <2>. QED
    BY <1>1, <1>3, <2>1, <2>2, <2>4 DEF DeadAfterIn
<1>. QED
  BY <1>4, <1>5

\* Whatever set of reported findings with disjoint windows is applied, each
\* deletion is sound in the buffer that results: no rewrite deletes the
\* overwrite, or adds the read, that another's liveness proof is about, in any
\* buffer whose branches stay out of its pools (each proof is made against the
\* words as they were: the advancers, armlint.c:4082 and 4364).
THEOREM FindingsComposed == Spec => []FindingsCompose
<1>1. Init => TypeOK /\ EntryInv /\ FormInv /\ SoundInv
  <2>1. ASSUME Init
        PROVE  EntryInv
    BY <2>1 DEF Init, EntryInv
  <2>. QED
    BY <2>1, InitTyped, InitForm, SoundInit
<1>2. /\ TypeOK /\ EntryInv /\ FormInv /\ SoundInv
      /\ [Next]_vars
      => (TypeOK /\ EntryInv /\ FormInv /\ SoundInv)'
  BY NextTyped, StepEntered, StepForm, SoundNext
<1>3. TypeOK /\ EntryInv /\ FormInv /\ SoundInv => FindingsCompose
  BY AppliedSound DEF Ready, FindingsCompose, Composable
<1>. QED
  BY <1>1, <1>2, <1>3, PTL DEF Spec
=============================================================================
