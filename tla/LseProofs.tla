------------------------------ MODULE LseProofs ------------------------------
(***************************************************************************)
(* The exclusive loops implement the atomics suggested for them, at every  *)
(* register width, for every buffer and whatever others write: LseLoops    *)
(* refines AtomicUpdate.                                                   *)
(***************************************************************************)
EXTENDS LseLoops, AluProofs, SequenceTheorems

-----------------------------------------------------------------------------
(* Runs with shared memory, as Runs of AluProofs.                          *)

SharedTrace(T, m, ws) == T[0] = m /\ \A k \in 1 .. Len(ws) : T[k] = ExecShared(T[k - 1], ws[k])

LEMMA SharedTraceExists == ASSUME NEW m, NEW ws, Len(ws) \in Nat PROVE \E T : SharedTrace(T, m, ws)
<1>. DEFINE S == {n \in Nat : \E T : T[0] = m /\ \A k \in 1 .. n : T[k] = ExecShared(T[k - 1], ws[k])}
<1>1. 0 \in S
  <2>. DEFINE T == [k \in {0} |-> m]
  <2>1. T[0] = m /\ \A k \in 1 .. 0 : T[k] = ExecShared(T[k - 1], ws[k])
    OBVIOUS
  <2>. HIDE DEF T
  <2>. QED
    BY <2>1
<1>2. ASSUME NEW n \in Nat, n \in S PROVE n + 1 \in S
  <2>1. PICK T : T[0] = m /\ \A k \in 1 .. n : T[k] = ExecShared(T[k - 1], ws[k])
    BY <1>2
  <2>. DEFINE U == [k \in 0 .. n + 1 |-> IF k = n + 1 THEN ExecShared(T[n], ws[n + 1]) ELSE T[k]]
  <2>2. U[n + 1] = ExecShared(T[n], ws[n + 1]) /\ \A k \in 0 .. n : U[k] = T[k]
    OBVIOUS
  <2>. HIDE DEF U
  <2>3. U[0] = m
    BY <2>1, <2>2
  <2>4. ASSUME NEW k \in 1 .. n + 1 PROVE U[k] = ExecShared(U[k - 1], ws[k])
    <3>1. CASE k = n + 1
      <4>1. k - 1 = n /\ U[n] = T[n]
        BY <2>2, <3>1
      <4>. QED
        BY <2>2, <3>1, <4>1
    <3>2. CASE k # n + 1
      <4>1. k \in 1 .. n /\ k - 1 \in 0 .. n /\ k \in 0 .. n
        BY <3>2
      <4>2. U[k] = T[k] /\ U[k - 1] = T[k - 1] /\ T[k] = ExecShared(T[k - 1], ws[k])
        BY <2>1, <2>2, <4>1
      <4>. QED
        BY <4>2
    <3>. QED
      BY <3>1, <3>2
  <2>5. \E V : V[0] = m /\ \A k \in 1 .. n + 1 : V[k] = ExecShared(V[k - 1], ws[k])
    <3>1. \A k \in 1 .. n + 1 : U[k] = ExecShared(U[k - 1], ws[k])
      BY <2>4
    <3>. QED
      BY <2>3, <3>1
  <2>. QED
    BY SMTT(30), <2>5
<1>. HIDE DEF S
<1>3. Len(ws) \in S
  BY <1>1, <1>2, HandedOn
<1>. QED
  BY <1>3 DEF S, SharedTrace

\* FoldLeft takes the greatest index last.
SharedFolded(u, m, ws, n) ==
  u[{}] = m /\ \A s \in SUBSET (1 .. n) : s # {} => u[s] = ExecShared(u[s \ {Max(s)}], ws[Max(s)])

LEMMA SharedFoldExists == ASSUME NEW m, NEW ws, NEW len \in Nat PROVE \E u : SharedFolded(u, m, ws, len)
<1>. DEFINE S == {n \in Nat : \E u : SharedFolded(u, m, ws, n)}
<1>1. 0 \in S
  <2>. DEFINE u == [s \in {{}} |-> m]
  <2>1. u[{}] = m /\ \A s \in SUBSET (1 .. 0) : s = {}
    OBVIOUS
  <2>. HIDE DEF u
  <2>. QED
    BY <2>1 DEF SharedFolded
<1>2. ASSUME NEW n \in Nat, n \in S PROVE n + 1 \in S
  <2>1. PICK u : SharedFolded(u, m, ws, n)
    BY <1>2
  <2>. DEFINE v == [s \in SUBSET (1 .. n + 1) |-> IF n + 1 \in s THEN ExecShared(u[s \ {n + 1}], ws[n + 1]) ELSE u[s]]
  <2>2. \A s \in SUBSET (1 .. n + 1) :
          /\ n + 1 \in s => v[s] = ExecShared(u[s \ {n + 1}], ws[n + 1])
          /\ n + 1 \notin s => v[s] = u[s]
    OBVIOUS
  <2>. HIDE DEF v
  <2>3. {} \in SUBSET (1 .. n + 1) /\ v[{}] = m
    BY <2>1, <2>2 DEF SharedFolded
  <2>4. ASSUME NEW s \in SUBSET (1 .. n + 1), s # {} PROVE v[s] = ExecShared(v[s \ {Max(s)}], ws[Max(s)])
    <3>1. CASE n + 1 \in s
      <4>1. Max(s) = n + 1
        BY <3>1, Greatest
      <4>2. s \ {n + 1} \in SUBSET (1 .. n + 1) /\ n + 1 \notin s \ {n + 1}
        OBVIOUS
      <4>. QED
        BY <2>2, <3>1, <4>1, <4>2
    <3>2. CASE n + 1 \notin s
      <4>1. s \in SUBSET (1 .. n) /\ s \ {Max(s)} \in SUBSET (1 .. n + 1) /\ n + 1 \notin s \ {Max(s)}
        <5>1. \A i \in s : i \in 1 .. n
          BY <3>2
        <5>. QED
          BY <5>1, <3>2
      <4>2. u[s] = ExecShared(u[s \ {Max(s)}], ws[Max(s)])
        BY <2>1, <2>4, <4>1 DEF SharedFolded
      <4>. QED
        BY <2>2, <3>2, <4>1, <4>2
    <3>. QED
      BY <3>1, <3>2
  <2>5. SharedFolded(v, m, ws, n + 1)
    BY <2>3, <2>4 DEF SharedFolded
  <2>. QED
    BY <2>5
<1>. HIDE DEF S
<1>3. len \in S
  BY <1>1, <1>2, HandedOn
<1>. QED
  BY <1>3 DEF S

LEMMA SharedRunIsTrace ==
  ASSUME NEW m, NEW ws, Len(ws) \in Nat, DOMAIN ws = 1 .. Len(ws), NEW T, SharedTrace(T, m, ws)
  PROVE  RunShared(m, ws) = T[Len(ws)]
<1>. DEFINE n == Len(ws)
            Body(u) == [s \in SUBSET DOMAIN ws |-> IF s = {} THEN m
                          ELSE ExecShared(u[s \ {Max(s)}], ws[Max(s)])]
            u == CHOOSE u : u = Body(u)
<1>1. RunShared(m, ws) = u[DOMAIN ws]
  BY DEF RunShared, FoldLeft, MapThenFoldSet
<1>2. PICK v : SharedFolded(v, m, ws, n)
  BY SharedFoldExists
<1>. DEFINE r == [s \in SUBSET DOMAIN ws |-> v[s]]
<1>3. r = Body(r)
  <2>1. \A s \in SUBSET DOMAIN ws : s \ {Max(s)} \in SUBSET DOMAIN ws
    OBVIOUS
  <2>2. \A s \in SUBSET DOMAIN ws : v[s] = IF s = {} THEN m ELSE ExecShared(v[s \ {Max(s)}], ws[Max(s)])
    BY <1>2 DEF SharedFolded
  <2>3. \A s \in SUBSET DOMAIN ws : r[s] = v[s]
    OBVIOUS
  <2>4. \A s \in SUBSET DOMAIN ws : r[s] = IF s = {} THEN m ELSE ExecShared(r[s \ {Max(s)}], ws[Max(s)])
    <3>. HIDE DEF r
    <3>. QED
      BY <2>1, <2>2, <2>3
  <2>. QED
    BY <2>4
<1>4. u = Body(u)
  BY <1>3
<1>5. \A s \in SUBSET (1 .. n) : u[s] = IF s = {} THEN m ELSE ExecShared(u[s \ {Max(s)}], ws[Max(s)])
  BY <1>4
<1>. HIDE DEF u, r
<1>. DEFINE S == {k \in Nat : k <= n => u[1 .. k] = T[k]}
<1>6. 0 \in S
  <2>1. 1 .. 0 = {} /\ {} \in SUBSET (1 .. n)
    OBVIOUS
  <2>2. u[{}] = m
    BY <1>5, <2>1
  <2>. QED
    BY <2>1, <2>2 DEF SharedTrace
<1>7. ASSUME NEW k \in Nat, k \in S PROVE k + 1 \in S
  <2>1. SUFFICES ASSUME k + 1 <= n PROVE u[1 .. k + 1] = T[k + 1]
    OBVIOUS
  <2>2. 1 .. k + 1 \in SUBSET (1 .. n) /\ 1 .. k + 1 # {} /\ (1 .. k + 1) \ {k + 1} = 1 .. k
    BY <2>1
  <2>3. Max(1 .. k + 1) = k + 1
    <3>1. 1 .. k + 1 \in SUBSET Nat /\ k + 1 \in 1 .. k + 1 /\ \A y \in 1 .. k + 1 : y <= k + 1
      OBVIOUS
    <3>. QED
      BY <3>1, Greatest
  <2>4. u[1 .. k + 1] = ExecShared(u[1 .. k], ws[k + 1])
    BY <1>5, <2>2, <2>3
  <2>5. u[1 .. k] = T[k]
    BY <1>7, <2>1
  <2>6. k + 1 \in 1 .. n /\ k + 1 - 1 = k
    BY <2>1
  <2>7. T[k + 1] = ExecShared(T[k], ws[k + 1])
    BY <2>6 DEF SharedTrace
  <2>. QED
    BY <2>4, <2>5, <2>7
<1>. HIDE DEF S
<1>8. n \in S
  BY <1>6, <1>7, HandedOn
<1>. QED
  BY <1>1, <1>8 DEF S

LEMMA SharedRunOfOne == ASSUME NEW m, NEW a PROVE RunShared(m, <<a>>) = ExecShared(m, a)
<1>. DEFINE ws == <<a>>
<1>1. PICK T : SharedTrace(T, m, ws)
  BY SharedTraceExists
<1>2. RunShared(m, ws) = T[Len(ws)]
  <2>1. Len(ws) \in Nat /\ DOMAIN ws = 1 .. Len(ws)
    OBVIOUS
  <2>. HIDE DEF ws
  <2>. QED
    BY <1>1, <2>1, SharedRunIsTrace
<1>3. T[0] = m /\ T[1] = ExecShared(T[0], a)
  BY <1>1 DEF SharedTrace
<1>. QED
  BY <1>2, <1>3

LEMMA SharedRunOfTwo ==
  ASSUME NEW m, NEW a, NEW b
  PROVE  RunShared(m, <<a, b>>) = ExecShared(ExecShared(m, a), b)
<1>. DEFINE ws == <<a, b>>
<1>1. PICK T : SharedTrace(T, m, ws)
  BY SharedTraceExists
<1>2. RunShared(m, ws) = T[Len(ws)]
  <2>1. Len(ws) \in Nat /\ DOMAIN ws = 1 .. Len(ws)
    OBVIOUS
  <2>. HIDE DEF ws
  <2>. QED
    BY <1>1, <2>1, SharedRunIsTrace
<1>3. T[0] = m /\ T[1] = ExecShared(T[0], a) /\ T[2] = ExecShared(T[1], b)
  BY <1>1 DEF SharedTrace
<1>. QED
  BY <1>2, <1>3

LEMMA SharedRunOfThree ==
  ASSUME NEW m, NEW a, NEW b, NEW c
  PROVE  RunShared(m, <<a, b, c>>) = ExecShared(ExecShared(ExecShared(m, a), b), c)
<1>. DEFINE ws == <<a, b, c>>
<1>1. PICK T : SharedTrace(T, m, ws)
  BY SharedTraceExists
<1>2. RunShared(m, ws) = T[Len(ws)]
  <2>1. Len(ws) \in Nat /\ DOMAIN ws = 1 .. Len(ws)
    OBVIOUS
  <2>. HIDE DEF ws
  <2>. QED
    BY <1>1, <2>1, SharedRunIsTrace
<1>3. T[0] = m /\ T[1] = ExecShared(T[0], a) /\ T[2] = ExecShared(T[1], b) /\ T[3] = ExecShared(T[2], c)
  BY <1>1 DEF SharedTrace
<1>. QED
  BY <1>2, <1>3

\* A run of one word more.
LEMMA RunOfAppend ==
  ASSUME NEW S, NEW ws \in Seq(S), NEW w \in S, NEW m
  PROVE  Run(m, Append(ws, w)) = Exec(Run(m, ws), w)
<1>1. PICK len \in Nat : len = Len(ws)
  OBVIOUS
<1>. DEFINE all == Append(ws, w)
<1>2. /\ Len(all) = len + 1 /\ Len(all) \in Nat /\ all[len + 1] = w
      /\ DOMAIN all = 1 .. len + 1 /\ DOMAIN ws = 1 .. len
      /\ \A i \in 1 .. len : all[i] = ws[i]
  BY <1>1
<1>. HIDE DEF all
<1>3. PICK T : Trace(T, m, all)
  BY <1>2, TraceExists
<1>4. Run(m, all) = T[len + 1]
  BY <1>2, <1>3, RunIsTrace
<1>5. /\ T[0] = m /\ \A k \in 1 .. len : T[k] = Exec(T[k - 1], ws[k])
      /\ T[len + 1] = Exec(T[len], w)
  <2>1. len + 1 \in 1 .. len + 1 /\ len + 1 - 1 = len /\ \A k \in 1 .. len : k \in 1 .. len + 1
    OBVIOUS
  <2>2. T[0] = m /\ \A k \in 1 .. len + 1 : T[k] = Exec(T[k - 1], all[k])
    BY <1>2, <1>3 DEF Trace
  <2>. QED
    BY <1>2, <2>1, <2>2
<1>6. Run(m, ws) = T[len]
  <2>1. Trace(T, m, ws)
    BY <1>1, <1>5 DEF Trace
  <2>. QED
    BY <1>1, <1>2, <2>1, RunIsTrace
<1>. QED
  BY <1>4, <1>5, <1>6 DEF all

\* Words other than atomics do the same with and without others.
LEMMA RunAfterAtomics ==
  ASSUME NEW S, NEW ws \in Seq(S), NEW vs \in Seq(S), NEW m,
         \A i \in 1 .. Len(vs) : vs[i].op \notin AtomicOps
  PROVE  RunShared(m, ws \o vs) = Run(RunShared(m, ws), vs)
<1>1. PICK a \in Nat, b \in Nat : a = Len(ws) /\ b = Len(vs)
  OBVIOUS
<1>. DEFINE all == ws \o vs
<1>2. /\ Len(all) = a + b /\ Len(all) \in Nat /\ DOMAIN all = 1 .. a + b
      /\ DOMAIN ws = 1 .. a /\ DOMAIN vs = 1 .. b
  BY <1>1
<1>3. /\ \A i \in 1 .. a : all[i] = ws[i]
      /\ \A i \in 1 .. b : all[a + i] = vs[i]
  BY <1>1
<1>. HIDE DEF all
<1>4. PICK T : SharedTrace(T, m, all)
  BY <1>2, SharedTraceExists
<1>5. RunShared(m, all) = T[a + b]
  BY <1>2, <1>4, SharedRunIsTrace
<1>6. T[0] = m /\ \A k \in 1 .. a + b : T[k] = ExecShared(T[k - 1], all[k])
  BY <1>2, <1>4 DEF SharedTrace
<1>7. RunShared(m, ws) = T[a]
  <2>1. \A k \in 1 .. a : T[k] = ExecShared(T[k - 1], ws[k])
    <3>1. \A k \in 1 .. a : k \in 1 .. a + b
      OBVIOUS
    <3>. QED
      BY <1>3, <1>6, <3>1
  <2>2. SharedTrace(T, m, ws)
    BY <1>1, <1>6, <2>1 DEF SharedTrace
  <2>. QED
    BY <1>1, <1>2, <2>2, SharedRunIsTrace
<1>. DEFINE V == [k \in 0 .. b |-> T[a + k]]
<1>8. Trace(V, T[a], vs)
  <2>1. V[0] = T[a]
    OBVIOUS
  <2>2. ASSUME NEW k \in 1 .. b PROVE V[k] = Exec(V[k - 1], vs[k])
    <3>1. /\ k \in 0 .. b /\ k - 1 \in 0 .. b /\ a + k \in 1 .. a + b
          /\ a + (k - 1) = (a + k) - 1
      OBVIOUS
    <3>2. V[k] = T[a + k] /\ V[k - 1] = T[(a + k) - 1]
      BY <3>1
    <3>3. all[a + k] = vs[k]
      BY <1>3
    <3>. HIDE DEF V
    <3>4. T[a + k] = ExecShared(T[(a + k) - 1], vs[k])
      BY <1>6, <3>1, <3>3
    <3>5. vs[k].op \notin AtomicOps
      BY <1>1
    <3>. QED
      BY <3>2, <3>4, <3>5 DEF ExecShared
  <2>. HIDE DEF V
  <2>. QED
    BY <1>1, <2>1, <2>2 DEF Trace
<1>9. Run(T[a], vs) = V[b]
  <2>. HIDE DEF V
  <2>. QED
    BY <1>1, <1>2, <1>8, RunIsTrace
<1>. QED
  BY <1>5, <1>7, <1>9 DEF all

-----------------------------------------------------------------------------
(* Machines that differ in some registers only.                            *)

Fields == {"x", "sp", "base", "flags", "mem"}
Whole(m) == Shaped(m) /\ DOMAIN m = Fields

Alike(a, b, R) ==
  /\ a.sp = b.sp /\ a.base = b.base /\ a.flags = b.flags
  /\ \A g \in Gprs \ R : a.x[g] = b.x[g]

LEMMA ReadElsewhere ==
  ASSUME NEW a, NEW b, NEW R, Alike(a, b, R), NEW w, NEW r \in Reg, r \notin R
  PROVE  Reads(a, w, r) = Reads(b, w, r)
BY DEF Alike, Reads, Reg

LEMMA StatusRead ==
  ASSUME NEW m, NEW w, w.op = "mrs"
  PROVE  /\ Exec(m, w) = Committed(m, w, Outcome(m, w, Size(w)))
         /\ Outcome(m, w, Size(w)) =
              Plainly({i \in Low(4) : <<m.flags.v, m.flags.c, m.flags.z, m.flags.n>>[i + 1]}, Size(w))
<1>1. /\ w.op \notin ShiftOps /\ w.op \notin MoveOps /\ w.op \notin LogicOps /\ w.op \notin SelectOps
      /\ w.op \notin {"fcmp"} \cup CondCmpOps \cup AdderOps
  BY DEF ShiftOps, MoveOps, LogicOps, SelectOps, CondCmpOps, CondCmpImmOps, AdderOps, ArithOps, ImmArithOps,
         ExtArithOps, CarryOps, MulOps
<1>2. w.op \notin {"msr", "ptest", "nop", "str"} \cup Conditionals \cup Terminal /\ w.op \notin MemoryOps
  BY DEF Conditionals, CompareBranches, CbOps, Terminal, MemoryOps
<1>3. \A c, d, old, s : DataOf(m, w, c, d, old, s)
                         = {i \in Low(4) : <<m.flags.v, m.flags.c, m.flags.z, m.flags.n>>[i + 1]}
  BY <1>1 DEF DataOf
<1>4. Exec(m, w) = Committed(m, w, Outcome(m, w, Size(w)))
  BY <1>2 DEF Exec, WriteBack
<1>5. Outcome(m, w, Size(w)) =
        Plainly(DataOf(m, w, Reads(m, w, w.n), Reads(m, w, w.m), Reads(m, w, w.d), Size(w)), Size(w))
  BY <1>1 DEF Outcome
<1>. QED
  BY <1>3, <1>4, <1>5

\* A straight word commits an outcome to its destination or sets the flags.
LEMMA StraightExec ==
  ASSUME NEW m, NEW w, w.op \in Straight
  PROVE  /\ w.op \in ComputeOps \cup {"mrs"} => Exec(m, w) = Committed(m, w, Outcome(m, w, Size(w)))
         /\ w.op = "msr" => Exec(m, w) = [m EXCEPT !.flags = NzcvOf(Reads(m, w, w.n))]
         /\ w.op = "nop" => Exec(m, w) = m
<1>1. CASE w.op = "msr"
  <2>1. w.op \notin {"nop"} \cup Conditionals \cup Terminal
    BY <1>1 DEF Conditionals, CompareBranches, CbOps, Terminal
  <2>2. w.op \notin ComputeOps \cup {"mrs", "nop"}
    BY <1>1 DEF ComputeOps, ShiftOps, ExtractOps, PlaceOps, MoveOps,
         LogicOps, ImmLogicOps, ArithOps, ImmArithOps, ExtArithOps, SelectOps, MulOps, HighOps, TwoSourceOps,
         OneSourceOps, CarryOps, CondCmpOps, CondCmpImmOps
  <2>. PICK c : c = [m EXCEPT !.flags = NzcvOf(Reads(m, w, w.n))]
    OBVIOUS
  <2>3. Exec(m, w) = c
    BY <1>1, <2>1 DEF Exec
  <2>. QED
    BY <1>1, <2>2, <2>3
<1>2. CASE w.op = "nop"
  <2>1. w.op \notin ComputeOps \cup {"mrs", "msr"}
    BY <1>2 DEF ComputeOps, ShiftOps, ExtractOps, PlaceOps, MoveOps,
         LogicOps, ImmLogicOps, ArithOps, ImmArithOps, ExtArithOps, SelectOps, MulOps, HighOps, TwoSourceOps,
         OneSourceOps, CarryOps, CondCmpOps, CondCmpImmOps
  <2>. QED
    BY <1>2, <2>1 DEF Exec
<1>3. CASE w.op \in ComputeOps \cup {"mrs"} /\ w.op \notin {"msr", "nop"}
  BY <1>3, ComputeCommits, StatusRead
<1>. QED
  BY <1>1, <1>2, <1>3 DEF Straight

LEMMA SetFlags ==
  ASSUME NEW m, Whole(m), NEW f, NEW c, c = [m EXCEPT !.flags = f]
  PROVE  Whole(c) /\ c.flags = f /\ c.x = m.x /\ c.sp = m.sp /\ c.base = m.base /\ c.mem = m.mem
BY DEF Whole, Shaped, Fields

LEMMA CommitWhole ==
  ASSUME NEW m, Whole(m), NEW w, NEW r, NEW c, c = Committed(m, w, r)
  PROVE  /\ Whole(c) /\ c.mem = m.mem /\ c.base = m.base
         /\ c.sp = IF w.d = R31 /\ w.op \in SpDest THEN r.v ELSE m.sp
         /\ c.flags = IF w.op \in FlagOps \cup {"fcmp"} THEN r.flags ELSE m.flags
         /\ \A g \in Gprs : c.x[g] = IF g = w.d THEN r.v ELSE m.x[g]
<1>1. /\ Shaped(c) /\ c.base = m.base
      /\ c.sp = IF w.d = R31 /\ w.op \in SpDest THEN r.v ELSE m.sp
      /\ c.flags = IF w.op \in FlagOps \cup {"fcmp"} THEN r.flags ELSE m.flags
      /\ \A g \in Gprs : c.x[g] = IF g = w.d THEN r.v ELSE m.x[g]
  BY AfterCommit DEF Whole
<1>2. DOMAIN c = DOMAIN m /\ \A f \in DOMAIN m \ {"x", "sp", "flags"} : c[f] = m[f]
  BY AfterCommit DEF Whole
<1>3. "mem" \in DOMAIN m \ {"x", "sp", "flags"}
  BY DEF Whole, Fields
<1>4. c.mem = m.mem
  BY <1>2, <1>3
<1>. QED
  BY <1>1, <1>2, <1>4 DEF Whole

LEMMA StraightWhole ==
  ASSUME NEW m, Whole(m), NEW w, w.op \in Straight
  PROVE  Whole(Exec(m, w)) /\ Exec(m, w).mem = m.mem
<1>1. CASE w.op \in ComputeOps \cup {"mrs"}
  BY <1>1, StraightExec, CommitWhole
<1>2. CASE w.op = "msr"
  BY <1>2, StraightExec, SetFlags
<1>3. CASE w.op = "nop"
  BY <1>3, StraightExec
<1>. QED
  BY <1>1, <1>2, <1>3 DEF Straight

\* What reads no register in which two machines differ leaves them alike,
\* and what it writes the same.
LEMMA StraightAlike ==
  ASSUME NEW a, NEW b, Whole(a), Whole(b), NEW R, Alike(a, b, R),
         NEW w \in Words, w.op \in Straight, w.op \in {"msr", "nop"} => w.d = R31, R31 \notin R,
         \A r \in R : ~ReadsReg(w, r)
  PROVE  Alike(Exec(a, w), Exec(b, w), R \ {w.d})
<1>1. w.n \in Reg /\ w.m \in Reg /\ w.a \in Reg /\ w.d \in Reg
  BY DEF Words, Reg
<1>2. CASE w.op \in ComputeOps \cup {"mrs"}
  <2>1. Outcome(a, w, Size(w)) = Outcome(b, w, Size(w))
    <3>1. CASE w.op \in ComputeOps
      <4>1. ReadAlike(a, b, w)
        <5>1. w.op \notin Immediates => w.n \notin R
          BY DEF ReadsReg
        <5>2. w.op \in TwoRegisters => w.m \notin R
          BY DEF ReadsReg
        <5>3. w.op \in MulOps => w.a \notin R
          BY DEF ReadsReg
        <5>4. w.op \in {"bfi", "bfxil", "movk"} => w.d \notin R
          BY DEF ReadsReg
        <5>5. a.flags = b.flags /\ a.base = b.base
          BY DEF Alike
        <5>. QED
          BY <1>1, <5>1, <5>2, <5>3, <5>4, <5>5, ReadElsewhere DEF ReadAlike
      <4>. QED
        BY <3>1, <4>1, SameOutcome
    <3>2. CASE w.op = "mrs"
      <4>1. a.flags = b.flags
        BY DEF Alike
      <4>. QED
        BY <3>2, <4>1, StatusRead
    <3>. QED
      BY <1>2, <3>1, <3>2
  <2>. PICK r : r = Outcome(a, w, Size(w))
    OBVIOUS
  <2>2. Exec(a, w) = Committed(a, w, r) /\ Exec(b, w) = Committed(b, w, r)
    BY <1>2, <2>1, StraightExec
  <2>. PICK c, d : c = Committed(a, w, r) /\ d = Committed(b, w, r)
    OBVIOUS
  <2>3. /\ c.base = a.base
        /\ c.sp = IF w.d = R31 /\ w.op \in SpDest THEN r.v ELSE a.sp
        /\ c.flags = IF w.op \in FlagOps \cup {"fcmp"} THEN r.flags ELSE a.flags
        /\ \A g \in Gprs : c.x[g] = IF g = w.d THEN r.v ELSE a.x[g]
    BY CommitWhole
  <2>4. /\ d.base = b.base
        /\ d.sp = IF w.d = R31 /\ w.op \in SpDest THEN r.v ELSE b.sp
        /\ d.flags = IF w.op \in FlagOps \cup {"fcmp"} THEN r.flags ELSE b.flags
        /\ \A g \in Gprs : d.x[g] = IF g = w.d THEN r.v ELSE b.x[g]
    BY CommitWhole
  <2>5. Alike(c, d, R \ {w.d})
    BY <2>3, <2>4 DEF Alike
  <2>. QED
    BY <2>2, <2>5
<1>3. CASE w.op = "msr"
  <2>1. Reads(a, w, w.n) = Reads(b, w, w.n)
    <3>1. w.n \notin R
      BY <1>3 DEF ReadsReg, Immediates, MoveOps
    <3>. QED
      BY <1>1, <3>1, ReadElsewhere
  <2>. PICK f : f = NzcvOf(Reads(a, w, w.n))
    OBVIOUS
  <2>. PICK c, d : c = [a EXCEPT !.flags = f] /\ d = [b EXCEPT !.flags = f]
    OBVIOUS
  <2>2. Exec(a, w) = c /\ Exec(b, w) = d
    BY <1>3, <2>1, StraightExec
  <2>3. c.flags = f /\ c.x = a.x /\ c.sp = a.sp /\ c.base = a.base
    BY SetFlags
  <2>4. d.flags = f /\ d.x = b.x /\ d.sp = b.sp /\ d.base = b.base
    BY SetFlags
  <2>5. R \ {w.d} = R
    BY <1>3
  <2>6. Alike(c, d, R)
    BY <2>3, <2>4 DEF Alike
  <2>. QED
    BY <2>2, <2>5, <2>6
<1>4. CASE w.op = "nop"
  <2>1. R \ {w.d} = R
    BY <1>4
  <2>. QED
    BY <1>4, <2>1, StraightExec
<1>. QED
  BY <1>2, <1>3, <1>4 DEF Straight

-----------------------------------------------------------------------------
(* Values cut to the width of an access.                                   *)

LEMMA SumCut ==
  ASSUME NEW s \in 0 .. W, NEW wd \in 0 .. s, NEW v \in SUBSET Low(wd), NEW x \in SUBSET Low(s)
  PROVE  Added(v, x, s) \cap Low(wd) = Bits(NatOf[v] + NatOf[x \cap Low(wd)], wd)
<1>1. wd \in 0 .. W /\ v \in SUBSET Low(W) /\ x \in SUBSET Low(W)
  BY Widths DEF Low
<1>2. NatOf[v] \in Nat /\ NatOf[x] \in Nat /\ Added(v, x, s) = Bits(NatOf[v] + NatOf[x], s)
  BY <1>1, SumOfValues
<1>3. NatOf[x \cap Low(wd)] = NatOf[x] % Modulus(wd)
  BY <1>1, NumberCut
<1>0. PICK i \in Nat, j \in Nat : i = NatOf[v] /\ j = NatOf[x]
  BY <1>2
<1>4. Bits(i + j, s) \cap Low(wd) = Bits(i + j, wd)
  BY BitsCut
<1>5. Bits(i + (j % Modulus(wd)), wd) = Bits(i + j, wd)
  <2>1. i \in Int /\ j \in Int
    OBVIOUS
  <2>. QED
    BY <1>1, <2>1, AddCut, Zenon
<1>. QED
  BY <1>0, <1>2, <1>3, <1>4, <1>5

LEMMA ConstantCut ==
  ASSUME NEW s \in 0 .. W, NEW wd \in 0 .. s, NEW v \in SUBSET Low(wd), NEW k \in Int,
         NEW s2 \in 0 .. W, wd \in 0 .. s2
  PROVE  Added(v, Bits(k, s), s) \cap Low(wd) = Bits(NatOf[v] + NatOf[Bits(k, s2) \cap Low(wd)], wd)
<1>1. wd \in 0 .. W /\ v \in SUBSET Low(W)
  BY Widths DEF Low
<1>2. NatOf[v] \in Nat /\ Added(v, Bits(k, s), s) = Bits(NatOf[v] + k, s)
  BY <1>1, AddConstant
<1>3. Bits(k, s2) \cap Low(wd) = Bits(k, wd)
  BY BitsCut
<1>4. NatOf[Bits(k, wd)] = k % Modulus(wd) /\ k % Modulus(wd) \in Nat
  BY <1>1, BitsModulo
<1>0. PICK i \in Nat : i = NatOf[v]
  BY <1>2
<1>5. Bits(i + k, s) \cap Low(wd) = Bits(i + k, wd)
  BY BitsCut
<1>6. Bits(i + (k % Modulus(wd)), wd) = Bits(i + k, wd)
  <2>1. i \in Int /\ k \in Int
    OBVIOUS
  <2>. QED
    BY <1>1, <2>1, AddCut, Zenon
<1>. QED
  BY <1>0, <1>2, <1>3, <1>4, <1>5, <1>6

LEMMA DifferenceCut ==
  ASSUME NEW s \in 0 .. W, NEW wd \in 0 .. s, NEW v \in SUBSET Low(wd), NEW x \in SUBSET Low(s),
         NEW s2 \in 0 .. W, wd \in 0 .. s2, NEW y \in SUBSET Low(s2), x \cap Low(wd) = y \cap Low(wd)
  PROVE  Subtracted(v, x, s) \cap Low(wd) = Bits(NatOf[v] + NatOf[Subtracted({}, y, s2) \cap Low(wd)], wd)
<1>1. wd \in 0 .. W /\ v \in SUBSET Low(W) /\ x \in SUBSET Low(W) /\ y \in SUBSET Low(W) /\ {} \in SUBSET Low(W)
  BY Widths DEF Low
<1>2. NatOf[v] \in Nat /\ NatOf[x] \in Nat /\ Subtracted(v, x, s) = Bits(NatOf[v] - NatOf[x], s)
  BY <1>1, DifferenceOfValues
<1>3. NatOf[y] \in Nat /\ Subtracted({}, y, s2) = Bits(NatOf[{}] - NatOf[y], s2) /\ NatOf[{}] = 0
  BY <1>1, DifferenceOfValues, NumberAdds
<1>0. PICK i \in Nat, j \in Nat, k \in Nat : i = NatOf[v] /\ j = NatOf[x] /\ k = NatOf[y]
  BY <1>2, <1>3
<1>. DEFINE p == Modulus(wd)
<1>4. j % p = k % p
  BY <1>0, <1>1, NumberCut
<1>5. (0 - k) % p \in Nat
  BY <1>1, BitsModulo
<1>6. NatOf[Subtracted({}, y, s2) \cap Low(wd)] = (0 - k) % p
  <2>1. Bits(0 - k, s2) \cap Low(wd) = Bits(0 - k, wd)
    BY BitsCut
  <2>2. NatOf[Bits(0 - k, wd)] = (0 - k) % p
    BY <1>1, BitsModulo
  <2>. QED
    BY <1>0, <1>3, <2>1, <2>2
<1>7. Bits(i - j, s) \cap Low(wd) = Bits(i - j, wd)
  BY BitsCut
<1>8. i \in Int /\ j \in Int /\ k \in Int /\ 0 - k \in Int
  OBVIOUS
<1>9. /\ Bits(i - (j % p), wd) = Bits(i - j, wd)
      /\ Bits(i - (k % p), wd) = Bits(i - k, wd)
      /\ Bits(i + ((0 - k) % p), wd) = Bits(i + (0 - k), wd)
  BY <1>1, <1>8, AddCut, Zenon
<1>10. i + (0 - k) = i - k
  OBVIOUS
<1>. QED
  BY <1>0, <1>2, <1>4, <1>6, <1>7, <1>9, <1>10

LEMMA EqualIfNoDifference ==
  ASSUME NEW s \in 0 .. W, NEW a \in SUBSET Low(s), NEW b \in SUBSET Low(s)
  PROVE  Subtracted(a, b, s) = {} <=> a = b
<1>1. a \in SUBSET Low(W) /\ {} \in SUBSET Low(W)
  BY Widths DEF Low
<1>2. NatOf[Subtracted(a, b, s)] = (NatOf[a] - NatOf[b]) % Modulus(s)
  BY <1>1, DifferenceOfValues
<1>3. NatOf[a] \in 0 .. Modulus(s) - 1 /\ NatOf[b] \in 0 .. Modulus(s) - 1 /\ Modulus(s) \in Nat \ {0} /\ NatOf[{}] = 0
  BY NumberFits, PowerIsPositive, NumberAdds DEF Modulus
<1>4. ASSUME Subtracted(a, b, s) = {} PROVE a = b
  <2>0. PICK i, j, p : i = NatOf[a] /\ j = NatOf[b] /\ p = Modulus(s)
    OBVIOUS
  <2>1. (i - j) % p = 0 /\ i \in 0 .. p - 1 /\ j \in 0 .. p - 1 /\ p \in Nat \ {0}
    BY <1>2, <1>3, <1>4, <2>0
  <2>2. i = j
    <3>1. i - j = p * ((i - j) \div p) + ((i - j) % p) /\ (i - j) \div p \in Int
      BY <2>1, Divided
    <3>. PICK q \in Int : q = (i - j) \div p
      BY <3>1
    <3>2. i - j = p * q
      BY <2>1, <3>1
    <3>3. q >= 1 => p * q >= p
      BY <2>1
    <3>4. q <= -1 => p * q <= -p
      BY <2>1
    <3>5. q = 0 => p * q = 0
      BY <2>1
    <3>. QED
      BY <2>1, <3>2, <3>3, <3>4, <3>5
  <2>. QED
    BY <2>0, <2>2, OneValue
<1>. QED
  BY <1>4, SubtractNothing

-----------------------------------------------------------------------------
(* What the operation of a fetch loop makes of the value v loaded, cut to  *)
(* the width of the access, when the other operand's register holds x.     *)

AccessSize(l) == IF l.wd = W THEN W ELSE H
FetchNew(l, o, v, x) ==
  LET s == AccessSize(l)
      y == x \cap Low(l.wd)
  IN  CASE o.op = "orr"  -> v \cup y
        [] o.op = "eor"  -> SymDiff(v, y)
        [] o.op = "bic"  -> v \ y
        [] o.op = "and"  -> v \ ((Low(s) \ (x \cap Low(s))) \cap Low(l.wd))
        [] o.op = "add"  -> Bits(NatOf[v] + NatOf[y], l.wd)
        [] o.op = "sub"  -> Bits(NatOf[v] + NatOf[Subtracted({}, x \cap Low(s), s) \cap Low(l.wd)], l.wd)
        [] o.op = "addi" -> Bits(NatOf[v] + NatOf[Bits(o.k, s) \cap Low(l.wd)], l.wd)

AccessWidth(wd) == wd \in 1 .. H \cup {W}

LEMMA WidthsOfAccess ==
  ASSUME NEW l, AccessWidth(l.wd)
  PROVE  /\ l.wd \in 0 .. W /\ AccessSize(l) \in 0 .. W /\ l.wd \in 0 .. AccessSize(l) /\ AccessSize(l) \in Nat \ {0}
         /\ \A w : w.sf \/ l.wd <= H => l.wd \in 0 .. Size(w)
         /\ \A w : (w.sf <=> l.wd = W) => Size(w) = AccessSize(l)
<1>1. H \in Nat \ {0} /\ W = 2 * H /\ (l.wd \in 1 .. H \/ l.wd = W)
  BY AluAssumption DEF AccessWidth
<1>2. l.wd \in 0 .. W /\ AccessSize(l) \in 0 .. W /\ l.wd \in 0 .. AccessSize(l) /\ AccessSize(l) \in Nat \ {0}
  BY <1>1, AluAssumption DEF AccessSize
<1>3. ASSUME NEW w, w.sf \/ l.wd <= H PROVE l.wd \in 0 .. Size(w)
  BY <1>1, <1>3, AluAssumption DEF Size
<1>4. ASSUME NEW w, w.sf <=> l.wd = W PROVE Size(w) = AccessSize(l)
  BY <1>4 DEF Size, AccessSize
<1>. QED
  BY <1>2, <1>3, <1>4

\* A register read by a word at least as wide as the access, cut to it.
LEMMA ReadCut ==
  ASSUME NEW m, NEW w, NEW r, NEW wd \in 0 .. Size(w)
  PROVE  /\ r # R31 => Reads(m, w, r) = m.x[r] \cap Low(Size(w)) /\ Reads(m, w, r) \cap Low(wd) = m.x[r] \cap Low(wd)
         /\ r = R31 /\ w.op \notin SpSource => Reads(m, w, r) = {}
<1>1. Size(w) \in Nat /\ \A i : i \in Low(wd) => i \in Low(Size(w))
  BY Widths DEF Low, Size
<1>. QED
  BY <1>1 DEF Reads

LEMMA CombinesOps ==
  ASSUME NEW l, NEW o, Combines(l, o)
  PROVE  /\ o.op \in {"add", "and", "orr", "eor", "sub", "bic", "addi"}
         /\ o.op # "addi" => o.op \in ArithOps \cup LogicOps /\ o.op \notin SpSource /\ o.op \notin SpDest
         /\ o.op \in ComputeOps /\ o.op \notin FlagOps
BY DEF Combines, Commutative, ComputeOps, FlagOps, SpDest, SpSource, ArithOps, LogicOps, ImmArithOps, ExtArithOps, CondCmpOps, CondCmpImmOps

OtherValue(l, o, u) == u.x[Other(l, o)] \cap Low(Size(o))

LEMMA OperandsOfLoop ==
  ASSUME NEW l, NEW o, Combines(l, o), NEW u, o.op # "addi", l.d # R31, AccessWidth(l.wd),
         NEW v \in SUBSET Low(l.wd), u.x[l.d] = v
  PROVE  /\ v \in SUBSET Low(Size(o)) /\ OtherValue(l, o, u) \in SUBSET Low(Size(o))
         /\ \/ Value(u, o) = Operated(o.op, v, OtherValue(l, o, u), Size(o)).v
            \/ Value(u, o) = Operated(o.op, OtherValue(l, o, u), v, Size(o)).v /\ o.op \in Commutative
<1>. PICK s, a : s = Size(o) /\ a = OtherValue(l, o, u)
  OBVIOUS
<1>1. s \in Nat \ {0} /\ l.wd \in 0 .. s
  BY WidthsOfAccess, Widths DEF Combines
<1>2. v \in SUBSET Low(s) /\ a \in SUBSET Low(s)
  BY <1>1 DEF Low, OtherValue
<1>3. PlainOperand(o) /\ o.op \in ArithOps \cup LogicOps
  BY CombinesOps DEF Combines
<1>4. Reads(u, o, l.d) = v
  <2>1. Reads(u, o, l.d) = u.x[l.d] \cap Low(s)
    BY <1>1, ReadCut
  <2>. QED
    BY <1>2, <2>1
<1>5. Reads(u, o, Other(l, o)) = a
  <2>1. Other(l, o) # R31
    BY DEF Combines
  <2>. QED
    BY <1>1, <2>1, ReadCut DEF OtherValue
<1>6. \A z \in SUBSET Low(s) : ShiftBy(o.sh, z, o.k, s) = z
  <2>1. o.sh = "lsl" /\ o.k = 0 /\ "lsl" \in ShiftOps
    BY <1>3 DEF PlainOperand, ShiftOps
  <2>. QED
    BY <1>1, <2>1, ShiftByNothing
<1>7. Value(u, o) = Operated(o.op, Reads(u, o, o.n), ShiftBy(o.sh, Reads(u, o, o.m), o.k, s), s).v
  BY <1>3, OutcomeOfOperation DEF Value
<1>8. CASE o.n = l.d
  <2>1. o.m = Other(l, o)
    BY <1>8 DEF Other
  <2>2. Reads(u, o, o.n) = v /\ Reads(u, o, o.m) = a
    BY <1>4, <1>5, <1>8, <2>1
  <2>. QED
    BY <1>2, <1>6, <1>7, <2>2
<1>9. CASE o.n # l.d
  <2>1. o.n = Other(l, o) /\ o.m = l.d /\ o.op \in Commutative
    BY <1>9, CombinesOps DEF Other, Combines
  <2>2. Reads(u, o, o.n) = a /\ Reads(u, o, o.m) = v
    BY <1>4, <1>5, <2>1
  <2>. QED
    BY <1>2, <1>6, <1>7, <2>1, <2>2
<1>. QED
  BY <1>2, <1>8, <1>9

LEMMA LowGrows == ASSUME NEW s \in 0 .. W, NEW n \in 0 .. s PROVE Low(n) \subseteq Low(s)
BY Widths DEF Low

LEMMA LoopStores ==
  ASSUME NEW l, NEW o, Combines(l, o), NEW u, l.d # R31, AccessWidth(l.wd), o.k \in Int,
         NEW v \in SUBSET Low(l.wd), u.x[l.d] = v
  PROVE  Value(u, o) \cap Low(l.wd) = FetchNew(l, o, v, u.x[Other(l, o)])
<1>0. PICK s, s2, wd, x : s = Size(o) /\ s2 = AccessSize(l) /\ wd = l.wd /\ x = u.x[Other(l, o)]
  OBVIOUS
<1>0a. v \in SUBSET Low(wd)
  BY <1>0
<1>1. s \in 0 .. W /\ s2 \in 0 .. W /\ wd \in 0 .. s /\ wd \in 0 .. s2 /\ wd \in 0 .. W
  BY <1>0, WidthsOfAccess, Widths DEF Combines
<1>2. v \in SUBSET Low(s) /\ v \in SUBSET Low(W) /\ \A i \in Low(wd) : i \in Low(s) /\ i \in Low(s2)
  <2>1. Low(wd) \subseteq Low(s) /\ Low(wd) \subseteq Low(s2)
    BY <1>0, <1>1, LowGrows
  <2>2. Low(s) \subseteq Low(W)
    <3>1. W \in 0 .. W
      BY <1>0, Widths
    <3>. QED
      BY <1>0, <1>1, <3>1, LowGrows
  <2>. QED
    BY <1>0, <2>1, <2>2
<1>3. CASE o.op = "addi"
  <2>1. o.n = l.d
    BY <1>0, <1>3 DEF Combines, Commutative
  <2>2. Reads(u, o, o.n) = v
    <3>1. Reads(u, o, o.n) = v \cap Low(s)
      BY <1>0, <1>1, <2>1, ReadCut
    <3>. QED
      BY <1>0, <1>2, <3>1
  <2>3. Value(u, o) = Added(v, Bits(o.k, s), s)
    BY <1>0, <1>3, <2>2, AdjustValue
  <2>4. Added(v, Bits(o.k, s), s) \cap Low(wd) = Bits(NatOf[v] + NatOf[Bits(o.k, s2) \cap Low(wd)], wd)
    BY <1>0a, <1>1, ConstantCut
  <2>. QED
    BY <1>0, <1>3, <2>3, <2>4 DEF FetchNew
<1>4. CASE o.op # "addi"
  <2>0. PICK a : a = OtherValue(l, o, u)
    OBVIOUS
  <2>1. /\ a \in SUBSET Low(s)
        /\ \/ Value(u, o) = Operated(o.op, v, a, s).v
           \/ Value(u, o) = Operated(o.op, a, v, s).v /\ o.op \in Commutative
    BY <1>0, <2>0, <1>4, OperandsOfLoop
  <2>2. a \cap Low(wd) = x \cap Low(wd)
    BY <1>0, <2>0, <1>2 DEF OtherValue
  <2>3. CASE o.op = "add"
    <3>1. \A p, q : Operated(o.op, p, q, s).v = Added(p, q, s)
      BY <1>0, <2>3 DEF Operated, ArithOps, Totalled, SubOps, Summed, Added
    <3>2. Added(a, v, s) = Added(v, a, s)
      <4>1. a \in SUBSET Low(W)
        <5>1. W \in 0 .. W
          BY <1>0, Widths
        <5>2. Low(s) \subseteq Low(W)
          BY <1>0, <1>1, <5>1, LowGrows
        <5>. QED
          BY <1>0, <2>1, <5>2
      <4>. QED
        BY <1>0, <1>2, <4>1, AddCommutes DEF Added
    <3>3. Value(u, o) = Added(v, a, s)
      BY <1>0, <2>1, <3>1, <3>2
    <3>4. Added(v, a, s) \cap Low(wd) = Bits(NatOf[v] + NatOf[a \cap Low(wd)], wd)
      <4>1. ASSUME NEW p \in SUBSET Low(wd), NEW q \in SUBSET Low(s)
            PROVE  Added(p, q, s) \cap Low(wd) = Bits(NatOf[p] + NatOf[q \cap Low(wd)], wd)
        BY <1>1, SumCut
      <4>2. a \in SUBSET Low(s)
        BY <2>1
      <4>. QED
        BY <1>0a, <4>1, <4>2
    <3>. QED
      BY <1>0, <2>2, <2>3, <3>3, <3>4 DEF FetchNew
  <2>4. CASE o.op = "sub"
    <3>1. Value(u, o) = Subtracted(v, a, s)
      <4>1. o.op \notin Commutative
        BY <1>0, <2>4 DEF Commutative
      <4>2. Operated(o.op, v, a, s).v = Subtracted(v, a, s)
        BY <1>0, <2>4 DEF Operated, ArithOps, Totalled, SubOps, Lessened, Subtracted
      <4>. QED
        BY <1>0, <2>1, <4>1, <4>2
    <3>. PICK y : y = x \cap Low(s2)
      OBVIOUS
    <3>2. y \in SUBSET Low(s2) /\ a \cap Low(wd) = y \cap Low(wd)
      BY <1>0, <1>2, <2>2
    <3>3. Subtracted(v, a, s) \cap Low(wd) = Bits(NatOf[v] + NatOf[Subtracted({}, y, s2) \cap Low(wd)], wd)
      BY <1>0a, <1>1, <2>1, <3>2, DifferenceCut
    <3>. QED
      BY <1>0, <2>4, <3>1, <3>3 DEF FetchNew
  <2>5. CASE o.op \in {"orr", "eor", "and", "bic"}
    <3>1. \A p, q : Operated(o.op, p, q, s).v = Logic(o.op, p, IF o.op = "bic" THEN Low(s) \ q ELSE q)
      BY <1>0, <2>5 DEF Operated, ArithOps, Plainly, InvertedOps
    <3>2. CASE o.op = "orr"
      <4>1. Value(u, o) = v \cup a
        BY <1>0, <2>1, <3>1, <3>2 DEF Logic
      <4>. QED
        BY <1>0, <2>2, <3>2, <4>1 DEF FetchNew
    <3>3. CASE o.op = "eor"
      <4>1. SymDiff(v, a) = SymDiff(a, v)
        BY <1>0 DEF SymDiff
      <4>2. Value(u, o) = SymDiff(v, a)
        BY <1>0, <2>1, <3>1, <3>3, <4>1 DEF Logic
      <4>3. SymDiff(v, a) \cap Low(wd) = SymDiff(v, x \cap Low(wd))
        BY <1>0, <2>2 DEF SymDiff
      <4>. QED
        BY <1>0, <3>3, <4>2, <4>3 DEF FetchNew
    <3>4. CASE o.op = "and"
      <4>1. Value(u, o) = v \cap a
        BY <1>0, <2>1, <3>1, <3>4 DEF Logic
      <4>2. v \cap a = v \ ((Low(s2) \ (x \cap Low(s2))) \cap Low(wd))
        BY <1>0, <1>2, <2>2
      <4>3. FetchNew(l, o, v, x) = v \ ((Low(s2) \ (x \cap Low(s2))) \cap Low(wd))
        BY <1>0, <3>4 DEF FetchNew
      <4>. QED
        BY <1>0, <4>1, <4>2, <4>3
    <3>5. CASE o.op = "bic"
      <4>1. o.op \notin Commutative
        BY <1>0, <3>5 DEF Commutative
      <4>2. Value(u, o) = v \cap (Low(s) \ a)
        BY <1>0, <2>1, <3>1, <3>5, <4>1 DEF Logic
      <4>3. v \cap (Low(s) \ a) = v \ (x \cap Low(wd))
        BY <1>0, <1>2, <2>2
      <4>4. FetchNew(l, o, v, x) = v \ (x \cap Low(wd))
        BY <1>0, <3>5 DEF FetchNew
      <4>. QED
        BY <1>0, <4>2, <4>3, <4>4
    <3>. QED
      BY <1>0, <2>5, <3>2, <3>3, <3>4, <3>5
  <2>. QED
    BY <1>0, <1>4, <2>3, <2>4, <2>5, CombinesOps
<1>. QED
  BY <1>0, <1>3, <1>4

-----------------------------------------------------------------------------
(* What an atomic leaves.                                                  *)

LEMMA AccessIs ==
  ASSUME NEW op, NEW wd, NEW d, NEW m, NEW n, NEW w, w = Access(op, wd, d, m, n)
  PROVE  w.op = op /\ (w.sf <=> wd = W) /\ w.d = d /\ w.n = n /\ w.m = m /\ w.wd = wd
BY DEF Access, Ternary, Word

\* What it stores in the cell Here.
StoredHere(a, w) ==
  LET old == Fetched(a.mem, "here", w)
      v   == Reads(a, w, w.m) \cap Low(w.wd)
  IN  IF w.op # "cas" THEN Combined(w, old, v)
      ELSE IF a.x[w.d] \cap Low(w.wd) = old THEN v ELSE old

Performed(a, w, c) ==
  /\ Whole(c) /\ c.sp = a.sp /\ c.base = a.base /\ c.flags = a.flags
  /\ \A g \in Gprs : c.x[g] = IF g = w.d THEN Fetched(a.mem, "here", w) ELSE a.x[g]
  /\ c.mem = Written(a.mem, "here", w, StoredHere(a, w))

LEMMA AtomicLeaves ==
  ASSUME NEW a, Whole(a), NEW w, w.op \in AtomicOps, w.d \in Gprs, w.n \in Gprs, a.x[w.n] = Here,
         NEW c, c = ExecShared(a, w)
  PROVE  Performed(a, w, c)
<1>. DEFINE old == Fetched(a.mem, "here", w)
            new == StoredHere(a, w)
            mem == Written(a.mem, "here", w, new)
            x   == [a.x EXCEPT ![w.d] = old]
<1>1. c = [a EXCEPT !.mem = mem, !.x[w.d] = old]
  <2>1. CellOf(a, w) = "here"
    BY DEF CellOf
  <2>. QED
    BY <2>1 DEF ExecShared, Atomically, StoredHere
<1>. HIDE DEF old, mem
<1>2. c = [a EXCEPT !.mem = mem, !.x = x]
  BY <1>1 DEF Whole, Fields
<1>3. x = [g \in Gprs |-> x[g]] /\ \A g \in Gprs : x[g] = IF g = w.d THEN old ELSE a.x[g]
  BY DEF Whole, Shaped
<1>. HIDE DEF x
<1>4. c.mem = mem /\ c.x = x /\ c.sp = a.sp /\ c.base = a.base /\ c.flags = a.flags /\ Whole(c)
  BY <1>2, <1>3 DEF Whole, Shaped, Fields
<1>. QED
  BY <1>3, <1>4 DEF old, mem, Performed

\* A compare finds no difference exactly if its operands are equal.
LEMMA CompareLeaves ==
  ASSUME NEW a, Whole(a), NEW w, w.op = "subs", w.d = R31, PlainOperand(w), NEW c, c = Exec(a, w)
  PROVE  /\ Whole(c) /\ c.mem = a.mem /\ c.sp = a.sp /\ c.base = a.base
         /\ \A g \in Gprs : c.x[g] = a.x[g]
         /\ c.flags = Lessened(Reads(a, w, w.n), Reads(a, w, w.m), Size(w)).flags
         /\ c.flags.z <=> Reads(a, w, w.n) = Reads(a, w, w.m)
<1>. PICK s, p, q : s = Size(w) /\ p = Reads(a, w, w.n) /\ q = Reads(a, w, w.m)
  OBVIOUS
<1>1. w.op \in ArithOps /\ w.op \in FlagOps /\ w.op \notin SpDest /\ w.op \in Straight /\ w.op \in ComputeOps
  BY DEF ArithOps, FlagOps, SpDest, Straight, ComputeOps
<1>2. s \in Nat \ {0} /\ s \in 0 .. W /\ p \in SUBSET Low(s) /\ q \in SUBSET Low(s)
  BY ReadFits
<1>3. ShiftBy(w.sh, q, w.k, s) = q
  <2>1. w.sh = "lsl" /\ w.k = 0 /\ "lsl" \in ShiftOps
    BY DEF PlainOperand, ShiftOps
  <2>. QED
    BY <1>2, <2>1, ShiftByNothing
<1>4. Outcome(a, w, s) = Lessened(p, q, s)
  <2>1. Outcome(a, w, s) = Totalled(w.op, p, q, s)
    BY <1>1, <1>3, OutcomeOfArith
  <2>2. w.op \in SubOps
    BY DEF SubOps
  <2>. QED
    BY <2>1, <2>2 DEF Totalled
<1>5. Lessened(p, q, s).flags.z <=> p = q
  <2>1. Lessened(p, q, s).flags.z = (Subtracted(p, q, s) = {})
    BY DEF Lessened, Subtracted, AddWithCarry, AddedUp, Flagged
  <2>2. Subtracted(p, q, s) = {} <=> p = q
    BY <1>2, EqualIfNoDifference
  <2>. QED
    BY <2>1, <2>2
<1>6. /\ Exec(a, w).base = a.base /\ Exec(a, w).sp = a.sp
      /\ Exec(a, w).flags = Outcome(a, w, s).flags
      /\ \A g \in Gprs : Exec(a, w).x[g] = IF g = w.d THEN Value(a, w) ELSE a.x[g]
  BY <1>1, AfterCompute DEF Whole
<1>7. \A g \in Gprs : g # w.d
  BY AluAssumption
<1>8. Whole(c) /\ c.mem = a.mem
  BY <1>1, StraightWhole
<1>. QED
  BY <1>4, <1>5, <1>6, <1>7, <1>8

-----------------------------------------------------------------------------
(* What the suggested words leave, against the loop's last round: b is the *)
(* machine the loop began with, u the one that stores, and the registers   *)
(* written to by the loop alone apart they end alike.                      *)

Proper(w) ==
  /\ w \in Words
  /\ w.op \in Exclusive => AccessWidth(w.wd) /\ w.sf = (w.wd = W)
  /\ w.op \in {"msr", "nop"} => w.d = R31

Kept(b, u, X) == Whole(u) /\ u.sp = b.sp /\ u.base = b.base /\ \A g \in Gprs \ X : u.x[g] = b.x[g]

LEMMA SharedStart ==
  ASSUME NEW b, Whole(b), NEW M, NEW c, c = [b EXCEPT !.mem = M]
  PROVE  Whole(c) /\ c.mem = M /\ c.x = b.x /\ c.sp = b.sp /\ c.base = b.base /\ c.flags = b.flags
BY DEF Whole, Shaped, Fields

Becomes(u, d, q, c) ==
  /\ Whole(c) /\ c.mem = u.mem /\ c.sp = u.sp /\ c.base = u.base /\ c.flags = u.flags
  /\ \A g \in Gprs : c.x[g] = IF g = d THEN q ELSE u.x[g]

LEMMA RegisterSet ==
  ASSUME NEW u, Whole(u), NEW d \in Gprs, NEW q, NEW c, c = [u EXCEPT !.x[d] = q]
  PROVE  Becomes(u, d, q, c)
<1>. DEFINE x == [u.x EXCEPT ![d] = q]
<1>1. c = [u EXCEPT !.x = x]
  BY DEF Whole, Fields
<1>2. x = [g \in Gprs |-> x[g]] /\ \A g \in Gprs : x[g] = IF g = d THEN q ELSE u.x[g]
  BY DEF Whole, Shaped
<1>. HIDE DEF x
<1>3. c.mem = u.mem /\ c.x = x /\ c.sp = u.sp /\ c.base = u.base /\ c.flags = u.flags /\ Whole(c)
  BY <1>1, <1>2 DEF Whole, Shaped, Fields
<1>. QED
  BY <1>2, <1>3 DEF Becomes

LEMMA ComputeBecomes ==
  ASSUME NEW m, Whole(m), NEW w, w.op \in ComputeOps, w.op \notin FlagOps, w.d \in Gprs
  PROVE  Becomes(m, w.d, Value(m, w), Exec(m, w))
<1>1. w.d # R31 /\ w.op \in Straight /\ Shaped(m)
  BY AluAssumption DEF Straight, Whole
<1>2. Whole(Exec(m, w)) /\ Exec(m, w).mem = m.mem
  BY <1>1, StraightWhole
<1>3. /\ Exec(m, w).base = m.base /\ Exec(m, w).sp = m.sp /\ Exec(m, w).flags = m.flags
      /\ \A g \in Gprs : Exec(m, w).x[g] = IF g = w.d THEN Value(m, w) ELSE m.x[g]
  BY <1>1, AfterCompute
<1>. QED
  BY <1>2, <1>3 DEF Becomes

LEMMA WrittenAlike ==
  ASSUME NEW M, NEW c, NEW w1, NEW w2, NEW v1, NEW v2, w1.wd = w2.wd, v1 \cap Low(w1.wd) = v2 \cap Low(w1.wd)
  PROVE  Written(M, c, w1, v1) = Written(M, c, w2, v2)
BY DEF Written

Suggested(b, M, words, R) == R = RunShared([b EXCEPT !.mem = M], words)

\* The suggestion left R, the loop z, in which word s stored what u had.
SameEffect(R, z, X, M, s, u) ==
  Whole(R) /\ Alike(R, z, X) /\ R.mem = Written(M, "here", s, Reads(u, s, s.m))

\* Swap.
SwapReady(l, s, b, u, M) ==
  Kept(b, u, {l.d, s.d}) /\ u.flags = b.flags /\ u.x[l.d] = Fetched(M, "here", l)

LEMMA SwapLeaves ==
  ASSUME NEW l, NEW s, Proper(l), Proper(s), Opens(l), Swaps(l, s),
         NEW b, Whole(b), b.x[l.n] = Here, NEW M,
         NEW u, SwapReady(l, s, b, u, M), NEW z, Becomes(u, s.d, {}, z),
         NEW R, Suggested(b, M, SwapRewrite(l, s), R)
  PROVE  SameEffect(R, z, {s.d}, M, s, u)
<1>1. /\ l.d \in Gprs /\ l.n \in Gprs /\ s.d \in Gprs /\ s.m \in Gprs
      /\ s.wd = l.wd /\ s.m # l.d /\ s.m # s.d /\ s.op = "stxr"
      /\ s.sf <=> s.wd = W
  BY DEF Proper, Words, Opens, Swaps, StoresTo, Exclusive
<1>0. PICK w, m0 : w = Access("swp", l.wd, l.d, s.m, l.n) /\ m0 = [b EXCEPT !.mem = M]
  OBVIOUS
<1>2. w.op = "swp" /\ (w.sf <=> l.wd = W) /\ w.d = l.d /\ w.n = l.n /\ w.m = s.m /\ w.wd = l.wd
  BY <1>0, AccessIs
<1>3. Whole(m0) /\ m0.mem = M /\ m0.x = b.x /\ m0.sp = b.sp /\ m0.base = b.base /\ m0.flags = b.flags
  BY <1>0, SharedStart
<1>4. R = ExecShared(m0, w)
  BY <1>0, SharedRunOfOne DEF SwapRewrite, Suggested
<1>5. Performed(m0, w, R)
  <2>1. w.op \in AtomicOps /\ w.d \in Gprs /\ w.n \in Gprs /\ m0.x[w.n] = Here
    BY <1>1, <1>2, <1>3 DEF AtomicOps, FetchOps
  <2>. QED
    BY <1>3, <1>4, <2>1, AtomicLeaves
<1>7. Fetched(m0.mem, "here", w) = u.x[l.d]
  BY <1>2, <1>3 DEF Fetched, SwapReady
<1>8. Alike(R, z, {s.d})
  BY <1>2, <1>3, <1>5, <1>7 DEF SwapReady, Alike, Kept, Performed, Becomes
<1>9. StoredHere(m0, w) = Reads(m0, w, s.m) \cap Low(l.wd)
  BY <1>2 DEF StoredHere, Combined
<1>10. Reads(m0, w, s.m) = Reads(u, s, s.m)
  <2>1. m0.x[s.m] = u.x[s.m]
    BY <1>1, <1>3 DEF SwapReady, Kept
  <2>2. Size(w) = Size(s)
    BY <1>1, <1>2 DEF Size
  <2>3. s.m # R31
    BY <1>1, AluAssumption
  <2>. QED
    BY <2>1, <2>2, <2>3 DEF Reads
<1>11. R.mem = Written(M, "here", s, Reads(u, s, s.m))
  <2>. PICK v : v = Reads(u, s, s.m)
    OBVIOUS
  <2>1. Written(M, "here", w, v \cap Low(l.wd)) = Written(M, "here", s, v)
    BY <1>1, <1>2, WrittenAlike
  <2>. QED
    BY <1>2, <1>3, <1>5, <1>9, <1>10, <2>1 DEF Performed
<1>. QED
  BY <1>5, <1>8, <1>11 DEF SameEffect, Performed

\* What an atomic on the cell combines, when its operand is in a register.
LEMMA OperandOfAtomic ==
  ASSUME NEW a, NEW w, w.m \in Gprs, AccessWidth(w.wd), w.sf <=> w.wd = W, w.op # "cas"
  PROVE  StoredHere(a, w) = Combined(w, Fetched(a.mem, "here", w), a.x[w.m] \cap Low(w.wd))
<1>1. w.wd \in 0 .. Size(w) /\ w.m # R31
  BY WidthsOfAccess, AluAssumption
<1>2. Reads(a, w, w.m) \cap Low(w.wd) = a.x[w.m] \cap Low(w.wd)
  BY <1>1, ReadCut
<1>. QED
  BY <1>2 DEF StoredHere

\* A fetch loop's suggestion, in its two forms: the atomic alone, and after a
\* word that prepares its operand in the register of the loop's result.
FetchDone(b, l, o, M, R) ==
  /\ Whole(R) /\ R.sp = b.sp /\ R.base = b.base /\ R.flags = b.flags
  /\ R.x[l.d] = Fetched(M, "here", l)
  /\ \A g \in Gprs \ {l.d, o.d} : R.x[g] = b.x[g]
  /\ R.mem = Written(M, "here", l, FetchNew(l, o, Fetched(M, "here", l), b.x[Other(l, o)]))

LEMMA FetchDirectly ==
  ASSUME NEW l, NEW o, Proper(l), Proper(o), Opens(l), Combines(l, o), AccessWidth(l.wd),
         o.op \in {"add", "orr", "eor", "bic"},
         NEW b, Whole(b), b.x[l.n] = Here, NEW M, NEW m0, m0 = [b EXCEPT !.mem = M],
         NEW R, R = RunShared(m0, FetchRewrite(l, o))
  PROVE  FetchDone(b, l, o, M, R)
<1>1. l.d \in Gprs /\ l.n \in Gprs /\ Other(l, o) \in Gprs
  BY DEF Proper, Words, Opens, Combines, Other
<1>0. PICK w : w = Access(Directly[o.op], l.wd, l.d, Other(l, o), l.n)
  OBVIOUS
<1>2. w.op = Directly[o.op] /\ (w.sf <=> l.wd = W) /\ w.d = l.d /\ w.n = l.n /\ w.m = Other(l, o) /\ w.wd = l.wd
  BY <1>0, AccessIs
<1>3. Whole(m0) /\ m0.mem = M /\ m0.x = b.x /\ m0.sp = b.sp /\ m0.base = b.base /\ m0.flags = b.flags
  BY SharedStart
<1>4. R = ExecShared(m0, w)
  <2>1. FetchRewrite(l, o) = <<w>>
    BY <1>0 DEF FetchRewrite
  <2>. QED
    BY <2>1, SharedRunOfOne
<1>5. /\ o.op = "add" => w.op = "ldadd"
      /\ o.op = "orr" => w.op = "ldset"
      /\ o.op = "eor" => w.op = "ldeor"
      /\ o.op = "bic" => w.op = "ldclr"
  BY <1>2 DEF Directly
<1>6. Performed(m0, w, R)
  <2>1. w.op \in AtomicOps /\ w.d \in Gprs /\ w.n \in Gprs /\ m0.x[w.n] = Here
    BY <1>1, <1>2, <1>3, <1>5 DEF AtomicOps, FetchOps
  <2>. QED
    BY <1>3, <1>4, <2>1, AtomicLeaves
<1>7. Fetched(m0.mem, "here", w) = Fetched(M, "here", l)
  BY <1>2, <1>3 DEF Fetched
<1>8. StoredHere(m0, w) = FetchNew(l, o, Fetched(M, "here", l), b.x[Other(l, o)])
  <2>. PICK v, x : v = Fetched(M, "here", l) /\ x = b.x[Other(l, o)]
    OBVIOUS
  <2>1. StoredHere(m0, w) = Combined(w, v, x \cap Low(l.wd))
    <3>1. w.op # "cas" /\ AccessWidth(w.wd) /\ (w.sf <=> w.wd = W) /\ w.m \in Gprs
      BY <1>1, <1>2, <1>5
    <3>. QED
      BY <1>2, <1>3, <1>7, <3>1, OperandOfAtomic
  <2>2. Combined(w, v, x \cap Low(l.wd)) = FetchNew(l, o, v, x)
    BY <1>2, <1>5 DEF Combined, FetchNew
  <2>. QED
    BY <2>1, <2>2
<1>9. Written(M, "here", w, StoredHere(m0, w)) = Written(M, "here", l, StoredHere(m0, w))
  BY <1>2, WrittenAlike
<1>. QED
  BY <1>1, <1>2, <1>3, <1>6, <1>7, <1>8, <1>9 DEF Performed, FetchDone

LEMMA FetchPrepared ==
  ASSUME NEW l, NEW o, Proper(l), Proper(o), Opens(l), Combines(l, o), AccessWidth(l.wd),
         o.op \in {"and", "sub", "addi"},
         NEW b, Whole(b), b.x[l.n] = Here, NEW M, NEW m0, m0 = [b EXCEPT !.mem = M],
         NEW R, R = RunShared(m0, FetchRewrite(l, o))
  PROVE  FetchDone(b, l, o, M, R)
<1>1. l.d \in Gprs /\ l.n \in Gprs /\ o.d \in Gprs /\ o.d # l.n
  BY DEF Proper, Words, Opens, Combines
<1>0. PICK p, w, s, x :
        /\ p = CASE o.op = "and"  -> Mvn(l.wd = W, o.d, Other(l, o))
                 [] o.op = "sub"  -> Ternary("sub", l.wd = W, o.d, R31, Other(l, o))
                 [] o.op = "addi" -> MovImm(l.wd = W, o.d, Bits(o.k, Size([sf |-> l.wd = W])))
        /\ w = Access(IF o.op = "and" THEN "ldclr" ELSE "ldadd", l.wd, l.d, o.d, l.n)
        /\ s = AccessSize(l) /\ x = b.x[Other(l, o)]
  OBVIOUS
<1>2. /\ w.op = IF o.op = "and" THEN "ldclr" ELSE "ldadd"
      /\ (w.sf <=> l.wd = W) /\ w.d = l.d /\ w.n = l.n /\ w.m = o.d /\ w.wd = l.wd
  BY <1>0, AccessIs
<1>3. Whole(m0) /\ m0.mem = M /\ m0.x = b.x /\ m0.sp = b.sp /\ m0.base = b.base /\ m0.flags = b.flags
  BY SharedStart
<1>4. R = ExecShared(ExecShared(m0, p), w)
  <2>1. FetchRewrite(l, o) = <<p, w>>
    BY <1>0 DEF FetchRewrite
  <2>. QED
    BY <2>1, SharedRunOfTwo
<1>5. (o.op # "addi" => Other(l, o) # R31) /\ Size([sf |-> l.wd = W]) = AccessSize(l)
  <2>1. o.op # "addi" => Other(l, o) # R31
    BY DEF Combines
  <2>2. [sf |-> l.wd = W].sf <=> l.wd = W
    OBVIOUS
  <2>. QED
    BY <2>1, <2>2 DEF Size, AccessSize
<1>6. /\ p.d = o.d /\ (p.sf <=> l.wd = W) /\ p.op \in {"orn", "sub", "mov"}
      /\ o.op = "and"  => p.op = "orn" /\ p.n = R31 /\ p.m = Other(l, o) /\ PlainOperand(p)
      /\ o.op = "sub"  => p.op = "sub" /\ p.n = R31 /\ p.m = Other(l, o) /\ PlainOperand(p)
      /\ o.op = "addi" => p.op = "mov" /\ p.mask = Bits(o.k, s)
  <2>1. CASE o.op = "and"
    <3>1. p = Ternary("orn", l.wd = W, o.d, R31, Other(l, o))
      BY <1>0, <2>1 DEF Mvn
    <3>2. p.op = "orn" /\ p.sf = (l.wd = W) /\ p.d = o.d /\ p.n = R31 /\ p.m = Other(l, o) /\ p.sh = "lsl" /\ p.k = 0
      BY <3>1, TernaryIs
    <3>. QED
      BY <2>1, <3>2 DEF PlainOperand
  <2>2. CASE o.op = "sub"
    <3>1. p = Ternary("sub", l.wd = W, o.d, R31, Other(l, o))
      BY <1>0, <2>2
    <3>2. p.op = "sub" /\ p.sf = (l.wd = W) /\ p.d = o.d /\ p.n = R31 /\ p.m = Other(l, o) /\ p.sh = "lsl" /\ p.k = 0
      BY <3>1, TernaryIs
    <3>. QED
      BY <2>2, <3>2 DEF PlainOperand
  <2>3. CASE o.op = "addi"
    <3>1. p = Masked("mov", l.wd = W, o.d, R31, Bits(o.k, s))
      BY <1>0, <1>5, <2>3 DEF MovImm
    <3>2. p.op = "mov" /\ p.sf = (l.wd = W) /\ p.d = o.d /\ p.mask = Bits(o.k, s)
      BY <3>1, MaskedIs
    <3>. QED
      BY <2>3, <3>2
  <2>. QED
    BY <2>1, <2>2, <2>3
<1>7. /\ p.op \in ComputeOps /\ p.op \in Straight /\ p.op \notin FlagOps \cup {"fcmp"} /\ p.op \notin AtomicOps
      /\ p.op \notin SpSource
  BY <1>6 DEF ComputeOps, Straight, FlagOps, AtomicOps, FetchOps, SpSource, ArithOps, LogicOps, ImmArithOps, ExtArithOps,
              CondCmpOps, CondCmpImmOps
<1>8. Size(p) = s /\ s \in 0 .. W /\ s \in Nat \ {0} /\ l.wd \in 0 .. s
  BY <1>0, <1>6, WidthsOfAccess
<1>9. Value(m0, p) \cap Low(l.wd) =
        CASE o.op = "and"  -> (Low(s) \ (x \cap Low(s))) \cap Low(l.wd)
          [] o.op = "sub"  -> Subtracted({}, x \cap Low(s), s) \cap Low(l.wd)
          [] o.op = "addi" -> Bits(o.k, s) \cap Low(l.wd)
  <2>1. CASE o.op = "addi"
    BY <1>6, <2>1, MaskValue
  <2>2. CASE o.op \in {"and", "sub"}
    <3>. PICK c : c = x \cap Low(s)
      OBVIOUS
    <3>1. Reads(m0, p, p.n) = {} /\ Reads(m0, p, p.m) = c
      <4>1. p.n = R31 /\ p.m = Other(l, o) /\ p.m # R31
        BY <1>5, <1>6, <2>2
      <4>. QED
        BY <1>0, <1>3, <1>7, <1>8, <4>1 DEF Reads
    <3>2. ShiftBy(p.sh, c, p.k, s) = c
      <4>1. p.sh = "lsl" /\ p.k = 0 /\ "lsl" \in ShiftOps
        BY <1>6, <2>2 DEF PlainOperand, ShiftOps
      <4>. QED
        BY <1>8, <4>1, ShiftByNothing
    <3>3. Value(m0, p) = Operated(p.op, {}, c, s).v
      <4>1. p.op \in ArithOps \cup LogicOps
        BY <1>6, <2>2 DEF ArithOps, LogicOps
      <4>. QED
        BY <1>8, <3>1, <3>2, <4>1, OutcomeOfOperation DEF Value
    <3>4. CASE o.op = "and"
      <4>1. p.op = "orn"
        BY <1>6, <3>4
      <4>2. Operated("orn", {}, c, s).v = Low(s) \ c
        BY DEF Operated, ArithOps, InvertedOps, Logic, Plainly
      <4>. QED
        BY <3>3, <3>4, <4>1, <4>2
    <3>5. CASE o.op = "sub"
      <4>1. p.op = "sub"
        BY <1>6, <3>5
      <4>2. Operated("sub", {}, c, s).v = Subtracted({}, c, s)
        BY DEF Operated, ArithOps, Totalled, SubOps, Lessened, Subtracted
      <4>. QED
        BY <3>3, <3>5, <4>1, <4>2
    <3>. QED
      BY <2>2, <3>4, <3>5
  <2>. QED
    BY <2>1, <2>2
<1>10. PICK m1 : m1 = Exec(m0, p)
  OBVIOUS
<1>11. /\ Whole(m1) /\ m1.mem = M /\ m1.sp = b.sp /\ m1.base = b.base /\ m1.flags = b.flags
       /\ \A g \in Gprs : m1.x[g] = IF g = o.d THEN Value(m0, p) ELSE b.x[g]
  <2>1. p.op \in ComputeOps /\ p.op \notin FlagOps /\ p.d \in Gprs
    BY <1>1, <1>6, <1>7
  <2>2. Becomes(m0, p.d, Value(m0, p), m1)
    BY <1>3, <1>10, <2>1, ComputeBecomes
  <2>. QED
    BY <1>3, <1>6, <2>2 DEF Becomes
<1>12. R = ExecShared(m1, w)
  BY <1>4, <1>7, <1>10 DEF ExecShared
<1>13. Performed(m1, w, R)
  <2>1. w.op \in AtomicOps /\ w.d \in Gprs /\ w.n \in Gprs /\ m1.x[w.n] = Here
    BY <1>1, <1>2, <1>11 DEF AtomicOps, FetchOps
  <2>. QED
    BY <1>11, <1>12, <2>1, AtomicLeaves
<1>14. Fetched(m1.mem, "here", w) = Fetched(M, "here", l)
  BY <1>2, <1>11 DEF Fetched
<1>15. StoredHere(m1, w) = FetchNew(l, o, Fetched(M, "here", l), x)
  <2>. PICK v : v = Fetched(M, "here", l)
    OBVIOUS
  <2>1. StoredHere(m1, w) = Combined(w, v, Value(m0, p) \cap Low(l.wd))
    <3>1. w.op # "cas" /\ AccessWidth(w.wd) /\ (w.sf <=> w.wd = W) /\ w.m \in Gprs
      BY <1>1, <1>2
    <3>2. m1.x[w.m] = Value(m0, p)
      BY <1>1, <1>2, <1>11
    <3>. QED
      BY <1>2, <1>14, <3>1, <3>2, OperandOfAtomic
  <2>2. Combined(w, v, Value(m0, p) \cap Low(l.wd)) = FetchNew(l, o, v, x)
    BY <1>0, <1>2, <1>9 DEF Combined, FetchNew
  <2>. QED
    BY <2>1, <2>2
<1>16. Written(M, "here", w, StoredHere(m1, w)) = Written(M, "here", l, StoredHere(m1, w))
  BY <1>2, WrittenAlike
<1>. QED
  BY <1>0, <1>1, <1>2, <1>11, <1>13, <1>14, <1>15, <1>16 DEF Performed, FetchDone

\* Fetch and operate.
FetchReady(l, o, s, b, u, M) ==
  /\ Kept(b, u, {l.d, o.d, s.d}) /\ u.flags = b.flags
  /\ o.d # l.d => u.x[l.d] = Fetched(M, "here", l)
  /\ u.x[o.d] \cap Low(l.wd) = FetchNew(l, o, Fetched(M, "here", l), b.x[Other(l, o)])

LEMMA FetchLeaves ==
  ASSUME NEW l, NEW o, NEW s, Proper(l), Proper(o), Proper(s), Opens(l), Combines(l, o), StoresNew(l, o, s),
         NEW b, Whole(b), b.x[l.n] = Here, NEW M,
         NEW u, FetchReady(l, o, s, b, u, M), NEW z, Becomes(u, s.d, {}, z),
         NEW R, Suggested(b, M, FetchRewrite(l, o), R)
  PROVE  SameEffect(R, z, {s.d, o.d}, M, s, u)
<1>1. /\ l.d \in Gprs /\ l.n \in Gprs /\ o.d \in Gprs /\ s.d \in Gprs
      /\ s.wd = l.wd /\ s.m = o.d /\ s.op = "stxr" /\ AccessWidth(l.wd)
      /\ s.sf <=> s.wd = W
  BY DEF Proper, Words, Opens, Combines, StoresNew, StoresTo, Exclusive
<1>2. FetchDone(b, l, o, M, R)
  <2>. PICK m0 : m0 = [b EXCEPT !.mem = M]
    OBVIOUS
  <2>1. o.op \in {"add", "orr", "eor", "bic"} \/ o.op \in {"and", "sub", "addi"}
    BY CombinesOps
  <2>2. R = RunShared(m0, FetchRewrite(l, o))
    BY DEF Suggested
  <2>. QED
    BY <1>1, <2>1, <2>2, FetchDirectly, FetchPrepared
<1>4. Alike(R, z, {s.d, o.d})
  BY <1>1, <1>2 DEF FetchReady, FetchDone, Becomes, Alike, Kept
<1>5. R.mem = Written(M, "here", s, Reads(u, s, s.m))
  <2>1. Reads(u, s, s.m) \cap Low(l.wd) = u.x[o.d] \cap Low(l.wd)
    <3>1. s.m # R31 /\ l.wd \in 0 .. Size(s)
      BY <1>1, WidthsOfAccess, AluAssumption
    <3>. QED
      BY <1>1, <3>1, ReadCut
  <2>0. PICK v, new : v = Reads(u, s, s.m) /\ new = FetchNew(l, o, Fetched(M, "here", l), b.x[Other(l, o)])
    OBVIOUS
  <2>2. v \cap Low(l.wd) = new \cap Low(l.wd)
    BY <2>0, <2>1 DEF FetchReady
  <2>3. Written(M, "here", s, v) = Written(M, "here", l, new)
    BY <1>1, <2>2, WrittenAlike
  <2>4. R.mem = Written(M, "here", l, new)
    BY <1>2, <2>0 DEF FetchDone
  <2>. QED
    BY <2>0, <2>3, <2>4
<1>6. Whole(R)
  BY <1>2 DEF FetchDone
<1>. QED
  BY <1>4, <1>5, <1>6 DEF SameEffect

\* Compare and swap: what the suggestion leaves, whether the values are equal
\* or not.
Comparand(b, l, c) == (IF Other(l, c) = R31 THEN {} ELSE b.x[Other(l, c)]) \cap Low(l.wd)
CompareFlags(l, c, v, x) ==
  (IF c.n = l.d THEN Lessened(v, x, l.wd) ELSE Lessened(x, v, l.wd)).flags

LEMMA CompareOf ==
  ASSUME NEW l, NEW c, Proper(l), Proper(c), Opens(l), Checks(l, c), NEW a, Whole(a),
         a.x[l.d] \in SUBSET Low(l.wd), NEW e, e = Exec(a, c)
  PROVE  /\ Kept(a, e, {}) /\ e.mem = a.mem
         /\ e.flags = CompareFlags(l, c, a.x[l.d], Comparand(a, l, c))
         /\ e.flags.z <=> a.x[l.d] = Comparand(a, l, c)
<1>1. c.op = "subs" /\ c.d = R31 /\ PlainOperand(c) /\ Size(c) = l.wd /\ c.op \notin SpSource
  <2>1. l.wd \in {H, W} /\ (c.sf <=> l.wd = W)
    BY DEF Checks
  <2>2. Size(c) = l.wd
    BY <2>1, AluAssumption DEF Size
  <2>. QED
    BY <2>2 DEF Checks, SpSource, ImmArithOps, ExtArithOps
<1>2. /\ Whole(e) /\ e.mem = a.mem /\ e.sp = a.sp /\ e.base = a.base
      /\ \A g \in Gprs : e.x[g] = a.x[g]
      /\ e.flags = Lessened(Reads(a, c, c.n), Reads(a, c, c.m), Size(c)).flags
      /\ e.flags.z <=> Reads(a, c, c.n) = Reads(a, c, c.m)
  BY <1>1, CompareLeaves
<1>3. l.d # R31
  BY DEF Opens
<1>4. Reads(a, c, l.d) = a.x[l.d]
  BY <1>1, <1>3 DEF Reads
<1>5. Reads(a, c, Other(l, c)) = Comparand(a, l, c)
  BY <1>1 DEF Reads, Comparand
<1>6. \/ c.n = l.d /\ Other(l, c) = c.m
      \/ c.n # l.d /\ c.m = l.d /\ Other(l, c) = c.n
  BY DEF Checks, Other
<1>7. /\ e.flags = CompareFlags(l, c, a.x[l.d], Comparand(a, l, c))
      /\ e.flags.z <=> a.x[l.d] = Comparand(a, l, c)
  <2>1. CASE c.n = l.d /\ Other(l, c) = c.m
    BY <1>1, <1>2, <1>4, <1>5, <2>1 DEF CompareFlags
  <2>2. CASE c.n # l.d /\ c.m = l.d /\ Other(l, c) = c.n
    BY <1>1, <1>2, <1>4, <1>5, <2>2 DEF CompareFlags
  <2>. QED
    BY <1>6, <2>1, <2>2
<1>. QED
  BY <1>2, <1>7 DEF Kept

CasDone(b, l, c, s, M, R) ==
  LET old == Fetched(M, "here", l)
      new == (IF s.m = R31 THEN {} ELSE b.x[s.m]) \cap Low(l.wd)
  IN  /\ Whole(R) /\ R.sp = b.sp /\ R.base = b.base
      /\ R.flags = CompareFlags(l, c, old, Comparand(b, l, c))
      /\ R.x[l.d] = old /\ \A g \in Gprs \ {l.d} : R.x[g] = b.x[g]
      /\ R.mem = Written(M, "here", l, IF Comparand(b, l, c) = old THEN new ELSE old)

LEMMA CasAtOnce ==
  ASSUME NEW l, NEW c, NEW s, Proper(l), Proper(c), Proper(s), Opens(l), Checks(l, c), StoresIf(l, c, s),
         NEW b, Whole(b), b.x[l.n] = Here, NEW M, NEW m0, m0 = [b EXCEPT !.mem = M],
         NEW R, R = RunShared(m0, CasRewrite(l, c, s))
  PROVE  CasDone(b, l, c, s, M, R)
<1>0. PICK p, w : /\ p = Mov(l.wd = W, l.d, Other(l, c))
                  /\ w = Access("cas", l.wd, l.d, s.m, l.n)
  OBVIOUS
<1>1. /\ l.d \in Gprs /\ l.n \in Gprs /\ l.d # l.n /\ l.d # R31
      /\ Other(l, c) \in Gprs \cup {R31} /\ Other(l, c) # l.d /\ s.m \in Gprs \cup {R31} /\ s.m # l.d
      /\ AccessWidth(l.wd) /\ l.wd \in {H, W} /\ AccessSize(l) = l.wd
  BY DEF Proper, Words, Opens, Checks, StoresIf, StoresTo, Exclusive, Other, AccessSize
<1>2. w.op = "cas" /\ (w.sf <=> l.wd = W) /\ w.d = l.d /\ w.n = l.n /\ w.m = s.m /\ w.wd = l.wd
  BY <1>0, AccessIs
<1>3. Whole(m0) /\ m0.mem = M /\ m0.x = b.x /\ m0.sp = b.sp /\ m0.base = b.base /\ m0.flags = b.flags
  BY SharedStart
<1>4. p.op = "orr" /\ p.sf = (l.wd = W) /\ p.d = l.d /\ p.n = R31 /\ p.m = Other(l, c) /\ p.sh = "lsl" /\ p.k = 0
  <2>1. p = Ternary("orr", l.wd = W, l.d, R31, Other(l, c))
    BY <1>0 DEF Mov
  <2>. QED
    BY <2>1, TernaryIs
<1>5. /\ p.op \in ComputeOps /\ p.op \notin FlagOps /\ p.op \notin AtomicOps /\ p.op \notin SpSource
      /\ p.op \in ArithOps \cup LogicOps /\ c.op \notin AtomicOps
  BY <1>4 DEF ComputeOps, FlagOps, AtomicOps, FetchOps, SpSource, LogicOps, ImmArithOps, ExtArithOps, CondCmpOps,
              CondCmpImmOps, Checks
<1>6. Size(p) = l.wd /\ Size(w) = l.wd /\ l.wd \in Nat \ {0} /\ l.wd \in 0 .. W
  <2>1. (p.sf <=> l.wd = W) /\ (w.sf <=> l.wd = W)
    BY <1>2, <1>4
  <2>. QED
    BY <1>1, <2>1, WidthsOfAccess
<1>7. Value(m0, p) = Comparand(b, l, c)
  <2>. PICK x : x = Comparand(b, l, c)
    OBVIOUS
  <2>1. Reads(m0, p, p.n) = {} /\ Reads(m0, p, p.m) = x
    BY <1>3, <1>4, <1>5, <1>6 DEF Reads, Comparand
  <2>2. ShiftBy(p.sh, x, p.k, l.wd) = x
    <3>1. x \in SUBSET Low(l.wd)
      BY DEF Comparand
    <3>2. p.sh = "lsl" /\ p.k = 0 /\ "lsl" \in ShiftOps
      BY <1>4 DEF ShiftOps
    <3>. QED
      BY <1>6, <3>1, <3>2, ShiftByNothing
  <2>3. Value(m0, p) = Operated(p.op, {}, x, l.wd).v
    BY <1>5, <1>6, <2>1, <2>2, OutcomeOfOperation DEF Value
  <2>4. Operated("orr", {}, x, l.wd).v = x
    BY DEF Operated, ArithOps, InvertedOps, Logic, Plainly
  <2>. QED
    BY <1>4, <2>3, <2>4
<1>8. PICK m1, m2 : m1 = Exec(m0, p) /\ m2 = ExecShared(m1, w)
  OBVIOUS
<1>9. R = Exec(m2, c)
  <2>1. CasRewrite(l, c, s) = <<p, w, c>>
    BY <1>0 DEF CasRewrite
  <2>2. R = ExecShared(ExecShared(ExecShared(m0, p), w), c)
    BY <2>1, SharedRunOfThree
  <2>. QED
    BY <1>5, <1>8, <2>2 DEF ExecShared
<1>10. Becomes(m0, l.d, Comparand(b, l, c), m1)
  <2>1. p.d \in Gprs /\ p.op \in ComputeOps /\ p.op \notin FlagOps
    BY <1>1, <1>4, <1>5
  <2>2. Becomes(m0, p.d, Value(m0, p), m1)
    BY <1>3, <1>8, <2>1, ComputeBecomes
  <2>. QED
    BY <1>4, <1>7, <2>2
<1>11. Performed(m1, w, m2)
  <2>1. w.op \in AtomicOps /\ w.d \in Gprs /\ w.n \in Gprs
    BY <1>1, <1>2 DEF AtomicOps
  <2>2. m1.x[w.n] = Here /\ Whole(m1)
    BY <1>1, <1>2, <1>3, <1>10 DEF Becomes
  <2>. QED
    BY <1>8, <2>1, <2>2, AtomicLeaves
<1>12. Fetched(m1.mem, "here", w) = Fetched(M, "here", l)
  BY <1>2, <1>3, <1>10 DEF Fetched, Becomes
<1>13. /\ Whole(m2) /\ m2.sp = b.sp /\ m2.base = b.base
       /\ m2.x[l.d] = Fetched(M, "here", l) /\ \A g \in Gprs \ {l.d} : m2.x[g] = b.x[g]
  BY <1>1, <1>2, <1>3, <1>10, <1>11, <1>12 DEF Performed, Becomes
<1>14. Comparand(m2, l, c) = Comparand(b, l, c)
  BY <1>1, <1>13 DEF Comparand
<1>15. /\ Kept(m2, R, {}) /\ R.mem = m2.mem
       /\ R.flags = CompareFlags(l, c, Fetched(M, "here", l), Comparand(b, l, c))
  <2>1. m2.x[l.d] \in SUBSET Low(l.wd)
    BY <1>13 DEF Fetched
  <2>2. /\ Kept(m2, R, {}) /\ R.mem = m2.mem
        /\ R.flags = CompareFlags(l, c, m2.x[l.d], Comparand(m2, l, c))
    BY <1>9, <1>13, <2>1, CompareOf
  <2>. QED
    BY <1>13, <1>14, <2>2
<1>. DEFINE old == Fetched(M, "here", l)
            new == (IF s.m = R31 THEN {} ELSE b.x[s.m]) \cap Low(l.wd)
<1>16. StoredHere(m1, w) = IF Comparand(b, l, c) = old THEN new ELSE old
  <2>1. m1.x[l.d] \cap Low(l.wd) = Comparand(b, l, c)
    BY <1>1, <1>10 DEF Becomes, Comparand
  <2>2. Reads(m1, w, s.m) \cap Low(l.wd) = new
    <3>1. s.m # R31 => m1.x[s.m] = b.x[s.m]
      BY <1>1, <1>3, <1>10 DEF Becomes
    <3>2. w.op \notin SpSource
      BY <1>2 DEF SpSource, ImmArithOps, ExtArithOps
    <3>. QED
      BY <1>6, <3>1, <3>2 DEF Reads
  <2>. QED
    BY <1>2, <1>12, <2>1, <2>2 DEF StoredHere
<1>17. R.mem = Written(M, "here", l, IF Comparand(b, l, c) = old THEN new ELSE old)
  <2>1. R.mem = Written(M, "here", w, StoredHere(m1, w))
    BY <1>3, <1>10, <1>11, <1>15 DEF Becomes, Performed
  <2>. HIDE DEF old, new
  <2>2. Written(M, "here", w, StoredHere(m1, w)) = Written(M, "here", l, StoredHere(m1, w))
    BY <1>2, WrittenAlike
  <2>. QED
    BY <1>16, <2>1, <2>2
<1>18. /\ Whole(R) /\ R.sp = b.sp /\ R.base = b.base
       /\ R.x[l.d] = old /\ \A g \in Gprs \ {l.d} : R.x[g] = b.x[g]
  BY <1>1, <1>13, <1>15 DEF Kept
<1>. QED
  BY <1>15, <1>17, <1>18 DEF CasDone

CasReady(l, c, s, b, u, M) ==
  /\ Kept(b, u, {l.d, s.d}) /\ u.x[l.d] = Fetched(M, "here", l)
  /\ u.flags = CompareFlags(l, c, Fetched(M, "here", l), Comparand(b, l, c))

LEMMA CasLeaves ==
  ASSUME NEW l, NEW c, NEW s, Proper(l), Proper(c), Proper(s), Opens(l), Checks(l, c), StoresIf(l, c, s),
         NEW b, Whole(b), b.x[l.n] = Here, NEW M,
         NEW u, CasReady(l, c, s, b, u, M), Fetched(M, "here", l) = Comparand(b, l, c),
         NEW z, Becomes(u, s.d, {}, z), NEW R, Suggested(b, M, CasRewrite(l, c, s), R)
  PROVE  SameEffect(R, z, {s.d}, M, s, u)
<1>1. /\ l.d \in Gprs /\ s.d \in Gprs /\ s.m \in Gprs \cup {R31} /\ s.m # l.d /\ s.m # s.d
      /\ s.wd = l.wd /\ s.op = "stxr" /\ AccessWidth(l.wd)
      /\ s.sf <=> s.wd = W
  BY DEF Proper, Words, Opens, StoresIf, StoresTo, Exclusive
<1>2. CasDone(b, l, c, s, M, R)
  <2>. PICK m0 : m0 = [b EXCEPT !.mem = M]
    OBVIOUS
  <2>1. R = RunShared(m0, CasRewrite(l, c, s))
    BY DEF Suggested
  <2>. QED
    BY <2>1, CasAtOnce
<1>4. Alike(R, z, {s.d})
  BY <1>1, <1>2 DEF CasReady, CasDone, Becomes, Alike, Kept
<1>5. R.mem = Written(M, "here", s, Reads(u, s, s.m))
  <2>0. PICK v, new : v = Reads(u, s, s.m) /\ new = (IF s.m = R31 THEN {} ELSE b.x[s.m]) \cap Low(l.wd)
    OBVIOUS
  <2>1. v \cap Low(l.wd) = new \cap Low(l.wd)
    <3>1. l.wd \in 0 .. Size(s) /\ s.op \notin SpSource
      BY <1>1, WidthsOfAccess DEF SpSource, ImmArithOps, ExtArithOps
    <3>2. CASE s.m = R31
      BY <2>0, <3>1, <3>2, ReadCut
    <3>3. CASE s.m # R31
      <4>1. u.x[s.m] = b.x[s.m]
        BY <1>1, <3>3 DEF CasReady, Kept
      <4>2. v \cap Low(l.wd) = u.x[s.m] \cap Low(l.wd)
        BY <2>0, <3>1, <3>3, ReadCut
      <4>. QED
        BY <2>0, <3>3, <4>1, <4>2
    <3>. QED
      BY <3>2, <3>3
  <2>2. Written(M, "here", s, v) = Written(M, "here", l, new)
    BY <1>1, <2>1, WrittenAlike
  <2>3. R.mem = Written(M, "here", l, new)
    BY <1>2, <2>0 DEF CasDone
  <2>. QED
    BY <2>0, <2>2, <2>3
<1>6. Whole(R)
  BY <1>2 DEF CasDone
<1>. QED
  BY <1>4, <1>5, <1>6 DEF SameEffect

LEMMA CasGivesUp ==
  ASSUME NEW l, NEW c, NEW s, Proper(l), Proper(c), Proper(s), Opens(l), Checks(l, c), StoresIf(l, c, s),
         NEW b, Whole(b), b.x[l.n] = Here, NEW M, M = [cell \in Cells |-> M[cell]],
         NEW u, CasReady(l, c, s, b, u, M), Fetched(M, "here", l) # Comparand(b, l, c),
         NEW R, Suggested(b, M, CasRewrite(l, c, s), R)
  PROVE  Whole(R) /\ Alike(R, u, {s.d}) /\ R.mem = M
<1>1. l.d \in Gprs
  BY DEF Proper, Words, Opens
<1>2. CasDone(b, l, c, s, M, R)
  <2>. PICK m0 : m0 = [b EXCEPT !.mem = M]
    OBVIOUS
  <2>1. R = RunShared(m0, CasRewrite(l, c, s))
    BY DEF Suggested
  <2>. QED
    BY <2>1, CasAtOnce
<1>3. Alike(R, u, {s.d})
  BY <1>1, <1>2 DEF CasReady, CasDone, Alike, Kept
<1>4. R.mem = Written(M, "here", l, Fetched(M, "here", l))
  BY <1>2 DEF CasDone
<1>5. Written(M, "here", l, Fetched(M, "here", l)) = M
  <2>1. (M["here"] \ Low(l.wd)) \cup (Fetched(M, "here", l) \cap Low(l.wd)) = M["here"]
    BY DEF Fetched
  <2>. QED
    BY <2>1 DEF Written
<1>. QED
  BY <1>2, <1>3, <1>4, <1>5 DEF CasDone

-----------------------------------------------------------------------------
(* A loop that matched, and the machines with which a thread leaves it.    *)

StoreOf(c) == c[Len(c) - 1]
SwapLoop(c)  == Len(c) = 3 /\ Swaps(c[1], c[2])
FetchLoop(c) == Len(c) = 4 /\ Combines(c[1], c[2]) /\ StoresNew(c[1], c[2], c[3])
CasLoop(c)   == Len(c) = 5 /\ Checks(c[1], c[2]) /\ GivesUp(c[3]) /\ StoresIf(c[1], c[2], c[4])
Loop(c) ==
  /\ Len(c) \in 3 .. 5 /\ \A i \in 1 .. Len(c) : Proper(c[i])
  /\ Opens(c[1]) /\ (SwapLoop(c) \/ FetchLoop(c) \/ CasLoop(c))
  /\ c[Len(c)].op = "cbnz" /\ c[Len(c)].n = StoreOf(c).d /\ c[Len(c)].k = 1 - Len(c)

RewriteOf(c) ==
  CASE Len(c) = 3 -> SwapRewrite(c[1], c[2])
    [] Len(c) = 4 -> FetchRewrite(c[1], c[2])
    [] Len(c) = 5 -> CasRewrite(c[1], c[2], c[4])
ScratchOf(c) == {StoreOf(c).d} \cup (IF Len(c) = 4 THEN {c[2].d} ELSE {})

LEMMA LoopWords ==
  ASSUME NEW c, Loop(c)
  PROVE  /\ c[1].op = "ldxr" /\ StoreOf(c).op = "stxr" /\ StoreOf(c).n = c[1].n /\ StoreOf(c).wd = c[1].wd
         /\ AccessWidth(c[1].wd) /\ (StoreOf(c).sf <=> StoreOf(c).wd = W)
         /\ c[1].d \in Gprs /\ c[1].n \in Gprs /\ c[1].d # c[1].n
         /\ ScratchOf(c) \subseteq Gprs /\ c[1].n \notin ScratchOf(c) /\ R31 \notin ScratchOf(c)
         /\ StoreOf(c).d \in ScratchOf(c)
         /\ Len(c) = 4 => c[2].op \notin Exclusive \cup Conditionals /\ c[2].d \in Gprs
         /\ Len(c) = 5 => c[2].op = "subs" /\ c[3].op = "bcond" /\ c[3].cond = "ne" /\ c[3].k = 3
         /\ (Len(c) # 5) => c[3].op # "bcond"
<1>1. 1 \in 1 .. Len(c) /\ 2 \in 1 .. Len(c) /\ 3 \in 1 .. Len(c) /\ Len(c) - 1 \in 1 .. Len(c)
  <2>1. Len(c) \in 3 .. 5
    BY DEF Loop
  <2>. QED
    BY SMTT(30), <2>1
<1>2. Proper(c[1]) /\ Proper(c[2]) /\ Proper(c[3]) /\ Proper(StoreOf(c)) /\ Opens(c[1])
  BY <1>1 DEF Loop, StoreOf
<1>3. c[1].op = "ldxr" /\ AccessWidth(c[1].wd) /\ c[1].d \in Gprs /\ c[1].n \in Gprs /\ c[1].d # c[1].n
  BY <1>2 DEF Proper, Words, Opens, Exclusive
<1>4. /\ StoreOf(c).op = "stxr" /\ StoreOf(c).n = c[1].n /\ StoreOf(c).wd = c[1].wd
      /\ StoreOf(c).d \notin {R31, c[1].n}
  BY DEF Loop, StoreOf, SwapLoop, FetchLoop, CasLoop, Swaps, StoresNew, StoresIf, StoresTo
<1>5. StoreOf(c).d \in Gprs /\ (StoreOf(c).sf <=> StoreOf(c).wd = W)
  BY <1>2, <1>4 DEF Proper, Words, Exclusive
<1>6. Len(c) = 4 => c[2].op \notin Exclusive \cup Conditionals /\ c[2].d \in Gprs /\ c[2].d # c[1].n
  <2>1. SUFFICES ASSUME Len(c) = 4 PROVE c[2].op \notin Exclusive \cup Conditionals /\ c[2].d \in Gprs /\ c[2].d # c[1].n
    OBVIOUS
  <2>2. Combines(c[1], c[2])
    BY <2>1 DEF Loop, SwapLoop, FetchLoop, CasLoop
  <2>3. c[2].op \notin Exclusive \cup Conditionals
    BY <2>2, CombinesOps DEF Exclusive, Conditionals, CompareBranches, CbOps
  <2>. QED
    BY <1>2, <2>2, <2>3 DEF Combines, Proper, Words
<1>7. Len(c) = 5 => c[2].op = "subs" /\ c[3].op = "bcond" /\ c[3].cond = "ne" /\ c[3].k = 3
  BY DEF Loop, SwapLoop, FetchLoop, CasLoop, Checks, GivesUp
<1>8. (Len(c) # 5) => c[3].op # "bcond"
  BY DEF Loop, SwapLoop, FetchLoop, CasLoop, StoresNew, StoresTo
<1>9. /\ ScratchOf(c) \subseteq Gprs /\ c[1].n \notin ScratchOf(c) /\ R31 \notin ScratchOf(c)
      /\ StoreOf(c).d \in ScratchOf(c)
  <2>1. CASE Len(c) = 4
    BY <1>3, <1>4, <1>5, <1>6, <2>1, AluAssumption DEF ScratchOf
  <2>2. CASE Len(c) # 4
    BY <1>3, <1>4, <1>5, <2>2 DEF ScratchOf
  <2>. QED
    BY <2>1, <2>2
<1>. QED
  BY <1>3, <1>4, <1>5, <1>6, <1>7, <1>8, <1>9

Compared(m, c) == Exec(m, c[2])

LEMMA WhereItLeaves ==
  ASSUME NEW c, Loop(c), NEW t, t.at \in 1 .. Len(c) + 1
  PROVE  /\ t.at = Len(c) + 1 => Leaving(t, c) = {t.m}
         /\ t.at = Len(c) => Leaving(t, c) = IF Takes(t.m, c[Len(c)]) THEN {} ELSE {t.m}
         /\ t.at = 2 /\ Len(c) = 5 => Leaving(t, c) = IF Compared(t.m, c).flags.z THEN {} ELSE {Compared(t.m, c)}
         /\ t.at = 3 /\ Len(c) = 5 => Leaving(t, c) = IF t.m.flags.z THEN {} ELSE {t.m}
         /\ t.at = 1 => Leaving(t, c) = {}
         /\ t.at < Len(c) /\ (Len(c) # 5 \/ t.at > 3) => Leaving(t, c) = {}
<1>1. Len(c) \in 3 .. 5
  BY DEF Loop
<1>2. Len(c) # 5 => ~GivesUp(c[3])
  BY LoopWords DEF GivesUp
<1>3. Len(c) = 5 => GivesUp(c[3]) /\ \A m : Takes(m, c[3]) <=> ~m.flags.z
  BY LoopWords DEF GivesUp, Takes, Holds, Always
<1>0. PICK n, m, k : n = Len(c) /\ m = t.m /\ k = t.at
  OBVIOUS
<1>. DEFINE e == IF k = 2 THEN Compared(m, c) ELSE m
<1>4. Leaving(t, c) =
        CASE k > n -> {m}
          [] k = n /\ ~Takes(m, c[k]) -> {m}
          [] k \in {2, 3} /\ GivesUp(c[3]) /\ Takes(e, c[3]) -> {e}
          [] OTHER -> {}
  BY <1>0 DEF Leaving, Compared
<1>. HIDE DEF e
<1>5. k = n + 1 => Leaving(t, c) = {m}
  BY <1>0, <1>1, <1>4
<1>6. ASSUME k < n, n # 5 \/ k \notin {2, 3} PROVE Leaving(t, c) = {}
  <2>1. ~(k > n) /\ k # n
    BY <1>0, <1>1, <1>6
  <2>2. ~(k \in {2, 3} /\ GivesUp(c[3]))
    BY <1>0, <1>2, <1>6
  <2>. QED
    BY <1>4, <2>1, <2>2
<1>7. ASSUME k = n PROVE Leaving(t, c) = IF Takes(m, c[n]) THEN {} ELSE {m}
  <2>0. n \in 3 .. 5 /\ k \in 3 .. 5
    BY <1>0, <1>1, <1>7
  <2>1. ~(k > n) /\ (k \in {2, 3} => n # 5)
    BY <1>7, <2>0
  <2>2. ~(k \in {2, 3} /\ GivesUp(c[3]))
    BY <1>0, <1>2, <2>1
  <2>. QED
    BY <1>4, <1>7, <2>1, <2>2
<1>8. ASSUME n = 5, k \in {2, 3} PROVE Leaving(t, c) = IF e.flags.z THEN {} ELSE {e}
  <2>1. ~(k > n) /\ k # n
    BY <1>8
  <2>2. GivesUp(c[3]) /\ (Takes(e, c[3]) <=> ~e.flags.z)
    BY <1>0, <1>3, <1>8
  <2>. QED
    BY <1>4, <1>8, <2>1, <2>2
<1>9. (k = 2 => e = Compared(m, c)) /\ (k = 3 => e = m)
  BY DEF e
<1>10. k = 1 => Leaving(t, c) = {}
  BY <1>0, <1>1, <1>6
<1>11. n = 5 /\ k = 2 => Leaving(t, c) = IF Compared(m, c).flags.z THEN {} ELSE {Compared(m, c)}
  BY <1>8, <1>9
<1>12. n = 5 /\ k = 3 => Leaving(t, c) = IF m.flags.z THEN {} ELSE {m}
  BY <1>8, <1>9
<1>13. k < n /\ (n # 5 \/ k > 3) => Leaving(t, c) = {}
  BY <1>6
<1>. QED
  BY <1>0, <1>5, <1>7, <1>10, <1>11, <1>12, <1>13

-----------------------------------------------------------------------------
(* A thread in the loop c that began with machine b: the registers the     *)
(* loop does not write are as they were, and between the exclusive load    *)
(* and the exclusive store it holds a value v which, while its monitor is  *)
(* armed, memory still has.                                                *)

Carries(b, m, c, at, v) ==
  LET l == c[1]
  IN  /\ Len(c) = 4 /\ at = 3 =>
           /\ c[2].d # l.d => m.x[l.d] = v
           /\ m.x[c[2].d] \cap Low(l.wd) = FetchNew(l, c[2], v, b.x[Other(l, c[2])])
      /\ ~(Len(c) = 4 /\ at = 3) => m.x[l.d] = v
      /\ Len(c) = 5 /\ at \in 3 .. 4 =>
           /\ m.flags = CompareFlags(l, c[2], v, Comparand(b, l, c[2]))
           /\ m.flags.z <=> v = Comparand(b, l, c[2])
      /\ Len(c) = 5 /\ at = 4 => m.flags.z

Framed(b, m, c) ==
  /\ Whole(b) /\ b.mem = {} /\ b.x[c[1].n] = Here
  /\ Kept(b, m, {c[1].d} \cup ScratchOf(c)) /\ m.mem = {}
  /\ Len(c) # 5 => m.flags = b.flags
Holding(b, t, c, M, mon) ==
  t.at \in 2 .. Len(c) - 1 =>
    \E v \in SUBSET Low(c[1].wd) :
      /\ Carries(b, t.m, c, t.at, v)
      /\ mon # {} => v = Fetched(M, "here", c[1])
Running(b, t, c, M, mon) ==
  /\ t.at \in 1 .. Len(c) + 1 /\ Framed(b, t.m, c) /\ Holding(b, t, c, M, mon)
  /\ t.at \in 2 .. Len(c) - 1 => mon \subseteq {"here"}

LEMMA AddressKept ==
  ASSUME NEW c, Loop(c), NEW b, NEW m, Framed(b, m, c)
  PROVE  /\ m.x[c[1].n] = Here /\ Whole(m) /\ m.mem = {}
         /\ CellOf(m, c[1]) = "here" /\ CellOf(m, StoreOf(c)) = "here"
<1>1. c[1].n \in Gprs \ ({c[1].d} \cup ScratchOf(c)) /\ StoreOf(c).n = c[1].n
  BY LoopWords
<1>2. m.x[c[1].n] = Here /\ Whole(m) /\ m.mem = {}
  BY <1>1 DEF Framed, Kept
<1>. QED
  BY <1>1, <1>2 DEF CellOf

\* The words of a loop by their position.
LEMMA WordsByPlace ==
  ASSUME NEW c, Loop(c), NEW i \in 1 .. Len(c)
  PROVE  /\ c[i].op = "ldxr" <=> i = 1
         /\ c[i].op = "stxr" <=> i = Len(c) - 1
         /\ c[i].op \in Conditionals <=> i = Len(c) \/ (i = 3 /\ Len(c) = 5)
<1>1. Len(c) \in 3 .. 5
  BY DEF Loop
<1>2. c[1].op = "ldxr" /\ c[Len(c)].op = "cbnz" /\ StoreOf(c).op = "stxr"
  BY LoopWords DEF Loop
<1>3. CASE Len(c) = 3
  <2>1. i \in {1, 2, 3} /\ c[2].op = "stxr" /\ c[3].op = "cbnz"
    BY <1>1, <1>2, <1>3 DEF StoreOf
  <2>. QED
    BY <1>2, <1>3, <2>1 DEF Conditionals, CompareBranches, CbOps
<1>4. CASE Len(c) = 4
  <2>1. i \in {1, 2, 3, 4} /\ c[3].op = "stxr" /\ c[4].op = "cbnz"
    BY <1>1, <1>2, <1>4 DEF StoreOf
  <2>2. c[2].op \notin {"ldxr", "stxr"} /\ c[2].op \notin Conditionals
    BY <1>4, LoopWords DEF Exclusive
  <2>. QED
    BY <1>2, <1>4, <2>1, <2>2 DEF Conditionals, CompareBranches, CbOps
<1>5. CASE Len(c) = 5
  <2>1. i \in {1, 2, 3, 4, 5} /\ c[4].op = "stxr" /\ c[5].op = "cbnz"
    BY <1>1, <1>2, <1>5 DEF StoreOf
  <2>2. c[2].op = "subs" /\ c[3].op = "bcond"
    BY <1>5, LoopWords
  <2>. QED
    BY <1>2, <1>5, <2>1, <2>2 DEF Conditionals, CompareBranches, CbOps
<1>. QED
  BY <1>1, <1>3, <1>4, <1>5

LEMMA StatusDecides ==
  ASSUME NEW c, Loop(c), NEW m
  PROVE  /\ m.x[StoreOf(c).d] = {} => ~Takes(m, c[Len(c)])
         /\ m.x[StoreOf(c).d] = {0} => Takes(m, c[Len(c)])
<1>0. PICK w, r : w = c[Len(c)] /\ r = StoreOf(c).d
  OBVIOUS
<1>1. w.op = "cbnz" /\ w.n = r /\ r # R31
  <2>1. r \in ScratchOf(c) /\ R31 \notin ScratchOf(c)
    BY <1>0, LoopWords
  <2>. QED
    BY <1>0, <2>1 DEF Loop
<1>2. Takes(m, w) <=> Reads(m, w, w.n) # {}
  BY <1>1 DEF Takes
<1>3. Reads(m, w, w.n) = m.x[r] \cap Low(Size(w))
  BY <1>1 DEF Reads
<1>4. 0 \in Low(Size(w))
  <2>1. Size(w) \in Nat \ {0}
    BY ReadFits
  <2>. QED
    BY <2>1 DEF Low
<1>. QED
  BY <1>0, <1>2, <1>3, <1>4

\* The store that succeeds leaves what the suggestion leaves.
LEMMA StoreLeaves ==
  ASSUME NEW c, Loop(c), NEW b, NEW m, Framed(b, m, c), NEW M,
         Carries(b, m, c, Len(c) - 1, Fetched(M, "here", c[1])),
         NEW z, Becomes(m, StoreOf(c).d, {}, z), NEW R, Suggested(b, M, RewriteOf(c), R)
  PROVE  SameEffect(R, z, ScratchOf(c), M, StoreOf(c), m)
<1>1. Len(c) \in 3 .. 5 /\ \A i \in 1 .. Len(c) : Proper(c[i])
  BY DEF Loop
<1>2. /\ Opens(c[1]) /\ Whole(b) /\ b.x[c[1].n] = Here
      /\ Kept(b, m, {c[1].d} \cup ScratchOf(c)) /\ (Len(c) # 5 => m.flags = b.flags)
  BY DEF Loop, Framed
<1>0. PICK l, s : l = c[1] /\ s = StoreOf(c)
  OBVIOUS
<1>6. Becomes(m, s.d, {}, z)
  BY <1>0
<1>3. CASE Len(c) = 3
  <2>1. Swaps(l, s) /\ s = c[2] /\ Proper(l) /\ Proper(s)
    BY <1>0, <1>1, <1>3 DEF Loop, SwapLoop, FetchLoop, CasLoop, StoreOf
  <2>2. ScratchOf(c) = {s.d} /\ RewriteOf(c) = SwapRewrite(l, s)
    BY <1>0, <1>3, <2>1 DEF ScratchOf, RewriteOf
  <2>3. m.x[l.d] = Fetched(M, "here", l)
    BY <1>0, <1>3 DEF Carries
  <2>4. Kept(b, m, {l.d, s.d})
    <3>1. {l.d} \cup {s.d} = {l.d, s.d}
      OBVIOUS
    <3>. QED
      BY <1>0, <1>2, <2>2, <3>1
  <2>. QED
    <3>1. Suggested(b, M, SwapRewrite(l, s), R) /\ SwapReady(l, s, b, m, M)
      BY <1>2, <1>3, <2>2, <2>3, <2>4 DEF SwapReady
    <3>2. Whole(b) /\ b.x[l.n] = Here /\ Opens(l)
      BY <1>0, <1>2
    <3>3. SameEffect(R, z, {s.d}, M, s, m)
      BY <1>6, <2>1, <3>1, <3>2, SwapLeaves
    <3>. QED
      BY <1>0, <2>2, <3>3
<1>4. CASE Len(c) = 4
  <2>0. PICK o : o = c[2]
    OBVIOUS
  <2>1. Combines(l, o) /\ StoresNew(l, o, s) /\ Proper(l) /\ Proper(o) /\ Proper(s)
    BY <1>0, <1>1, <1>4, <2>0 DEF Loop, SwapLoop, FetchLoop, CasLoop, StoreOf
  <2>2. ScratchOf(c) = {s.d, o.d} /\ RewriteOf(c) = FetchRewrite(l, o)
    BY <1>0, <1>4, <2>0 DEF ScratchOf, RewriteOf
  <2>3. /\ o.d # l.d => m.x[l.d] = Fetched(M, "here", l)
        /\ m.x[o.d] \cap Low(l.wd) = FetchNew(l, o, Fetched(M, "here", l), b.x[Other(l, o)])
    BY <1>0, <1>4, <2>0 DEF Carries
  <2>4. Kept(b, m, {l.d, o.d, s.d})
    <3>1. {l.d} \cup {s.d, o.d} = {l.d, o.d, s.d}
      OBVIOUS
    <3>. QED
      BY <1>0, <1>2, <2>2, <3>1
  <2>. QED
    <3>1. Suggested(b, M, FetchRewrite(l, o), R) /\ FetchReady(l, o, s, b, m, M)
      BY <1>2, <1>4, <2>2, <2>3, <2>4 DEF FetchReady
    <3>2. Whole(b) /\ b.x[l.n] = Here /\ Opens(l)
      BY <1>0, <1>2
    <3>3. SameEffect(R, z, {s.d, o.d}, M, s, m)
      BY <1>6, <2>1, <3>1, <3>2, FetchLeaves
    <3>. QED
      BY <1>0, <2>2, <3>3
<1>5. CASE Len(c) = 5
  <2>0. PICK e : e = c[2]
    OBVIOUS
  <2>1. Checks(l, e) /\ StoresIf(l, e, s) /\ s = c[4] /\ Proper(l) /\ Proper(e) /\ Proper(s)
    BY <1>0, <1>1, <1>5, <2>0 DEF Loop, SwapLoop, FetchLoop, CasLoop, StoreOf
  <2>2. ScratchOf(c) = {s.d} /\ RewriteOf(c) = CasRewrite(l, e, s)
    BY <1>0, <1>5, <2>0, <2>1 DEF ScratchOf, RewriteOf
  <2>3. /\ m.x[l.d] = Fetched(M, "here", l) /\ Fetched(M, "here", l) = Comparand(b, l, e)
        /\ m.flags = CompareFlags(l, e, Fetched(M, "here", l), Comparand(b, l, e))
    BY <1>0, <1>5, <2>0 DEF Carries
  <2>4. Kept(b, m, {l.d, s.d})
    <3>1. {l.d} \cup {s.d} = {l.d, s.d}
      OBVIOUS
    <3>. QED
      BY <1>0, <1>2, <2>2, <3>1
  <2>. QED
    <3>1. Suggested(b, M, CasRewrite(l, e, s), R) /\ CasReady(l, e, s, b, m, M)
      BY <2>2, <2>3, <2>4 DEF CasReady
    <3>2. Whole(b) /\ b.x[l.n] = Here /\ Opens(l)
      BY <1>0, <1>2
    <3>3. SameEffect(R, z, {s.d}, M, s, m)
      BY <1>6, <2>1, <2>3, <3>1, <3>2, CasLeaves
    <3>. QED
      BY <1>0, <2>2, <3>3
<1>. QED
  BY <1>1, <1>3, <1>4, <1>5

\* The compare of a CAS loop.
LEMMA ComparedIs ==
  ASSUME NEW c, Loop(c), Len(c) = 5, NEW b, NEW m, Framed(b, m, c), m.x[c[1].d] \in SUBSET Low(c[1].wd),
         NEW u, u = Compared(m, c)
  PROVE  /\ Framed(b, u, c) /\ u.x[c[1].d] = m.x[c[1].d]
         /\ u.flags = CompareFlags(c[1], c[2], m.x[c[1].d], Comparand(b, c[1], c[2]))
         /\ u.flags.z <=> m.x[c[1].d] = Comparand(b, c[1], c[2])
<1>0. PICK l, e, s : l = c[1] /\ e = c[2] /\ s = c[4]
  OBVIOUS
<1>1. /\ Proper(l) /\ Proper(e) /\ Opens(l) /\ Checks(l, e) /\ StoresIf(l, e, s) /\ l.d \in Gprs
      /\ ScratchOf(c) = {s.d}
  <2>1. Proper(c[1]) /\ Proper(c[2]) /\ StoreOf(c) = c[4]
    BY DEF Loop, StoreOf
  <2>2. Opens(l) /\ Checks(l, e) /\ StoresIf(l, e, s)
    BY <1>0 DEF Loop, SwapLoop, FetchLoop, CasLoop
  <2>3. l.d \in Gprs
    BY <1>0, LoopWords
  <2>. QED
    BY <1>0, <2>1, <2>2, <2>3 DEF ScratchOf
<1>2. Whole(m) /\ m.mem = {}
  BY AddressKept
<1>3. u = Exec(m, e)
  BY <1>0 DEF Compared
<1>4. /\ Kept(m, u, {}) /\ u.mem = {}
      /\ u.flags = CompareFlags(l, e, m.x[l.d], Comparand(m, l, e))
      /\ u.flags.z <=> m.x[l.d] = Comparand(m, l, e)
  <2>1. m.x[l.d] \in SUBSET Low(l.wd)
    BY <1>0
  <2>. QED
    BY <1>1, <1>2, <1>3, <2>1, CompareOf
<1>5. Comparand(m, l, e) = Comparand(b, l, e)
  <2>1. Other(l, e) # l.d /\ Other(l, e) # s.d /\ Other(l, e) \in Gprs \cup {R31}
    BY <1>1 DEF Proper, Words, Other, Checks, StoresIf, StoresTo
  <2>2. \A g \in Gprs \ ({l.d} \cup {s.d}) : m.x[g] = b.x[g]
    BY <1>0, <1>1 DEF Framed, Kept
  <2>. QED
    BY <2>1, <2>2 DEF Comparand
<1>6. \A g \in Gprs : u.x[g] = m.x[g]
  BY <1>4 DEF Kept
<1>7. Framed(b, u, c)
  BY <1>4, <1>6 DEF Framed, Kept
<1>. QED
  BY <1>0, <1>1, <1>4, <1>5, <1>6, <1>7

LEMMA GivingUp ==
  ASSUME NEW c, Loop(c), Len(c) = 5, NEW b, NEW m, Framed(b, m, c), NEW M, M = [cell \in Cells |-> M[cell]],
         m.x[c[1].d] = Fetched(M, "here", c[1]), NEW u, u = Compared(m, c), ~u.flags.z,
         NEW R, Suggested(b, M, RewriteOf(c), R)
  PROVE  Whole(R) /\ Alike(R, u, ScratchOf(c)) /\ R.mem = M
<1>0. PICK l, e, s : l = c[1] /\ e = c[2] /\ s = c[4]
  OBVIOUS
<1>1. /\ Proper(l) /\ Proper(e) /\ Proper(s) /\ Opens(l) /\ Checks(l, e) /\ StoresIf(l, e, s)
      /\ ScratchOf(c) = {s.d} /\ RewriteOf(c) = CasRewrite(l, e, s)
  <2>1. Proper(c[1]) /\ Proper(c[2]) /\ Proper(c[4]) /\ StoreOf(c) = c[4]
    BY DEF Loop, StoreOf
  <2>2. Opens(l) /\ Checks(l, e) /\ StoresIf(l, e, s)
    BY <1>0 DEF Loop, SwapLoop, FetchLoop, CasLoop
  <2>. QED
    BY <1>0, <2>1, <2>2 DEF ScratchOf, RewriteOf
<1>2. m.x[l.d] = Fetched(M, "here", l) /\ m.x[l.d] \in SUBSET Low(l.wd)
  BY <1>0 DEF Fetched
<1>3. /\ Framed(b, u, c) /\ u.x[l.d] = m.x[l.d]
      /\ u.flags = CompareFlags(l, e, m.x[l.d], Comparand(b, l, e))
      /\ u.flags.z <=> m.x[l.d] = Comparand(b, l, e)
  <2>1. m.x[c[1].d] \in SUBSET Low(c[1].wd)
    BY <1>0, <1>2
  <2>. QED
    BY <1>0, <2>1, ComparedIs
<1>4. Fetched(M, "here", l) # Comparand(b, l, e)
  BY <1>2, <1>3
<1>5. Whole(b) /\ b.x[l.n] = Here /\ Kept(b, u, {l.d, s.d})
  <2>1. {l.d} \cup {s.d} = {l.d, s.d}
    OBVIOUS
  <2>. QED
    BY <1>0, <1>1, <1>3, <2>1 DEF Framed
<1>6. CasReady(l, e, s, b, u, M)
  BY <1>2, <1>3, <1>5 DEF CasReady
<1>7. Suggested(b, M, CasRewrite(l, e, s), R)
  BY <1>1
<1>. QED
  BY <1>1, <1>4, <1>5, <1>6, <1>7, CasGivesUp

-----------------------------------------------------------------------------
(* The thread's steps.                                                     *)

Further(t, m, k) == [m |-> m, at |-> t.at + k]

LEMMA FramedAgain ==
  ASSUME NEW c, Loop(c), NEW b, NEW m, Framed(b, m, c), NEW d \in {c[1].d} \cup ScratchOf(c), NEW q, NEW z,
         Becomes(m, d, q, z)
  PROVE  Framed(b, z, c)
BY DEF Framed, Kept, Becomes

LEMMA OperationStep ==
  ASSUME NEW c, Loop(c), Len(c) = 4, NEW b, NEW t, NEW M, NEW mon, Running(b, t, c, M, mon), t.at = 2,
         NEW n, n = Further(t, Exec(t.m, c[2]), 1)
  PROVE  Running(b, n, c, M, mon)
<1>0. PICK l, o, s, m : l = c[1] /\ o = c[2] /\ s = c[3] /\ m = t.m
  OBVIOUS
<1>1. /\ Proper(l) /\ Proper(o) /\ Opens(l) /\ Combines(l, o) /\ StoresNew(l, o, s) /\ l.d \in Gprs /\ o.d \in Gprs
      /\ ScratchOf(c) = {s.d, o.d} /\ l.d # R31 /\ AccessWidth(l.wd)
  <2>1. Proper(c[1]) /\ Proper(c[2]) /\ StoreOf(c) = c[3]
    BY DEF Loop, StoreOf
  <2>2. Opens(l) /\ Combines(l, o) /\ StoresNew(l, o, s)
    BY <1>0 DEF Loop, SwapLoop, FetchLoop, CasLoop
  <2>3. l.d \in Gprs /\ o.d \in Gprs /\ AccessWidth(l.wd)
    BY <1>0, LoopWords
  <2>. QED
    BY <1>0, <2>1, <2>2, <2>3 DEF ScratchOf, Opens
<1>2. Framed(b, m, c) /\ Whole(m)
  BY <1>0, AddressKept DEF Running
<1>3. PICK v \in SUBSET Low(l.wd) : m.x[l.d] = v /\ (mon # {} => v = Fetched(M, "here", l))
  BY <1>0 DEF Running, Holding, Carries
<1>4. PICK z : z = Exec(m, o)
  OBVIOUS
<1>5. Becomes(m, o.d, Value(m, o), z)
  BY <1>1, <1>2, <1>4, CombinesOps, ComputeBecomes
<1>6. Framed(b, z, c)
  <2>1. o.d \in {c[1].d} \cup ScratchOf(c)
    BY <1>1
  <2>. QED
    BY <1>2, <1>5, <2>1, FramedAgain
<1>7. Value(m, o) \cap Low(l.wd) = FetchNew(l, o, v, m.x[Other(l, o)])
  <2>1. o.k \in Int
    BY <1>1 DEF Proper, Words
  <2>. QED
    BY <1>1, <1>3, <2>1, LoopStores
<1>8. FetchNew(l, o, v, m.x[Other(l, o)]) = FetchNew(l, o, v, b.x[Other(l, o)])
  <2>1. CASE o.op = "addi"
    BY <2>1 DEF FetchNew
  <2>2. CASE o.op # "addi"
    <3>1. Other(l, o) \in Gprs /\ Other(l, o) \notin {l.d, o.d, s.d}
      BY <1>1, <2>2 DEF Proper, Words, Combines, StoresNew, StoresTo, Other
    <3>2. m.x[Other(l, o)] = b.x[Other(l, o)]
      BY <1>0, <1>1, <1>2, <3>1 DEF Framed, Kept
    <3>. QED
      BY <3>2
  <2>. QED
    BY <2>1, <2>2
<1>9. z.x[o.d] \cap Low(l.wd) = FetchNew(l, o, v, b.x[Other(l, o)]) /\ (o.d # l.d => z.x[l.d] = v)
  BY <1>1, <1>3, <1>5, <1>7, <1>8 DEF Becomes
<1>10. n.m = z /\ n.at = 3
  BY <1>0, <1>4 DEF Further
<1>11. Carries(b, n.m, c, n.at, v)
  BY <1>0, <1>9, <1>10 DEF Carries
<1>12. Holding(b, n, c, M, mon)
  BY <1>0, <1>3, <1>11 DEF Holding
<1>13. mon \subseteq {"here"}
  BY DEF Running
<1>. QED
  BY <1>6, <1>10, <1>12, <1>13 DEF Running

LEMMA CompareStep ==
  ASSUME NEW c, Loop(c), Len(c) = 5, NEW b, NEW t, NEW M, NEW mon, Running(b, t, c, M, mon), t.at = 2,
         NEW n, n = Further(t, Exec(t.m, c[2]), 1)
  PROVE  Running(b, n, c, M, mon)
<1>0. PICK l, m : l = c[1] /\ m = t.m
  OBVIOUS
<1>1. Framed(b, m, c)
  BY <1>0 DEF Running
<1>2. PICK v \in SUBSET Low(l.wd) : m.x[l.d] = v /\ (mon # {} => v = Fetched(M, "here", l))
  BY <1>0 DEF Running, Holding, Carries
<1>3. PICK z : z = Compared(m, c)
  OBVIOUS
<1>4. /\ Framed(b, z, c) /\ z.x[l.d] = v
      /\ z.flags = CompareFlags(l, c[2], v, Comparand(b, l, c[2]))
      /\ z.flags.z <=> v = Comparand(b, l, c[2])
  <2>1. m.x[c[1].d] \in SUBSET Low(c[1].wd)
    BY <1>0, <1>2
  <2>. QED
    BY <1>0, <1>1, <1>2, <1>3, <2>1, ComparedIs
<1>5. n.m = z /\ n.at = 3
  BY <1>0, <1>3 DEF Further, Compared
<1>6. Carries(b, n.m, c, n.at, v)
  BY <1>0, <1>4, <1>5 DEF Carries
<1>7. Holding(b, n, c, M, mon)
  BY <1>0, <1>2, <1>6 DEF Holding
<1>8. mon \subseteq {"here"}
  BY DEF Running
<1>. QED
  BY <1>4, <1>5, <1>7, <1>8 DEF Running

LEMMA BranchKeeps == ASSUME NEW m, NEW w, w.op \in Conditionals PROVE Exec(m, w) = m
<1>1. w.op \notin {"msr", "ptest"}
  BY DEF Conditionals, CompareBranches, CbOps
<1>. QED
  BY <1>1 DEF Exec

LEMMA BranchStep ==
  ASSUME NEW c, Loop(c), Len(c) = 5, NEW b, NEW t, NEW M, NEW mon, Running(b, t, c, M, mon), t.at = 3,
         NEW n, n = IF Takes(t.m, c[3]) THEN Further(t, t.m, c[3].k) ELSE Further(t, Exec(t.m, c[3]), 1)
  PROVE  Running(b, n, c, M, mon) /\ Leaving(n, c) = Leaving(t, c)
<1>0. PICK l, m : l = c[1] /\ m = t.m
  OBVIOUS
<1>1. c[3].op = "bcond" /\ c[3].k = 3 /\ (Takes(m, c[3]) <=> ~m.flags.z)
  BY LoopWords DEF Takes, Holds, Always
<1>2. Exec(m, c[3]) = m
  BY <1>1, BranchKeeps DEF Conditionals
<1>3. Framed(b, m, c) /\ mon \subseteq {"here"}
  BY <1>0 DEF Running
<1>4. Leaving(t, c) = IF m.flags.z THEN {} ELSE {m}
  <2>1. t.at \in 1 .. Len(c) + 1
    OBVIOUS
  <2>. QED
    BY <1>0, <2>1, WhereItLeaves
<1>5. CASE m.flags.z
  <2>1. n.m = m /\ n.at = 4
    BY <1>0, <1>1, <1>2, <1>5 DEF Further
  <2>2. PICK v \in SUBSET Low(l.wd) : Carries(b, m, c, 3, v) /\ (mon # {} => v = Fetched(M, "here", l))
    BY <1>0 DEF Running, Holding
  <2>3. Carries(b, m, c, 4, v)
    BY <1>5, <2>2 DEF Carries
  <2>4. Holding(b, n, c, M, mon)
    BY <1>0, <2>1, <2>2, <2>3 DEF Holding
  <2>5. Leaving(n, c) = {}
    <3>1. n.at \in 1 .. Len(c) + 1 /\ n.at < Len(c) /\ n.at > 3
      BY <2>1
    <3>. QED
      BY <3>1, WhereItLeaves
  <2>. QED
    BY <1>3, <1>4, <1>5, <2>1, <2>4, <2>5 DEF Running
<1>6. CASE ~m.flags.z
  <2>1. n.m = m /\ n.at = 6
    BY <1>0, <1>1, <1>6 DEF Further
  <2>2. Holding(b, n, c, M, mon)
    BY <2>1 DEF Holding
  <2>3. Leaving(n, c) = {m}
    <3>1. n.at \in 1 .. Len(c) + 1 /\ n.at = Len(c) + 1
      BY <2>1
    <3>. QED
      BY <2>1, <3>1, WhereItLeaves
  <2>. QED
    BY <1>3, <1>4, <1>6, <2>1, <2>2, <2>3 DEF Running
<1>. QED
  BY <1>5, <1>6

LEMMA RetryStep ==
  ASSUME NEW c, Loop(c), NEW b, NEW t, NEW M, NEW mon, Running(b, t, c, M, mon), t.at = Len(c),
         NEW n, n = IF Takes(t.m, c[t.at]) THEN Further(t, t.m, c[t.at].k) ELSE Further(t, Exec(t.m, c[t.at]), 1)
  PROVE  Running(b, n, c, M, mon) /\ Leaving(n, c) = Leaving(t, c)
<1>0. PICK w, m, len : w = c[Len(c)] /\ m = t.m /\ len = Len(c)
  OBVIOUS
<1>1. w.op \in Conditionals /\ w.k = 1 - len /\ len \in 3 .. 5
  BY <1>0 DEF Loop, Conditionals, CompareBranches
<1>2. Exec(m, w) = m
  BY <1>1, BranchKeeps
<1>3. Framed(b, m, c)
  BY <1>0 DEF Running
<1>4. n.m = m /\ n.at = IF Takes(m, w) THEN 1 ELSE len + 1
  BY <1>0, <1>1, <1>2 DEF Further
<1>5. t.at \in 1 .. len + 1 /\ n.at \in 1 .. len + 1 /\ n.at \notin 2 .. len - 1
  BY <1>0, <1>1, <1>4
<1>6. Running(b, n, c, M, mon)
  BY <1>0, <1>3, <1>4, <1>5 DEF Running, Holding
<1>7. Leaving(t, c) = IF Takes(m, w) THEN {} ELSE {m}
  BY <1>0, <1>5, WhereItLeaves
<1>8. Leaving(n, c) = IF Takes(m, w) THEN {} ELSE {m}
  BY <1>0, <1>4, <1>5, WhereItLeaves
<1>. QED
  BY <1>6, <1>7, <1>8

\* A word that is not exclusive keeps what the thread may leave with.
LEMMA LoopStep ==
  ASSUME NEW c, Loop(c), NEW b, NEW t, NEW M, NEW mon, Running(b, t, c, M, mon), t.at <= Len(c),
         c[t.at].op \notin Exclusive,
         NEW n, n = IF c[t.at].op \in Conditionals /\ Takes(t.m, c[t.at]) THEN Further(t, t.m, c[t.at].k)
                    ELSE Further(t, Exec(t.m, c[t.at]), 1)
  PROVE  Running(b, n, c, M, mon) /\ Leaving(n, c) = Leaving(t, c)
<1>1. Len(c) \in 3 .. 5 /\ t.at \in 1 .. Len(c) + 1
  BY DEF Loop, Running
<1>2. t.at \in 1 .. Len(c)
  BY <1>1
<1>3. t.at # 1 /\ t.at # Len(c) - 1
  BY <1>2, WordsByPlace DEF Exclusive
<1>4. CASE t.at = Len(c)
  <2>1. c[t.at].op \in Conditionals
    BY <1>2, <1>4, WordsByPlace
  <2>2. n = IF Takes(t.m, c[t.at]) THEN Further(t, t.m, c[t.at].k) ELSE Further(t, Exec(t.m, c[t.at]), 1)
    BY <2>1
  <2>. QED
    BY <1>4, <2>2, RetryStep
<1>5. CASE t.at = 2 /\ Len(c) = 4
  <2>1. c[2].op \notin Conditionals
    BY <1>2, <1>5, WordsByPlace
  <2>2. n = Further(t, Exec(t.m, c[2]), 1)
    BY <1>5, <2>1
  <2>3. Running(b, n, c, M, mon)
    BY <1>5, <2>2, OperationStep
  <2>4. n.at = 3
    BY <1>5, <2>2 DEF Further
  <2>5. Leaving(t, c) = {} /\ Leaving(n, c) = {}
    <3>1. n.at \in 1 .. Len(c) + 1 /\ n.at < Len(c) /\ t.at < Len(c) /\ Len(c) # 5
      BY <1>5, <2>4
    <3>. QED
      BY <1>1, <3>1, WhereItLeaves
  <2>. QED
    BY <2>3, <2>5
<1>6. CASE t.at = 2 /\ Len(c) = 5
  <2>1. c[2].op \notin Conditionals
    BY <1>2, <1>6, WordsByPlace
  <2>2. n = Further(t, Exec(t.m, c[2]), 1)
    BY <1>6, <2>1
  <2>3. Running(b, n, c, M, mon)
    BY <1>6, <2>2, CompareStep
  <2>4. n.at = 3 /\ n.m = Compared(t.m, c)
    BY <1>6, <2>2 DEF Further, Compared
  <2>5. Leaving(t, c) = IF Compared(t.m, c).flags.z THEN {} ELSE {Compared(t.m, c)}
    BY <1>1, <1>6, WhereItLeaves
  <2>6. Leaving(n, c) = IF n.m.flags.z THEN {} ELSE {n.m}
    <3>1. n.at \in 1 .. Len(c) + 1
      BY <1>6, <2>4
    <3>. QED
      BY <1>6, <2>4, <3>1, WhereItLeaves
  <2>. QED
    BY <2>3, <2>4, <2>5, <2>6
<1>7. CASE t.at = 3 /\ Len(c) = 5
  <2>1. c[3].op \in Conditionals
    BY <1>2, <1>7, WordsByPlace
  <2>2. n = IF Takes(t.m, c[3]) THEN Further(t, t.m, c[3].k) ELSE Further(t, Exec(t.m, c[3]), 1)
    BY <1>7, <2>1
  <2>. QED
    BY <1>7, <2>2, BranchStep
<1>8. t.at = Len(c) \/ (t.at = 2 /\ Len(c) = 4) \/ (t.at = 2 /\ Len(c) = 5) \/ (t.at = 3 /\ Len(c) = 5)
  <2>0. PICK i, len : i = t.at /\ len = Len(c)
    OBVIOUS
  <2>1. len \in 3 .. 5 /\ i \in 1 .. len /\ i # 1 /\ i # len - 1
    BY <1>1, <1>2, <1>3, <2>0
  <2>2. i = len \/ (i = 2 /\ len = 4) \/ (i = 2 /\ len = 5) \/ (i = 3 /\ len = 5)
    BY <2>1
  <2>. QED
    BY <2>0, <2>2
<1>. QED
  BY <1>4, <1>5, <1>6, <1>7, <1>8

\* The suggestion turns memory M into N and leaves the registers and flags of
\* u, the loop's scratch registers apart.
Matched(b, c, u, M, N) ==
  /\ Whole(u) /\ u.mem = {}
  /\ \E R : Suggested(b, M, RewriteOf(c), R) /\ Whole(R) /\ Alike(R, u, ScratchOf(c)) /\ R.mem = N

WholeMemory(M) == M = [cell \in Cells |-> M[cell]]
\* The exclusive load leaves the thread n.
Loaded(t, c, M, cell, n) ==
  /\ t.at <= Len(c) /\ c[t.at].op = "ldxr" /\ cell = CellOf(t.m, c[t.at])
  /\ n = Further(t, [t.m EXCEPT !.x[c[t.at].d] = Fetched(M, cell, c[t.at])], 1)
MayLeave(b, c, n, M) == Leaving(n, c) = {} \/ \E u : Leaving(n, c) = {u} /\ Matched(b, c, u, M, M)

LEMMA LoadStep ==
  ASSUME NEW c, Loop(c), NEW b, NEW t, NEW M, WholeMemory(M), NEW mon, Running(b, t, c, M, mon), NEW cell, NEW n,
         Loaded(t, c, M, cell, n)
  PROVE  Running(b, n, c, M, {cell}) /\ Leaving(t, c) = {} /\ MayLeave(b, c, n, M)
<1>. /\ t.at <= Len(c) /\ c[t.at].op = "ldxr" /\ cell = CellOf(t.m, c[t.at])
     /\ n = Further(t, [t.m EXCEPT !.x[c[t.at].d] = Fetched(M, cell, c[t.at])], 1)
     /\ M = [x \in Cells |-> M[x]]
  BY Zenon DEF Loaded, WholeMemory
<1>1. Len(c) \in 3 .. 5 /\ t.at \in 1 .. Len(c) + 1
  BY DEF Loop, Running
<1>2. t.at = 1
  <2>1. t.at \in 1 .. Len(c)
    BY <1>1
  <2>. QED
    BY <2>1, WordsByPlace
<1>0. PICK l, m, v, z : l = c[1] /\ m = t.m /\ v = Fetched(M, cell, l) /\ z = [m EXCEPT !.x[l.d] = v]
  OBVIOUS
<1>3. Framed(b, m, c) /\ Whole(m) /\ cell = "here"
  <2>1. Framed(b, m, c)
    BY <1>0 DEF Running
  <2>. QED
    BY <1>0, <1>2, <2>1, AddressKept
<1>4. l.d \in Gprs
  BY <1>0, LoopWords
<1>5. Becomes(m, l.d, v, z)
  BY <1>0, <1>3, <1>4, RegisterSet, Zenon
<1>6. Framed(b, z, c)
  <2>1. l.d \in {c[1].d} \cup ScratchOf(c)
    BY <1>0
  <2>. QED
    BY <1>3, <1>5, <2>1, FramedAgain
<1>7. n.m = z /\ n.at = 2
  <2>1. n = Further(t, z, 1)
    BY <1>0, <1>2
  <2>. QED
    BY <1>2, <2>1 DEF Further
<1>8. z.x[l.d] = v /\ v = Fetched(M, "here", l) /\ v \in SUBSET Low(l.wd)
  BY <1>0, <1>3, <1>4, <1>5 DEF Becomes, Fetched
<1>9. Running(b, n, c, M, {cell})
  <2>1. Carries(b, n.m, c, n.at, v)
    <3>0. c[1] = l
      BY <1>0
    <3>1. n.at # 3 /\ n.at # 4 /\ n.at \notin 3 .. 4
      BY <1>7
    <3>2. n.m.x[c[1].d] = v
      BY <1>7, <1>8, <3>0
    <3>. QED
      BY <3>1, <3>2 DEF Carries
  <2>2. Holding(b, n, c, M, {cell})
    BY <1>0, <1>8, <2>1 DEF Holding
  <2>. QED
    BY <1>1, <1>3, <1>6, <1>7, <2>2 DEF Running
<1>10. Leaving(t, c) = {}
  BY <1>1, <1>2, WhereItLeaves
<1>11. Leaving(n, c) = {} \/ \E u : Leaving(n, c) = {u} /\ Matched(b, c, u, M, M)
  <2>1. n.at \in 1 .. Len(c) + 1 /\ n.at < Len(c)
    <3>1. \A len \in 3 .. 5 : 2 \in 1 .. len + 1 /\ 2 < len
      OBVIOUS
    <3>2. 2 \in 1 .. Len(c) + 1 /\ 2 < Len(c)
      BY <1>1, <3>1, Zenon
    <3>3. n.at = 2
      BY <1>7
    <3>. QED
      BY <3>2, <3>3, Zenon
  <2>2. CASE Len(c) # 5
    BY <2>1, <2>2, WhereItLeaves
  <2>3. CASE Len(c) = 5
    <3>1. PICK u : u = Compared(z, c)
      OBVIOUS
    <3>2. Leaving(n, c) = IF u.flags.z THEN {} ELSE {u}
      BY <1>7, <2>1, <2>3, <3>1, WhereItLeaves
    <3>3. ASSUME ~u.flags.z PROVE Matched(b, c, u, M, M)
      <4>1. PICK R : Suggested(b, M, RewriteOf(c), R)
        BY DEF Suggested
      <4>2. z.x[c[1].d] = Fetched(M, "here", c[1]) /\ z.x[c[1].d] \in SUBSET Low(c[1].wd)
        BY <1>0, <1>8
      <4>3. Whole(R) /\ Alike(R, u, ScratchOf(c)) /\ R.mem = M
        BY <1>6, <2>3, <3>1, <3>3, <4>1, <4>2, GivingUp
      <4>4. Framed(b, u, c)
        BY <1>6, <2>3, <3>1, <4>2, ComparedIs
      <4>5. Whole(u) /\ u.mem = {}
        BY <4>4, AddressKept
      <4>. QED
        BY <4>1, <4>3, <4>5 DEF Matched
    <3>. QED
      BY <3>2, <3>3
  <2>. QED
    BY <2>2, <2>3
<1>. QED
  BY <1>9, <1>10, <1>11 DEF MayLeave

LEMMA StorePlace ==
  ASSUME NEW c, Loop(c), NEW b, NEW t, NEW M, NEW mon, Running(b, t, c, M, mon), t.at <= Len(c), c[t.at].op = "stxr"
  PROVE  /\ t.at = Len(c) - 1 /\ c[t.at] = StoreOf(c) /\ Len(c) \in 3 .. 5 /\ Leaving(t, c) = {}
         /\ Framed(b, t.m, c) /\ CellOf(t.m, c[t.at]) = "here"
<1>1. Len(c) \in 3 .. 5 /\ t.at \in 1 .. Len(c) + 1 /\ Framed(b, t.m, c)
  BY DEF Loop, Running
<1>2. t.at = Len(c) - 1
  <2>1. t.at \in 1 .. Len(c)
    BY <1>1
  <2>. QED
    BY <2>1, WordsByPlace
<1>3. c[t.at] = StoreOf(c)
  BY <1>2 DEF StoreOf
<1>4. Leaving(t, c) = {}
  <2>1. t.at < Len(c) /\ (Len(c) # 5 \/ t.at > 3)
    <3>0. PICK i, len : i = t.at /\ len = Len(c)
      OBVIOUS
    <3>1. len \in 3 .. 5 /\ i = len - 1
      BY <1>1, <1>2, <3>0
    <3>2. i < len /\ (len # 5 \/ i > 3)
      BY <3>1
    <3>. QED
      BY <3>0, <3>2
  <2>. QED
    BY <1>1, <2>1, WhereItLeaves
<1>. QED
  BY <1>1, <1>2, <1>3, <1>4, AddressKept

LEMMA FailStep ==
  ASSUME NEW c, Loop(c), NEW b, NEW t, NEW M, NEW mon, Running(b, t, c, M, mon), t.at <= Len(c), c[t.at].op = "stxr",
         NEW n, n = Further(t, [t.m EXCEPT !.x[c[t.at].d] = {0}], 1)
  PROVE  Running(b, n, c, M, {}) /\ Leaving(n, c) = {} /\ Leaving(t, c) = {}
<1>1. /\ t.at = Len(c) - 1 /\ c[t.at] = StoreOf(c) /\ Len(c) \in 3 .. 5 /\ Leaving(t, c) = {}
      /\ Framed(b, t.m, c)
  BY StorePlace
<1>0. PICK m, d, z : m = t.m /\ d = StoreOf(c).d /\ z = [m EXCEPT !.x[d] = {0}]
  OBVIOUS
<1>2. d \in Gprs /\ d \in {c[1].d} \cup ScratchOf(c) /\ Whole(m) /\ Framed(b, m, c)
  BY <1>0, <1>1, LoopWords, AddressKept
<1>3. Becomes(m, d, {0}, z)
  BY <1>0, <1>2, RegisterSet, Zenon
<1>4. Framed(b, z, c)
  BY <1>2, <1>3, FramedAgain
<1>5. n.m = z /\ n.at = Len(c)
  <2>1. n = Further(t, z, 1)
    BY <1>0, <1>1
  <2>. QED
    BY <1>1, <2>1 DEF Further
<1>6. Running(b, n, c, M, {})
  BY <1>1, <1>4, <1>5 DEF Running, Holding
<1>7. Takes(z, c[Len(c)])
  <2>1. z.x[StoreOf(c).d] = {0}
    BY <1>0, <1>2, <1>3 DEF Becomes
  <2>. QED
    BY <2>1, StatusDecides
<1>8. Leaving(n, c) = {}
  <2>1. n.at \in 1 .. Len(c) + 1
    <3>1. Len(c) \in 3 .. 5 /\ n.at = Len(c)
      BY <1>1, <1>5
    <3>2. \A len \in 3 .. 5 : len \in 1 .. len + 1
      OBVIOUS
    <3>. QED
      BY <3>1, <3>2
  <2>. QED
    BY <1>5, <1>7, <2>1, WhereItLeaves
<1>. QED
  BY <1>1, <1>6, <1>8

LEMMA StoreStep ==
  ASSUME NEW c, Loop(c), NEW b, NEW t, NEW M, NEW mon, Running(b, t, c, M, mon), t.at <= Len(c), c[t.at].op = "stxr",
         CellOf(t.m, c[t.at]) \in mon, NEW N, N = Written(M, CellOf(t.m, c[t.at]), c[t.at], Reads(t.m, c[t.at], c[t.at].m)),
         NEW n, n = Further(t, [t.m EXCEPT !.x[c[t.at].d] = {}], 1), NEW any
  PROVE  /\ Running(b, n, c, any, {}) /\ Leaving(t, c) = {}
         /\ \E u : Leaving(n, c) = {u} /\ Matched(b, c, u, M, N)
<1>1. /\ t.at = Len(c) - 1 /\ c[t.at] = StoreOf(c) /\ Len(c) \in 3 .. 5 /\ Leaving(t, c) = {}
      /\ Framed(b, t.m, c) /\ CellOf(t.m, c[t.at]) = "here"
  BY StorePlace
<1>0. PICK m, d, z : m = t.m /\ d = StoreOf(c).d /\ z = [m EXCEPT !.x[d] = {}]
  OBVIOUS
<1>2. d \in Gprs /\ d \in {c[1].d} \cup ScratchOf(c) /\ Whole(m) /\ Framed(b, m, c)
  BY <1>0, <1>1, LoopWords, AddressKept
<1>3. Becomes(m, d, {}, z)
  BY <1>0, <1>2, RegisterSet, Zenon
<1>4. Framed(b, z, c)
  BY <1>2, <1>3, FramedAgain
<1>5. n.m = z /\ n.at = Len(c)
  <2>1. n = Further(t, z, 1)
    BY <1>0, <1>1
  <2>. QED
    BY <1>1, <2>1 DEF Further
<1>6. Running(b, n, c, any, {})
  BY <1>1, <1>4, <1>5 DEF Running, Holding
<1>7. ~Takes(z, c[Len(c)])
  <2>1. z.x[StoreOf(c).d] = {}
    BY <1>0, <1>2, <1>3 DEF Becomes
  <2>. QED
    BY <2>1, StatusDecides
<1>8. Leaving(n, c) = {z}
  <2>1. n.at \in 1 .. Len(c) + 1
    <3>1. Len(c) \in 3 .. 5 /\ n.at = Len(c)
      BY <1>1, <1>5
    <3>2. \A len \in 3 .. 5 : len \in 1 .. len + 1
      OBVIOUS
    <3>. QED
      BY <3>1, <3>2
  <2>. QED
    BY <1>5, <1>7, <2>1, WhereItLeaves
<1>9. Carries(b, m, c, Len(c) - 1, Fetched(M, "here", c[1]))
  <2>1. t.at \in 2 .. Len(c) - 1 /\ mon # {}
    BY <1>1
  <2>2. PICK v \in SUBSET Low(c[1].wd) : Carries(b, t.m, c, t.at, v) /\ (mon # {} => v = Fetched(M, "here", c[1]))
    BY <2>1 DEF Running, Holding
  <2>. QED
    BY <1>0, <1>1, <2>1, <2>2
<1>10. PICK R : Suggested(b, M, RewriteOf(c), R)
  BY DEF Suggested
<1>11. SameEffect(R, z, ScratchOf(c), M, StoreOf(c), m)
  <2>1. Becomes(m, StoreOf(c).d, {}, z)
    BY <1>0, <1>3
  <2>. QED
    BY <1>2, <1>9, <1>10, <2>1, StoreLeaves
<1>12. N = Written(M, "here", StoreOf(c), Reads(m, StoreOf(c), StoreOf(c).m))
  BY <1>0, <1>1
<1>13. Whole(z) /\ z.mem = {}
  BY <1>4, AddressKept
<1>. QED
  BY <1>1, <1>6, <1>8, <1>10, <1>11, <1>12, <1>13 DEF SameEffect, Matched

LEMMA RivalStep ==
  ASSUME NEW c, NEW b, NEW t, NEW M, NEW mon, Running(b, t, c, M, mon), NEW N
  PROVE  Running(b, t, c, N, mon \ {"here"})
<1>1. t.at \in 2 .. Len(c) - 1 => mon \ {"here"} = {}
  BY DEF Running
<1>2. Holding(b, t, c, N, mon \ {"here"})
  BY <1>1 DEF Running, Holding
<1>. QED
  BY <1>1, <1>2 DEF Running

-----------------------------------------------------------------------------
(* The words after a loop: machines that differ in the registers X before  *)
(* them differ in R alone after them.                                      *)

Erases(X, after, R) ==
  \A a, b : Whole(a) /\ Whole(b) /\ Alike(a, b, X) =>
    /\ Whole(Run(a, after)) /\ Run(a, after).mem = a.mem
    /\ Whole(Run(b, after)) /\ Run(b, after).mem = b.mem
    /\ Alike(Run(a, after), Run(b, after), R)

LEMMA NothingErased == ASSUME NEW X PROVE Erases(X, <<>>, X)
  BY RunOfNone DEF Erases

LEMMA ErasesMore ==
  ASSUME NEW X, NEW R, NEW after \in Seq(Words), Erases(X, after, R), NEW w \in Words, w.op \in Straight,
         w.op \in {"msr", "nop"} => w.d = R31, R31 \notin R, \A r \in R : ~ReadsReg(w, r)
  PROVE  Erases(X, Append(after, w), R \ {w.d})
<1>. SUFFICES ASSUME NEW a, NEW b, Whole(a), Whole(b), Alike(a, b, X)
              PROVE  /\ Whole(Run(a, Append(after, w))) /\ Run(a, Append(after, w)).mem = a.mem
                     /\ Whole(Run(b, Append(after, w))) /\ Run(b, Append(after, w)).mem = b.mem
                     /\ Alike(Run(a, Append(after, w)), Run(b, Append(after, w)), R \ {w.d})
  BY Zenon DEF Erases
<1>1. /\ Whole(Run(a, after)) /\ Run(a, after).mem = a.mem
      /\ Whole(Run(b, after)) /\ Run(b, after).mem = b.mem
      /\ Alike(Run(a, after), Run(b, after), R)
  BY Zenon DEF Erases
<1>2. Run(a, Append(after, w)) = Exec(Run(a, after), w) /\ Run(b, Append(after, w)) = Exec(Run(b, after), w)
  BY RunOfAppend
<1>3. Whole(Exec(Run(a, after), w)) /\ Exec(Run(a, after), w).mem = a.mem
  BY <1>1, StraightWhole
<1>4. Whole(Exec(Run(b, after), w)) /\ Exec(Run(b, after), w).mem = b.mem
  BY <1>1, StraightWhole
<1>5. Alike(Exec(Run(a, after), w), Exec(Run(b, after), w), R \ {w.d})
  BY <1>1, StraightAlike
<1>. QED
  BY <1>2, <1>3, <1>4, <1>5

LEMMA OwnIs == ASSUME NEW m, Whole(m), NEW o, o = Own(m)
               PROVE  Whole(o) /\ o.mem = {} /\ o.x = m.x /\ o.sp = m.sp /\ o.base = m.base /\ o.flags = m.flags
  BY DEF Own, Whole, Shaped, Fields

LEMMA SameMachine ==
  ASSUME NEW a, NEW b, Whole(a), Whole(b), Alike(a, b, {}), a.mem = b.mem
  PROVE  a = b
<1>1. a.x = b.x
  BY DEF Alike, Whole, Shaped
<1>2. \A f \in Fields : a[f] = b[f]
  BY <1>1 DEF Alike, Fields
<1>. QED
  BY <1>2 DEF Whole, Shaped

\* The suggestion and the words after the loop leave what the thread does.
LEMMA SameAnswer ==
  ASSUME NEW X, NEW after, Erases(X, after, {}), NEW R, NEW u, Whole(R), Whole(u), u.mem = {}, Alike(R, u, X)
  PROVE  Own(Run(R, after)) = Run(u, after) /\ Run(R, after).mem = R.mem
<1>1. /\ Whole(Run(R, after)) /\ Run(R, after).mem = R.mem
      /\ Whole(Run(u, after)) /\ Run(u, after).mem = {}
      /\ Alike(Run(R, after), Run(u, after), {})
  BY Zenon DEF Erases
<1>0. PICK o : o = Own(Run(R, after))
  OBVIOUS
<1>2. /\ Whole(o) /\ o.mem = {} /\ o.x = Run(R, after).x /\ o.sp = Run(R, after).sp
      /\ o.base = Run(R, after).base /\ o.flags = Run(R, after).flags
  BY <1>0, <1>1, OwnIs
<1>3. Alike(o, Run(u, after), {})
  BY <1>1, <1>2 DEF Alike
<1>4. o = Run(u, after)
  BY <1>1, <1>2, <1>3, SameMachine
<1>. QED
  BY <1>0, <1>1, <1>4

LEMMA SuggestionIsWords == ASSUME NEW c, Loop(c) PROVE \E S : Words \subseteq S /\ RewriteOf(c) \in Seq(S)
<1>1. ASSUME NEW x PROVE \E S : Words \subseteq S /\ <<x>> \in Seq(S)
  <2>1. Words \subseteq Words \cup {x} /\ <<x>> \in Seq(Words \cup {x})
    OBVIOUS
  <2>. QED
    BY <2>1
<1>2. ASSUME NEW x, NEW y PROVE \E S : Words \subseteq S /\ <<x, y>> \in Seq(S)
  <2>1. Words \subseteq Words \cup {x, y} /\ <<x, y>> \in Seq(Words \cup {x, y})
    OBVIOUS
  <2>. QED
    BY <2>1
<1>3. ASSUME NEW x, NEW y, NEW z PROVE \E S : Words \subseteq S /\ <<x, y, z>> \in Seq(S)
  <2>1. Words \subseteq Words \cup {x, y, z} /\ <<x, y, z>> \in Seq(Words \cup {x, y, z})
    OBVIOUS
  <2>. QED
    BY <2>1
<1>4. CASE Len(c) = 3
  <2>1. RewriteOf(c) = SwapRewrite(c[1], c[2])
    BY <1>4 DEF RewriteOf
  <2>. QED
    BY <1>1, <2>1 DEF SwapRewrite
<1>5. CASE Len(c) = 4
  <2>1. RewriteOf(c) = FetchRewrite(c[1], c[2])
    BY <1>5 DEF RewriteOf
  <2>2. (\E x : FetchRewrite(c[1], c[2]) = <<x>>) \/ \E x, y : FetchRewrite(c[1], c[2]) = <<x, y>>
    BY Zenon DEF FetchRewrite
  <2>. QED
    BY <1>1, <1>2, <2>1, <2>2
<1>6. CASE Len(c) = 5
  <2>1. RewriteOf(c) = CasRewrite(c[1], c[2], c[4])
    BY <1>6 DEF RewriteOf
  <2>2. PICK x, y : x = Mov(c[1].wd = W, c[1].d, Other(c[1], c[2])) /\ y = Access("cas", c[1].wd, c[1].d, c[4].m, c[1].n)
    OBVIOUS
  <2>3. RewriteOf(c) = <<x, y, c[2]>>
    BY <2>1, <2>2 DEF CasRewrite
  <2>4. \E S : Words \subseteq S /\ <<x, y, c[2]>> \in Seq(S)
    BY <1>3
  <2>. QED
    BY <2>3, <2>4, Zenon
<1>. QED
  BY <1>4, <1>5, <1>6 DEF Loop

\* The effect the suggestion and the words after it have in one moment.
LEMMA EffectMatched ==
  ASSUME NEW c, Loop(c), NEW after \in Seq(Words), \A i \in 1 .. Len(after) : after[i].op \in Straight,
         Erases(ScratchOf(c), after, {}), NEW b, NEW u, NEW M, NEW N, Matched(b, c, u, M, N),
         NEW m, m = RunShared([b EXCEPT !.mem = M], RewriteOf(c) \o after)
  PROVE  Own(m) = Run(u, after) /\ m.mem = N
<1>1. PICK R : Suggested(b, M, RewriteOf(c), R) /\ Whole(R) /\ Alike(R, u, ScratchOf(c)) /\ R.mem = N
  BY DEF Matched
<1>2. Whole(u) /\ u.mem = {}
  BY DEF Matched
<1>3. \A i \in 1 .. Len(after) : after[i].op \notin AtomicOps
  <2>1. \A op \in Straight : op \notin AtomicOps
    BY DEF Straight, AtomicOps, FetchOps, ComputeOps, ShiftOps, ExtractOps, PlaceOps, MoveOps, LogicOps,
           ImmLogicOps, ArithOps, ImmArithOps, ExtArithOps, SelectOps, MulOps, HighOps, TwoSourceOps,
           OneSourceOps, CarryOps, CondCmpOps, CondCmpImmOps
  <2>. QED
    BY <2>1
<1>4. PICK S : Words \subseteq S /\ RewriteOf(c) \in Seq(S)
  BY SuggestionIsWords
<1>5. after \in Seq(S)
  BY <1>4
<1>6. m = Run(R, after)
  <2>0. PICK z : z = [b EXCEPT !.mem = M]
    OBVIOUS
  <2>1. RunShared(z, RewriteOf(c) \o after) = Run(RunShared(z, RewriteOf(c)), after)
    BY <1>3, <1>4, <1>5, RunAfterAtomics
  <2>. QED
    BY <1>1, <2>0, <2>1 DEF Suggested
<1>. QED
  BY <1>1, <1>2, <1>6, SameAnswer

-----------------------------------------------------------------------------
(* A finding in a longer buffer.                                           *)

LEMMA PartOfAppend ==
  ASSUME NEW s \in Seq(Words), NEW w \in Words, NEW i \in Nat \ {0}, NEW j \in Nat, j <= Len(s)
  PROVE  SubSeq(Append(s, w), i, j) = SubSeq(s, i, j)
<1>. DEFINE a == Append(s, w)
            p == SubSeq(a, i, j)
            q == SubSeq(s, i, j)
<1>1. \A k \in i .. j : s[k] \in Words /\ a[k] = s[k] /\ a[k] \in Words
  <2>1. \A k \in i .. j : k \in 1 .. Len(s)
    OBVIOUS
  <2>. QED
    BY <2>1, AppendProperties
<1>. HIDE DEF a
<1>2. p \in Seq(Words) /\ Len(p) = (IF i <= j THEN j - i + 1 ELSE 0) /\ \A k \in 1 .. j - i + 1 : p[k] = a[i + k - 1]
  BY <1>1, SubSeqProperties
<1>3. q \in Seq(Words) /\ Len(q) = (IF i <= j THEN j - i + 1 ELSE 0) /\ \A k \in 1 .. j - i + 1 : q[k] = s[i + k - 1]
  BY <1>1, SubSeqProperties
<1>. HIDE DEF p, q
<1>4. \A k \in 1 .. Len(p) : k \in 1 .. j - i + 1 /\ i + k - 1 \in i .. j
  BY <1>2
<1>5. \A k \in 1 .. Len(p) : p[k] = q[k]
  BY <1>1, <1>2, <1>3, <1>4
<1>6. p = q
  BY <1>2, <1>3, <1>5, SeqEqual
<1>. QED
  BY <1>6 DEF p, q, a

LEMMA RestOfAppend ==
  ASSUME NEW s \in Seq(Words), NEW w \in Words, NEW i \in Nat \ {0}, i <= Len(s) + 1
  PROVE  SubSeq(Append(s, w), i, Len(s) + 1) = Append(SubSeq(s, i, Len(s)), w)
<1>. DEFINE a == Append(s, w)
            q == SubSeq(s, i, Len(s))
            p == SubSeq(a, i, Len(s) + 1)
            r == Append(q, w)
<1>0. PICK n \in Nat : n = Len(s)
  OBVIOUS
<1>1. \A k \in 1 .. n : s[k] \in Words /\ a[k] = s[k]
  BY <1>0, AppendProperties
<1>2. a[n + 1] = w
  BY <1>0, AppendProperties
<1>. HIDE DEF a
<1>3. /\ p \in Seq(Words) /\ Len(p) = n + 1 - i + 1 /\ \A k \in 1 .. n + 1 - i + 1 : p[k] = a[i + k - 1]
  <2>1. \A k \in i .. n + 1 : a[k] \in Words
    BY <1>0, <1>1, <1>2
  <2>. QED
    BY <1>0, <2>1, SubSeqProperties
<1>4. /\ q \in Seq(Words) /\ Len(q) = n + 1 - i /\ \A k \in 1 .. n + 1 - i : q[k] = s[i + k - 1]
  <2>1. \A k \in i .. n : s[k] \in Words
    BY <1>0, <1>1
  <2>. QED
    BY <1>0, <2>1, SubSeqProperties
<1>. HIDE DEF p, q
<1>5. r \in Seq(Words) /\ Len(r) = n + 1 - i + 1 /\ (\A k \in 1 .. n + 1 - i : r[k] = q[k]) /\ r[n + 1 - i + 1] = w
  <2>1. r \in Seq(Words) /\ Len(r) = Len(q) + 1 /\ (\A k \in 1 .. Len(q) : r[k] = q[k]) /\ r[Len(q) + 1] = w
    <3>1. q \in Seq(Words)
      BY <1>4
    <3>. QED
      BY <3>1, AppendProperties
  <2>. HIDE DEF r
  <2>2. Len(q) = n + 1 - i
    BY <1>4
  <2>. QED
    BY <2>1, <2>2
<1>. HIDE DEF r
<1>6. ASSUME NEW k \in 1 .. Len(p) PROVE p[k] = r[k]
  <2>1. p[k] = a[i + k - 1]
    BY <1>3
  <2>2. CASE k \in 1 .. n + 1 - i
    <3>1. r[k] = s[i + k - 1] /\ i + k - 1 \in 1 .. n
      BY <1>0, <1>4, <1>5, <2>2
    <3>. QED
      BY <1>1, <2>1, <3>1
  <2>3. CASE k = n + 1 - i + 1
    <3>1. i + k - 1 = n + 1
      BY <1>0, <2>3
    <3>. QED
      BY <1>2, <1>5, <2>1, <2>3, <3>1
  <2>. QED
    BY <1>0, <1>3, <2>2, <2>3
<1>7. p = r
  BY <1>3, <1>5, <1>6, SeqEqual
<1>. QED
  BY <1>7 DEF p, q, r, a

\* The finding p of the loop that begins at p.first, where the registers in R
\* are not yet overwritten.
Follows(words, p, R) ==
  LET c     == SubSeq(words, p.first, p.first + p.words - 1)
      after == SubSeq(words, p.first + p.words, Len(words))
  IN  /\ p.first \in Nat \ {0} /\ p.words \in 3 .. 5 /\ p.first + p.words - 1 <= Len(words)
      /\ Loop(c) /\ Len(c) = p.words /\ p.rewrite = RewriteOf(c)
      /\ after \in Seq(Words) /\ \A i \in 1 .. Len(after) : after[i].op \in Straight
      /\ Erases(ScratchOf(c), after, R) /\ R \subseteq ScratchOf(c)

LEMMA StraightAppended ==
  ASSUME NEW after \in Seq(Words), \A i \in 1 .. Len(after) : after[i].op \in Straight, NEW w \in Words, w.op \in Straight
  PROVE  Append(after, w) \in Seq(Words) /\ \A i \in 1 .. Len(Append(after, w)) : Append(after, w)[i].op \in Straight
<1>. DEFINE more == Append(after, w)
<1>1. /\ more \in Seq(Words) /\ Len(more) = Len(after) + 1 /\ Len(after) \in Nat
      /\ (\A i \in 1 .. Len(after) : more[i] = after[i]) /\ more[Len(after) + 1] = w
  BY AppendProperties
<1>. HIDE DEF more
<1>2. \A i \in 1 .. Len(more) : i \in 1 .. Len(after) \/ i = Len(after) + 1
  BY <1>1
<1>3. \A i \in 1 .. Len(more) : more[i].op \in Straight
  BY <1>1, <1>2
<1>. QED
  BY <1>1, <1>3 DEF more

LEMMA FollowsMore ==
  ASSUME NEW words \in Seq(Words), NEW p, NEW R, Follows(words, p, R), NEW w \in Words, w.op \in Straight,
         w.op \in {"msr", "nop"} => w.d = R31, \A r \in R : ~ReadsReg(w, r)
  PROVE  Follows(Append(words, w), p, R \ {w.d})
<1>. DEFINE c     == SubSeq(words, p.first, p.first + p.words - 1)
            after == SubSeq(words, p.first + p.words, Len(words))
            more  == Append(words, w)
<1>1. /\ p.first \in Nat \ {0} /\ p.words \in 3 .. 5 /\ p.first + p.words - 1 <= Len(words)
      /\ Loop(c) /\ Len(c) = p.words /\ p.rewrite = RewriteOf(c)
      /\ after \in Seq(Words) /\ (\A i \in 1 .. Len(after) : after[i].op \in Straight)
      /\ Erases(ScratchOf(c), after, R) /\ R \subseteq ScratchOf(c)
  BY DEF Follows
<1>2. Len(more) = Len(words) + 1 /\ Len(words) \in Nat
  BY AppendProperties
<1>3. SubSeq(more, p.first, p.first + p.words - 1) = c
  <2>1. p.first + p.words - 1 \in Nat
    BY <1>1
  <2>. QED
    BY <1>1, <2>1, PartOfAppend
<1>4. SubSeq(more, p.first + p.words, Len(more)) = Append(after, w)
  <2>1. p.first + p.words \in Nat \ {0} /\ p.first + p.words <= Len(words) + 1
    BY <1>1, <1>2
  <2>. QED
    BY <1>2, <2>1, RestOfAppend
<1>5. p.first + p.words - 1 <= Len(more)
  BY <1>1, <1>2
<1>. HIDE DEF more, c, after
<1>6. Append(after, w) \in Seq(Words) /\ \A i \in 1 .. Len(Append(after, w)) : Append(after, w)[i].op \in Straight
  BY <1>1, StraightAppended
<1>7. R31 \notin R
  <2>1. R31 \notin ScratchOf(c)
    BY <1>1, LoopWords
  <2>. QED
    BY <1>1, <2>1
<1>8. Erases(ScratchOf(c), Append(after, w), R \ {w.d})
  BY <1>1, <1>7, ErasesMore
<1>9. Follows(more, p, R \ {w.d})
  BY <1>1, <1>3, <1>4, <1>5, <1>6, <1>8 DEF Follows
<1>. QED
  BY <1>9 DEF more

-----------------------------------------------------------------------------
(* The words of a loop matched one by one.                                 *)

LEMMA ProperWord ==
  ASSUME NEW f \in DOMAIN Families, NEW i \in 1 .. Len(Families[f]), NEW w \in Families[f][i]
  PROVE  Proper(w)
<1>1. Families[f] \in Seq(SUBSET Words)
  BY LseAssumption
<1>2. i \in DOMAIN Families[f]
  BY <1>1
<1>3. w \in Words
  BY <1>1, <1>2
<1>4. /\ w.op \in Exclusive => w.wd \in 1 .. H \cup {W} /\ w.sf = (w.wd = W)
      /\ w.op \in {"msr", "nop"} => w.d = R31
  BY <1>2, LseAssumption
<1>. QED
  BY <1>3, <1>4 DEF Proper, AccessWidth

Staged(c) ==
  /\ Len(c) \in 0 .. 4
  /\ Len(c) >= 1 => Opens(c[1])
  /\ Len(c) = 2 => Combines(c[1], c[2]) \/ Swaps(c[1], c[2]) \/ Checks(c[1], c[2])
  /\ Len(c) = 3 => (Combines(c[1], c[2]) /\ StoresNew(c[1], c[2], c[3])) \/ (Checks(c[1], c[2]) /\ GivesUp(c[3]))
  /\ Len(c) = 4 => Checks(c[1], c[2]) /\ GivesUp(c[3]) /\ StoresIf(c[1], c[2], c[4])

LEMMA SecondStage ==
  ASSUME NEW c, Len(c) = 2, NEW l, NEW w, c[1] = l, c[2] = w, Opens(l),
         Combines(l, w) \/ Swaps(l, w) \/ Checks(l, w)
  PROVE  Staged(c)
  BY DEF Staged
LEMMA ThirdStage ==
  ASSUME NEW c, Len(c) = 3, NEW l, NEW o, NEW w, c[1] = l, c[2] = o, c[3] = w, Opens(l),
         (Combines(l, o) /\ StoresNew(l, o, w)) \/ (Checks(l, o) /\ GivesUp(w))
  PROVE  Staged(c)
  BY DEF Staged
LEMMA FourthStage ==
  ASSUME NEW c, Len(c) = 4, NEW l, NEW o, NEW g, NEW w, c[1] = l, c[2] = o, c[3] = g, c[4] = w, Opens(l),
         Checks(l, o), GivesUp(g), StoresIf(l, o, w)
  PROVE  Staged(c)
  BY DEF Staged

\* What follows a loop's words is one of the next stage, or begins anew.
LEMMA MatchStages ==
  ASSUME lse \in Seq(Words), Staged(lse), NEW w \in Words, Match(w)
  PROVE  Staged(lse') /\ lse' \in {<<>>, <<w>>, Append(lse, w)}
<1>1. Staged(<<>>)
  BY DEF Staged
<1>2. ASSUME Opens(w) PROVE Staged(<<w>>)
  BY <1>2 DEF Staged
<1>3. ASSUME Advances(w) PROVE Staged(Append(lse, w))
  <2>. DEFINE c == Append(lse, w)
  <2>. SUFFICES Staged(c)
    OBVIOUS
  <2>0. PICK n \in 0 .. 4 : n = Len(lse)
    BY DEF Staged
  <2>1. Len(c) = n + 1 /\ (\A i \in 1 .. n : c[i] = lse[i]) /\ c[n + 1] = w
    BY <2>0, AppendProperties
  <2>. HIDE DEF c
  <2>2. CASE n = 1 /\ (Combines(lse[1], w) \/ Swaps(lse[1], w) \/ Checks(lse[1], w))
    <3>1. Len(c) = 2 /\ c[1] = lse[1] /\ c[2] = w /\ Opens(lse[1])
      BY <2>0, <2>1, <2>2 DEF Staged
    <3>. QED
      BY <2>2, <3>1, SecondStage
  <2>3. CASE n = 2 /\ ((Combines(lse[1], lse[2]) /\ StoresNew(lse[1], lse[2], w)) \/ (Checks(lse[1], lse[2]) /\ GivesUp(w)))
    <3>1. Len(c) = 3 /\ c[1] = lse[1] /\ c[2] = lse[2] /\ c[3] = w /\ Opens(lse[1])
      BY <2>0, <2>1, <2>3 DEF Staged
    <3>. QED
      BY <2>3, <3>1, ThirdStage
  <2>4. CASE n = 3 /\ lse[3].op = "bcond" /\ StoresIf(lse[1], lse[2], w)
    <3>1. Len(c) = 4 /\ c[1] = lse[1] /\ c[2] = lse[2] /\ c[3] = lse[3] /\ c[4] = w /\ Opens(lse[1])
      BY <2>0, <2>1, <2>4 DEF Staged
    <3>2. ~StoresNew(lse[1], lse[2], lse[3])
      BY <2>4 DEF StoresNew, StoresTo
    <3>3. Checks(lse[1], lse[2]) /\ GivesUp(lse[3])
      BY <2>0, <2>4, <3>2 DEF Staged
    <3>. QED
      BY <2>4, <3>1, <3>3, FourthStage
  <2>. QED
    <3>1. \/ Len(lse) = 1 /\ (Combines(lse[1], w) \/ Swaps(lse[1], w) \/ Checks(lse[1], w))
          \/ Len(lse) = 2 /\ Combines(lse[1], lse[2]) /\ StoresNew(lse[1], lse[2], w)
          \/ Len(lse) = 2 /\ Checks(lse[1], lse[2]) /\ GivesUp(w)
          \/ Len(lse) = 3 /\ lse[3].op = "bcond" /\ StoresIf(lse[1], lse[2], w)
      BY <1>3, Zenon DEF Advances
    <3>. QED
      BY <2>0, <2>2, <2>3, <2>4, <3>1
<1>. QED
  BY <1>1, <1>2, <1>3 DEF Match

\* A whole loop, and what it is replaced with.
LEMMA LoopCompleted ==
  ASSUME lse \in Seq(Words), Staged(lse), \A i \in 1 .. Len(lse) : Proper(lse[i]), NEW w, Proper(w), Completes(w),
         NEW c, c = Append(lse, w)
  PROVE  /\ Len(c) = Len(lse) + 1 /\ Len(lse) \in 2 .. 4 /\ Loop(c)
         /\ RewriteOf(c) = LoopRewrite /\ ScratchOf(c) = Scratch
<1>0. PICK n \in 0 .. 4 : n = Len(lse)
  BY DEF Staged
<1>1. w \in Words
  BY DEF Proper
<1>2. Len(c) = n + 1 /\ (\A i \in 1 .. n : c[i] = lse[i]) /\ c[n + 1] = w
  BY <1>0, <1>1, AppendProperties
<1>3. n \in 2 .. 4 /\ Last(lse) = lse[n] /\ lse[n].op = "stxr" /\ w.op = "cbnz" /\ w.n = lse[n].d /\ w.k = -n
  BY <1>0 DEF Completes, Retries, Last
<1>4. c[n] = lse[n] /\ c[1] = lse[1] /\ c[2] = lse[2] /\ Opens(c[1])
  BY <1>0, <1>2, <1>3 DEF Staged
<1>5. StoreOf(c) = lse[n]
  <2>1. Len(c) - 1 = n
    BY <1>2
  <2>. QED
    BY <1>4, <2>1 DEF StoreOf
<1>6. \A i \in 1 .. n + 1 : Proper(c[i])
  <2>1. \A i \in 1 .. n + 1 : i \in 1 .. n \/ i = n + 1
    OBVIOUS
  <2>. QED
    BY <1>0, <1>2, <2>1
<1>7. c[n + 1].op = "cbnz" /\ c[n + 1].n = StoreOf(c).d /\ c[n + 1].k = 1 - (n + 1)
  BY <1>2, <1>3, <1>5
<1>8. CASE n = 2
  <2>1. ~Combines(lse[1], lse[2]) /\ ~Checks(lse[1], lse[2])
    BY <1>3, <1>8, CombinesOps DEF Checks
  <2>2. SwapLoop(c)
    BY <1>0, <1>2, <1>4, <1>8, <2>1 DEF Staged, SwapLoop
  <2>3. RewriteOf(c) = LoopRewrite /\ ScratchOf(c) = Scratch
    BY <1>0, <1>2, <1>3, <1>4, <1>5, <1>8 DEF RewriteOf, LoopRewrite, ScratchOf, Scratch
  <2>. QED
    BY <1>0, <1>2, <1>4, <1>6, <1>7, <1>8, <2>2, <2>3 DEF Loop
<1>9. CASE n = 3
  <2>1. ~GivesUp(lse[3])
    BY <1>3, <1>9 DEF GivesUp
  <2>2. FetchLoop(c)
    BY <1>0, <1>2, <1>4, <1>9, <2>1 DEF Staged, FetchLoop
  <2>3. RewriteOf(c) = LoopRewrite /\ ScratchOf(c) = Scratch
    BY <1>0, <1>2, <1>3, <1>4, <1>5, <1>9 DEF RewriteOf, LoopRewrite, ScratchOf, Scratch
  <2>. QED
    BY <1>0, <1>2, <1>4, <1>6, <1>7, <1>9, <2>2, <2>3 DEF Loop
<1>10. CASE n = 4
  <2>1. c[3] = lse[3]
    BY <1>2, <1>10
  <2>2. CasLoop(c)
    BY <1>0, <1>2, <1>4, <1>10, <2>1 DEF Staged, CasLoop
  <2>3. RewriteOf(c) = LoopRewrite /\ ScratchOf(c) = Scratch
    BY <1>0, <1>2, <1>3, <1>4, <1>5, <1>10 DEF RewriteOf, LoopRewrite, ScratchOf, Scratch
  <2>. QED
    BY <1>0, <1>2, <1>4, <1>6, <1>7, <1>10, <2>2, <2>3 DEF Loop
<1>. QED
  BY <1>3, <1>8, <1>9, <1>10

-----------------------------------------------------------------------------
(* While the buffer is read: the words matched so far are a loop's first,  *)
(* and the finding that waits is of a loop of which the words read since   *)
(* overwrite all but the registers watched.                                *)

BufferRead ==
  /\ family \in DOMAIN Families /\ buf \in Seq(Words) /\ Len(buf) <= Len(Families[family])
  /\ \A i \in 1 .. Len(buf) : buf[i] \in Families[family][i]
LoopMatched ==
  /\ lse \in Seq(Words) /\ Len(lse) <= Len(buf) /\ Staged(lse)
  /\ \A i \in 1 .. Len(lse) : lse[i] = buf[Len(buf) - Len(lse) + i]
FindingFields == {"first", "words", "rewrite", "watch", "left"}
PendingFollows ==
  /\ \A p, q \in pending : p = q
  /\ \A p \in pending : DOMAIN p = FindingFields /\ p.watch # {} /\ Follows(buf, p, p.watch)
GivenFollows ==
  /\ \A f, g \in given : f = g
  /\ \A f \in given : Follows(buf, f, {})
ReadingInv == BufferRead /\ LoopMatched /\ PendingFollows /\ GivenFollows

\* The word read next.
NextWord(w) == Len(buf) < Len(Families[family]) /\ w \in Families[family][Len(buf) + 1]

LEMMA BufferGrows ==
  ASSUME BufferRead, NEW w, NextWord(w), buf' = Append(buf, w), family' = family
  PROVE  BufferRead' /\ Proper(w) /\ \A i \in 1 .. Len(buf) : Proper(buf[i])
<1>0. PICK n \in Nat : n = Len(buf)
  BY DEF BufferRead
<1>1. Families[family] \in Seq(SUBSET Words) /\ Len(Families[family]) \in Nat
  BY LseAssumption DEF BufferRead
<1>2. Proper(w) /\ w \in Words
  <2>1. n + 1 \in 1 .. Len(Families[family]) /\ w \in Families[family][n + 1] /\ family \in DOMAIN Families
    BY <1>0, <1>1 DEF NextWord, BufferRead
  <2>2. Proper(w)
    BY <2>1, ProperWord
  <2>. QED
    BY <2>2 DEF Proper
<1>3. \A i \in 1 .. n : Proper(buf[i])
  <2>1. \A i \in 1 .. n : i \in 1 .. Len(Families[family])
    BY <1>0, <1>1 DEF BufferRead
  <2>. QED
    BY <1>0, <2>1, ProperWord DEF BufferRead
<1>4. /\ buf' \in Seq(Words) /\ Len(buf') = n + 1 /\ buf'[n + 1] = w
      /\ \A i \in 1 .. n : buf'[i] = buf[i]
  BY <1>0, <1>2, AppendProperties DEF BufferRead
<1>5. \A i \in 1 .. n + 1 : buf'[i] \in Families[family][i]
  <2>1. \A i \in 1 .. n + 1 : i \in 1 .. n \/ i = n + 1
    OBVIOUS
  <2>. QED
    BY <1>0, <1>4, <2>1 DEF BufferRead, NextWord
<1>6. Len(buf') <= Len(Families[family])
  BY <1>0, <1>1, <1>4 DEF NextWord
<1>7. family' \in DOMAIN Families
  BY DEF BufferRead
<1>. QED
  BY <1>0, <1>2, <1>3, <1>4, <1>5, <1>6, <1>7 DEF BufferRead

\* The words after a loop access no memory.
LEMMA QuietAfterLoop ==
  ASSUME BufferRead, NEW w, NextWord(w), NEW p, NEW R, Follows(buf, p, R)
  PROVE  w.op \notin Exclusive
<1>. DEFINE c == SubSeq(buf, p.first, p.first + p.words - 1)
<1>1. /\ p.first \in Nat \ {0} /\ p.words \in 3 .. 5 /\ p.first + p.words - 1 <= Len(buf)
      /\ Loop(c) /\ Len(c) = p.words
  BY DEF Follows
<1>2. PICK i \in Nat \ {0} : i = p.first + p.words - 1
  BY <1>1
<1>3. Len(buf) \in Nat /\ Len(Families[family]) \in Nat /\ DOMAIN Families[family] = 1 .. Len(Families[family])
  BY LseAssumption DEF BufferRead
<1>4. i \in 1 .. Len(buf) /\ i \in DOMAIN Families[family] /\ Len(buf) + 1 \in DOMAIN Families[family] /\ i < Len(buf) + 1
  BY <1>1, <1>2, <1>3 DEF NextWord
<1>5. buf[i].op = "cbnz" /\ buf[i] \in Families[family][i]
  <2>1. \A k \in p.first .. i : buf[k] \in Words
    <3>1. \A k \in p.first .. i : k \in 1 .. Len(buf)
      BY <1>1, <1>4
    <3>. QED
      BY <3>1 DEF BufferRead
  <2>2. c[i - p.first + 1] = buf[p.first + (i - p.first + 1) - 1]
    <3>1. p.first \in Int /\ i \in Int
      BY <1>1, <1>2
    <3>2. \A k \in 1 .. i - p.first + 1 : SubSeq(buf, p.first, i)[k] = buf[p.first + k - 1]
      BY <2>1, <3>1, SubSeqProperties
    <3>3. i - p.first + 1 \in 1 .. i - p.first + 1
      BY <1>1, <1>2
    <3>. QED
      BY <1>2, <3>2, <3>3
  <2>3. i - p.first + 1 = p.words /\ p.first + (i - p.first + 1) - 1 = i
    BY <1>1, <1>2
  <2>4. c[Len(c)].op = "cbnz"
    BY <1>1 DEF Loop
  <2>. QED
    BY <1>1, <1>4, <2>2, <2>3, <2>4 DEF BufferRead
<1>. QED
  BY <1>4, <1>5, QuietAssumption DEF BufferRead, NextWord

\* A word after which the registers watched are not known to be read.
LEMMA NotAlive ==
  ASSUME NEW w, Proper(w), w.op \notin Exclusive, NEW p, p.watch # {}, ~Alive(p, w)
  PROVE  w.op \in Straight /\ (\A r \in p.watch : ~ReadsReg(w, r)) /\ StillWatched(p, w) = p.watch \ {w.d}
<1>1. \A r \in p.watch : Grade(w, r) \notin {"READ", "TERM"}
  BY DEF Alive
<1>2. w.op \notin Conditionals \cup Terminal
  BY <1>1, Zenon DEF Grade
<1>3. w.op \in Straight
  BY <1>2 DEF Proper, Words
<1>4. \A r \in p.watch : ~ReadsReg(w, r)
  BY <1>1, <1>2 DEF Grade
<1>5. \A r \in p.watch : Grade(w, r) = IF r = w.d THEN "OVERWRITE" ELSE "UNKNOWN"
  BY <1>2, <1>4 DEF Grade, WritesReg
<1>. QED
  BY <1>3, <1>4, <1>5 DEF StillWatched

LEMMA PartOfWords ==
  ASSUME NEW s, NEW a \in Int, NEW b \in Int, a <= b, \A i \in a .. b : s[i] \in Words
  PROVE  /\ SubSeq(s, a, b) \in Seq(Words) /\ Len(SubSeq(s, a, b)) = b - a + 1
         /\ \A i \in 1 .. b - a + 1 : SubSeq(s, a, b)[i] = s[a + i - 1]
  BY SubSeqProperties

LEMMA MatchReads ==
  ASSUME BufferRead, LoopMatched, NEW w, NextWord(w), buf' = Append(buf, w), family' = family, Match(w)
  PROVE  LoopMatched'
<1>0. PICK n \in Nat, k \in 0 .. 4 : n = Len(buf) /\ k = Len(lse) /\ k <= n
  BY DEF BufferRead, LoopMatched, Staged
<1>1. w \in Words
  BY BufferGrows DEF Proper
<1>2. Len(buf') = n + 1 /\ buf'[n + 1] = w /\ \A i \in 1 .. n : buf'[i] = buf[i]
  BY <1>0, <1>1, AppendProperties DEF BufferRead
<1>3. Staged(lse') /\ lse' \in {<<>>, <<w>>, Append(lse, w)}
  BY <1>1, MatchStages DEF LoopMatched
<1>4. CASE lse' = <<>>
  <2>1. lse' \in Seq(Words) /\ Len(lse') = 0
    BY <1>4
  <2>. QED
    BY <1>2, <1>3, <2>1 DEF LoopMatched
<1>5. CASE lse' = <<w>>
  <2>1. lse' \in Seq(Words) /\ Len(lse') = 1 /\ lse'[1] = w
    BY <1>1, <1>5
  <2>2. Len(buf') - Len(lse') + 1 = n + 1 /\ Len(lse') <= Len(buf')
    BY <1>2, <2>1
  <2>. QED
    BY <1>2, <1>3, <2>1, <2>2 DEF LoopMatched
<1>6. CASE lse' = Append(lse, w)
  <2>1. /\ lse' \in Seq(Words) /\ Len(lse') = k + 1 /\ lse'[k + 1] = w
        /\ \A i \in 1 .. k : lse'[i] = lse[i]
    BY <1>0, <1>1, <1>6, AppendProperties DEF LoopMatched
  <2>2. ASSUME NEW i \in 1 .. k + 1 PROVE lse'[i] = buf'[(n + 1) - (k + 1) + i]
    <3>1. CASE i = k + 1
      <4>1. (n + 1) - (k + 1) + i = n + 1
        BY <3>1
      <4>. QED
        BY <1>2, <2>1, <3>1, <4>1
    <3>2. CASE i \in 1 .. k
      <4>1. (n + 1) - (k + 1) + i = n - k + i /\ n - k + i \in 1 .. n
        BY <1>0, <3>2
      <4>2. lse[i] = buf[n - k + i]
        BY <1>0, <3>2 DEF LoopMatched
      <4>. QED
        BY <1>2, <2>1, <3>2, <4>1, <4>2
    <3>3. i = k + 1 \/ i \in 1 .. k
      OBVIOUS
    <3>. QED
      BY <3>1, <3>2, <3>3
  <2>3. Len(lse') <= Len(buf')
    BY <1>0, <1>2, <2>1
  <2>. QED
    BY <1>2, <1>3, <2>1, <2>2, <2>3 DEF LoopMatched
<1>. QED
  BY <1>3, <1>4, <1>5, <1>6

\* The finding of a loop just completed.
LEMMA DeferredFollows ==
  ASSUME BufferRead, LoopMatched, NEW w, NextWord(w), buf' = Append(buf, w), family' = family, Completes(w),
         NEW p \in Deferred
  PROVE  DOMAIN p = FindingFields /\ p.watch # {} /\ Follows(buf', p, p.watch)
<1>0. PICK n \in Nat, k \in 0 .. 4 : n = Len(buf) /\ k = Len(lse) /\ k <= n
  BY DEF BufferRead, LoopMatched, Staged
<1>1. Proper(w) /\ w \in Words /\ (\A i \in 1 .. n : Proper(buf[i])) /\ BufferRead'
  BY <1>0, BufferGrows DEF Proper
<1>2. Len(buf') = n + 1 /\ buf'[n + 1] = w /\ \A i \in 1 .. n : buf'[i] = buf[i]
  BY <1>0, <1>1, AppendProperties DEF BufferRead
<1>3. \A i \in 1 .. k : Proper(lse[i]) /\ lse[i] = buf[n - k + i] /\ n - k + i \in 1 .. n
  <2>1. \A i \in 1 .. k : n - k + i \in 1 .. n
    BY <1>0
  <2>. QED
    BY <1>0, <1>1, <2>1 DEF LoopMatched
<1>. DEFINE c == Append(lse, w)
<1>4. /\ Len(c) = k + 1 /\ k \in 2 .. 4 /\ Loop(c) /\ RewriteOf(c) = LoopRewrite /\ ScratchOf(c) = Scratch
  <2>1. \A i \in 1 .. Len(lse) : Proper(lse[i])
    BY <1>0, <1>3
  <2>. QED
    BY <1>0, <1>1, <2>1, LoopCompleted DEF LoopMatched
<1>5. p = [first |-> n + 1 - k, words |-> k + 1, rewrite |-> LoopRewrite, watch |-> Scratch, left |-> Window]
  BY <1>0 DEF Deferred
<1>6. /\ DOMAIN p = FindingFields /\ p.first = n + 1 - k /\ p.words = k + 1
      /\ p.rewrite = RewriteOf(c) /\ p.watch = ScratchOf(c)
  BY <1>4, <1>5 DEF FindingFields
<1>7. p.watch # {}
  BY <1>4, <1>6, LoopWords
<1>8. /\ p.first \in Nat \ {0} /\ p.words \in 3 .. 5 /\ p.first + p.words - 1 = n + 1
      /\ p.first + p.words = n + 2 /\ p.first + p.words - 1 <= Len(buf')
  <2>1. k \in 2 .. 4 /\ p.first = n + 1 - k /\ p.words = k + 1
    BY <1>4, <1>6
  <2>2. /\ n + 1 - k \in Nat \ {0} /\ k + 1 \in 3 .. 5
        /\ (n + 1 - k) + (k + 1) - 1 = n + 1 /\ (n + 1 - k) + (k + 1) = n + 2
    <3>1. k \in 2 .. 4 /\ k <= n
      BY <1>0, <2>1
    <3>. QED
      BY <3>1
  <2>3. p.first \in Nat \ {0} /\ p.words \in 3 .. 5 /\ p.first + p.words - 1 = n + 1 /\ p.first + p.words = n + 2
    BY <2>1, <2>2
  <2>. QED
    BY <1>2, <2>3
<1>9. SubSeq(buf', p.first, n + 1) = c
  <2>. DEFINE q == SubSeq(buf', p.first, n + 1)
              a == p.first
  <2>1. \A i \in a .. n + 1 : buf'[i] \in Words
    BY <1>1, <1>2, <1>8 DEF BufferRead
  <2>2. a \in Int /\ n + 1 \in Int /\ a <= n + 1 /\ (n + 1) - a + 1 = k + 1
    BY <1>0, <1>4, <1>6
  <2>3. q \in Seq(Words) /\ Len(q) = (n + 1) - a + 1 /\ \A i \in 1 .. (n + 1) - a + 1 : q[i] = buf'[a + i - 1]
    BY <2>1, <2>2, PartOfWords
  <2>4. c \in Seq(Words) /\ (\A i \in 1 .. k : c[i] = lse[i]) /\ c[k + 1] = w
    BY <1>0, <1>1, AppendProperties DEF LoopMatched
  <2>. HIDE DEF q, c, a
  <2>5. ASSUME NEW i \in 1 .. k + 1 PROVE q[i] = c[i]
    <3>1. q[i] = buf'[a + i - 1]
      BY <2>2, <2>3
    <3>2. CASE i = k + 1
      <4>1. a + i - 1 = n + 1
        BY <2>2, <3>2
      <4>. QED
        BY <1>2, <2>4, <3>1, <3>2, <4>1
    <3>3. CASE i \in 1 .. k
      <4>1. a + i - 1 = n - k + i
        BY SMTT(30), <1>0, <2>2, <3>3
      <4>. QED
        BY <1>2, <1>3, <2>4, <3>1, <3>3, <4>1
    <3>4. i = k + 1 \/ i \in 1 .. k
      OBVIOUS
    <3>. QED
      BY <3>2, <3>3, <3>4
  <2>6. q = c
    BY <1>4, <2>2, <2>3, <2>4, <2>5, SeqEqual
  <2>. QED
    BY <2>6 DEF q, a
<1>. HIDE DEF c
<1>10. SubSeq(buf', n + 2, n + 1) = <<>>
  BY SubSeqEmpty
<1>11. Follows(buf', p, p.watch)
  <2>1. Erases(ScratchOf(c), <<>>, ScratchOf(c))
    BY NothingErased
  <2>2. <<>> \in Seq(Words) /\ \A i \in 1 .. Len(<<>>) : <<>>[i].op \in Straight
    OBVIOUS
  <2>. QED
    BY <1>2, <1>4, <1>6, <1>8, <1>9, <1>10, <2>1, <2>2 DEF Follows
<1>. QED
  BY <1>6, <1>7, <1>11

\* What becomes of the finding that waits, at a word that leaves it waiting.
LEMMA StillFollows ==
  ASSUME BufferRead, PendingFollows, NEW w, NextWord(w), buf' = Append(buf, w), family' = family,
         NEW p \in pending, ~Alive(p, w)
  PROVE  Follows(buf', p, StillWatched(p, w))
<1>1. Proper(w) /\ w \in Words
  BY BufferGrows DEF Proper
<1>2. p.watch # {} /\ Follows(buf, p, p.watch)
  BY DEF PendingFollows
<1>3. w.op \notin Exclusive
  BY <1>2, QuietAfterLoop
<1>4. w.op \in Straight /\ (\A r \in p.watch : ~ReadsReg(w, r)) /\ StillWatched(p, w) = p.watch \ {w.d}
  BY <1>1, <1>2, <1>3, NotAlive
<1>5. w.op \in {"msr", "nop"} => w.d = R31
  BY <1>1 DEF Proper
<1>6. buf \in Seq(Words)
  BY DEF BufferRead
<1>7. Follows(Append(buf, w), p, p.watch \ {w.d})
  BY <1>1, <1>2, <1>4, <1>5, <1>6, FollowsMore
<1>. QED
  BY <1>4, <1>7

LEMMA ProvenFollows ==
  ASSUME BufferRead, PendingFollows, NEW w, NextWord(w), buf' = Append(buf, w), family' = family, given' = Proven(w)
  PROVE  GivenFollows'
<1>1. \A f, g \in Proven(w) : f = g
  BY DEF Proven, PendingFollows
<1>2. ASSUME NEW f \in Proven(w) PROVE Follows(buf', f, {})
  <2>1. f \in pending /\ ~Alive(f, w) /\ StillWatched(f, w) = {}
    BY DEF Proven
  <2>2. Follows(buf', f, StillWatched(f, w))
    BY <2>1, StillFollows
  <2>. QED
    BY <2>1, <2>2
<1>. QED
  BY <1>1, <1>2 DEF GivenFollows

LEMMA WaitingFollows ==
  ASSUME BufferRead, PendingFollows, NEW w, NextWord(w), buf' = Append(buf, w), family' = family,
         pending' = Waiting(w)
  PROVE  PendingFollows'
<1>. DEFINE On(p) == [p EXCEPT !.watch = StillWatched(p, w), !.left = p.left - 1]
<1>1. \A q \in Waiting(w) : \E p \in pending : ~Alive(p, w) /\ StillWatched(p, w) # {} /\ q = On(p)
  BY DEF Waiting
<1>2. \A p, q \in pending : p = q
  BY DEF PendingFollows
<1>3. ASSUME NEW q \in Waiting(w)
      PROVE  DOMAIN q = FindingFields /\ q.watch # {} /\ Follows(buf', q, q.watch)
  <2>1. PICK p \in pending : ~Alive(p, w) /\ StillWatched(p, w) # {} /\ q = On(p)
    BY <1>1
  <2>2. DOMAIN p = FindingFields
    BY DEF PendingFollows
  <2>3. /\ DOMAIN q = FindingFields /\ q.watch = StillWatched(p, w)
        /\ q.first = p.first /\ q.words = p.words /\ q.rewrite = p.rewrite
    BY <2>1, <2>2 DEF FindingFields
  <2>4. Follows(buf', p, StillWatched(p, w))
    BY <2>1, StillFollows
  <2>. QED
    BY <2>1, <2>3, <2>4 DEF Follows
<1>. HIDE DEF On
<1>4. \A p, q \in Waiting(w) : p = q
  BY <1>1, <1>2
<1>. QED
  BY <1>3, <1>4 DEF PendingFollows

LEMMA InstructionReads == ASSUME ReadingInv, Instruction PROVE ReadingInv'
<1>1. PICK w \in Families[family][Len(buf) + 1] \ {Plain("data")} :
        /\ buf' = Append(buf, w) /\ given' = Proven(w) /\ Match(w)
        /\ pending' = IF Completes(w) THEN Deferred ELSE Waiting(w)
  BY Zenon DEF Instruction
<1>2. NextWord(w) /\ family' = family
  BY <1>1 DEF Instruction, NextWord
<1>3. BufferRead /\ LoopMatched /\ PendingFollows
  BY DEF ReadingInv
<1>4. BufferRead'
  BY <1>1, <1>2, <1>3, BufferGrows
<1>5. LoopMatched'
  BY <1>1, <1>2, <1>3, MatchReads
<1>6. GivenFollows'
  BY <1>1, <1>2, <1>3, ProvenFollows
<1>7. CASE Completes(w)
  <2>1. pending' = Deferred
    BY <1>1, <1>7
  <2>2. \A p \in Deferred : DOMAIN p = FindingFields /\ p.watch # {} /\ Follows(buf', p, p.watch)
    BY <1>1, <1>2, <1>3, <1>7, DeferredFollows
  <2>3. \A p, q \in Deferred : p = q
    BY DEF Deferred
  <2>. QED
    BY <1>4, <1>5, <1>6, <2>1, <2>2, <2>3 DEF ReadingInv, PendingFollows
<1>8. CASE ~Completes(w)
  <2>1. pending' = Waiting(w)
    BY <1>1, <1>8
  <2>2. PendingFollows'
    BY <1>1, <1>2, <1>3, <2>1, WaitingFollows
  <2>. QED
    BY <1>4, <1>5, <1>6, <2>2 DEF ReadingInv
<1>. QED
  BY <1>7, <1>8

LEMMA FlushReads == ASSUME ReadingInv, Flush PROVE ReadingInv'
<1>1. BufferRead /\ GivenFollows
  BY DEF ReadingInv
<1>2. NextWord(Plain("data")) /\ buf' = Append(buf, Plain("data")) /\ family' = family
  BY DEF Flush, NextWord
<1>3. BufferRead'
  <2>0. PICK w : w = Plain("data")
    OBVIOUS
  <2>1. NextWord(w) /\ buf' = Append(buf, w)
    BY <1>2, <2>0
  <2>. QED
    BY <1>1, <1>2, <2>1, BufferGrows
<1>4. LoopMatched'
  <2>1. lse' = <<>> /\ lse' \in Seq(Words) /\ Len(lse') = 0 /\ Len(buf') \in Nat
    BY <1>3 DEF Flush, BufferRead
  <2>. QED
    BY <2>1 DEF LoopMatched, Staged
<1>5. PendingFollows'
  BY DEF Flush, PendingFollows
<1>6. GivenFollows'
  <2>1. given' = {}
    BY DEF Flush
  <2>. QED
    BY <2>1 DEF GivenFollows
<1>. QED
  BY <1>3, <1>4, <1>5, <1>6 DEF ReadingInv

LEMMA OthersRead == ASSUME ReadingInv, UNCHANGED reading PROVE ReadingInv'
  BY DEF ReadingInv, reading, BufferRead, LoopMatched, PendingFollows, GivenFollows, Staged, Opens, Combines, Swaps,
         Checks, StoresNew, StoresIf, StoresTo, GivesUp, PlainOperand, Other

-----------------------------------------------------------------------------
(* The thread, and what it maps to.                                        *)

MemoryHolds == memory = [cell \in Cells |-> memory[cell]]
\* A thread that began with machine b is in the loop of finding f.
InLoop(b, t, f) == begun = {b} /\ thread = {t} /\ given = {f} /\ Running(b, t, LoopOf(f), memory, monitor)
ThreadHolds == (begun = {} /\ thread = {}) \/ \E b, t, f : InLoop(b, t, f)
LseInv == ReadingInv /\ MemoryHolds /\ ThreadHolds

\* What is known of the words of a finding given out.
Replaces(f, c, after) ==
  /\ Loop(c) /\ Len(c) = f.words /\ f.rewrite = RewriteOf(c)
  /\ after \in Seq(Words) /\ (\A i \in 1 .. Len(after) : after[i].op \in Straight)
  /\ Erases(ScratchOf(c), after, {})

LEMMA GivenReplaces ==
  ASSUME ReadingInv, NEW f \in given
  PROVE  Replaces(f, LoopOf(f), AfterOf(f)) /\ buf[f.first] = LoopOf(f)[1]
<1>1. Follows(buf, f, {}) /\ buf \in Seq(Words)
  BY DEF ReadingInv, GivenFollows, BufferRead
<1>2. Replaces(f, LoopOf(f), AfterOf(f))
  BY <1>1, Zenon DEF Follows, Replaces, LoopOf, AfterOf
<1>3. f.first \in Nat \ {0} /\ f.words \in 3 .. 5 /\ f.first + f.words - 1 <= Len(buf)
  BY <1>1 DEF Follows
<1>4. buf[f.first] = LoopOf(f)[1]
  <2>0. PICK a \in Int, e \in Int : a = f.first /\ e = f.first + f.words - 1
    BY <1>3
  <2>1. a <= e /\ 1 \in 1 .. e - a + 1 /\ a + 1 - 1 = a /\ \A i \in a .. e : i \in 1 .. Len(buf)
    BY <1>3, <2>0
  <2>2. \A i \in a .. e : buf[i] \in Words
    BY <1>1, <2>1
  <2>3. \A i \in 1 .. e - a + 1 : SubSeq(buf, a, e)[i] = buf[a + i - 1]
    BY <2>1, <2>2, PartOfWords
  <2>4. SubSeq(buf, a, e)[1] = buf[a]
    BY <2>1, <2>3
  <2>. QED
    BY <2>0, <2>4 DEF LoopOf
<1>. QED
  BY <1>2, <1>4

\* The state of AtomicUpdate.
LoopIn(words, f)  == SubSeq(words, f.first, f.first + f.words - 1)
AfterIn(words, f) == SubSeq(words, f.first + f.words, Len(words))
TaskOf(began, gave, words) ==
  {[machine |-> m, words |-> f.rewrite \o AfterIn(words, f)] : m \in began, f \in gave}
EffectOf(threads, gave, words) ==
  {Run(e[1], AfterIn(words, e[2])) :
     e \in {<<m, f>> : m \in UNION {Leaving(t, code) : t \in threads, code \in {LoopIn(words, f) : f \in gave}},
                       f \in gave}}

\* The machines of S after the words.
Answers(S, after) == {Run(m, after) : m \in S}

LEMMA NothingBegun ==
  ASSUME NEW gave, NEW words
  PROVE  TaskOf({}, gave, words) = {} /\ EffectOf({}, gave, words) = {}
  BY DEF TaskOf, EffectOf

LEMMA OneBegun ==
  ASSUME NEW b, NEW t, NEW f, NEW words
  PROVE  /\ TaskOf({b}, {f}, words) = {[machine |-> b, words |-> f.rewrite \o AfterIn(words, f)]}
         /\ EffectOf({t}, {f}, words) = Answers(Leaving(t, LoopIn(words, f)), AfterIn(words, f))
<1>1. {LoopIn(words, g) : g \in {f}} = {LoopIn(words, f)}
  OBVIOUS
<1>2. \A c : {Leaving(s, code) : s \in {t}, code \in {c}} = {Leaving(t, c)}
  OBVIOUS
<1>3. \A S : {<<m, g>> : m \in S, g \in {f}} = {<<m, f>> : m \in S}
  OBVIOUS
<1>4. ASSUME NEW S PROVE {Run(e[1], AfterIn(words, e[2])) : e \in {<<m, f>> : m \in S}} = Answers(S, AfterIn(words, f))
  <2>1. /\ \A e \in {<<m, f>> : m \in S} : e[1] \in S /\ e[2] = f
        /\ \A m \in S : <<m, f>> \in {<<u, f>> : u \in S} /\ <<m, f>>[1] = m /\ <<m, f>>[2] = f
    OBVIOUS
  <2>2. ASSUME NEW x \in {Run(e[1], AfterIn(words, e[2])) : e \in {<<m, f>> : m \in S}}
        PROVE  x \in Answers(S, AfterIn(words, f))
    <3>1. PICK e \in {<<m, f>> : m \in S} : x = Run(e[1], AfterIn(words, e[2]))
      OBVIOUS
    <3>. QED
      BY <2>1, <3>1 DEF Answers
  <2>3. ASSUME NEW x \in Answers(S, AfterIn(words, f))
        PROVE  x \in {Run(e[1], AfterIn(words, e[2])) : e \in {<<m, f>> : m \in S}}
    <3>1. PICK m \in S : x = Run(m, AfterIn(words, f))
      BY DEF Answers
    <3>2. PICK e : e = <<m, f>>
      OBVIOUS
    <3>3. e \in {<<u, f>> : u \in S} /\ x = Run(e[1], AfterIn(words, e[2]))
      BY <2>1, <3>1, <3>2
    <3>. QED
      BY <3>3
  <2>. QED
    BY <2>2, <2>3, Zenon
<1>5. \A S : UNION {S} = S
  OBVIOUS
<1>6. EffectOf({t}, {f}, words) = Answers(Leaving(t, LoopIn(words, f)), AfterIn(words, f))
  <2>1. UNION {Leaving(s, code) : s \in {t}, code \in {LoopIn(words, g) : g \in {f}}} = Leaving(t, LoopIn(words, f))
    BY <1>1, <1>2, <1>5
  <2>. QED
    BY <1>3, <1>4, <2>1 DEF EffectOf
<1>7. TaskOf({b}, {f}, words) = {[machine |-> b, words |-> f.rewrite \o AfterIn(words, f)]}
  <2>. DEFINE Begun(m, g) == [machine |-> m, words |-> g.rewrite \o AfterIn(words, g)]
  <2>1. TaskOf({b}, {f}, words) = {Begun(m, g) : m \in {b}, g \in {f}}
    BY DEF TaskOf
  <2>. HIDE DEF Begun
  <2>2. {Begun(m, g) : m \in {b}, g \in {f}} = {Begun(b, f)}
    OBVIOUS
  <2>3. TaskOf({b}, {f}, words) = {Begun(b, f)}
    BY <2>1, <2>2
  <2>. QED
    BY <2>3 DEF Begun
<1>. QED
  BY <1>6, <1>7

Underway   == TaskOf(begun, given, buf)
Achieved == EffectOf(thread, given, buf)

LEMMA LoopMapped ==
  ASSUME NEW b, NEW t, NEW f, begun = {b}, thread = {t}, given = {f}
  PROVE  /\ Underway = {[machine |-> b, words |-> f.rewrite \o AfterOf(f)]}
         /\ Achieved = Answers(Leaving(t, LoopOf(f)), AfterOf(f))
<1>1. Underway = TaskOf({b}, {f}, buf) /\ Achieved = EffectOf({t}, {f}, buf)
  BY DEF Underway, Achieved
<1>2. AfterOf(f) = AfterIn(buf, f) /\ LoopOf(f) = LoopIn(buf, f)
  BY DEF AfterOf, LoopOf, AfterIn, LoopIn
<1>. QED
  BY <1>1, <1>2, OneBegun

LEMMA ThreadMapped ==
  ASSUME NEW n, NEW f, thread' = {n}, given = {f}, UNCHANGED reading
  PROVE  Achieved' = Answers(Leaving(n, LoopOf(f)), AfterOf(f)) /\ (begun' = begun => Underway' = Underway)
<1>1. given' = {f} /\ buf' = buf
  BY DEF reading
<1>2. Achieved' = EffectOf({n}, {f}, buf)
  BY <1>1 DEF Achieved
<1>3. begun' = begun => Underway' = Underway
  BY <1>1 DEF Underway
<1>4. AfterOf(f) = AfterIn(buf, f) /\ LoopOf(f) = LoopIn(buf, f)
  BY DEF AfterOf, LoopOf, AfterIn, LoopIn
<1>. QED
  BY <1>2, <1>3, <1>4, OneBegun

LEMMA AnswersOfNone == ASSUME NEW after PROVE Answers({}, after) = {}
  BY DEF Answers
LEMMA AnswersOfOne == ASSUME NEW m, NEW after PROVE Answers({m}, after) = {Run(m, after)}
  BY DEF Answers

-----------------------------------------------------------------------------
(* Each step keeps the invariant and is a step of AtomicUpdate, or none.   *)

Promised == memory' = memory /\ Underway' = Underway /\ Achieved' = Achieved /\ answer' = answer
EffectTaken ==
  /\ Achieved = {} /\ Underway' = Underway /\ answer' = answer
  /\ \E t \in Underway :
       LET m == RunShared([t.machine EXCEPT !.mem = memory], t.words)
       IN  Achieved' = {Own(m)} /\ memory' = m.mem

LEMMA ReadingStep ==
  ASSUME LseInv, Instruction \/ Flush
  PROVE  LseInv' /\ Promised
<1>1. given = {} /\ UNCHANGED <<family, begun, thread, memory, monitor, answer>>
  BY DEF Instruction, Flush
<1>2. begun = {} /\ thread = {}
  BY <1>1 DEF LseInv, ThreadHolds, InLoop
<1>3. ReadingInv'
  BY InstructionReads, FlushReads DEF LseInv
<1>4. MemoryHolds' /\ ThreadHolds'
  BY <1>1, <1>2 DEF LseInv, MemoryHolds, ThreadHolds
<1>5. Underway' = Underway /\ Achieved' = Achieved
  <2>1. Underway = {} /\ Achieved = {}
    BY <1>2, NothingBegun DEF Underway, Achieved
  <2>2. Underway' = {} /\ Achieved' = {}
    <3>1. begun' = {} /\ thread' = {}
      BY <1>1, <1>2
    <3>. QED
      BY <3>1, NothingBegun DEF Underway, Achieved
  <2>. QED
    BY <2>1, <2>2
<1>. QED
  BY <1>1, <1>3, <1>4, <1>5 DEF LseInv, Promised

\* A thread in the loop c of the finding f, and the words after it.
LEMMA ThreadIs ==
  ASSUME LseInv, thread # {}
  PROVE  \E b, t, f, c, after :
           /\ begun = {b} /\ thread = {t} /\ given = {f} /\ Code = {c} /\ c = LoopOf(f) /\ after = AfterOf(f)
           /\ Replaces(f, c, after) /\ Running(b, t, c, memory, monitor)
           /\ Underway = {[machine |-> b, words |-> RewriteOf(c) \o after]}
           /\ Achieved = Answers(Leaving(t, c), after)
<1>1. PICK b, t, f : InLoop(b, t, f)
  BY DEF LseInv, ThreadHolds
<1>2. begun = {b} /\ thread = {t} /\ given = {f} /\ Running(b, t, LoopOf(f), memory, monitor)
  BY <1>1 DEF InLoop
<1>3. Replaces(f, LoopOf(f), AfterOf(f))
  BY <1>2, GivenReplaces DEF LseInv
<1>4. Code = {LoopOf(f)}
  BY <1>2 DEF Code
<1>5. f.rewrite = RewriteOf(LoopOf(f))
  BY <1>3 DEF Replaces
<1>6. /\ Underway = {[machine |-> b, words |-> RewriteOf(LoopOf(f)) \o AfterOf(f)]}
      /\ Achieved = Answers(Leaving(t, LoopOf(f)), AfterOf(f))
  BY <1>2, <1>5, LoopMapped
<1>. QED
  BY <1>2, <1>3, <1>4, <1>6

\* The thread goes on in its loop.
LEMMA GoesOn ==
  ASSUME LseInv, UNCHANGED <<reading, begun>>, MemoryHolds', NEW b, NEW n, NEW f, begun = {b}, given = {f}, thread' = {n},
         Running(b, n, LoopOf(f), memory', monitor')
  PROVE  LseInv' /\ Underway' = Underway /\ Achieved' = Answers(Leaving(n, LoopOf(f)), AfterOf(f))
<1>1. ReadingInv'
  BY OthersRead DEF LseInv
<1>2. begun' = {b} /\ given' = {f} /\ LoopOf(f)' = LoopOf(f)
  BY DEF reading, LoopOf
<1>3. ThreadHolds'
  BY <1>2 DEF ThreadHolds, InLoop
<1>. QED
  BY <1>1, <1>3, ThreadMapped DEF LseInv

LEMMA MachineIsWhole == ASSUME NEW m \in Machines PROVE Whole(m) /\ m.mem = {}
  BY LseAssumption DEF MachineStates, Whole, Shaped, Fields

LEMMA BeginStep ==
  ASSUME LseInv, Begin
  PROVE  /\ LseInv' /\ UNCHANGED <<memory, answer>> /\ Achieved' = Achieved
         /\ Underway = {} /\ answer = {} /\ \E x : Underway' = {x}
<1>1. begun = {} /\ answer = {} /\ UNCHANGED <<reading, memory, monitor, answer>>
  BY DEF Begin
<1>2. thread = {}
  BY <1>1 DEF LseInv, ThreadHolds, InLoop
<1>0. PICK f \in given, m \in Machines :
        /\ begun' = {[m EXCEPT !.x[buf[f.first].n] = Here]}
        /\ thread' = {[m |-> [m EXCEPT !.x[buf[f.first].n] = Here], at |-> 1]}
  BY Zenon DEF Begin
<1>3. PICK s : /\ s = [m EXCEPT !.x[buf[f.first].n] = Here]
               /\ begun' = {s} /\ thread' = {[m |-> s, at |-> 1]}
  BY <1>0
<1>. DEFINE c == LoopOf(f)
            t == [m |-> s, at |-> 1]
<1>4. Replaces(f, c, AfterOf(f)) /\ buf[f.first] = c[1]
  BY GivenReplaces DEF LseInv
<1>5. given = {f}
  BY DEF LseInv, ReadingInv, GivenFollows
<1>6. Loop(c) /\ c[1].n \in Gprs
  BY <1>4, LoopWords DEF Replaces
<1>7. Whole(s) /\ s.mem = {} /\ s.x[c[1].n] = Here
  <2>0. PICK d : d = c[1].n
    OBVIOUS
  <2>1. Whole(m) /\ m.mem = {}
    BY MachineIsWhole
  <2>2. s = [m EXCEPT !.x[d] = Here] /\ d \in Gprs
    BY <1>3, <1>4, <1>6, <2>0
  <2>3. Becomes(m, d, Here, s)
    BY <2>1, <2>2, RegisterSet, Zenon
  <2>. QED
    BY <2>0, <2>1, <2>2, <2>3 DEF Becomes
<1>8. t.m = s /\ t.at = 1
  OBVIOUS
<1>. HIDE DEF c, t
<1>9. Len(c) \in 3 .. 5
  BY <1>6 DEF Loop
<1>10. Running(s, t, c, memory, monitor)
  <2>1. Framed(s, t.m, c)
    BY <1>7, <1>8 DEF Framed, Kept
  <2>2. t.at \in 1 .. Len(c) + 1 /\ t.at \notin 2 .. Len(c) - 1
    BY <1>8, <1>9
  <2>. QED
    BY <2>1, <2>2 DEF Running, Holding
<1>11. Leaving(t, c) = {}
  <2>1. t.at \in 1 .. Len(c) + 1
    BY <1>8, <1>9
  <2>. QED
    BY <1>6, <1>8, <2>1, WhereItLeaves
<1>12. ReadingInv' /\ MemoryHolds'
  <2>1. UNCHANGED reading
    BY <1>1 DEF reading
  <2>. QED
    BY <1>1, <2>1, OthersRead DEF LseInv, MemoryHolds
<1>13. ThreadHolds'
  <2>1. given' = {f} /\ LoopOf(f)' = c /\ memory' = memory /\ monitor' = monitor /\ begun' = {s} /\ thread' = {t}
    BY <1>1, <1>3, <1>5 DEF reading, LoopOf, c, t
  <2>. QED
    BY <1>10, <2>1 DEF ThreadHolds, InLoop
<1>14. Achieved = {} /\ Underway = {}
  BY <1>1, <1>2, NothingBegun DEF Achieved, Underway
<1>15. Achieved' = {}
  <2>1. thread' = {t} /\ UNCHANGED reading
    BY <1>1, <1>3 DEF reading, t
  <2>2. Achieved' = Answers(Leaving(t, LoopOf(f)), AfterOf(f))
    BY <1>5, <2>1, ThreadMapped
  <2>. QED
    BY <1>11, <2>2, AnswersOfNone DEF c
<1>16. \E x : Underway' = {x}
  <2>1. Underway' = TaskOf({s}, {f}, buf')
    BY <1>1, <1>3, <1>5 DEF Underway, reading
  <2>2. PICK words : words = buf'
    OBVIOUS
  <2>3. TaskOf({s}, {f}, words) = {[machine |-> s, words |-> f.rewrite \o AfterIn(words, f)]}
    BY OneBegun
  <2>. QED
    BY <2>1, <2>2, <2>3
<1>. QED
  BY <1>1, <1>12, <1>13, <1>14, <1>15, <1>16 DEF LseInv

LEMMA ComputeStep ==
  ASSUME LseInv, Step
  PROVE  LseInv' /\ Promised
<1>1. UNCHANGED <<reading, begun, memory, monitor, answer>> /\ thread # {}
  BY DEF Step
<1>2. PICK b, t, f, c, after :
        /\ begun = {b} /\ thread = {t} /\ given = {f} /\ Code = {c} /\ c = LoopOf(f) /\ after = AfterOf(f)
        /\ Replaces(f, c, after) /\ Running(b, t, c, memory, monitor)
        /\ Achieved = Answers(Leaving(t, c), after)
  BY <1>1, ThreadIs
<1>3. /\ t.at <= Len(c) /\ c[t.at].op \notin Exclusive
      /\ IF c[t.at].op \in Conditionals /\ Takes(t.m, c[t.at]) THEN Goes(t, t.m, c[t.at].k)
         ELSE Goes(t, Exec(t.m, c[t.at]), 1)
  BY <1>2 DEF Step
<1>4. PICK n : n = IF c[t.at].op \in Conditionals /\ Takes(t.m, c[t.at]) THEN Further(t, t.m, c[t.at].k)
                   ELSE Further(t, Exec(t.m, c[t.at]), 1)
  OBVIOUS
<1>5. thread' = {n}
  BY <1>3, <1>4 DEF Goes, Further
<1>6. Loop(c)
  BY <1>2 DEF Replaces
<1>7. Running(b, n, c, memory, monitor) /\ Leaving(n, c) = Leaving(t, c)
  BY <1>2, <1>3, <1>4, <1>6, LoopStep
<1>8. Running(b, n, LoopOf(f), memory', monitor') /\ MemoryHolds' /\ UNCHANGED <<reading, begun>>
  BY <1>1, <1>2, <1>7 DEF LseInv, MemoryHolds
<1>9. LseInv' /\ Underway' = Underway /\ Achieved' = Answers(Leaving(n, LoopOf(f)), AfterOf(f))
  BY <1>2, <1>5, <1>8, GoesOn
<1>. QED
  BY <1>1, <1>2, <1>7, <1>9 DEF Promised

\* When a thread has done with memory the suggestion has had its effect.
LEMMA TakesEffect ==
  ASSUME NEW b, NEW t, NEW f, NEW c, NEW after, Replaces(f, c, after),
         Underway = {[machine |-> b, words |-> RewriteOf(c) \o after]}, Achieved = {},
         NEW u, Matched(b, c, u, memory, memory'), Underway' = Underway, Achieved' = Answers({u}, after), answer' = answer
  PROVE  EffectTaken
<1>1. PICK m : m = RunShared([b EXCEPT !.mem = memory], RewriteOf(c) \o after)
  OBVIOUS
<1>2. Own(m) = Run(u, after) /\ m.mem = memory'
  BY <1>1, EffectMatched DEF Replaces
<1>3. Achieved' = {Own(m)}
  BY <1>2, AnswersOfOne
<1>4. PICK x : x = [machine |-> b, words |-> RewriteOf(c) \o after]
  OBVIOUS
<1>5. x \in Underway /\ m = RunShared([x.machine EXCEPT !.mem = memory], x.words)
  BY <1>1, <1>4
<1>. QED
  BY <1>2, <1>3, <1>5 DEF EffectTaken

LEMMA LoadExclusiveStep ==
  ASSUME LseInv, LoadExclusive
  PROVE  LseInv' /\ (Promised \/ EffectTaken)
<1>1. UNCHANGED <<reading, begun, memory, answer>> /\ thread # {}
  BY DEF LoadExclusive
<1>2. PICK b, t, f, c, after :
        /\ begun = {b} /\ thread = {t} /\ given = {f} /\ Code = {c} /\ c = LoopOf(f) /\ after = AfterOf(f)
        /\ Replaces(f, c, after) /\ Running(b, t, c, memory, monitor)
        /\ Underway = {[machine |-> b, words |-> RewriteOf(c) \o after]}
        /\ Achieved = Answers(Leaving(t, c), after)
  BY <1>1, ThreadIs
<1>3. /\ t.at <= Len(c) /\ c[t.at].op = "ldxr"
      /\ Goes(t, [t.m EXCEPT !.x[c[t.at].d] = Fetched(memory, CellOf(t.m, c[t.at]), c[t.at])], 1)
      /\ monitor' = {CellOf(t.m, c[t.at])}
  BY <1>2 DEF LoadExclusive
<1>4. PICK cell, n : /\ cell = CellOf(t.m, c[t.at])
                     /\ n = Further(t, [t.m EXCEPT !.x[c[t.at].d] = Fetched(memory, cell, c[t.at])], 1)
  OBVIOUS
<1>5. thread' = {n} /\ monitor' = {cell}
  BY <1>3, <1>4 DEF Goes, Further
<1>6. Loop(c) /\ MemoryHolds
  BY <1>2 DEF Replaces, LseInv
<1>7. Running(b, n, c, memory, {cell}) /\ Leaving(t, c) = {} /\ MayLeave(b, c, n, memory)
  <2>1. WholeMemory(memory)
    BY <1>6 DEF MemoryHolds, WholeMemory
  <2>2. Loaded(t, c, memory, cell, n)
    BY <1>3, <1>4 DEF Loaded
  <2>. QED
    BY <1>2, <1>6, <2>1, <2>2, LoadStep
<1>8. Running(b, n, LoopOf(f), memory', monitor') /\ MemoryHolds' /\ UNCHANGED <<reading, begun>>
  BY <1>1, <1>2, <1>5, <1>6, <1>7 DEF MemoryHolds
<1>9. LseInv' /\ Underway' = Underway /\ Achieved' = Answers(Leaving(n, c), after)
  BY <1>2, <1>5, <1>8, GoesOn
<1>10. Achieved = {}
  BY <1>2, <1>7, AnswersOfNone
<1>11. CASE Leaving(n, c) = {}
  BY <1>1, <1>9, <1>10, <1>11, AnswersOfNone DEF Promised
<1>12. ASSUME NEW u, Leaving(n, c) = {u}, Matched(b, c, u, memory, memory) PROVE EffectTaken
  <2>1. Matched(b, c, u, memory, memory') /\ Achieved' = Answers({u}, after) /\ answer' = answer
    BY <1>1, <1>9, <1>12
  <2>. QED
    BY <1>2, <1>9, <1>10, <2>1, TakesEffect
<1>. QED
  BY <1>7, <1>9, <1>11, <1>12 DEF MayLeave

LEMMA StoreExclusiveStep ==
  ASSUME LseInv, StoreExclusive
  PROVE  LseInv' /\ (Promised \/ EffectTaken)
<1>1. UNCHANGED <<reading, begun, answer>> /\ thread # {} /\ monitor' = {}
  BY DEF StoreExclusive
<1>2. PICK b, t, f, c, after :
        /\ begun = {b} /\ thread = {t} /\ given = {f} /\ Code = {c} /\ c = LoopOf(f) /\ after = AfterOf(f)
        /\ Replaces(f, c, after) /\ Running(b, t, c, memory, monitor)
        /\ Underway = {[machine |-> b, words |-> RewriteOf(c) \o after]}
        /\ Achieved = Answers(Leaving(t, c), after)
  BY <1>1, ThreadIs
<1>3. PICK w, cell : w = c[t.at] /\ cell = CellOf(t.m, w)
  OBVIOUS
<1>4. /\ t.at <= Len(c) /\ w.op = "stxr"
      /\ \/ /\ cell \in monitor /\ memory' = Written(memory, cell, w, Reads(t.m, w, w.m))
            /\ Goes(t, [t.m EXCEPT !.x[w.d] = {}], 1)
         \/ UNCHANGED memory /\ Goes(t, [t.m EXCEPT !.x[w.d] = {0}], 1)
  BY <1>2, <1>3 DEF StoreExclusive
<1>5. Loop(c) /\ MemoryHolds
  BY <1>2 DEF Replaces, LseInv
<1>6. CASE /\ cell \in monitor /\ memory' = Written(memory, cell, w, Reads(t.m, w, w.m))
           /\ Goes(t, [t.m EXCEPT !.x[w.d] = {}], 1)
  <2>1. PICK n : n = Further(t, [t.m EXCEPT !.x[w.d] = {}], 1)
    OBVIOUS
  <2>2. thread' = {n}
    BY <1>6, <2>1 DEF Goes, Further
  <2>3. PICK N, M : N = memory' /\ M = memory
    OBVIOUS
  <2>4. /\ Running(b, n, c, N, {}) /\ Leaving(t, c) = {}
        /\ \E u : Leaving(n, c) = {u} /\ Matched(b, c, u, M, N)
    <3>1. c[t.at].op = "stxr" /\ t.at <= Len(c) /\ Running(b, t, c, M, monitor)
      BY <1>2, <1>3, <1>4, <2>3
    <3>2. CellOf(t.m, c[t.at]) \in monitor /\ N = Written(M, CellOf(t.m, c[t.at]), c[t.at], Reads(t.m, c[t.at], c[t.at].m))
      BY <1>3, <1>6, <2>3
    <3>3. n = Further(t, [t.m EXCEPT !.x[c[t.at].d] = {}], 1)
      BY <1>3, <2>1
    <3>. QED
      BY <1>5, <3>1, <3>2, <3>3, StoreStep
  <2>5. MemoryHolds'
    <3>1. N = [x \in Cells |-> N[x]]
      BY <1>5, <1>6, <2>3 DEF MemoryHolds, Written
    <3>. QED
      BY <2>3, <3>1 DEF MemoryHolds
  <2>6. Running(b, n, LoopOf(f), memory', monitor')
    BY <1>1, <1>2, <2>3, <2>4
  <2>7. LseInv' /\ Underway' = Underway /\ Achieved' = Answers(Leaving(n, c), after)
    BY <1>1, <1>2, <2>2, <2>5, <2>6, GoesOn
  <2>8. PICK u : Leaving(n, c) = {u} /\ Matched(b, c, u, M, N)
    BY <2>4
  <2>9. EffectTaken
    <3>1. Achieved = {}
      BY <1>2, <2>4, AnswersOfNone
    <3>2. Matched(b, c, u, memory, memory') /\ Achieved' = Answers({u}, after) /\ answer' = answer
      BY <1>1, <2>3, <2>7, <2>8
    <3>. QED
      BY <1>2, <2>7, <3>1, <3>2, TakesEffect
  <2>. QED
    BY <2>7, <2>9
<1>7. CASE UNCHANGED memory /\ Goes(t, [t.m EXCEPT !.x[w.d] = {0}], 1)
  <2>1. PICK n : n = Further(t, [t.m EXCEPT !.x[w.d] = {0}], 1)
    OBVIOUS
  <2>2. thread' = {n}
    BY <1>7, <2>1 DEF Goes, Further
  <2>3. Running(b, n, c, memory, {}) /\ Leaving(n, c) = {} /\ Leaving(t, c) = {}
    <3>1. c[t.at].op = "stxr" /\ t.at <= Len(c) /\ n = Further(t, [t.m EXCEPT !.x[c[t.at].d] = {0}], 1)
      BY <1>3, <1>4, <2>1
    <3>. QED
      BY <1>2, <1>5, <3>1, FailStep
  <2>4. MemoryHolds' /\ Running(b, n, LoopOf(f), memory', monitor')
    BY <1>1, <1>2, <1>5, <1>7, <2>3 DEF MemoryHolds
  <2>5. LseInv' /\ Underway' = Underway /\ Achieved' = Answers(Leaving(n, c), after)
    BY <1>1, <1>2, <2>2, <2>4, GoesOn
  <2>. QED
    BY <1>1, <1>2, <1>7, <2>3, <2>5 DEF Promised
<1>. QED
  BY <1>4, <1>6, <1>7

LEMMA RivalWrites ==
  ASSUME LseInv, Rival
  PROVE  LseInv' /\ Underway' = Underway /\ Achieved' = Achieved /\ answer' = answer /\ Underway # {}
<1>1. UNCHANGED <<reading, begun, thread, answer>> /\ thread # {} /\ monitor' = monitor \ {"here"}
  BY DEF Rival
<1>2. PICK b, t, f, c, after :
        /\ begun = {b} /\ thread = {t} /\ given = {f} /\ Code = {c} /\ c = LoopOf(f) /\ after = AfterOf(f)
        /\ Replaces(f, c, after) /\ Running(b, t, c, memory, monitor)
        /\ Underway = {[machine |-> b, words |-> RewriteOf(c) \o after]}
        /\ Achieved = Answers(Leaving(t, c), after)
  BY <1>1, ThreadIs
<1>3. PICK v \in Rivals : memory' = [memory EXCEPT !["here"] = v]
  BY DEF Rival
<1>4. MemoryHolds'
  BY <1>3 DEF LseInv, MemoryHolds
<1>5. Running(b, t, LoopOf(f), memory', monitor')
  <2>1. PICK N : N = memory'
    OBVIOUS
  <2>2. Running(b, t, c, N, monitor \ {"here"})
    BY <1>2, RivalStep
  <2>. QED
    BY <1>1, <1>2, <2>1, <2>2
<1>6. thread' = {t}
  BY <1>1, <1>2
<1>7. LseInv' /\ Underway' = Underway /\ Achieved' = Answers(Leaving(t, c), after)
  BY <1>1, <1>2, <1>4, <1>5, <1>6, GoesOn
<1>. QED
  BY <1>1, <1>2, <1>7

LEMMA LeaveStep ==
  ASSUME LseInv, Leave
  PROVE  LseInv' /\ Achieved # {} /\ answer' = Achieved /\ Underway' = {} /\ Achieved' = {} /\ memory' = memory
<1>1. UNCHANGED <<reading, memory, monitor>> /\ thread # {} /\ thread' = {} /\ begun' = {}
  BY DEF Leave
<1>2. PICK b, t, f, c, after :
        /\ begun = {b} /\ thread = {t} /\ given = {f} /\ Code = {c} /\ c = LoopOf(f) /\ after = AfterOf(f)
        /\ Replaces(f, c, after) /\ Running(b, t, c, memory, monitor)
        /\ Achieved = Answers(Leaving(t, c), after)
  BY <1>1, ThreadIs
<1>3. t.at > f.words /\ answer' = {Run(t.m, after)}
  BY <1>2 DEF Leave
<1>4. Loop(c) /\ Len(c) = f.words /\ Len(c) \in 3 .. 5 /\ t.at \in 1 .. Len(c) + 1
  BY <1>2 DEF Replaces, Running, Loop
<1>5. t.at = Len(c) + 1
  <2>0. PICK i, len : i = t.at /\ len = Len(c)
    OBVIOUS
  <2>1. len \in 3 .. 5 /\ i \in 1 .. len + 1 /\ i > len
    BY <1>3, <1>4, <2>0
  <2>2. i = len + 1
    BY <2>1
  <2>. QED
    BY <2>0, <2>2
<1>6. Leaving(t, c) = {t.m}
  BY <1>4, <1>5, WhereItLeaves
<1>7. Achieved = {Run(t.m, after)}
  BY <1>2, <1>6, AnswersOfOne
<1>8. ReadingInv' /\ MemoryHolds' /\ ThreadHolds'
  BY <1>1, OthersRead DEF LseInv, MemoryHolds, ThreadHolds
<1>9. Underway' = {} /\ Achieved' = {}
  BY <1>1, NothingBegun DEF Underway, Achieved
<1>. QED
  BY <1>1, <1>3, <1>7, <1>8, <1>9 DEF LseInv

LEMMA NothingHappens == ASSUME LseInv, UNCHANGED vars PROVE LseInv' /\ Promised
<1>1. UNCHANGED <<reading, begun, thread, memory, monitor, answer>>
  BY DEF vars, reading
<1>2. ReadingInv' /\ MemoryHolds'
  BY <1>1, OthersRead DEF LseInv, MemoryHolds
<1>3. ThreadHolds'
  BY <1>1 DEF reading, LseInv, ThreadHolds, InLoop, LoopOf
<1>4. Underway' = Underway /\ Achieved' = Achieved
  BY <1>1 DEF reading, Underway, Achieved
<1>. QED
  BY <1>1, <1>2, <1>3, <1>4 DEF LseInv, Promised

\* Underway and Achieved are the task and the effect.
LEMMA TaskAndEffect == Task = Underway /\ Effect = Achieved
<1>1. Task = Underway
  BY DEF Task, Underway, TaskOf, AfterOf, AfterIn
<1>2. {LoopIn(buf, f) : f \in given} = Code
  BY DEF LoopIn, LoopOf, Code
<1>3. \A f : AfterIn(buf, f) = AfterOf(f)
  BY DEF AfterIn, AfterOf
<1>. DEFINE S == {<<m, f>> : m \in UNION {Leaving(t, code) : t \in thread, code \in Code}, f \in given}
<1>4. Achieved = {Run(e[1], AfterIn(buf, e[2])) : e \in S}
  BY <1>2 DEF Achieved, EffectOf
<1>5. Effect = {Run(e[1], AfterOf(e[2])) : e \in S}
  BY DEF Effect
<1>. HIDE DEF S
<1>6. {Run(e[1], AfterIn(buf, e[2])) : e \in S} = {Run(e[1], AfterOf(e[2])) : e \in S}
  BY <1>3
<1>. QED
  BY <1>1, <1>4, <1>5, <1>6

LEMMA TaskAndEffectNext == Task' = Underway' /\ Effect' = Achieved'
<1>1. (Task = Underway)'
  BY DEF Task, Underway, TaskOf, AfterOf, AfterIn
<1>2. ({LoopIn(buf, f) : f \in given} = Code)'
  BY DEF LoopIn, LoopOf, Code
<1>3. (\A f : AfterIn(buf, f) = AfterOf(f))'
  BY DEF AfterIn, AfterOf
<1>. DEFINE S == {<<m, f>> : m \in UNION {Leaving(t, code) : t \in thread, code \in Code}, f \in given}
<1>4. (Achieved = {Run(e[1], AfterIn(buf, e[2])) : e \in S})'
  BY <1>2 DEF Achieved, EffectOf
<1>5. (Effect = {Run(e[1], AfterOf(e[2])) : e \in S})'
  BY DEF Effect
<1>. HIDE DEF S
<1>6. ({Run(e[1], AfterIn(buf, e[2])) : e \in S} = {Run(e[1], AfterOf(e[2])) : e \in S})'
  BY <1>3
<1>. QED
  BY <1>1, <1>4, <1>5, <1>6

LEMMA InitHolds == ASSUME Init PROVE LseInv /\ Promise!Init
<1>1. /\ family \in DOMAIN Families /\ buf = <<>> /\ lse = <<>> /\ pending = {} /\ given = {}
      /\ begun = {} /\ thread = {} /\ answer = {} /\ memory = [cell \in Cells |-> {}]
  BY DEF Init
<1>2. BufferRead
  <2>1. Len(Families[family]) \in Nat
    BY <1>1, LseAssumption
  <2>. QED
    BY <1>1, <2>1 DEF BufferRead
<1>3. LoopMatched
  BY <1>1 DEF LoopMatched, Staged
<1>4. PendingFollows /\ GivenFollows
  BY <1>1 DEF PendingFollows, GivenFollows
<1>5. MemoryHolds /\ ThreadHolds
  BY <1>1 DEF MemoryHolds, ThreadHolds
<1>6. Underway = {} /\ Achieved = {}
  BY <1>1, NothingBegun DEF Underway, Achieved
<1>7. Promise!Init
  BY <1>1, <1>6, TaskAndEffect DEF Promise!Init
<1>. QED
  BY <1>2, <1>3, <1>4, <1>5, <1>7 DEF LseInv, ReadingInv

\* The words read, the thread in its loop and its monitor hold together, and
\* each step is one of AtomicUpdate.
LEMMA StepHolds ==
  ASSUME LseInv, [Next]_vars
  PROVE  LseInv' /\ [Promise!Next]_(Promise!vars)
<1>1. /\ Task = Underway /\ Effect = Achieved
      /\ Task' = Underway' /\ Effect' = Achieved'
  BY TaskAndEffect, TaskAndEffectNext
<1>2. ASSUME Promised PROVE [Promise!Next]_(Promise!vars)
  BY <1>1, <1>2 DEF Promised, Promise!vars
<1>3. ASSUME EffectTaken PROVE Promise!Next
  <2>1. Promise!TakeEffect
    BY <1>1, <1>3 DEF EffectTaken, Promise!TakeEffect
  <2>. QED
    BY <2>1 DEF Promise!Next
<1>4. CASE Instruction \/ Flush
  BY <1>2, <1>4, ReadingStep
<1>5. CASE Begin
  <2>1. /\ LseInv' /\ UNCHANGED <<memory, answer>> /\ Achieved' = Achieved
        /\ Underway = {} /\ answer = {} /\ \E x : Underway' = {x}
    BY <1>5, BeginStep
  <2>2. Task' # {} /\ \A s, t \in Task' : s = t
    BY <1>1, <2>1
  <2>3. Promise!Begin
    BY <1>1, <2>1, <2>2 DEF Promise!Begin
  <2>. QED
    BY <2>1, <2>3 DEF Promise!Next
<1>6. CASE Step
  BY <1>2, <1>6, ComputeStep
<1>7. CASE LoadExclusive
  BY <1>2, <1>3, <1>7, LoadExclusiveStep
<1>8. CASE StoreExclusive
  BY <1>2, <1>3, <1>8, StoreExclusiveStep
<1>9. CASE Rival
  <2>1. LseInv' /\ Underway' = Underway /\ Achieved' = Achieved /\ answer' = answer /\ Underway # {}
    BY <1>9, RivalWrites
  <2>2. CASE memory' = memory
    BY <1>2, <2>1, <2>2 DEF Promised
  <2>3. CASE memory' # memory
    <3>1. Promise!OthersWrite
      BY <1>1, <2>1, <2>3 DEF Promise!OthersWrite
    <3>. QED
      BY <2>1, <3>1 DEF Promise!Next
  <2>. QED
    BY <2>2, <2>3
<1>10. CASE Leave
  <2>1. /\ LseInv' /\ Achieved # {} /\ answer' = Achieved /\ Underway' = {} /\ Achieved' = {}
        /\ memory' = memory
    BY <1>10, LeaveStep
  <2>2. Promise!End
    BY <1>1, <2>1 DEF Promise!End
  <2>. QED
    BY <2>1, <2>2 DEF Promise!Next
<1>11. CASE UNCHANGED vars
  BY <1>2, <1>11, NothingHappens
<1>. QED
  BY <1>4, <1>5, <1>6, <1>7, <1>8, <1>9, <1>10, <1>11 DEF Next

\* Whatever the buffer, the registers the thread begins with and the writes of
\* others, a loop that was given out does what the atomic suggested and the
\* words after the loop do in one moment (check_lse_rmw,
\* armlint_advance_pending_lse).
THEOREM LoopsImplement == Spec => LoopsAtomic
<1>1. Init => LseInv /\ Promise!Init
  BY InitHolds
<1>2. LseInv /\ [Next]_vars => LseInv' /\ [Promise!Next]_(Promise!vars)
  BY StepHolds
<1>. QED
  BY <1>1, <1>2, PTL DEF Spec, LoopsAtomic, Promise!Spec
=============================================================================
