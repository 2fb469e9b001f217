------------------------------ MODULE LseLoops ------------------------------
(***************************************************************************)
(* check_lse_rmw and its deferral slot: a loop of LDXR, an operation and   *)
(* STXR matched word by word, and the finding that waits for the registers *)
(* its atomic does not write to die.                                       *)
(*                                                                         *)
(* When the finding is given out, a thread runs the words read since the   *)
(* loop's first, while others write to the same memory and the exclusive   *)
(* store may fail at any time.                                             *)
(***************************************************************************)
EXTENDS Atomics

CONSTANTS
  Window,    \* LIVENESS_WINDOW
  Machines,  \* the registers and flags a thread may begin with
  Rivals,    \* what others write
  Families   \* the buffers to read: for each, the words of each position

\* Words that touch no memory and after which the next one is executed.
Straight == ComputeOps \cup {"msr", "mrs", "nop"}
Words ==
  [op : Straight \cup Conditionals \cup Terminal \cup Exclusive, sf : BOOLEAN,
   d : Gprs \cup {R31}, n : Gprs \cup {R31}, m : Gprs \cup {R31}, a : Gprs \cup {R31}, sh : STRING,
   k : Int, wd : Nat, mask : SUBSET Low(W), cond : Conds]
MachineStates ==
  [x : [Gprs -> SUBSET Low(W)], sp : SUBSET Low(W), base : SUBSET Low(W), mem : {{}},
   flags : [n : BOOLEAN, z : BOOLEAN, c : BOOLEAN, v : BOOLEAN]]

ASSUME LseAssumption ==
  /\ Window \in Nat \ {0}
  /\ Machines \subseteq MachineStates
  /\ \A f \in DOMAIN Families :
       /\ Families[f] \in Seq(SUBSET Words)
       /\ \A i \in DOMAIN Families[f] : \A w \in Families[f][i] :
            /\ w.op \in Exclusive => w.wd \in 1 .. H \cup {W} /\ w.sf = (w.wd = W)
            /\ w.op \in {"msr", "nop"} => w.d = R31

\* A thread runs the words after a loop with nobody else writing, so they
\* access no memory.
ASSUME QuietAssumption ==
  \A f \in DOMAIN Families : \A i, j \in DOMAIN Families[f] :
    i < j /\ (\E w \in Families[f][i] : w.op = "cbnz") => \A w \in Families[f][j] : w.op \notin Exclusive

VARIABLES
  family,    \* which buffers this behaviour reads
  buf,       \* the words read
  lse,       \* lse_*: the words of a loop matched so far, a stage each
  pending,   \* pending_lse_*: a finding, the registers watched, the window
  given,     \* the finding given out
  begun,     \* the machine the thread began with
  thread,    \* the thread: its machine and the word of the loop it is at
  memory,
  monitor,   \* the cell the thread's exclusive monitor is armed for
  answer     \* what the thread left
reading == <<family, buf, lse, pending, given>>
vars == <<family, buf, lse, pending, given, begun, thread, memory, monitor, answer>>

-----------------------------------------------------------------------------
(* The words of a loop, in their order.  l is the exclusive load.          *)

Opens(w) == w.op = "ldxr" /\ w.d # R31 /\ w.n # R31 /\ w.d # w.n

PlainOperand(w) == w.sh = "lsl" /\ w.k = 0
Commutative == {"add", "and", "orr", "eor"}

\* The operand that is not the loaded value.
Other(l, w) == IF w.n = l.d THEN w.m ELSE w.n

\* Mutant: the result may take the operand's place.
CombinesOverOperand(l, w) ==
  /\ w.sf \/ l.wd <= H
  /\ w.d \notin {R31, l.n}
  /\ \/ /\ w.op \in Commutative \cup {"sub", "bic"} /\ PlainOperand(w)
        /\ w.n = l.d \/ (w.op \in Commutative /\ w.m = l.d)
        /\ Other(l, w) \notin {R31, l.d}
     \/ /\ w.op = "addi" /\ w.k # 0 /\ w.k \in 1 - 2^ImmBits .. 2^ImmBits - 1
        /\ w.n = l.d /\ w.d # l.d

\* The operation of a fetch loop, with an operand the loop does not write.
Combines(l, w) ==
  /\ w.sf \/ l.wd <= H
  /\ w.d \notin {R31, l.n}
  /\ \/ /\ w.op \in Commutative \cup {"sub", "bic"} /\ PlainOperand(w)
        /\ w.n = l.d \/ (w.op \in Commutative /\ w.m = l.d)
        /\ Other(l, w) \notin {R31, l.d, w.d}
     \/ /\ w.op = "addi" /\ w.k # 0 /\ w.k \in 1 - 2^ImmBits .. 2^ImmBits - 1
        /\ w.n = l.d /\ w.d # l.d

\* The compare of a CAS loop, at the width of the exclusives.
Checks(l, w) ==
  /\ w.op = "subs" /\ w.d = R31 /\ PlainOperand(w)
  /\ l.wd \in {H, W} /\ w.sf = (l.wd = W)
  /\ (w.n = l.d) # (w.m = l.d)

\* The exclusive store to what was loaded: its status register spares what
\* the next round reads.
StoresTo(l, w, spared) ==
  w.op = "stxr" /\ w.wd = l.wd /\ w.n = l.n /\ w.d \notin {R31, l.n, w.m} \cup spared
Swaps(l, w)        == StoresTo(l, w, {l.d}) /\ w.m \notin {R31, l.d}
StoresNew(l, o, w) ==
  /\ StoresTo(l, w, {l.d} \cup (IF o.op = "addi" THEN {} ELSE {Other(l, o)})) /\ w.m = o.d
StoresIf(l, c, w)  == StoresTo(l, w, {Other(l, c)}) /\ w.m # l.d

GivesUp(w)    == w.op = "bcond" /\ w.cond = "ne" /\ w.k = 3
Retries(s, w) == w.op = "cbnz" /\ w.n = s.d /\ w.k = -Len(lse)

-----------------------------------------------------------------------------
(* check_lse_rmw: the stages, and what a whole loop becomes.               *)

Advances(w) ==
  \/ Len(lse) = 1 /\ (Combines(lse[1], w) \/ Swaps(lse[1], w) \/ Checks(lse[1], w))
  \/ Len(lse) = 2 /\ Combines(lse[1], lse[2]) /\ StoresNew(lse[1], lse[2], w)
  \/ Len(lse) = 2 /\ Checks(lse[1], lse[2]) /\ GivesUp(w)
  \/ Len(lse) = 3 /\ lse[3].op = "bcond" /\ StoresIf(lse[1], lse[2], w)
Completes(w) == Len(lse) >= 2 /\ Last(lse).op = "stxr" /\ Retries(Last(lse), w)

\* A word out of place drops the loop; an exclusive load begins another.
Match(w) ==
  lse' = CASE Completes(w) -> <<>>
           [] Advances(w)  -> Append(lse, w)
           [] OTHER        -> IF Opens(w) THEN <<w>> ELSE <<>>

Directly == [add |-> "ldadd", orr |-> "ldset", eor |-> "ldeor", bic |-> "ldclr"]
FetchRewrite(l, o) ==
  LET x == l.wd = W
      Atomic(op, m) == Access(op, l.wd, l.d, m, l.n)
  IN  CASE o.op = "and"  -> <<Mvn(x, o.d, Other(l, o)), Atomic("ldclr", o.d)>>
        [] o.op = "sub"  -> <<Ternary("sub", x, o.d, R31, Other(l, o)), Atomic("ldadd", o.d)>>
        [] o.op = "addi" -> <<MovImm(x, o.d, Bits(o.k, Size([sf |-> x]))), Atomic("ldadd", o.d)>>
        [] OTHER         -> <<Atomic(Directly[o.op], Other(l, o))>>
SwapRewrite(l, s) == <<Access("swp", l.wd, l.d, s.m, l.n)>>
CasRewrite(l, c, s) ==
  <<Mov(l.wd = W, l.d, Other(l, c)), Access("cas", l.wd, l.d, s.m, l.n), c>>

LoopRewrite ==
  CASE Len(lse) = 2 -> SwapRewrite(lse[1], lse[2])
    [] Len(lse) = 3 -> FetchRewrite(lse[1], lse[2])
    [] Len(lse) = 4 -> CasRewrite(lse[1], lse[2], lse[4])
\* What the loop writes and the rewrite does not.
Scratch == {Last(lse).d} \cup (IF Len(lse) = 3 THEN {lse[2].d} ELSE {})

-----------------------------------------------------------------------------
(* armlint_advance_pending_lse.                                            *)

Grade(w, r) ==
  CASE w.op \in Conditionals \cup Terminal -> "TERM"
    [] OTHER -> IF ReadsReg(w, r) THEN "READ"
                ELSE IF WritesReg(w, r) THEN "OVERWRITE" ELSE "UNKNOWN"

StillWatched(p, w) == {r \in p.watch : Grade(w, r) # "OVERWRITE"}

\* A word may read one register and overwrite the other; the read wins.
Alive(p, w)  == \E r \in p.watch : Grade(w, r) \in {"READ", "TERM"}
Proven(w)    == {p \in pending : ~Alive(p, w) /\ StillWatched(p, w) = {}}
Waiting(w) ==
  {[p EXCEPT !.watch = StillWatched(p, w), !.left = @ - 1] :
     p \in {p \in pending : ~Alive(p, w) /\ StillWatched(p, w) # {} /\ p.left > 1}}
Deferred ==
  {[first |-> Len(buf) + 1 - Len(lse), words |-> Len(lse) + 1, rewrite |-> LoopRewrite,
    watch |-> Scratch, left |-> Window]}

\* The registry: the slot advances before the check matches.
Instruction ==
  /\ given = {} /\ Len(buf) < Len(Families[family])
  /\ \E w \in Families[family][Len(buf) + 1] \ {Plain("data")} :
       /\ buf' = Append(buf, w)
       /\ given' = Proven(w)
       /\ Match(w)
       /\ pending' = IF Completes(w) THEN Deferred ELSE Waiting(w)
  /\ UNCHANGED <<family, begun, thread, memory, monitor, answer>>

\* armlint_flush, at a pool or a word that does not decode.
Flush ==
  /\ given = {} /\ Len(buf) < Len(Families[family])
  /\ Plain("data") \in Families[family][Len(buf) + 1]
  /\ buf' = Append(buf, Plain("data")) /\ lse' = <<>> /\ pending' = {}
  /\ UNCHANGED <<family, given, begun, thread, memory, monitor, answer>>

-----------------------------------------------------------------------------
(* The thread (external: the architecture).                                *)

LoopOf(f)  == SubSeq(buf, f.first, f.first + f.words - 1)
AfterOf(f) == SubSeq(buf, f.first + f.words, Len(buf))
Code == {LoopOf(f) : f \in given}

Begin ==
  /\ begun = {} /\ answer = {}
  /\ \E f \in given, m \in Machines :
       LET start == [m EXCEPT !.x[buf[f.first].n] = Here]
       IN  begun' = {start} /\ thread' = {[m |-> start, at |-> 1]}
  /\ UNCHANGED <<reading, memory, monitor, answer>>

\* The thread t goes on with machine m, k words further.
Goes(t, m, k) == thread' = {[m |-> m, at |-> t.at + k]}

Step ==
  /\ \E t \in thread, code \in Code :
       /\ t.at <= Len(code) /\ code[t.at].op \notin Exclusive
       /\ LET w == code[t.at]
          IN  IF w.op \in Conditionals /\ Takes(t.m, w) THEN Goes(t, t.m, w.k)
              ELSE Goes(t, Exec(t.m, w), 1)
  /\ UNCHANGED <<reading, begun, memory, monitor, answer>>

LoadExclusive ==
  /\ \E t \in thread, code \in Code :
       /\ t.at <= Len(code) /\ code[t.at].op = "ldxr"
       /\ LET w == code[t.at]
              c == CellOf(t.m, w)
          IN  /\ Goes(t, [t.m EXCEPT !.x[w.d] = Fetched(memory, c, w)], 1)
              /\ monitor' = {c}
  /\ UNCHANGED <<reading, begun, memory, answer>>

\* It stores if the monitor is armed; it may fail nevertheless.
StoreExclusive ==
  /\ \E t \in thread, code \in Code :
       /\ t.at <= Len(code) /\ code[t.at].op = "stxr"
       /\ LET w == code[t.at]
              c == CellOf(t.m, w)
          IN  \/ /\ c \in monitor /\ memory' = Written(memory, c, w, Reads(t.m, w, w.m))
                 /\ Goes(t, [t.m EXCEPT !.x[w.d] = {}], 1)
              \/ UNCHANGED memory /\ Goes(t, [t.m EXCEPT !.x[w.d] = {0}], 1)
  /\ monitor' = {}
  /\ UNCHANGED <<reading, begun, answer>>

\* The machine with which t leaves the loop, if it has nothing more to do
\* with memory: past its end, after a store that succeeded, after a compare
\* that failed.
Leaving(t, code) ==
  LET compared == IF t.at = 2 THEN Exec(t.m, code[2]) ELSE t.m
  IN  CASE t.at > Len(code) -> {t.m}
        [] t.at = Len(code) /\ ~Takes(t.m, code[t.at]) -> {t.m}
        [] t.at \in {2, 3} /\ GivesUp(code[3]) /\ Takes(compared, code[3]) -> {compared}
        [] OTHER -> {}

\* Others write until the thread has done with memory.
Rival ==
  /\ \E t \in thread, code \in Code : Leaving(t, code) = {}
  /\ \E v \in Rivals : memory' = [memory EXCEPT !["here"] = v]
  /\ monitor' = monitor \ {"here"}
  /\ UNCHANGED <<reading, begun, thread, answer>>

\* The thread runs the words after the loop.
Leave ==
  /\ \E t \in thread, f \in given :
       /\ t.at > f.words
       /\ answer' = {Run(t.m, AfterOf(f))}
  /\ thread' = {} /\ begun' = {}
  /\ UNCHANGED <<reading, memory, monitor>>

-----------------------------------------------------------------------------
Init ==
  /\ family \in DOMAIN Families
  /\ buf = <<>> /\ lse = <<>> /\ pending = {} /\ given = {}
  /\ begun = {} /\ thread = {} /\ monitor = {} /\ answer = {}
  /\ memory = [c \in Cells |-> {}]
Next == Instruction \/ Flush \/ Begin \/ Step \/ LoadExclusive \/ StoreExclusive \/ Rival \/ Leave
Spec == Init /\ [][Next]_vars

\* Loop and atomic are indistinguishable: every run of the words read, with
\* every interference, is a run of the rewrite and the words after the loop
\* in one moment.  The same memory, registers and flags result, the
\* registers found dead included.
Task == {[machine |-> m, words |-> f.rewrite \o AfterOf(f)] : m \in begun, f \in given}
Effect ==
  {Run(e[1], AfterOf(e[2])) :
     e \in {<<m, f>> : m \in UNION {Leaving(t, code) : t \in thread, code \in Code}, f \in given}}
Promise == INSTANCE AtomicUpdate WITH task <- Task, effect <- Effect
LoopsAtomic == Promise!Spec
=============================================================================
