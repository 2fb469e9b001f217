------------------------------- MODULE Stream -------------------------------
(***************************************************************************)
(* The streaming driver and the checks that report through it.             *)
(*                                                                         *)
(* check_instructions takes the words of a buffer in order.  A V8 pool or  *)
(* a word that does not decode flushes the state; any other word is shown  *)
(* first to the advancers, which carry the liveness proofs of deferred     *)
(* findings one word further, then to the checks, which match a producer   *)
(* with the word right after it and report or defer a finding.             *)
(*                                                                         *)
(* Four deferral slots and four trackers stand for the registry: together  *)
(* they use every way a finding is held back, proven, downgraded, replaced *)
(* and dropped.                                                            *)
(*   pending  CMP #0 ; B.cond        -> CBZ        (flags, both edges)     *)
(*   dc       CMP, flags overwritten -> delete     (flags, no PCS)         *)
(*   mz       MOV #0 ; STR           -> STR ZR     (register)              *)
(*            LSL ; ORR              -> EXTR       (register)              *)
(*            CSET ; EOR #1          -> CSET       (register, downgrade)   *)
(*   tb       CSET ; CBZ             -> B.cond     (register, two edges    *)
(*                                                  by containment,        *)
(*                                                  downgrade)             *)
(***************************************************************************)
EXTENDS A64Flow

(***************************************************************************)
(* What the decoders guarantee of the words the checks match.              *)
(***************************************************************************)
Writes1(w) == \E r \in Regs : w.writes = {r}
ASSUME ShapesAssumption ==
  \A w \in Words :
    /\ w.op = "cmp0" => w.reads \subseteq Regs /\ w.writes = {NZCV}
    /\ w.op = "cmp" => w.writes = {NZCV}
    /\ w.op = "mov0" => w.reads = {} /\ Writes1(w)
    /\ w.op = "str" => w.reads \subseteq Regs /\ w.writes = {}
    /\ w.op = "cset" => w.reads = {NZCV} /\ Writes1(w)
    /\ w.op = "eor" => \E r \in Regs : w.reads = {r} /\ w.writes \in {{}, {r}}
    /\ w.op = "lsl" => w.reads \subseteq Regs /\ Writes1(w)
    /\ w.op = "orr" => w.reads \subseteq Regs /\ w.writes \subseteq Regs

VARIABLES
  prog,      \* the buffer
  cur,       \* the slot the driver has reached
  done,      \* has check_instructions returned?
  cmp,       \* cmp_*: the zero test the last word was, if it was one
  cset,      \* cset_*: the CSET the last word was
  mov,       \* mov_*: the MOV #0 the last word was
  fnl,       \* fnl_*: the shift the last word was
  pending,   \* pending_*, the first deferral slot
  dc,        \* pending_dc_*
  mz,        \* pending_mz_*
  tb,        \* pending_tb_*
  out,       \* the findings emitted
  decoded,   \* history: the slots handed to the checks
  gaps       \* history: the slots skipped as data

trackers == <<cmp, cset, mov, fnl>>
slots    == <<pending, dc, mz, tb>>
vars     == <<prog, cur, done, trackers, slots, out, decoded, gaps>>

-----------------------------------------------------------------------------
(* Findings, trackers and deferral slots.                                  *)

\* Rewrites that delete the producer, and downgrades that keep it.
Deleting  == {"cbz", "dc", "zr", "extr", "cset", "bcond"}
Downgrade == {"cset-fb", "bcond-fb"}

\* start is start_offset; use is the slot of the consumer (not a field of
\* the C record, which only counts the words of the window); reg is what
\* the producer writes.
Findings == [kind : Deleting \cup Downgrade, start : Slots, use : Slots,
             reg : Resources]

\* The slots of the reported window after its first: insn_count is 2 for a
\* pair and 1 for a dead compare.
Inside(f) == IF f.kind = "dc" THEN {} ELSE {f.start + 1}

Off     == [on |-> FALSE, reg |-> NZCV, at |-> 0]
Found(r) == [on |-> TRUE, reg |-> r, at |-> cur]

\* Mutant: the consumer is taken to be the next word.
PairLate(kind, t) == [kind |-> kind, start |-> t.at, use |-> cur + 1, reg |-> t.reg]

\* A finding for the pair of a tracked producer and the word at cur.
Pair(kind, t) == [kind |-> kind, start |-> t.at, use |-> cur, reg |-> t.reg]

NoFinding == [kind |-> "dc", start |-> 0, use |-> 0, reg |-> NZCV]
Idle      == [on |-> FALSE, finding |-> NoFinding, fallback |-> {}, window |-> 0,
              target |-> 0]

\* Opening a slot.  Whatever it held is lost, its downgrade included.
Defer(f, fb, t) ==
  [on |-> TRUE, finding |-> f, fallback |-> fb, window |-> Window, target |-> t]

\* What an advancer does with a slot: the slot after it, what it emits.
Stay(p)  == [slot |-> p, emit |-> {}]
\* Mutants: a proven fold's downgrade is reported as well; a failed proof
\* takes the downgrade with it.
ProveBoth(p)  == [slot |-> Idle, emit |-> {p.finding} \cup p.fallback]
FailDrops(p)  == [slot |-> Idle, emit |-> {}]
Prove(p) == [slot |-> Idle, emit |-> {p.finding}]
Fail(p)  == [slot |-> Idle, emit |-> p.fallback]
Tick(p)  == IF p.window <= 1 THEN Fail(p)
            ELSE Stay([p EXCEPT !.window = @ - 1])

-----------------------------------------------------------------------------
(* The branch-target map.                                                  *)

\* The words a scan that steps over pools visits.
Visited ==
  LET Scan[o \in 0 .. N] ==
        IF o = N THEN {}
        ELSE IF IsPool(prog, o) THEN Scan[NextSlot(prog, o)]
        ELSE {o} \cup Scan[o + 1]
  IN  Scan[0]

\* Mutant: calls are not taken for entries.
BranchTargetsNoCalls == {prog[o].to : o \in {v \in Visited : IsDirectBranch(prog[v])}}

\* scan_branch_targets: every slot a direct branch or call targets.
BranchTargets ==
  {prog[o].to : o \in {v \in Visited : IsDirectBranch(prog[v]) \/ prog[v].op = "bl"}}

HasSideEntry(f) == Inside(f) \cap BranchTargets # {}

\* Every emission goes through the side-entry gate.
Emit(fs) == out' = out \cup {f \in fs : ~HasSideEntry(f)}

-----------------------------------------------------------------------------
(* The advancers.  w is the word at cur.                                   *)

AdvancePending(w) ==
  IF ~pending.on THEN Stay(pending)
  ELSE LET grade == ClassifyLiveness(w)
       IN  CASE grade \in {"OVERWRITE", "TERM_SAFE"} -> Prove(pending)
             [] grade \in {"READ", "TERM_UNSAFE"}    -> Fail(pending)
             [] grade = "UNKNOWN"                    -> Tick(pending)

\* A deletion does not spend the procedure-call argument: a call or a
\* return discards it.
AdvancePendingDc(w) ==
  IF ~dc.on THEN Stay(dc)
  ELSE LET grade == ClassifyLiveness(w)
       IN  CASE grade = "OVERWRITE" -> Prove(dc)
             [] grade \in {"READ", "TERM_SAFE", "TERM_UNSAFE"} -> Fail(dc)
             [] grade = "UNKNOWN"   -> Tick(dc)

\* Mutant: a conditional branch is stepped over, its target unproven.
AdvancePendingMzOver(w, dead) ==
  IF ~mz.on THEN Stay(mz)
  ELSE IF IsDirectBranch(w) /\ ~BranchReadsReg(w, mz.finding.reg)
  THEN IF IsConditional(w) THEN Tick(mz)
       ELSE IF dead THEN Prove(mz) ELSE Fail(mz)
  ELSE LET grade == ClassifyRegLiveness(w, mz.finding.reg)
       IN  CASE grade = "OVERWRITE" -> Prove(mz)
             [] grade \in {"READ", "TERM_UNSAFE"} -> Fail(mz)
             [] grade = "UNKNOWN"   -> Tick(mz)

\* A direct branch is followed: dead says whether reg_dead_at_target proved
\* the register dead at its target.
AdvancePendingMz(w, dead) ==
  IF ~mz.on THEN Stay(mz)
  ELSE IF IsDirectBranch(w) /\ ~BranchReadsReg(w, mz.finding.reg)
  THEN IF ~dead THEN Fail(mz)
       ELSE IF IsConditional(w) THEN Tick(mz) ELSE Prove(mz)
  ELSE LET grade == ClassifyRegLiveness(w, mz.finding.reg)
       IN  CASE grade = "OVERWRITE" -> Prove(mz)
             [] grade \in {"READ", "TERM_UNSAFE"} -> Fail(mz)
             [] grade = "UNKNOWN"   -> Tick(mz)

\* The fall-through's proof serves the taken edge when the target lies
\* between the fall-through and the kill.
Contained(p) == p.target \in p.finding.use + 1 .. cur
AdvancePendingTb(w) ==
  IF ~tb.on THEN Stay(tb)
  ELSE LET grade == ClassifyRegLiveness(w, tb.finding.reg)
       IN  CASE grade = "OVERWRITE" -> IF Contained(tb) THEN Prove(tb) ELSE Fail(tb)
             [] grade \in {"READ", "TERM_UNSAFE"} -> Fail(tb)
             [] grade = "UNKNOWN"   -> Tick(tb)

-----------------------------------------------------------------------------
(* The checks.  Each expires its own tracker at every word and reopens it  *)
(* when the word is its producer.                                          *)

Dest(w) == CHOOSE r \in Regs : r \in w.writes

\* check_cmp_zero_branch closes: the flags are dead at the branch's target.
CmpBranch(w, dead) == cmp.on /\ w.op = "bcond" /\ dead

\* check_mov_zero_to_xzr and check_funnel_to_extr close.
MovZeroUse(w) == mov.on /\ w.op = "str" /\ mov.reg \in w.reads
Funnel(w)     == fnl.on /\ w.op = "orr" /\ fnl.reg \in w.reads

\* check_cset_fold closes, on a branch or on an inversion.
CsetBranch(w) == cset.on /\ BranchReadsReg(w, cset.reg)
CsetEor(w)    == cset.on /\ w.op = "eor" /\ w.reads = {cset.reg}

\* Only a forward branch can satisfy the containment proof.
Forward(w) == w.to >= cur + 1

\* The findings complete at their consumer: one that overwrites the
\* producer's register itself, and the downgrade of a backward branch.
CheckEmits(w) ==
  (IF Funnel(w) /\ fnl.reg \in w.writes THEN {Pair("extr", fnl)} ELSE {}) \cup
  (IF CsetEor(w) /\ cset.reg \in w.writes THEN {Pair("cset", cset)} ELSE {}) \cup
  (IF CsetBranch(w) /\ ~Forward(w) THEN {Pair("bcond-fb", cset)} ELSE {})

\* The slots after the checks have run on what the advancers left.
CheckPending(w, dead, p) ==
  IF CmpBranch(w, dead) THEN Defer(Pair("cbz", cmp), {}, w.to) ELSE p

CheckDc(w, p) ==
  IF w.op \in {"cmp0", "cmp"} THEN Defer(Pair("dc", Found(NZCV)), {}, 0) ELSE p

CheckMz(w, p) ==
  CASE MovZeroUse(w) -> Defer(Pair("zr", mov), {}, 0)
    [] Funnel(w) /\ fnl.reg \notin w.writes -> Defer(Pair("extr", fnl), {}, 0)
    [] CsetEor(w) /\ cset.reg \notin w.writes ->
         Defer(Pair("cset", cset), {Pair("cset-fb", cset)}, 0)
    [] OTHER -> p

CheckTb(w, p) ==
  IF CsetBranch(w) /\ Forward(w)
  THEN Defer(Pair("bcond", cset), {Pair("bcond-fb", cset)}, w.to)
  ELSE p

Track(w) ==
  /\ cmp'  = IF w.op = "cmp0" THEN Found(NZCV) ELSE Off
  /\ cset' = IF w.op = "cset" THEN Found(Dest(w)) ELSE Off
  /\ mov'  = IF w.op = "mov0" THEN Found(Dest(w)) ELSE Off
  /\ fnl'  = IF w.op = "lsl" THEN Found(Dest(w)) ELSE Off

-----------------------------------------------------------------------------
(* The driver.                                                             *)

Init ==
  /\ prog \in Programs
  /\ cur = 0
  /\ done = FALSE
  /\ cmp = Off /\ cset = Off /\ mov = Off /\ fnl = Off
  /\ pending = Idle /\ dc = Idle /\ mz = Idle /\ tb = Idle
  /\ out = {} /\ decoded = {} /\ gaps = {}

\* A target walk may answer "dead" only when the resource is dead there
\* (TargetWalk, DeadIsDead); it may always refuse.
Verdict(w, r) == {FALSE} \cup {b \in {TRUE} : IsDirectBranch(w) /\ DeadFrom(prog, w.to, r)}

\* Mutant: the first slot is not flushed.
FlushForgets ==
  /\ Emit(IF tb.on /\ tb.fallback # {} THEN tb.fallback
          ELSE IF mz.on THEN mz.fallback ELSE {})
  /\ cmp' = Off /\ cset' = Off /\ mov' = Off /\ fnl' = fnl
  /\ pending' = pending /\ dc' = Idle /\ mz' = Idle /\ tb' = Idle

\* armlint_flush: every unproven finding is discarded, but one downgrade is
\* complete without its proof and is reported -- the branch's before the
\* register's, one at most.  The funnel's tracker is left as it is.
Flush ==
  /\ Emit(IF tb.on /\ tb.fallback # {} THEN tb.fallback
          ELSE IF mz.on THEN mz.fallback ELSE {})
  /\ cmp' = Off /\ cset' = Off /\ mov' = Off /\ fnl' = fnl
  /\ pending' = Idle /\ dc' = Idle /\ mz' = Idle /\ tb' = Idle

AtCode == cur < N /\ ~IsPool(prog, cur)

\* A constant pool is stepped over, marker and words.
SkipPool ==
  /\ cur < N /\ IsPool(prog, cur)
  /\ Flush
  /\ cur' = NextSlot(prog, cur)
  /\ gaps' = gaps \cup (cur .. cur' - 1)
  /\ UNCHANGED <<prog, done, decoded>>

\* One word of opaque data is skipped.
SkipUndecodable ==
  /\ AtCode /\ prog[cur].op = "undef"
  /\ Flush
  /\ cur' = cur + 1
  /\ gaps' = gaps \cup {cur}
  /\ UNCHANGED <<prog, done, decoded>>

\* One pass over the registry: advancers first, so that a slot a check
\* reopens starts with the next word.
Instruction ==
  /\ AtCode /\ prog[cur].op # "undef"
  /\ LET w == prog[cur]
         a1 == AdvancePending(w)
         a2 == AdvancePendingDc(w)
         a4 == AdvancePendingTb(w)
     IN \E nzcvDead \in Verdict(w, NZCV), regDead \in Verdict(w, mz.finding.reg) :
          LET a3 == AdvancePendingMz(w, regDead)
          IN  /\ pending' = CheckPending(w, nzcvDead, a1.slot)
              /\ dc' = CheckDc(w, a2.slot)
              /\ mz' = CheckMz(w, a3.slot)
              /\ tb' = CheckTb(w, a4.slot)
              /\ Emit(a1.emit \cup a2.emit \cup a3.emit \cup a4.emit \cup CheckEmits(w))
              /\ Track(w)
  /\ cur' = cur + 1
  /\ decoded' = decoded \cup {cur}
  /\ UNCHANGED <<prog, done, gaps>>

EndOfBuffer ==
  /\ cur = N /\ ~done
  /\ Flush
  /\ done' = TRUE
  /\ UNCHANGED <<prog, cur, decoded, gaps>>

Returned == done /\ UNCHANGED vars

Next == SkipPool \/ SkipUndecodable \/ Instruction \/ EndOfBuffer \/ Returned

\* check_instructions is a plain loop: it runs until it returns.
Spec == Init /\ [][Next]_vars /\ WF_vars(Next)

-----------------------------------------------------------------------------
(* Properties.                                                             *)

\* A tracker or a slot that is not in use holds nothing.
Tracker  == [on : {TRUE}, reg : Resources, at : Slots] \cup {Off}
InUse    == [on : {TRUE}, finding : Findings, fallback : SUBSET Findings,
             window : 1 .. Window, target : Int]
SlotType == InUse \cup {Idle}

TypeOK ==
  /\ prog \in Programs /\ cur \in 0 .. N /\ done \in BOOLEAN
  /\ {cmp, cset, mov, fnl} \subseteq Tracker
  /\ pending \in SlotType /\ dc \in SlotType /\ mz \in SlotType /\ tb \in SlotType
  /\ out \subseteq Findings /\ decoded \subseteq Slots /\ gaps \subseteq Slots

\* The soundness rule of the README: a reported deletion provably preserves
\* the result.  What the deleted word wrote is dead after the rewritten
\* consumer, down every edge: overwritten, or past a call for the flags,
\* before anything can observe it.
DeadAfterIn(pr, f) ==
  \/ f.kind # "dc" /\ f.reg \in pr[f.use].writes
  \/ \A s \in Successors(pr[f.use], f.use) : DeadFrom(pr, s, f.reg)
FindingsSound == \A f \in out : f.kind \in Deleting => DeadAfterIn(prog, f)

\* No reported window can be entered past its top: no branch or call the
\* driver ever decodes, before the window or after it, targets its inside.
\* (The gate uses a map built by another loop, before the first word.)
EnteredAtTop ==
  done => \A f \in out, o \in decoded :
            IsDirectBranch(prog[o]) \/ prog[o].op = "bl" => prog[o].to \notin Inside(f)

\* A pair is reported once: never both as a fold and as its downgrade, and
\* never while a slot still holds it.
SamePair(f, g) == f.start = g.start /\ f.use = g.use
OneReport ==
  \A f \in out :
    /\ \A g \in out : SamePair(f, g) => f = g
    /\ \A p \in {pending, dc, mz, tb} : p.on => ~SamePair(f, p.finding)

\* A downgrade is complete at its consumer, so it is never lost with the
\* proof it backs up: it goes when the fold or it is reported (or gated), when
\* another deferral takes the slot, or when a flush reports the branch's.
Settled(p) == \E f \in p.fallback \cup {p.finding} : f \in out' \/ HasSideEntry(f)
Flushed    == cur \in gaps' \/ done'
FallbackKept ==
  [][/\ mz.fallback # {} /\ mz'.fallback # mz.fallback =>
          \/ Settled(mz)
          \/ mz'.on /\ mz'.finding.use = cur
          \/ Flushed /\ tb.fallback # {}
     /\ tb.fallback # {} /\ tb'.fallback # tb.fallback => Settled(tb)]_vars

\* No finding is proven across a word the driver skipped as data, and none
\* but the funnel's is matched across one: its shift is still tracked past
\* the gap (NoFoldAcrossGap), but its proof begins at the consumer.
Matched(f) == IF f.kind = "extr" THEN f.use ELSE f.start
ProofsStopAtGaps ==
  [][\A f \in out' \ out : (Matched(f) .. cur - 1) \cap gaps = {}]_vars

\* "Flush first so an in-progress sequence cannot straddle the gap": the
\* producer and the consumer of a reported pair have no gap between them.
NoFoldAcrossGap == \A f \in out : (f.start .. f.use) \cap gaps = {}

\* Findings may be applied together.  Whatever set of reported findings with
\* disjoint windows is applied, in the program that results what each
\* deletion no longer writes is still dead after its consumer: one rewrite
\* never deletes the overwrite, nor adds the read, another's proof is about.
\* This is of code that does not branch into a pool, where the words are not
\* code, and of pairs with nothing between their words (NoFoldAcrossGap).
Nop == [op |-> "alu", reads |-> {}, writes |-> {}, to |-> 0]
Rewritten(f) ==
  LET w == prog[f.use]
      from == prog[f.start].reads
  IN  CASE f.kind = "dc"  -> Nop
        [] f.kind = "cbz" -> [w EXCEPT !.op = "cbz", !.reads = from]
        [] f.kind = "zr"  -> [w EXCEPT !.reads = @ \ {f.reg}]
        [] f.kind \in {"extr", "cset", "cset-fb"} ->
             [w EXCEPT !.op = "alu", !.reads = (@ \ {f.reg}) \cup from]
        [] f.kind \in {"bcond", "bcond-fb"} ->
             [w EXCEPT !.op = "bcond", !.reads = from]
Applied(F) ==
  [o \in Slots |->
     IF \E f \in F : f.use = o THEN Rewritten(CHOOSE f \in F : f.use = o)
     ELSE IF \E f \in F : f.kind \in Deleting /\ f.start = o THEN Nop
     ELSE prog[o]]
Disjoint(F) ==
  \A f, g \in F : f # g => ({f.start} \cup Inside(f)) \cap ({g.start} \cup Inside(g)) = {}
LandsInCode ==
  \A o \in Visited : IsDirectBranch(prog[o]) /\ prog[o].to \in Slots => prog[o].to \in Visited
Adjacent(f) == f.kind = "dc" \/ f.use = f.start + 1
FindingsCompose ==
  done /\ LandsInCode =>
    \A F \in SUBSET {f \in out : Adjacent(f)} : Disjoint(F) =>
      \A f \in F : f.kind \in Deleting => DeadAfterIn(Applied(F), f)
=============================================================================
