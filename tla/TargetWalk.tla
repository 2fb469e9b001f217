----------------------------- MODULE TargetWalk -----------------------------
(***************************************************************************)
(* The bounded proof that a resource is dead at a branch target:           *)
(* nzcv_dead_at_target for the condition flags and its twin                *)
(* reg_dead_at_target for a general register.  A depth-first worklist over *)
(* the buffer: a stack of edges still to be walked, the list of slots      *)
(* already examined, and a window that bounds each straight run.           *)
(*                                                                         *)
(* The program, the watched resource and the target are chosen once, in    *)
(* Init, so that one run covers every call of either function.             *)
(***************************************************************************)
EXTENDS A64Flow, SequencesExt

CONSTANTS
  MaxPaths,    \* NZCV_TARGET_PATHS: edges that may wait at once
  Budget,      \* NZCV_TARGET_BUDGET: words examined in one proof
  Targets      \* the branch targets proofs start from

ASSUME BoundsAssumption ==
  /\ MaxPaths \in Nat \ {0}
  /\ Budget \in Nat \ {0}
  /\ Targets \subseteq Int

VARIABLES
  prog,      \* the buffer
  watch,     \* the resource whose death is to be proved
  target,    \* where the proof starts
  phase,     \* "pop" between paths, "walk" inside one, then the verdict
  pathAt,    \* path_at: the edges waiting to be walked
  at,        \* the slot the current path has reached
  window,    \* words the current straight run may still examine
  seen,      \* seen: the slots examined, in order
  arrived    \* reg_dead_at_target: was `at` reached by a branch?

vars == <<prog, watch, target, phase, pathAt, at, window, seen, arrived>>

Verdicts == {"dead", "unproven"}

-----------------------------------------------------------------------------
Init ==
  /\ prog \in Programs
  /\ watch \in Resources
  /\ target \in Targets
  /\ phase = "pop"
  /\ pathAt = <<target>>
  /\ at = target
  /\ window = Window
  /\ seen = <<>>
  /\ arrived = TRUE

Op == prog[at]

\* Which branches a walk goes through.  The flags survive every direct
\* branch but B.cond, which reads them; a register survives every direct
\* branch but a CBZ/TBZ of itself.
Follows(w) ==
  IF watch = NZCV THEN w.op \in {"b", "cbz"}
  ELSE IsDirectBranch(w) /\ ~BranchReadsReg(w, watch)

\* The grade that decides at a word the walk does not follow.
Grade(w) == IF watch = NZCV THEN ClassifyLiveness(w)
            ELSE ClassifyWordRegLiveness(w, watch)

\* Mutant: the last word of the buffer is taken to be outside it.
InBufferShort == at \in 0 .. N - 2

InBuffer  == at \in Slots
Examined  == at \in ToSet(seen)
\* The flag walk looks every word up; the register walk only those it
\* reaches by a branch.
LooksUp   == watch = NZCV \/ arrived
\* Mutant: the window is not tested.
CanExtendForever == Len(seen) < Budget /\ ~IsPool(prog, at)
\* Mutant: the walk enters constant pools.
CanExtendIntoPool == window > 0 /\ Len(seen) < Budget
CanExtend == window > 0 /\ Len(seen) < Budget /\ ~IsPool(prog, at)

-----------------------------------------------------------------------------
\* Mutant: the edge taken stays on the stack.
PopKeepsEdge ==
  /\ phase = "pop" /\ pathAt # <<>>
  /\ phase' = "walk"
  /\ at' = Last(pathAt)
  /\ window' = Window
  /\ arrived' = TRUE
  /\ UNCHANGED <<prog, watch, target, pathAt, seen>>

\* Take the most recently stacked edge, with a fresh window.
PopEdge ==
  /\ phase = "pop" /\ pathAt # <<>>
  /\ phase' = "walk"
  /\ at' = Last(pathAt)
  /\ pathAt' = Front(pathAt)
  /\ window' = Window
  /\ arrived' = TRUE
  /\ UNCHANGED <<prog, watch, target, seen>>

\* No edge is left: every path ended in a kill.
Conclude ==
  /\ phase = "pop" /\ pathAt = <<>>
  /\ phase' = "dead"
  /\ UNCHANGED <<prog, watch, target, pathAt, at, window, seen, arrived>>

Refuse ==
  /\ phase' = "unproven"
  /\ UNCHANGED <<prog, watch, target, pathAt, at, window, arrived>>

\* The path leaves the buffer (a null buffer is one of no slots).
LeaveBuffer ==
  /\ phase = "walk" /\ ~InBuffer
  /\ Refuse
  /\ UNCHANGED seen

\* The path meets a word an earlier path (or this one) already examined.
Rejoin ==
  /\ phase = "walk" /\ InBuffer
  /\ LooksUp /\ Examined
  /\ phase' = "pop"
  /\ UNCHANGED <<prog, watch, target, pathAt, at, window, seen, arrived>>

Fresh == phase = "walk" /\ InBuffer /\ ~(LooksUp /\ Examined)

\* The window, the budget or a constant pool ends the proof.
Exhaust ==
  /\ Fresh /\ ~CanExtend
  /\ Refuse
  /\ UNCHANGED seen

\* Examine the word at `at`: what every branch of the loop body below shares.
Examine == /\ Fresh /\ CanExtend
           /\ seen' = Append(seen, at)
           /\ UNCHANGED <<prog, watch, target>>

\* B: the walk carries on at its destination.
FollowJump ==
  /\ Examine
  /\ Follows(Op) /\ ~IsConditional(Op)
  /\ at' = Op.to
  /\ window' = Window
  /\ arrived' = TRUE
  /\ UNCHANGED <<phase, pathAt>>

\* Mutant: the stack is tested after the edge is pushed.
ForkEdgeLate ==
  /\ Examine
  /\ Follows(Op) /\ IsConditional(Op)
  /\ Len(pathAt) <= MaxPaths
  /\ pathAt' = Append(pathAt, Op.to)
  /\ at' = at + 1
  /\ window' = Window
  /\ arrived' = FALSE
  /\ UNCHANGED phase

\* A conditional branch: the taken edge waits its turn while the walk
\* carries on down the fall-through.
ForkEdge ==
  /\ Examine
  /\ Follows(Op) /\ IsConditional(Op)
  /\ Len(pathAt) < MaxPaths
  /\ pathAt' = Append(pathAt, Op.to)
  /\ at' = at + 1
  /\ window' = Window
  /\ arrived' = FALSE
  /\ UNCHANGED phase

ForkOverflow ==
  /\ Examine
  /\ Follows(Op) /\ IsConditional(Op)
  /\ Len(pathAt) = MaxPaths
  /\ Refuse

\* The word ends the life of the resource: this path is proven.
PathProven ==
  /\ Examine
  /\ ~Follows(Op) /\ Grade(Op) \in {"OVERWRITE", "TERM_SAFE"}
  /\ phase' = "pop"
  /\ UNCHANGED <<pathAt, at, window, arrived>>

\* A reader, or a transfer the walk does not follow.
PathRefused ==
  /\ Examine
  /\ ~Follows(Op) /\ Grade(Op) \in {"READ", "TERM_UNSAFE"}
  /\ Refuse

WalkOn ==
  /\ Examine
  /\ ~Follows(Op) /\ Grade(Op) = "UNKNOWN"
  /\ at' = at + 1
  /\ window' = window - 1
  /\ arrived' = FALSE
  /\ UNCHANGED <<phase, pathAt>>

\* One turn of the inner loop.
LoopBody ==
  \/ LeaveBuffer \/ Rejoin \/ Exhaust
  \/ FollowJump \/ ForkEdge \/ ForkOverflow
  \/ PathProven \/ PathRefused \/ WalkOn

\* nzcv_dead_at_target and reg_dead_at_target are the same loop; `watch`
\* tells which one runs.
NzcvDeadAtTarget == watch = NZCV /\ (PopEdge \/ LoopBody \/ Conclude)
RegDeadAtTarget  == watch # NZCV /\ (PopEdge \/ LoopBody \/ Conclude)

\* The caller has its verdict.
Returned == phase \in Verdicts /\ UNCHANGED vars

Next == NzcvDeadAtTarget \/ RegDeadAtTarget \/ Returned

\* The functions are plain loops: a call runs until it returns.
Spec == Init /\ [][Next]_vars /\ WF_vars(Next)

-----------------------------------------------------------------------------
(* Properties.                                                             *)

TypeOK ==
  /\ prog \in Programs
  /\ watch \in Resources
  /\ target \in Int
  /\ phase \in {"pop", "walk"} \cup Verdicts
  /\ pathAt \in Seq(Int)
  /\ at \in Int
  /\ window \in 0 .. Window
  /\ seen \in Seq(Slots)
  /\ arrived \in BOOLEAN

\* The two fixed-size arrays never overflow: path_at[NZCV_TARGET_PATHS] and
\* seen[NZCV_TARGET_BUDGET], whatever graph of branches the buffer holds.
ArraysInBounds == Len(pathAt) <= MaxPaths /\ Len(seen) <= Budget

\* A proof is a proof: when the walk answers "dead", no execution entering
\* at the target can observe the resource before a word kills it -- around
\* loops, through both edges of every branch, and past words that one path
\* examined and another merely rejoined.
DeadIsDead == phase = "dead" => DeadFrom(prog, target, watch)

\* The slots examined and the edges waiting always cover every way on from
\* what was examined, and nothing examined observes the resource; the
\* strengthening that makes DeadIsDead inductive.
Frontier == ToSet(pathAt) \cup (IF phase = "walk" THEN {at} ELSE {})
Known    == Frontier \cup ToSet(seen)
Covered(o) ==
  /\ ~IsPool(prog, o)
  /\ ~Observes(prog[o], watch)
  /\ Kills(prog[o], watch) \/ Successors(prog[o], o) \subseteq Known
WalkInv ==
  /\ phase = "dead" => pathAt = <<>>
  /\ phase # "unproven" => /\ target \in Known
                           /\ \A o \in ToSet(seen) : Covered(o)

\* The walk refuses only for a reason its comment lists: a bound was
\* reached, or by the classifiers' own grades some path from the target
\* really does end badly (a reader, a transfer not followed, a pool, the end
\* of the buffer).  Rejoining, the order of the stack and the lookup
\* shortcut of the register walk lose no proof.
Bounded == window = 0 \/ Len(seen) = Budget \/ Len(pathAt) = MaxPaths
GradedDead ==
  \E S \in SUBSET Slots :
    /\ target \in S
    /\ \A o \in S :
         /\ ~IsPool(prog, o)
         /\ \/ Follows(prog[o]) /\ Successors(prog[o], o) \subseteq S
            \/ /\ ~Follows(prog[o])
               /\ \/ Grade(prog[o]) \in {"OVERWRITE", "TERM_SAFE"}
                  \/ Grade(prog[o]) = "UNKNOWN" /\ o + 1 \in S
RefusalHasReason == phase = "unproven" => Bounded \/ ~GradedDead

\* Every proof attempt returns, also on a buffer whose branches loop.
AlwaysReturns == <>(phase \in Verdicts)
=============================================================================
