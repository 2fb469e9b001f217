------------------------------ MODULE A64Flow ------------------------------
(***************************************************************************)
(* A64 words as armlint sees them: what a word reads and writes, where     *)
(* control goes after it, and how the linter's classifiers grade it for a  *)
(* liveness proof.  No state of its own; the walks and scans extend it.    *)
(*                                                                         *)
(* A word is a record.  `op` names the encoding class, `reads` and         *)
(* `writes` are the watched resources it touches -- the four condition     *)
(* flags as the one resource NZCV, and general registers -- and `to` is    *)
(* the slot a direct branch targets (for a V8 pool marker, the slot after  *)
(* the pool).  A slot is a byte offset divided by 4.                       *)
(***************************************************************************)
EXTENDS Integers, Sequences, FiniteSets

CONSTANTS
  Regs,      \* the general registers of the instance
  Words,     \* the words programs are made of
  N,         \* slots in the buffer (state->buf_len / 4)
  V8Pool,    \* is ARMLINT_FEATURE_V8POOL set?
  Window     \* LIVENESS_WINDOW: words one straight-line proof may examine

NZCV == "nzcv"
Resources == Regs \cup {NZCV}

CondBranchOps == {"bcond", "cbz"}          \* B.cond; CBZ/CBNZ/TBZ/TBNZ
TransferOps   == CondBranchOps \cup {"b", "bl", "ret", "br", "svc"}
DataOps       == {"alu", "cmp0", "cmp", "mov0", "str", "cset", "eor", "lsl",
                  "orr", "opaque", "undef", "pool"}
Ops           == TransferOps \cup DataOps

(***************************************************************************)
(* What the encodings guarantee: no control transfer writes a watched      *)
(* resource itself, only B.cond reads the flags among the direct branches, *)
(* and a direct branch other than CBZ/TBZ reads no general register.       *)
(***************************************************************************)
ASSUME WordsAssumption ==
  /\ NZCV \notin Regs
  /\ N \in Nat
  /\ V8Pool \in BOOLEAN
  /\ Window \in Nat \ {0}
  /\ Words \subseteq [op : Ops, reads : SUBSET Resources, writes : SUBSET Resources, to : Int]
  /\ \A w \in Words :
       /\ w.op \in TransferOps => w.writes = {}
       /\ w.op = "bcond" => w.reads = {NZCV}
       /\ w.op = "cbz" => w.reads \subseteq Regs
       /\ w.op \in {"b", "bl", "ret", "br"} => NZCV \notin w.reads
       /\ w.op = "b" => w.reads = {}

Slots    == 0 .. N - 1
Programs == [Slots -> Words]

(***************************************************************************)
(* V8 constant pools: `LDR XZR, #n` marks n data words.  A marker that     *)
(* counts no words, or more than remain, decodes as an ordinary load.      *)
(***************************************************************************)
IsPool(prog, o) == /\ V8Pool
                   /\ prog[o].op = "pool"
                   /\ prog[o].to \in o + 2 .. N
NextSlot(prog, o) == IF IsPool(prog, o) THEN prog[o].to ELSE o + 1

-----------------------------------------------------------------------------
(* The classifiers.                                                        *)

Liveness == {"OVERWRITE", "READ", "TERM_SAFE", "TERM_UNSAFE", "UNKNOWN"}

\* Every reader of the condition flags: B.cond, the flag-manipulation MSRs,
\* MRS NZCV, CSEL, CCMP, ADC/SBC, FCSEL, FCCMP and the MOPS main/epilogue.
ReadsNzcv(w) == NZCV \in w.reads

\* The encodings that write all of NZCV: ADDS/SUBS/ANDS/BICS, FCMP, FJCVTZS,
\* SUBPS, the SVE predicate setters.
SetsNzcv(w) == NZCV \in w.writes

\* Mutant: CBZ and TBZ, which leave the flags alone, do not end a scan.
ClassifyLivenessThrough(w) ==
  CASE ReadsNzcv(w)                          -> "READ"
    [] ~ReadsNzcv(w) /\ SetsNzcv(w)          -> "OVERWRITE"
    [] w.op \in {"bl", "ret"}                -> "TERM_SAFE"
    [] w.op \in {"b", "br"}                  -> "TERM_UNSAFE"
    [] OTHER                                 -> "UNKNOWN"

\* The NZCV grade of a word.  Reads are tested first, so a word that both
\* reads and writes the flags (CCMP) is a reader.
ClassifyLiveness(w) ==
  CASE ReadsNzcv(w)                          -> "READ"
    [] ~ReadsNzcv(w) /\ SetsNzcv(w)          -> "OVERWRITE"
    [] w.op \in {"bl", "ret"}                -> "TERM_SAFE"
    [] w.op \in {"b", "cbz", "br"}           -> "TERM_UNSAFE"
    [] OTHER                                 -> "UNKNOWN"

\* Capstone's per-operand access of one general register, corrected.
RegAccess(w, r) == [reads |-> r \in w.reads, writes |-> r \in w.writes]

\* The register grade the streaming scans use.  Any control transfer, and
\* any exception-generating word, ends the straight line unproven.
ClassifyRegLiveness(w, r) ==
  IF w.op \in TransferOps THEN "TERM_UNSAFE"
  ELSE IF RegAccess(w, r).reads THEN "READ"
  ELSE IF RegAccess(w, r).writes THEN "OVERWRITE"
  ELSE "UNKNOWN"

\* The register grade the target walk uses, from the encoding alone: what
\* it does not decode (SIMD&FP, system words, indirect transfers, loads from
\* a literal, words Capstone rejects) counts as a read.
ClassifyWordRegLiveness(w, r) ==
  IF w.op \in TransferOps \cup {"opaque", "undef", "pool"} THEN "READ"
  ELSE IF r \in w.reads THEN "READ"
  ELSE IF r \in w.writes THEN "OVERWRITE"
  ELSE "UNKNOWN"

IsDirectBranch(w)    == w.op \in CondBranchOps \cup {"b"}
IsConditional(w)     == w.op \in CondBranchOps
BranchReadsReg(w, r) == w.op = "cbz" /\ r \in w.reads

-----------------------------------------------------------------------------
(* What the processor does: the reference the proofs are measured against. *)

\* Executing w may let the present value of r be seen: w reads it, or leaves
\* for code this buffer does not determine.  Past a call, a return or a
\* system call a register may be an argument or a result; the flags are not
\* (the procedure call standard makes them caller-clobbered, and a system
\* call takes no argument in them).
Observes(w, r) ==
  \/ r \in w.reads
  \/ w.op = "br"
  \/ r # NZCV /\ w.op \in {"bl", "ret", "svc"}

\* Executing w ends the life of the present value of r.
Kills(w, r) ==
  \/ r \in w.writes
  \/ r = NZCV /\ w.op \in {"bl", "ret"}

\* Where control may be after the word at slot o.
Successors(w, o) ==
  CASE w.op = "b"              -> {w.to}
    [] w.op \in CondBranchOps  -> {o + 1, w.to}
    [] w.op \in {"ret", "br"}  -> {}
    [] OTHER                   -> {o + 1}

\* r is dead at slot t: no execution entering there sees its value before
\* ending its life.  Equivalently t lies in a set of slots that none
\* leaves with r alive, and in which nothing observes r.
DeadFrom(prog, t, r) ==
  \E S \in SUBSET Slots :
    /\ t \in S
    /\ \A o \in S : /\ ~IsPool(prog, o)
                    /\ ~Observes(prog[o], r)
                    /\ Kills(prog[o], r) \/ Successors(prog[o], o) \subseteq S
=============================================================================
