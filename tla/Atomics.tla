------------------------------ MODULE Atomics -------------------------------
(***************************************************************************)
(* Memory shared with other processors, the exclusive loads and stores and *)
(* the atomics of FEAT_LSE (external: the architecture).  Memory is one    *)
(* variable at the address Here and one elsewhere; accesses to it are in   *)
(* one order, so that acquire and release say nothing here.                *)
(*                                                                         *)
(* wd is the width of an access.  STXR writes its status to d and stores   *)
(* m; an atomic returns the old value in d and combines it with m; CAS     *)
(* compares with d and stores m.                                           *)
(***************************************************************************)
EXTENDS Alu

CONSTANT Here

Access(op, wd, d, m, n) == [Ternary(op, wd = W, d, n, m) EXCEPT !.wd = wd]
Ldxr(wd, d, n)          == Access("ldxr", wd, d, R31, n)
Stxr(wd, d, m, n)       == Access("stxr", wd, d, m, n)

FetchOps  == {"ldadd", "ldset", "ldeor", "ldclr", "swp"}
AtomicOps == FetchOps \cup {"cas"}
Exclusive == {"ldxr", "stxr"}

Cells == {"here", "there"}
CellOf(m, w) == IF m.x[w.n] = Here THEN "here" ELSE "there"

\* What an access of w reads of its cell, and the memory when it writes v.
Fetched(memory, c, w)    == memory[c] \cap Low(w.wd)
Written(memory, c, w, v) == [memory EXCEPT ![c] = (@ \ Low(w.wd)) \cup (v \cap Low(w.wd))]

Combined(w, old, v) ==
  CASE w.op = "ldadd" -> Bits(NatOf[old] + NatOf[v], w.wd)
    [] w.op = "ldset" -> old \cup v
    [] w.op = "ldeor" -> SymDiff(old, v)
    [] w.op = "ldclr" -> old \ v
    [] w.op = "swp"   -> v

\* A machine with shared memory in its field mem executes a word at once.
Atomically(m, w) ==
  LET c   == CellOf(m, w)
      old == Fetched(m.mem, c, w)
      v   == Reads(m, w, w.m) \cap Low(w.wd)
      new == IF w.op # "cas" THEN Combined(w, old, v)
             ELSE IF m.x[w.d] \cap Low(w.wd) = old THEN v ELSE old
  IN  [m EXCEPT !.mem = Written(@, c, w, new), !.x[w.d] = old]
ExecShared(m, w) == IF w.op \in AtomicOps THEN Atomically(m, w) ELSE Exec(m, w)
RunShared(m, words) == FoldLeft(ExecShared, m, words)

\* The registers and flags alone.
Own(m) == [m EXCEPT !.mem = {}]
=============================================================================
