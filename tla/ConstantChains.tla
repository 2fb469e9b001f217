--------------------------- MODULE ConstantChains ---------------------------
(* The constants a range builds with move-wide chains, and those a         *)
(* function builds again (armlint -c).  A move-wide word moves the 16-bit  *)
(* immediate imm to a halfword; a value is its halfwords.                  *)
EXTENDS DuplicateCode

CONSTANT Ones     \* a halfword of ones

\* A move-wide word writes the halfword rs of a register at the width rn,
\* 1 for the X form.  The halfwords of a value tell its width.
Halves(w) == 0 .. IF w.rn = 1 THEN 3 ELSE 1

\* A MOVZ or MOVN and the MOVKs after it into its register.
MoveWideValue(w, old) ==
  [h \in Halves(w) |-> IF h = w.rs THEN w.imm
                       ELSE CASE w.op = "movz" -> 0 [] w.op = "movn" -> Ones [] OTHER -> old[h]]

NoChain == [length |-> 0, offset |-> 0, rd |-> 0, value |-> <<>>]
Closed(s) == IF s.open.length >= 2 THEN Append(s.chains, s.open) ELSE s.chains

\* A MOVK of the open chain's register at its width extends it.
Extends(w, open) ==
  w.op = "movk" /\ open.length # 0 /\ w.rd = open.rd /\ Halves(w) = DOMAIN open.value

\* One word of a range in address order; a pool or any word that extends no
\* chain closes the open one.
AfterWord(r, s, i) ==
  LET all == [start |-> 0, end |-> 4 * Len(r.words)]
      o   == 4 * (i - 1)
      w   == r.words[i]
  IN  IF o < s.skip THEN s
      ELSE IF IsPool(r, all, o)
        THEN [s EXCEPT !.skip = PoolEnd(r, all, o), !.chains = Closed(s), !.open = NoChain]
      ELSE IF Extends(w, s.open)
        THEN [s EXCEPT !.words = @ + 1, !.open.value = MoveWideValue(w, @), !.open.length = @ + 1]
      ELSE [s EXCEPT !.words = @ + 1, !.chains = Closed(s),
                     !.open = IF w.op \notin {"movz", "movn"} THEN NoChain
                              ELSE [length |-> 1, offset |-> o, rd |-> w.rd,
                                    value |-> MoveWideValue(w, <<>>)]]

ScanOf(r) ==
  LET Upto[i \in 0 .. Len(r.words)] ==
        IF i = 0 THEN [skip |-> 0, words |-> 0, chains |-> <<>>, open |-> NoChain]
        ELSE AfterWord(r, Upto[i - 1], i)
  IN  Upto

\* The words scanned and the chains of a range.
Scanned(r) ==
  LET s == ScanOf(r)[Len(r.words)] IN [words |-> s.words, chains |-> Closed(s)]

\* The words counted when a chain is recorded, which is when their array grows.
Records(r) ==
  LET s == ScanOf(r)
      n == Len(r.words)
  IN  {s[i].words : i \in {j \in 1 .. n : s[j].chains # s[j - 1].chains}}
        \cup {s[i].words : i \in {j \in {n} : Closed(s[j]) # s[j].chains}}

\* The functions counted: the spans that hold more than padding.
Functions(r) ==
  SelectSeq(Spans(r), LAMBDA f : \E o \in Offsets(f) : At(r, o).op \notin Padding)

\* The chains of each function: the next run of them, in address order.
\* Mutant: the chains before a function's start are not passed over.
RunFrom(chains, next, f) ==
  SelectSeq(SubSeq(chains, next, Len(chains)), LAMBDA c : c.offset < f.end)
Run(chains, next, f) ==
  SelectSeq(SubSeq(chains, next, Len(chains)), LAMBDA c : c.offset >= f.start /\ c.offset < f.end)
Passed(chains, next, f) ==
  Max({next} \cup {i + 1 : i \in {j \in next .. Len(chains) : chains[j].offset < f.end}})

\* Sorted by value, a function's builds of one value are a run of k; all but
\* the first are rebuilds.
Builds(run, v)  == SelectSeq(run, LAMBDA c : c.value = v)
Rebuilds(run)   == [v \in {run[i].value : i \in DOMAIN run} |-> Len(Builds(run, v)) - 1]
Lengths(chains) == FoldLeft(LAMBDA n, c : n + c.length, 0, chains)
Rebuilt(run, v) == Lengths(Tail(Builds(run, v)))
=============================================================================
