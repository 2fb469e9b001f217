--------------------------- MODULE DuplicateCode ----------------------------
(* Functions and their keys (armlint -d and -c).                           *)
(*                                                                         *)
(* A range is a sequence of words at a base address with the anchors of    *)
(* its symbol table; addresses are in bytes, four to a word.  The          *)
(* identical key folds the words as they execute, the parametric key masks *)
(* what tells instances of one piece of code apart.  A key is the sequence *)
(* of the values folded, so two are equal iff those are; the 64-bit hash   *)
(* is assumed to keep them apart.                                          *)
EXTENDS Integers, FiniteSets, SequencesExt

CONSTANT PageBytes    \* 4096: what ADRP and the low 12 bits split
ASSUME PageAssumption == PageBytes \in Nat \ {0}

\* disp: words from this one to the one named; imm: an immediate, the pages
\* of an ADRP, the words a literal load reads or a pool holds.
Word(op, rd, rn, rs, disp, imm) ==
  [op |-> op, rd |-> rd, rn |-> rn, rs |-> rs, disp |-> disp, imm |-> imm]

MoveOps     == {"movz", "movn", "movk"}
RelativeOps == {"branch", "literal", "adr"}
PageOps     == {"add", "mem"}
Padding     == {"nop", "zero"}

-----------------------------------------------------------------------------
(* The functions of a range.                                               *)

\* A size reaches no further than the next anchor.
\* Mutant: it does.
ReachPast(size, gap) == IF size # 0 THEN size ELSE gap
Reach(size, gap) == IF size # 0 /\ size < gap THEN size ELSE gap

\* A function starts at a word and ends with whole ones.
Whole(s, e) ==
  LET start == 4 * ((s + 3) \div 4)
  IN  [start |-> start, end |-> IF e <= start THEN start ELSE start + 4 * ((e - start) \div 4)]

\* The anchors, sorted by address, that lie below one.
Below(anchors, vaddr) == {i \in DOMAIN anchors : anchors[i].at < vaddr}

\* The anchors inside the range each open a function, which reaches to the
\* next or, when shorter, its own size; a range without one is a function.
Spans(r) ==
  LET len      == 4 * Len(r.words)
      first    == Cardinality(Below(r.anchors, r.base))
      last     == Cardinality(Below(r.anchors, r.base + len))
      Start(i) == r.anchors[i].at - r.base
      Gap(i)   == (IF i < last THEN Start(i + 1) ELSE len) - Start(i)
  IN  IF first = last THEN <<Whole(0, len)>>
      ELSE [n \in 1 .. last - first |->
              LET i == first + n IN Whole(Start(i), Start(i) + Reach(r.anchors[i].size, Gap(i)))]

\* The greatest anchor at or below an address, unless the address lies past
\* its size.
Anchor(anchors, vaddr) ==
  {a \in ToSet(anchors) : /\ a.at <= vaddr
                          /\ \A b \in ToSet(anchors) : b.at <= vaddr => b.at <= a.at
                          /\ a.size = 0 \/ vaddr - a.at < a.size}

At(r, o) == r.words[o \div 4 + 1]
Offsets(f) == {o \in f.start .. f.end - 1 : (o - f.start) % 4 = 0}
Target(r, o) == o + 4 * At(r, o).disp

\* A V8 pool: the words from its marker to its last, within the function.
\* A marker that opens none is the literal load to XZR it looks like.
PoolEnd(r, f, o) == o + 4 * (At(r, o).imm + 1)
IsPool(r, f, o)  == At(r, o).op = "pool" /\ At(r, o).imm # 0 /\ PoolEnd(r, f, o) <= f.end
IsLiteral(r, f, o) == At(r, o).op = "literal" \/ (At(r, o).op = "pool" /\ ~IsPool(r, f, o))
ReadEnd(r, o) == Target(r, o) + 4 * (IF At(r, o).op = "pool" THEN 2 ELSE At(r, o).imm)

\* The words marked as data: pool words, and what literal loads wholly inside
\* the function read.
Mark(r, f, s, o) ==
  LET data == {p \in Offsets(f) : IF IsPool(r, f, o) THEN o < p /\ p < PoolEnd(r, f, o)
                                  ELSE Target(r, o) <= p /\ p < ReadEnd(r, o)}
  IN  IF o < s.skip THEN s
      ELSE IF IsPool(r, f, o) THEN [skip |-> PoolEnd(r, f, o), data |-> s.data \cup data]
      ELSE IF IsLiteral(r, f, o) /\ Target(r, o) >= f.start /\ ReadEnd(r, o) <= f.end
        THEN [skip |-> s.skip, data |-> s.data \cup data]
      ELSE s
Marked(r, f) ==
  LET Upto[n \in 0 .. (f.end - f.start) \div 4] ==
        IF n = 0 THEN [skip |-> 0, data |-> {}] ELSE Mark(r, f, Upto[n - 1], f.start + 4 * (n - 1))
  IN  Upto
Marks(r, f) == Marked(r, f)[(f.end - f.start) \div 4].data

\* Trailing NOP and zero words belong to no function unless marked.
Trimmed(r, f) ==
  LET kept == {o \in Offsets(f) : At(r, o).op \notin Padding \/ o \in Marks(r, f)}
  IN  IF kept = {} THEN [f EXCEPT !.end = f.start]
      ELSE [f EXCEPT !.end = (CHOOSE o \in kept : \A p \in kept : p <= o) + 4]

-----------------------------------------------------------------------------
(* The keys.                                                               *)

\* The registers that hold an ADRP page after a word.
XZR == 31
PagesAfter(w, pages) ==
  CASE w.op \in {"branch", "jump"} -> {}
    [] w.op = "adrp"   -> pages \cup ({w.rd} \ {XZR})
    [] w.op = "access" -> pages \ {w.rd, w.rn, w.rs}
    [] OTHER           -> pages \ {w.rd}

\* The word without its target.
Keep(w)      == [w EXCEPT !.disp = 0, !.imm = IF w.op \in {"adrp", "pool"} THEN 0 ELSE @]
External     == -1                                  \* the tag of any outside target
Page(r, o)   == (r.base + o) \div PageBytes + At(r, o).imm
Inside(r, f, o) == Target(r, o) >= f.start /\ Target(r, o) < f.end
IsRelative(r, f, o) == At(r, o).op \in RelativeOps \/ IsLiteral(r, f, o)
\* Mutant: the low bits added to any register are masked.
MaskedFreely(w, pages) ==
  IF w.op \in MoveOps \cup PageOps THEN [w EXCEPT !.imm = 0] ELSE w
Masked(w, pages) ==
  IF w.op \in MoveOps \/ (w.op \in PageOps /\ w.rn \in pages) THEN [w EXCEPT !.imm = 0] ELSE w

\* What is folded of one word into the identical and the parametric key: of
\* data the word and a tag, of an outside target the word without it, with the
\* address and with a tag, of others the word and the word masked.
Folded(r, f, o, data, pages) ==
  LET w == At(r, o)
      Outside(where) == [ident |-> <<Keep(w), where>>, param |-> <<Keep(w), External>>]
  IN  CASE o \in data -> [ident |-> <<w>>, param |-> <<>>]
        [] o \notin data /\ w.op = "adrp" -> Outside(Page(r, o))
        [] o \notin data /\ IsRelative(r, f, o) /\ ~Inside(r, f, o) -> Outside(r.base + Target(r, o))
        [] OTHER -> [ident |-> <<w>>, param |-> <<Masked(w, pages)>>]

\* Both keys of a trimmed function whose span's marks are data: its size,
\* then its words.
Fold(r, f, data, s, o) ==
  LET k == Folded(r, f, o, data, s.pages)
  IN  [ident |-> Append(s.ident, k.ident), param |-> Append(s.param, k.param),
       pages |-> IF o \in data \/ IsPool(r, f, o) THEN s.pages ELSE PagesAfter(At(r, o), s.pages)]
Folds(r, f, data) ==
  LET size == f.end - f.start
      Upto[n \in 0 .. size \div 4] ==
        IF n = 0 THEN [ident |-> <<size>>, param |-> <<size>>, pages |-> {}]
        ELSE Fold(r, f, data, Upto[n - 1], f.start + 4 * (n - 1))
  IN  Upto
Keys(r, f, data) == Folds(r, f, data)[(f.end - f.start) \div 4]

-----------------------------------------------------------------------------
(* What the keys promise (the README's words).                             *)

\* Does the register hold an ADRP page before offset o, on the straight line?
HoldsPage(r, f, o, reg) ==
  \E p \in Offsets(f) :
    /\ p < o /\ At(r, p).op = "adrp" /\ At(r, p).rd = reg
    /\ \A q \in Offsets(f) \ Marks(r, f) : p < q /\ q < o =>
         /\ At(r, q).op \notin {"branch", "jump"}
         /\ reg # At(r, q).rd /\ (At(r, q).op = "access" => reg \notin {At(r, q).rn, At(r, q).rs})

\* Words a and b, of functions f and g, mean the same wherever they run.
SameMeaning(r, f, a, q, g, b) ==
  LET v == At(r, a)
      w == At(q, b)
  IN  IF a \in Marks(r, f) \/ ~(v.op = "adrp" \/ IsRelative(r, f, a)) THEN v = w
      ELSE /\ Keep(v) = Keep(w)
           /\ IF v.op = "adrp" THEN Page(r, a) = Page(q, b)
              ELSE IF Inside(r, f, a) THEN v.disp = w.disp
              ELSE r.base + Target(r, a) = q.base + Target(q, b)

\* They are the same but for the fields that tell instances apart.
SameShape(r, f, a, q, g, b) ==
  LET v == At(r, a)
      w == At(q, b)
  IN  \/ a \in Marks(r, f) /\ b \in Marks(q, g)
      \/ /\ a \notin Marks(r, f) /\ b \notin Marks(q, g)
         /\ v.op = w.op /\ v.rd = w.rd /\ v.rn = w.rn /\ v.rs = w.rs
         /\ CASE v.op \in MoveOps \cup {"adrp"} -> TRUE
              [] v.op \in PageOps  -> v.imm = w.imm \/ (HoldsPage(r, f, a, v.rn) /\ HoldsPage(q, g, b, w.rn))
              [] IsRelative(r, f, a) -> /\ IsRelative(q, g, b) /\ Keep(v) = Keep(w)
                                        /\ Inside(r, f, a) = Inside(q, g, b)
                                        /\ Inside(r, f, a) => v.disp = w.disp
              [] OTHER -> v = w

Copies(Same(_, _, _, _, _, _), r, f, q, g) ==
  /\ f.end - f.start = g.end - g.start
  /\ \A o \in Offsets(f) : Same(r, f, o, q, g, o - f.start + g.start)
=============================================================================
