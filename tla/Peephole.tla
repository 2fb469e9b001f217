------------------------------ MODULE Peephole ------------------------------
(***************************************************************************)
(* The folding checks at work on a buffer, one word at a time.             *)
(*                                                                         *)
(* At each word a check closes on what it holds from the words before, and *)
(* then holds the word if it is its producer.  Most checks hold the word   *)
(* just before (strict adjacency); the immediate chain waits through words *)
(* that do not touch its register, and the field insert collects a clear   *)
(* and an isolate in either order.                                         *)
(*                                                                         *)
(* A finding names a window of the buffer, the word it was made at, which  *)
(* may lie past the window, the words that replace the window, the         *)
(* register whose death the deferral must prove, and the fallback for when *)
(* it does not.  Stream models those proofs, the side-entry gate and the   *)
(* flushes; here they are the premise: the register is dead and the window *)
(* is entered at its top.                                                  *)
(***************************************************************************)
EXTENDS PairFolds

CONSTANTS
  Window,    \* LIVENESS_WINDOW
  Machines,  \* the machine states to execute findings from
  Families   \* the buffers to read: for each, the words of each position

\* The words of a buffer compute from registers and flags, or load with the
\* sign repeated (LDRSB, LDRSH, LDRSW, without writeback): what was decoded
\* can be encoded.  Other loads, stores, branches and system moves open
\* nothing and fold nothing.
SignedLoad(w) ==
  \E wd \in Exts \cup {H} :
    wd < Size(w) /\ w = Load(w.sf, w.d, w.n, "sxt", wd, 0)
Words ==
  [op : ComputeOps \cup {"ldr"}, sf : BOOLEAN, d : Gprs \cup {R31}, n : Gprs \cup {R31}, m : Gprs \cup {R31},
   a : Gprs \cup {R31}, sh : ShiftOps \cup {"sxt", "uxt"}, k : Int, wd : Nat, mask : SUBSET Low(W),
   cond : Conds]
RegisterStates ==
  [x : [Gprs -> SUBSET Low(W)], sp : SUBSET Low(W), base : SUBSET Low(W), mem : SUBSET Low(W),
   flags : [n : BOOLEAN, z : BOOLEAN, c : BOOLEAN, v : BOOLEAN]]
ASSUME PeepholeAssumption ==
  /\ Window \in Nat \ {0}
  /\ Machines \subseteq RegisterStates
  /\ \A f \in DOMAIN Families :
       /\ Families[f] \in Seq(SUBSET Words)
       /\ \A i \in DOMAIN Families[f] : \A w \in Families[f][i] :
            /\ Encodable(w)
            /\ w.op \in ArithOps \cup LogicOps => w.sh \in ShiftOps
            /\ w.op = "ldr" => SignedLoad(w)

VARIABLES
  family,    \* which buffers this behaviour reads
  buf,       \* the words read
  held,      \* per adjacent-pair check: the word before, if its producer
  asc,       \* asc_*: the ADD/SUB immediate that may start a chain
  bfx,       \* bfx_*: the clear and the isolate of a field insert
  out        \* the findings

vars == <<family, buf, held, asc, bfx, out>>

At      == Len(buf) + 1
Here(w) == [word |-> w, at |-> At]
Finding(start, count, fold) ==
  [start |-> start, count |-> count, at |-> At,
   rewrite |-> fold.rewrite, dead |-> fold.dead, kept |-> fold.kept]

-----------------------------------------------------------------------------
(* The adjacent pairs.                                                     *)

\* One tracker per check: what opens it, what it folds.
Trackers == {"shf", "fnl", "bsx", "lra", "alr", "aul", "aos", "sxt", "aec",
             "neg", "mvn", "ao", "mul", "wmul", "ext", "rcc", "cpa", "spm",
             "cset", "adr"}
Opens(t, w) ==
  CASE t = "shf" -> ShiftOpens(w)    [] t = "fnl" -> FunnelOpens(w)
    [] t = "bsx" -> BitfieldOpens(w) [] t = "lra" -> LsrAndOpens(w)
    [] t = "alr" -> AndLsrOpens(w)   [] t = "aul" -> UpOpens(w)
    [] t = "aos" -> InsertOpens(w)   [] t = "sxt" -> SextOpens(w)
    [] t = "aec" -> ChainOpens(w)    [] t = "neg" -> NegOpens(w)
    [] t = "mvn" -> MvnOpens(w)      [] t = "ao"  -> AddOneOpens(w)
    [] t = "mul" -> MulOpens(w)      [] t = "wmul" -> WideMulOpens(w)
    [] t = "ext" -> ExtendOpens(w)   [] t = "rcc" -> RegisterCopy(w)
    [] t = "cpa" -> CopyOpens(w)     [] t = "spm" -> SpMovOpens(w)
    [] t = "cset" -> CsetOpens(w)    [] t = "adr" -> w.op = "adr"
Closes(t, p, w) ==
  CASE t = "shf" -> ShiftFold(p, w)    [] t = "fnl" -> FunnelFold(p, w)
    [] t = "bsx" -> BitfieldFold(p, w) [] t = "lra" -> LsrAndFold(p, w)
    [] t = "alr" -> AndLsrFold(p, w)   [] t = "aul" -> UpFold(p, w)
    [] t = "aos" -> InsertFold(p, w)   [] t = "sxt" -> SextFold(p, w)
    [] t = "aec" -> ChainFold(p, w)    [] t = "neg" -> NegFold(p, w)
    [] t = "mvn" -> MvnFold(p, w)      [] t = "ao"  -> AddOneFold(p, w)
    [] t = "mul" -> MulFold(p, w)      [] t = "wmul" -> WideMulFold(p, w)
    [] t = "ext" -> ExtendFold(p, w)   [] t = "rcc" -> CopyChain(p, w)
    [] t = "cpa" -> CopyAdd(p, w)      [] t = "spm" -> SpMovOverwritten(p, w)
    [] t = "cset" -> CsetFold(p, w)    [] t = "adr" -> {}

\* Mutant: a word that opens nothing leaves the tracker armed.
HoldStays(w) == held' = [t \in Trackers |-> IF Opens(t, w) THEN {Here(w)} ELSE held[t]]

\* Every word expires every tracker, or opens it anew.
Hold(w) == held' = [t \in Trackers |-> IF Opens(t, w) THEN {Here(w)} ELSE {}]

\* What the next word makes of a move to SP is said of the move alone.
PairCount(t) == IF t = "spm" THEN 1 ELSE 2
ClosedBy(t, w) ==
  UNION {{Finding(h.at, PairCount(t), fold) : fold \in Closes(t, h.word, w)} : h \in held[t]}
PairFindings(w) == UNION {ClosedBy(t, w) : t \in Trackers}
SingleFindings(w) ==
  {Finding(At, 1, Replace(ws, {})) : ws \in Singles(w, held["adr"])}

-----------------------------------------------------------------------------
(* check_add_sub_imm_chain.                                                *)

\* Mutant: a word between that writes the source register is overlooked.
ChainUndisturbedSource(h, w) == ~ReadsReg(w, h.word.d) /\ ~WritesReg(w, h.word.d)

\* insn_writes_sp knows the ADD/SUB, immediate or extended, that names SP.
InsnWritesSp(w) == w.op \in {"addi", "addx", "subx"} /\ w.d = R31

\* A word between leaves the pair as if it were adjacent: it does not touch
\* the intermediate, nor move the source the sum will be added to.
ChainUndisturbed(h, w) ==
  /\ ~ReadsReg(w, h.word.d) /\ ~WritesReg(w, h.word.d)
  /\ IF h.word.n = R31 THEN ~InsnWritesSp(w) ELSE ~WritesReg(w, h.word.n)

\* The sum of two adjustments, at the second's place (a sum of 0 is MOV).
ChainFindings(w) ==
  {Finding(h.at, At - h.at + 1,
     Replace(Append(SubSeq(buf, h.at + 1, Len(buf)),
                    Shifted("addi", w.sf, w.d, h.word.n, h.word.k + w.k)),
             {h.word.d} \ {w.d})) :
     h \in {h \in asc :
              /\ w.op = "addi" /\ w.k # 0 /\ w.n = h.word.d /\ SameWidth(h.word, w)
              /\ AddSubEncodable(h.word.k + w.k)}}

\* A word that opens replaces the chain the check was waiting for; a chain
\* is given up when Window words have passed.
HoldChain(w) ==
  asc' = IF w.op = "addi" /\ w.k # 0 /\ w.d # R31
         THEN {[word |-> w, at |-> At, window |-> Window]}
         ELSE {[h EXCEPT !.window = @ - 1] :
                 h \in {h \in asc : ChainUndisturbed(h, w) /\ h.window > 1}}

-----------------------------------------------------------------------------
(* check_bfxil_synth: a clear and an isolate, in either order, then an ORR. *)

\* AND in place that clears one run.
ClearsField(w) == w.op = "andi" /\ OneRun(Low(Size(w)) \ w.mask) /\ w.d = w.n /\ w.d # R31

\* A low-mask AND or a UBFIZ (LSL among them) into a temporary.
IsolateOp(w) == /\ (LowMask(w) /\ w.d # w.n) \/ w.op \in {"ubfiz", "lsl"}
                /\ w.d # R31 /\ w.n # R31
IsolatedField(w) == CASE w.op = "andi"  -> w.mask
                      [] w.op = "ubfiz" -> w.k .. w.k + w.wd - 1
                      [] w.op = "lsl"   -> w.k .. Size(w) - 1
CombineOp(w) == w.op = "orr" /\ w.k = 0

\* clear is the register cleared, isolate the temporary and its source; both
\* are of the same field and width, and first is where the window begins.
NoInsert == [clear |-> {}, isolate |-> {}, sf |-> TRUE, field |-> {}, first |-> 0]
SameField(w, bits) == bfx.sf = w.sf /\ bfx.field = bits

HoldInsert(w) ==
  LET cleared == Low(Size(w)) \ w.mask
      fresh(bits) == [NoInsert EXCEPT !.sf = w.sf, !.field = bits, !.first = At]
  IN  bfx' =
        IF ClearsField(w)
        THEN [IF bfx.isolate # {} /\ SameField(w, cleared) THEN bfx ELSE fresh(cleared)
                EXCEPT !.clear = {w.d}]
        ELSE IF IsolateOp(w)
        THEN [IF bfx.clear # {} /\ SameField(w, IsolatedField(w)) THEN bfx
              ELSE fresh(IsolatedField(w))
                EXCEPT !.isolate = {[t |-> w.d, s |-> w.n]}]
        ELSE NoInsert

\* The window is three words, whatever was displaced since it began.
InsertFindings(w) ==
  {Finding(bfx.first, 3,
     Replace(<<Field("bfi", w.sf, w.d, i.s, Min(bfx.field), Cardinality(bfx.field))>>, {i.t})) :
     i \in {i \in bfx.isolate :
              /\ CombineOp(w) /\ bfx.sf = w.sf
              /\ bfx.clear = {w.d} /\ {w.n, w.m} = {w.d, i.t}
              /\ i.t # w.d /\ i.t # i.s /\ i.s # w.d}}

-----------------------------------------------------------------------------
(* The buffers whose folds are sound: the three spellings left out are ones *)
(* a check misjudges.                                                      *)

\* check_add_sub_zero calls it a no-op, yet it clears the high half.
ZeroesHighHalf(w) == w.op = "addi" /\ w.k = 0 /\ ~w.sf /\ w.d = w.n /\ w.d # R31

\* Words that write SP unknown to insn_writes_sp: the logical immediates.
WritesSpUnseen(w) == w.d = R31 /\ w.op \in SpDest \ {"addi", "addx", "subx"}
ReadsSp(w)        == w.op = "addi" /\ w.k # 0 /\ w.n = R31

\* A third clear or isolate displaces one of the field insert's two.
InsertPart(w) == ClearsField(w) \/ IsolateOp(w)

Ordinary(families) ==
  \A f \in DOMAIN families :
    LET Some(i, Is(_)) == i \in DOMAIN families[f] /\ \E w \in families[f][i] : Is(w)
    IN  \A i \in DOMAIN families[f] :
          /\ ~Some(i, ZeroesHighHalf)
          /\ Some(i, ReadsSp) => \A j \in DOMAIN families[f] : j > i => ~Some(j, WritesSpUnseen)
          /\ \E j \in i .. i + 2 : ~Some(j, InsertPart)

-----------------------------------------------------------------------------
(* The buffer.                                                             *)

Init ==
  /\ family \in DOMAIN Families
  /\ buf = <<>>
  /\ held = [t \in Trackers |-> {}]
  /\ asc = {}
  /\ bfx = NoInsert
  /\ out = {}

Instruction ==
  /\ Len(buf) < Len(Families[family])
  /\ \E w \in Families[family][At] :
       /\ buf' = Append(buf, w)
       /\ out' = out \cup PairFindings(w) \cup SingleFindings(w)
                     \cup ChainFindings(w) \cup InsertFindings(w)
       /\ Hold(w) /\ HoldChain(w) /\ HoldInsert(w)
  /\ UNCHANGED family

EndOfBuffer == Len(buf) = Len(Families[family]) /\ UNCHANGED vars

Next == Instruction \/ EndOfBuffer
Spec == Init /\ [][Next]_vars

-----------------------------------------------------------------------------
(* Properties.                                                             *)

TypeOK ==
  /\ family \in DOMAIN Families
  /\ Len(buf) <= Len(Families[family])
  /\ \A i \in DOMAIN buf : buf[i] \in Families[family][i]
  /\ \A t \in Trackers : \A h \in held[t] : h.at = Len(buf) /\ h.word = buf[h.at]
  /\ \A h \in asc : h.word = buf[h.at] /\ h.window \in 1 .. Window
  /\ \A f \in out : /\ f.at \in 1 .. Len(buf) /\ f.start \in 1 .. f.at
                    /\ f.count \in 1 .. f.at - f.start + 1 /\ f.dead \subseteq Gprs

\* Two runs end alike, the dead registers aside.
Alike(m1, m2, dead) ==
  /\ m1.flags = m2.flags /\ m1.sp = m2.sp
  /\ \A r \in Gprs \ dead : m1.x[r] = m2.x[r]
Equivalent(ws, rewrite, rest, dead) ==
  \A m \in Machines : Alike(Run(m, ws), Run(Run(m, rewrite), rest), dead)

\* What was read from the window to the word that made the finding, and of
\* that what follows the window.
ReadFrom(f)  == SubSeq(buf, f.start, f.at)
ReadAfter(f) == SubSeq(buf, f.start + f.count, f.at)

\* The soundness rule of the README: from any registers and flags, the
\* rewrite in the place of the window leaves what the words read leave, but
\* for the register the deferral proves dead; and the fallback leaves exactly
\* that, since it is emitted when nothing was proved.
FoldsSound ==
  \A f \in out : /\ Equivalent(ReadFrom(f), f.rewrite, ReadAfter(f), f.dead)
                 /\ \A ws \in f.kept : Equivalent(ReadFrom(f), ws, ReadAfter(f), {})

\* Every suggested word can be encoded: fields fit the register, immediates
\* the instruction.
RewritesEncode ==
  \A f \in out : \A ws \in {f.rewrite} \cup f.kept :
    \A i \in DOMAIN ws : Encodable(ws[i])

\* The checks share words but not windows: no two of them report the same
\* window, so no fold is counted twice and none displaces another from the
\* one deferral slot.
ReportedOnce ==
  \A f, g \in out : f.start = g.start /\ f.count = g.count => f = g

\* "(mask & ws) >> n is a bottom-aligned field -- a single UBFX -- iff": an
\* AND of one run and an in-place LSR are reported exactly when some UBFX
\* computes the pair.
AndLsrExact ==
  \A i \in {Len(buf) - 1} \ {-1, 0} :
    LET p == buf[i]
        w == buf[i + 1]
    IN  AndLsrOpens(p) /\ w.op = "lsr" /\ SameWidth(p, w) /\ InPlace(p, w) =>
          ((\E f \in out : f.start = i /\ f.count = 2) <=>
           (\E k \in Low(Size(w)) : \E wd \in 1 .. Size(w) - k :
              Equivalent(<<p, w>>, <<Field("ubfx", w.sf, w.d, p.n, k, wd)>>, <<>>, {})))
=============================================================================
