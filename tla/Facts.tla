------------------------------- MODULE Facts --------------------------------
(***************************************************************************)
(* What armlint knows along a buffer -- value numbers, pending dead        *)
(* writes, known values, zeroed tops, the MOV chain -- beside the machines *)
(* that execute the buffer.                                                *)
(*                                                                         *)
(* Each word is processed with one word of lookahead.  It is reached by    *)
(* falling through, and by a branch from elsewhere when it is a side entry *)
(* of the branch-target map; then any machine may arrive.  A conditional   *)
(* branch leaves the machines that did not take it.                        *)
(***************************************************************************)
EXTENDS ChainOps

CONSTANTS
  Programs,    \* [words |-> the words that may stand at each position,
               \*  entries |-> how many of them may be side entries]
  Machines,    \* the machines that may enter a region
  Probe        \* remembered computations from which one may be replaced

\* What a buffer holds was decoded: a field fits its register, a conditional
\* compare has no destination, an address is a whole register.
Instructions ==
  {w \in [op : (ComputeOps \ {"mov"}) \cup {"nop", "mrs", "fcmp"} \cup MemoryOps \cup Conditionals \cup Terminal,
          sf : BOOLEAN, d : Gprs \cup {R31}, n : Gprs \cup {R31}, m : Gprs \cup {R31}, a : Gprs \cup {R31},
          sh : STRING, k : Int, wd : Nat, mask : SUBSET Low(W), cond : Conds] :
     /\ Encodable(w)
     /\ w.op \in ArithOps \cup LogicOps => w.sh \in ShiftOps
     /\ w.op \in CondCmpOps \cup Conditionals \cup Terminal \cup {"nop"} => w.d = R31
     /\ w.op = "adr" => w.sf
     /\ w.op = "ldr" => w.wd <= Size(w)
     /\ w.op = "mrs" => 4 <= Size(w)}
Contents ==
  [x : [Gprs -> SUBSET Low(W)], sp : SUBSET Low(W), base : SUBSET Low(W), mem : SUBSET Low(W),
   flags : [n : BOOLEAN, z : BOOLEAN, c : BOOLEAN, v : BOOLEAN]]

ASSUME FactsAssumption ==
  /\ Probe \in Nat \ {0}
  /\ IsFiniteSet(Gprs) /\ (Gprs \cup {R31}) \cap {"sp", "nzcv", "zr"} = {}
  /\ Machines \subseteq Contents
  /\ \A p \in DOMAIN Programs :
       Programs[p].words \in Seq(SUBSET Instructions) \ {<<>>}

VARIABLES
  program,     \* the program the buffer is of
  buf,         \* the words processed
  ahead,       \* the next word, as {w}; {} at the end
  sides,       \* the positions that are side entries
  lv, dw, kv, wzx, chain,
  rem,         \* a division by a power of two at the last word
  reach,       \* reach[i]: the machines that may execute the i-th word
  leaving,     \* the machines that go on to the next word
  found,       \* what is let out at the last word
  gone,        \* the positions whose deletion has been reported
  decided      \* what the last word, a branch, was decided to do
vars == <<program, buf, ahead, sides, lv, dw, kv, wzx, chain, rem, reach, leaving, found, gone, decided>>

Init ==
  /\ program \in DOMAIN Programs
  /\ buf = <<>> /\ reach = <<>> /\ leaving = Machines
  /\ found = {} /\ gone = {} /\ decided = -1
  /\ ahead \in {{w} : w \in Programs[program].words[1]}
  /\ sides = {}
  /\ lv = [Region EXCEPT !.valid = FALSE]
  /\ dw = NoWrites
  /\ kv = KvStart
  /\ wzx = NoZeros
  /\ chain = {} /\ rem = {}

\* The machines that leave a word for the next.  What follows a transfer or
\* data is entered from elsewhere, if at all.
Successors(ms, w) ==
  IF w.op \in Terminal THEN Machines
  ELSE IF w.op \in Conditionals THEN {m \in ms : ~Takes(m, w)}
  ELSE {Exec(m, w) : m \in ms}

\* The positions a set of findings deletes.
Deleted(fs) == {f.first : f \in {f \in fs : f.check = "dead_write" \/ f.new = <<>>}}

-----------------------------------------------------------------------------
\* dw_emit: the oldest dead write proven.  Its deletion is unseen from there
\* through the overwrite.
DeadWriteFound(d, words) ==
  {[Finding("dead_write", r.at, r.by, SubSeq(words, r.at + 1, r.by), {}) EXCEPT !.from = r.by] :
     r \in {d.ready[i] : i \in DOMAIN d.ready \cap {1}}}

\* The checks of a word, in the registry's order: the constant fold and the
\* masks read what earlier checks left.
WordFindings(w, at, nx, l, k, zeros, n, dead) ==
  AddSubImm(chain, w, at) \cup AddSubSplit(chain, w, at) \cup LogicFold(chain, w, at)
  \cup KnownBitsFold(chain, k, w, at) \cup CageFold(chain, w, at) \cup CheapCopy(chain, w, at)
  \cup ChainUses(chain, rem, w, at)
  \cup (IF n.found THEN {Finding("recompute", at, at, <<>>, {})} ELSE {})
  \cup DeadWriteFound(dead, Append(buf, w))
  \cup {Finding("const_fold", at, at, new, {}) : new \in ConstFold(k, buf, at, w, n.same)}
  \cup ChainClosed(chain, w, at)
  \cup {Finding("csel_decided", at, at, new, {}) : new \in CselDecided(k, w)}
  \cup {Finding("and_noop", at, at, new, {}) : new \in AndKnownNoop(k, zeros, w, at)}
  \cup {[Finding("redundant_zext", at, at, <<>>, {}) EXCEPT !.from = z.at] :
          z \in RedundantZext(zeros, w)}

\* Mutant: a finding with a branch target inside is let through.
GatedNever(fs, entries) == fs

\* armlint_finding_has_side_entry: no branch target inside what is shown.
Gated(fs, entries) == {f \in fs : ~\E i \in entries : f.from < i /\ i <= f.last}

\* check_instructions: one word, its lookahead and its entry in the
\* branch-target map.  A branch to the next word makes that a side entry.
\* l, k and z are what the trackers hold once entered, n the word's number
\* and d the pending writes after it.
Tracked(w, at, next, side, l, k, z, n, d) ==
  /\ lv' = n.lv
  /\ dw' = Emitted(d)
  /\ kv' = Commit(k, buf, at, w)
  /\ wzx' = ZeroedBy(z, w, at)
  /\ found' = Gated(WordFindings(w, at, next, l, k, z, n, d), sides')
Numbering(w, at, next, side, l, k, z, n) ==
  Tracked(w, at, next, side, l, k, z, n, DeadWrites(dw, w, n.same, next, at))
Read(next, side, forgotten) ==
  /\ ahead # {}
  /\ LET w  == CHOOSE x \in ahead : TRUE
         at == Len(buf) + 1
         l  == [Entered(lv, side) EXCEPT !.table = @ \ forgotten]
     IN  /\ w.op # "data"
         /\ buf # <<>> => (Last(buf).op \in Conditionals /\ Last(buf).k = 1 => side)
         /\ forgotten # {} => Cardinality(lv.table) >= Probe
         /\ buf' = Append(buf, w)
         /\ reach' = Append(reach, leaving \cup IF side THEN Machines ELSE {})
         /\ leaving' = Successors(Last(reach'), w)
         /\ sides' = IF side THEN sides \cup {at} ELSE sides
         /\ Numbering(w, at, next, side, l, KvEntered(kv, side),
                      IF side THEN NoZeros ELSE wzx, Number(l, w, next, at))
         /\ chain' = ChainAfter(chain, w, at) /\ rem' = Dividing(chain, w, at)
         /\ gone' = gone \cup Deleted(found')
         /\ decided' = BranchDecided(KvEntered(kv, side), w)
  /\ ahead' = next
  /\ UNCHANGED program

\* armlint_flush, at a word that does not decode: what a region knew is
\* dropped, and one finding is let out.
Flush(next) ==
  /\ \E w \in ahead : w.op = "data" /\ buf' = Append(buf, w)
  /\ LET at     == Len(buf) + 1
         closed == ChainClosed(chain, Plain("data"), at)
     IN  found' = Gated(IF closed # {} THEN closed ELSE DeadWriteFound(dw, buf), sides)
  /\ gone' = gone \cup Deleted(found')
  /\ reach' = Append(reach, leaving)
  /\ leaving' = Machines
  /\ lv' = [lv EXCEPT !.valid = FALSE]
  /\ dw' = NoWrites
  /\ kv' = [kv EXCEPT !.valid = FALSE]
  /\ wzx' = NoZeros
  /\ chain' = {} /\ rem' = {}
  /\ decided' = -1
  /\ ahead' = next
  /\ UNCHANGED <<program, sides>>

Next ==
  LET at == Len(buf) + 2
  IN  \E next \in IF at > Len(Programs[program].words) THEN {{}} ELSE {{w} : w \in Programs[program].words[at]} :
        \/ Flush(next)
        \/ \E side \in IF Cardinality(sides) < Programs[program].entries THEN BOOLEAN ELSE {FALSE},
              forgotten \in {{}} \cup {{e} : e \in lv.table} : Read(next, side, forgotten)
Spec == Init /\ [][Next]_vars

-----------------------------------------------------------------------------
Position == DOMAIN buf

\* The trackers' records: numbers below the counter and keys numbered once,
\* one machine set per word, definers and sources among the words processed.
TypeOK ==
  /\ Len(reach) = Len(buf) /\ sides \subseteq Position
  /\ \A s \in Slots : lv.vn[s] \in 1 .. lv.next /\ lv.def[s] \in {0} \cup Position
  /\ \A e, f \in lv.table : (e.key = f.key \/ e.vn = f.vn) => e = f
  /\ Len(dw.ready) <= ReadyMax
  /\ \A r \in Gprs : \A p \in dw.pending[r] : p.at \in Position /\ p.window \in 1 .. Window
  /\ Len(kv.reps) <= RepMax /\ kv.rep \in {0} \cup DOMAIN kv.reps
  /\ \A r \in Gprs : Cardinality(kv.known[r]) <= 1 /\ kv.src[r].at \in {0} \cup Position
  /\ \A c \in chain : c.start + c.count - 1 = Len(buf)

\* The contents of a slot in a machine.
Holding(m, s) == CASE s = "sp" -> m.sp [] s = "nzcv" -> m.flags [] OTHER -> m.x[s]

\* Two slots with one number hold one value in every machine that goes on to
\* the next word, and a slot known to hold a constant holds it (the comment
\* before lvn_reset; lvn_const_value).
NumbersTrue ==
  lv.valid => \A m \in leaving :
    /\ \A s, t \in Gprs \cup {"sp"} : lv.vn[s] = lv.vn[t] => Holding(m, s) = Holding(m, t)
    /\ \A r \in Gprs : \A c \in lv.known[r] :
         m.x[r] = IF c.rel THEN AddWithCarry(m.base, c.v, FALSE, W).v ELSE c.v

\* What is known of a register is so in every machine that goes on: its bits,
\* its ranges in both views, the possible flags, the zeroed top (kv_commit,
\* check_redundant_zext).
FactsTrue ==
  \A m \in leaving :
    /\ kv.valid =>
         /\ \A r \in Gprs : \A f \in kv.known[r] :
              /\ f.k1 \subseteq m.x[r] /\ f.k0 \cap m.x[r] = {}
              /\ \A sf \in BOOLEAN :
                   LET v == m.x[r] \cap Mask(sf)
                   IN  /\ NatOf[v] \in f.ulo[sf] .. f.uhi[sf]
                       /\ SignedOf(v, Width(sf)) \in f.slo[sf] .. f.shi[sf]
         /\ StateOf(m.flags) \in kv.states \cap kv.kind
    /\ \A r \in Gprs : \A z \in wzx[r] : m.x[r] \subseteq Low(z.from)

\* Replacing the words of a finding leaves every machine that reaches them as
\* they would, but for the registers to be proven dead.  The cage fold is for
\* machines whose cage base is aligned.
RewritesSound ==
  \A f \in found : \A m \in reach[f.first] :
    LET was == Run(m, SubSeq(buf, f.first, f.last))
        now == Run(m, f.new)
    IN  (f.check = "cage" => \A c \in Cage : m.x[c] \cap Low(H) = {}) =>
          /\ \A r \in Gprs \ f.dead : was.x[r] = now.x[r]
          /\ was.sp = now.sp /\ was.flags = now.flags /\ was.mem = now.mem

\* A rewrite can be encoded and is shorter than what it replaces, or one
\* word for one.
RewritesGain ==
  \A f \in found :
    /\ \A i \in DOMAIN f.new : Encodable(f.new[i])
    /\ Len(f.new) < f.last - f.first + 1 \/ (Len(f.new) = 1 /\ f.last = f.first)

\* A branch reported as always or never taken is, by every machine that
\* reaches it (check_branch_decided).
BranchesDecided ==
  \A m \in UNION {reach[i] : i \in {Len(buf)} \ {0}} :
    /\ decided = 1 => Takes(m, Last(buf))
    /\ decided = 0 => ~Takes(m, Last(buf))

\* The checks of single words, and those of them that may claim one word
\* both: an AND or a select repeated is also a mask without effect or a
\* select decided, and an AND can have its result pinned by known bits where
\* only a range confines its input.
WordChecks == {"recompute", "const_fold", "csel_decided", "and_noop", "redundant_zext"}
Shared == {{"recompute", "csel_decided"}, {"recompute", "and_noop"}, {"const_fold", "and_noop"}}

\* No word is rewritten by two of the checks that leave each other's shapes
\* alone, or twice by one.
OneOwner ==
  \A f, g \in found :
    /\ f.first = g.first
    /\ {f.check, g.check} \subseteq WordChecks /\ {f.check, g.check} \notin Shared
    => f = g

\* A dead write and a word deleted because its register already holds the
\* result can both be acted on.
DeletionsCompose ==
  LET kept == SelectSeq([i \in Position |-> [at |-> i, word |-> buf[i]]], LAMBDA p : p.at \notin gone)
      now  == [i \in DOMAIN kept |-> kept[i].word]
  IN  (\A i \in Position : buf[i].op \notin Conditionals \cup Terminal) =>
        \A m \in Machines : Run(m, buf).x = Run(m, now).x
=============================================================================
