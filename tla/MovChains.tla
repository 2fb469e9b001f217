----------------------------- MODULE MovChains ------------------------------
(***************************************************************************)
(* MOV chains: a MOVZ or MOVN and the MOVKs that extend it, as operators   *)
(* on the tracker's record, and the checks on a chain and on the operation *)
(* that consumes its constant.                                             *)
(*                                                                         *)
(* A finding replaces the words first .. last by new and shows the words   *)
(* from .. last; the registers in dead are left different, and the finding *)
(* waits in the pending slot (see Stream) until they are proven dead.      *)
(***************************************************************************)
EXTENDS KnownValues

CONSTANTS Cage       \* x28 under the V8 cage feature; {} without it

ASSUME MovChainsAssumption == Cage \subseteq Gprs

Finding(check, first, last, new, dead) ==
  [check |-> check, from |-> first, first |-> first, last |-> last, new |-> new, dead |-> dead]

-----------------------------------------------------------------------------
(* The chain: {} or {[d, sf, start, count, v]}.                            *)

Opens(w)     == w.op \in {"movz", "movn"} /\ w.d # R31
Links(ch, w) == w.op = "movk" /\ \E c \in ch : c.d = w.d /\ c.sf = w.sf

\* Mutant: a word that neither opens nor extends a chain leaves it open.
ChainAfterOpen(ch, w, at) ==
  IF Opens(w)
  THEN {[d |-> w.d, sf |-> w.sf, start |-> at, count |-> 1, v |-> Valued(w, {}, {}, {})]}
  ELSE IF Links(ch, w) THEN {[c EXCEPT !.count = @ + 1, !.v = Valued(w, c.v, {}, {})] : c \in ch}
  ELSE ch

ChainAfter(ch, w, at) ==
  IF Opens(w)
  THEN {[d |-> w.d, sf |-> w.sf, start |-> at, count |-> 1, v |-> Valued(w, {}, {}, {})]}
  ELSE {[c EXCEPT !.count = @ + 1, !.v = Valued(w, c.v, {}, {})] : c \in {c \in ch : Links(ch, w)}}

\* render_minimal_mov_wide: ties between the bases go to MOVZ.
MinimalMovWide(sf, d, v) ==
  LET pieces  == 0 .. Width(sf) \div Piece - 1
      In(p)   == {i \in Low(Piece) : Piece * p + i \in v}
      nonzero == {p \in pieces : In(p) # {}}
      nonones == {p \in pieces : In(p) # Low(Piece)}
      movn    == Larger(Cardinality(nonones), 1) < Larger(Cardinality(nonzero), 1)
      base    == IF movn THEN "movn" ELSE "movz"
      kept    == SetToSortSeq(IF movn THEN nonones ELSE nonzero, <)
  IN  IF kept = <<>> THEN <<MoveWide(base, sf, d, 0, {})>>
      ELSE [i \in DOMAIN kept |->
              IF i > 1 THEN MoveWide("movk", sf, d, kept[i], In(kept[i]))
              ELSE MoveWide(base, sf, d, kept[i],
                            IF movn THEN Low(Piece) \ In(kept[i]) ELSE In(kept[i]))]

Bitmask(v, sf) == v \in BitmaskImmediates[Width(sf)]

\* Mutant: a chain as long as its value needs is reported.
SuboptimalAtMinimum(c) ==
  Bitmask(c.v, c.sf) \/ c.count >= MinimalMovWideCount(c.v, Width(c.sf))

Suboptimal(c) ==
  Bitmask(c.v, c.sf) \/ c.count > MinimalMovWideCount(c.v, Width(c.sf))

\* mov_close: a word that does not extend the chain ends it.
ChainClosed(ch, w, at) ==
  {Finding("suboptimal", c.start, at - 1,
           IF Bitmask(c.v, c.sf) THEN <<MovImm(c.sf, c.d, c.v)>> ELSE MinimalMovWide(c.sf, c.d, c.v), {}) :
     c \in {c \in ch : ~Links(ch, w) /\ c.count >= 2 /\ Suboptimal(c)}}

-----------------------------------------------------------------------------
(* The consumers.  The constant is either operand of a commutative         *)
(* operation and only the second of the others; the other operand must not *)
(* be the constant's register, whose chain could then not be deleted.      *)

Consumed(c, w, second) ==
  (IF w.m = c.d THEN {w.n} ELSE IF w.n = c.d /\ ~second THEN {w.m} ELSE {}) \ {R31, c.d}
Consumption(check, c, w, at, new) ==
  Finding(check, c.start, at, new, IF w.d = c.d THEN {} ELSE {c.d})
Unshifted(w) == w.sh = "lsl" /\ w.k = 0
Sets(w)      == w.op \in {"adds", "subs"}
Subtracts(w) == w.op \in {"sub", "subs"}
AddImm(w, n, sub, mag) ==
  IF Sets(w) THEN Shifted(IF sub THEN "subsi" ELSE "addsi", w.sf, w.d, n, mag)
  ELSE Shifted("addi", w.sf, w.d, n, IF sub THEN -mag ELSE mag)
Negated(v, sf) == (2^Width(sf) - NatOf[v]) % (2^Width(sf))

\* check_mov_add_sub_imm_fold: one immediate, of the constant or, sign
\* crossed, of a negative constant's magnitude.
ImmFold(c, n, w, at) ==
  LET crossed == ~AddSubEncodable(NatOf[c.v])
      mag     == IF crossed THEN Negated(c.v, c.sf) ELSE NatOf[c.v]
  IN  IF /\ c.v # {}
         /\ crossed => Top(c.sf) \in c.v /\ AddSubEncodable(mag)
      THEN {Consumption("add_imm", c, w, at, <<AddImm(w, n, Subtracts(w) # crossed, mag)>>)}
      ELSE {}
AddSubImm(ch, w, at) ==
  IF w.op \notin ArithOps \/ ~Unshifted(w) \/ (w.d = R31 /\ ~Sets(w)) THEN {}
  ELSE UNION {ImmFold(c, n, w, at) : c \in {c \in ch : c.sf = w.sf}, n \in Gprs \cap
                                     UNION {Consumed(c, w, Subtracts(w)) : c \in ch}}

\* check_mov_add_sub_split: two immediates, where the chain takes two words
\* or more and is not itself reported; the widths may differ.
SplitFold(c, n, w, at) ==
  LET v       == c.v \cap Mask(w.sf)
      crossed == NatOf[v] >= 2^(2 * ImmBits)
      mag     == IF crossed THEN Negated(v, w.sf) ELSE NatOf[v]
      lo      == mag % (2^ImmBits)
      hi      == mag - lo
      sub     == Subtracts(w) # crossed
  IN  IF mag < 2^(2 * ImmBits) /\ hi # 0 /\ lo # 0 /\ ~Suboptimal(c)
      THEN {Consumption("add_split", c, w, at, <<AddImm(w, n, sub, hi), AddImm(w, w.d, sub, lo)>>)}
      ELSE {}
AddSubSplit(ch, w, at) ==
  IF w.op \notin {"add", "sub"} \/ ~Unshifted(w) \/ w.d = R31 THEN {}
  ELSE UNION {SplitFold(c, n, w, at) : c \in {c \in ch : c.count >= 2}, n \in Gprs \cap
                                       UNION {Consumed(c, w, Subtracts(w)) : c \in ch}}

\* The logical immediate an operation with the constant amounts to.
LogicImm(op) ==
  CASE op \in {"and", "bic"} -> "andi" [] op \in {"orr", "orn"} -> "orri"
    [] op \in {"eor", "eon"} -> "eori" [] op \in {"ands", "bics"} -> "andsi"
Direct(c, w) == IF w.op \in InvertedOps THEN Mask(c.sf) \ c.v ELSE c.v
LogicConsumer(w, ops) ==
  w.op \in ops /\ Unshifted(w) /\ (w.d = R31 => w.op \in {"ands", "bics"})

\* check_mov_logic_imm_fold.
LogicFold(ch, w, at) ==
  {Consumption("logic_imm", x[1], w, at, <<Masked(LogicImm(w.op), w.sf, w.d, x[2], Direct(x[1], w))>>) :
     x \in {x \in ch \X Gprs :
              /\ LogicConsumer(w, LogicOps) /\ x[1].sf = w.sf
              /\ x[2] \in Consumed(x[1], w, w.op \in InvertedOps)
              /\ Bitmask(Direct(x[1], w), w.sf)}}

\* check_mov_cage_orr_add: the low half of the cage base is zero.
CageFold(ch, w, at) ==
  {Consumption("cage", x[1], w, at, <<Shifted("addi", TRUE, w.d, x[2], NatOf[x[1].v])>>) :
     x \in {x \in ch \X Cage :
              /\ LogicConsumer(w, {"orr"}) /\ w.sf /\ x[1].sf
              /\ x[2] \in Consumed(x[1], w, FALSE)
              /\ x[1].v \subseteq Low(H) /\ AddSubEncodable(NatOf[x[1].v])
              /\ ~Bitmask(x[1].v, TRUE)}}

\* check_cheap_const_copy: a copy of a one-word constant, which stays.
CheapCopy(ch, w, at) ==
  {[Finding("cheap_copy", at, at, <<MovImm(w.sf, w.d, c.v \cap Mask(w.sf))>>, {})
      EXCEPT !.from = c.start] :
     c \in {c \in ch :
              /\ c.count = 1 /\ w.op = "orr" /\ Unshifted(w) /\ w.n = R31
              /\ w.m = c.d /\ w.d \notin {R31, w.m}
              /\ c.v \cap Mask(w.sf) # {}
              /\ OneInstructionConstant(c.v \cap Mask(w.sf), Width(w.sf))}}

\* nearest_bitmask_immediate: those that agree on the bits cared about, of
\* the largest element that has one, at the least distance (the code takes
\* the first of equals, here any).
Nearest(imm, care, s) ==
  LET Agree(e) == {v \in Replicated(s, e) : SymDiff(v, imm) \cap care = {}}
      sizes    == {e \in ElementSizes(s) : Agree(e) # {}}
      Far(v)   == Cardinality(SymDiff(v, imm))
  IN  IF sizes = {} THEN {}
      ELSE LET best == Agree(Max(sizes))
           IN  {v \in best : \A u \in best : Far(v) <= Far(u)}

\* check_mov_logic_known_bits: AND and TST with a constant that is a bitmask
\* immediate on the bits the other operand may have.
KnownBitsFold(ch, kv, w, at) ==
  UNION {UNION {
    {Consumption("known_bits", x[1], w, at, <<Masked(LogicImm(w.op), w.sf, w.d, x[2], v)>>) :
       v \in Nearest(Direct(x[1], w), may, Width(w.sf))} :
         may \in {may \in MayBits(kv, x[2], w.sf) : Direct(x[1], w) \cap may # {}}} :
    x \in {x \in ch \X Gprs :
             /\ LogicConsumer(w, {"and", "bic", "ands", "bics"}) /\ x[1].sf = w.sf
             /\ x[2] \in Consumed(x[1], w, w.op \in InvertedOps)
             /\ ~Bitmask(Direct(x[1], w), w.sf)}}
=============================================================================
