---------------------------- MODULE ValueNumbers ----------------------------
(***************************************************************************)
(* Local value numbering (check_value_recompute) and the dead writes that  *)
(* read what it decodes (check_dead_write), as operators on the tracker's  *)
(* record.                                                                 *)
(*                                                                         *)
(* Every register, SP and NZCV carries a number: two slots with equal      *)
(* numbers hold equal values.  A pure word's result is numbered from the   *)
(* word with its registers cleared and its inputs' numbers, or from the    *)
(* constant it computes; a word whose destination already carries the      *)
(* number it would assign changes nothing.                                 *)
(***************************************************************************)
EXTENDS Alu

CONSTANTS
  NumberMax,   \* a region restarts past this number (0xFFFFFF00)
  Window,      \* LIVENESS_WINDOW
  ReadyMax,    \* DW_READY_MAX: proven dead writes waiting to be emitted
  Frame        \* x29 and x30, which an unwinder may read at any time

ASSUME ValueNumbersAssumption ==
  /\ NumberMax \in Nat /\ Window \in Nat \ {0} /\ ReadyMax \in Nat \ {0}
  /\ Frame \subseteq Gprs

Slots == Gprs \cup {"sp", "nzcv"}
ZrOr(r) == IF r = R31 THEN "zr" ELSE r
SpOr(r) == IF r = R31 THEN "sp" ELSE r

-----------------------------------------------------------------------------
(* decode_lvn_op: what a pure word reads and writes.                       *)

\* The registers read, in the order the key lists them.
LvnIn(w) ==
  CASE w.op \in {"adr", "movz", "movn"} -> <<>>
    [] w.op = "movk" -> <<ZrOr(w.d)>>
    [] w.op \in ImmArithOps -> <<SpOr(w.n)>>
    [] w.op \in {"bfi", "bfxil"} -> <<ZrOr(w.n), ZrOr(w.d)>>
    [] w.op = "ror" -> <<ZrOr(w.n), ZrOr(w.n)>>
    [] w.op \in ExtArithOps -> <<SpOr(w.n), ZrOr(w.m)>>
    [] w.op \in MulOps -> <<ZrOr(w.n), ZrOr(w.m), ZrOr(w.a)>>
    [] w.op \in TwoRegisters \ (ExtArithOps \cup MulOps) -> <<ZrOr(w.n), ZrOr(w.m)>>
    [] OTHER -> <<ZrOr(w.n)>>
LvnOut(w) == IF w.op \in CondCmpOps THEN "zr" ELSE IF w.op \in SpDest THEN SpOr(w.d) ELSE ZrOr(w.d)
SetsFlags(w)  == w.op \in FlagOps
ReadsFlags(w) == w.op \in SelectOps \cup CarryOps \cup CondCmpOps
Impure == {"nop", "mrs", "fcmp"} \cup MemoryOps \cup Conditionals \cup Terminal
Pure(w) == w.op \notin Impure /\ (LvnOut(w) # "zr" \/ SetsFlags(w))

\* The X-form MOV and ADD/SUB #0: the destination takes its source's number.
MovX(w) == w.op = "orr" /\ w.sf /\ w.n = R31 /\ w.m # R31 /\ w.k = 0
Copy(w) == MovX(w) \/ (w.op = "addi" /\ w.sf /\ w.k = 0)
CopySrc(w) == IF w.op = "addi" THEN SpOr(w.n) ELSE w.m

\* The key's word: the operation with its register fields cleared.
KeyWord(w) == [w EXCEPT !.d = R31, !.n = R31, !.m = R31, !.a = R31]

-----------------------------------------------------------------------------
(* The region's numbers.                                                   *)

First  == CHOOSE f \in [Slots -> 1 .. Cardinality(Slots)] :
            \A s, t \in Slots : f[s] = f[t] => s = t
Region == [valid |-> TRUE, vn |-> First, def |-> [s \in Slots |-> 0],
           known |-> [r \in Gprs |-> {}], next |-> Cardinality(Slots), table |-> {},
           nzcvRead |-> TRUE, byCmp |-> FALSE, prev |-> <<>>]

Key(kind, word, in, v) == [kind |-> kind, word |-> word, in |-> in, v |-> v]
NoWord == Plain("nop")
ConstKey(c) == Key(IF c.rel THEN "rel" ELSE "const", NoWord, <<>>, c.v)

\* The number of a computation: the one it got earlier, or a fresh one.
Numbered(lv, key) ==
  IF \E e \in lv.table : e.key = key THEN lv
  ELSE [lv EXCEPT !.next = @ + 1, !.table = @ \cup {[key |-> key, vn |-> lv.next + 1]}]
NumberOf(lv, key) == (CHOOSE e \in lv.table : e.key = key).vn

\* The value constants determine, if they do: {[v, rel]} or {}.  A value of
\* ADR moves with the image (rel) and only the X-form MOV and ADD/SUB keep it.
LvnConst(lv, w) ==
  LET s == Size(w)
      Known(r)    == IF r = R31 THEN {[v |-> {}, rel |-> FALSE]} ELSE lv.known[r]
      Absolute(r) == {c.v : c \in {c \in Known(r) : ~c.rel}}
      Carried(r)  == {c \in Known(r) : c.rel => w.sf}
      Fixed(vs)   == {[v |-> v \cap Low(s), rel |-> FALSE] : v \in vs}
      Piece16     == Piece * w.k .. Piece * w.k + Piece - 1
      Imm         == {Piece * w.k + i : i \in w.mask}
  IN  IF SetsFlags(w) THEN {}
      ELSE CASE w.op = "adr"  -> {[v |-> w.mask, rel |-> TRUE]}
             [] w.op = "movz" -> Fixed({Imm})
             [] w.op = "movn" -> Fixed({Low(W) \ Imm})
             [] w.op = "movk" ->
                  IF w.d = R31 THEN {} ELSE Fixed({(v \ Piece16) \cup Imm : v \in Absolute(w.d)})
             [] w.op = "andi" -> Fixed({v \cap w.mask : v \in Absolute(w.n)})
             [] w.op = "orri" -> Fixed({v \cup w.mask : v \in Absolute(w.n)})
             [] w.op = "eori" -> Fixed({SymDiff(v, w.mask) : v \in Absolute(w.n)})
             [] w.op = "addi" /\ w.n # R31 ->
                  {[v |-> Bits((NatOf[c.v] + w.k) % 2^W, s), rel |-> c.rel] : c \in Carried(w.n)}
             [] w.op = "orr" /\ w.n = R31 /\ w.k = 0 ->
                  {[v |-> c.v \cap Low(s), rel |-> c.rel] : c \in Carried(w.m)}
             [] OTHER -> {}

\* A pure word's numbers: of its result, and of its flags if it sets them.
ByConst(lv, c, key) ==
  [lv |-> Numbered(lv, key), result |-> NumberOf(Numbered(lv, key), key), flags |-> 0, known |-> c]
ByInputs(lv, w, inputs) ==
  LET result == Key("result", KeyWord(w), inputs, {})
      flags  == Key("flags", KeyWord(w), inputs, {})
      l1     == Numbered(lv, result)
      l2     == IF SetsFlags(w) THEN Numbered(l1, flags) ELSE l1
  IN  [lv |-> l2, result |-> NumberOf(l2, result), known |-> {},
       flags |-> IF SetsFlags(w) THEN NumberOf(l2, flags) ELSE 0]
Inputs(lv, w, vn) ==
  [i \in DOMAIN LvnIn(w) |-> vn[LvnIn(w)[i]]] \o IF ReadsFlags(w) THEN <<vn["nzcv"]>> ELSE <<>>
ByWord(lv, w) ==
  LET zero == ConstKey([v |-> {}, rel |-> FALSE])
      l0   == IF "zr" \in Range(LvnIn(w)) THEN Numbered(lv, zero) ELSE lv
  IN  ByInputs(l0, w, Inputs(l0, w, [s \in Slots \cup {"zr"} |->
                                       IF s = "zr" THEN NumberOf(l0, zero) ELSE lv.vn[s]]))
Numbers(lv, w, c) ==
  IF c # {} THEN ByConst(lv, c, ConstKey(CHOOSE x \in c : TRUE))
  ELSE IF Copy(w) THEN [lv |-> lv, result |-> lv.vn[CopySrc(w)], flags |-> 0, known |-> {}]
  ELSE ByWord(lv, w)
Computed(lv, w) == Numbers(lv, w, LvnConst(lv, w))

-----------------------------------------------------------------------------
(* What a word that is not decoded may write: insn_gpr_write_mask,         *)
(* lvn_writes_sp and lvn_writes_nzcv, which err toward yes.                *)
GprWrites(w) ==
  ({w.d} \cup (IF w.op \in MemoryOps /\ w.k # 0 THEN {w.n} ELSE {})) \ {R31}
Written(w) ==
  IF Pure(w) THEN ({LvnOut(w)} \ {"zr"}) \cup (IF SetsFlags(w) THEN {"nzcv"} ELSE {})
  ELSE GprWrites(w)
       \cup (IF w.op \in MemoryOps /\ w.k # 0 /\ w.n = R31 THEN {"sp"} ELSE {})
       \cup (IF w.op \in {"fcmp", "mrs"} THEN {"nzcv"} ELSE {})

\* lvn_ends_region: MRS, NOP and conditional branches do not.
EndsRegion(w) == w.op \in Terminal

\* The flags are read, or their reader is past a transfer.
FlagsRead(w) == IF Pure(w) THEN ReadsFlags(w) ELSE w.op \in {"mrs", "bcond"} \cup Terminal

-----------------------------------------------------------------------------
(* check_value_recompute.                                                  *)

LowMask(w)  == w.op = "andi" /\ w.mask \in {Low(n) : n \in 1 .. Size(w) - 1}
MovWSelf(w) == w.op = "orr" /\ ~w.sf /\ w.n = R31 /\ w.k = 0 /\ w.m = w.d /\ w.d # R31

\* The next word continues a move-wide sequence: a JIT's patch site.
Continued(w, ahead) ==
  w.op \in MoveOps /\ \E nx \in ahead : nx.op = "movk" /\ nx.d = w.d

\* Shapes another check owns, or that are not the code's to change.
Skipped(lv, w, ahead, at) ==
  LET p == lv.prev[1]
  IN  \/ w.op = "movk" \/ Continued(w, ahead)
      \/ Copy(w) /\ CopySrc(w) = LvnOut(w)
      \/ LowMask(w) /\ w.d = w.n
      \/ MovWSelf(w)
      \/ lv.prev # <<>> /\ MovX(w) /\ MovX(p) /\ p.d = w.m /\ p.m = w.d
      \/ lv.prev # <<>> /\ Copy(w) /\ LvnOut(w) = "sp" /\ p = w
      \/ /\ LvnOut(w) = "zr"
         /\ lv.def["nzcv"] + 1 = at \/ (lv.byCmp /\ ~lv.nzcvRead)

\* The word assigns the numbers its destinations already carry.
Same(lv, w, c) ==
  /\ LvnOut(w) # "zr" => lv.vn[LvnOut(w)] = c.result
  /\ SetsFlags(w) => lv.vn["nzcv"] = c.flags

\* The word that gave the destination its value, or for a copy of an older
\* value the later of the two that made them equal; 0 is none.
Shown(lv, w) ==
  LET slot == IF LvnOut(w) = "zr" THEN "nzcv" ELSE LvnOut(w)
  IN  IF Copy(w) /\ lv.def[CopySrc(w)] > lv.def[slot] THEN lv.def[CopySrc(w)] ELSE lv.def[slot]

\* Every slot the word may write gets a fresh number; a decoded result takes
\* the number computed.  A slot that keeps its number keeps its definer.
Assign(lv, w, c, at) ==
  LET wr  == Written(w)
      new == [s \in Slots |->
                IF s \notin wr THEN lv.vn[s]
                ELSE IF ~Pure(w) THEN c.lv.next + First[s]
                ELSE IF s = LvnOut(w) THEN c.result ELSE c.flags]
  IN  [valid |-> ~EndsRegion(w), vn |-> new,
       def |-> [s \in Slots |-> IF new[s] # lv.vn[s] THEN at ELSE lv.def[s]],
       known |-> [r \in Gprs |-> IF r \notin wr THEN lv.known[r]
                                 ELSE IF Pure(w) THEN c.known ELSE {}],
       next |-> c.lv.next + Cardinality(Slots), table |-> c.lv.table,
       nzcvRead |-> (lv.nzcvRead \/ FlagsRead(w)) /\ "nzcv" \notin wr,
       byCmp |-> IF "nzcv" \in wr THEN Pure(w) /\ LvnOut(w) = "zr" ELSE lv.byCmp,
       prev |-> <<w>>]

\* Mutant: a branch target is not a new region.
EnteredAnywhere(lv, side) == IF ~lv.valid \/ lv.next > NumberMax THEN Region ELSE lv

\* The region as it stands at a word: a side entry arrives without values,
\* and the numbers may be used up.
Entered(lv, side) == IF ~lv.valid \/ side \/ lv.next > NumberMax THEN Region ELSE lv

\* The word's number, whether it is a recompute (lvn_cur_same) and whether
\* that is reported, on a region already entered.
NumberedAs(lv, w, ahead, at, c) ==
  LET same == Pure(w) /\ Same(lv, w, c)
  IN  [lv |-> Assign(lv, w, c, at), same |-> same, shown |-> Shown(lv, w),
       found |-> same /\ ~Skipped(lv, w, ahead, at)]
Number(lv, w, ahead, at) ==
  NumberedAs(lv, w, ahead, at, IF Pure(w) THEN Computed(lv, w)
                               ELSE [lv |-> lv, result |-> 0, flags |-> 0, known |-> {}])

-----------------------------------------------------------------------------
(* check_dead_write: a pure write overwritten before any read.  dw is the  *)
(* pending write of each register and the findings proven but not emitted. *)

NoWrites == [pending |-> [r \in Gprs |-> {}], ready |-> <<>>]

\* dw_ends_scan: any transfer, and the system words, MRS among them.
EndsScan(w) == w.op \in Terminal \cup Conditionals \cup {"mrs"}

\* What the word does to a pending register: a decoded word's reads and
\* write are exact, else classify_reg_liveness, reads first.
Grade(w, r) ==
  IF Pure(w)
  THEN CASE r \in Range(LvnIn(w)) -> "read" [] r = LvnOut(w) -> "overwrite" [] OTHER -> "unknown"
  ELSE CASE r = w.n \/ r = w.m -> "read" [] r = w.d -> "overwrite" [] OTHER -> "unknown"

DeadWrites(dw, w, same, ahead, at) ==
  LET live  == IF EndsScan(w) THEN NoWrites.pending ELSE dw.pending
      dead  == {p \in UNION {live[r] : r \in {r \in Gprs : Grade(w, r) = "overwrite"}} : ~same}
      room  == Len(dw.ready) < ReadyMax
      opens == /\ Pure(w) /\ LvnOut(w) \in Gprs \ Frame
               /\ ~SetsFlags(w) /\ ~same /\ w.op # "movk" /\ ~Continued(w, ahead)
  IN  [pending |->
         [r \in Gprs |->
            IF opens /\ r = w.d THEN {[at |-> at, window |-> Window]}
            ELSE IF Grade(w, r) # "unknown" THEN {}
            ELSE {[p EXCEPT !.window = @ - 1] : p \in {p \in live[r] : p.window > 1}}],
       ready |-> dw.ready \o IF room THEN SetToSeq({[at |-> p.at, by |-> at] : p \in dead}) ELSE <<>>]
Emitted(dw) == [dw EXCEPT !.ready = IF @ = <<>> THEN <<>> ELSE Tail(@)]
=============================================================================
