---------------------------- MODULE KnownBits -----------------------------
(***************************************************************************)
(* The facts of the known-value engine: what is known of a register, and   *)
(* what a word's result and flags are known to be from its inputs' facts.  *)
(*                                                                         *)
(* A fact is the bits known to be zero and to be one and, in the W and X   *)
(* views, an unsigned and a signed range.  Views are indexed by sf.  kv is *)
(* the engine's record (see KnownValues); here only its facts are read.    *)
(***************************************************************************)
EXTENDS ValueNumbers

Mask(sf) == Low(IF sf THEN W ELSE H)
Width(sf) == IF sf THEN W ELSE H
Top(sf)  == Width(sf) - 1
UMax(sf) == 2^Width(sf) - 1
SMin(sf) == -(2^Top(sf))
SMax(sf) == 2^Top(sf) - 1
Wrapped(i, sf) == Bits(i % 2^Width(sf), Width(sf))
SignedNat(i, sf) == IF i > SMax(sf) THEN i - 2^Width(sf) ELSE i
Larger(a, b)  == IF a > b THEN a ELSE b
Smaller(a, b) == IF a < b THEN a ELSE b

-----------------------------------------------------------------------------
(* Facts.                                                                  *)

Unknown == [k0 |-> {}, k1 |-> {},
            ulo |-> [sf \in BOOLEAN |-> 0], uhi |-> [sf \in BOOLEAN |-> UMax(sf)],
            slo |-> [sf \in BOOLEAN |-> SMin(sf)], shi |-> [sf \in BOOLEAN |-> SMax(sf)]]
Const(v) == [Unknown EXCEPT !.k0 = Low(W) \ v, !.k1 = v]

\* The unsigned range of a view, the known bits and the other view folded in
\* when the value fits 32 bits.
FitsLow(f, sf) == IF sf THEN H .. W - 1 \subseteq f.k0 ELSE f.uhi[TRUE] <= UMax(FALSE)
Unsigned(f, sf) ==
  [lo |-> Larger(IF FitsLow(f, sf) THEN f.ulo[~sf] ELSE 0,
                 Larger(f.ulo[sf], NatOf[f.k1 \cap Mask(sf)])),
   hi |-> Smaller(IF FitsLow(f, sf) THEN f.uhi[~sf] ELSE UMax(sf),
                  Smaller(f.uhi[sf], NatOf[Mask(sf) \ f.k0]))]

\* kv_range: a range of one sign bounds the other signedness too.
OneSign(u, sf) == u.lo <= u.hi /\ (u.hi <= SMax(sf) \/ u.lo > SMax(sf))
Back(u, slo, shi, sf) ==
  LET one == slo <= shi /\ (slo >= 0 \/ shi < 0)
  IN  [lo |-> IF one THEN Larger(slo % 2^Width(sf), u.lo) ELSE u.lo,
       hi |-> IF one THEN Smaller(shi % 2^Width(sf), u.hi) ELSE u.hi,
       slo |-> slo, shi |-> shi]
Forth(u, f, sf) ==
  Back(u, IF OneSign(u, sf) THEN Larger(SignedNat(u.lo, sf), f.slo[sf]) ELSE f.slo[sf],
          IF OneSign(u, sf) THEN Smaller(SignedNat(u.hi, sf), f.shi[sf]) ELSE f.shi[sf], sf)
KvRange(f, sf) == Forth(Unsigned(f, sf), f, sf)
EmptyRange(r) == r.lo > r.hi \/ r.slo > r.shi

\* kv_fact_exact: the value the facts pin, as {v} or {}.
Exact(f) ==
  IF f.k0 \cup f.k1 = Low(W) THEN (IF f.k0 \cap f.k1 = {} THEN {f.k1} ELSE {})
  ELSE {Bits(r.lo, W) : r \in {r \in {KvRange(f, TRUE)} : r.lo = r.hi}}

FactOf(kv, r) == IF r = R31 \/ kv.known[r] = {} THEN Unknown ELSE CHOOSE f \in kv.known[r] : TRUE
KvValue(kv, r, sp) ==
  IF r = R31 THEN (IF sp THEN {} ELSE {{}})
  ELSE UNION {Exact(f) : f \in kv.known[r]}

-----------------------------------------------------------------------------
(* Flags: a state is the set of the flags set; states are what may be.     *)

States(n, z, c, v) == {s \in SUBSET {"n", "z", "c", "v"} :
                         /\ n # "any" => (("n" \in s) <=> (n = "1"))
                         /\ z # "any" => (("z" \in s) <=> (z = "1"))
                         /\ c # "any" => (("c" \in s) <=> (c = "1"))
                         /\ v # "any" => (("v" \in s) <=> (v = "1"))}
AnyState  == SUBSET {"n", "z", "c", "v"}
SubStates == States("any", "0", "any", "any") \cup {{"z", "c"}}
AddStates == States("any", "0", "any", "any") \cup {{"z"}, {"z", "c"}, {"z", "c", "v"}}
AndStates == {{}, {"z"}, {"n"}}
FcmpStates == {{"c"}, {"c", "v"}, {"z", "c"}, {"n"}}
FlagsOf(s) == [n |-> "n" \in s, z |-> "z" \in s, c |-> "c" \in s, v |-> "v" \in s]
StateOf(flags) == {f \in DOMAIN flags : flags[f]}

\* kv_flags, in arithmetic on the operands as numbers.
KvFlags(kind, a, b, sf) ==
  LET x == NatOf[a \cap Mask(sf)]
      y == NatOf[b \cap Mask(sf)]
      r == CASE kind = "sub" -> (x - y) % 2^Width(sf)
             [] kind = "add" -> (x + y) % 2^Width(sf)
             [] kind = "and" -> NatOf[a \cap b \cap Mask(sf)]
      Neg(i) == i > SMax(sf)
  IN  {f \in {"n", "z", "c", "v"} :
         CASE f = "n" -> Neg(r)
           [] f = "z" -> r = 0
           [] f = "c" -> (kind = "sub" /\ x >= y) \/ (kind = "add" /\ r < x)
           [] f = "v" -> \/ kind = "sub" /\ Neg(x) # Neg(y) /\ Neg(r) # Neg(x)
                         \/ kind = "add" /\ Neg(x) = Neg(y) /\ Neg(r) # Neg(x)}

Pass(cond, states) == {s \in states : Holds(cond, FlagsOf(s))}

\* 1: every possible state passes; 0: none does; -1: some do, or none is
\* possible.
EvalStates(cond, states) ==
  LET p == Pass(cond, states)
  IN  IF (p # {}) = (p # states) THEN -1 ELSE IF p # {} THEN 1 ELSE 0

-----------------------------------------------------------------------------
(* kv_op_value: the value a decoded word computes from known inputs.       *)

\* BFM, SBFM and UBFM as the architecture defines them: the immediates, and
\* the source rotated under wmask, the bits outside tmask the sign's or the
\* destination's.
BitfieldOps == (ShiftOps \ {"ror"}) \cup ExtractOps \cup PlaceOps
Immr(w) == LET s == Size(w) IN
  IF w.op \in PlaceOps \cup {"lsl"} THEN (s - w.k) % s ELSE w.k
Imms(w) == CASE w.op \in ExtractOps -> w.k + w.wd - 1
             [] w.op \in PlaceOps   -> w.wd - 1
             [] w.op = "lsl"        -> Size(w) - 1 - w.k
             [] OTHER               -> Size(w) - 1
Signed(w)  == w.op \in {"sbfx", "sbfiz", "asr"}
Merges(w)  == w.op \in {"bfi", "bfxil"}
Wmask(w)   == Ror(Low(Imms(w) + 1), Immr(w), Size(w))
Tmask(w)   == Low(((Imms(w) - Immr(w)) % Size(w)) + 1)

\* The field operation on a set of positions: values, or bits known.
Fielded(w, dst, src, none) ==
  LET s   == Size(w)
      d   == IF Merges(w) THEN dst ELSE none
      bot == (d \ Wmask(w)) \cup (Ror(src \cap Low(s), Immr(w), s) \cap Wmask(w))
      top == IF Signed(w) THEN (IF Imms(w) \in src THEN Low(s) ELSE {}) ELSE d
  IN  ((top \ Tmask(w)) \cup (bot \cap Tmask(w))) \cap Low(s)

\* kv_umulh by halves: the carry out of the middle is what is easy to lose.
UMulH(a, b) ==
  LET half == 2^H
      al == a % half  ah == a \div half
      bl == b % half  bh == b \div half
      mid == ((al * bl) \div half) + ((al * bh) % half) + ((ah * bl) % half)
  IN  ah * bh + ((al * bh) \div half) + ((ah * bl) \div half) + mid \div half
SMulH(x, y) ==
  NatOf[Wrapped(UMulH(NatOf[x], NatOf[y]) - (IF W - 1 \in x THEN NatOf[y] ELSE 0)
                                          - (IF W - 1 \in y THEN NatOf[x] ELSE 0), TRUE)]

MoveImm(w) == {Piece * w.k + i : i \in w.mask}
MovePiece(w) == Piece * w.k .. Piece * w.k + Piece - 1

\* The words that build a value: MOVZ or MOVN and a MOVK per piece.
MinimalMovWideCount(v, s) ==
  LET pieces == 0 .. s \div Piece - 1
      In(p)  == v \cap (Piece * p .. Piece * p + Piece - 1)
      Full(p) == Piece * p .. Piece * p + Piece - 1
      Count(S) == Larger(Cardinality(S), 1)
  IN  Smaller(Count({p \in pieces : In(p) # {}}), Count({p \in pieces : In(p) # Full(p)}))

\* The MOVKs back to their MOVZ/MOVN are the shortest way to the value: a
\* JIT's patch site is longer than its placeholder needs.
MinimalChain(buf, at, w, v) ==
  \E o \in 1 .. at - 1 :
    /\ buf[o].op \in {"movz", "movn"} /\ buf[o].d = w.d /\ buf[o].sf = w.sf
    /\ \A i \in o + 1 .. at - 1 : buf[i].op = "movk" /\ buf[i].d = w.d /\ buf[i].sf = w.sf
    /\ at - o + 1 = MinimalMovWideCount(v, Size(w))

\* The operations that only two known values determine.
OnNumbers(w, a, b) ==
  LET s == Size(w)
      x == NatOf[a]
      y == NatOf[b]
      sx == SignedOf(a, s)
      sy == SignedOf(b, s)
      Quotient(i, j) == IF (i < 0) # (j < 0) THEN -(Larger(i, -i) \div Larger(j, -j))
                        ELSE Larger(i, -i) \div Larger(j, -j)
  IN CASE w.op = "udiv" -> Bits(IF y = 0 THEN 0 ELSE x \div y, s)
       [] w.op = "sdiv" -> IF sy = 0 THEN {} ELSE IF sx = SMin(w.sf) /\ sy = -1 THEN a
                           ELSE Wrapped(Quotient(sx, sy), w.sf)
       [] w.op = "lslv" -> Lsl(a, y % s, s) [] w.op = "lsrv" -> Lsr(a, y % s)
       [] w.op = "asrv" -> Asr(a, y % s, s) [] w.op = "rorv" -> Ror(a, y % s, s)
       [] w.op = "smax" -> IF sx > sy THEN a ELSE b
       [] w.op = "umax" -> IF x > y THEN a ELSE b
       [] w.op = "smin" -> IF sx < sy THEN a ELSE b
       [] w.op = "umin" -> IF x < y THEN a ELSE b
OneSource(w, a) ==
  LET s == Size(w)
  IN CASE w.op = "rbit" -> {s - 1 - i : i \in a}
       [] w.op = "clz"  -> Bits(s - BitsUsed(a), s)
       [] w.op = "cls"  -> Bits(s - 1 - BitsUsed(SymDiff(Lsr(a, 1), a) \cap Low(s - 1)), s)
       [] w.op = "ctz"  -> Bits(IF a = {} THEN s ELSE Min(a), s)
       [] w.op = "cnt"  -> Bits(Cardinality(a), s)
       [] w.op = "abs"  -> IF s - 1 \in a THEN Wrapped(-NatOf[a], w.sf) ELSE a

\* The value of a word whose inputs are x, y and z, from register 31 to the
\* destination's old value as LvnIn lists them.
Valued(w, x, y, z) ==
  LET s == Size(w)
      a == x \cap Low(s)
      b == y \cap Low(s)
      rm == ShiftBy(w.sh, b, w.k, s)
      rmi == IF w.op \in InvertedOps THEN Low(s) \ rm ELSE rm
      ex == NatOf[Lsl(ExtendBy(w.sh, y, w.wd, s) \cap Low(s), w.k, s)]
      Plus(i) == Wrapped(i, w.sf)
      W32(v) == NatOf[v \cap Low(H)]
      prod == CASE w.op \in {"smaddl", "smsubl"} -> SignedOf(x \cap Low(H), H) * SignedOf(y \cap Low(H), H)
                [] w.op \in {"umaddl", "umsubl"} -> W32(x) * W32(y)
                [] OTHER -> NatOf[x] * NatOf[y]
  IN CASE w.op = "addi" \/ w.op = "addsi" -> Plus(NatOf[x] + w.k)
       [] w.op = "subsi" -> Plus(NatOf[x] - w.k)
       [] w.op \in {"andi", "andsi"} -> x \cap w.mask
       [] w.op = "orri" -> (x \cup w.mask) \cap Low(s)
       [] w.op = "eori" -> SymDiff(x, w.mask) \cap Low(s)
       [] w.op = "movz" -> MoveImm(w) \cap Low(s)
       [] w.op = "movn" -> Low(s) \ MoveImm(w)
       [] w.op = "movk" -> ((x \ MovePiece(w)) \cup MoveImm(w)) \cap Low(s)
       [] w.op \in BitfieldOps -> Fielded(w, y, x, {})
       [] w.op = "ror"  -> Ror(a, w.k, s)
       [] w.op = "extr" -> IF w.k = 0 THEN b ELSE Lsr(b, w.k) \cup Lsl(a, s - w.k, s)
       [] w.op \in LogicOps -> Logic(w.op, a, rmi)
       [] w.op \in {"add", "adds"} -> Plus(NatOf[a] + NatOf[rm])
       [] w.op \in {"sub", "subs"} -> Plus(NatOf[a] - NatOf[rm])
       [] w.op \in {"addx", "addsx"} -> Plus(NatOf[x] + ex)
       [] w.op \in {"subx", "subsx"} -> Plus(NatOf[x] - ex)
       [] w.op \in {"madd", "smaddl", "umaddl"} -> Plus(NatOf[z] + prod)
       [] w.op \in {"msub", "smsubl", "umsubl"} -> Plus(NatOf[z] - prod)
       [] w.op = "umulh" -> Bits(UMulH(NatOf[x], NatOf[y]), W)
       [] w.op = "smulh" -> Bits(SMulH(x, y), W)
       [] w.op \in TwoSourceOps -> OnNumbers(w, a, b)
       [] w.op \in OneSourceOps -> OneSource(w, a)

KvOpValue(kv, buf, at, w) ==
  LET in == LvnIn(w)
      In(i) == IF i > Len(in) \/ in[i] = "zr" THEN {{}}
               ELSE IF in[i] = "sp" THEN {} ELSE KvValue(kv, in[i], FALSE)
  IN  IF w.op = "adr" \/ ReadsFlags(w) THEN {}
      ELSE {v \in {Valued(w, x, y, z) : x \in In(1), y \in In(2), z \in In(3)} :
              w.op = "movk" => MinimalChain(buf, at, w, v)}

-----------------------------------------------------------------------------
(* kv_op_fact: what is known of a result that is not a known value.        *)

\* The known bits of an input; register 31 is ZR.
BitsOf(kv, r) == IF r = R31 THEN Const({}) ELSE FactOf(kv, r)
Pinned(k0, k1) == [Unknown EXCEPT !.k0 = k0, !.k1 = k1]

\* An operand's known bits through its shift: what is shifted in is zero, or
\* the sign when that is known.
ShiftedBits(f, sh, k, sf) ==
  LET s == Width(sf)
      z == f.k0 \cap Low(s)
      o == f.k1 \cap Low(s)
      fill == s - k .. s - 1
  IN CASE sh = "lsl" -> [k0 |-> Lsl(z, k, s) \cup Low(k), k1 |-> Lsl(o, k, s)]
       [] sh = "lsr" -> [k0 |-> Lsr(z, k) \cup fill, k1 |-> Lsr(o, k)]
       [] sh = "asr" -> [k0 |-> Asr(z, k, s), k1 |-> Asr(o, k, s)]
       [] sh = "ror" -> [k0 |-> Ror(z, k, s), k1 |-> Ror(o, k, s)]

LogicBits(op, a, b) ==
  CASE op \in {"and", "bic", "andi"} -> Pinned(a.k0 \cup b.k0, a.k1 \cap b.k1)
    [] op \in {"orr", "orn", "orri"} -> Pinned(a.k0 \cap b.k0, a.k1 \cup b.k1)
    [] op \in {"eor", "eon", "eori"} ->
         Pinned((a.k0 \cap b.k0) \cup (a.k1 \cap b.k1), (a.k0 \cap b.k1) \cup (a.k1 \cap b.k0))

\* The bits CLZ, CLS, CTZ and CNT may set: they count to W.
CountBits == Low(BitsUsed(Bits(W, W)))

\* What both sources of a select agree on, and the hull of their ranges.
Within(bits, sf, r) ==
  [bits EXCEPT !.ulo[sf] = r.lo, !.uhi[sf] = r.hi, !.slo[sf] = r.slo, !.shi[sf] = r.shi]
Hull(bits, sf, r, q) ==
  IF EmptyRange(r) \/ EmptyRange(q) THEN bits
  ELSE Within(bits, sf, [lo |-> Smaller(r.lo, q.lo), hi |-> Larger(r.hi, q.hi),
                         slo |-> Smaller(r.slo, q.slo), shi |-> Larger(r.shi, q.shi)])
SelectBits(f, g, sf) ==
  Hull(Pinned(f.k0 \cap g.k0, f.k1 \cap g.k1), sf, KvRange(f, sf), KvRange(g, sf))

\* A W-form MOV keeps the W view, the ranges the X view gives it among them.
LowRange(f, r) == IF EmptyRange(r) THEN Unknown ELSE Within(Pinned(f.k0, f.k1), FALSE, r)
LowView(f) == LowRange(f, KvRange(f, FALSE))

\* The result fits its register; a W form clears the rest.
Sized(f, sf) ==
  [f EXCEPT !.k0 = (@ \cap Mask(sf)) \cup (Low(W) \ Mask(sf)), !.k1 = @ \cap Mask(sf)]

OpBits(kv, w, a, rm) ==
  Sized(CASE w.op = "orr" /\ w.n = R31 /\ w.k = 0 -> LowView(FactOf(kv, w.m))
          [] w.op \in ImmLogicOps \ {"andsi"} -> LogicBits(w.op, a, Const(w.mask))
          [] w.op \in LogicOps \ FlagOps ->
               LogicBits(w.op, a, IF w.op \in InvertedOps THEN [k0 |-> rm.k1, k1 |-> rm.k0] ELSE rm)
          [] w.op \in BitfieldOps ->
               LET d == IF Merges(w) THEN FactOf(kv, w.d) ELSE Const({})
               IN  Pinned(Fielded(w, d.k0, a.k0, Low(W)), Fielded(w, d.k1, a.k1, {}))
          [] w.op \in {"clz", "cls", "ctz", "cnt"} -> Pinned(Low(W) \ CountBits, {})
          [] w.op = "csinc" /\ w.n = R31 /\ w.m = R31 -> Pinned(Low(W) \ {0}, {})
          [] w.op = "csel" -> SelectBits(a, BitsOf(kv, w.m), w.sf)
          [] OTHER -> Unknown, w.sf)
OpFact(kv, w, vs) ==
  IF vs # {} THEN Const(CHOOSE v \in vs : TRUE)
  ELSE IF Copy(w) /\ CopySrc(w) # "sp" THEN FactOf(kv, CopySrc(w))
  ELSE OpBits(kv, w, BitsOf(kv, w.n), ShiftedBits(BitsOf(kv, w.m), w.sh, w.k, w.sf))
KvOpFact(kv, buf, at, w) == OpFact(kv, w, KvOpValue(kv, buf, at, w))

\* decode_zeroing_producer: the width beyond which a word leaves zeros, as
\* {} or {n}; a full X register guarantees nothing.
ZeroFrom(w) ==
  LET s == Size(w)
      n == CASE w.op \in (BitfieldOps \ {"bfi", "bfxil"}) /\ ~Signed(w) ->
                  IF Imms(w) >= Immr(w) THEN Imms(w) - Immr(w) + 1 ELSE s - Immr(w) + Imms(w) + 1
             [] w.op \in {"andi", "andsi"} -> BitsUsed(w.mask)
             [] w.op = "movz" -> BitsUsed(MoveImm(w))
             [] w.op = "csinc" /\ w.n = R31 /\ w.m = R31 -> 1
             [] w.op = "ldr" /\ ~w.sf -> IF w.sh = "sxt" THEN H ELSE w.wd
             [] OTHER -> s
  IN  IF w.d = R31 \/ w.op \in Impure \ {"ldr"} \/ n = W THEN {} ELSE {n}

-----------------------------------------------------------------------------
(* kv_flag_setter: the states a flag setter leaves, the compare its flags  *)
(* remember, and whether a later identical one repeats it.                 *)

CompareKind(w) == CASE w.op \in {"subs", "subsi", "subsx"} -> "sub" [] w.op \in {"adds", "addsi", "addsx"} -> "add"
                    [] w.op \in {"ands", "andsi", "bics"} -> "and"
KindStates(kind) == CASE kind = "sub" -> SubStates [] kind = "add" -> AddStates [] kind = "and" -> AndStates

\* The second operand when it is known.
SecondOperand(kv, w) ==
  LET rm == {IF w.op \in ExtArithOps THEN Lsl(ExtendBy(w.sh, v, w.wd, Size(w)), w.k, Size(w))
             ELSE ShiftBy(w.sh, v \cap Mask(w.sf), w.k, Size(w)) : v \in KvValue(kv, w.m, FALSE)}
  IN CASE w.op \in {"addsi", "subsi"} -> {Bits(w.k, Size(w))}
       [] w.op = "andsi" -> {w.mask}
       [] w.op = "bics"  -> {Mask(w.sf) \ v : v \in rm}
       [] OTHER -> rm

\* exact: the flags of two known operands; imms: the second one.
Setting(kv, w, kind, exact, imms) ==
  LET ver(r) == IF r = R31 THEN 0 ELSE kv.ver[r]
  IN  [states |-> IF exact = {} THEN KindStates(kind) ELSE CHOOSE st \in exact : TRUE,
       kind   |-> KindStates(kind),
       cmp    |-> {[kind |-> kind, sf |-> w.sf, rn |-> w.n, imm |-> b,
                    fact |-> BitsOf(kv, w.n), ver |-> ver(w.n)] : b \in imms},
       rep    |-> {[word |-> w, ver |-> <<ver(w.n), IF w.op \in TwoRegisters THEN ver(w.m) ELSE 0>>]}]
Exactly(kv, w, kind, imms) ==
  Setting(kv, w, kind,
          {{KvFlags(kind, a, b, w.sf)} : a \in KvValue(kv, w.n, FALSE), b \in imms}, imms)
FlagSetter(kv, w) ==
  LET open == [states |-> AnyState, kind |-> AnyState, cmp |-> {}, rep |-> {}]
      kind == CompareKind(w)
  IN  IF ReadsFlags(w) THEN open
      ELSE IF w.op \in SpSource /\ w.n = R31
      THEN [open EXCEPT !.states = KindStates(kind), !.kind = KindStates(kind)]
      ELSE Exactly(kv, w, kind, SecondOperand(kv, w))
=============================================================================
