------------------------------ MODULE ChainOps ------------------------------
(***************************************************************************)
(* The other consumers of a MOV chain's constant: multiplications and      *)
(* divisions that are shifts, conditional compares and selects that have a *)
(* form without the constant, variable shifts, the remainder of a power of *)
(* two, and a zero that register 31 could stand for.                       *)
(***************************************************************************)
EXTENDS MovChains

\* Powers of two, one more than one and one less: the exponent, as {n}.
Power(v)     == {n \in v : v = {n}}
PowerPlus(v) == {n \in v \ {0} : v = {0, n}}
PowerLess(v, s) == {n \in 2 .. s - 1 : v = Low(n)}

\* A chain and the operand that survives it, for words that keep a result.
Feeding(ch, w, second) ==
  {x \in ch \X Gprs : x[1].sf = w.sf /\ w.d # R31 /\ x[2] \in Consumed(x[1], w, second)}

\* One finding for each word the constant v and the survivor r amount to.
Each(check, fed, w, at, New(_, _)) ==
  UNION {{Consumption(check, x[1], w, at, <<new>>) : new \in New(x[1].v, x[2])} : x \in fed}

-----------------------------------------------------------------------------
(* Multiplications and divisions.                                          *)

\* check_mul_strength_reduce.
MulReduce(ch, w, at) ==
  LET New(v, r) == {Shifted("lsl", w.sf, w.d, r, n) : n \in Power(v) \ {0}}
                   \cup {Barrel("add", w.sf, w.d, r, r, "lsl", n) : n \in PowerPlus(v)}
  IN  IF w.op = "madd" /\ w.a = R31 THEN Each("mul", Feeding(ch, w, FALSE), w, at, New) ELSE {}

\* check_mneg_strength_reduce.
MnegReduce(ch, w, at) ==
  LET New(v, r) == {Barrel("sub", w.sf, w.d, R31, r, "lsl", n) : n \in Power(v)}
                   \cup {Barrel("sub", w.sf, w.d, r, r, "lsl", n) : n \in PowerLess(v, Size(w))}
  IN  IF w.op = "msub" /\ w.a = R31 THEN Each("mneg", Feeding(ch, w, FALSE), w, at, New) ELSE {}

\* check_udiv_strength_reduce.
UdivReduce(ch, w, at) ==
  LET New(v, r) == {Shifted("lsr", w.sf, w.d, r, n) : n \in Power(v) \ {0}}
  IN  IF w.op = "udiv" THEN Each("udiv", Feeding(ch, w, TRUE), w, at, New) ELSE {}

\* check_mov_madd_fold: the product rides on the addition; a factor of 1 is
\* no shift.
MaddFold(ch, w, at) ==
  LET New(v, r) == {Barrel(IF w.op = "madd" THEN "add" ELSE "sub", w.sf, w.d, w.a, r, "lsl", n) :
                      n \in Power(v)}
  IN  IF w.op \in {"madd", "msub"} /\ w.a # R31
      THEN Each("madd", {x \in Feeding(ch, w, FALSE) : w.a # x[1].d}, w, at, New) ELSE {}

\* check_udiv_msub_remainder, (2): a division by a power of two, whose
\* operands and quotient are three registers.  The MSUB must come next.
Dividing(ch, w, at) ==
  {[q |-> w.d, by |-> x[1].d, of |-> x[2], sf |-> w.sf, n |-> CHOOSE n \in Power(x[1].v) : TRUE,
    start |-> x[1].start] :
     x \in {x \in Feeding(ch, w, TRUE) :
              w.op = "udiv" /\ w.d \notin {x[1].d, x[2]} /\ Power(x[1].v) \ {0} # {}}}

\* (1): what is left of the dividend after the multiple is its low bits; the
\* remainder overwrites one temporary and the other must be proven dead.
Remainder(rem, w, at) ==
  {Finding("remainder", x.start, at, <<Masked("andi", w.sf, w.d, x.of, Low(x.n))>>,
           {x.q, x.by} \ {w.d}) :
     x \in {x \in rem :
              /\ w.op = "msub" /\ w.sf = x.sf
              /\ {w.n, w.m} = {x.q, x.by} /\ w.a = x.of /\ w.d \in {x.q, x.by}}}

-----------------------------------------------------------------------------
(* Shifts, compares and selects.                                           *)

Immediate == [op \in {"lslv", "lsrv", "asrv", "rorv"} |->
                CASE op = "lslv" -> "lsl" [] op = "lsrv" -> "lsr"
                  [] op = "asrv" -> "asr" [] op = "rorv" -> "ror"]

\* check_mov_shift_fold: the amount counts modulo the width.
AmountFold(ch, w, at) ==
  LET New(v, r) == {Shifted(Immediate[w.op], w.sf, w.d, r, k) : k \in {NatOf[v] % Size(w)} \ {0}}
  IN  IF w.op \in DOMAIN Immediate THEN Each("shift", Feeding(ch, w, TRUE), w, at, New) ELSE {}

\* check_mov_ccmp_imm_fold: a small constant, or a small magnitude under the
\* opposite compare.
CcmpFold(ch, w, at) ==
  LET New(v, r) ==
        LET crossed == NatOf[v] >= 2^CmpBits
            k       == IF crossed THEN Negated(v, w.sf) ELSE NatOf[v]
            op      == IF (w.op = "ccmp") # crossed THEN "ccmpi" ELSE "ccmni"
        IN  {CondCmpImm(op, w.sf, r, kk, w.cond, w.mask) :
               kk \in {kk \in {k} \cap 0 .. 2^CmpBits - 1 : crossed => Top(w.sf) \in v}}
      fed == {x \in ch \X Gprs : x[1].sf = w.sf /\ x[2] \in Consumed(x[1], w, TRUE)}
  IN  IF w.op \in {"ccmp", "ccmn"} THEN Each("ccmp", fed, w, at, New) ELSE {}

\* check_mov_csel_fold: 1 is ZR incremented and all ones ZR complemented, in
\* the else slot; a constant in the other slot inverts the condition.
CselFold(ch, w, at) ==
  LET Op(v) == IF v = {0} THEN "csinc" ELSE "csinv"
      New(v, d) ==
        IF w.n = d THEN Select(Op(v), w.sf, w.d, w.m, R31, Invert[w.cond])
        ELSE Select(Op(v), w.sf, w.d, w.n, R31, w.cond)
  IN  {Consumption("csel", c, w, at, <<New(c.v, c.d)>>) :
         c \in {c \in ch :
                  /\ w.op = "csel" /\ w.sf = c.sf /\ w.cond \notin Always /\ w.d # R31
                  /\ c.v \in {{0}, Mask(c.sf)}
                  /\ (w.n = c.d) # (w.m = c.d)}}

-----------------------------------------------------------------------------
(* check_mov_zero_to_xzr: ZR stands for a register that holds 0.  The      *)
(* register is to be proven dead even where the word overwrites it.        *)

ZeroFinding(c, w, at) ==
  LET Zr(r) == IF r = c.d THEN R31 ELSE r
  IN  Finding("zero", c.start, at, <<[w EXCEPT !.n = Zr(@), !.m = Zr(@)]>>, {c.d})
Zeros(ch) == {c \in ch : c.v = {}}
Uses(c, w) == c.d \in {w.n, w.m}

\* (a): a store of it, but for the base, where register 31 is SP.
ZeroStored(ch, w, at) ==
  {ZeroFinding(c, w, at) : c \in {c \in Zeros(ch) : w.op = "str" /\ w.k = 0 /\ w.m = c.d /\ w.n # c.d}}

\* (b): either operand of an unshifted sum or difference.
ZeroAdded(ch, w, at) ==
  {ZeroFinding(c, w, at) : c \in {c \in Zeros(ch) : w.op \in ArithOps /\ Unshifted(w) /\ Uses(c, w)}}

\* (c): of a logical operation on its operands as they are.
ZeroLogic(ch, w, at) ==
  {ZeroFinding(c, w, at) :
     c \in {c \in Zeros(ch) : w.op \in LogicOps \ InvertedOps /\ Unshifted(w) /\ Uses(c, w)}}

\* (d): one slot of a select.
ZeroSelected(ch, w, at) ==
  {ZeroFinding(c, w, at) : c \in {c \in Zeros(ch) : w.op \in SelectOps /\ (w.n = c.d) # (w.m = c.d)}}

\* (e): the left operand of a conditional compare.
ZeroCompared(ch, w, at) ==
  {ZeroFinding(c, w, at) :
     c \in {c \in Zeros(ch) : w.op \in {"ccmp", "ccmn"} /\ w.n = c.d /\ w.m # c.d}}

-----------------------------------------------------------------------------
\* The checks above, on the open chain and the division before.
ChainUses(ch, rem, w, at) ==
  MulReduce(ch, w, at) \cup MnegReduce(ch, w, at) \cup UdivReduce(ch, w, at)
  \cup MaddFold(ch, w, at) \cup Remainder(rem, w, at)
  \cup AmountFold(ch, w, at) \cup CcmpFold(ch, w, at) \cup CselFold(ch, w, at)
  \cup ZeroStored(ch, w, at) \cup ZeroAdded(ch, w, at) \cup ZeroLogic(ch, w, at)
  \cup ZeroSelected(ch, w, at) \cup ZeroCompared(ch, w, at)
=============================================================================
