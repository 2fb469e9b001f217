--------------------------- MODULE ReportsProofs ----------------------------
(***************************************************************************)
(* Proofs about the tables that outlive a range, for every file, every     *)
(* sequence of findings and every failed allocation: the tables stay sound *)
(* and their probes end, the functions of a range are keyed in order and   *)
(* apart, and what Tally promises of the findings is kept.                 *)
(* Functions counted as copies are: equal keys make the words of two       *)
(* functions mean the same or have the same shape, whatever their words,   *)
(* literal data and pools, addresses and padding.  And the figures of the  *)
(* duplicate report agree with its tables in every state: first what sums  *)
(* over a set are, then what a table counts, then the figures by group, by *)
(* identical key and by type.                                              *)
(***************************************************************************)
EXTENDS Reports, FiniteSetTheorems, SequenceTheorems, WellFoundedInduction, TLAPS

-----------------------------------------------------------------------------
(* Arithmetic of the home slots.                                           *)

LEMMA LeastDistance ==
  ASSUME NEW S \in SUBSET Nat, S # {}
  PROVE  Min(S) \in S /\ \A i \in S : Min(S) <= i
<1>. DEFINE Less == OpToRel(<, Nat)
<1>1. IsWellFoundedOn(Less, Nat)
  BY NatLessThanWellFounded
<1>2. \A x, y \in Nat : y < x => <<y, x>> \in Less
  BY DEF OpToRel
<1>. HIDE DEF Less
<1>3. PICK x \in S : \A y \in S : <<y, x>> \notin Less
  BY <1>1, WFMin
<1>4. ASSUME NEW y \in S
      PROVE  x <= y
  <2>1. x \in Nat /\ y \in Nat
    OBVIOUS
  <2>2. ~(y < x)
    BY <1>2, <1>3, <2>1
  <2>. QED
    BY <2>1, <2>2
<1>. QED
  BY <1>4 DEF Min

LEMMA SmallMultiple ==
  ASSUME NEW c \in Nat \ {0}, NEW m \in Int, NEW a \in 0 .. c - 1, NEW b \in 0 .. c - 1,
         a = b + c * m
  PROVE  a = b
<1>1. CASE m = 0
  BY <1>1
<1>2. CASE m >= 1
  <2>1. c * m >= c
    BY <1>2
  <2>. QED
    BY <2>1
<1>3. CASE m <= -1
  <2>1. c * m <= -c
    BY <1>3
  <2>. QED
    BY <2>1
<1>. QED
  BY <1>1, <1>2, <1>3

LEMMA Remainder ==
  ASSUME NEW c \in Nat \ {0}, NEW a \in Int
  PROVE  a % c \in 0 .. c - 1 /\ \E q \in Int : a = c * q + (a % c)
<1>1. a % c \in 0 .. c - 1
  OBVIOUS
<1>2. a \div c \in Int /\ a = c * (a \div c) + (a % c)
  OBVIOUS
<1>. QED
  BY <1>1, <1>2

\* Every slot is at some distance from every home.
LEMMA EverySlotProbed ==
  ASSUME NEW c \in Nat \ {0}, NEW h \in Int, NEW s \in 0 .. c - 1
  PROVE  \E i \in 0 .. c - 1 : (h + i) % c = s
<1>. DEFINE i == (s - h) % c
            r == (h + i) % c
<1>1. i \in 0 .. c - 1 /\ r \in 0 .. c - 1
  BY Remainder
<1>2. PICK q \in Int : s - h = c * q + i
  <2>1. s - h \in Int
    OBVIOUS
  <2>. QED
    BY <2>1, Remainder
<1>3. PICK p \in Int : h + i = c * p + r
  <2>1. h + i \in Int
    BY <1>1
  <2>. QED
    BY <2>1, Remainder
<1>. HIDE DEF i, r
<1>4. s = r + c * (p + q)
  <2>1. s = c * p + c * q + r
    BY <1>1, <1>2, <1>3
  <2>2. c * (p + q) = c * p + c * q
    OBVIOUS
  <2>. QED
    BY <1>1, <2>1, <2>2
<1>5. s = r
  BY <1>1, <1>4, SmallMultiple
<1>. QED
  BY <1>1, <1>5 DEF r

-----------------------------------------------------------------------------
(* Probes.                                                                 *)

\* Entries with keys of K, and tables of c slots that hold them.
Rows(K)      == [key : K, count : Nat]
Tables(c, K) == [0 .. c - 1 -> Rows(K)]

LEMMA TableSize ==
  ASSUME NEW c \in Nat \ {0}, NEW K, NEW t \in Tables(c, K)
  PROVE  DOMAIN t = 0 .. c - 1 /\ Cap(t) = c
<1>1. DOMAIN t = 0 .. c - 1
  BY DEF Tables
<1>2. Cardinality(0 .. c - 1) = c
  BY FS_Interval
<1>. QED
  BY <1>1, <1>2 DEF Cap

\* The slot a probe ends at is the first of its stops.
Stopped(t, k, i) == LET e == t[(Hash(k) + i) % Cap(t)] IN e = Free \/ e.key = k

LEMMA ProbeEnds ==
  ASSUME NEW c \in Nat \ {0}, NEW K, NEW t \in Tables(c, K),
         NEW k \in K, Hash(k) \in Int, Stops(t, k) # {}
  PROVE  LET m == Min(Stops(t, k))
         IN  /\ m \in 0 .. c - 1
             /\ SlotOf(t, k) = (Hash(k) + m) % c
             /\ SlotOf(t, k) \in 0 .. c - 1
             /\ Stopped(t, k, m)
             /\ \A i \in 0 .. c - 1 : i < m => ~Stopped(t, k, i)
<1>. DEFINE S == Stops(t, k)
            m == Min(S)
<1>1. Cap(t) = c
  BY TableSize
<1>2. S = {i \in 0 .. c - 1 : Stopped(t, k, i)}
  BY <1>1 DEF Stops, Stopped
<1>3. S \in SUBSET Nat /\ S # {}
  BY <1>2
<1>. HIDE DEF S
<1>4. m \in S /\ \A i \in S : m <= i
  BY <1>3, LeastDistance
<1>. HIDE DEF m
<1>5. m \in 0 .. c - 1 /\ Stopped(t, k, m)
  BY <1>2, <1>4
<1>6. \A i \in 0 .. c - 1 : i < m => ~Stopped(t, k, i)
  BY <1>2, <1>4, <1>5
<1>7. SlotOf(t, k) = (Hash(k) + m) % c
  BY <1>1 DEF SlotOf, m, S
<1>8. (Hash(k) + m) % c \in 0 .. c - 1
  <2>1. Hash(k) + m \in Int
    BY <1>5
  <2>. QED
    BY <2>1, Remainder
<1>. QED
  BY <1>5, <1>6, <1>7, <1>8 DEF m, S

\* A stop no earlier distance has is where the probe ends.
LEMMA ProbeFound ==
  ASSUME NEW c \in Nat \ {0}, NEW K, NEW t \in Tables(c, K),
         NEW k \in K, Hash(k) \in Int, NEW m \in 0 .. c - 1, Stopped(t, k, m),
         \A i \in 0 .. c - 1 : i < m => ~Stopped(t, k, i)
  PROVE  Stops(t, k) # {} /\ SlotOf(t, k) = (Hash(k) + m) % c
<1>1. Cap(t) = c
  BY TableSize
<1>2. m \in Stops(t, k)
  BY <1>1 DEF Stops, Stopped
<1>. DEFINE n == Min(Stops(t, k))
<1>3. /\ n \in 0 .. c - 1 /\ SlotOf(t, k) = (Hash(k) + n) % c /\ Stopped(t, k, n)
      /\ \A i \in 0 .. c - 1 : i < n => ~Stopped(t, k, i)
  BY <1>2, ProbeEnds
<1>. HIDE DEF n
<1>4. m = n
  BY <1>3
<1>. QED
  BY <1>2, <1>3, <1>4

-----------------------------------------------------------------------------
(* Insertion.                                                              *)

LEMMA PutWrites ==
  ASSUME NEW c \in Nat \ {0}, NEW K, NEW t \in Tables(c, K),
         NEW e \in Rows(K), Hash(e.key) \in Int, Stops(t, e.key) # {}
  PROVE  LET p == SlotOf(t, e.key)
         IN  /\ Put(t, e) \in Tables(c, K)
             /\ p \in 0 .. c - 1 /\ Put(t, e)[p] = e
             /\ \A s \in 0 .. c - 1 : s # p => Put(t, e)[s] = t[s]
<1>1. e.key \in K
  BY DEF Rows
<1>2. SlotOf(t, e.key) \in 0 .. c - 1
  BY <1>1, ProbeEnds
<1>. QED
  BY <1>2 DEF Put, Tables

\* A row put where its probe ends is found there, and cuts no other entry off
\* from its own hash, whatever the table holds (the probe loops of
\* summary_add_function, dedup_group_slot, dedup_ident_slot, dedup_seen_add
\* and const_value_slot, armlint.c:23258, 24720, 24756, 24815, 25541).
THEOREM PutKeepsReachable ==
  ASSUME NEW c \in Nat \ {0}, NEW K, \A k \in K : Hash(k) \in Int,
         NEW t \in Tables(c, K), Reachable(t),
         NEW e \in Rows(K), e # Free, Stops(t, e.key) # {}
  PROVE  Reachable(Put(t, e))
<1>. DEFINE u == Put(t, e)
            p == SlotOf(t, e.key)
<1>1. e.key \in K /\ \A s \in 0 .. c - 1 : t[s].key \in K
  BY DEF Rows, Tables
<1>2. /\ u \in Tables(c, K) /\ p \in 0 .. c - 1 /\ u[p] = e
      /\ \A s \in 0 .. c - 1 : s # p => u[s] = t[s]
  BY SMTT(30), <1>1, PutWrites
<1>3. Cap(t) = c /\ Cap(u) = c /\ DOMAIN t = 0 .. c - 1 /\ DOMAIN u = 0 .. c - 1
  BY <1>2, TableSize
<1>4. \A k \in K, i \in 0 .. c - 1 : (Hash(k) + i) % c \in 0 .. c - 1
  <2>1. \A k \in K, i \in 0 .. c - 1 : Hash(k) + i \in Int
    OBVIOUS
  <2>. QED
    BY <2>1, Remainder
<1>. HIDE DEF u
<1>5. ASSUME NEW s \in Entries(u)
      PROVE  Stops(u, u[s].key) # {} /\ SlotOf(u, u[s].key) = s
  <2>. DEFINE k == u[s].key
              m == Min(Stops(t, k))
  <2>1. s \in 0 .. c - 1 /\ u[s] # Free
    BY <1>3 DEF Entries
  <2>2. k \in K
    BY <1>1, <1>2, <2>1
  <2>3. Stops(t, k) # {} /\ SlotOf(t, k) = s
    <3>1. CASE s = p
      BY <1>2, <3>1
    <3>2. CASE s # p
      <4>1. u[s] = t[s] /\ s \in Entries(t)
        BY <1>2, <1>3, <2>1, <3>2 DEF Entries
      <4>. QED
        BY <4>1 DEF Reachable
    <3>. QED
      BY <3>1, <3>2
  <2>. HIDE DEF k
  <2>4. /\ m \in 0 .. c - 1 /\ s = (Hash(k) + m) % c /\ Stopped(t, k, m)
        /\ \A i \in 0 .. c - 1 : i < m => ~Stopped(t, k, i)
    BY <2>2, <2>3, ProbeEnds
  <2>. HIDE DEF m
  <2>5. Stopped(u, k, m)
    BY <1>3, <2>4 DEF Stopped, k
  <2>6. ASSUME NEW i \in 0 .. c - 1, i < m
        PROVE  ~Stopped(u, k, i)
    <3>. DEFINE q == (Hash(k) + i) % c
    <3>1. q \in 0 .. c - 1
      BY <1>4, <2>2
    <3>2. t[q] # Free /\ t[q].key # k
      BY <1>3, <2>4, <2>6 DEF Stopped
    <3>3. q # s
      BY <1>3, <2>4, <3>2 DEF Stopped
    <3>4. CASE q # p
      BY <1>2, <1>3, <3>1, <3>2, <3>4 DEF Stopped
    <3>5. CASE q = p
      <4>1. e.key # k
        BY <2>3, <3>3, <3>5
      <4>2. u[q] = e
        BY <1>2, <3>5
      <4>. QED
        BY <1>3, <4>1, <4>2 DEF Stopped
    <3>. QED
      BY <3>4, <3>5
  <2>7. Stops(u, k) # {} /\ SlotOf(u, k) = (Hash(k) + m) % c
    BY <1>2, <2>2, <2>4, <2>5, <2>6, ProbeFound
  <2>. QED
    BY <2>4, <2>7 DEF k
<1>. QED
  BY <1>5 DEF Reachable, u

\* A probe ends as long as a slot is free, so a table that refuses its last
\* slot (dedup_seen_add, armlint.c:24788) never probes for ever.
THEOREM FreeSlotEndsProbe ==
  ASSUME NEW c \in Nat \ {0}, NEW K, NEW t \in Tables(c, K), Used(t) < Cap(t),
         NEW k \in K, Hash(k) \in Int
  PROVE  Stops(t, k) # {}
<1>1. Cap(t) = c /\ DOMAIN t = 0 .. c - 1
  BY TableSize
<1>2. PICK s \in 0 .. c - 1 : t[s] = Free
  <2>1. SUFFICES ASSUME \A s \in 0 .. c - 1 : t[s] # Free
                 PROVE  FALSE
    OBVIOUS
  <2>2. Entries(t) = DOMAIN t
    BY <1>1, <2>1 DEF Entries
  <2>3. Used(t) = c
    BY <1>1, <2>2 DEF Used, Cap
  <2>. QED
    BY <1>1, <2>3
<1>3. PICK i \in 0 .. c - 1 : (Hash(k) + i) % c = s
  BY EverySlotProbed
<1>4. i \in Stops(t, k)
  BY <1>1, <1>2, <1>3 DEF Stops
<1>. QED
  BY <1>4

\* Counting once more, under a key held or a new one, keeps every entry of a
\* table with a free slot findable (summary_add_function, armlint.c:23224).
THEOREM AddKeepsReachable ==
  ASSUME NEW c \in Nat \ {0}, NEW K, \A k \in K : Hash(k) \in Int,
         NEW t \in Tables(c, K), Reachable(t), Used(t) < Cap(t),
         NEW k \in K, NEW n \in Nat \ {0}
  PROVE  Reachable(Add(t, k, n))
<1>. DEFINE e == [key |-> k, count |-> CountOf(t, k) + n]
<1>1. Stops(t, k) # {}
  BY FreeSlotEndsProbe
<1>2. CountOf(t, k) \in Nat
  <2>1. SlotOf(t, k) \in 0 .. c - 1
    BY <1>1, ProbeEnds
  <2>. QED
    BY <1>1, <2>1 DEF CountOf, Tables, Rows
<1>3. e \in Rows(K) /\ e # Free /\ e.key = k
  BY <1>2 DEF Rows, Free
<1>4. Add(t, k, n) = Put(t, e)
  BY DEF Add
<1>. HIDE DEF e
<1>. QED
  BY <1>1, <1>3, <1>4, PutKeepsReachable

-----------------------------------------------------------------------------
(* What a table counts.                                                    *)

LEMMA CountIsNatural ==
  ASSUME NEW c \in Nat \ {0}, NEW K, NEW t \in Tables(c, K), NEW k \in K, Hash(k) \in Int
  PROVE  CountOf(t, k) \in Nat
<1>1. CASE Stops(t, k) = {}
  BY <1>1 DEF CountOf
<1>2. CASE Stops(t, k) # {}
  <2>1. SlotOf(t, k) \in 0 .. c - 1
    BY <1>2, ProbeEnds
  <2>. QED
    BY <2>1 DEF CountOf, Tables, Rows
<1>. QED
  BY <1>1, <1>2

\* A key's count is that of the entry that holds it.
LEMMA CountOfEntry ==
  ASSUME NEW t, Reachable(t), NEW s \in Entries(t)
  PROVE  CountOf(t, t[s].key) = t[s].count
BY DEF Reachable, CountOf, Entries

LEMMA CountedHasEntry ==
  ASSUME NEW c \in Nat \ {0}, NEW K, NEW t \in Tables(c, K), NEW k \in K, Hash(k) \in Int,
         CountOf(t, k) # 0
  PROVE  \E s \in Entries(t) : t[s].key = k /\ t[s].count = CountOf(t, k)
<1>. DEFINE s == SlotOf(t, k)
<1>1. Stops(t, k) # {} /\ t[s] # Free /\ CountOf(t, k) = t[s].count
  BY DEF CountOf
<1>2. /\ s = (Hash(k) + Min(Stops(t, k))) % c /\ s \in 0 .. c - 1
      /\ Stopped(t, k, Min(Stops(t, k)))
  BY <1>1, ProbeEnds
<1>3. DOMAIN t = 0 .. c - 1 /\ Cap(t) = c
  BY TableSize
<1>. HIDE DEF s
<1>4. t[s].key = k
  BY <1>1, <1>2, <1>3 DEF Stopped
<1>. QED
  BY <1>1, <1>2, <1>3, <1>4 DEF Entries

\* Putting a row sets the count of its key and of no other.
LEMMA PutCounts ==
  ASSUME NEW c \in Nat \ {0}, NEW K, \A k \in K : Hash(k) \in Int,
         NEW t \in Tables(c, K), Reachable(t),
         NEW e \in Rows(K), e.count > 0, Stops(t, e.key) # {},
         NEW k \in K
  PROVE  CountOf(Put(t, e), k) = IF k = e.key THEN e.count ELSE CountOf(t, k)
<1>. DEFINE u == Put(t, e)
            p == SlotOf(t, e.key)
<1>1. e.key \in K /\ e # Free /\ e.count # 0
  BY DEF Rows, Free
<1>2. /\ u \in Tables(c, K) /\ p \in 0 .. c - 1 /\ u[p] = e
      /\ \A s \in 0 .. c - 1 : s # p => u[s] = t[s]
  BY <1>1, PutWrites
<1>3. DOMAIN t = 0 .. c - 1 /\ DOMAIN u = 0 .. c - 1
  BY <1>2, TableSize
<1>4. Reachable(u)
  BY <1>1, PutKeepsReachable
<1>5. t[p] = Free \/ t[p].key = e.key
  <2>1. p = (Hash(e.key) + Min(Stops(t, e.key))) % c /\ Stopped(t, e.key, Min(Stops(t, e.key)))
    BY <1>1, ProbeEnds
  <2>2. Cap(t) = c
    BY TableSize
  <2>. HIDE DEF p
  <2>. QED
    BY <2>1, <2>2 DEF Stopped
<1>. HIDE DEF u, p
<1>6. CASE k = e.key
  <2>1. p \in Entries(u)
    BY <1>1, <1>2, <1>3 DEF Entries
  <2>2. CountOf(u, e.key) = e.count
    BY <1>2, <1>4, <2>1, CountOfEntry
  <2>. QED
    BY <1>6, <2>2 DEF u
<1>7. CASE k # e.key
  <2>1. ASSUME NEW s \in Entries(t), t[s].key = k
        PROVE  CountOf(u, k) = t[s].count
    <3>1. s # p /\ s \in 0 .. c - 1
      BY <1>3, <1>5, <1>7, <2>1 DEF Entries
    <3>2. u[s] = t[s] /\ s \in Entries(u)
      BY <1>2, <1>3, <3>1 DEF Entries
    <3>. QED
      BY <1>4, <2>1, <3>2, CountOfEntry
  <2>2. ASSUME NEW s \in Entries(u), u[s].key = k
        PROVE  s \in Entries(t) /\ t[s] = u[s]
    <3>1. s # p /\ s \in 0 .. c - 1
      BY <1>2, <1>3, <1>7, <2>2 DEF Entries
    <3>. QED
      BY <1>2, <1>3, <3>1 DEF Entries
  <2>3. CASE CountOf(t, k) # 0
    <3>1. PICK s \in Entries(t) : t[s].key = k /\ t[s].count = CountOf(t, k)
      BY <2>3, CountedHasEntry
    <3>. QED
      BY <1>7, <2>1, <3>1 DEF u
  <2>4. CASE CountOf(u, k) # 0
    <3>1. PICK s \in Entries(u) : u[s].key = k /\ u[s].count = CountOf(u, k)
      BY <1>2, <2>4, CountedHasEntry
    <3>2. s \in Entries(t) /\ t[s] = u[s]
      BY <2>2, <3>1
    <3>3. CountOf(t, k) = t[s].count
      BY <3>1, <3>2, CountOfEntry
    <3>. QED
      BY <1>7, <3>1, <3>2, <3>3 DEF u
  <2>. QED
    BY <1>7, <2>3, <2>4 DEF u
<1>. QED
  BY <1>6, <1>7

LEMMA PutUsesOneMore ==
  ASSUME NEW c \in Nat \ {0}, NEW K, NEW t \in Tables(c, K),
         NEW e \in Rows(K), Hash(e.key) \in Int, Stops(t, e.key) # {}
  PROVE  Used(Put(t, e)) \in Nat /\ Used(t) \in Nat /\ Used(Put(t, e)) <= Used(t) + 1
<1>. DEFINE u == Put(t, e)
            p == SlotOf(t, e.key)
<1>1. /\ u \in Tables(c, K) /\ p \in 0 .. c - 1 /\ u[p] = e
      /\ \A s \in 0 .. c - 1 : s # p => u[s] = t[s]
  BY PutWrites
<1>2. DOMAIN t = 0 .. c - 1 /\ DOMAIN u = 0 .. c - 1
  BY <1>1, TableSize
<1>. HIDE DEF u, p
<1>3. Entries(u) \subseteq Entries(t) \cup {p}
  BY <1>1, <1>2 DEF Entries
<1>4. IsFiniteSet(0 .. c - 1)
  BY FS_Interval
<1>5. IsFiniteSet(Entries(t))
  BY <1>2, <1>4, FS_Subset DEF Entries
<1>6. /\ IsFiniteSet(Entries(t) \cup {p})
      /\ Cardinality(Entries(t) \cup {p}) <= Cardinality(Entries(t)) + 1
      /\ Cardinality(Entries(t)) \in Nat /\ Cardinality(Entries(t) \cup {p}) \in Nat
  <2>1. Cardinality(Entries(t)) \in Nat
    BY <1>5, FS_CardinalityType
  <2>2. IsFiniteSet(Entries(t) \cup {p})
    BY <1>5, FS_AddElement
  <2>3. Cardinality(Entries(t) \cup {p})
          = IF p \in Entries(t) THEN Cardinality(Entries(t)) ELSE Cardinality(Entries(t)) + 1
    BY <1>5, FS_AddElement
  <2>. QED
    BY <2>1, <2>2, <2>3
<1>7. /\ IsFiniteSet(Entries(u)) /\ Cardinality(Entries(u)) <= Cardinality(Entries(t) \cup {p})
      /\ Cardinality(Entries(u)) \in Nat
  BY <1>3, <1>6, FS_Subset, FS_CardinalityType
<1>. QED
  BY <1>6, <1>7 DEF Used, u

-----------------------------------------------------------------------------
(* Rows put one after the other.                                           *)

\* A function defined step by step exists.
Unfolds(f, S, N, first, Step) ==
  f \in [0 .. N -> S] /\ f[0] = first /\ \A n \in 1 .. N : f[n] = Step[n][f[n - 1]]

LEMMA StepByStep ==
  ASSUME NEW S, NEW N \in Nat, NEW first \in S, NEW Step \in [1 .. N -> [S -> S]]
  PROVE  \E f : Unfolds(f, S, N, first, Step)
<1>. USE DEF Unfolds
<1>. DEFINE IsUpto(f, m) == /\ f \in [0 .. m -> S] /\ f[0] = first
                            /\ \A n \in 1 .. m : f[n] = Step[n][f[n - 1]]
            Bad == {m \in 0 .. N : ~\E f : IsUpto(f, m)}
<1>1. SUFFICES Bad = {}
  <2>1. N \notin Bad
    BY <1>1
  <2>. QED
    BY <2>1
<1>2. SUFFICES ASSUME Bad # {}
               PROVE  FALSE
  OBVIOUS
<1>. DEFINE m == Min(Bad)
<1>3. m \in Bad /\ \A i \in Bad : m <= i
  <2>1. Bad \in SUBSET Nat /\ Bad # {}
    BY <1>2
  <2>. HIDE DEF Bad
  <2>. QED
    BY <2>1, LeastDistance
<1>. HIDE DEF m
<1>4. CASE m = 0
  <2>1. IsUpto([i \in 0 .. 0 |-> first], 0)
    OBVIOUS
  <2>2. \E f : IsUpto(f, m)
    BY <1>4, <2>1
  <2>. QED
    BY <1>3, <2>2
<1>5. CASE m # 0
  <2>1. m - 1 \in 0 .. N /\ m \in 1 .. N /\ m - 1 \notin Bad
    <3>1. m \in 0 .. N
      BY <1>3
    <3>2. m - 1 \in 0 .. N /\ m \in 1 .. N /\ ~(m <= m - 1)
      BY <1>5, <3>1
    <3>. HIDE DEF Bad
    <3>. QED
      BY <1>3, <3>2
  <2>2. PICK f : IsUpto(f, m - 1)
    BY <2>1
  <2>. DEFINE g == [i \in 0 .. m |-> IF i = m THEN Step[m][f[m - 1]] ELSE f[i]]
  <2>3. f[m - 1] \in S /\ Step[m][f[m - 1]] \in S
    BY <2>1, <2>2
  <2>4. g \in [0 .. m -> S] /\ g[0] = first
    BY <1>5, <2>1, <2>2, <2>3
  <2>5. ASSUME NEW n \in 1 .. m
        PROVE  g[n] = Step[n][g[n - 1]]
    BY <2>1, <2>2, <2>5
  <2>6. IsUpto(g, m)
    BY <2>4, <2>5
  <2>. QED
    BY <1>3, <2>6
<1>. QED
  BY <1>4, <1>5

LEMMA PutIsTable ==
  ASSUME NEW c \in Nat \ {0}, NEW K, NEW t \in Tables(c, K), NEW e \in Rows(K)
  PROVE  Put(t, e) \in Tables(c, K)
BY DEF Put, Tables

\* What Filled computes, one row at a time.
LEMMA FilledSteps ==
  ASSUME NEW c \in Nat \ {0}, NEW K, <<>> \in K, NEW rows \in Seq(Rows(K))
  PROVE  \E T \in [0 .. Len(rows) -> Tables(c, K)] :
           /\ T[0] = FreshTable(c)
           /\ \A n \in 1 .. Len(rows) :
                T[n] = IF rows[n] = Free THEN T[n - 1] ELSE Put(T[n - 1], rows[n])
           /\ Filled(c, rows) = T[Len(rows)]
<1>. DEFINE N == Len(rows)
            Body(f) == [n \in 0 .. Len(rows) |->
                          IF n = 0 THEN FreshTable(c)
                          ELSE IF rows[n] = Free THEN f[n - 1] ELSE Put(f[n - 1], rows[n])]
            T == CHOOSE f : f = Body(f)
            S == Tables(c, K)
            Step == [n \in 1 .. N |-> [t \in S |-> IF rows[n] = Free THEN t ELSE Put(t, rows[n])]]
<1>1. N \in Nat /\ \A n \in 1 .. N : rows[n] \in Rows(K)
  OBVIOUS
<1>2. FreshTable(c) \in S
  BY DEF FreshTable, Free, Tables, Rows
<1>3. Step \in [1 .. N -> [S -> S]]
  BY <1>1, PutIsTable
<1>4. PICK f \in [0 .. N -> S] : f[0] = FreshTable(c) /\ \A n \in 1 .. N : f[n] = Step[n][f[n - 1]]
  <2>. HIDE DEF N, S, Step
  <2>1. N \in Nat
    BY <1>1
  <2>2. PICK f : Unfolds(f, S, N, FreshTable(c), Step)
    BY <1>2, <1>3, <2>1, StepByStep
  <2>. QED
    BY <2>2 DEF Unfolds
<1>5. \A n \in 1 .. N : f[n] = IF rows[n] = Free THEN f[n - 1] ELSE Put(f[n - 1], rows[n])
  <2>. SUFFICES ASSUME NEW n \in 1 .. N
                PROVE  f[n] = IF rows[n] = Free THEN f[n - 1] ELSE Put(f[n - 1], rows[n])
    OBVIOUS
  <2>1. n - 1 \in 0 .. N
    BY <1>1
  <2>2. f[n - 1] \in S
    BY <1>4, <2>1
  <2>. QED
    BY <1>4, <2>2
<1>6. f = Body(f)
  BY <1>1, <1>4, <1>5
<1>7. T = Body(T)
  BY <1>6
<1>8. Filled(c, rows) = T[N]
  BY DEF Filled
<1>. HIDE DEF T
<1>9. T[0] = FreshTable(c) /\ \A n \in 1 .. N :
        T[n] = IF rows[n] = Free THEN T[n - 1] ELSE Put(T[n - 1], rows[n])
  <2>1. 0 \in 0 .. N /\ \A n \in 1 .. N : n \in 0 .. N /\ n # 0
    BY <1>1
  <2>. QED
    BY <1>7, <2>1
<1>10. T \in [0 .. N -> S]
  <2>. DEFINE Bad == {n \in 0 .. N : T[n] # f[n]}
  <2>1. SUFFICES Bad = {}
    <3>1. DOMAIN T = 0 .. N /\ T = [n \in 0 .. N |-> T[n]]
      BY <1>7
    <3>. QED
      BY <1>4, <2>1, <3>1
  <2>2. SUFFICES ASSUME Bad # {}
                 PROVE  FALSE
    OBVIOUS
  <2>3. PICK m \in Bad : \A i \in Bad : m <= i
    <3>1. Bad \in SUBSET Nat
      OBVIOUS
    <3>. HIDE DEF Bad
    <3>. QED
      BY <2>2, <3>1, LeastDistance
  <2>4. m # 0
    BY <1>4, <1>9, <2>3
  <2>5. m \in 1 .. N /\ m - 1 \in 0 .. N /\ m - 1 \notin Bad
    BY <1>1, <2>3, <2>4
  <2>6. T[m - 1] = f[m - 1]
    BY <2>5
  <2>. QED
    BY <1>5, <1>9, <2>3, <2>5, <2>6
<1>. QED
  BY <1>8, <1>9, <1>10

-----------------------------------------------------------------------------
(* Sound tables: every entry is found from its hash and counts something.  *)

HashIsNumber == \A k : Hash(k) \in Int

Table(t) == \E c \in Nat \ {0, 1} : \E K : t \in Tables(c, K)
Sound(t) == Table(t) /\ Reachable(t) /\ \A s \in Entries(t) : t[s].count > 0

LEMMA TableWithKeys ==
  ASSUME NEW t, Table(t), NEW k, NEW q
  PROVE  /\ Cap(t) \in Nat \ {0, 1} /\ DOMAIN t = 0 .. Cap(t) - 1
         /\ Used(t) \in Nat /\ Used(t) <= Cap(t) /\ IsFiniteSet(Entries(t))
         /\ \E K : {k, q, <<>>} \subseteq K /\ t \in Tables(Cap(t), K)
<1>1. PICK c \in Nat \ {0, 1} : \E K : t \in Tables(c, K)
  BY DEF Table
<1>2. PICK K : t \in Tables(c, K)
  BY <1>1
<1>3. c \in Nat \ {0}
  OBVIOUS
<1>4. DOMAIN t = 0 .. c - 1 /\ Cap(t) = c
  BY <1>2, <1>3, TableSize
<1>5. t \in Tables(c, K \cup {k, q, <<>>})
  BY <1>2 DEF Tables, Rows
<1>6. IsFiniteSet(0 .. c - 1)
  BY <1>3, FS_Interval
<1>7. Entries(t) \subseteq DOMAIN t
  BY DEF Entries
<1>8. IsFiniteSet(Entries(t)) /\ Cardinality(Entries(t)) <= Cardinality(DOMAIN t)
  BY <1>4, <1>6, <1>7, FS_Subset
<1>9. Used(t) \in Nat /\ Used(t) <= Cap(t)
  BY <1>8, FS_CardinalityType DEF Used, Cap
<1>10. {k, q, <<>>} \subseteq K \cup {k, q, <<>>}
  OBVIOUS
<1>. QED
  BY <1>4, <1>5, <1>8, <1>9, <1>10

LEMMA SoundPut ==
  ASSUME HashIsNumber, NEW t, Sound(t), Used(t) < Cap(t), NEW k, NEW n \in Nat \ {0}
  PROVE  LET u == Put(t, [key |-> k, count |-> n])
         IN  /\ Sound(u) /\ Cap(u) = Cap(t) /\ Used(u) <= Used(t) + 1
             /\ \A q : CountOf(u, q) = IF q = k THEN n ELSE CountOf(t, q)
<1>. DEFINE e == [key |-> k, count |-> n]
            u == Put(t, e)
            c == Cap(t)
<1>1. c \in Nat \ {0, 1} /\ c \in Nat \ {0} /\ Used(t) \in Nat
  BY TableWithKeys DEF Sound
<1>2. \A K : k \in K => e \in Rows(K)
  BY DEF Rows
<1>3. e.key = k /\ e.count = n /\ e.count > 0 /\ e # Free
  BY DEF Free
<1>4. PICK K : k \in K /\ t \in Tables(c, K)
  BY TableWithKeys DEF Sound
<1>5. Stops(t, k) # {}
  BY <1>1, <1>4, FreeSlotEndsProbe DEF HashIsNumber
<1>. HIDE DEF e, c
<1>6. u \in Tables(c, K)
  BY <1>1, <1>2, <1>4, PutIsTable
<1>7. Cap(u) = c
  BY <1>1, <1>6, TableSize
<1>8. Reachable(u)
  BY <1>1, <1>2, <1>3, <1>4, <1>5, PutKeepsReachable DEF Sound, HashIsNumber
<1>9. Used(u) <= Used(t) + 1
  BY <1>1, <1>2, <1>3, <1>4, <1>5, PutUsesOneMore DEF HashIsNumber
<1>10. ASSUME NEW q
       PROVE  CountOf(u, q) = IF q = k THEN n ELSE CountOf(t, q)
  <2>1. PICK L : {k, q} \subseteq L /\ t \in Tables(c, L)
    BY TableWithKeys DEF Sound, c
  <2>. QED
    BY <1>1, <1>2, <1>3, <1>5, <2>1, PutCounts DEF Sound, HashIsNumber
<1>11. \A s \in Entries(u) : u[s].count > 0
  <2>1. DOMAIN u = 0 .. c - 1 /\ DOMAIN t = 0 .. c - 1
    BY <1>1, <1>4, <1>6, TableSize
  <2>2. u[SlotOf(t, k)] = e /\ \A s \in 0 .. c - 1 : s # SlotOf(t, k) => u[s] = t[s]
    BY <1>1, <1>2, <1>3, <1>4, <1>5, PutWrites DEF HashIsNumber
  <2>. HIDE DEF u
  <2>. QED
    BY <1>3, <2>1, <2>2 DEF Sound, Entries
<1>12. Table(u)
  BY <1>1, <1>6 DEF Table
<1>. QED
  BY <1>7, <1>8, <1>9, <1>10, <1>11, <1>12 DEF Sound, c, e

LEMMA FreshIsSound ==
  ASSUME HashIsNumber, NEW c \in Nat \ {0, 1}
  PROVE  LET t == FreshTable(c)
         IN  Sound(t) /\ Cap(t) = c /\ Used(t) = 0 /\ \A q : CountOf(t, q) = 0
<1>. DEFINE t == FreshTable(c)
<1>1. t \in Tables(c, {<<>>})
  BY DEF FreshTable, Free, Tables, Rows
<1>2. c \in Nat \ {0} /\ Cap(t) = c
  BY <1>1, TableSize
<1>3. Entries(t) = {}
  BY DEF Entries, FreshTable
<1>4. Used(t) = 0
  BY <1>3, FS_EmptySet DEF Used
<1>5. Table(t)
  BY <1>1 DEF Table
<1>. HIDE DEF t
<1>6. ASSUME NEW q
      PROVE  CountOf(t, q) = 0
  <2>1. PICK K : q \in K /\ t \in Tables(c, K)
    BY <1>2, <1>5, TableWithKeys
  <2>. QED
    BY <1>2, <1>3, <2>1, CountedHasEntry DEF HashIsNumber
<1>7. Sound(t)
  BY <1>3, <1>5 DEF Sound, Reachable
<1>. QED
  BY <1>2, <1>4, <1>6, <1>7 DEF t

DistinctRows(rows) ==
  /\ \A i \in 1 .. Len(rows) : rows[i] # Free => rows[i].count > 0
  /\ \A i, j \in 1 .. Len(rows) :
       rows[i] # Free /\ rows[j] # Free /\ rows[i].key = rows[j].key => i = j
CountsRows(t, rows) ==
  /\ \A i \in 1 .. Len(rows) : rows[i] # Free => CountOf(t, rows[i].key) = rows[i].count
  /\ \A q : CountOf(t, q) # 0 =>
       \E i \in 1 .. Len(rows) : rows[i] # Free /\ rows[i].key = q /\ rows[i].count = CountOf(t, q)

\* Rows of distinct keys, put into a table with more slots than rows, are all
\* counted, and nothing else is.
LEMMA SoundFilled ==
  ASSUME HashIsNumber, NEW c \in Nat \ {0, 1}, NEW K, <<>> \in K,
         NEW rows \in Seq(Rows(K)), Len(rows) < c, DistinctRows(rows)
  PROVE  LET t == Filled(c, rows)
         IN  Sound(t) /\ Cap(t) = c /\ Used(t) <= Len(rows) /\ CountsRows(t, rows)
<1>. DEFINE N == Len(rows)
            Done(t, n) ==
              /\ Sound(t) /\ Cap(t) = c /\ Used(t) <= n
              /\ \A i \in 1 .. n : rows[i] # Free => CountOf(t, rows[i].key) = rows[i].count
              /\ \A q : CountOf(t, q) # 0 =>
                   \E i \in 1 .. n : /\ rows[i] # Free /\ rows[i].key = q
                                     /\ rows[i].count = CountOf(t, q)
<1>1. N \in Nat /\ \A n \in 1 .. N : rows[n] \in Rows(K)
  OBVIOUS
<1>2. PICK T \in [0 .. N -> Tables(c, K)] :
        /\ T[0] = FreshTable(c)
        /\ \A n \in 1 .. N : T[n] = IF rows[n] = Free THEN T[n - 1] ELSE Put(T[n - 1], rows[n])
        /\ Filled(c, rows) = T[N]
  <2>1. c \in Nat \ {0}
    OBVIOUS
  <2>. QED
    BY <2>1, FilledSteps
<1>3. Done(T[0], 0)
  BY <1>2, FreshIsSound
<1>4. ASSUME NEW n \in 1 .. N, Done(T[n - 1], n - 1)
      PROVE  Done(T[n], n)
  <2>1. n \in Nat /\ n - 1 \in Nat /\ n - 1 < c /\ 1 .. n = (1 .. n - 1) \cup {n}
    BY <1>1
  <2>2. CASE rows[n] = Free
    <3>1. T[n] = T[n - 1]
      BY <1>2, <2>2
    <3>2. Used(T[n]) <= n
      <4>1. Used(T[n]) \in Nat
        BY <1>4, <3>1, TableWithKeys DEF Sound
      <4>. QED
        BY <1>4, <2>1, <3>1, <4>1
    <3>3. \A i \in 1 .. n : rows[i] # Free => CountOf(T[n], rows[i].key) = rows[i].count
      BY <1>4, <2>1, <2>2, <3>1
    <3>4. ASSUME NEW q, CountOf(T[n], q) # 0
          PROVE  \E i \in 1 .. n : rows[i] # Free /\ rows[i].key = q /\ rows[i].count = CountOf(T[n], q)
      BY <1>4, <2>1, <3>1, <3>4
    <3>. QED
      BY <1>4, <3>1, <3>2, <3>3, <3>4
  <2>3. CASE rows[n] # Free
    <3>. DEFINE t == T[n - 1]
                e == rows[n]
                u == Put(t, e)
    <3>1. T[n] = u
      BY <1>2, <2>3
    <3>2. e.count \in Nat \ {0} /\ e = [key |-> e.key, count |-> e.count]
      BY <1>1, <2>3 DEF Rows, DistinctRows
    <3>3. Used(t) < Cap(t) /\ Used(t) \in Nat /\ Sound(t) /\ Cap(t) = c
      <4>1. Sound(t) /\ Used(t) <= n - 1 /\ Cap(t) = c
        BY <1>4
      <4>2. Used(t) \in Nat
        BY <4>1, TableWithKeys DEF Sound
      <4>. QED
        BY <2>1, <4>1, <4>2
    <3>. HIDE DEF t, e, u
    <3>4. /\ Sound(u) /\ Cap(u) = c /\ Used(u) <= Used(t) + 1
          /\ \A q : CountOf(u, q) = IF q = e.key THEN e.count ELSE CountOf(t, q)
      BY <3>2, <3>3, SoundPut DEF u
    <3>5. Used(u) <= n
      <4>1. Used(t) <= n - 1
        BY <1>4 DEF t
      <4>2. Used(u) \in Nat
        BY <3>4, TableWithKeys DEF Sound
      <4>. QED
        BY <2>1, <3>3, <3>4, <4>1, <4>2
    <3>6. ASSUME NEW i \in 1 .. n, rows[i] # Free
          PROVE  CountOf(u, rows[i].key) = rows[i].count
      <4>1. CASE i = n
        BY <3>4, <4>1 DEF e
      <4>2. CASE i # n
        <5>1. i \in 1 .. n - 1 /\ i \in 1 .. N
          BY <1>1, <2>1, <4>2
        <5>2. rows[i].key # e.key
          BY <2>3, <3>6, <4>2, <5>1 DEF e, DistinctRows
        <5>3. CountOf(t, rows[i].key) = rows[i].count
          BY <1>4, <3>6, <5>1 DEF t
        <5>. QED
          BY <3>4, <5>2, <5>3
      <4>. QED
        BY <4>1, <4>2
    <3>7. ASSUME NEW q, CountOf(u, q) # 0
          PROVE  \E i \in 1 .. n : rows[i] # Free /\ rows[i].key = q /\ rows[i].count = CountOf(u, q)
      <4>1. CASE q = e.key
        BY <2>1, <2>3, <3>4, <4>1 DEF e
      <4>2. CASE q # e.key
        <5>1. CountOf(u, q) = CountOf(t, q)
          BY <3>4, <4>2
        <5>2. PICK i \in 1 .. n - 1 : /\ rows[i] # Free /\ rows[i].key = q
                                      /\ rows[i].count = CountOf(t, q)
          BY <1>4, <3>7, <5>1 DEF t
        <5>. QED
          BY <2>1, <5>1, <5>2
      <4>. QED
        BY <4>1, <4>2
    <3>. QED
      BY <3>1, <3>4, <3>5, <3>6, <3>7
  <2>. QED
    BY <2>2, <2>3
<1>. HIDE DEF Done
<1>5. Done(T[N], N)
  <2>. DEFINE Bad == {n \in 0 .. N : ~Done(T[n], n)}
  <2>1. SUFFICES ASSUME Bad # {}
                 PROVE  FALSE
    BY <1>1
  <2>2. PICK m \in Bad : \A i \in Bad : m <= i
    <3>1. Bad \in SUBSET Nat
      OBVIOUS
    <3>. HIDE DEF Bad
    <3>. QED
      BY <2>1, <3>1, LeastDistance
  <2>3. m # 0 /\ m \in 0 .. N
    BY <1>3, <2>2
  <2>4. m \in 1 .. N /\ m - 1 \in 0 .. N /\ ~(m <= m - 1)
    BY <1>1, <2>3
  <2>5. m - 1 \notin Bad
    BY <2>2, <2>4
  <2>. QED
    BY <1>4, <2>2, <2>4, <2>5
<1>. QED
  BY <1>2, <1>5 DEF Done, CountsRows

LEMMA UnusedTable ==
  /\ Cap(Unused) = 0 /\ Used(Unused) = 0 /\ Entries(Unused) = {} /\ Due(Unused)
  /\ Reachable(Unused) /\ \A q : CountOf(Unused, q) = 0
<1>1. DOMAIN Unused = {}
  BY DEF Unused
<1>2. Cap(Unused) = 0 /\ Entries(Unused) = {}
  BY <1>1, FS_EmptySet DEF Cap, Entries
<1>3. Used(Unused) = 0
  BY <1>2, FS_EmptySet DEF Used
<1>4. \A q : Stops(Unused, q) = {}
  BY <1>2 DEF Stops
<1>. QED
  BY <1>2, <1>3, <1>4 DEF Due, Reachable, CountOf

LEMMA SoundIsUsed ==
  ASSUME NEW t, Sound(t)
  PROVE  t # Unused
<1>1. Cap(t) \in Nat \ {0, 1}
  BY TableWithKeys DEF Sound
<1>. QED
  BY <1>1, UnusedTable

\* A table hashed again is twice as large and counts the same.
LEMMA SoundRehash ==
  ASSUME HashIsNumber, NEW t, Sound(t)
  PROVE  LET u == Rehashed(t)
         IN  /\ Sound(u) /\ Cap(u) = 2 * Cap(t) /\ Used(u) <= Cap(t)
             /\ \A q : CountOf(u, q) = CountOf(t, q)
<1>. DEFINE u == Rehashed(t)
            c == Cap(t)
            rows == [i \in 1 .. c |-> t[i - 1]]
<1>1. /\ c \in Nat \ {0, 1} /\ c \in Nat \ {0} /\ c \in Nat /\ 2 * c \in Nat \ {0, 1} /\ c < 2 * c
      /\ DOMAIN t = 0 .. c - 1
  BY TableWithKeys DEF Sound
<1>2. PICK K : <<>> \in K /\ t \in Tables(c, K)
  BY TableWithKeys DEF Sound
<1>3. NextCap(t) = 2 * c
  BY SoundIsUsed DEF NextCap
<1>. HIDE DEF c
<1>4. \A i \in 1 .. c : i - 1 \in 0 .. c - 1
  BY <1>1
<1>5. rows \in [1 .. c -> Rows(K)]
  BY <1>2, <1>4 DEF Tables
<1>6. rows \in Seq(Rows(K)) /\ Len(rows) = c
  <2>1. rows \in Seq(Rows(K))
    BY <1>1, <1>5, SeqDef
  <2>2. DOMAIN rows = 1 .. c
    OBVIOUS
  <2>. HIDE DEF rows
  <2>3. DOMAIN rows = 1 .. Len(rows) /\ Len(rows) \in Nat
    BY <2>1, LenProperties
  <2>. QED
    BY <1>1, <2>1, <2>2, <2>3
<1>7. u = Filled(2 * c, rows)
  BY <1>3 DEF Rehashed, c
<1>8. \A i \in 1 .. c : rows[i] # Free =>
        i - 1 \in Entries(t) /\ rows[i] = t[i - 1] /\ rows[i].count > 0
  BY <1>1, <1>4 DEF Entries, Sound
<1>9. ASSUME NEW i \in 1 .. c, NEW j \in 1 .. c, rows[i] # Free, rows[j] # Free, rows[i].key = rows[j].key
      PROVE  i = j
  <2>1. SlotOf(t, rows[i].key) = i - 1 /\ SlotOf(t, rows[j].key) = j - 1
    BY <1>8, <1>9 DEF Sound, Reachable
  <2>. QED
    BY <1>1, <1>9, <2>1
<1>. HIDE DEF rows, u
<1>10. DistinctRows(rows)
  BY <1>6, <1>8, <1>9 DEF DistinctRows
<1>11. Sound(u) /\ Cap(u) = 2 * c /\ Used(u) <= Len(rows) /\ CountsRows(u, rows)
  BY <1>1, <1>2, <1>6, <1>7, <1>10, SoundFilled
<1>12. /\ Sound(u) /\ Cap(u) = 2 * c /\ Used(u) <= c
       /\ \A i \in 1 .. c : rows[i] # Free => CountOf(u, rows[i].key) = rows[i].count
       /\ \A q : CountOf(u, q) # 0 =>
            \E i \in 1 .. c : rows[i] # Free /\ rows[i].key = q /\ rows[i].count = CountOf(u, q)
  BY <1>6, <1>11 DEF CountsRows
<1>13. ASSUME NEW q
       PROVE  CountOf(u, q) = CountOf(t, q)
  <2>1. CASE CountOf(u, q) # 0
    <3>1. PICK i \in 1 .. c : rows[i] # Free /\ rows[i].key = q /\ rows[i].count = CountOf(u, q)
      BY <1>12, <2>1
    <3>2. CountOf(t, q) = rows[i].count
      BY <1>8, <3>1, CountOfEntry DEF Sound
    <3>. QED
      BY <3>1, <3>2
  <2>2. CASE CountOf(t, q) # 0
    <3>1. PICK L : q \in L /\ t \in Tables(c, L)
      BY TableWithKeys DEF Sound, c
    <3>2. PICK s \in Entries(t) : t[s].key = q /\ t[s].count = CountOf(t, q)
      BY <1>1, <2>2, <3>1, CountedHasEntry DEF HashIsNumber
    <3>3. s \in 0 .. c - 1 /\ t[s] # Free
      BY <1>1, <3>2 DEF Entries
    <3>4. s + 1 \in 1 .. c /\ rows[s + 1] = t[s]
      BY <1>1, <3>3 DEF rows
    <3>. QED
      BY <1>12, <3>2, <3>3, <3>4
  <2>. QED
    BY <2>1, <2>2
<1>. QED
  BY <1>12, <1>13 DEF u, c

\* A table allocated or hashed again has room for two more rows.
LEMMA SoundGrowth ==
  ASSUME HashIsNumber, SlotsAssumption, NEW t, t = Unused \/ Sound(t)
  PROVE  LET u == Rehashed(t)
         IN  /\ Sound(u) /\ Used(u) + 1 < Cap(u)
             /\ \A q : CountOf(u, q) = CountOf(t, q)
<1>1. CASE t = Unused
  <2>. DEFINE rows == [i \in 1 .. Cap(t) |-> t[i - 1]]
  <2>1. rows = <<>>
    BY <1>1, UnusedTable
  <2>2. InitialSlots \in Nat \ {0, 1}
    BY SlotsAssumption
  <2>3. Rehashed(t) = Filled(InitialSlots, <<>>)
    BY <1>1, <2>1 DEF Rehashed, NextCap
  <2>4. <<>> \in Seq(Rows({<<>>})) /\ Len(<<>>) = 0
    OBVIOUS
  <2>5. DistinctRows(<<>>)
    BY <2>4 DEF DistinctRows
  <2>6. /\ Sound(Rehashed(t)) /\ Cap(Rehashed(t)) = InitialSlots /\ Used(Rehashed(t)) <= Len(<<>>)
        /\ CountsRows(Rehashed(t), <<>>)
    <3>. DEFINE none == <<>>
                K    == {<<>>}
    <3>1. <<>> \in K /\ none \in Seq(Rows(K)) /\ Len(none) < InitialSlots /\ DistinctRows(none)
      BY <2>2, <2>4, <2>5
    <3>2. Rehashed(t) = Filled(InitialSlots, none)
      BY <2>3
    <3>. HIDE DEF none, K
    <3>3. /\ Sound(Rehashed(t)) /\ Cap(Rehashed(t)) = InitialSlots /\ Used(Rehashed(t)) <= Len(none)
          /\ CountsRows(Rehashed(t), none)
      BY <2>2, <3>1, <3>2, SoundFilled
    <3>. QED
      BY <3>3 DEF none
  <2>7. /\ Sound(Rehashed(t)) /\ Cap(Rehashed(t)) = InitialSlots /\ Used(Rehashed(t)) <= 0
        /\ \A q : CountOf(Rehashed(t), q) # 0 => \E i \in 1 .. 0 : TRUE
    BY <2>4, <2>6 DEF CountsRows
  <2>8. Used(Rehashed(t)) \in Nat
    BY <2>7, TableWithKeys DEF Sound
  <2>9. \A q : CountOf(Rehashed(t), q) = 0
    BY <2>7
  <2>. QED
    BY <1>1, <2>2, <2>7, <2>8, <2>9, UnusedTable
<1>2. CASE Sound(t)
  <2>1. /\ Sound(Rehashed(t)) /\ Cap(Rehashed(t)) = 2 * Cap(t) /\ Used(Rehashed(t)) <= Cap(t)
        /\ \A q : CountOf(Rehashed(t), q) = CountOf(t, q)
    BY <1>2, SoundRehash
  <2>2. Used(Rehashed(t)) \in Nat /\ Cap(t) \in Nat \ {0, 1}
    BY <1>2, <2>1, TableWithKeys DEF Sound
  <2>. QED
    BY <2>1, <2>2
<1>. QED
  BY <1>1, <1>2

\* A table not due to grow has room for one more row.
LEMMA NotDue ==
  ASSUME NEW t, t = Unused \/ Sound(t), ~Due(t)
  PROVE  Sound(t) /\ Used(t) + 1 < Cap(t)
<1>1. Sound(t)
  BY UnusedTable
<1>2. Cap(t) \in Nat \ {0, 1} /\ Used(t) \in Nat
  BY <1>1, TableWithKeys DEF Sound
<1>. QED
  BY <1>1, <1>2 DEF Due

\* Counting n more under a key.
LEMMA SoundAdd ==
  ASSUME HashIsNumber, NEW t, Sound(t), Used(t) < Cap(t), NEW k, NEW n \in Nat \ {0}
  PROVE  LET u == Add(t, k, n)
         IN  /\ Sound(u) /\ Cap(u) = Cap(t) /\ Used(u) <= Used(t) + 1
             /\ \A q : CountOf(u, q) = IF q = k THEN CountOf(t, k) + n ELSE CountOf(t, q)
<1>1. Cap(t) \in Nat \ {0}
  BY TableWithKeys DEF Sound
<1>2. PICK K : k \in K /\ t \in Tables(Cap(t), K)
  BY TableWithKeys DEF Sound
<1>3. CountOf(t, k) \in Nat
  BY <1>1, <1>2, CountIsNatural DEF HashIsNumber
<1>4. CountOf(t, k) + n \in Nat \ {0}
  BY <1>3
<1>. QED
  BY <1>4, SoundPut DEF Add

\* Grown when due, a table keeps a free slot after one more row.
Open(t) == t = Unused \/ (Sound(t) /\ Used(t) < Cap(t))

LEMMA RoomToAdd ==
  ASSUME HashIsNumber, SlotsAssumption, NEW t, t = Unused \/ Sound(t)
  PROVE  LET u == Grown(t, TRUE)
         IN  /\ Sound(u) /\ Used(u) < Cap(u) /\ \A q : CountOf(u, q) = CountOf(t, q)
             /\ \A k : \A n \in Nat \ {0} : Open(Add(u, k, n))
<1>. DEFINE u == Grown(t, TRUE)
<1>1. Sound(u) /\ Used(u) + 1 < Cap(u) /\ \A q : CountOf(u, q) = CountOf(t, q)
  <2>1. CASE Due(t)
    <3>1. u = Rehashed(t)
      BY <2>1 DEF Grown
    <3>. QED
      BY <3>1, SoundGrowth
  <2>2. CASE ~Due(t)
    <3>1. u = t
      BY <2>2 DEF Grown
    <3>2. Sound(t) /\ Used(t) + 1 < Cap(t)
      BY <2>2, NotDue
    <3>. QED
      BY <3>1, <3>2
  <2>. QED
    BY <2>1, <2>2
<1>. HIDE DEF u
<1>2. Used(u) \in Nat /\ Cap(u) \in Nat
  BY <1>1, TableWithKeys DEF Sound
<1>3. Used(u) < Cap(u)
  BY <1>1, <1>2
<1>4. ASSUME NEW k, NEW n \in Nat \ {0}
      PROVE  Open(Add(u, k, n))
  <2>1. Sound(Add(u, k, n)) /\ Cap(Add(u, k, n)) = Cap(u) /\ Used(Add(u, k, n)) <= Used(u) + 1
    BY <1>1, <1>3, SoundAdd
  <2>2. Used(Add(u, k, n)) \in Nat
    BY <2>1, TableWithKeys DEF Sound
  <2>. QED
    BY <1>1, <1>2, <2>1, <2>2 DEF Open
<1>. QED
  BY <1>1, <1>3, <1>4 DEF u

\* Growing a table and counting under a key keep its rows.
LEMMA AddIsTable ==
  ASSUME HashIsNumber, NEW c \in Nat \ {0}, NEW K, NEW t \in Tables(c, K),
         NEW k \in K, NEW n \in Nat
  PROVE  Add(t, k, n) \in Tables(c, K)
<1>1. CountOf(t, k) \in Nat
  BY CountIsNatural DEF HashIsNumber
<1>2. [key |-> k, count |-> CountOf(t, k) + n] \in Rows(K)
  BY <1>1 DEF Rows
<1>. QED
  BY <1>2, PutIsTable DEF Add

LEMMA GrownIsTable ==
  ASSUME SlotsAssumption, NEW K, <<>> \in K, NEW t,
         t = Unused \/ \E c \in Nat \ {0, 1} : t \in Tables(c, K)
  PROVE  \E c \in Nat \ {0, 1} : Grown(t, TRUE) \in Tables(c, K)
<1>1. CASE ~Due(t)
  <2>1. t # Unused /\ Grown(t, TRUE) = t
    BY <1>1, UnusedTable DEF Grown
  <2>. QED
    BY <2>1
<1>2. CASE Due(t)
  <2>. DEFINE rows == [i \in 1 .. Cap(t) |-> t[i - 1]]
  <2>1. Grown(t, TRUE) = Filled(NextCap(t), rows)
    BY <1>2 DEF Grown, Rehashed
  <2>2. NextCap(t) \in Nat \ {0, 1} /\ rows \in Seq(Rows(K))
    <3>1. CASE t = Unused
      <4>1. rows = <<>>
        BY <3>1, UnusedTable
      <4>2. rows \in Seq(Rows(K))
        <5>. HIDE DEF rows
        <5>. QED
          BY <4>1
      <4>. QED
        BY <3>1, <4>2 DEF NextCap, SlotsAssumption
    <3>2. CASE t # Unused
      <4>1. PICK c \in Nat \ {0, 1} : t \in Tables(c, K)
        BY <3>2
      <4>2. c \in Nat \ {0} /\ Cap(t) = c
        BY <4>1, TableSize
      <4>3. NextCap(t) = 2 * c
        BY <3>2, <4>2 DEF NextCap
      <4>4. \A i \in 1 .. c : t[i - 1] \in Rows(K)
        <5>1. \A i \in 1 .. c : i - 1 \in 0 .. c - 1
          OBVIOUS
        <5>. QED
          BY <4>1, <5>1 DEF Tables
      <4>5. rows \in [1 .. c -> Rows(K)]
        BY <4>2, <4>4
      <4>. HIDE DEF rows
      <4>. QED
        BY <4>2, <4>3, <4>5, SeqDef
    <3>. QED
      BY <3>1, <3>2
  <2>. HIDE DEF rows
  <2>3. NextCap(t) \in Nat \ {0} /\ Len(rows) \in 0 .. Len(rows)
    BY <2>2
  <2>4. PICK T \in [0 .. Len(rows) -> Tables(NextCap(t), K)] : Filled(NextCap(t), rows) = T[Len(rows)]
    BY <2>2, <2>3, FilledSteps
  <2>. QED
    BY <2>1, <2>2, <2>3, <2>4
<1>. QED
  BY <1>1, <1>2

\* A growth that may fail leaves room where the caller insists on it.
LEMMA GrownHasRoom ==
  ASSUME HashIsNumber, SlotsAssumption, NEW t, t = Unused \/ Sound(t), NEW b \in BOOLEAN,
         b \/ ~Due(t) \/ Used(t) < Cap(t)
  PROVE  LET u == Grown(t, b)
         IN  /\ Sound(u) /\ Used(u) < Cap(u) /\ \A q : CountOf(u, q) = CountOf(t, q)
             /\ (b \/ ~Due(t) \/ Used(t) + 1 < Cap(t)) => \A k : \A n \in Nat \ {0} : Open(Add(u, k, n))
<1>. DEFINE u == Grown(t, b)
<1>1. CASE b \/ ~Due(t)
  <2>1. u = Grown(t, TRUE)
    BY <1>1 DEF Grown
  <2>. HIDE DEF u
  <2>. QED
    BY <2>1, RoomToAdd DEF u
<1>2. CASE ~b /\ Due(t)
  <2>1. u = t /\ Used(t) < Cap(t)
    BY <1>2 DEF Grown
  <2>2. Sound(t)
    BY <2>1, UnusedTable
  <2>3. ASSUME Used(t) + 1 < Cap(t), NEW k, NEW n \in Nat \ {0}
        PROVE  Open(Add(t, k, n))
    <3>1. Sound(Add(t, k, n)) /\ Cap(Add(t, k, n)) = Cap(t) /\ Used(Add(t, k, n)) <= Used(t) + 1
      BY <2>1, <2>2, SoundAdd
    <3>2. Used(Add(t, k, n)) \in Nat /\ Used(t) \in Nat /\ Cap(t) \in Nat
      BY <2>2, <3>1, TableWithKeys DEF Sound
    <3>. QED
      BY <2>3, <3>1, <3>2 DEF Open
  <2>. QED
    BY <1>2, <2>1, <2>2, <2>3
<1>. QED
  BY <1>1, <1>2

-----------------------------------------------------------------------------
(* The functions of a range.                                               *)

\* A set of the first few numbers is an interval.
LEMMA FirstFew ==
  ASSUME NEW n \in Nat, NEW P \in SUBSET (1 .. n), \A i \in P : \A j \in 1 .. i : j \in P
  PROVE  Cardinality(P) \in 0 .. n /\ P = 1 .. Cardinality(P)
<1>. DEFINE Q == {m \in 0 .. n : \A i \in P : i <= m}
<1>1. n \in Q
  OBVIOUS
<1>2. PICK m \in Q : \A i \in Q : m <= i
  <2>1. Q \in SUBSET Nat /\ Q # {}
    BY <1>1
  <2>. HIDE DEF Q
  <2>. QED
    BY <2>1, LeastDistance
<1>3. P = 1 .. m
  <2>1. CASE m = 0
    BY <1>2, <2>1
  <2>2. CASE m # 0
    <3>1. m - 1 \in 0 .. n /\ ~(m <= m - 1)
      BY <1>2, <2>2
    <3>2. PICK i \in P : ~(i <= m - 1)
      BY <1>2, <3>1
    <3>3. i = m /\ m \in P
      BY <1>2, <3>2
    <3>4. P \subseteq 1 .. m
      BY <1>2
    <3>5. \A j \in 1 .. m : j \in P
      BY <3>3
    <3>. QED
      BY <3>4, <3>5
  <2>. QED
    BY <2>1, <2>2
<1>4. Cardinality(1 .. m) = m
  BY <1>2, FS_Interval
<1>. QED
  BY <1>2, <1>3, <1>4

LEMMA IntervalLength ==
  ASSUME NEW m \in Nat, NEW n \in Nat, 1 .. m = 1 .. n
  PROVE  m = n
<1>1. Cardinality(1 .. m) = m /\ Cardinality(1 .. n) = n
  BY FS_Interval
<1>. QED
  BY <1>1

Places     == [start : Nat, end : Nat]
Aligned(f) == f.start % 4 = 0 /\ f.end % 4 = 0 /\ f.start <= f.end

LEMMA WholeWords ==
  ASSUME NEW s \in Nat, NEW e \in Nat
  PROVE  LET w == Whole(s, e)
         IN  /\ w \in Places /\ Aligned(w) /\ s <= w.start
             /\ w.start < w.end => w.end <= e
<1>. DEFINE start == 4 * ((s + 3) \div 4)
            end == IF e <= start THEN start ELSE start + 4 * ((e - start) \div 4)
<1>1. start \in Nat /\ s <= start /\ start % 4 = 0
  OBVIOUS
<1>2. Whole(s, e) = [start |-> start, end |-> end]
  BY DEF Whole
<1>. HIDE DEF start
<1>3. end \in Nat /\ end % 4 = 0 /\ start <= end /\ (start < end => end <= e)
  <2>1. CASE e <= start
    BY <1>1, <2>1
  <2>2. CASE ~(e <= start)
    <3>. DEFINE d == (e - start) \div 4
    <3>1. d \in Nat /\ 4 * d <= e - start
      BY <1>1, <2>2
    <3>2. end = start + 4 * d
      BY <2>2
    <3>. HIDE DEF d, end
    <3>. QED
      BY <1>1, <3>1, <3>2
  <2>. QED
    BY <2>1, <2>2
<1>. HIDE DEF end
<1>. QED
  BY <1>1, <1>2, <1>3 DEF Places, Aligned

\* The anchors below an address are the first of the table.
LEMMA BelowIsFirst ==
  ASSUME NEW anchors \in Seq(Symbols), Sorted(anchors), NEW v \in Nat
  PROVE  /\ Cardinality(Below(anchors, v)) \in 0 .. Len(anchors)
         /\ Below(anchors, v) = 1 .. Cardinality(Below(anchors, v))
<1>1. /\ Len(anchors) \in Nat /\ DOMAIN anchors = 1 .. Len(anchors)
      /\ \A i \in DOMAIN anchors : anchors[i].at \in Nat
  <2>1. \A a \in Symbols : a.at \in Nat
    BY DEF Symbols
  <2>. QED
    BY <2>1
<1>2. Below(anchors, v) \in SUBSET (1 .. Len(anchors))
  BY <1>1 DEF Below
<1>3. ASSUME NEW i \in Below(anchors, v), NEW j \in 1 .. i
      PROVE  j \in Below(anchors, v)
  <2>1. i \in DOMAIN anchors /\ anchors[i].at < v
    BY DEF Below
  <2>2. i \in Nat /\ j \in Nat /\ j \in DOMAIN anchors /\ j <= i
    BY <1>1, <2>1
  <2>3. j = i \/ anchors[j].at < anchors[i].at
    BY <1>1, <2>1, <2>2 DEF Sorted
  <2>4. anchors[j].at < v
    BY <1>1, <2>1, <2>2, <2>3
  <2>. QED
    BY <2>2, <2>4 DEF Below
<1>. QED
  BY <1>1, <1>2, <1>3, FirstFew

LEMMA Reaches ==
  ASSUME NEW size \in Nat, NEW gap \in Nat
  PROVE  Reach(size, gap) \in Nat /\ Reach(size, gap) \in 0 .. gap
BY DEF Reach

Within(r, f) == f.start < f.end => f.end <= 4 * Len(r.words)

\* The functions of a range lie one behind the other, but for empty ones.
LEMMA SpansInOrder ==
  ASSUME NEW r \in CodeRanges, Sorted(r.anchors)
  PROVE  LET spans == Spans(r)
         IN  /\ spans \in Seq(Places)
             /\ \A i \in DOMAIN spans : Aligned(spans[i])
             /\ \A i, j \in DOMAIN spans :
                  i < j /\ spans[i].start < spans[i].end => spans[i].end <= spans[j].start
             /\ \A i \in DOMAIN spans : Within(r, spans[i])
<1>. DEFINE len      == 4 * Len(r.words)
            a        == r.anchors
            first    == Cardinality(Below(a, r.base))
            last     == Cardinality(Below(a, r.base + len))
            Start(i) == a[i].at - r.base
            Gap(i)   == (IF i < last THEN Start(i + 1) ELSE len) - Start(i)
            End(i)   == Start(i) + Reach(a[i].size, Gap(i))
            spans    == Spans(r)
<1>1. a \in Seq(Symbols) /\ r.base \in Nat /\ len \in Nat
  <2>1. r.words \in Seq(Opcodes)
    BY DEF CodeRanges
  <2>2. Len(r.words) \in Nat
    BY <2>1
  <2>. QED
    BY <2>2 DEF CodeRanges
<1>2. CASE first = last
  <2>1. spans = <<Whole(0, len)>>
    BY <1>2 DEF Spans
  <2>2. Whole(0, len) \in Places /\ Aligned(Whole(0, len)) /\ Within(r, Whole(0, len))
    BY <1>1, WholeWords DEF Within
  <2>. HIDE DEF spans
  <2>3. DOMAIN spans = {1} /\ spans[1] = Whole(0, len) /\ spans \in Seq(Places)
    BY <2>1, <2>2
  <2>. QED
    BY <2>2, <2>3 DEF spans
<1>3. CASE first # last
  <2>1. /\ first \in Nat /\ last \in 0 .. Len(a) /\ Len(a) \in Nat
        /\ Below(a, r.base) = 1 .. first /\ Below(a, r.base + len) = 1 .. last
    <3>1. r.base + len \in Nat /\ Sorted(a) /\ Len(a) \in Nat
      BY <1>1
    <3>. HIDE DEF a, len
    <3>2. first \in 0 .. Len(a) /\ Below(a, r.base) = 1 .. first
      BY <1>1, <3>1, BelowIsFirst
    <3>3. last \in 0 .. Len(a) /\ Below(a, r.base + len) = 1 .. last
      BY <1>1, <3>1, BelowIsFirst
    <3>. QED
      BY <3>1, <3>2, <3>3
  <2>2. spans = [n \in 1 .. last - first |-> Whole(Start(first + n), End(first + n))]
    BY <1>3 DEF Spans
  <2>. HIDE DEF first, last, len, spans
  <2>3. ASSUME NEW i \in first + 1 .. last
        PROVE  /\ i \in DOMAIN a /\ a[i].at \in Nat /\ a[i].size \in Nat
               /\ Start(i) \in Nat /\ Start(i) < len
    <3>1. i \in 1 .. Len(a) /\ i \notin 1 .. first /\ i \in 1 .. last
      BY <2>1
    <3>2. i \in DOMAIN a /\ a[i] \in Symbols
      BY <1>1, <3>1
    <3>3. a[i].at \in Nat /\ a[i].size \in Nat
      BY <3>2 DEF Symbols
    <3>4. ~(a[i].at < r.base) /\ a[i].at < r.base + len
      BY <2>1, <3>1, <3>2 DEF Below
    <3>. QED
      BY <1>1, <3>2, <3>3, <3>4
  <2>4. ASSUME NEW i \in first + 1 .. last, NEW j \in first + 1 .. last, i < j
        PROVE  i < last /\ i + 1 \in first + 1 .. last /\ Start(i) < Start(i + 1) /\ Start(i + 1) <= Start(j)
    <3>1. i \in Nat /\ j \in Nat /\ i + 1 \in first + 1 .. last /\ i < last /\ (i + 1 = j \/ i + 1 < j)
      BY <2>1, <2>4
    <3>2. /\ a[i].at \in Nat /\ a[i + 1].at \in Nat /\ a[j].at \in Nat
          /\ i \in DOMAIN a /\ i + 1 \in DOMAIN a /\ j \in DOMAIN a
      BY <2>3, <3>1
    <3>3. a[i].at < a[i + 1].at
      BY <3>1, <3>2 DEF Sorted
    <3>4. i + 1 < j => a[i + 1].at < a[j].at
      BY <3>1, <3>2 DEF Sorted
    <3>. QED
      BY SMTT(30), <1>1, <3>1, <3>2, <3>3, <3>4
  <2>5. ASSUME NEW i \in first + 1 .. last
        PROVE  Gap(i) \in Nat /\ End(i) \in Nat
    <3>1. CASE i < last
      <4>1. i + 1 \in first + 1 .. last /\ i < i + 1
        BY <2>1, <3>1
      <4>2. Start(i) < Start(i + 1) /\ Start(i + 1) \in Nat
        BY <2>3, <2>4, <4>1
      <4>3. Gap(i) \in Nat
        BY <2>3, <3>1, <4>2
      <4>. HIDE DEF Gap
      <4>4. a[i].size \in Nat
        BY <2>3
      <4>5. Reach(a[i].size, Gap(i)) \in Nat
        BY <4>3, <4>4, Reaches
      <4>. QED
        BY <2>3, <4>3, <4>5
    <3>2. CASE ~(i < last)
      <4>1. Gap(i) \in Nat
        BY <1>1, <2>3, <3>2
      <4>. HIDE DEF Gap
      <4>2. a[i].size \in Nat
        BY <2>3
      <4>3. Reach(a[i].size, Gap(i)) \in Nat
        BY <4>1, <4>2, Reaches
      <4>. QED
        BY <2>3, <4>1, <4>3
    <3>. QED
      BY <3>1, <3>2
  <2>6. ASSUME NEW i \in first + 1 .. last, NEW j \in first + 1 .. last, i < j
        PROVE  End(i) <= Start(j)
    <3>1. Gap(i) = Start(i + 1) - Start(i)
      BY <2>4, <2>6
    <3>2. Gap(i) \in Nat /\ a[i].size \in Nat /\ Start(i) \in Nat /\ Start(i + 1) \in Nat /\ Start(j) \in Nat
      BY <2>3, <2>4, <2>5, <2>6
    <3>. HIDE DEF Gap, Start
    <3>3. Reach(a[i].size, Gap(i)) \in 0 .. Gap(i)
      BY <3>2, Reaches
    <3>4. End(i) <= Start(i + 1)
      BY <3>1, <3>2, <3>3
    <3>5. Start(i + 1) <= Start(j)
      BY <2>4, <2>6
    <3>. HIDE DEF End
    <3>6. End(i) \in Nat
      BY <2>5
    <3>. QED
      BY <3>2, <3>4, <3>5, <3>6
  <2>7. ASSUME NEW i \in first + 1 .. last
         PROVE  End(i) <= len
    <3>1. CASE i < last
      <4>1. last \in first + 1 .. last /\ i < last
        BY <2>1, <3>1
      <4>2. End(i) <= Start(last) /\ Start(last) < len /\ Start(last) \in Nat
        BY <2>3, <2>6, <4>1
      <4>. HIDE DEF End, Start
      <4>. QED
        BY <1>1, <2>5, <4>2
    <3>2. CASE ~(i < last)
      <4>1. Gap(i) = len - Start(i)
        BY <3>2
      <4>2. Gap(i) \in Nat /\ a[i].size \in Nat /\ Start(i) \in Nat
        BY <2>3, <2>5
      <4>. HIDE DEF Gap, Start
      <4>3. Reach(a[i].size, Gap(i)) \in 0 .. Gap(i)
        BY <4>2, Reaches
      <4>. QED
        BY <1>1, <4>1, <4>2, <4>3
    <3>. QED
      BY <3>1, <3>2
  <2>8. /\ last - first \in Int /\ DOMAIN spans = 1 .. last - first
        /\ \A n \in DOMAIN spans : first + n \in first + 1 .. last
    BY <2>1, <2>2
  <2>. HIDE DEF Start, End, Gap
  <2>9. ASSUME NEW n \in DOMAIN spans
        PROVE  /\ spans[n] \in Places /\ Aligned(spans[n]) /\ Start(first + n) <= spans[n].start
               /\ spans[n].start < spans[n].end => spans[n].end <= End(first + n)
    <3>1. Start(first + n) \in Nat /\ End(first + n) \in Nat
      BY <2>3, <2>5, <2>8
    <3>2. spans[n] = Whole(Start(first + n), End(first + n))
      BY <2>2, <2>8
    <3>. QED
      BY <3>1, <3>2, WholeWords
  <2>10. spans \in Seq(Places)
    <3>1. spans \in [1 .. last - first -> Places]
      BY <2>2, <2>8, <2>9
    <3>2. CASE last - first \in Nat
      BY <3>1, <3>2, SeqDef
    <3>3. CASE last - first \notin Nat
      <4>1. spans = <<>>
        BY <2>8, <3>1, <3>3
      <4>. QED
        BY <4>1
    <3>. QED
      BY <3>2, <3>3
  <2>11. ASSUME NEW m \in DOMAIN spans, NEW n \in DOMAIN spans, m < n, spans[m].start < spans[m].end
         PROVE  spans[m].end <= spans[n].start
    <3>1. /\ spans[m].end <= End(first + m) /\ End(first + m) <= Start(first + n)
          /\ Start(first + n) <= spans[n].start
      <4>1. first + m < first + n
        BY <2>1, <2>8, <2>11
      <4>. QED
        BY <2>6, <2>8, <2>9, <2>11, <4>1
    <3>2. spans[m].end \in Nat /\ End(first + m) \in Nat /\ Start(first + n) \in Nat /\ spans[n].start \in Nat
      BY <2>3, <2>5, <2>8, <2>9 DEF Places
    <3>. QED
      BY <3>1, <3>2
  <2>12. ASSUME NEW n \in DOMAIN spans
         PROVE  Within(r, spans[n])
    <3>1. End(first + n) <= len /\ End(first + n) \in Nat
      BY <2>5, <2>8, <2>7
    <3>2. spans[n].end \in Nat
      BY <2>9 DEF Places
    <3>. QED
      BY <1>1, <2>9, <3>1, <3>2 DEF Within, len
  <2>. QED
    BY <2>9, <2>10, <2>11, <2>12 DEF spans
<1>. QED
  BY <1>2, <1>3

LEMMA TrimmedStays ==
  ASSUME NEW r, NEW f \in Places, Aligned(f)
  PROVE  LET t == Trimmed(r, f)
         IN  t \in Places /\ Aligned(t) /\ t.start = f.start /\ t.end <= f.end
<1>. DEFINE kept == {o \in Offsets(f) : At(r, o).op \notin Padding \/ o \in Marks(r, f)}
            o    == CHOOSE o \in kept : \A p \in kept : p <= o
<1>1. f = [start |-> f.start, end |-> f.end] /\ f.start \in Nat /\ f.end \in Nat
  BY DEF Places
<1>2. CASE kept = {}
  <2>1. Trimmed(r, f) = [f EXCEPT !.end = f.start]
    BY <1>2 DEF Trimmed
  <2>. QED
    BY <1>1, <2>1 DEF Places, Aligned
<1>3. CASE kept # {}
  <2>1. Trimmed(r, f) = [f EXCEPT !.end = o + 4]
    BY <1>3 DEF Trimmed
  <2>2. \A p \in kept : p \in Nat /\ f.start <= p /\ p < f.end /\ (p - f.start) % 4 = 0
    BY <1>1 DEF Offsets
  <2>3. o \in kept
    <3>. DEFINE ends == {f.end - p : p \in kept}
    <3>1. ends \in SUBSET Nat /\ ends # {}
      BY <1>1, <1>3, <2>2
    <3>2. PICK m \in ends : \A i \in ends : m <= i
      <4>. HIDE DEF ends
      <4>. QED
        BY <3>1, LeastDistance
    <3>3. PICK q \in kept : m = f.end - q
      BY <3>2
    <3>. HIDE DEF kept
    <3>4. ASSUME NEW p \in kept
          PROVE  p <= q
      <4>1. m <= f.end - p
        BY <3>2
      <4>. QED
        BY <1>1, <2>2, <3>3, <4>1
    <3>. QED
      BY <3>3, <3>4
  <2>. HIDE DEF kept, o
  <2>4. o \in Nat /\ f.start <= o /\ o < f.end /\ (o - f.start) % 4 = 0
    BY <2>2, <2>3
  <2>5. (o + 4) % 4 = 0 /\ o + 4 <= f.end /\ f.start <= o + 4
    BY <1>1, <2>4 DEF Aligned
  <2>. QED
    BY <1>1, <2>1, <2>4, <2>5 DEF Places, Aligned
<1>. QED
  BY <1>2, <1>3

-----------------------------------------------------------------------------
(* The chains of a range and their values.                                 *)

LEMMA ChainsAreSequence ==
  ASSUME NEW r \in CodeRanges
  PROVE  \E C : Scanned(r).chains \in Seq(C)
<1>. DEFINE U == Int \cup {Ones}
            V == {<<>>} \cup UNION {[Halves(w) -> U] : w \in Opcodes}
            C == [length : Nat, offset : Int, rd : Nat, value : V]
            X == [skip : Int, words : Nat, chains : Seq(C), open : C]
            N == Len(r.words)
            start == [skip |-> 0, words |-> 0, chains |-> <<>>, open |-> NoChain]
            Step == [i \in 1 .. N |-> [s \in X |-> AfterWord(r, s, i)]]
            Body(f) == [i \in 0 .. N |-> IF i = 0 THEN start ELSE AfterWord(r, f[i - 1], i)]
            T == CHOOSE f : f = Body(f)
<1>1. r.words \in Seq(Opcodes) /\ N \in Nat /\ \A i \in 1 .. N : r.words[i] \in Opcodes
  <2>1. r.words \in Seq(Opcodes)
    BY DEF CodeRanges
  <2>. QED
    BY <2>1
<1>2. start \in X
  BY DEF NoChain
<1>3. ASSUME NEW w \in Opcodes, NEW old \in V,
             w.op \in {"movz", "movn"} \/ Halves(w) = DOMAIN old
      PROVE  MoveWideValue(w, old) \in V
  <2>1. w.imm \in U /\ 0 \in U /\ Ones \in U
    BY DEF Opcodes
  <2>2. CASE w.op \in {"movz", "movn"}
    <3>. HIDE DEF U
    <3>1. MoveWideValue(w, old) \in [Halves(w) -> U]
      BY <2>1, <2>2 DEF MoveWideValue
    <3>. QED
      BY <3>1
  <2>3. CASE w.op \notin {"movz", "movn"} /\ Halves(w) = DOMAIN old
    <3>1. 0 \in Halves(w)
      BY DEF Halves
    <3>2. DOMAIN (<<>>) = {}
      OBVIOUS
    <3>3. old # <<>>
      BY <2>3, <3>1, <3>2
    <3>4. PICK v \in Opcodes : old \in [Halves(v) -> U]
      BY <3>3
    <3>. HIDE DEF U
    <3>5. \A h \in Halves(w) : old[h] \in U
      BY <2>3, <3>4
    <3>6. MoveWideValue(w, old) \in [Halves(w) -> U]
      BY <2>1, <3>5 DEF MoveWideValue
    <3>. QED
      BY <3>6
  <2>. QED
    BY <1>3, <2>2, <2>3
<1>. HIDE DEF V
<1>4. ASSUME NEW s \in X
      PROVE  Closed(s) \in Seq(C)
  <2>. HIDE DEF C
  <2>1. s.chains \in Seq(C) /\ s.open \in C
    OBVIOUS
  <2>. QED
    BY <2>1 DEF Closed
<1>5. NoChain \in C
  BY DEF NoChain, V
<1>6. ASSUME NEW i \in 1 .. N, NEW s \in X
      PROVE  AfterWord(r, s, i) \in X
  <2>. DEFINE all == [start |-> 0, end |-> 4 * Len(r.words)]
              o   == 4 * (i - 1)
              w   == r.words[i]
  <2>1. w \in Opcodes /\ w.rd \in Nat /\ o \in Int /\ i \in Nat
    <3>1. w \in Opcodes
      BY <1>1
    <3>2. w.rd \in Nat
      BY <3>1 DEF Opcodes
    <3>3. i \in Nat
      BY <1>1
    <3>. QED
      BY <3>1, <3>2, <3>3
  <2>2. Closed(s) \in Seq(C)
    BY <1>4
  <2>3. CASE o < s.skip
    BY <2>3 DEF AfterWord
  <2>4. CASE ~(o < s.skip) /\ IsPool(r, all, o)
    <3>1. At(r, o) = w
      <4>1. o \div 4 + 1 = i
        BY <2>1
      <4>. HIDE DEF o
      <4>. QED
        BY <4>1 DEF At
    <3>2. PoolEnd(r, all, o) \in Int
      <4>1. w.imm \in Int
        BY <2>1 DEF Opcodes
      <4>2. PoolEnd(r, all, o) = o + 4 * (w.imm + 1)
        BY <3>1 DEF PoolEnd
      <4>. HIDE DEF o, w, all, C
      <4>. QED
        BY <2>1, <4>1, <4>2
    <3>3. AfterWord(r, s, i) = [s EXCEPT !.skip = PoolEnd(r, all, o), !.chains = Closed(s), !.open = NoChain]
      BY <2>4 DEF AfterWord
    <3>. HIDE DEF o, all, C
    <3>. QED
      BY <1>5, <2>2, <3>2, <3>3
  <2>5. CASE ~(o < s.skip) /\ ~IsPool(r, all, o) /\ Extends(w, s.open)
    <3>1. AfterWord(r, s, i)
            = [s EXCEPT !.words = @ + 1, !.open.value = MoveWideValue(w, @), !.open.length = @ + 1]
      BY <2>5 DEF AfterWord
    <3>2. MoveWideValue(w, s.open.value) \in V
      <4>1. s.open.value \in V /\ Halves(w) = DOMAIN s.open.value
        BY <2>5 DEF Extends
      <4>. HIDE DEF w
      <4>. QED
        BY <1>3, <2>1, <4>1
    <3>. DEFINE valued == [s.open EXCEPT !.value = MoveWideValue(w, s.open.value)]
                open   == [valued EXCEPT !.length = s.open.length + 1]
    <3>. HIDE DEF o, all, w
    <3>3. s = [skip |-> s.skip, words |-> s.words, chains |-> s.chains, open |-> s.open]
      OBVIOUS
    <3>4. valued \in C
      BY <3>2
    <3>5. open \in C
      <4>1. s.open.length + 1 \in Nat
        OBVIOUS
      <4>. HIDE DEF valued
      <4>2. ASSUME NEW n \in Nat
            PROVE  [valued EXCEPT !.length = n] \in C
        BY <3>4
      <4>. QED
        BY <4>1, <4>2
    <3>6. AfterWord(r, s, i) = [skip |-> s.skip, words |-> s.words + 1, chains |-> s.chains, open |-> open]
      BY <3>1, <3>3
    <3>. HIDE DEF open
    <3>. QED
      BY <3>5, <3>6
  <2>6. CASE ~(o < s.skip) /\ ~IsPool(r, all, o) /\ ~Extends(w, s.open)
    <3>. DEFINE open == IF w.op \notin {"movz", "movn"} THEN NoChain
                        ELSE [length |-> 1, offset |-> o, rd |-> w.rd, value |-> MoveWideValue(w, <<>>)]
    <3>1. AfterWord(r, s, i) = [s EXCEPT !.words = @ + 1, !.chains = Closed(s), !.open = open]
      BY <2>6 DEF AfterWord
    <3>2. <<>> \in V
      BY DEF V
    <3>3. w.op \in {"movz", "movn"} => MoveWideValue(w, <<>>) \in V
      <4>. HIDE DEF w
      <4>. QED
        BY <1>3, <2>1, <3>2
    <3>4. open \in C
      <4>. HIDE DEF w, o
      <4>. QED
        BY <1>5, <2>1, <3>3
    <3>5. s = [skip |-> s.skip, words |-> s.words, chains |-> s.chains, open |-> s.open]
      OBVIOUS
    <3>. HIDE DEF open, C
    <3>6. AfterWord(r, s, i) = [skip |-> s.skip, words |-> s.words + 1, chains |-> Closed(s), open |-> open]
      BY <3>1, <3>5
    <3>. QED
      BY <2>2, <3>4, <3>6
  <2>. QED
    BY <2>3, <2>4, <2>5, <2>6
<1>7. Step \in [1 .. N -> [X -> X]]
  <2>. HIDE DEF X
  <2>. QED
    BY <1>6
<1>8. PICK f : Unfolds(f, X, N, start, Step)
  <2>1. N \in Nat
    BY <1>1
  <2>. HIDE DEF N, X, Step, start
  <2>. QED
    BY <1>2, <1>7, <2>1, StepByStep
<1>. HIDE DEF X, start
<1>9. f = Body(f)
  <2>1. f \in [0 .. N -> X] /\ f[0] = start /\ \A i \in 1 .. N : f[i] = Step[i][f[i - 1]]
    BY <1>8 DEF Unfolds
  <2>2. \A i \in 0 .. N : i # 0 => i \in 1 .. N /\ i - 1 \in 0 .. N
    BY <1>1
  <2>3. \A i \in 0 .. N : f[i] = IF i = 0 THEN start ELSE AfterWord(r, f[i - 1], i)
    BY <2>1, <2>2
  <2>. QED
    BY <2>1, <2>3
<1>10. T = Body(T)
  BY <1>9
<1>11. Scanned(r).chains = Closed(T[N])
  BY DEF Scanned, ScanOf, start
<1>. HIDE DEF T
<1>12. T[N] \in X
  <2>. DEFINE Bad == {n \in 0 .. N : T[n] \notin X}
  <2>1. SUFFICES ASSUME Bad # {}
                 PROVE  FALSE
    BY <1>1
  <2>2. PICK m \in Bad : \A i \in Bad : m <= i
    <3>1. Bad \in SUBSET Nat
      BY <1>1
    <3>. HIDE DEF Bad
    <3>. QED
      BY <2>1, <3>1, LeastDistance
  <2>3. m # 0
    <3>1. 0 \in 0 .. N
      BY <1>1
    <3>2. T[0] = start
      BY <1>10, <3>1
    <3>. QED
      BY <1>2, <2>2, <3>2
  <2>4. m \in 1 .. N /\ m - 1 \in 0 .. N /\ m \in 0 .. N /\ ~(m <= m - 1)
    BY <1>1, <2>2, <2>3
  <2>5. m - 1 \notin Bad
    BY <2>2, <2>4
  <2>6. T[m] = AfterWord(r, T[m - 1], m)
    BY <1>10, <2>3, <2>4
  <2>. QED
    BY <1>6, <2>2, <2>4, <2>5, <2>6
<1>. QED
  BY <1>4, <1>11, <1>12

LEMMA TalliedIsOpen ==
  ASSUME HashIsNumber, SlotsAssumption, Open(values), NEW C, NEW chains \in Seq(C)
  PROVE  Open(Tallied(chains))
<1>. DEFINE N == Len(chains)
            Body(f) == [n \in 0 .. N |->
                          IF n = 0 THEN values ELSE Add(Grown(f[n - 1], TRUE), chains[n].value, 1)]
            T == CHOOSE f : f = Body(f)
<1>1. N \in Nat
  OBVIOUS
<1>2. PICK K0 : values = Unused \/ \E c \in Nat \ {0, 1} : values \in Tables(c, K0)
  BY DEF Open, Sound, Table
<1>. DEFINE K == K0 \cup {<<>>} \cup {chains[n].value : n \in 1 .. N}
            S == {Unused} \cup UNION {Tables(c, K) : c \in Nat \ {0, 1}}
            Step == [n \in 1 .. N |-> [t \in S |-> Add(Grown(t, TRUE), chains[n].value, 1)]]
<1>3. values \in S
  <2>1. \A c \in Nat \ {0, 1} : Tables(c, K0) \subseteq Tables(c, K)
    BY DEF Tables, Rows
  <2>. QED
    BY <1>2, <2>1
<1>4. ASSUME NEW n \in 1 .. N, NEW t \in S
      PROVE  Add(Grown(t, TRUE), chains[n].value, 1) \in S
  <2>1. <<>> \in K /\ chains[n].value \in K
    OBVIOUS
  <2>2. t = Unused \/ \E c \in Nat \ {0, 1} : t \in Tables(c, K)
    OBVIOUS
  <2>. HIDE DEF K
  <2>3. PICK c \in Nat \ {0, 1} : Grown(t, TRUE) \in Tables(c, K)
    BY <2>1, <2>2, GrownIsTable
  <2>4. c \in Nat \ {0} /\ 1 \in Nat
    OBVIOUS
  <2>5. Add(Grown(t, TRUE), chains[n].value, 1) \in Tables(c, K)
    BY <2>1, <2>3, <2>4, AddIsTable
  <2>. QED
    BY <2>5
<1>. HIDE DEF S
<1>5. Step \in [1 .. N -> [S -> S]]
  BY <1>4
<1>6. PICK f : Unfolds(f, S, N, values, Step)
  <2>. HIDE DEF N, Step
  <2>. QED
    BY <1>1, <1>3, <1>5, StepByStep
<1>7. f = Body(f)
  <2>1. f \in [0 .. N -> S] /\ f[0] = values /\ \A n \in 1 .. N : f[n] = Step[n][f[n - 1]]
    BY <1>6 DEF Unfolds
  <2>2. \A n \in 0 .. N : n # 0 => n \in 1 .. N /\ n - 1 \in 0 .. N
    BY <1>1
  <2>3. \A n \in 0 .. N : f[n] = IF n = 0 THEN values ELSE Add(Grown(f[n - 1], TRUE), chains[n].value, 1)
    BY <2>1, <2>2
  <2>. QED
    BY <2>1, <2>3
<1>8. T = Body(T)
  BY <1>7
<1>9. Tallied(chains) = T[N]
  BY DEF Tallied
<1>. HIDE DEF T
<1>10. Open(T[N])
  <2>. DEFINE Bad == {n \in 0 .. N : ~Open(T[n])}
  <2>1. SUFFICES ASSUME Bad # {}
                 PROVE  FALSE
    BY <1>1
  <2>2. PICK m \in Bad : \A i \in Bad : m <= i
    <3>1. Bad \in SUBSET Nat
      BY <1>1
    <3>. HIDE DEF Bad
    <3>. QED
      BY <2>1, <3>1, LeastDistance
  <2>3. m # 0
    <3>1. 0 \in 0 .. N
      BY <1>1
    <3>2. T[0] = values
      BY <1>8, <3>1
    <3>. QED
      BY <2>2, <3>2
  <2>4. m \in 1 .. N /\ m - 1 \in 0 .. N /\ m \in 0 .. N /\ ~(m <= m - 1)
    BY <1>1, <2>2, <2>3
  <2>5. m - 1 \notin Bad
    BY <2>2, <2>4
  <2>6. T[m] = Add(Grown(T[m - 1], TRUE), chains[m].value, 1)
    BY <1>8, <2>3, <2>4
  <2>7. Open(T[m - 1])
    BY <2>4, <2>5
  <2>8. T[m - 1] = Unused \/ Sound(T[m - 1])
    BY <2>7 DEF Open
  <2>9. Open(T[m])
    <3>. DEFINE t == T[m - 1]
    <3>1. t = Unused \/ Sound(t)
      BY <2>8
    <3>. HIDE DEF t
    <3>2. \A k : \A n \in Nat \ {0} : Open(Add(Grown(t, TRUE), k, n))
      BY <3>1, RoomToAdd
    <3>3. T[m] = Add(Grown(t, TRUE), chains[m].value, 1)
      BY <2>6 DEF t
    <3>4. 1 \in Nat \ {0}
      OBVIOUS
    <3>. QED
      BY <3>2, <3>3, <3>4
  <2>. QED
    BY <2>2, <2>9
<1>. QED
  BY <1>9, <1>10

-----------------------------------------------------------------------------
(* The groups.                                                             *)

\* A group and its size, the functions in it and their findings.
GroupRows(K) == [key : K, size : Nat, copies : Nat, variants : Nat, findings : Nat, distinct : Nat]

\* Each group is found under its key, and no other key leads to one.
GroupsFound ==
  /\ \E K : groups \in Seq(GroupRows(K))
  /\ \A g \in DOMAIN groups : CountOf(slots, groups[g].key) = g
  /\ \A q : CountOf(slots, q) # 0 =>
       CountOf(slots, q) \in DOMAIN groups /\ groups[CountOf(slots, q)].key = q

LEMMA GroupsFitSlots ==
  ASSUME HashIsNumber, SlotsAssumption, Open(slots), GroupsFound
  PROVE  Len(groups) \in Nat /\ DOMAIN groups = 1 .. Len(groups) /\ Len(groups) + 1 < NextCap(slots)
<1>1. PICK K : groups \in Seq(GroupRows(K))
  BY DEF GroupsFound
<1>. DEFINE n == Len(groups)
<1>2. n \in Nat /\ DOMAIN groups = 1 .. n
  BY <1>1
<1>. HIDE DEF n
<1>3. CASE slots = Unused
  <2>1. \A g \in DOMAIN groups : g = 0
    BY <1>3, UnusedTable DEF GroupsFound
  <2>2. n = 0
    BY <1>2, <2>1
  <2>. QED
    BY <1>2, <1>3, <2>2 DEF NextCap, SlotsAssumption, n
<1>4. CASE slots # Unused
  <2>1. Sound(slots) /\ Used(slots) < Cap(slots) /\ Cap(slots) \in Nat /\ Used(slots) \in Nat
    BY <1>4, TableWithKeys DEF Open, Sound
  <2>2. ASSUME NEW g \in 1 .. n
        PROVE  \E s \in Entries(slots) : slots[s].count = g
    <3>1. CountOf(slots, groups[g].key) = g /\ g # 0
      BY <1>2 DEF GroupsFound
    <3>2. PICK L : groups[g].key \in L /\ slots \in Tables(Cap(slots), L)
      BY <2>1, TableWithKeys DEF Sound
    <3>3. Cap(slots) \in Nat \ {0}
      BY <2>1, TableWithKeys DEF Sound
    <3>. QED
      BY <3>1, <3>2, <3>3, CountedHasEntry DEF HashIsNumber
  <2>. DEFINE f == [g \in 1 .. n |-> CHOOSE s \in Entries(slots) : slots[s].count = g]
  <2>3. f \in [1 .. n -> Entries(slots)] /\ \A g \in 1 .. n : slots[f[g]].count = g
    BY <2>2
  <2>. HIDE DEF f
  <2>4. IsFiniteSet(Entries(slots)) /\ IsFiniteSet(1 .. n) /\ Cardinality(1 .. n) = n
    <3>1. IsFiniteSet(Entries(slots))
      BY <2>1, TableWithKeys DEF Sound
    <3>2. IsFiniteSet(1 .. n) /\ Cardinality(1 .. n) = n
      BY <1>2, FS_Interval
    <3>. QED
      BY <3>1, <3>2
  <2>5. ~(Cardinality(Entries(slots)) < n)
    <3>1. SUFFICES ASSUME Cardinality(Entries(slots)) < n
                   PROVE  FALSE
      OBVIOUS
    <3>2. \E x, y \in 1 .. n : x # y /\ f[x] = f[y]
      <4>. DEFINE P == 1 .. n
                  E == Entries(slots)
      <4>1. IsFiniteSet(P) /\ IsFiniteSet(E) /\ Cardinality(E) < Cardinality(P) /\ f \in [P -> E]
        BY <2>3, <2>4, <3>1
      <4>. HIDE DEF P, E
      <4>2. \E x, y \in P : x # y /\ f[x] = f[y]
        BY <4>1, FS_PigeonHole
      <4>. QED
        BY <4>2 DEF P
    <3>. QED
      BY <2>3, <3>2
  <2>. QED
    BY <1>2, <1>4, <2>1, <2>5 DEF Used, NextCap, n
<1>. QED
  BY <1>3, <1>4

LEMMA RegroupedTable ==
  ASSUME HashIsNumber, SlotsAssumption, Open(slots), GroupsFound
  PROVE  /\ Sound(Regrouped) /\ Used(Regrouped) + 1 < Cap(Regrouped)
         /\ \A q : CountOf(Regrouped, q) = CountOf(slots, q)
<1>. DEFINE rows == [g \in DOMAIN groups |-> [key |-> groups[g].key, count |-> g]]
            n == Len(groups)
            c == NextCap(slots)
<1>1. n \in Nat /\ DOMAIN groups = 1 .. n /\ n + 1 < c
  BY GroupsFitSlots
<1>2. c \in Nat \ {0, 1}
  <2>1. slots # Unused => Cap(slots) \in Nat \ {0, 1}
    BY TableWithKeys DEF Open, Sound
  <2>. QED
    BY <2>1 DEF NextCap, SlotsAssumption
<1>. DEFINE K == {groups[g].key : g \in 1 .. n} \cup {<<>>}
<1>3. rows \in [1 .. n -> Rows(K)] /\ <<>> \in K
  BY <1>1 DEF Rows
<1>4. \A i \in 1 .. n : rows[i].key = groups[i].key /\ rows[i].count = i /\ rows[i] # Free
  BY <1>1 DEF Free
<1>5. Regrouped = Filled(c, rows)
  BY DEF Regrouped
<1>. HIDE DEF rows, n, c, K
<1>6. rows \in Seq(Rows(K)) /\ Len(rows) = n
  <2>1. rows \in Seq(Rows(K))
    BY <1>1, <1>3, SeqDef
  <2>2. DOMAIN rows = 1 .. Len(rows) /\ Len(rows) \in Nat /\ DOMAIN rows = 1 .. n
    BY <1>3, <2>1, LenProperties
  <2>3. n \in Nat
    BY <1>1
  <2>4. Len(rows) = n
    <3>1. 1 .. Len(rows) = 1 .. n /\ Len(rows) \in Nat
      BY <2>2
    <3>. QED
      BY <2>3, <3>1, IntervalLength
  <2>. QED
    BY <2>1, <2>4
<1>7. DistinctRows(rows)
  <2>1. \A i \in 1 .. n : CountOf(slots, rows[i].key) = i
    BY <1>1, <1>4 DEF GroupsFound
  <2>2. \A i \in 1 .. n : rows[i].count > 0
    BY <1>1, <1>4
  <2>. QED
    BY <1>6, <2>1, <2>2 DEF DistinctRows
<1>8. /\ Sound(Regrouped) /\ Cap(Regrouped) = c /\ Used(Regrouped) <= n /\ CountsRows(Regrouped, rows)
  BY <1>1, <1>2, <1>3, <1>5, <1>6, <1>7, SoundFilled
<1>9. Used(Regrouped) + 1 < Cap(Regrouped)
  <2>1. Used(Regrouped) \in Nat
    BY <1>8, TableWithKeys DEF Sound
  <2>. QED
    BY <1>1, <1>2, <1>8, <2>1
<1>10. ASSUME NEW q
       PROVE  CountOf(Regrouped, q) = CountOf(slots, q)
  <2>1. CASE CountOf(Regrouped, q) # 0
    <3>1. PICK i \in 1 .. n : rows[i].key = q /\ rows[i].count = CountOf(Regrouped, q)
      BY <1>6, <1>8, <2>1 DEF CountsRows
    <3>. QED
      BY <1>1, <1>4, <3>1 DEF GroupsFound
  <2>2. CASE CountOf(slots, q) # 0
    <3>1. CountOf(slots, q) \in 1 .. n /\ groups[CountOf(slots, q)].key = q
      BY <1>1, <2>2 DEF GroupsFound
    <3>. QED
      BY <1>4, <1>6, <1>8, <3>1 DEF CountsRows
  <2>. QED
    BY <2>1, <2>2
<1>. QED
  BY <1>8, <1>9, <1>10

Recopied(x, m, n)  == [x EXCEPT !.copies = m, !.variants = n]
Recounted(x, m, n) == [x EXCEPT !.findings = m, !.distinct = n]

LEMMA GroupRowCounts ==
  ASSUME NEW K, NEW x \in GroupRows(K), NEW m \in Nat, NEW n \in Nat
  PROVE  /\ Recopied(x, m, n) \in GroupRows(K) /\ Recopied(x, m, n).key = x.key
         /\ Recounted(x, m, n) \in GroupRows(K) /\ Recounted(x, m, n).key = x.key
<1>. DEFINE copied == [x EXCEPT !.copies = m]
            found1 == [x EXCEPT !.findings = m]
<1>1. /\ Recopied(x, m, n) = [copied EXCEPT !.variants = n]
      /\ Recounted(x, m, n) = [found1 EXCEPT !.distinct = n]
  BY DEF Recopied, Recounted
<1>2. copied \in GroupRows(K) /\ copied.key = x.key /\ found1 \in GroupRows(K) /\ found1.key = x.key
  BY DEF GroupRows
<1>. HIDE DEF copied, found1
<1>3. [copied EXCEPT !.variants = n] \in GroupRows(K) /\ [copied EXCEPT !.variants = n].key = copied.key
  BY <1>2 DEF GroupRows
<1>4. [found1 EXCEPT !.distinct = n] \in GroupRows(K) /\ [found1 EXCEPT !.distinct = n].key = found1.key
  BY <1>2 DEF GroupRows
<1>. QED
  BY <1>1, <1>2, <1>3, <1>4

\* A function of a shape in its group, or in a new one.
Joins(table, param, more, home, g) ==
  /\ home = CountOf(slots, param)
  /\ g = IF home = 0 THEN Len(groups) + 1 ELSE home
  /\ groups' = IF home = 0 THEN Append(groups, more) ELSE [groups EXCEPT ![g] = more]
  /\ slots' = Put(table, [key |-> param, count |-> g])
Joined(param, g) ==
  /\ GroupsFound' /\ DOMAIN groups \subseteq DOMAIN groups'
  /\ \A h \in DOMAIN groups : groups'[h].key = groups[h].key
  /\ g \in DOMAIN groups' /\ groups'[g].key = param
SameCounts(table) == \A q : CountOf(table, q) = CountOf(slots, q)

\* A function keyed finds its group, or opens one.
LEMMA GroupsAfterKeying ==
  ASSUME HashIsNumber, GroupsFound, NEW table, Sound(table), Used(table) < Cap(table),
         SameCounts(table),
         NEW param, NEW L, NEW more \in GroupRows(L), more.key = param,
         NEW home, NEW g, Joins(table, param, more, home, g)
  PROVE  Joined(param, g)
<1>. USE DEF Joins, SameCounts
<1>1. PICK K : groups \in Seq(GroupRows(K))
  BY DEF GroupsFound
<1>. DEFINE n == Len(groups)
<1>2. n \in Nat /\ DOMAIN groups = 1 .. n /\ \A h \in 1 .. n : groups[h] \in GroupRows(K)
  BY <1>1
<1>3. home # 0 => home \in 1 .. n /\ groups[home].key = param
  BY <1>2 DEF GroupsFound
<1>4. g \in Nat \ {0} /\ g \in 1 .. n + 1
  BY <1>2, <1>3
<1>5. /\ groups' \in Seq(GroupRows(K \cup L)) /\ DOMAIN groups \subseteq DOMAIN groups'
      /\ DOMAIN groups' = (1 .. n) \cup {g} /\ groups'[g] = more
      /\ \A h \in 1 .. n : h # g => groups'[h] = groups[h]
  <2>1. groups \in Seq(GroupRows(K \cup L)) /\ more \in GroupRows(K \cup L)
    <3>1. GroupRows(K) \subseteq GroupRows(K \cup L) /\ GroupRows(L) \subseteq GroupRows(K \cup L)
      BY DEF GroupRows
    <3>. QED
      BY <1>1, <3>1, SeqMonotonic
  <2>. DEFINE S == GroupRows(K \cup L)
  <2>. HIDE DEF S
  <2>2. CASE home = 0
    <3>1. groups' = Append(groups, more) /\ g = n + 1
      BY <2>2
    <3>2. groups \in Seq(S) /\ more \in S
      BY <2>1 DEF S
    <3>3. /\ groups' \in Seq(S) /\ Len(groups') = n + 1 /\ groups'[n + 1] = more
          /\ \A h \in 1 .. n : groups'[h] = groups[h]
      BY <3>1, <3>2, AppendProperties
    <3>4. DOMAIN groups' = 1 .. n + 1
      BY <3>3
    <3>5. 1 .. n + 1 = (1 .. n) \cup {n + 1}
      BY <1>2
    <3>. HIDE DEF n
    <3>. QED
      BY <1>2, <3>1, <3>3, <3>4, <3>5 DEF S
  <2>3. CASE home # 0
    <3>1. groups' = [groups EXCEPT ![g] = more] /\ g \in 1 .. n
      BY <1>3, <2>3
    <3>2. groups \in Seq(S) /\ more \in S
      BY <2>1 DEF S
    <3>3. groups' \in Seq(S)
      BY <3>1, <3>2, ExceptSeq
    <3>4. /\ DOMAIN groups' = 1 .. n /\ groups'[g] = more
          /\ \A h \in 1 .. n : h # g => groups'[h] = groups[h]
      BY <1>2, <3>1
    <3>. HIDE DEF n
    <3>. QED
      BY <1>2, <3>1, <3>3, <3>4 DEF S
  <2>. QED
    BY <2>2, <2>3
<1>6. \A q : CountOf(slots', q) = IF q = param THEN g ELSE CountOf(slots, q)
  BY <1>4, SoundPut
<1>7. \A h \in DOMAIN groups : groups'[h].key = groups[h].key
  BY <1>2, <1>3, <1>5
<1>8. ASSUME NEW h \in DOMAIN groups'
      PROVE  CountOf(slots', groups'[h].key) = h
  <2>1. CASE h = g
    BY <1>5, <1>6, <2>1
  <2>2. CASE h # g
    <3>1. h \in 1 .. n /\ groups'[h].key = groups[h].key /\ CountOf(slots, groups[h].key) = h
      BY <1>2, <1>5, <2>2 DEF GroupsFound
    <3>2. groups[h].key # param
      BY <1>2, <2>2, <3>1
    <3>. QED
      BY <1>6, <3>1, <3>2
  <2>. QED
    BY <2>1, <2>2
<1>9. ASSUME NEW q, CountOf(slots', q) # 0
      PROVE  CountOf(slots', q) \in DOMAIN groups' /\ groups'[CountOf(slots', q)].key = q
  <2>1. CASE q = param
    BY <1>5, <1>6, <2>1
  <2>2. CASE q # param
    <3>1. CountOf(slots', q) = CountOf(slots, q)
      BY <1>6, <2>2
    <3>2. CountOf(slots, q) \in DOMAIN groups /\ groups[CountOf(slots, q)].key = q
      BY <1>9, <3>1 DEF GroupsFound
    <3>. QED
      BY <1>5, <1>7, <3>1, <3>2
  <2>. QED
    BY <2>1, <2>2
<1>10. GroupsFound'
  BY <1>5, <1>8, <1>9 DEF GroupsFound
<1>. QED
  BY <1>5, <1>7, <1>10 DEF Joined

\* Groups keep being found while their keys and slots stay.
LEMMA GroupsStayFound ==
  ASSUME GroupsFound, slots' = slots, NEW K, groups' \in Seq(GroupRows(K)),
         DOMAIN groups' = DOMAIN groups, \A h \in DOMAIN groups : groups'[h].key = groups[h].key
  PROVE  GroupsFound'
BY DEF GroupsFound

-----------------------------------------------------------------------------
(* The inductive invariant.                                                *)

Progress ==
  /\ ranges \in Files /\ at \in DOMAIN ranges /\ next \in Nat
  /\ phase \in {"keying", "constants", "linting", "over"}
  /\ phase = "keying" => next >= 1

TablesOpen ==
  /\ Open(slots) /\ Open(idents) /\ Open(seen) /\ Open(funcs) /\ Open(values)
  /\ misfits = Unused \/ Sound(misfits)

UnitRows == [start : Nat, end : Nat, group : Nat]

\* The functions keyed lie in order, before those still to key.
UnitsInOrder ==
  /\ units \in Seq(UnitRows)
  /\ \A i \in DOMAIN units : units[i].group \in DOMAIN groups /\ units[i].start < units[i].end
  /\ \A i, j \in DOMAIN units : i < j => units[i].end <= units[j].start
  /\ phase = "keying" =>
       \A i \in DOMAIN units : \A n \in DOMAIN Spans(Range1) :
         next <= n => units[i].end <= Range1.base + Spans(Range1)[n].start

ReportsInv == Progress /\ TablesOpen /\ GroupsFound /\ UnitsInOrder

LEMMA RangeScanned ==
  ASSUME Progress
  PROVE  /\ Range1 \in CodeRanges /\ Sorted(Range1.anchors) /\ Range1.base \in Nat
         /\ ranges \in Seq(CodeRanges) /\ ranges # <<>>
<1>1. ranges \in Seq(CodeRanges) /\ ranges # <<>> /\ at \in DOMAIN ranges /\ Sorted(ranges[at].anchors)
  BY FilesAssumption DEF Progress
<1>2. Range1 \in CodeRanges
  BY <1>1 DEF Range1
<1>3. Range1.base \in Nat
  BY <1>2 DEF CodeRanges
<1>. QED
  BY <1>1, <1>2, <1>3 DEF Range1

LEMMA SpanKeyed ==
  ASSUME Progress, phase = "keying", next <= Len(Spans(Range1))
  PROVE  LET span == Spans(Range1)[next]
             f    == Trimmed(Range1, span)
         IN  /\ next \in DOMAIN Spans(Range1) /\ span \in Places
             /\ f \in Places /\ Aligned(f) /\ f.start <= f.end /\ f.start = span.start /\ f.end <= span.end
             /\ \A n \in DOMAIN Spans(Range1) : next < n /\ f.start < f.end => f.end <= Spans(Range1)[n].start
            /\ Aligned(span) /\ Within(Range1, span) /\ Within(Range1, f)
<1>. DEFINE spans == Spans(Range1)
            span  == spans[next]
            f     == Trimmed(Range1, span)
<1>1. /\ spans \in Seq(Places)
      /\ \A i \in DOMAIN spans : Aligned(spans[i])
      /\ \A i, j \in DOMAIN spans : i < j /\ spans[i].start < spans[i].end => spans[i].end <= spans[j].start
      /\ \A i \in DOMAIN spans : Within(Range1, spans[i])
  BY RangeScanned, SpansInOrder
<1>2. next \in Nat /\ next >= 1 /\ next <= Len(spans)
  BY DEF Progress
<1>. HIDE DEF spans
<1>3. next \in DOMAIN spans /\ \A n \in DOMAIN spans : spans[n] \in Places
  BY <1>1, <1>2
<1>4. span \in Places /\ Aligned(span) /\ Within(Range1, span)
  BY <1>1, <1>3
<1>5. f \in Places /\ Aligned(f) /\ f.start = span.start /\ f.end <= span.end
  BY <1>4, TrimmedStays
<1>6. ASSUME NEW n \in DOMAIN spans, next < n, f.start < f.end
      PROVE  f.end <= spans[n].start
  <2>1. f.end \in Nat /\ span.end \in Nat /\ span.start \in Nat /\ spans[n].start \in Nat
    BY <1>3, <1>4, <1>5 DEF Places
  <2>2. span.start < span.end
    BY <1>5, <1>6, <2>1 DEF Aligned
  <2>3. span.end <= spans[n].start
    BY <1>1, <1>3, <1>6, <2>2
  <2>. QED
    BY <1>5, <2>1, <2>3
<1>7. Within(Range1, f)
  <2>1. f.end \in Nat /\ span.end \in Nat /\ span.start \in Nat
    BY <1>4, <1>5 DEF Places
  <2>2. Len(Range1.words) \in Nat
    <3>1. Range1.words \in Seq(Opcodes)
      BY RangeScanned DEF CodeRanges
    <3>. QED
      BY <3>1
  <2>. QED
    BY <1>4, <1>5, <2>1, <2>2 DEF Within
<1>. QED
  BY <1>3, <1>4, <1>5, <1>6, <1>7 DEF spans, Aligned

LEMMA UnitsStay ==
  ASSUME Progress, UnitsInOrder, next' \in Nat,
         units' = units, ranges' = ranges, at' = at, DOMAIN groups \subseteq DOMAIN groups',
         phase' = "keying" => (phase = "keying" /\ next <= next')
  PROVE  UnitsInOrder'
<1>1. Range1' = Range1
  BY DEF Range1
<1>2. next \in Nat
  BY DEF Progress
<1>3. \A n \in DOMAIN Spans(Range1) : n \in Nat
  <2>1. Spans(Range1) \in Seq(Places)
    BY RangeScanned, SpansInOrder
  <2>. QED
    BY <2>1
<1>4. \A n \in DOMAIN Spans(Range1) : phase' = "keying" /\ next' <= n => next <= n
  BY <1>2, <1>3
<1>. QED
  BY <1>1, <1>4 DEF UnitsInOrder

LEMMA UnitAdded ==
  ASSUME Progress, UnitsInOrder, phase = "keying", next <= Len(Spans(Range1)),
         NEW f, f = Trimmed(Range1, Spans(Range1)[next]), f.end # f.start,
         NEW g, g \in DOMAIN groups', DOMAIN groups \subseteq DOMAIN groups', g \in Nat,
         units' = Append(units, [start |-> Range1.base + f.start, end |-> Range1.base + f.end, group |-> g]),
         next' = next + 1, ranges' = ranges, at' = at
  PROVE  UnitsInOrder'
<1>. DEFINE u     == [start |-> Range1.base + f.start, end |-> Range1.base + f.end, group |-> g]
            spans == Spans(Range1)
            k     == Len(units)
<1>1. /\ next \in DOMAIN spans /\ f \in Places /\ f.start <= f.end /\ f.start = spans[next].start
      /\ \A n \in DOMAIN spans : next < n /\ f.start < f.end => f.end <= spans[n].start
  BY SpanKeyed
<1>2. spans \in Seq(Places) /\ Range1.base \in Nat
  BY RangeScanned, SpansInOrder
<1>3. Range1' = Range1
  BY DEF Range1
<1>4. next \in Nat /\ (\A n \in DOMAIN spans : n \in Nat /\ spans[n].start \in Nat)
  <2>1. \A n \in DOMAIN spans : n \in Nat /\ spans[n] \in Places
    <3>. HIDE DEF spans
    <3>. QED
      BY <1>2
  <2>. HIDE DEF spans
  <2>. QED
    BY <2>1 DEF Progress, Places
<1>5. f.start \in Nat /\ f.end \in Nat /\ f.start < f.end
  BY <1>1 DEF Places
<1>6. u \in UnitRows /\ u.start < u.end /\ u.group = g
  BY <1>2, <1>5 DEF UnitRows
<1>7. /\ units' \in Seq(UnitRows) /\ k \in Nat /\ DOMAIN units = 1 .. k /\ DOMAIN units' = 1 .. k + 1
      /\ units'[k + 1] = u /\ \A i \in 1 .. k : units'[i] = units[i] /\ units[i] \in UnitRows
  <2>1. units \in Seq(UnitRows) /\ units' = Append(units, u)
    BY DEF UnitsInOrder
  <2>. HIDE DEF u
  <2>. QED
    BY <1>6, <2>1, AppendProperties, LenProperties, ElementOfSeq
<1>. HIDE DEF u, spans, k
<1>8. ASSUME NEW i \in DOMAIN units'
      PROVE  units'[i].group \in DOMAIN groups' /\ units'[i].start < units'[i].end
  <2>1. CASE i = k + 1
    BY <1>6, <1>7, <2>1
  <2>2. CASE i # k + 1
    <3>1. i \in 1 .. k
      BY <1>7, <2>2
    <3>. QED
      BY <1>7, <3>1 DEF UnitsInOrder
  <2>. QED
    BY <2>1, <2>2
<1>9. ASSUME NEW i \in 1 .. k
      PROVE  units[i].end <= u.start
  <2>1. units[i].end <= Range1.base + spans[next].start
    <3>1. next <= next
      BY <1>4
    <3>. QED
      BY <1>1, <1>7, <3>1 DEF UnitsInOrder, spans
  <2>. QED
    BY <1>1, <2>1 DEF u
<1>10. ASSUME NEW i \in DOMAIN units', NEW j \in DOMAIN units', i < j
       PROVE  units'[i].end <= units'[j].start
  <2>1. i \in 1 .. k /\ (j = k + 1 \/ j \in 1 .. k)
    BY <1>7, <1>10
  <2>. QED
    BY <1>7, <1>9, <1>10, <2>1 DEF UnitsInOrder
<1>11. ASSUME NEW i \in DOMAIN units', NEW n \in DOMAIN spans, next' <= n
       PROVE  units'[i].end <= Range1.base + spans[n].start
  <2>1. next < n /\ next <= n
    BY <1>4, <1>11
  <2>2. CASE i = k + 1
    <3>1. f.end <= spans[n].start
      BY <1>1, <1>5, <2>1
    <3>. QED
      BY SMTT(30), <1>2, <1>4, <1>5, <1>7, <2>2, <3>1 DEF u
  <2>3. CASE i # k + 1
    <3>1. i \in 1 .. k
      BY <1>7, <2>3
    <3>. QED
      BY <1>7, <2>1, <3>1 DEF UnitsInOrder, spans
  <2>. QED
    BY <2>2, <2>3
<1>. QED
  BY <1>3, <1>7, <1>8, <1>10, <1>11 DEF UnitsInOrder, spans

KeysHere(f) == Keys(Range1, f, Marks(Range1, Spans(Range1)[next]))
OneKeyed(f, g, param, ident) ==
  /\ units' = Append(units, [start |-> Range1.base + f.start, end |-> Range1.base + f.end, group |-> g])
  /\ members' = Append(members, [range |-> at, f |-> f, group |-> g, ident |-> ident, param |-> param])
  /\ Joined(param, g)

\* A function keyed: whether or not its shape has a group, it is found there.
LEMMA FunctionAdded ==
  ASSUME HashIsNumber, SlotsAssumption, ReportsInv,
         phase = "keying", next <= Len(Spans(Range1)),
         NEW f, f = Trimmed(Range1, Spans(Range1)[next]), f.end # f.start,
         AddFunction(f, IF Due(slots) THEN Regrouped ELSE slots, Grown(idents, TRUE)),
         next' = next + 1, ranges' = ranges, at' = at
  PROVE  /\ GroupsFound' /\ Open(slots') /\ Open(idents') /\ UnitsInOrder'
         /\ \E g \in Nat : OneKeyed(f, g, KeysHere(f).param, KeysHere(f).ident)
<1>. DEFINE table == IF Due(slots) THEN Regrouped ELSE slots
            known == Grown(idents, TRUE)
            keys  == KeysHere(f)
            param == keys.param
            size  == f.end - f.start
            home  == CountOf(table, param)
            twin  == CountOf(known, keys.ident)
            g     == IF home = 0 THEN Len(groups) + 1 ELSE home
            group == IF home = 0 THEN [key |-> param, size |-> size, copies |-> 0, variants |-> 0,
                                       findings |-> 0, distinct |-> 0]
                     ELSE groups[g]
            copies   == group.copies + 1
            variants == IF twin = 0 THEN group.variants + 1 ELSE group.variants
            more     == Recopied(group, copies, variants)
<1>1. /\ groups' = IF home = 0 THEN Append(groups, more) ELSE [groups EXCEPT ![g] = more]
      /\ slots' = Put(table, [key |-> param, count |-> g])
      /\ idents' = Add(known, keys.ident, 1)
      /\ units' = Append(units, [start |-> Range1.base + f.start, end |-> Range1.base + f.end, group |-> g])
      /\ members' = Append(members, [range |-> at, f |-> f, group |-> g, ident |-> keys.ident, param |-> param])
  BY DEF AddFunction, Recopied, KeysHere
<1>2. /\ Sound(table) /\ Used(table) + 1 < Cap(table) /\ \A q : CountOf(table, q) = CountOf(slots, q)
  <2>1. CASE Due(slots)
    BY <2>1, RegroupedTable DEF ReportsInv, TablesOpen
  <2>2. CASE ~Due(slots)
    <3>1. slots = Unused \/ Sound(slots)
      BY DEF ReportsInv, TablesOpen, Open
    <3>. QED
      BY <2>2, <3>1, NotDue
  <2>. QED
    BY <2>1, <2>2
<1>. HIDE DEF table
<1>3. PICK K : groups \in Seq(GroupRows(K))
  BY DEF ReportsInv, GroupsFound
<1>4. size \in Nat
  <2>1. f \in Places /\ f.start <= f.end
    BY SpanKeyed DEF ReportsInv
  <2>2. f.start \in Nat /\ f.end \in Nat
    BY <2>1 DEF Places
  <2>. QED
    BY <2>1, <2>2
<1>. DEFINE L == K \cup {param}
<1>. HIDE DEF keys, size
<1>5. home = CountOf(slots, param)
  BY <1>2
<1>6. home # 0 => home \in DOMAIN groups /\ groups[home].key = param
  BY <1>5 DEF ReportsInv, GroupsFound
<1>7. group \in GroupRows(L) /\ group.key = param
  <2>1. CASE home = 0
    BY <1>4, <2>1 DEF GroupRows
  <2>2. CASE home # 0
    <3>1. group = groups[home] /\ groups[home] \in GroupRows(K)
      BY <1>3, <1>6, <2>2
    <3>2. GroupRows(K) \subseteq GroupRows(L)
      BY DEF GroupRows
    <3>. HIDE DEF group
    <3>. QED
      BY <1>6, <2>2, <3>1, <3>2
  <2>. QED
    BY <2>1, <2>2
<1>. HIDE DEF group, home, twin
<1>8. copies \in Nat /\ variants \in Nat
  <2>1. group.copies \in Nat /\ group.variants \in Nat
    BY <1>7 DEF GroupRows
  <2>. QED
    BY <2>1
<1>. HIDE DEF copies, variants
<1>9. more \in GroupRows(L) /\ more.key = param
  <2>. HIDE DEF L
  <2>1. ASSUME NEW x \in GroupRows(L), NEW m \in Nat, NEW n \in Nat
        PROVE  Recopied(x, m, n) \in GroupRows(L) /\ Recopied(x, m, n).key = x.key
    BY ZenonT(30), GroupRowCounts
  <2>2. more \in GroupRows(L) /\ more.key = group.key
    BY <1>7, <1>8, <2>1
  <2>. QED
    BY <1>7, <2>2
<1>. HIDE DEF more, L, param
<1>10. Used(table) < Cap(table) /\ Used(table) \in Nat /\ Cap(table) \in Nat
  <2>1. Used(table) \in Nat /\ Cap(table) \in Nat
    BY <1>2, TableWithKeys DEF Sound
  <2>. QED
    BY <1>2, <2>1
<1>11. g = (IF home = 0 THEN Len(groups) + 1 ELSE home)
  OBVIOUS
<1>12. g \in Nat \ {0}
  <2>1. Len(groups) \in Nat /\ DOMAIN groups = 1 .. Len(groups)
    BY <1>3
  <2>. QED
    BY <1>6, <2>1
<1>. HIDE DEF g
<1>13. /\ GroupsFound' /\ DOMAIN groups \subseteq DOMAIN groups' /\ g \in DOMAIN groups'
       /\ Joined(param, g)
  <2>1. GroupsFound
    BY DEF ReportsInv
  <2>2. Joins(table, param, more, home, g)
    BY <1>1, <1>5, <1>11 DEF Joins
  <2>3. ASSUME NEW x \in GroupRows(L), x.key = param, Joins(table, param, x, home, g)
        PROVE  Joined(param, g)
    <3>1. Used(table) < Cap(table) /\ Sound(table) /\ SameCounts(table)
      BY <1>2, <1>10 DEF SameCounts
    <3>. QED
      BY <2>1, <2>3, <3>1, GroupsAfterKeying
  <2>. QED
    BY <1>9, <2>2, <2>3 DEF Joined
<1>14. Open(slots')
  <2>1. Sound(slots') /\ Cap(slots') = Cap(table) /\ Used(slots') <= Used(table) + 1
    BY <1>1, <1>2, <1>10, <1>12, SoundPut
  <2>2. Used(slots') \in Nat
    BY <2>1, TableWithKeys DEF Sound
  <2>. QED
    BY <1>2, <1>10, <2>1, <2>2 DEF Open
<1>15. Open(idents')
  <2>1. idents = Unused \/ Sound(idents)
    BY DEF ReportsInv, TablesOpen, Open
  <2>2. \A k : \A n \in Nat \ {0} : Open(Add(Grown(idents, TRUE), k, n))
    BY <2>1, RoomToAdd
  <2>3. 1 \in Nat \ {0}
    OBVIOUS
  <2>. QED
    BY <1>1, <2>2, <2>3
<1>16. UnitsInOrder'
  BY <1>1, <1>12, <1>13, UnitAdded DEF ReportsInv
<1>17. OneKeyed(f, g, param, keys.ident)
  BY <1>1, <1>13 DEF OneKeyed
<1>18. \E h \in Nat : OneKeyed(f, h, KeysHere(f).param, KeysHere(f).ident)
  BY <1>12, <1>17 DEF keys, param
<1>. QED
  BY <1>13, <1>14, <1>15, <1>16, <1>18

LEMMA KeyFunctionKeeps ==
  ASSUME HashIsNumber, SlotsAssumption, ReportsInv, KeyFunction
  PROVE  ReportsInv'
<1>. DEFINE span  == Spans(Range1)[next]
            f     == Trimmed(Range1, span)
            table == IF Due(slots) THEN Regrouped ELSE slots
<1>1. /\ phase = "keying" /\ next <= Len(Spans(Range1))
      /\ ranges' = ranges /\ at' = at /\ seen' = seen /\ funcs' = funcs /\ misfits' = misfits /\ values' = values
  BY DEF KeyFunction, found, chained
<1>2. next \in Nat
  BY DEF ReportsInv, Progress
<1>3. CASE UNCHANGED dedup /\ next' \in {next, next + 1} /\ (GiveUp \/ phase' = phase)
  <2>1. phase' \in {"keying", "over"} /\ next' \in Nat /\ next' >= next /\ (phase' = "keying" => next' >= 1)
    BY <1>1, <1>2, <1>3 DEF GiveUp, ReportsInv, Progress
  <2>2. Progress'
    BY <1>1, <2>1 DEF ReportsInv, Progress
  <2>3. GroupsFound' /\ TablesOpen'
    BY <1>1, <1>3 DEF ReportsInv, GroupsFound, TablesOpen, dedup
  <2>4. units' = units /\ groups' = groups /\ next <= next' /\ (phase' = "keying" => phase = "keying")
    BY <1>1, <1>2, <1>3, <2>1 DEF dedup
  <2>5. UnitsInOrder'
    BY <1>1, <2>1, <2>4, UnitsStay DEF ReportsInv
  <2>. QED
    BY <2>2, <2>3, <2>5 DEF ReportsInv
<1>4. CASE /\ GiveUp /\ slots' = table /\ idents' \in {idents, Grown(idents, TRUE)}
           /\ UNCHANGED <<next, groups, units, sums, members>>
  <2>1. Progress'
    BY <1>1, <1>2, <1>4 DEF GiveUp, ReportsInv, Progress
  <2>2. Open(slots') /\ \A q : CountOf(slots', q) = CountOf(slots, q)
    <3>1. CASE Due(slots)
      <4>1. /\ Sound(Regrouped) /\ Used(Regrouped) + 1 < Cap(Regrouped)
            /\ \A q : CountOf(Regrouped, q) = CountOf(slots, q)
        BY RegroupedTable DEF ReportsInv, TablesOpen
      <4>2. Used(Regrouped) \in Nat /\ Cap(Regrouped) \in Nat
        BY <4>1, TableWithKeys DEF Sound
      <4>. QED
        BY <1>4, <3>1, <4>1, <4>2 DEF Open
    <3>2. CASE ~Due(slots)
      BY <1>4, <3>2 DEF ReportsInv, TablesOpen
    <3>. QED
      BY <3>1, <3>2
  <2>3. Open(idents')
    <3>1. idents = Unused \/ Sound(idents)
      BY DEF ReportsInv, TablesOpen, Open
    <3>2. Open(Grown(idents, TRUE))
      BY <3>1, RoomToAdd DEF Open
    <3>. QED
      BY <1>4, <3>2 DEF ReportsInv, TablesOpen
  <2>4. TablesOpen'
    BY <1>1, <2>2, <2>3 DEF ReportsInv, TablesOpen
  <2>5. GroupsFound'
    BY <1>4, <2>2 DEF ReportsInv, GroupsFound
  <2>6. UnitsInOrder'
    BY <1>1, <1>2, <1>4, UnitsStay DEF ReportsInv, GiveUp
  <2>. QED
    BY <2>1, <2>4, <2>5, <2>6 DEF ReportsInv
<1>5. CASE f.end # f.start /\ AddFunction(f, table, Grown(idents, TRUE)) /\ next' = next + 1 /\ phase' = phase
  <2>1. Progress'
    BY <1>1, <1>2, <1>5 DEF ReportsInv, Progress
  <2>2. GroupsFound' /\ Open(slots') /\ Open(idents') /\ UnitsInOrder'
    BY <1>1, <1>5, FunctionAdded
  <2>3. TablesOpen'
    BY <1>1, <2>2 DEF ReportsInv, TablesOpen
  <2>. QED
    BY <2>1, <2>2, <2>3 DEF ReportsInv
<1>. QED
  <2>1. \/ f.end = f.start /\ next' = next + 1 /\ UNCHANGED <<phase, dedup, members>>
        \/ GiveUp /\ UNCHANGED <<next, dedup, members>>
        \/ /\ GiveUp /\ slots' = table /\ idents' \in {idents, Grown(idents, TRUE)}
           /\ UNCHANGED <<next, groups, units, sums, members>>
        \/ f.end # f.start /\ AddFunction(f, table, Grown(idents, TRUE)) /\ next' = next + 1 /\ phase' = phase
    BY DEF KeyFunction
  <2>. HIDE DEF f, table, span
  <2>. QED
    BY <1>3, <1>4, <1>5, <2>1

LEMMA KeyedKeeps ==
  ASSUME ReportsInv, Keyed
  PROVE  ReportsInv'
<1>1. /\ phase' = "constants" /\ next' = 0
      /\ UNCHANGED <<ranges, at, groups, slots, idents, units, seen, funcs, misfits, values>>
  BY DEF Keyed, dedup, found, chained
<1>2. Progress'
  BY <1>1 DEF ReportsInv, Progress
<1>3. TablesOpen' /\ GroupsFound'
  BY <1>1 DEF ReportsInv, TablesOpen, GroupsFound
<1>4. UnitsInOrder'
  BY <1>1, UnitsStay DEF ReportsInv
<1>. QED
  BY <1>2, <1>3, <1>4 DEF ReportsInv

LEMMA ScanConstantsKeeps ==
  ASSUME HashIsNumber, SlotsAssumption, ReportsInv, ScanConstants
  PROVE  ReportsInv'
<1>. DEFINE chains == Scanned(Range1).chains
<1>1. UNCHANGED <<ranges, at, next, groups, slots, idents, units, seen, funcs, misfits>>
  BY DEF ScanConstants, dedup, found
<1>2. values' = values \/ \E n \in 0 .. Len(chains) : values' = Tallied(SubSeq(chains, 1, n))
  BY DEF ScanConstants
<1>3. phase' \in {"linting", "over"}
  BY DEF ScanConstants, GiveUp
<1>4. PICK C : chains \in Seq(C)
  BY RangeScanned, ChainsAreSequence DEF ReportsInv
<1>. HIDE DEF chains
<1>5. ASSUME NEW n \in 0 .. Len(chains)
      PROVE  SubSeq(chains, 1, n) \in Seq(C)
  <2>1. \A i \in 1 .. n : i \in 1 .. Len(chains)
    BY <1>4
  <2>. QED
    BY <1>4, <2>1
<1>6. Open(values')
  <2>1. Open(values)
    BY DEF ReportsInv, TablesOpen
  <2>2. ASSUME NEW n \in 0 .. Len(chains)
        PROVE  Open(Tallied(SubSeq(chains, 1, n)))
    BY <1>5, <2>1, TalliedIsOpen
  <2>. QED
    BY <1>2, <2>1, <2>2
<1>7. Progress'
  BY <1>1, <1>3 DEF ReportsInv, Progress
<1>8. TablesOpen' /\ GroupsFound'
  BY <1>1, <1>6 DEF ReportsInv, TablesOpen, GroupsFound
<1>9. UnitsInOrder'
  <2>1. next' \in Nat /\ phase' # "keying"
    BY <1>1, <1>3 DEF ReportsInv, Progress
  <2>. QED
    BY <1>1, <2>1, UnitsStay DEF ReportsInv
<1>. QED
  BY <1>7, <1>8, <1>9 DEF ReportsInv

LEMMA FinishRangeKeeps ==
  ASSUME ReportsInv, FinishRange
  PROVE  ReportsInv'
<1>1. /\ next' = 1 /\ units' = <<>> /\ phase' \in {"keying", "over"}
      /\ UNCHANGED <<ranges, groups, slots, idents, seen, funcs, misfits, values>>
  BY DEF FinishRange, GiveUp, found, chained
<1>2. at' \in DOMAIN ranges
  <2>1. ranges \in Seq(CodeRanges) /\ at \in DOMAIN ranges
    BY RangeScanned DEF ReportsInv, Progress
  <2>2. Len(ranges) \in Nat /\ DOMAIN ranges = 1 .. Len(ranges)
    BY <2>1
  <2>3. at' = at \/ (at < Len(ranges) /\ at' = at + 1)
    BY DEF FinishRange
  <2>. QED
    BY <2>1, <2>2, <2>3
<1>3. Progress'
  BY <1>1, <1>2 DEF ReportsInv, Progress
<1>4. TablesOpen' /\ GroupsFound'
  BY <1>1 DEF ReportsInv, TablesOpen, GroupsFound
<1>5. UnitsInOrder'
  BY <1>1 DEF UnitsInOrder
<1>. QED
  BY <1>3, <1>4, <1>5 DEF ReportsInv

-----------------------------------------------------------------------------
(* A finding in the tables.                                                *)

LEMMA SizesAreNumbers ==
  ASSUME NEW t, t = Unused \/ Sound(t)
  PROVE  Used(t) \in Nat /\ Cap(t) \in Nat
<1>1. CASE t = Unused
  BY <1>1, UnusedTable
<1>2. CASE Sound(t)
  BY <1>2, TableWithKeys DEF Sound
<1>. QED
  BY <1>1, <1>2

LEMMA ValueCounted ==
  ASSUME HashIsNumber, SlotsAssumption, misfits = Unused \/ Sound(misfits), NEW f, NEW fits
  PROVE  CountValue(f, fits).table = Unused \/ Sound(CountValue(f, fits).table)
<1>. DEFINE b == "values" \in fits
            t == Grown(misfits, b)
<1>1. CASE f.value = NoValue \/ (Due(misfits) /\ ~b /\ Used(misfits) >= Cap(misfits))
  <2>1. CountValue(f, fits).table = misfits
    BY <1>1 DEF CountValue
  <2>. QED
    BY <2>1
<1>2. CASE ~(f.value = NoValue) /\ ~(Due(misfits) /\ ~b /\ Used(misfits) >= Cap(misfits))
  <2>1. CountValue(f, fits).table = Add(t, <<f.value>>, 1)
    BY <1>2 DEF CountValue
  <2>2. Used(misfits) \in Nat /\ Cap(misfits) \in Nat
    BY SizesAreNumbers
  <2>3. b \in BOOLEAN /\ (b \/ ~Due(misfits) \/ Used(misfits) < Cap(misfits))
    BY <1>2, <2>2
  <2>. HIDE DEF b
  <2>4. Sound(t) /\ Used(t) < Cap(t)
    BY <2>3, GrownHasRoom
  <2>5. Sound(Add(t, <<f.value>>, 1))
    <3>. HIDE DEF t
    <3>1. 1 \in Nat \ {0}
      OBVIOUS
    <3>. QED
      BY <2>4, <3>1, SoundAdd
  <2>. QED
    BY <2>1, <2>5
<1>. QED
  BY <1>1, <1>2

LEMMA FunctionCounted ==
  ASSUME HashIsNumber, SlotsAssumption, Open(funcs), NEW vaddr, NEW fits
  PROVE  Open(CountFunction(vaddr, fits).table)
<1>. DEFINE b == "functions" \in fits
            t == Grown(funcs, b)
            a == CHOOSE a \in Anchor(Range1.anchors, vaddr) : TRUE
            w == CountFunction(vaddr, fits)
<1>1. w.table = funcs \/ ((b \/ ~Due(funcs)) /\ w.table \in {t, Add(t, <<a.at>>, 1)})
  BY DEF CountFunction
<1>2. CASE b \/ ~Due(funcs)
  <2>1. funcs = Unused \/ Sound(funcs)
    BY DEF Open
  <2>2. b \in BOOLEAN
    OBVIOUS
  <2>. HIDE DEF b, a
  <2>3. Sound(t) /\ Used(t) < Cap(t) /\ \A k : \A n \in Nat \ {0} : Open(Add(t, k, n))
    BY <1>2, <2>1, <2>2, GrownHasRoom
  <2>4. Open(t) /\ Open(Add(t, <<a.at>>, 1))
    <3>1. 1 \in Nat \ {0}
      OBVIOUS
    <3>. HIDE DEF t
    <3>. QED
      BY <2>3, <3>1 DEF Open
  <2>. QED
    BY <1>1, <2>4
<1>. QED
  BY <1>1, <1>2

LEMMA SeenNoted ==
  ASSUME HashIsNumber, SlotsAssumption, Open(seen), NEW f, NEW vaddr, NEW fits, Note(f, vaddr, fits)
  PROVE  Open(seen')
<1>. DEFINE b     == "seen" \in fits
            t     == Grown(seen, b)
            u     == UnitOf(vaddr)
            i     == CHOOSE i \in u : TRUE
            key   == <<units[i].group, vaddr - units[i].start, f.type>>
            full  == NoRoom(seen, fits)
<1>1. seen' = seen \/ (~full /\ seen' \in {t, Add(t, key, 1)})
  BY DEF Note
<1>2. CASE ~full
  <2>1. seen = Unused \/ Sound(seen)
    BY DEF Open
  <2>2. Used(seen) \in Nat /\ Cap(seen) \in Nat
    BY <2>1, SizesAreNumbers
  <2>3. b \in BOOLEAN /\ (b \/ ~Due(seen) \/ (Used(seen) + 1 < Cap(seen) /\ Used(seen) < Cap(seen)))
    BY <1>2, <2>2 DEF NoRoom
  <2>. HIDE DEF b, key
  <2>4. Sound(t) /\ Used(t) < Cap(t) /\ \A k : \A n \in Nat \ {0} : Open(Add(t, k, n))
    BY <2>1, <2>3, GrownHasRoom
  <2>5. Open(t) /\ Open(Add(t, key, 1))
    <3>1. 1 \in Nat \ {0}
      OBVIOUS
    <3>. HIDE DEF t
    <3>. QED
      BY <2>4, <3>1 DEF Open
  <2>. QED
    BY <1>1, <2>5
<1>. QED
  BY <1>1, <1>2

\* The function found for an address is one of the range.
LEMMA UnitFound ==
  ASSUME UnitsInOrder, NEW vaddr, NEW i \in UnitOf(vaddr)
  PROVE  i \in DOMAIN units
<1>. DEFINE P == {j \in DOMAIN units : units[j].start <= vaddr}
            n == Len(units)
<1>1. n \in Nat /\ DOMAIN units = 1 .. n
  <2>1. units \in Seq(UnitRows)
    BY DEF UnitsInOrder
  <2>. QED
    BY <2>1
<1>2. IsFiniteSet(1 .. n) /\ Cardinality(1 .. n) = n
  <2>. HIDE DEF n
  <2>1. 1 \in Int /\ n \in Int
    BY <1>1
  <2>2. IsFiniteSet(1 .. n)
    BY <2>1, FS_Interval
  <2>3. Cardinality(1 .. n) = n
    <3>1. Cardinality(1 .. n) = IF 1 > n THEN 0 ELSE n - 1 + 1
      BY <2>1, FS_Interval
    <3>. QED
      BY <1>1, <3>1
  <2>. QED
    BY <2>2, <2>3
<1>3. P \subseteq 1 .. n
  BY <1>1
<1>4. i = Cardinality(P) /\ i # 0
  BY DEF UnitOf
<1>. HIDE DEF P, n
<1>5. IsFiniteSet(P) /\ Cardinality(P) <= n
  BY <1>2, <1>3, FS_Subset
<1>6. Cardinality(P) \in Nat
  BY <1>5, FS_CardinalityType
<1>. QED
  BY <1>1, <1>4, <1>5, <1>6

LEMMA GroupsNoted ==
  ASSUME ReportsInv, NEW f, NEW vaddr, NEW fits, Note(f, vaddr, fits), slots' = slots
  PROVE  /\ GroupsFound' /\ DOMAIN groups' = DOMAIN groups
         /\ \A h \in DOMAIN groups : groups'[h].key = groups[h].key
<1>. DEFINE u     == UnitOf(vaddr)
            i     == CHOOSE i \in u : TRUE
            g     == units[i].group
            key   == <<g, vaddr - units[i].start, f.type>>
            table == Grown(seen, "seen" \in fits)
            again == u # {} /\ ~(u # {} /\ NoRoom(seen, fits)) /\ CountOf(table, key) > 0
            m     == groups[g].findings + 1
            n     == IF again THEN groups[g].distinct ELSE groups[g].distinct + 1
            more  == Recounted(groups[g], m, n)
<1>1. groups' = IF u = {} THEN groups ELSE [groups EXCEPT ![g] = more]
  BY DEF Note, Recounted
<1>2. PICK K : groups \in Seq(GroupRows(K))
  BY DEF ReportsInv, GroupsFound
<1>3. CASE u = {}
  BY <1>1, <1>3 DEF ReportsInv, GroupsFound
<1>4. CASE u # {}
  <2>1. i \in DOMAIN units
    <3>1. i \in u
      BY <1>4
    <3>. QED
      BY <3>1, UnitFound DEF ReportsInv
  <2>2. g \in DOMAIN groups
    BY <2>1 DEF ReportsInv, UnitsInOrder
  <2>. HIDE DEF again, g, u
  <2>3. groups[g] \in GroupRows(K)
    BY <1>2, <2>2
  <2>4. m \in Nat /\ n \in Nat
    <3>1. groups[g].findings \in Nat /\ groups[g].distinct \in Nat
      BY <2>3 DEF GroupRows
    <3>. QED
      BY <3>1
  <2>. HIDE DEF m, n
  <2>5. more \in GroupRows(K) /\ more.key = groups[g].key
    BY <2>3, <2>4, GroupRowCounts
  <2>. HIDE DEF more
  <2>6. groups' = [groups EXCEPT ![g] = more]
    BY <1>1, <1>4
  <2>. DEFINE S == GroupRows(K)
  <2>7. groups \in Seq(S) /\ more \in S
    BY <1>2, <2>5
  <2>8. groups' \in Seq(S)
    <3>1. g \in 1 .. Len(groups)
      BY <2>2, <2>7
    <3>. HIDE DEF S
    <3>. QED
      BY <2>6, <2>7, <3>1, ExceptSeq
  <2>9. DOMAIN groups' = DOMAIN groups /\ \A h \in DOMAIN groups : groups'[h].key = groups[h].key
    BY <2>2, <2>5, <2>6
  <2>. QED
    BY <2>8, <2>9, GroupsStayFound DEF ReportsInv
<1>. QED
  BY <1>3, <1>4

LEMMA EmitsKeeps ==
  ASSUME HashIsNumber, SlotsAssumption, ReportsInv, Emits
  PROVE  ReportsInv'
<1>1. PICK f \in Findings(ranges), s \in Sites \cup {NoValue} : EmitFinding(f, Sites \ {s})
  BY DEF Emits
<1>. DEFINE fits  == Sites \ {s}
            vaddr == Range1.base + f.at
<1>2. /\ phase = "linting" /\ phase' = phase /\ next' = next + 1
      /\ UNCHANGED <<ranges, at, slots, idents, units, values>>
      /\ Note(f, vaddr, fits)
      /\ misfits' = CountValue(f, fits).table
      /\ funcs' = CountFunction(vaddr, fits).table
  BY <1>1 DEF EmitFinding, chained
<1>. HIDE DEF fits, vaddr
<1>3. Progress'
  BY <1>2 DEF ReportsInv, Progress
<1>4. TablesOpen'
  BY <1>2, SeenNoted, ValueCounted, FunctionCounted DEF ReportsInv, TablesOpen
<1>5. GroupsFound' /\ DOMAIN groups' = DOMAIN groups
  BY <1>2, GroupsNoted
<1>6. UnitsInOrder'
  <2>1. next' \in Nat /\ phase' # "keying"
    BY <1>2 DEF ReportsInv, Progress
  <2>. QED
    BY <1>2, <1>5, <2>1, UnitsStay DEF ReportsInv
<1>. QED
  BY <1>3, <1>4, <1>5, <1>6 DEF ReportsInv

-----------------------------------------------------------------------------
(* The theorems.                                                           *)

LEMMA InitHolds ==
  ASSUME Init
  PROVE  ReportsInv
<1>1. Progress
  <2>1. ranges \in Files /\ at = 1 /\ phase = "keying" /\ next = 1
    BY DEF Init
  <2>2. ranges \in Seq(CodeRanges) /\ ranges # <<>>
    BY <2>1, FilesAssumption
  <2>3. 1 \in DOMAIN ranges
    <3>1. Len(ranges) \in Nat /\ DOMAIN ranges = 1 .. Len(ranges) /\ Len(ranges) # 0
      BY <2>2, EmptySeq
    <3>. QED
      BY <3>1
  <2>. QED
    BY <2>1, <2>3 DEF Progress
<1>2. TablesOpen
  BY DEF Init, TablesOpen, Open
<1>3. GroupsFound
  <2>1. groups = <<>> /\ slots = Unused
    BY DEF Init
  <2>2. groups \in Seq(GroupRows({})) /\ DOMAIN groups = {}
    BY <2>1
  <2>. QED
    BY <2>1, <2>2, UnusedTable DEF GroupsFound
<1>4. UnitsInOrder
  BY DEF Init, UnitsInOrder
<1>. QED
  BY <1>1, <1>2, <1>3, <1>4 DEF ReportsInv

LEMMA StepHolds ==
  ASSUME HashIsNumber, ReportsInv, [Next]_vars
  PROVE  ReportsInv'
<1>1. SlotsAssumption
  BY SlotsAssumption DEF SlotsAssumption
<1>2. CASE KeyFunction
  BY <1>1, <1>2, KeyFunctionKeeps
<1>3. CASE Keyed
  BY <1>3, KeyedKeeps
<1>4. CASE ScanConstants
  BY <1>1, <1>4, ScanConstantsKeeps
<1>5. CASE Emits
  BY <1>1, <1>5, EmitsKeeps
<1>6. CASE FinishRange
  BY <1>6, FinishRangeKeeps
<1>7. CASE UNCHANGED vars
  <2>1. UNCHANGED <<ranges, at, phase, next, groups, slots, idents, units, seen, funcs, misfits, values>>
    BY <1>7 DEF vars, dedup, found, chained
  <2>2. Progress' /\ TablesOpen' /\ GroupsFound'
    BY <2>1 DEF ReportsInv, Progress, TablesOpen, GroupsFound
  <2>3. next' \in Nat /\ (phase' = "keying" => (phase = "keying" /\ next <= next'))
    BY <2>1 DEF ReportsInv, Progress
  <2>4. UnitsInOrder'
    BY <2>1, <2>3, UnitsStay DEF ReportsInv
  <2>. QED
    BY <2>2, <2>4 DEF ReportsInv
<1>. QED
  BY <1>2, <1>3, <1>4, <1>5, <1>6, <1>7 DEF Next

\* The tables stay sound, every group is found under its key and under no
\* other, and the functions of a range lie in order (armlint_dedup_scan,
\* armlint_constants_scan, emit_finding).
THEOREM InvariantHolds ==
  ASSUME HashIsNumber
  PROVE  Spec => []ReportsInv
<1>1. Init => ReportsInv
  BY InitHolds
<1>2. ReportsInv /\ [Next]_vars => ReportsInv'
  BY StepHolds
<1>. QED
  BY <1>1, <1>2, PTL DEF Spec

\* Whatever growths fail, every probe of a table ends and finds what was
\* put there: the five hashed tables keep a free slot, and the constants'
\* table, which does not, refuses what it has no room for.
THEOREM ProbesAlwaysEnd ==
  ASSUME HashIsNumber
  PROVE  Spec => []ProbesEnd
<1>1. ReportsInv => ProbesEnd
  <2>. SUFFICES ASSUME ReportsInv PROVE ProbesEnd
    OBVIOUS
  <2>1. ASSUME NEW t, Open(t)
        PROVE  Reachable(t) /\ Roomy(t)
    BY <2>1, UnusedTable DEF Open, Sound, Roomy
  <2>2. Reachable(misfits)
    BY UnusedTable DEF ReportsInv, TablesOpen, Sound
  <2>3. Open(slots) /\ Open(idents) /\ Open(seen) /\ Open(funcs) /\ Open(values)
    BY DEF ReportsInv, TablesOpen
  <2>. QED
    BY <2>1, <2>2, <2>3 DEF ProbesEnd, OfTables
<1>. QED
  BY <1>1, InvariantHolds, PTL

\* The functions of a range are keyed in order, none empty and none over
\* another, each in a group there is (dedup_add_function); no row of a table
\* in use counts nothing.
THEOREM TypesHold ==
  ASSUME HashIsNumber
  PROVE  Spec => []TypeOK
<1>1. ReportsInv => TypeOK
  <2>. SUFFICES ASSUME ReportsInv PROVE TypeOK
    OBVIOUS
  <2>1. ASSUME NEW t, t = Unused \/ Sound(t)
        PROVE  \A s \in Entries(t) : t[s].count > 0
    BY <2>1, UnusedTable DEF Sound
  <2>2. \A t \in {slots, idents, seen, funcs, misfits, values} : t = Unused \/ Sound(t)
    BY DEF ReportsInv, TablesOpen, Open
  <2>3. \A i \in 1 .. Len(units) - 1 : units[i].end <= units[i + 1].start
    <3>1. Len(units) \in Nat /\ DOMAIN units = 1 .. Len(units)
      BY DEF ReportsInv, UnitsInOrder
    <3>2. \A i \in 1 .. Len(units) - 1 : i \in DOMAIN units /\ i + 1 \in DOMAIN units /\ i < i + 1
      BY <3>1
    <3>. QED
      BY <3>2 DEF ReportsInv, UnitsInOrder
  <2>4. OfTables(LAMBDA t : \A s \in Entries(t) : t[s].count > 0)
    BY <2>1, <2>2 DEF OfTables
  <2>. QED
    BY <2>3, <2>4 DEF TypeOK, ReportsInv, Progress, UnitsInOrder
<1>. QED
  BY <1>1, InvariantHolds, PTL

-----------------------------------------------------------------------------
(* The tables implement the promise of Tally: every finding is counted by  *)
(* type, by function and by constant or its loss is, and it is a repeat    *)
(* exactly when one of its shape is remembered.                            *)

\* There is no record that means that nothing is given.
NoValueApart ==
  /\ \A t, v, a, s : [type |-> t, value |-> v, address |-> a, shape |-> s] # NoValue
  /\ \A c, o, t : [code |-> c, offset |-> o, type |-> t] # NoValue

\* The arrays by type hold a row for each (ARMLINT_SUMMARY_MAX is said to be
\* "comfortably above the few dozen that exist").
TypesFit == IsFiniteSet(Types) /\ Cardinality(Types) <= SummaryMax

-----------------------------------------------------------------------------
(* The inductive invariant.                                                *)

Held(t) == {t[s].key : s \in Entries(t)}

\* A member keyed and its unit in the list of the range.
Matches(m, u) ==
  /\ m.range = at /\ m.f \in Places /\ m.f.start % 4 = 0
  /\ u.start = Range1.base + m.f.start /\ u.end = Range1.base + m.f.end
  /\ groups[u.group].key = m.param

\* The last members keyed are the units of the range.
MembersHere ==
  /\ \E M : members \in Seq(M)
  /\ phase # "over" =>
       \E k \in Nat :
         /\ Len(members) = k + Len(units)
         /\ \A i \in 1 .. k : members[i].range \in 1 .. at - 1
         /\ \A i \in DOMAIN units : Matches(members[k + i], units[i])

Counters ==
  /\ unplaced \in Nat /\ lost.functions \in Nat /\ lost.values \in Nat
  /\ DOMAIN entries \subseteq Types /\ \A t \in DOMAIN entries : entries[t] \in Nat
  /\ DOMAIN types \subseteq Types

SeenPlaced == Held(seen) \subseteq (DOMAIN groups) \X Int \X Types

TallyInv == MembersHere /\ Counters /\ SeenPlaced

LEMMA CountNumber ==
  ASSUME HashIsNumber, NEW t, Sound(t), NEW k
  PROVE  CountOf(t, k) \in Nat
<1>1. Cap(t) \in Nat \ {0, 1} /\ \E K : {k, <<>>} \subseteq K /\ t \in Tables(Cap(t), K)
  BY TableWithKeys DEF Sound
<1>2. PICK K : k \in K /\ t \in Tables(Cap(t), K)
  BY <1>1
<1>3. Cap(t) \in Nat \ {0} /\ Hash(k) \in Int
  BY <1>1 DEF HashIsNumber
<1>. QED
  BY <1>2, <1>3, CountIsNatural

LEMMA HeldIsCounted ==
  ASSUME HashIsNumber, NEW t, t = Unused \/ Sound(t)
  PROVE  \A k : k \in Held(t) <=> CountOf(t, k) # 0
<1>1. CASE t = Unused
  BY <1>1, UnusedTable DEF Held
<1>2. CASE Sound(t)
  <2>. TAKE k
  <2>1. ASSUME k \in Held(t)
        PROVE  CountOf(t, k) # 0
    <3>1. PICK s \in Entries(t) : t[s].key = k
      BY <2>1 DEF Held
    <3>2. CountOf(t, k) = t[s].count /\ t[s].count > 0
      BY <1>2, <3>1, CountOfEntry DEF Sound
    <3>. QED
      BY <3>2
  <2>2. ASSUME CountOf(t, k) # 0
        PROVE  k \in Held(t)
    <3>1. Cap(t) \in Nat \ {0, 1} /\ \E K : {k, <<>>} \subseteq K /\ t \in Tables(Cap(t), K)
      BY <1>2, TableWithKeys DEF Sound
    <3>2. PICK K : k \in K /\ t \in Tables(Cap(t), K)
      BY <3>1
    <3>3. Cap(t) \in Nat \ {0} /\ Hash(k) \in Int
      BY <3>1 DEF HashIsNumber
    <3>. QED
      BY <2>2, <3>2, <3>3, CountedHasEntry DEF Held
  <2>. QED
    BY <2>1, <2>2
<1>. QED
  BY <1>1, <1>2

-----------------------------------------------------------------------------
(* The functions keyed.                                                    *)

LEMMA RangeNumber ==
  ASSUME Progress
  PROVE  at \in Nat \ {0} /\ next \in Nat
<1>1. ranges \in Seq(CodeRanges) /\ at \in DOMAIN ranges
  BY RangeScanned DEF Progress
<1>. QED
  BY <1>1 DEF Progress

\* Members and units that stay match while the groups keep their keys.
LEMMA MembersStay ==
  ASSUME ReportsInv, MembersHere, UNCHANGED <<ranges, at, members, units>>,
         phase' # "over" => phase # "over",
         \A g \in DOMAIN groups : groups'[g].key = groups[g].key
  PROVE  MembersHere'
<1>1. CASE phase' = "over"
  BY <1>1 DEF MembersHere
<1>2. CASE phase' # "over"
  <2>1. PICK k \in Nat :
          /\ Len(members) = k + Len(units)
          /\ \A i \in 1 .. k : members[i].range \in 1 .. at - 1
          /\ \A i \in DOMAIN units : Matches(members[k + i], units[i])
    BY <1>2 DEF MembersHere
  <2>2. \A i \in DOMAIN units : units[i].group \in DOMAIN groups
    BY DEF ReportsInv, UnitsInOrder
  <2>3. Range1' = Range1
    BY DEF Range1
  <2>4. \A i \in DOMAIN units : Matches(members[k + i], units[i])'
    BY <2>1, <2>2, <2>3 DEF Matches
  <2>. QED
    BY <2>1, <2>4 DEF MembersHere
<1>. QED
  BY <1>1, <1>2

LEMMA MemberAdded ==
  ASSUME ReportsInv, MembersHere, UNCHANGED <<ranges, at, phase>>, phase = "keying",
         next <= Len(Spans(Range1)),
         NEW f, f = Trimmed(Range1, Spans(Range1)[next]),
         NEW g \in Nat, NEW param, NEW ident, OneKeyed(f, g, param, ident)
  PROVE  MembersHere'
<1>. DEFINE m == [range |-> at, f |-> f, group |-> g, ident |-> ident, param |-> param]
            u == [start |-> Range1.base + f.start, end |-> Range1.base + f.end, group |-> g]
            n == Len(units)
<1>1. PICK M : members \in Seq(M)
  BY DEF MembersHere
<1>2. PICK k \in Nat :
        /\ Len(members) = k + n
        /\ \A i \in 1 .. k : members[i].range \in 1 .. at - 1
        /\ \A i \in DOMAIN units : Matches(members[k + i], units[i])
  BY DEF MembersHere
<1>3. members' = Append(members, m) /\ units' = Append(units, u) /\ Joined(param, g)
  BY DEF OneKeyed
<1>4. Range1' = Range1
  BY DEF Range1
<1>5. f \in Places /\ f.start % 4 = 0
  BY SpanKeyed DEF ReportsInv, Aligned
<1>6. m.range = at /\ m.f = f /\ m.param = param /\ u.start = Range1.base + f.start
      /\ u.end = Range1.base + f.end /\ u.group = g
  OBVIOUS
<1>. HIDE DEF m, u
<1>7. /\ members' \in Seq(M \cup {m}) /\ Len(members') = Len(members) + 1 /\ members'[Len(members) + 1] = m
      /\ \A i \in 1 .. Len(members) : members'[i] = members[i]
  <2>1. members \in Seq(M \cup {m}) /\ m \in M \cup {m}
    BY <1>1, SeqMonotonic
  <2>. QED
    BY <1>3, <2>1, AppendProperties
<1>8. /\ n \in Nat /\ DOMAIN units = 1 .. n /\ Len(units') = n + 1 /\ DOMAIN units' = 1 .. n + 1
      /\ units'[n + 1] = u /\ \A i \in 1 .. n : units'[i] = units[i]
  <2>1. units \in Seq(UnitRows)
    BY DEF ReportsInv, UnitsInOrder
  <2>2. units \in Seq(UnitRows \cup {u}) /\ u \in UnitRows \cup {u}
    BY <2>1, SeqMonotonic
  <2>3. n \in Nat /\ DOMAIN units = 1 .. n
    BY <2>1
  <2>4. /\ units' \in Seq(UnitRows \cup {u}) /\ Len(units') = n + 1 /\ units'[n + 1] = u
        /\ \A i \in 1 .. n : units'[i] = units[i]
    BY <1>3, <2>2, AppendProperties
  <2>. QED
    BY <2>3, <2>4, LenProperties
<1>. HIDE DEF n
<1>9. ASSUME NEW i \in DOMAIN units'
      PROVE  Matches(members[k + i], units[i])'
  <2>1. CASE i = n + 1
    <3>1. members'[k + i] = m /\ units'[i] = u
      BY <1>2, <1>7, <1>8, <2>1
    <3>2. groups'[g].key = param
      BY <1>3 DEF Joined
    <3>. QED
      BY <1>4, <1>5, <1>6, <3>1, <3>2 DEF Matches
  <2>2. CASE i # n + 1
    <3>1. i \in 1 .. n /\ k + i \in 1 .. Len(members)
      BY <1>2, <1>8, <2>2
    <3>2. members'[k + i] = members[k + i] /\ units'[i] = units[i] /\ Matches(members[k + i], units[i])
      BY <1>2, <1>7, <1>8, <3>1
    <3>3. groups'[units[i].group].key = groups[units[i].group].key
      <4>1. units[i].group \in DOMAIN groups
        BY <1>8, <3>1 DEF ReportsInv, UnitsInOrder
      <4>. QED
        BY <1>3, <4>1 DEF Joined
    <3>. QED
      BY <1>4, <3>2, <3>3 DEF Matches
  <2>. QED
    BY <2>1, <2>2
<1>10. \A i \in 1 .. k : members'[i].range \in 1 .. at' - 1
  <2>1. \A i \in 1 .. k : i \in 1 .. Len(members)
    BY <1>2, <1>8
  <2>. QED
    BY <1>2, <1>7, <2>1
<1>11. Len(members') = k + Len(units')
  BY <1>2, <1>7, <1>8
<1>. QED
  BY <1>7, <1>9, <1>10, <1>11 DEF MembersHere

-----------------------------------------------------------------------------
(* What a finding changes.                                                 *)

\* What the tables hold of the abstract counts.
ByType == [t \in Types |-> IF t \in DOMAIN entries THEN entries[t] ELSE 0]
Repeats == [t \in Types |-> IF t \in DOMAIN types THEN types[t].repeats ELSE 0]
ByFunction ==
  [a \in Addresses \cup {Nowhere, Missing} |->
     CASE a = Nowhere -> unplaced [] a = Missing -> lost.functions [] OTHER -> CountOf(funcs, <<a>>)]
ByValue ==
  [v \in Constants \cup {Missing} |->
     IF v = Missing THEN lost.values ELSE CountOf(misfits, <<v>>)]
Shapes == {Shape(seen[s]) : s \in Entries(seen)}

LEMMA RoomForType ==
  ASSUME TypesFit, NEW S, S \subseteq Types, NEW t \in Types, t \notin S
  PROVE  Cardinality(S) < SummaryMax
<1>1. IsFiniteSet(Types) /\ IsFiniteSet(S) /\ Cardinality(S) <= Cardinality(Types)
  BY FS_Subset DEF TypesFit
<1>2. S # Types
  OBVIOUS
<1>3. Cardinality(S) # Cardinality(Types)
  BY <1>1, <1>2, FS_Subset
<1>4. Cardinality(S) \in Nat /\ Cardinality(Types) \in Nat /\ SummaryMax \in Nat
  BY <1>1, FS_CardinalityType, LimitAssumption
<1>. QED
  BY <1>1, <1>3, <1>4 DEF TypesFit

LEMMA TypeCounted ==
  ASSUME TypesFit, Counters, NEW f, f.type \in Types, entries' = CountType(f)
  PROVE  /\ ByType' = [ByType EXCEPT ![f.type] = @ + 1]
         /\ DOMAIN entries' \subseteq Types /\ \A t \in DOMAIN entries' : entries'[t] \in Nat
<1>. DEFINE old == IF f.type \in DOMAIN entries THEN entries[f.type] ELSE 0
<1>1. f.type \in DOMAIN entries \/ Cardinality(DOMAIN entries) < SummaryMax
  BY RoomForType DEF Counters
<1>2. entries' = With(entries, f.type, 1 + old)
  BY <1>1 DEF CountType, Bump
<1>3. old \in Nat
  BY DEF Counters
<1>. HIDE DEF old
<1>4. /\ DOMAIN entries' = DOMAIN entries \cup {f.type}
      /\ \A t \in DOMAIN entries' : entries'[t] = IF t = f.type THEN 1 + old ELSE entries[t]
  BY <1>2 DEF With
<1>5. DOMAIN entries' \subseteq Types /\ \A t \in DOMAIN entries' : entries'[t] \in Nat
  BY <1>3, <1>4 DEF Counters
<1>6. ByType' = [t \in Types |-> IF t \in DOMAIN entries' THEN entries'[t] ELSE 0]
  BY DEF ByType
<1>7. ByType[f.type] = old
  BY DEF ByType, old
<1>8. [ByType EXCEPT ![f.type] = @ + 1] = [t \in Types |-> IF t = f.type THEN old + 1 ELSE ByType[t]]
  BY <1>7 DEF ByType
<1>9. \A t \in Types : (IF t \in DOMAIN entries' THEN entries'[t] ELSE 0) = IF t = f.type THEN old + 1 ELSE ByType[t]
  BY <1>3, <1>4 DEF ByType
<1>. QED
  BY <1>5, <1>6, <1>8, <1>9

LEMMA ValueKept ==
  ASSUME HashIsNumber, ReportsInv, Counters, NEW f, f.value \in Nat \cup {NoValue}, NEW fits,
         f.value # NoValue => f.value \in Constants,
         misfits' = CountValue(f, fits).table, lost'.values = lost.values + CountValue(f, fits).lost
  PROVE  /\ lost'.values \in Nat
         /\ f.value = NoValue => ByValue' = ByValue
         /\ f.value # NoValue =>
              \E v \in {f.value, Missing} : ByValue' = [ByValue EXCEPT ![v] = @ + 1]
<1>. DEFINE b == "values" \in fits
            t == Grown(misfits, b)
<1>1. Constants \subseteq Nat /\ Missing \notin Nat
  <2>1. ASSUME NEW v \in Constants
        PROVE  v \in Nat
    <3>1. PICK file \in Files : \E g \in Findings(file) : v = g.value /\ v # NoValue
      BY DEF Constants
    <3>2. PICK g \in Findings(file) : v = g.value /\ v # NoValue
      BY <3>1
    <3>3. g.value \in Nat \cup {NoValue}
      BY FindingsAssumption
    <3>. QED
      BY <3>2, <3>3
  <2>. QED
    BY <2>1 DEF Missing
<1>2. lost.values \in Nat
  BY DEF Counters
<1>3. /\ DOMAIN ByValue = Constants \cup {Missing}
      /\ ByValue' = [v \in Constants \cup {Missing} |-> IF v = Missing THEN lost'.values ELSE CountOf(misfits', <<v>>)]
      /\ \A v \in Constants \cup {Missing} : ByValue[v] = IF v = Missing THEN lost.values ELSE CountOf(misfits, <<v>>)
  BY DEF ByValue
<1>4. CASE f.value = NoValue
  <2>1. misfits' = misfits /\ lost'.values = lost.values
    BY <1>2, <1>4 DEF CountValue
  <2>2. ByValue' = ByValue
    BY <2>1 DEF ByValue
  <2>. QED
    BY <1>2, <1>4, <2>1, <2>2
<1>5. CASE f.value # NoValue /\ Due(misfits) /\ ~b /\ Used(misfits) >= Cap(misfits)
  <2>1. misfits' = misfits /\ lost'.values = lost.values + 1
    BY <1>5 DEF CountValue
  <2>2. ByValue' = [ByValue EXCEPT ![Missing] = @ + 1]
    BY <1>3, <2>1
  <2>. QED
    BY <1>2, <1>5, <2>1, <2>2
<1>6. CASE f.value # NoValue /\ ~(Due(misfits) /\ ~b /\ Used(misfits) >= Cap(misfits))
  <2>1. misfits' = Add(t, <<f.value>>, 1) /\ lost'.values = lost.values
    BY <1>2, <1>6 DEF CountValue
  <2>2. misfits = Unused \/ Sound(misfits)
    BY DEF ReportsInv, TablesOpen
  <2>3. Used(misfits) \in Nat /\ Cap(misfits) \in Nat
    BY <2>2, SizesAreNumbers
  <2>4. b \in BOOLEAN /\ (b \/ ~Due(misfits) \/ Used(misfits) < Cap(misfits))
    BY <1>6, <2>3
  <2>. HIDE DEF b
  <2>5. Sound(t) /\ Used(t) < Cap(t) /\ \A q : CountOf(t, q) = CountOf(misfits, q)
    BY <2>2, <2>4, GrownHasRoom, SlotsAssumption
  <2>6. \A q : CountOf(misfits', q)
               = IF q = <<f.value>> THEN CountOf(misfits, <<f.value>>) + 1 ELSE CountOf(misfits, q)
    <3>. HIDE DEF t
    <3>1. 1 \in Nat \ {0}
      OBVIOUS
    <3>2. \A q : CountOf(Add(t, <<f.value>>, 1), q)
                 = IF q = <<f.value>> THEN CountOf(t, <<f.value>>) + 1 ELSE CountOf(t, q)
      BY <2>5, <3>1, SoundAdd
    <3>. QED
      BY <2>1, <2>5, <3>2
  <2>7. f.value \in Constants /\ f.value # Missing
    BY <1>1, <1>6
  <2>8. ASSUME NEW v \in Constants \cup {Missing}
        PROVE  (IF v = Missing THEN lost'.values ELSE CountOf(misfits', <<v>>))
                 = IF v = f.value THEN ByValue[f.value] + 1 ELSE ByValue[v]
    <3>1. v = Missing \/ (<<v>> = <<f.value>> <=> v = f.value)
      OBVIOUS
    <3>. QED
      BY <1>3, <2>1, <2>6, <2>7, <3>1
  <2>9. ByValue' = [ByValue EXCEPT ![f.value] = @ + 1]
    BY <1>3, <2>7, <2>8
  <2>. QED
    BY <1>2, <1>6, <2>1, <2>9
<1>. QED
  BY <1>4, <1>5, <1>6

LEMMA AnchorHere ==
  ASSUME Progress, NEW vaddr, NEW a \in Anchor(Range1.anchors, vaddr)
  PROVE  a.at \in Addresses
<1>1. a \in ToSet(Range1.anchors) /\ ranges \in Files /\ at \in DOMAIN ranges
  BY DEF Anchor, Progress
<1>2. a.at \in UNION {{b.at : b \in ToSet(ranges[i].anchors)} : i \in DOMAIN ranges}
  BY <1>1 DEF Range1
<1>. QED
  BY <1>1, <1>2 DEF Addresses

LEMMA AddressNumbers == Addresses \subseteq Nat /\ Nowhere \in Int \ Nat /\ Missing \in Int \ Nat /\ Nowhere # Missing
<1>1. ASSUME NEW x \in Addresses
      PROVE  x \in Nat
  <2>1. PICK file \in Files : \E i \in DOMAIN file : \E a \in ToSet(file[i].anchors) : x = a.at
    BY DEF Addresses
  <2>2. PICK i \in DOMAIN file : \E a \in ToSet(file[i].anchors) : x = a.at
    BY <2>1
  <2>3. PICK a \in ToSet(file[i].anchors) : x = a.at
    BY <2>2
  <2>4. file \in Seq(CodeRanges)
    BY FilesAssumption
  <2>5. file[i] \in CodeRanges
    BY <2>4
  <2>6. file[i].anchors \in Seq(Symbols)
    BY <2>5 DEF CodeRanges
  <2>7. a \in Symbols
    BY <2>6 DEF ToSet
  <2>. QED
    BY <2>3, <2>7 DEF Symbols
<1>. QED
  BY <1>1 DEF Nowhere, Missing

\* Where a finding belongs, and what counting it there does.
AddressOf(vaddr) ==
  IF Range1.anchors = <<>> THEN NoValue
  ELSE IF Anchor(Range1.anchors, vaddr) = {} THEN Nowhere
  ELSE (CHOOSE a \in Anchor(Range1.anchors, vaddr) : TRUE).at
OneMoreAt(a) == ByFunction' = [ByFunction EXCEPT ![a] = @ + 1]
Placed(address) ==
  /\ unplaced' \in Nat /\ lost'.functions \in Nat
  /\ \/ address = NoValue /\ ByFunction' = ByFunction
     \/ address # NoValue /\ OneMoreAt(address)
     \/ address \notin {NoValue, Nowhere} /\ OneMoreAt(Missing)

LEMMA PlaceKept ==
  ASSUME HashIsNumber, ReportsInv, Counters, NEW vaddr, NEW fits, NEW address,
         address = AddressOf(vaddr),
         funcs' = CountFunction(vaddr, fits).table,
         unplaced' = unplaced + CountFunction(vaddr, fits).unplaced,
         lost'.functions = lost.functions + CountFunction(vaddr, fits).lost
  PROVE  Placed(address)
<1>. DEFINE b == "functions" \in fits
            t == Grown(funcs, b)
            a == CHOOSE a \in Anchor(Range1.anchors, vaddr) : TRUE
            D == Addresses \cup {Nowhere, Missing}
<1>1. unplaced \in Nat /\ lost.functions \in Nat
  BY DEF Counters
<1>2. NoValue \notin Int
  BY FindingsAssumption
<1>3. /\ DOMAIN ByFunction = D
      /\ ByFunction' = [x \in D |-> CASE x = Nowhere -> unplaced' [] x = Missing -> lost'.functions
                                      [] OTHER -> CountOf(funcs', <<x>>)]
      /\ \A x \in D : ByFunction[x] = CASE x = Nowhere -> unplaced [] x = Missing -> lost.functions
                                        [] OTHER -> CountOf(funcs, <<x>>)
  BY DEF ByFunction
<1>4. CASE Range1.anchors = <<>>
  <2>1. funcs' = funcs /\ unplaced' = unplaced /\ lost'.functions = lost.functions
    BY <1>1, <1>4 DEF CountFunction
  <2>2. ByFunction' = ByFunction
    BY <2>1 DEF ByFunction
  <2>3. address = NoValue
    BY <1>4 DEF AddressOf
  <2>. QED
    BY <1>1, <2>1, <2>2, <2>3 DEF Placed
<1>5. CASE Range1.anchors # <<>> /\ Anchor(Range1.anchors, vaddr) = {}
  <2>1. funcs' = funcs /\ unplaced' = unplaced + 1 /\ lost'.functions = lost.functions
    BY <1>1, <1>5 DEF CountFunction
  <2>2. address = Nowhere /\ Nowhere # NoValue
    BY <1>2, <1>5, AddressNumbers DEF AddressOf
  <2>3. OneMoreAt(Nowhere)
    <3>1. Missing # Nowhere
      BY AddressNumbers
    <3>. QED
      BY <1>3, <2>1, <3>1 DEF OneMoreAt
  <2>4. unplaced' \in Nat /\ lost'.functions \in Nat
    BY <1>1, <2>1
  <2>. QED
    BY <2>2, <2>3, <2>4 DEF Placed
<1>6. CASE Range1.anchors # <<>> /\ Anchor(Range1.anchors, vaddr) # {}
  <2>1. a \in Anchor(Range1.anchors, vaddr)
    BY <1>6
  <2>2. a.at \in Addresses /\ address = a.at
    BY <1>6, <2>1, AnchorHere DEF ReportsInv, AddressOf
  <2>3. address \in D /\ address \in Nat /\ address # NoValue /\ address # Nowhere /\ address # Missing
    <3>1. address \in Addresses
      BY <2>2
    <3>. QED
      BY <1>2, <3>1, AddressNumbers
  <2>4. funcs = Unused \/ Sound(funcs)
    BY DEF ReportsInv, TablesOpen, Open
  <2>5. \/ (Due(funcs) /\ ~b) /\ funcs' = funcs /\ unplaced' = unplaced /\ lost'.functions = lost.functions + 1
        \/ ~(Due(funcs) /\ ~b) /\ funcs' = t /\ unplaced' = unplaced /\ lost'.functions = lost.functions + 1
        \/ ~(Due(funcs) /\ ~b) /\ funcs' = Add(t, <<a.at>>, 1) /\ unplaced' = unplaced
             /\ lost'.functions = lost.functions
    BY <1>1, <1>6 DEF CountFunction
  <2>. HIDE DEF a
  <2>6. CASE ~(Due(funcs) /\ ~b) /\ funcs' = Add(t, <<a.at>>, 1) /\ unplaced' = unplaced
               /\ lost'.functions = lost.functions
    <3>1. b \in BOOLEAN /\ (b \/ ~Due(funcs))
      BY <2>6
    <3>. HIDE DEF b
    <3>2. Sound(t) /\ Used(t) < Cap(t) /\ \A q : CountOf(t, q) = CountOf(funcs, q)
      BY <2>4, <3>1, GrownHasRoom, SlotsAssumption
    <3>3. \A q : CountOf(funcs', q)
                 = IF q = <<a.at>> THEN CountOf(funcs, <<a.at>>) + 1 ELSE CountOf(funcs, q)
      <4>. HIDE DEF t
      <4>1. 1 \in Nat \ {0}
        OBVIOUS
      <4>2. \A q : CountOf(Add(t, <<a.at>>, 1), q)
                   = IF q = <<a.at>> THEN CountOf(t, <<a.at>>) + 1 ELSE CountOf(t, q)
        BY <3>2, <4>1, SoundAdd
      <4>. QED
        BY <2>6, <3>2, <4>2
    <3>4. ASSUME NEW x \in D
          PROVE  (CASE x = Nowhere -> unplaced' [] x = Missing -> lost'.functions
                    [] OTHER -> CountOf(funcs', <<x>>))
                   = IF x = address THEN ByFunction[address] + 1 ELSE ByFunction[x]
      <4>1. <<x>> = <<a.at>> <=> x = address
        BY <2>2
      <4>. QED
        BY <1>3, <2>2, <2>3, <2>6, <3>3, <4>1
    <3>5. OneMoreAt(address)
      BY <1>3, <2>3, <3>4 DEF OneMoreAt
    <3>. QED
      BY <1>1, <2>3, <2>6, <3>5 DEF Placed
  <2>7. CASE /\ unplaced' = unplaced /\ lost'.functions = lost.functions + 1
             /\ funcs' = funcs \/ (funcs' = t /\ ~(Due(funcs) /\ ~b))
    <3>1. unplaced' = unplaced /\ lost'.functions = lost.functions + 1 /\ (funcs' = funcs \/ (funcs' = t /\ (b \/ ~Due(funcs))))
      BY <2>7
    <3>2. \A q : CountOf(funcs', q) = CountOf(funcs, q)
      <4>1. CASE funcs' = t /\ (b \/ ~Due(funcs))
        <5>1. b \in BOOLEAN
          OBVIOUS
        <5>. HIDE DEF b
        <5>2. \A q : CountOf(t, q) = CountOf(funcs, q)
          BY <2>4, <4>1, <5>1, GrownHasRoom, SlotsAssumption
        <5>. QED
          BY <4>1, <5>2
      <4>. QED
        BY <3>1, <4>1
    <3>3. OneMoreAt(Missing)
      <4>1. Missing # Nowhere /\ Missing \in D
        BY AddressNumbers
      <4>2. \A x \in D : x # Missing =>
              (CASE x = Nowhere -> unplaced' [] x = Missing -> lost'.functions [] OTHER -> CountOf(funcs', <<x>>))
                = ByFunction[x]
        BY <1>3, <3>1, <3>2
      <4>3. (CASE Missing = Nowhere -> unplaced' [] Missing = Missing -> lost'.functions [] OTHER -> CountOf(funcs', <<Missing>>))
              = ByFunction[Missing] + 1
        BY <1>3, <3>1, <4>1
      <4>. QED
        BY <1>3, <4>1, <4>2, <4>3 DEF OneMoreAt
    <3>4. unplaced' \in Nat /\ lost'.functions \in Nat
      BY <1>1, <3>1
    <3>. QED
      BY <2>3, <3>3, <3>4 DEF Placed
  <2>. QED
    BY <2>5, <2>6, <2>7
<1>. QED
  BY <1>4, <1>5, <1>6

-----------------------------------------------------------------------------
(* The shape of a finding.                                                 *)

\* The function found for an address is the one that holds it.
LEMMA UnitHolds ==
  ASSUME UnitsInOrder, NEW vaddr \in Nat
  PROVE  /\ UnitOf(vaddr) = {i \in DOMAIN units : units[i].start <= vaddr /\ vaddr < units[i].end}
         /\ \A i, j \in UnitOf(vaddr) : i = j
<1>. DEFINE P == {j \in DOMAIN units : units[j].start <= vaddr}
            n == Len(units)
            last == Cardinality(P)
<1>1. n \in Nat /\ DOMAIN units = 1 .. n /\ \A i \in 1 .. n : units[i].start \in Nat /\ units[i].end \in Nat
  <2>1. units \in Seq(UnitRows)
    BY DEF UnitsInOrder
  <2>2. n \in Nat /\ DOMAIN units = 1 .. n /\ \A i \in 1 .. n : units[i] \in UnitRows
    BY <2>1
  <2>. QED
    BY <2>2 DEF UnitRows
<1>2. ASSUME NEW i \in 1 .. n, NEW j \in 1 .. n, i < j
      PROVE  units[i].start < units[j].start /\ units[i].end <= units[j].start
  <2>1. units[i].start < units[i].end /\ units[i].end <= units[j].start
    BY <1>1, <1>2 DEF UnitsInOrder
  <2>. QED
    BY <1>1, <2>1
<1>3. P \in SUBSET (1 .. n)
  BY <1>1
<1>4. ASSUME NEW i \in P, NEW j \in 1 .. i
      PROVE  j \in P
  <2>1. i \in 1 .. n /\ j \in 1 .. n /\ j <= i /\ units[i].start <= vaddr
    BY <1>1
  <2>2. units[j].start <= vaddr
    BY <1>1, <1>2, <2>1
  <2>. QED
    BY <1>1, <2>1, <2>2
<1>5. last \in 0 .. n /\ P = 1 .. last
  <2>. HIDE DEF P, n
  <2>. QED
    BY <1>1, <1>3, <1>4, FirstFew
<1>6. UnitOf(vaddr) = {i \in {last} \ {0} : vaddr < units[i].end}
  BY DEF UnitOf
<1>. HIDE DEF last
<1>7. ASSUME NEW i \in DOMAIN units, units[i].start <= vaddr, vaddr < units[i].end
      PROVE  i = last /\ last # 0
  <2>1. i \in P /\ i \in 1 .. last /\ i \in 1 .. n
    BY <1>1, <1>5, <1>7
  <2>2. CASE i < last
    <3>1. last \in P /\ last \in 1 .. n
      BY <1>1, <1>5, <2>1
    <3>2. units[last].start <= vaddr /\ units[i].end <= units[last].start
      BY <1>2, <2>1, <2>2, <3>1
    <3>. QED
      BY <1>1, <1>7, <2>1, <3>1, <3>2
  <2>. QED
    BY <1>5, <2>1, <2>2
<1>8. ASSUME NEW i \in UnitOf(vaddr)
      PROVE  i = last /\ i \in DOMAIN units /\ units[i].start <= vaddr /\ vaddr < units[i].end
  <2>1. i = last /\ i # 0 /\ vaddr < units[i].end
    BY <1>6
  <2>2. i \in P
    BY <1>5, <2>1
  <2>. QED
    BY <2>1, <2>2
<1>. HIDE DEF P, n
<1>. QED
  BY <1>6, <1>7, <1>8

\* What a finding is remembered by: its group, offset and type.
KeyAt(u, vaddr, type) == <<units[u].group, vaddr - units[u].start, type>>
ShapeOf(k) == [code |-> groups[k[1]].key, offset |-> k[2], type |-> k[3]]

\* The promise's shape of a finding is that of its row.
LEMMA ShapeGiven ==
  ASSUME ReportsInv, TallyInv, phase = "linting", NEW f, f.at \in Nat, f.at % 4 = 0,
         NEW vaddr, vaddr = Range1.base + f.at, NEW u, u = UnitOf(vaddr)
  PROVE  Given(f, vaddr).shape
           = IF u = {} THEN NoValue ELSE ShapeOf(KeyAt(CHOOSE i \in u : TRUE, vaddr, f.type))
<1>. DEFINE here == {i \in DOMAIN members : members[i].range = at /\ f.at \in Offsets(members[i].f)}
<1>1. PICK k \in Nat :
        /\ Len(members) = k + Len(units)
        /\ \A i \in 1 .. k : members[i].range \in 1 .. at - 1
        /\ \A i \in DOMAIN units : Matches(members[k + i], units[i])
  BY DEF TallyInv, MembersHere
<1>2. Range1.base \in Nat /\ at \in Nat
  BY RangeScanned, RangeNumber DEF ReportsInv
<1>3. vaddr \in Nat
  BY <1>2
<1>4. /\ Len(units) \in Nat /\ DOMAIN units = 1 .. Len(units)
      /\ Len(members) \in Nat /\ DOMAIN members = 1 .. Len(members)
  <2>1. units \in Seq(UnitRows)
    BY DEF ReportsInv, UnitsInOrder
  <2>2. PICK M : members \in Seq(M)
    BY DEF TallyInv, MembersHere
  <2>. QED
    BY <2>1, <2>2
<1>5. /\ u = {i \in DOMAIN units : units[i].start <= vaddr /\ vaddr < units[i].end}
      /\ \A i, j \in u : i = j
  BY <1>3, UnitHolds DEF ReportsInv
<1>6. ASSUME NEW i \in DOMAIN units
      PROVE  k + i \in here <=> i \in u
  <2>1. k + i \in DOMAIN members
    BY <1>1, <1>4
  <2>2. /\ members[k + i].range = at /\ members[k + i].f \in Places /\ members[k + i].f.start % 4 = 0
        /\ units[i].start = Range1.base + members[k + i].f.start
        /\ units[i].end = Range1.base + members[k + i].f.end
    BY <1>1 DEF Matches
  <2>. DEFINE m == members[k + i].f
  <2>3. m.start \in Nat /\ m.end \in Nat
    BY <2>2 DEF Places
  <2>4. m.start % 4 = 0
    BY <2>2
  <2>. HIDE DEF m
  <2>5. f.at \in Offsets(m) <=> (m.start <= f.at /\ f.at < m.end)
    <3>1. m.start <= f.at => (f.at - m.start) % 4 = 0
      BY <2>3, <2>4
    <3>. QED
      BY <2>3, <3>1 DEF Offsets
  <2>6. (units[i].start <= vaddr /\ vaddr < units[i].end) <=> (m.start <= f.at /\ f.at < m.end)
    BY <1>2, <2>2, <2>3 DEF m
  <2>. QED
    BY <1>5, <2>1, <2>2, <2>5, <2>6 DEF m
<1>7. ASSUME NEW j \in here
      PROVE  \E i \in u : j = k + i
  <2>1. j \in 1 .. Len(members) /\ members[j].range = at
    BY <1>4
  <2>2. j \notin 1 .. k
    BY <1>1, <1>2, <2>1
  <2>3. j - k \in DOMAIN units /\ j = k + (j - k)
    BY <1>1, <1>4, <2>1, <2>2
  <2>. HIDE DEF here
  <2>. QED
    BY <1>6, <2>3
<1>8. Given(f, vaddr).shape
        = IF here = {} THEN NoValue
          ELSE LET m == members[CHOOSE i \in here : TRUE]
               IN  [code |-> m.param, offset |-> f.at - m.f.start, type |-> f.type]
  BY DEF Given, Member
<1>. HIDE DEF here
<1>9. CASE u = {}
  BY <1>7, <1>8, <1>9
<1>10. CASE u # {}
  <2>. DEFINE i == CHOOSE i \in u : TRUE
              j == CHOOSE j \in here : TRUE
  <2>1. i \in u /\ i \in DOMAIN units
    BY <1>5, <1>10
  <2>2. here # {} /\ j \in here
    BY <1>6, <2>1
  <2>3. j = k + i
    BY <1>5, <1>7, <2>1, <2>2
  <2>. HIDE DEF i, j
  <2>4. Given(f, vaddr).shape = [code |-> members[j].param, offset |-> f.at - members[j].f.start, type |-> f.type]
    BY <1>8, <2>2 DEF j
  <2>5. Matches(members[j], units[i])
    BY <1>1, <2>1, <2>3
  <2>6. members[j].param = groups[units[i].group].key
        /\ units[i].start = Range1.base + members[j].f.start /\ members[j].f \in Places
    BY <2>5 DEF Matches
  <2>7. f.at - members[j].f.start = vaddr - units[i].start
    <3>1. members[j].f.start \in Nat
      BY <2>6 DEF Places
    <3>. QED
      BY <1>2, <2>6, <3>1
  <2>8. ShapeOf(KeyAt(i, vaddr, f.type))
          = [code |-> groups[units[i].group].key, offset |-> vaddr - units[i].start, type |-> f.type]
    BY DEF ShapeOf, KeyAt
  <2>. QED
    BY <1>10, <2>4, <2>6, <2>7, <2>8 DEF i
<1>. QED
  BY <1>9, <1>10

LEMMA ShapesAreHeld == Shapes = {ShapeOf(k) : k \in Held(seen)}
BY DEF Shapes, Shape, ShapeOf, Held

\* Two rows of one shape are one row, for each group has its own key.
LEMMA ShapesApart ==
  ASSUME GroupsFound, NEW k \in (DOMAIN groups) \X Int \X Types,
         NEW l \in (DOMAIN groups) \X Int \X Types, ShapeOf(k) = ShapeOf(l)
  PROVE  k = l
<1>1. groups[k[1]].key = groups[l[1]].key /\ k[2] = l[2] /\ k[3] = l[3]
  BY DEF ShapeOf
<1>2. k[1] \in DOMAIN groups /\ l[1] \in DOMAIN groups
  OBVIOUS
<1>3. k[1] = l[1]
  BY <1>1, <1>2 DEF GroupsFound
<1>. QED
  BY <1>1, <1>3

LEMMA RepeatCounted ==
  ASSUME TypesFit, Counters, NEW f, f.type \in Types, NEW vaddr, NEW fits, Note(f, vaddr, fits),
         NEW again,
         again = (/\ UnitOf(vaddr) # {} /\ ~NoRoom(seen, fits)
                  /\ CountOf(Grown(seen, "seen" \in fits), KeyAt(CHOOSE i \in UnitOf(vaddr) : TRUE, vaddr, f.type)) > 0)
  PROVE  /\ DOMAIN types' \subseteq Types
         /\ again => Repeats' = [Repeats EXCEPT ![f.type] = @ + 1]
         /\ ~again => Repeats' = Repeats
<1>. DEFINE known == f.type \in DOMAIN types
            old   == IF known THEN types[f.type] ELSE [count |-> 0, repeats |-> 0]
            now   == [count |-> old.count + 1, repeats |-> IF again THEN old.repeats + 1 ELSE old.repeats]
<1>1. known \/ Cardinality(DOMAIN types) < SummaryMax
  BY RoomForType DEF Counters
<1>2. types' = With(types, f.type, now)
  BY <1>1 DEF Note, KeyAt
<1>3. /\ DOMAIN types' = DOMAIN types \cup {f.type}
      /\ \A t \in DOMAIN types' : types'[t] = IF t = f.type THEN now ELSE types[t]
  <2>. HIDE DEF now
  <2>. QED
    BY <1>2 DEF With
<1>4. now.repeats = (IF again THEN Repeats[f.type] + 1 ELSE Repeats[f.type])
  BY DEF Repeats
<1>. HIDE DEF now
<1>5. DOMAIN types' \subseteq Types
  BY <1>3 DEF Counters
<1>6. Repeats' = [t \in Types |-> IF t \in DOMAIN types' THEN types'[t].repeats ELSE 0]
  BY DEF Repeats
<1>7. \A t \in Types : (IF t \in DOMAIN types' THEN types'[t].repeats ELSE 0)
                         = IF t = f.type THEN now.repeats ELSE Repeats[t]
  BY <1>3 DEF Repeats
<1>8. DOMAIN Repeats = Types /\ Repeats = [t \in Types |-> Repeats[t]]
  BY DEF Repeats
<1>9. Repeats' = [t \in Types |-> IF t = f.type THEN now.repeats ELSE Repeats[t]]
  BY <1>6, <1>7
<1>. HIDE DEF Repeats
<1>10. ASSUME again
       PROVE  Repeats' = [Repeats EXCEPT ![f.type] = @ + 1]
  BY <1>4, <1>8, <1>9, <1>10
<1>11. ASSUME ~again
       PROVE  Repeats' = Repeats
  BY <1>4, <1>8, <1>9, <1>11
<1>. QED
  BY <1>5, <1>10, <1>11

\* A finding of a shape, against those remembered.
Remembered(shape, type) ==
  \/ shape = NoValue /\ Shapes' = Shapes /\ Repeats' = Repeats /\ untracked' = untracked
  \/ shape # NoValue /\ Shapes' = Shapes /\ Repeats' = Repeats /\ untracked' = untracked + 1
  \/ /\ shape # NoValue /\ shape \in Shapes /\ Repeats' = [Repeats EXCEPT ![type] = @ + 1]
     /\ Shapes' = Shapes /\ untracked' = untracked
  \/ /\ shape # NoValue /\ shape \notin Shapes /\ Shapes' = Shapes \cup {shape}
     /\ Repeats' = Repeats /\ untracked' = untracked

LEMMA ShapesStay ==
  ASSUME SeenPlaced, Held(seen') = Held(seen), \A h \in DOMAIN groups : groups'[h].key = groups[h].key
  PROVE  Shapes' = Shapes
<1>1. \A k \in Held(seen) : ShapeOf(k)' = ShapeOf(k)
  BY DEF SeenPlaced, ShapeOf
<1>2. Held(seen)' = Held(seen)
  BY DEF Held
<1>3. Shapes' = {ShapeOf(k)' : k \in Held(seen)'}
  BY DEF Shapes, Shape, ShapeOf, Held
<1>. QED
  BY <1>1, <1>2, <1>3, ShapesAreHeld

LEMMA Compared ==
  ASSUME HashIsNumber, NoValueApart, TypesFit, ReportsInv, TallyInv, phase = "linting",
         NEW f, f.type \in Types, f.at \in Nat, f.at % 4 = 0,
         NEW vaddr, vaddr = Range1.base + f.at, NEW fits, Note(f, vaddr, fits), slots' = slots,
         NEW shape, shape = Given(f, vaddr).shape
  PROVE  SeenPlaced' /\ DOMAIN types' \subseteq Types /\ Remembered(shape, f.type)
<1>. DEFINE u     == UnitOf(vaddr)
            i     == CHOOSE i \in u : TRUE
            key   == KeyAt(i, vaddr, f.type)
            b     == "seen" \in fits
            table == Grown(seen, b)
            full  == NoRoom(seen, fits)
            again == u # {} /\ ~full /\ CountOf(table, key) > 0
<1>1. shape = IF u = {} THEN NoValue ELSE ShapeOf(key)
  BY ShapeGiven
<1>2. /\ seen' = IF u = {} \/ full THEN seen ELSE IF again THEN table ELSE Add(table, key, 1)
      /\ untracked' = IF u # {} /\ full THEN untracked + 1 ELSE untracked
  <2>. DEFINE missed == u # {} /\ full
              twice  == u # {} /\ ~missed /\ CountOf(table, key) > 0
  <2>1. /\ seen' = IF u = {} \/ missed \/ twice THEN (IF u = {} \/ missed THEN seen ELSE table) ELSE Add(table, key, 1)
        /\ untracked' = IF missed THEN untracked + 1 ELSE untracked
    BY Zenon DEF Note, KeyAt
  <2>. HIDE DEF u, full, table, key
  <2>. QED
    BY <2>1
<1>3. /\ DOMAIN types' \subseteq Types
      /\ again => Repeats' = [Repeats EXCEPT ![f.type] = @ + 1]
      /\ ~again => Repeats' = Repeats
  BY RepeatCounted DEF TallyInv
<1>4. DOMAIN groups' = DOMAIN groups /\ \A h \in DOMAIN groups : groups'[h].key = groups[h].key
  BY GroupsNoted
<1>5. SeenPlaced /\ GroupsFound /\ UnitsInOrder
  BY DEF TallyInv, ReportsInv
<1>6. u # {} => key \in (DOMAIN groups) \X Int \X Types
  <2>. SUFFICES ASSUME u # {} PROVE key \in (DOMAIN groups) \X Int \X Types
    OBVIOUS
  <2>1. i \in DOMAIN units
    BY UnitFound DEF ReportsInv
  <2>2. units[i] \in UnitRows /\ units[i].group \in DOMAIN groups
    BY <1>5, <2>1 DEF UnitsInOrder
  <2>3. vaddr \in Int /\ units[i].start \in Int
    <3>1. Range1.base \in Nat
      BY RangeScanned DEF ReportsInv
    <3>. QED
      BY <2>2, <3>1 DEF UnitRows
  <2>. QED
    BY <2>2, <2>3 DEF KeyAt
<1>7. ShapeOf(key) # NoValue
  BY DEF ShapeOf, NoValueApart
<1>8. seen = Unused \/ Sound(seen)
  BY DEF ReportsInv, TablesOpen, Open
<1>9. CASE u = {} \/ full
  <2>1. seen' = seen /\ ~again
    BY <1>2, <1>9
  <2>2. Held(seen') = Held(seen)
    BY <2>1
  <2>3. Shapes' = Shapes
    BY <1>4, <1>5, <2>2, ShapesStay
  <2>4. SeenPlaced'
    BY <1>4, <1>5, <2>1 DEF SeenPlaced, Held
  <2>. HIDE DEF again, key, full, u
  <2>. QED
    BY <1>1, <1>2, <1>3, <1>7, <1>9, <2>1, <2>3, <2>4 DEF Remembered
<1>10. CASE u # {} /\ ~full
  <2>1. Used(seen) \in Nat /\ Cap(seen) \in Nat
    BY <1>8, SizesAreNumbers
  <2>2. b \in BOOLEAN /\ (b \/ ~Due(seen) \/ Used(seen) < Cap(seen))
    BY <1>10, <2>1 DEF NoRoom
  <2>. HIDE DEF b
  <2>3. Sound(table) /\ Used(table) < Cap(table) /\ \A q : CountOf(table, q) = CountOf(seen, q)
    BY <1>8, <2>2, GrownHasRoom, SlotsAssumption
  <2>. HIDE DEF table
  <2>4. \A q : q \in Held(table) <=> CountOf(table, q) # 0
    BY <2>3, HeldIsCounted
  <2>5. \A q : q \in Held(seen) <=> CountOf(seen, q) # 0
    BY <1>8, HeldIsCounted
  <2>6. Held(table) = Held(seen)
    BY <2>3, <2>4, <2>5
  <2>. HIDE DEF key, u, full
  <2>7. CASE again
    <3>1. key \in Held(seen)
      <4>1. CountOf(table, key) # 0
        BY <2>7
      <4>. QED
        BY <2>3, <2>5, <4>1
    <3>2. Held(seen') = Held(seen)
      BY <1>2, <1>10, <2>6, <2>7
    <3>3. Shapes' = Shapes
      BY <1>4, <1>5, <3>2, ShapesStay
    <3>4. SeenPlaced'
      <4>1. Held(seen)' = Held(seen)
        BY <3>2 DEF Held
      <4>. QED
        BY <1>4, <1>5, <4>1 DEF SeenPlaced
    <3>5. shape = ShapeOf(key) /\ shape # NoValue /\ shape \in Shapes
      BY <1>1, <1>7, <1>10, <3>1, ShapesAreHeld
    <3>6. untracked' = untracked
      BY <1>2, <1>10
    <3>. QED
      BY <1>3, <2>7, <3>3, <3>4, <3>5, <3>6 DEF Remembered
  <2>8. CASE ~again
    <3>1. CountOf(seen, key) = 0 /\ key \notin Held(seen)
      <4>1. CountOf(table, key) \in Nat
        BY <2>3, CountNumber
      <4>2. CountOf(table, key) = 0
        BY <1>10, <2>8, <4>1
      <4>. QED
        BY <2>3, <2>5, <4>2
    <3>2. seen' = Add(table, key, 1)
      BY <1>2, <1>10, <2>8
    <3>3. 1 \in Nat \ {0}
      OBVIOUS
    <3>4. Sound(seen') /\ \A q : CountOf(seen', q) = IF q = key THEN CountOf(table, key) + 1 ELSE CountOf(table, q)
      BY <2>3, <3>2, <3>3, SoundAdd
    <3>5. \A q : q \in Held(seen') <=> CountOf(seen', q) # 0
      BY <3>4, HeldIsCounted
    <3>6. Held(seen') = Held(seen) \cup {key}
      <4>1. CountOf(seen', key) = 1
        BY <2>3, <3>1, <3>4
      <4>2. \A q : q # key => CountOf(seen', q) = CountOf(seen, q)
        BY <2>3, <3>4
      <4>3. \A q : q \in Held(seen') <=> (q \in Held(seen) \/ q = key)
        BY <2>5, <3>5, <4>1, <4>2
      <4>. QED
        BY <4>3
    <3>7. SeenPlaced'
      <4>1. Held(seen)' = Held(seen) \cup {key}
        BY <3>6 DEF Held
      <4>2. key \in (DOMAIN groups) \X Int \X Types
        BY <1>6, <1>10
      <4>. QED
        BY <1>4, <1>5, <4>1, <4>2 DEF SeenPlaced
    <3>8. Shapes' = Shapes \cup {ShapeOf(key)}
      <4>1. \A k \in (DOMAIN groups) \X Int \X Types : ShapeOf(k)' = ShapeOf(k)
        BY <1>4 DEF ShapeOf
      <4>2. key \in (DOMAIN groups) \X Int \X Types /\ Held(seen) \subseteq (DOMAIN groups) \X Int \X Types
        BY <1>5, <1>6, <1>10 DEF SeenPlaced
      <4>3. Shapes' = {ShapeOf(k)' : k \in Held(seen')}
        BY DEF Shapes, Shape, ShapeOf, Held
      <4>4. Shapes' = {ShapeOf(k) : k \in Held(seen) \cup {key}}
        BY <3>6, <4>1, <4>2, <4>3
      <4>. QED
        BY <4>4, ShapesAreHeld
    <3>9. ShapeOf(key) \notin Shapes
      <4>1. SUFFICES ASSUME NEW l \in Held(seen), ShapeOf(key) = ShapeOf(l)
                     PROVE  FALSE
        BY ShapesAreHeld
      <4>2. key = l
        BY <1>5, <1>6, <1>10, <4>1, ShapesApart DEF SeenPlaced
      <4>. QED
        BY <3>1, <4>2
    <3>10. shape = ShapeOf(key) /\ shape # NoValue /\ untracked' = untracked
      BY <1>1, <1>2, <1>7, <1>10
    <3>. QED
      BY <1>3, <2>8, <3>7, <3>8, <3>9, <3>10 DEF Remembered
  <2>. HIDE DEF again
  <2>. QED
    BY <2>7, <2>8
<1>. HIDE DEF u, full
<1>. QED
  BY <1>9, <1>10

-----------------------------------------------------------------------------
(* The other steps: what was found stays as it is.                         *)

\* What the promise speaks of.
Counted == <<given, ByType, ByFunction, ByValue, Shapes, Repeats, untracked>>

LEMMA FoundStays ==
  ASSUME TallyInv, UNCHANGED found, DOMAIN groups \subseteq DOMAIN groups',
         \A g \in DOMAIN groups : groups'[g].key = groups[g].key
  PROVE  Counters' /\ SeenPlaced' /\ UNCHANGED Counted
<1>1. UNCHANGED <<seen, types, untracked, entries, funcs, misfits, unplaced, lost, given>>
  BY DEF found
<1>2. Counters'
  BY <1>1 DEF TallyInv, Counters
<1>3. Held(seen') = Held(seen) /\ Held(seen)' = Held(seen)
  BY <1>1 DEF Held
<1>4. SeenPlaced'
  BY <1>3 DEF TallyInv, SeenPlaced
<1>5. Shapes' = Shapes
  BY <1>3, ShapesStay DEF TallyInv
<1>6. ByType' = ByType /\ Repeats' = Repeats /\ ByFunction' = ByFunction /\ ByValue' = ByValue
  BY <1>1 DEF ByType, Repeats, ByFunction, ByValue
<1>. QED
  BY <1>1, <1>2, <1>4, <1>5, <1>6 DEF Counted

LEMMA KeyFunctionTallied ==
  ASSUME HashIsNumber, ReportsInv, TallyInv, KeyFunction
  PROVE  TallyInv' /\ UNCHANGED Counted
<1>. DEFINE span  == Spans(Range1)[next]
            f     == Trimmed(Range1, span)
            table == IF Due(slots) THEN Regrouped ELSE slots
<1>1. /\ phase = "keying" /\ next <= Len(Spans(Range1)) /\ UNCHANGED <<ranges, at, found>>
  BY DEF KeyFunction
<1>2. CASE UNCHANGED <<groups, units, members>>
  <2>1. MembersHere'
    BY <1>1, <1>2, MembersStay DEF TallyInv
  <2>. QED
    BY <1>1, <1>2, <2>1, FoundStays DEF TallyInv
<1>3. CASE f.end # f.start /\ AddFunction(f, table, Grown(idents, TRUE)) /\ next' = next + 1 /\ phase' = phase
  <2>1. \E g \in Nat : OneKeyed(f, g, KeysHere(f).param, KeysHere(f).ident)
    BY <1>1, <1>3, FunctionAdded, SlotsAssumption
  <2>2. PICK g \in Nat : OneKeyed(f, g, KeysHere(f).param, KeysHere(f).ident)
    BY <2>1
  <2>. DEFINE param == KeysHere(f).param
              ident == KeysHere(f).ident
  <2>3. OneKeyed(f, g, param, ident)
    BY <2>2
  <2>. HIDE DEF param, ident
  <2>4. f = Trimmed(Range1, Spans(Range1)[next])
    OBVIOUS
  <2>. HIDE DEF f
  <2>5. MembersHere'
    BY <1>1, <1>3, <2>3, <2>4, MemberAdded DEF TallyInv
  <2>6. DOMAIN groups \subseteq DOMAIN groups' /\ \A h \in DOMAIN groups : groups'[h].key = groups[h].key
    BY <2>3 DEF OneKeyed, Joined
  <2>. QED
    BY <1>1, <2>5, <2>6, FoundStays DEF TallyInv
<1>. QED
  <2>1. \/ UNCHANGED <<phase, dedup, members>>
        \/ UNCHANGED <<next, dedup, members>>
        \/ UNCHANGED <<next, groups, units, sums, members>>
        \/ f.end # f.start /\ AddFunction(f, table, Grown(idents, TRUE)) /\ next' = next + 1 /\ phase' = phase
    BY DEF KeyFunction
  <2>. HIDE DEF f, table, span
  <2>. QED
    BY <1>2, <1>3, <2>1 DEF dedup

LEMMA OthersTallied ==
  ASSUME ReportsInv, TallyInv, Keyed \/ ScanConstants \/ UNCHANGED vars
  PROVE  TallyInv' /\ UNCHANGED Counted
<1>1. UNCHANGED <<ranges, at, groups, units, members, found>> /\ (phase' # "over" => phase # "over")
  BY DEF Keyed, ScanConstants, GiveUp, vars, dedup
<1>2. MembersHere'
  BY <1>1, MembersStay DEF TallyInv
<1>. QED
  BY <1>1, <1>2, FoundStays DEF TallyInv

LEMMA FinishRangeTallied ==
  ASSUME ReportsInv, TallyInv, FinishRange
  PROVE  TallyInv' /\ UNCHANGED Counted
<1>1. /\ phase = "linting" /\ units' = <<>> /\ UNCHANGED <<groups, members, found>>
      /\ phase' # "over" => at' = at + 1
  BY DEF FinishRange, GiveUp
<1>2. PICK M : members \in Seq(M)
  BY DEF TallyInv, MembersHere
<1>3. ASSUME phase' # "over"
      PROVE  MembersHere'
  <2>1. PICK k \in Nat :
          /\ Len(members) = k + Len(units)
          /\ \A i \in 1 .. k : members[i].range \in 1 .. at - 1
          /\ \A i \in DOMAIN units : Matches(members[k + i], units[i])
    BY <1>1 DEF TallyInv, MembersHere
  <2>2. units \in Seq(UnitRows) /\ at \in Nat \ {0}
    BY RangeNumber DEF ReportsInv, UnitsInOrder
  <2>3. Len(members) \in Nat /\ Len(units) \in Nat /\ DOMAIN units = 1 .. Len(units)
    BY <1>2, <2>2
  <2>4. ASSUME NEW i \in 1 .. Len(members)
        PROVE  members[i].range \in 1 .. at
    <3>1. CASE i <= k
      BY <2>1, <2>2, <3>1
    <3>2. CASE i > k
      <4>1. i - k \in DOMAIN units /\ k + (i - k) = i
        BY <2>1, <2>3, <3>2
      <4>. QED
        BY <2>1, <2>2, <4>1 DEF Matches
    <3>. QED
      BY <2>1, <2>3, <3>1, <3>2
  <2>5. \A i \in 1 .. Len(members) : members'[i].range \in 1 .. at' - 1
    BY <1>1, <1>3, <2>2, <2>4
  <2>6. Len(members') = Len(members) + Len(units') /\ DOMAIN units' = {}
    BY <1>1, <2>3
  <2>7. \E A : members' \in Seq(A)
    BY <1>1, <1>2
  <2>8. \A i \in DOMAIN units' : Matches(members[Len(members) + i], units[i])'
    BY <2>6
  <2>. QED
    BY <2>3, <2>5, <2>6, <2>7, <2>8 DEF MembersHere
<1>4. MembersHere'
  <2>1. \E A : members' \in Seq(A)
    BY <1>1, <1>2
  <2>. QED
    BY <1>3, <2>1 DEF MembersHere
<1>. QED
  BY <1>1, <1>4, FoundStays DEF TallyInv

-----------------------------------------------------------------------------
(* A finding.                                                              *)

\* What EmitFinding does of what the promise speaks of.
Emitted(f, vaddr) ==
  /\ given' = Given(f, vaddr)
  /\ ByType' = [ByType EXCEPT ![f.type] = @ + 1]
  /\ f.value = NoValue => ByValue' = ByValue
  /\ f.value # NoValue => \E v \in {f.value, Missing} : ByValue' = [ByValue EXCEPT ![v] = @ + 1]
  /\ Placed(AddressOf(vaddr)) /\ Remembered(Given(f, vaddr).shape, f.type)

LEMMA FindingFits ==
  ASSUME Progress, NEW f \in Findings(ranges)
  PROVE  /\ f.type \in Types /\ f.at \in Nat /\ f.at % 4 = 0 /\ f.value \in Nat \cup {NoValue}
         /\ f.value # NoValue => f.value \in Constants
<1>1. ranges \in Files
  BY DEF Progress
<1>2. f \in [type : Types, at : Nat, value : Nat \cup {NoValue}] /\ f.at % 4 = 0
  BY <1>1, FindingsAssumption
<1>3. f \in UNION {Findings(file) : file \in Files}
  BY <1>1
<1>. QED
  BY <1>2, <1>3 DEF Constants

LEMMA EmitsTallied ==
  ASSUME HashIsNumber, NoValueApart, TypesFit, ReportsInv, TallyInv, Emits
  PROVE  TallyInv' /\ \E f \in Findings(ranges) : \E vaddr : Emitted(f, vaddr)
<1>1. PICK f \in Findings(ranges), s \in Sites \cup {NoValue} : EmitFinding(f, Sites \ {s})
  BY DEF Emits
<1>. DEFINE fits  == Sites \ {s}
            vaddr == Range1.base + f.at
            shape == Given(f, vaddr).shape
            address == AddressOf(vaddr)
<1>2. /\ phase = "linting" /\ UNCHANGED <<ranges, at, phase, slots, units, members>>
      /\ Note(f, vaddr, fits) /\ entries' = CountType(f)
      /\ misfits' = CountValue(f, fits).table /\ funcs' = CountFunction(vaddr, fits).table
      /\ unplaced' = unplaced + CountFunction(vaddr, fits).unplaced
      /\ lost' = [functions |-> lost.functions + CountFunction(vaddr, fits).lost,
                  values |-> lost.values + CountValue(f, fits).lost]
      /\ given' = Given(f, vaddr)
  BY <1>1 DEF EmitFinding
<1>3. lost'.functions = lost.functions + CountFunction(vaddr, fits).lost
      /\ lost'.values = lost.values + CountValue(f, fits).lost
  <2>. HIDE DEF fits, vaddr
  <2>. QED
    BY <1>2
<1>4. /\ f.type \in Types /\ f.at \in Nat /\ f.at % 4 = 0 /\ f.value \in Nat \cup {NoValue}
      /\ f.value # NoValue => f.value \in Constants
  BY FindingFits DEF ReportsInv
<1>. HIDE DEF fits
<1>5. SeenPlaced' /\ DOMAIN types' \subseteq Types /\ Remembered(shape, f.type)
  BY <1>2, <1>4, Compared
<1>. HIDE DEF vaddr, shape
<1>6. /\ ByType' = [ByType EXCEPT ![f.type] = @ + 1]
      /\ DOMAIN entries' \subseteq Types /\ \A t \in DOMAIN entries' : entries'[t] \in Nat
  BY <1>2, <1>4, TypeCounted DEF TallyInv
<1>7. /\ lost'.values \in Nat
      /\ f.value = NoValue => ByValue' = ByValue
      /\ f.value # NoValue => \E v \in {f.value, Missing} : ByValue' = [ByValue EXCEPT ![v] = @ + 1]
  BY <1>2, <1>3, <1>4, ValueKept DEF TallyInv
<1>8. Placed(address)
  BY <1>2, <1>3, PlaceKept DEF TallyInv
<1>9. \A g \in DOMAIN groups : groups'[g].key = groups[g].key
  BY <1>2, GroupsNoted
<1>10. MembersHere'
  BY <1>2, <1>9, MembersStay DEF TallyInv
<1>11. TallyInv'
  BY <1>5, <1>6, <1>7, <1>8, <1>10 DEF TallyInv, Counters, Placed
<1>12. Emitted(f, vaddr)
  BY <1>2, <1>5, <1>6, <1>7, <1>8 DEF Emitted, shape
<1>. QED
  BY <1>11, <1>12

\* A step of the promise, in terms of what the tables hold.
LEMMA FindingKept ==
  ASSUME NoValueApart, NEW f, NEW vaddr, Emitted(f, vaddr)
  PROVE  Promise!Finding
<1>1. /\ given' # NoValue /\ given'.type = f.type /\ given'.value = f.value
      /\ given'.address = AddressOf(vaddr) /\ given'.shape = Given(f, vaddr).shape
  BY DEF Emitted, Given, AddressOf, NoValueApart
<1>2. ByType' = Promise!OneMore(ByType, given'.type)
  BY <1>1 DEF Emitted, Promise!OneMore
<1>3. IF given'.address = NoValue THEN UNCHANGED ByFunction
      ELSE \E a \in {given'.address} \cup (IF given'.address = Nowhere THEN {} ELSE {Missing}) :
             ByFunction' = Promise!OneMore(ByFunction, a)
  BY <1>1 DEF Emitted, Placed, OneMoreAt, Promise!OneMore
<1>4. IF given'.value = NoValue THEN UNCHANGED ByValue
      ELSE \E v \in {given'.value, Missing} : ByValue' = Promise!OneMore(ByValue, v)
  BY <1>1 DEF Emitted, Promise!OneMore
<1>5. \/ given'.shape = NoValue /\ UNCHANGED <<Shapes, Repeats, untracked>>
      \/ /\ given'.shape # NoValue /\ untracked' = untracked + 1
         /\ UNCHANGED <<Shapes, Repeats>>
      \/ /\ given'.shape # NoValue /\ given'.shape \in Shapes
         /\ Repeats' = Promise!OneMore(Repeats, given'.type)
         /\ UNCHANGED <<Shapes, untracked>>
      \/ /\ given'.shape # NoValue /\ given'.shape \notin Shapes
         /\ Shapes' = Shapes \cup {given'.shape}
         /\ UNCHANGED <<Repeats, untracked>>
  BY <1>1 DEF Emitted, Remembered, Promise!OneMore
<1>6. Promise!Place(given')
  BY <1>3 DEF Promise!Place, ByFunction
<1>7. Promise!Weigh(given')
  BY <1>4 DEF Promise!Weigh, ByValue
<1>8. Promise!Compare(given')
  BY <1>5 DEF Promise!Compare, Shapes, Repeats
<1>. QED
  BY <1>1, <1>2, <1>6, <1>7, <1>8 DEF Promise!Finding, ByType

-----------------------------------------------------------------------------
(* The theorem.                                                            *)

LEMMA InitTallied ==
  ASSUME Init
  PROVE  TallyInv /\ Promise!Init
<1>1. /\ at = 1 /\ units = <<>> /\ members = <<>> /\ seen = Unused /\ types = Nothing /\ untracked = 0
      /\ entries = Nothing /\ funcs = Unused /\ misfits = Unused
      /\ unplaced = 0 /\ lost = [functions |-> 0, values |-> 0]
  BY DEF Init
<1>2. DOMAIN entries = {} /\ DOMAIN types = {}
  BY <1>1 DEF Nothing
<1>3. MembersHere
  <2>1. members \in Seq({}) /\ Len(members) = 0 /\ Len(units) = 0 /\ DOMAIN units = {}
    BY <1>1
  <2>2. Len(members) = 0 + Len(units) /\ \A i \in 1 .. 0 : members[i].range \in 1 .. at - 1
    BY <2>1
  <2>. QED
    BY <2>1, <2>2 DEF MembersHere
<1>4. Entries(seen) = {} /\ \A k : CountOf(funcs, k) = 0 /\ CountOf(misfits, k) = 0
  BY <1>1, UnusedTable
<1>5. TallyInv
  BY <1>1, <1>2, <1>3, <1>4 DEF TallyInv, Counters, SeenPlaced, Held
<1>6. ByType = [t \in Types |-> 0] /\ Repeats = [t \in Types |-> 0]
  BY <1>2 DEF ByType, Repeats
<1>7. ByFunction = [a \in Addresses \cup {Nowhere, Missing} |-> 0]
  BY <1>1, <1>4 DEF ByFunction
<1>8. ByValue = [v \in Constants \cup {Missing} |-> 0]
  BY <1>1, <1>4 DEF ByValue
<1>9. Shapes = {}
  BY <1>4 DEF Shapes
<1>10. Promise!Init
  BY <1>1, <1>6, <1>7, <1>8, <1>9 DEF Promise!Init, ByType, Repeats, ByFunction, ByValue, Shapes
<1>. QED
  BY <1>5, <1>10

LEMMA StepTallied ==
  ASSUME HashIsNumber, NoValueApart, TypesFit, ReportsInv, TallyInv, [Next]_vars
  PROVE  TallyInv' /\ [Promise!Finding]_(Promise!vars)
<1>1. UNCHANGED Counted => UNCHANGED Promise!vars
  BY DEF Counted, Promise!vars, ByType, Repeats, ByFunction, ByValue, Shapes
<1>2. CASE KeyFunction
  BY <1>1, <1>2, KeyFunctionTallied
<1>3. CASE Keyed \/ ScanConstants \/ UNCHANGED vars
  BY <1>1, <1>3, OthersTallied
<1>4. CASE Emits
  <2>1. TallyInv' /\ \E f \in Findings(ranges) : \E vaddr : Emitted(f, vaddr)
    BY <1>4, EmitsTallied
  <2>2. PICK f \in Findings(ranges) : \E vaddr : Emitted(f, vaddr)
    BY <2>1
  <2>3. PICK vaddr : Emitted(f, vaddr)
    BY <2>2
  <2>. QED
    BY <2>1, <2>3, FindingKept
<1>5. CASE FinishRange
  BY <1>1, <1>5, FinishRangeTallied
<1>. QED
  BY <1>2, <1>3, <1>4, <1>5 DEF Next

\* The report keeps its promise: through every order of scans and findings
\* and whatever growths fail, a finding is counted once by its type, once
\* under its function and once by its constant, or its loss is, and it is
\* a repeat exactly when one of its shape is remembered (emit_finding).
THEOREM TallyImplemented ==
  ASSUME HashIsNumber, NoValueApart, TypesFit
  PROVE  Spec => PromiseKept
<1>1. Init => ReportsInv /\ TallyInv /\ Promise!Init
  BY InitHolds, InitTallied
<1>2. ReportsInv /\ TallyInv /\ [Next]_vars => (ReportsInv /\ TallyInv)' /\ [Promise!Finding]_(Promise!vars)
  BY StepHolds, StepTallied
<1>. QED
  BY <1>1, <1>2, PTL DEF Spec, PromiseKept, Promise!Spec

-----------------------------------------------------------------------------
(* Words and the places they are at.                                       *)

\* A function that lies in its range and starts and ends at words.
Fits(r, f) == r \in CodeRanges /\ f \in Places /\ Aligned(f) /\ Within(r, f)
Words(f)   == (f.end - f.start) \div 4
Nth(f, n)  == f.start + 4 * (n - 1)

LEMMA PlaceOfWord ==
  ASSUME NEW r, NEW f, Fits(r, f)
  PROVE  /\ f.start \in Nat /\ f.end \in Nat /\ f.start <= f.end /\ Words(f) \in Nat
         /\ f.end = f.start + 4 * Words(f)
         /\ \A n \in 1 .. Words(f) : Nth(f, n) \in Offsets(f)
         /\ \A o \in Offsets(f) : /\ o \in Nat /\ f.start <= o /\ o + 4 <= f.end
                                  /\ \E n \in 1 .. Words(f) : o = Nth(f, n)
<1>1. f.start \in Nat /\ f.end \in Nat /\ f.start % 4 = 0 /\ f.end % 4 = 0 /\ f.start <= f.end
  BY DEF Fits, Places, Aligned
<1>2. Words(f) \in Nat /\ f.end = f.start + 4 * Words(f)
  <2>1. (f.end - f.start) % 4 = 0
    BY <1>1
  <2>. QED
    BY <1>1, <2>1 DEF Words
<1>3. ASSUME NEW n \in 1 .. Words(f)
      PROVE  Nth(f, n) \in Offsets(f)
  <2>1. Nth(f, n) - f.start = 4 * (n - 1) /\ Nth(f, n) \in f.start .. f.end - 1
    BY <1>1, <1>2 DEF Nth
  <2>2. (4 * (n - 1)) % 4 = 0
    BY <1>2
  <2>. QED
    BY <2>1, <2>2 DEF Offsets
<1>4. ASSUME NEW o \in Offsets(f)
      PROVE  /\ o \in Nat /\ f.start <= o /\ o + 4 <= f.end
             /\ \E n \in 1 .. Words(f) : o = Nth(f, n)
  <2>1. o \in f.start .. f.end - 1 /\ (o - f.start) % 4 = 0
    BY DEF Offsets
  <2>. DEFINE n == (o - f.start) \div 4 + 1
  <2>2. n \in Int /\ o = f.start + 4 * (n - 1)
    BY <1>1, <2>1
  <2>. HIDE DEF n
  <2>3. n \in 1 .. Words(f) /\ o + 4 <= f.end
    BY <1>1, <1>2, <2>1, <2>2
  <2>4. o = Nth(f, n)
    BY <2>2 DEF Nth
  <2>. QED
    BY <1>1, <2>1, <2>3, <2>4
<1>. QED
  BY <1>1, <1>2, <1>3, <1>4

LEMMA WordThere ==
  ASSUME NEW r, NEW f, Fits(r, f), NEW o \in Offsets(f)
  PROVE  At(r, o) \in Opcodes
<1>1. o \in Nat /\ f.start <= o /\ o + 4 <= f.end /\ f.start \in Nat /\ f.end \in Nat
  BY PlaceOfWord
<1>2. f.end <= 4 * Len(r.words) /\ r.words \in Seq(Opcodes)
  BY <1>1 DEF Fits, Within, CodeRanges
<1>3. o \div 4 + 1 \in 1 .. Len(r.words)
  BY <1>1, <1>2
<1>. QED
  BY <1>2, <1>3 DEF At

LEMMA WordFields ==
  ASSUME NEW w \in Opcodes
  PROVE  /\ w.rd \in Nat /\ w.rn \in Nat /\ w.rs \in Nat /\ w.disp \in Int /\ w.imm \in Int
         /\ w = [op |-> w.op, rd |-> w.rd, rn |-> w.rn, rs |-> w.rs, disp |-> w.disp, imm |-> w.imm]
         /\ w.op = "pool" => w.rd = XZR /\ w.imm \in Nat
BY DEF Opcodes

LEMMA Displacements ==
  ASSUME NEW r, NEW f, Fits(r, f), NEW o \in Offsets(f)
  PROVE  /\ Target(r, o) \in Int /\ ReadEnd(r, o) \in Int /\ PoolEnd(r, f, o) \in Int
         /\ \E d, k, p \in Int : /\ Target(r, o) = o + 4 * d /\ ReadEnd(r, o) = o + 4 * k
                                 /\ PoolEnd(r, f, o) = o + 4 * p /\ p = At(r, o).imm + 1
<1>. DEFINE w == At(r, o)
            n == IF w.op = "pool" THEN 2 ELSE w.imm
<1>1. o \in Nat /\ w.disp \in Int /\ w.imm \in Int /\ n \in Int
  BY PlaceOfWord, WordThere, WordFields
<1>2. Target(r, o) = o + 4 * w.disp
  BY DEF Target
<1>3. ReadEnd(r, o) = o + 4 * (w.disp + n)
  <2>1. ReadEnd(r, o) = Target(r, o) + 4 * n
    BY DEF ReadEnd
  <2>. HIDE DEF n, w
  <2>. QED
    BY <1>1, <1>2, <2>1
<1>4. PoolEnd(r, f, o) = o + 4 * (w.imm + 1)
  BY DEF PoolEnd
<1>. HIDE DEF n
<1>5. w.disp + n \in Int /\ w.imm + 1 \in Int
  BY <1>1
<1>6. Target(r, o) \in Int /\ ReadEnd(r, o) \in Int /\ PoolEnd(r, f, o) \in Int
  BY <1>1, <1>2, <1>3, <1>4, <1>5
<1>. QED
  BY <1>1, <1>2, <1>3, <1>4, <1>5, <1>6

-----------------------------------------------------------------------------
(* The words marked as data.                                               *)

MarkStates(f) == [skip : Int, data : SUBSET Offsets(f)]

LEMMA MarkKeepsState ==
  ASSUME NEW r, NEW f, Fits(r, f), NEW s \in MarkStates(f), NEW o \in Offsets(f)
  PROVE  Mark(r, f, s, o) \in MarkStates(f) /\ s.data \subseteq Mark(r, f, s, o).data
<1>. DEFINE data == {p \in Offsets(f) : IF IsPool(r, f, o) THEN o < p /\ p < PoolEnd(r, f, o)
                                        ELSE Target(r, o) <= p /\ p < ReadEnd(r, o)}
<1>1. s.skip \in Int /\ s.data \subseteq Offsets(f)
  BY DEF MarkStates
<1>2. data \subseteq Offsets(f)
  OBVIOUS
<1>3. PoolEnd(r, f, o) \in Int
  BY Displacements
<1>4. Mark(r, f, s, o) \in {s, [skip |-> PoolEnd(r, f, o), data |-> s.data \cup data],
                            [skip |-> s.skip, data |-> s.data \cup data]}
  BY DEF Mark
<1>. HIDE DEF data
<1>. QED
  BY <1>1, <1>2, <1>3, <1>4 DEF MarkStates

LEMMA MarkedSteps ==
  ASSUME NEW r, NEW f, Fits(r, f)
  PROVE  /\ Marked(r, f)[0] = [skip |-> 0, data |-> {}]
         /\ \A n \in 0 .. Words(f) : Marked(r, f)[n] \in MarkStates(f)
         /\ \A n \in 1 .. Words(f) : Marked(r, f)[n] = Mark(r, f, Marked(r, f)[n - 1], Nth(f, n))
<1>. DEFINE X == MarkStates(f)
            N == Words(f)
            start == [skip |-> 0, data |-> {}]
            Step == [n \in 1 .. N |-> [s \in X |-> Mark(r, f, s, Nth(f, n))]]
            Body(u) == [n \in 0 .. N |-> IF n = 0 THEN start ELSE Mark(r, f, u[n - 1], Nth(f, n))]
            T == CHOOSE u : u = Body(u)
<1>1. N \in Nat /\ \A n \in 1 .. N : Nth(f, n) \in Offsets(f)
  BY PlaceOfWord
<1>2. start \in X
  BY DEF MarkStates
<1>3. Step \in [1 .. N -> [X -> X]]
  <2>1. \A n \in 1 .. N : \A s \in X : Mark(r, f, s, Nth(f, n)) \in X
    BY <1>1, MarkKeepsState
  <2>. HIDE DEF X, N
  <2>. QED
    BY <2>1
<1>4. PICK u : Unfolds(u, X, N, start, Step)
  <2>. HIDE DEF N, X, Step, start
  <2>. QED
    BY <1>1, <1>2, <1>3, StepByStep
<1>. HIDE DEF X, start, N
<1>5. u \in [0 .. N -> X] /\ u[0] = start /\ \A n \in 1 .. N : u[n] = Mark(r, f, u[n - 1], Nth(f, n))
  <2>1. u \in [0 .. N -> X] /\ u[0] = start /\ \A n \in 1 .. N : u[n] = Step[n][u[n - 1]]
    BY <1>4 DEF Unfolds
  <2>2. \A n \in 1 .. N : u[n - 1] \in X
    BY <1>1, <2>1
  <2>. QED
    BY <2>1, <2>2
<1>6. u = Body(u)
  <2>1. \A n \in 0 .. N : n # 0 => n \in 1 .. N
    BY <1>1
  <2>2. \A n \in 0 .. N : u[n] = IF n = 0 THEN start ELSE Mark(r, f, u[n - 1], Nth(f, n))
    BY <1>5, <2>1
  <2>. QED
    BY <1>5, <2>2
<1>7. T = Body(T)
  BY <1>6
<1>8. Marked(r, f) = T
  BY DEF Marked, Nth, Words, start, N
<1>. HIDE DEF T
<1>9. T[0] = start /\ \A n \in 1 .. N : T[n] = Mark(r, f, T[n - 1], Nth(f, n))
  <2>1. 0 \in 0 .. N /\ \A n \in 1 .. N : n \in 0 .. N /\ n # 0
    BY <1>1
  <2>. QED
    BY <1>7, <2>1
<1>10. \A n \in 0 .. N : T[n] \in X
  <2>. DEFINE Bad == {n \in 0 .. N : T[n] \notin X}
  <2>1. SUFFICES ASSUME Bad # {}
                 PROVE  FALSE
    OBVIOUS
  <2>2. PICK m \in Bad : \A i \in Bad : m <= i
    <3>1. Bad \in SUBSET Nat
      BY <1>1
    <3>. HIDE DEF Bad
    <3>. QED
      BY <2>1, <3>1, LeastDistance
  <2>3. m # 0
    BY <1>2, <1>9, <2>2
  <2>4. m \in 1 .. N /\ m - 1 \in 0 .. N /\ ~(m <= m - 1)
    BY <1>1, <2>2, <2>3
  <2>5. T[m - 1] \in X
    BY <2>2, <2>4
  <2>6. T[m] \in X
    BY <1>1, <1>9, <2>4, <2>5, MarkKeepsState DEF X
  <2>. QED
    BY <2>2, <2>6
<1>. QED
  BY <1>8, <1>9, <1>10 DEF X, start, N

\* Counting up from 0.
LEMMA StepsUp ==
  ASSUME NEW N \in Nat, NEW G, 0 \in G, \A n \in 1 .. N : n - 1 \in G => n \in G
  PROVE  \A n \in 0 .. N : n \in G
<1>. DEFINE Bad == {n \in 0 .. N : n \notin G}
<1>1. SUFFICES ASSUME Bad # {}
               PROVE  FALSE
  OBVIOUS
<1>2. PICK m \in Bad : \A i \in Bad : m <= i
  <2>1. Bad \in SUBSET Nat
    OBVIOUS
  <2>. HIDE DEF Bad
  <2>. QED
    BY <1>1, <2>1, LeastDistance
<1>3. m \in 1 .. N /\ m - 1 \in 0 .. N /\ ~(m <= m - 1)
  BY <1>2
<1>4. m - 1 \in G
  BY <1>2, <1>3
<1>. QED
  BY <1>2, <1>3, <1>4

LEMMA MarksGrow ==
  ASSUME NEW r, NEW f, Fits(r, f)
  PROVE  /\ Marks(r, f) = Marked(r, f)[Words(f)].data /\ Marks(r, f) \subseteq Offsets(f)
         /\ \A n \in 0 .. Words(f) : Marked(r, f)[n].data \subseteq Marks(r, f)
<1>. DEFINE N == Words(f)
            T == Marked(r, f)
            G == {k \in 0 .. N : T[N - k].data \subseteq T[N].data}
<1>1. N \in Nat /\ \A n \in 1 .. N : Nth(f, n) \in Offsets(f)
  BY PlaceOfWord
<1>2. /\ \A n \in 0 .. N : T[n] \in MarkStates(f)
      /\ \A n \in 1 .. N : T[n] = Mark(r, f, T[n - 1], Nth(f, n))
  BY MarkedSteps
<1>3. Marks(r, f) = T[N].data
  BY DEF Marks, Words
<1>. HIDE DEF T, N
<1>4. \A n \in 1 .. N : T[n - 1].data \subseteq T[n].data
  <2>1. \A n \in 1 .. N : n - 1 \in 0 .. N
    BY <1>1
  <2>. QED
    BY <1>1, <1>2, <2>1, MarkKeepsState
<1>5. 0 \in G
  BY <1>1
<1>6. ASSUME NEW k \in 1 .. N, k - 1 \in G
      PROVE  k \in G
  <2>1. N - (k - 1) \in 1 .. N /\ (N - (k - 1)) - 1 = N - k /\ k \in 0 .. N
    BY <1>1
  <2>2. T[N - k].data \subseteq T[N - (k - 1)].data
    BY <1>4, <2>1
  <2>. QED
    BY <1>6, <2>1, <2>2
<1>. HIDE DEF G
<1>7. \A k \in 0 .. N : k \in G
  BY <1>1, <1>5, <1>6, StepsUp
<1>8. ASSUME NEW n \in 0 .. N
      PROVE  T[n].data \subseteq T[N].data
  <2>1. N - n \in 0 .. N /\ N - (N - n) = n
    BY <1>1
  <2>2. N - n \in G
    BY <1>7, <2>1
  <2>. QED
    BY <2>1, <2>2 DEF G
<1>9. T[N].data \subseteq Offsets(f)
  <2>1. N \in 0 .. N
    BY <1>1
  <2>. QED
    BY <1>2, <2>1 DEF MarkStates
<1>. QED
  BY <1>3, <1>8, <1>9 DEF T, N

\* What a word marks is marked in the end.
LEMMA MarksLast ==
  ASSUME NEW r, NEW f, Fits(r, f), NEW n \in 1 .. Words(f)
  PROVE  /\ Marked(r, f)[n - 1] \in MarkStates(f)
         /\ Mark(r, f, Marked(r, f)[n - 1], Nth(f, n)).data \subseteq Marks(r, f)
<1>1. n \in 0 .. Words(f) /\ n - 1 \in 0 .. Words(f)
  BY PlaceOfWord
<1>. QED
  BY <1>1, MarkedSteps, MarksGrow

-----------------------------------------------------------------------------
(* Marks of a function and of the span it is trimmed from.                 *)

LEMMA TrimmedFits ==
  ASSUME NEW r, NEW f, Fits(r, f)
  PROVE  Fits(r, Trimmed(r, f)) /\ Trimmed(r, f).start = f.start /\ Trimmed(r, f).end <= f.end
<1>. DEFINE t == Trimmed(r, f)
<1>1. t \in Places /\ Aligned(t) /\ t.start = f.start /\ t.end <= f.end
  BY TrimmedStays DEF Fits
<1>. HIDE DEF t
<1>2. t.start \in Nat /\ t.end \in Nat /\ f.start \in Nat /\ f.end \in Nat
  BY <1>1 DEF Fits, Places
<1>3. Len(r.words) \in Nat
  <2>1. r.words \in Seq(Opcodes)
    BY DEF Fits, CodeRanges
  <2>. QED
    BY <2>1
<1>4. Within(r, t)
  BY <1>1, <1>2, <1>3 DEF Fits, Within
<1>. QED
  BY <1>1, <1>4 DEF Fits, t

\* Words past the end are unmarked padding; no marked one is.
LEMMA TrimmedKeeps ==
  ASSUME NEW r, NEW f, Fits(r, f), NEW o \in Offsets(f),
         At(r, o).op \notin Padding \/ o \in Marks(r, f)
  PROVE  o + 4 <= Trimmed(r, f).end
<1>. DEFINE kept == {p \in Offsets(f) : At(r, p).op \notin Padding \/ p \in Marks(r, f)}
            q    == CHOOSE q \in kept : \A p \in kept : p <= q
<1>1. o \in kept
  OBVIOUS
<1>2. Trimmed(r, f) = [f EXCEPT !.end = q + 4]
  BY <1>1 DEF Trimmed
<1>3. f = [start |-> f.start, end |-> f.end] /\ f.start \in Nat /\ f.end \in Nat
  BY DEF Fits, Places
<1>4. \A p \in kept : p \in Nat /\ p < f.end
  <2>1. \A p \in Offsets(f) : p \in Nat /\ p + 4 <= f.end
    BY PlaceOfWord
  <2>. QED
    BY <1>3, <2>1
<1>. HIDE DEF kept
<1>5. q \in kept /\ \A p \in kept : p <= q
  <2>. DEFINE ends == {f.end - p : p \in kept}
  <2>1. ends \in SUBSET Nat /\ ends # {}
    BY <1>1, <1>3, <1>4
  <2>2. PICK m \in ends : \A i \in ends : m <= i
    <3>. HIDE DEF ends
    <3>. QED
      BY <2>1, LeastDistance
  <2>3. PICK x \in kept : m = f.end - x
    BY <2>2
  <2>4. ASSUME NEW p \in kept
        PROVE  p <= x
    <3>1. m <= f.end - p
      BY <2>2
    <3>. QED
      BY <1>3, <1>4, <2>3, <3>1
  <2>. QED
    BY <2>3, <2>4
<1>. HIDE DEF q
<1>6. o <= q /\ o \in Nat /\ q \in Nat
  BY <1>1, <1>4, <1>5
<1>. QED
  BY <1>2, <1>3, <1>6

LEMMA OffsetsAre ==
  ASSUME NEW r, NEW f, Fits(r, f), NEW o \in Offsets(f), NEW k \in Int,
         f.start <= o + 4 * k, o + 4 * k < f.end
  PROVE  o + 4 * k \in Offsets(f)
<1>1. f.start \in Nat /\ f.end \in Nat /\ o \in Nat /\ (o - f.start) % 4 = 0
  BY PlaceOfWord DEF Offsets
<1>2. (o + 4 * k - f.start) % 4 = 0
  BY <1>1
<1>. QED
  BY <1>1, <1>2 DEF Offsets

LEMMA OffsetsTrimmed ==
  ASSUME NEW r, NEW f, Fits(r, f)
  PROVE  LET t == Trimmed(r, f)
         IN  /\ Offsets(t) \subseteq Offsets(f)
             /\ \A p \in Offsets(f) : p < t.end => p \in Offsets(t)
             /\ Words(t) \in 0 .. Words(f)
             /\ \A n : Nth(t, n) = Nth(f, n)
<1>. DEFINE t == Trimmed(r, f)
<1>1. Fits(r, t) /\ t.start = f.start /\ t.end <= f.end
  BY TrimmedFits
<1>. HIDE DEF t
<1>2. f.start \in Nat /\ f.end \in Nat /\ t.end \in Nat
  BY <1>1, PlaceOfWord
<1>3. Offsets(t) \subseteq Offsets(f)
  BY <1>1, <1>2 DEF Offsets
<1>4. \A p \in Offsets(f) : p < t.end => p \in Offsets(t)
  BY <1>1, <1>2 DEF Offsets
<1>5. /\ f.end = f.start + 4 * Words(f) /\ Words(f) \in Nat
      /\ t.end = t.start + 4 * Words(t) /\ Words(t) \in Nat
  BY <1>1, PlaceOfWord
<1>. QED
  BY <1>1, <1>2, <1>3, <1>4, <1>5 DEF Nth, t

LEMMA SameMark ==
  ASSUME NEW r, NEW f, Fits(r, f), NEW n \in 1 .. Words(f), n <= Words(Trimmed(r, f))
  PROVE  LET s == Marked(r, f)[n - 1]
             o == Nth(f, n)
         IN  Mark(r, Trimmed(r, f), s, o) = Mark(r, f, s, o)
<1>. DEFINE t    == Trimmed(r, f)
            s    == Marked(r, f)[n - 1]
            o    == Nth(f, n)
            D(g) == {p \in Offsets(g) : IF IsPool(r, g, o) THEN o < p /\ p < PoolEnd(r, g, o)
                                        ELSE Target(r, o) <= p /\ p < ReadEnd(r, o)}
            more == [skip |-> s.skip, data |-> s.data \cup D(f)]
<1>1. Fits(r, t) /\ t.start = f.start /\ t.end <= f.end
  BY TrimmedFits
<1>2. Offsets(t) \subseteq Offsets(f) /\ \A p \in Offsets(f) : p < t.end => p \in Offsets(t)
  BY OffsetsTrimmed
<1>3. o \in Offsets(f)
  BY PlaceOfWord
<1>4. s \in MarkStates(f) /\ Mark(r, f, s, o).data \subseteq Marks(r, f)
  BY MarksLast
<1>5. /\ f.start \in Nat /\ f.end \in Nat /\ t.end \in Nat /\ o \in Nat /\ f.start <= o
      /\ \A p \in Offsets(f) : p \in Nat /\ f.start <= p
  BY <1>1, <1>3, PlaceOfWord
<1>6. PICK d, k, p \in Int : /\ Target(r, o) = o + 4 * d /\ ReadEnd(r, o) = o + 4 * k
                             /\ PoolEnd(r, f, o) = o + 4 * p /\ p = At(r, o).imm + 1
  BY <1>3, Displacements
<1>7. PoolEnd(r, t, o) = PoolEnd(r, f, o)
  BY DEF PoolEnd
<1>8. \A x \in Marks(r, f) : x + 4 <= t.end
  BY MarksGrow, TrimmedKeeps
<1>9. /\ Mark(r, f, s, o) = IF o < s.skip THEN s
                            ELSE IF IsPool(r, f, o) THEN [skip |-> PoolEnd(r, f, o), data |-> s.data \cup D(f)]
                            ELSE IF IsLiteral(r, f, o) /\ Target(r, o) >= f.start /\ ReadEnd(r, o) <= f.end
                            THEN more ELSE s
      /\ Mark(r, t, s, o) = IF o < s.skip THEN s
                            ELSE IF IsPool(r, t, o) THEN [skip |-> PoolEnd(r, t, o), data |-> s.data \cup D(t)]
                            ELSE IF IsLiteral(r, t, o) /\ Target(r, o) >= t.start /\ ReadEnd(r, o) <= t.end
                            THEN [skip |-> s.skip, data |-> s.data \cup D(t)] ELSE s
  BY DEF Mark
<1>10. IsPool(r, t, o) => IsPool(r, f, o)
  BY <1>1, <1>5, <1>6, <1>7 DEF IsPool
<1>11. s = [skip |-> s.skip, data |-> s.data]
  BY <1>4 DEF MarkStates
<1>. SUFFICES Mark(r, t, s, o) = Mark(r, f, s, o)
  OBVIOUS
<1>. HIDE DEF t, s, o
<1>12. CASE o < s.skip
  BY <1>9, <1>12
<1>13. CASE ~(o < s.skip) /\ IsPool(r, f, o)
  <2>1. At(r, o).imm \in Nat /\ At(r, o).imm # 0 /\ o + 4 * p <= f.end
    BY <1>3, <1>6, <1>13, WordThere, WordFields DEF IsPool
  <2>2. o + 4 * (p - 1) \in Offsets(f)
    <3>1. p - 1 \in Int /\ f.start <= o + 4 * (p - 1) /\ o + 4 * (p - 1) < f.end
      BY <1>5, <1>6, <2>1
    <3>. QED
      BY <1>3, <3>1, OffsetsAre
  <2>3. o + 4 * (p - 1) \in D(f)
    BY <1>5, <1>6, <1>13, <2>1, <2>2
  <2>4. D(f) \subseteq Marks(r, f)
    BY <1>4, <1>9, <1>13
  <2>. HIDE DEF D
  <2>5. (o + 4 * (p - 1)) + 4 <= t.end
    BY <1>8, <2>3, <2>4
  <2>6. PoolEnd(r, f, o) <= t.end
    BY <1>5, <1>6, <2>5
  <2>7. IsPool(r, t, o)
    BY <1>7, <1>13, <2>6 DEF IsPool
  <2>8. D(t) = D(f)
    <3>1. \A x \in Offsets(f) : x < PoolEnd(r, f, o) => x < t.end
      BY <1>5, <1>6, <2>6
    <3>. QED
      BY <1>2, <1>7, <1>13, <2>7, <3>1 DEF D
  <2>. QED
    BY <1>7, <1>9, <1>13, <2>7, <2>8
<1>14. CASE ~(o < s.skip) /\ ~IsPool(r, f, o)
  <2>1. ~IsPool(r, t, o) /\ (IsLiteral(r, t, o) <=> IsLiteral(r, f, o))
    BY <1>10, <1>14 DEF IsLiteral
  <2>2. CASE ~(IsLiteral(r, f, o) /\ Target(r, o) >= f.start /\ ReadEnd(r, o) <= f.end)
    <3>1. ReadEnd(r, o) <= t.end => ReadEnd(r, o) <= f.end
      BY <1>1, <1>5, <1>6
    <3>. QED
      BY <1>1, <1>9, <1>14, <2>1, <2>2, <3>1
  <2>3. CASE IsLiteral(r, f, o) /\ Target(r, o) >= f.start /\ ReadEnd(r, o) <= f.end
    <3>1. Mark(r, f, s, o) = more
      BY <1>9, <1>14, <2>3
    <3>2. D(t) \subseteq D(f)
      BY <1>2, <1>14, <2>1
    <3>3. CASE D(f) = {}
      <4>. HIDE DEF D
      <4>1. s.data \cup D(t) = s.data /\ s.data \cup D(f) = s.data
        BY <3>2, <3>3
      <4>. QED
        BY <1>9, <1>11, <1>14, <2>1, <3>1, <4>1
    <3>4. CASE D(f) # {}
      <4>1. PICK x \in D(f) : TRUE
        BY <3>4
      <4>2. x \in Nat /\ f.start <= x /\ Target(r, o) <= x /\ x < ReadEnd(r, o)
        BY <1>5, <1>14, <4>1
      <4>3. d <= k - 1
        BY <1>5, <1>6, <4>2
      <4>4. o + 4 * (k - 1) \in Offsets(f)
        <5>1. k - 1 \in Int
          BY <1>6
        <5>2. f.start <= o + 4 * (k - 1) /\ o + 4 * (k - 1) < f.end
          BY <1>5, <1>6, <2>3, <4>3
        <5>. QED
          BY <1>3, <5>1, <5>2, OffsetsAre
      <4>5. o + 4 * (k - 1) \in D(f)
        BY <1>5, <1>6, <1>14, <4>3, <4>4
      <4>. HIDE DEF D
      <4>6. (o + 4 * (k - 1)) + 4 <= t.end
        BY <1>4, <1>8, <3>1, <4>5
      <4>7. ReadEnd(r, o) <= t.end
        BY <1>5, <1>6, <4>6
      <4>8. D(t) = D(f)
        <5>1. \A y \in Offsets(f) : y < ReadEnd(r, o) => y < t.end
          BY <1>5, <1>6, <4>7
        <5>. QED
          BY <1>2, <1>14, <2>1, <5>1 DEF D
      <4>. QED
        BY <1>1, <1>9, <1>14, <2>1, <2>3, <4>7, <4>8
    <3>. QED
      BY <3>3, <3>4
  <2>. QED
    BY <2>2, <2>3
<1>. QED
  BY <1>12, <1>13, <1>14

LEMMA MarksTrimmed ==
  ASSUME NEW r, NEW f, Fits(r, f)
  PROVE  Marks(r, Trimmed(r, f)) = Marks(r, f)
<1>. DEFINE t == Trimmed(r, f)
            m == Words(t)
            N == Words(f)
            S == Marked(r, f)
            T == Marked(r, t)
            G == {n \in 0 .. N : S[n] = T[IF n <= m THEN n ELSE m]}
<1>1. Fits(r, t) /\ t.start = f.start /\ m \in 0 .. N /\ N \in Nat /\ \A n : Nth(t, n) = Nth(f, n)
  BY TrimmedFits, OffsetsTrimmed, PlaceOfWord
<1>2. /\ S[0] = [skip |-> 0, data |-> {}] /\ T[0] = [skip |-> 0, data |-> {}]
      /\ \A n \in 1 .. N : S[n] = Mark(r, f, S[n - 1], Nth(f, n))
      /\ \A n \in 1 .. m : T[n] = Mark(r, t, T[n - 1], Nth(t, n))
  BY <1>1, MarkedSteps
<1>3. \A n \in 1 .. N : n <= m => Mark(r, t, S[n - 1], Nth(f, n)) = Mark(r, f, S[n - 1], Nth(f, n))
  BY SameMark
<1>4. ASSUME NEW n \in 1 .. N, ~(n <= m)
      PROVE  S[n] = S[n - 1]
  <2>. DEFINE o == Nth(f, n)
  <2>1. o \in Offsets(f)
    BY PlaceOfWord
  <2>2. ~(o + 4 <= t.end)
    <3>1. t.end = t.start + 4 * m /\ t.start \in Nat /\ o = t.start + 4 * (n - 1)
      BY <1>1, PlaceOfWord DEF Nth
    <3>. HIDE DEF t, o, m
    <3>. QED
      BY <1>1, <1>4, <3>1
  <2>3. At(r, o).op \in Padding
    BY <2>1, <2>2, TrimmedKeeps
  <2>4. ~IsPool(r, f, o) /\ ~IsLiteral(r, f, o)
    BY <2>3 DEF IsPool, IsLiteral, Padding
  <2>5. Mark(r, f, S[n - 1], o) = S[n - 1]
    BY <2>4 DEF Mark
  <2>. QED
    BY <1>2, <2>5
<1>5. Marks(r, f) = S[N].data /\ Marks(r, t) = T[m].data
  BY <1>1, MarksGrow
<1>. HIDE DEF t, m, N, S, T
<1>6. 0 \in G
  BY <1>1, <1>2
<1>7. ASSUME NEW n \in 1 .. N, n - 1 \in G
      PROVE  n \in G
  <2>1. CASE n <= m
    <3>1. n \in 1 .. m /\ n - 1 <= m
      BY <1>1, <2>1
    <3>2. S[n - 1] = T[n - 1]
      BY <1>7, <3>1
    <3>3. S[n] = T[n]
      BY <1>1, <1>2, <1>3, <3>1, <3>2
    <3>. QED
      BY <1>1, <3>1, <3>3
  <2>2. CASE ~(n <= m)
    <3>1. n - 1 = m \/ ~(n - 1 <= m)
      BY <1>1, <2>2
    <3>2. S[n - 1] = T[m]
      BY <1>7, <3>1
    <3>. QED
      BY <1>1, <1>4, <2>2, <3>2
  <2>. QED
    BY <2>1, <2>2
<1>. HIDE DEF G
<1>8. \A n \in 0 .. N : n \in G
  BY <1>1, <1>6, <1>7, StepsUp
<1>9. S[N] = T[m]
  <2>1. N \in G /\ (N <= m => N = m)
    BY <1>1, <1>8
  <2>. QED
    BY <2>1 DEF G
<1>. QED
  BY <1>5, <1>9 DEF t

-----------------------------------------------------------------------------
(* What the keys are.                                                      *)

\* A value, then the first n items.
Lists(s, n, first, item) ==
  /\ Len(s) = n + 1 /\ s[1] = first
  /\ \A i \in 1 .. n : s[i + 1] = item[i]

LEMMA ListsMore ==
  ASSUME NEW N \in Nat, NEW item, NEW first, NEW n \in 1 .. N, NEW S, NEW s \in Seq(S),
         NEW x \in S, x = item[n], Lists(s, n - 1, first, item)
  PROVE  Lists(Append(s, x), n, first, item)
<1>1. Len(s) = n
  BY DEF Lists
<1>2. Len(Append(s, x)) = n + 1 /\ Append(s, x)[n + 1] = x /\ \A i \in 1 .. n : Append(s, x)[i] = s[i]
  BY <1>1, AppendProperties
<1>3. \A i \in 1 .. n - 1 : i + 1 \in 1 .. n
  OBVIOUS
<1>4. 1 \in 1 .. n /\ \A i \in 1 .. n : i = n \/ i \in 1 .. n - 1
  OBVIOUS
<1>. QED
  BY <1>2, <1>3, <1>4 DEF Lists

Idents(r, f, data) ==
  {f.end - f.start} \cup {Folded(r, f, o, data, p).ident : o \in Offsets(f), p \in SUBSET Nat}
Params(r, f, data) ==
  {f.end - f.start} \cup {Folded(r, f, o, data, p).param : o \in Offsets(f), p \in SUBSET Nat}
FoldStates(r, f, data) ==
  [ident : Seq(Idents(r, f, data)), param : Seq(Params(r, f, data)), pages : SUBSET Nat]

LEMMA FoldKeepsState ==
  ASSUME NEW r, NEW f, Fits(r, f), NEW data, NEW s \in FoldStates(r, f, data), NEW o \in Offsets(f)
  PROVE  LET k == Folded(r, f, o, data, s.pages)
         IN  /\ Fold(r, f, data, s, o) \in FoldStates(r, f, data)
             /\ Fold(r, f, data, s, o).ident = Append(s.ident, k.ident)
             /\ Fold(r, f, data, s, o).param = Append(s.param, k.param)
             /\ s.ident \in Seq(Idents(r, f, data)) /\ k.ident \in Idents(r, f, data)
             /\ s.param \in Seq(Params(r, f, data)) /\ k.param \in Params(r, f, data)
<1>. DEFINE I == Idents(r, f, data)
            J == Params(r, f, data)
            k == Folded(r, f, o, data, s.pages)
            pages == IF o \in data \/ IsPool(r, f, o) THEN s.pages ELSE PagesAfter(At(r, o), s.pages)
<1>1. s.ident \in Seq(I) /\ s.param \in Seq(J) /\ s.pages \in SUBSET Nat
  BY DEF FoldStates
<1>2. k.ident \in I /\ k.param \in J
  BY <1>1 DEF Idents, Params
<1>3. pages \in SUBSET Nat
  <2>1. At(r, o).rd \in Nat
    BY WordThere, WordFields
  <2>2. PagesAfter(At(r, o), s.pages) \subseteq s.pages \cup {At(r, o).rd}
    BY DEF PagesAfter
  <2>. QED
    BY <1>1, <2>1, <2>2
<1>4. Fold(r, f, data, s, o) =
        [ident |-> Append(s.ident, k.ident), param |-> Append(s.param, k.param), pages |-> pages]
  BY DEF Fold
<1>5. Append(s.ident, k.ident) \in Seq(I) /\ Append(s.param, k.param) \in Seq(J)
  <2>. HIDE DEF I, J, k
  <2>. QED
    BY <1>1, <1>2, AppendProperties
<1>. HIDE DEF I, J, k, pages
<1>. QED
  BY <1>1, <1>2, <1>3, <1>4, <1>5 DEF FoldStates, I, J, k

LEMMA FoldsSteps ==
  ASSUME NEW r, NEW f, Fits(r, f), NEW data
  PROVE  LET F    == Folds(r, f, data)
             size == f.end - f.start
         IN  /\ F[0] = [ident |-> <<size>>, param |-> <<size>>, pages |-> {}]
             /\ \A n \in 0 .. Words(f) : F[n] \in FoldStates(r, f, data)
             /\ \A n \in 1 .. Words(f) : F[n] = Fold(r, f, data, F[n - 1], Nth(f, n))
<1>. DEFINE X == FoldStates(r, f, data)
            N == Words(f)
            size == f.end - f.start
            start == [ident |-> <<size>>, param |-> <<size>>, pages |-> {}]
            Step == [n \in 1 .. N |-> [s \in X |-> Fold(r, f, data, s, Nth(f, n))]]
            Body(u) == [n \in 0 .. N |-> IF n = 0 THEN start ELSE Fold(r, f, data, u[n - 1], Nth(f, n))]
            T == CHOOSE u : u = Body(u)
<1>1. N \in Nat /\ \A n \in 1 .. N : Nth(f, n) \in Offsets(f)
  BY PlaceOfWord
<1>2. start \in X
  <2>1. size \in Idents(r, f, data) /\ size \in Params(r, f, data)
    BY DEF Idents, Params
  <2>. HIDE DEF size
  <2>2. <<size>> \in Seq(Idents(r, f, data)) /\ <<size>> \in Seq(Params(r, f, data))
    BY <2>1
  <2>. QED
    BY <2>2 DEF FoldStates
<1>3. Step \in [1 .. N -> [X -> X]]
  <2>1. \A n \in 1 .. N : \A s \in X : Fold(r, f, data, s, Nth(f, n)) \in X
    BY <1>1, FoldKeepsState
  <2>. HIDE DEF X, N
  <2>. QED
    BY <2>1
<1>4. PICK u : Unfolds(u, X, N, start, Step)
  <2>. HIDE DEF N, X, Step, start
  <2>. QED
    BY <1>1, <1>2, <1>3, StepByStep
<1>. HIDE DEF X, start, N
<1>5. u \in [0 .. N -> X] /\ u[0] = start /\ \A n \in 1 .. N : u[n] = Fold(r, f, data, u[n - 1], Nth(f, n))
  <2>1. u \in [0 .. N -> X] /\ u[0] = start /\ \A n \in 1 .. N : u[n] = Step[n][u[n - 1]]
    BY <1>4 DEF Unfolds
  <2>2. \A n \in 1 .. N : u[n - 1] \in X
    BY <1>1, <2>1
  <2>. QED
    BY <2>1, <2>2
<1>6. u = Body(u)
  <2>1. \A n \in 0 .. N : n # 0 => n \in 1 .. N
    BY <1>1
  <2>2. \A n \in 0 .. N : u[n] = IF n = 0 THEN start ELSE Fold(r, f, data, u[n - 1], Nth(f, n))
    BY <1>5, <2>1
  <2>. QED
    BY <1>5, <2>2
<1>7. T = Body(T)
  BY <1>6
<1>8. Folds(r, f, data) = T
  BY DEF Folds, Nth, Words, start, N
<1>. HIDE DEF T
<1>9. T[0] = start /\ \A n \in 1 .. N : T[n] = Fold(r, f, data, T[n - 1], Nth(f, n))
  <2>1. 0 \in 0 .. N /\ \A n \in 1 .. N : n \in 0 .. N /\ n # 0
    BY <1>1
  <2>. QED
    BY <1>7, <2>1
<1>10. \A n \in 0 .. N : T[n] \in X
  <2>. DEFINE G == {n \in 0 .. N : T[n] \in X}
  <2>1. 0 \in G
    BY <1>1, <1>2, <1>9
  <2>2. ASSUME NEW n \in 1 .. N, n - 1 \in G
        PROVE  n \in G
    <3>1. T[n - 1] \in FoldStates(r, f, data) /\ Nth(f, n) \in Offsets(f)
      BY <1>1, <2>2 DEF X
    <3>2. Fold(r, f, data, T[n - 1], Nth(f, n)) \in FoldStates(r, f, data)
      BY <3>1, FoldKeepsState
    <3>. QED
      BY <1>1, <1>9, <3>2 DEF X
  <2>. HIDE DEF G
  <2>3. \A n \in 0 .. N : n \in G
    BY <1>1, <2>1, <2>2, StepsUp
  <2>. QED
    BY <2>3 DEF G
<1>. QED
  BY <1>8, <1>9, <1>10 DEF X, start, N

\* The registers holding pages before the nth word, and what is folded of it.
PagesTo(r, f, n) == Folds(r, f, Marks(r, f))[n - 1].pages
Item(r, f, n)    == Folded(r, f, Nth(f, n), Marks(r, f), PagesTo(r, f, n))
OwnKeys(r, f)    == Keys(r, f, Marks(r, f))

LEMMA PagesAre ==
  ASSUME NEW r, NEW f, Fits(r, f)
  PROVE  /\ PagesTo(r, f, 1) = {}
         /\ \A n \in 1 .. Words(f) :
              PagesTo(r, f, n + 1) =
                IF Nth(f, n) \in Marks(r, f) \/ IsPool(r, f, Nth(f, n)) THEN PagesTo(r, f, n)
                ELSE PagesAfter(At(r, Nth(f, n)), PagesTo(r, f, n))
<1>. DEFINE M == Marks(r, f)
            F == Folds(r, f, M)
            N == Words(f)
<1>1. N \in Nat
  BY PlaceOfWord
<1>2. F[0].pages = {} /\ \A n \in 1 .. N : F[n] = Fold(r, f, M, F[n - 1], Nth(f, n))
  <2>1. /\ F[0] = [ident |-> <<f.end - f.start>>, param |-> <<f.end - f.start>>, pages |-> {}]
        /\ \A n \in 1 .. N : F[n] = Fold(r, f, M, F[n - 1], Nth(f, n))
    BY FoldsSteps
  <2>. HIDE DEF F
  <2>. QED
    BY <2>1
<1>3. \A s, o : Fold(r, f, M, s, o).pages =
        IF o \in M \/ IsPool(r, f, o) THEN s.pages ELSE PagesAfter(At(r, o), s.pages)
  BY DEF Fold
<1>4. \A n \in 1 .. N : (n + 1) - 1 = n
  BY <1>1
<1>. HIDE DEF M, F, N
<1>. QED
  BY <1>2, <1>3, <1>4 DEF PagesTo, M, F, N

LEMMA KeysAre ==
  ASSUME NEW r, NEW f, Fits(r, f)
  PROVE  LET size == f.end - f.start
         IN  /\ Lists(OwnKeys(r, f).ident, Words(f), size, [n \in 1 .. Words(f) |-> Item(r, f, n).ident])
             /\ Lists(OwnKeys(r, f).param, Words(f), size, [n \in 1 .. Words(f) |-> Item(r, f, n).param])
<1>. DEFINE M == Marks(r, f)
            F == Folds(r, f, M)
            N == Words(f)
            size == f.end - f.start
            asIdent == [n \in 1 .. N |-> Item(r, f, n).ident]
            asParam == [n \in 1 .. N |-> Item(r, f, n).param]
            G == {n \in 0 .. N : Lists(F[n].ident, n, size, asIdent) /\ Lists(F[n].param, n, size, asParam)}
<1>1. N \in Nat /\ \A n \in 1 .. N : Nth(f, n) \in Offsets(f) /\ n - 1 \in 0 .. N
  <2>1. \A n \in 1 .. N : n - 1 \in 0 .. N
    BY PlaceOfWord
  <2>. QED
    BY <2>1, PlaceOfWord
<1>2. /\ F[0] = [ident |-> <<size>>, param |-> <<size>>, pages |-> {}]
      /\ \A n \in 0 .. N : F[n] \in FoldStates(r, f, M)
      /\ \A n \in 1 .. N : F[n] = Fold(r, f, M, F[n - 1], Nth(f, n))
  BY FoldsSteps
<1>3. OwnKeys(r, f) = F[N]
  BY DEF OwnKeys, Keys, Words
<1>4. \A n \in 1 .. N : Item(r, f, n) = Folded(r, f, Nth(f, n), M, F[n - 1].pages)
  BY DEF Item, PagesTo
<1>5. \A n \in 1 .. N : asIdent[n] = Item(r, f, n).ident /\ asParam[n] = Item(r, f, n).param
  OBVIOUS
<1>. HIDE DEF M, F, N, asIdent, asParam, size
<1>6. 0 \in G
  <2>1. F[0].ident = <<size>> /\ F[0].param = <<size>> /\ 0 \in 0 .. N
    BY <1>1, <1>2
  <2>2. Len(<<size>>) = 1 /\ <<size>>[1] = size
    OBVIOUS
  <2>. QED
    BY <2>1, <2>2 DEF Lists
<1>7. ASSUME NEW n \in 1 .. N, n - 1 \in G
      PROVE  n \in G
  <2>. DEFINE k == Item(r, f, n)
  <2>1. F[n - 1] \in FoldStates(r, f, M) /\ Nth(f, n) \in Offsets(f)
    BY <1>1, <1>2
  <2>2. k = Folded(r, f, Nth(f, n), M, F[n - 1].pages)
    BY <1>4
  <2>. HIDE DEF k
  <2>3. /\ F[n].ident = Append(F[n - 1].ident, k.ident) /\ F[n].param = Append(F[n - 1].param, k.param)
        /\ F[n - 1].ident \in Seq(Idents(r, f, M)) /\ k.ident \in Idents(r, f, M)
        /\ F[n - 1].param \in Seq(Params(r, f, M)) /\ k.param \in Params(r, f, M)
    <3>1. PICK c : c = F[n - 1]
      OBVIOUS
    <3>2. F[n] = Fold(r, f, M, c, Nth(f, n)) /\ c \in FoldStates(r, f, M)
      BY <1>2, <2>1, <3>1
    <3>. DEFINE h == Folded(r, f, Nth(f, n), M, c.pages)
    <3>3. k = h
      BY <2>2, <3>1
    <3>4. /\ Fold(r, f, M, c, Nth(f, n)).ident = Append(c.ident, h.ident)
          /\ Fold(r, f, M, c, Nth(f, n)).param = Append(c.param, h.param)
          /\ c.ident \in Seq(Idents(r, f, M)) /\ h.ident \in Idents(r, f, M)
          /\ c.param \in Seq(Params(r, f, M)) /\ h.param \in Params(r, f, M)
      <4>1. Nth(f, n) \in Offsets(f) /\ c \in FoldStates(r, f, M)
        BY <2>1, <3>2
      <4>. QED
        BY <4>1, FoldKeepsState
    <3>. HIDE DEF h
    <3>. QED
      BY <3>1, <3>2, <3>3, <3>4
  <2>4. k.ident = asIdent[n] /\ k.param = asParam[n]
    BY <1>5 DEF k
  <2>5. Lists(F[n - 1].ident, n - 1, size, asIdent) /\ Lists(F[n - 1].param, n - 1, size, asParam)
    BY <1>7
  <2>6. Lists(F[n].ident, n, size, asIdent)
    BY <1>1, <2>3, <2>4, <2>5, ListsMore
  <2>7. Lists(F[n].param, n, size, asParam)
    BY <1>1, <2>3, <2>4, <2>5, ListsMore
  <2>. QED
    BY <1>1, <2>6, <2>7
<1>. HIDE DEF G
<1>8. N \in G
  <2>1. \A n \in 0 .. N : n \in G
    BY <1>1, <1>6, <1>7, StepsUp
  <2>. QED
    BY <1>1, <2>1
<1>. QED
  BY <1>3, <1>8 DEF G, size, asIdent, asParam, N

\* Equal keys are of equal sizes and of equal items.
LEMMA KeysAgree ==
  ASSUME NEW r, NEW f, Fits(r, f), NEW q, NEW g, Fits(q, g)
  PROVE  /\ OwnKeys(r, f).ident = OwnKeys(q, g).ident =>
              /\ f.end - f.start = g.end - g.start /\ Words(f) = Words(g)
              /\ \A n \in 1 .. Words(f) : Item(r, f, n).ident = Item(q, g, n).ident
         /\ OwnKeys(r, f).param = OwnKeys(q, g).param =>
              /\ f.end - f.start = g.end - g.start /\ Words(f) = Words(g)
              /\ \A n \in 1 .. Words(f) : Item(r, f, n).param = Item(q, g, n).param
<1>1. ASSUME NEW s, NEW M, NEW N, NEW a, NEW b, NEW u, NEW v, M = N,
             Lists(s, M, a, u), Lists(s, N, b, v)
      PROVE  a = b /\ \A n \in 1 .. M : u[n] = v[n]
  BY <1>1 DEF Lists
<1>2. f.end - f.start = g.end - g.start => Words(f) = Words(g)
  BY DEF Words
<1>3. ASSUME OwnKeys(r, f).ident = OwnKeys(q, g).ident
      PROVE  /\ f.end - f.start = g.end - g.start /\ Words(f) = Words(g)
             /\ \A n \in 1 .. Words(f) : Item(r, f, n).ident = Item(q, g, n).ident
  <2>. DEFINE u == [n \in 1 .. Words(f) |-> Item(r, f, n).ident]
              v == [n \in 1 .. Words(g) |-> Item(q, g, n).ident]
  <2>1. /\ Lists(OwnKeys(r, f).ident, Words(f), f.end - f.start, u)
        /\ Lists(OwnKeys(r, f).ident, Words(g), g.end - g.start, v)
    BY <1>3, KeysAre
  <2>2. f.end - f.start = g.end - g.start
    BY <2>1 DEF Lists
  <2>3. \A n \in 1 .. Words(f) : u[n] = v[n]
    <3>. HIDE DEF u, v
    <3>. QED
      BY <1>1, <1>2, <2>1, <2>2
  <2>. QED
    BY <1>2, <2>2, <2>3
<1>4. ASSUME OwnKeys(r, f).param = OwnKeys(q, g).param
      PROVE  /\ f.end - f.start = g.end - g.start /\ Words(f) = Words(g)
             /\ \A n \in 1 .. Words(f) : Item(r, f, n).param = Item(q, g, n).param
  <2>. DEFINE u == [n \in 1 .. Words(f) |-> Item(r, f, n).param]
              v == [n \in 1 .. Words(g) |-> Item(q, g, n).param]
  <2>1. /\ Lists(OwnKeys(r, f).param, Words(f), f.end - f.start, u)
        /\ Lists(OwnKeys(r, f).param, Words(g), g.end - g.start, v)
    BY <1>4, KeysAre
  <2>2. f.end - f.start = g.end - g.start
    BY <2>1 DEF Lists
  <2>3. \A n \in 1 .. Words(f) : u[n] = v[n]
    <3>. HIDE DEF u, v
    <3>. QED
      BY <1>1, <1>2, <2>1, <2>2
  <2>. QED
    BY <1>2, <2>2, <2>3
<1>. QED
  BY <1>3, <1>4

-----------------------------------------------------------------------------
(* One word of each function.                                              *)

IsFar(r, f, o) == At(r, o).op = "adrp" \/ (IsRelative(r, f, o) /\ ~Inside(r, f, o))
Where(r, o)    == IF At(r, o).op = "adrp" THEN Page(r, o) ELSE r.base + Target(r, o)

LEMMA FoldedCases ==
  ASSUME NEW r, NEW f, NEW o, NEW data, NEW pages
  PROVE  LET w == At(r, o)
             k == Folded(r, f, o, data, pages)
         IN  \/ o \in data /\ k.ident = <<w>> /\ k.param = <<>>
             \/ /\ o \notin data /\ IsFar(r, f, o)
                /\ k.ident = <<Keep(w), Where(r, o)>> /\ k.param = <<Keep(w), External>>
             \/ /\ o \notin data /\ ~IsFar(r, f, o)
                /\ k.ident = <<w>> /\ k.param = <<Masked(w, pages)>>
<1>. DEFINE w == At(r, o)
            k == Folded(r, f, o, data, pages)
<1>1. CASE o \in data
  <2>1. k = [ident |-> <<w>>, param |-> <<>>]
    BY <1>1 DEF Folded
  <2>. QED
    BY <1>1, <2>1
<1>2. CASE o \notin data /\ w.op = "adrp"
  <2>1. ~IsRelative(r, f, o)
    BY <1>2 DEF IsRelative, IsLiteral, RelativeOps
  <2>2. k = [ident |-> <<Keep(w), Page(r, o)>>, param |-> <<Keep(w), External>>]
    BY <1>2, <2>1 DEF Folded
  <2>. QED
    BY <1>2, <2>2 DEF IsFar, Where
<1>3. CASE o \notin data /\ w.op # "adrp" /\ IsRelative(r, f, o) /\ ~Inside(r, f, o)
  <2>1. k = [ident |-> <<Keep(w), r.base + Target(r, o)>>, param |-> <<Keep(w), External>>]
    BY <1>3 DEF Folded
  <2>. QED
    BY <1>3, <2>1 DEF IsFar, Where
<1>4. CASE o \notin data /\ w.op # "adrp" /\ ~(IsRelative(r, f, o) /\ ~Inside(r, f, o))
  <2>1. k = [ident |-> <<w>>, param |-> <<Masked(w, pages)>>]
    BY <1>4 DEF Folded
  <2>. QED
    BY <1>4, <2>1 DEF IsFar
<1>. QED
  BY <1>1, <1>2, <1>3, <1>4

Registers(v, w) == v.op = w.op /\ v.rd = w.rd /\ v.rn = w.rn /\ v.rs = w.rs

LEMMA Masks ==
  ASSUME NEW w \in Opcodes, NEW pages
  PROVE  /\ Registers(Keep(w), w) /\ Registers(Masked(w, pages), w)
         /\ Masked(w, pages) = w \/ w.op \in MoveOps \/ (w.op \in PageOps /\ w.rn \in pages)
<1>1. w = [op |-> w.op, rd |-> w.rd, rn |-> w.rn, rs |-> w.rs, disp |-> w.disp, imm |-> w.imm]
  BY WordFields
<1>. DEFINE i == IF w.op \in {"adrp", "pool"} THEN 0 ELSE w.imm
<1>2. Keep(w) = [op |-> w.op, rd |-> w.rd, rn |-> w.rn, rs |-> w.rs, disp |-> 0, imm |-> i]
  <2>. DEFINE u == [w EXCEPT !.disp = 0]
  <2>1. Keep(w) = [u EXCEPT !.imm = i]
    BY DEF Keep
  <2>2. u = [op |-> w.op, rd |-> w.rd, rn |-> w.rn, rs |-> w.rs, disp |-> 0, imm |-> w.imm]
    BY <1>1
  <2>. HIDE DEF u, i
  <2>. QED
    BY <2>1, <2>2
<1>. HIDE DEF i
<1>3. \/ Masked(w, pages) = w
      \/ /\ Masked(w, pages) = [op |-> w.op, rd |-> w.rd, rn |-> w.rn, rs |-> w.rs, disp |-> w.disp, imm |-> 0]
         /\ w.op \in MoveOps \/ (w.op \in PageOps /\ w.rn \in pages)
  BY <1>1 DEF Masked
<1>. QED
  BY <1>2, <1>3 DEF Registers

\* Words folded alike into the identical key mean the same.
LEMMA MeansSame ==
  ASSUME NEW r, NEW f, Fits(r, f), NEW q, NEW g, Fits(q, g), NEW a \in Offsets(f), NEW b \in Offsets(g),
         NEW p1, NEW p2, Folded(r, f, a, Marks(r, f), p1).ident = Folded(q, g, b, Marks(q, g), p2).ident
  PROVE  SameMeaning(r, f, a, q, g, b)
<1>. DEFINE v == At(r, a)
            w == At(q, b)
            x == Folded(r, f, a, Marks(r, f), p1).ident
            y == Folded(q, g, b, Marks(q, g), p2).ident
<1>1. \/ (a \in Marks(r, f) \/ ~IsFar(r, f, a)) /\ x = <<v>>
      \/ a \notin Marks(r, f) /\ IsFar(r, f, a) /\ x = <<Keep(v), Where(r, a)>>
  BY FoldedCases
<1>2. \/ y = <<w>>
      \/ IsFar(q, g, b) /\ y = <<Keep(w), Where(q, b)>>
  BY FoldedCases
<1>3. x = y
  OBVIOUS
<1>4. Keep(v).op = v.op /\ Keep(w).op = w.op
  BY WordThere, Masks DEF Registers
<1>. HIDE DEF v, w, x, y
<1>5. CASE (a \in Marks(r, f) \/ ~IsFar(r, f, a)) /\ x = <<v>>
  <2>1. v = w
    BY <1>2, <1>3, <1>5
  <2>2. v.op = "adrp" => IsFar(r, f, a)
    BY DEF IsFar, v
  <2>3. IsRelative(r, f, a) /\ ~Inside(r, f, a) => IsFar(r, f, a)
    BY DEF IsFar
  <2>. QED
    BY <1>5, <2>1, <2>2, <2>3 DEF SameMeaning, v, w
<1>6. CASE a \notin Marks(r, f) /\ IsFar(r, f, a) /\ x = <<Keep(v), Where(r, a)>>
  <2>1. IsFar(q, g, b) /\ Keep(v) = Keep(w) /\ Where(r, a) = Where(q, b)
    BY <1>2, <1>3, <1>6
  <2>2. v.op = w.op
    BY <1>4, <2>1
  <2>3. v.op = "adrp" \/ (IsRelative(r, f, a) /\ ~Inside(r, f, a))
    BY <1>6 DEF IsFar, v
  <2>4. v.op = "adrp" => Page(r, a) = Page(q, b)
    BY <2>1, <2>2 DEF Where, v, w
  <2>5. v.op # "adrp" => r.base + Target(r, a) = q.base + Target(q, b)
    BY <2>1, <2>2 DEF Where, v, w
  <2>. QED
    BY <1>6, <2>1, <2>3, <2>4, <2>5 DEF SameMeaning, v, w
<1>. QED
  BY <1>1, <1>5, <1>6

-----------------------------------------------------------------------------
(* The registers that hold pages.                                          *)

LEMMA PagesHeld ==
  ASSUME NEW r, NEW f, Fits(r, f)
  PROVE  \A n \in 1 .. Words(f) : \A reg \in PagesTo(r, f, n) : HoldsPage(r, f, Nth(f, n), reg)
<1>. DEFINE N == Words(f)
            M == Marks(r, f)
            P(n) == PagesTo(r, f, n)
            Spares(q, reg) == /\ At(r, q).op \notin {"branch", "jump"} /\ reg # At(r, q).rd
                              /\ At(r, q).op = "access" => reg \notin {At(r, q).rn, At(r, q).rs}
            Set(p, reg, o) == /\ p < o /\ At(r, p).op = "adrp" /\ At(r, p).rd = reg
                              /\ \A q \in Offsets(f) \ M : p < q /\ q < o => Spares(q, reg)
            G == {n \in 0 .. N : /\ XZR \notin P(n + 1)
                                 /\ \A reg \in P(n + 1) : \E p \in Offsets(f) : Set(p, reg, Nth(f, n + 1))}
<1>1. /\ N \in Nat /\ f.start \in Nat
      /\ \A n \in 1 .. N : n \in Nat /\ Nth(f, n) \in Offsets(f)
      /\ \A o \in Offsets(f) : o \in Nat /\ \E n \in 1 .. N : o = Nth(f, n)
  BY PlaceOfWord
<1>2. /\ P(1) = {}
      /\ \A n \in 1 .. N : P(n + 1) = IF Nth(f, n) \in M \/ IsPool(r, f, Nth(f, n)) THEN P(n)
                                      ELSE PagesAfter(At(r, Nth(f, n)), P(n))
  BY PagesAre
<1>3. ASSUME NEW q \in Offsets(f), NEW n \in 1 .. N, q < Nth(f, n + 1)
      PROVE  q < Nth(f, n) \/ q = Nth(f, n)
  <2>1. PICK m \in 1 .. N : q = Nth(f, m)
    BY <1>1
  <2>2. m <= n
    BY <1>1, <1>3, <2>1 DEF Nth
  <2>. QED
    BY <1>1, <2>1, <2>2 DEF Nth
<1>4. \A n \in 1 .. N : Nth(f, n) < Nth(f, n + 1)
  BY <1>1 DEF Nth
<1>. HIDE DEF N, M, P, Spares
<1>5. 0 \in G
  <2>1. P(0 + 1) = {} /\ 0 \in 0 .. N
    BY <1>1, <1>2
  <2>. QED
    BY <2>1
<1>6. ASSUME NEW n \in 1 .. N, n - 1 \in G
      PROVE  n \in G
  <2>. DEFINE c == Nth(f, n)
              w == At(r, c)
              d == Nth(f, n + 1)
  <2>1. (n - 1) + 1 = n /\ n \in 0 .. N
    BY <1>1
  <2>2. XZR \notin P(n) /\ \A reg \in P(n) : \E p \in Offsets(f) : Set(p, reg, c)
    BY <1>6, <2>1
  <2>3. c \in Offsets(f) /\ c \in Nat /\ c < d /\ w \in Opcodes /\ d \in Int
    <3>1. c \in Offsets(f)
      BY <1>1
    <3>2. w \in Opcodes
      BY <3>1, WordThere
    <3>. QED
      BY <1>1, <1>4, <3>1, <3>2 DEF Nth
  <2>4. ASSUME NEW reg \in P(n), c \in M \/ Spares(c, reg)
        PROVE  \E p \in Offsets(f) : Set(p, reg, d)
    <3>1. PICK p \in Offsets(f) : Set(p, reg, c)
      BY <2>2
    <3>2. p < d
      BY <1>1, <2>3, <3>1
    <3>3. \A q \in Offsets(f) \ M : p < q /\ q < d => Spares(q, reg)
      BY <1>3, <2>4, <3>1
    <3>. QED
      BY <3>1, <3>2, <3>3
  <2>5. ASSUME w.op = "adrp", NEW reg, reg = w.rd
        PROVE  \E p \in Offsets(f) : Set(p, reg, d)
    <3>1. \A q \in Offsets(f) \ M : ~(c < q /\ q < d)
      <4>1. \A q \in Offsets(f) : q < d => q < c \/ q = c
        BY <1>3
      <4>. QED
        BY <1>1, <2>3, <4>1
    <3>2. Set(c, reg, d)
      BY <2>3, <2>5, <3>1
    <3>. QED
      BY <2>3, <3>2
  <2>. HIDE DEF c, w, d, Set
  <2>6. P(n + 1) = IF c \in M \/ IsPool(r, f, c) THEN P(n) ELSE PagesAfter(w, P(n))
    BY <1>2 DEF c, w
  <2>7. ASSUME NEW reg \in P(n + 1)
        PROVE  reg # XZR /\ \E p \in Offsets(f) : Set(p, reg, d)
    <3>1. CASE c \in M
      BY <2>2, <2>4, <2>6, <2>7, <3>1
    <3>2. CASE c \notin M /\ IsPool(r, f, c)
      <4>1. w.op = "pool" /\ w.rd = XZR
        BY <2>3, <3>2, WordFields DEF IsPool, w
      <4>2. reg \in P(n)
        BY <2>6, <2>7, <3>2
      <4>3. Spares(c, reg)
        BY <2>2, <4>1, <4>2 DEF Spares, w
      <4>. QED
        BY <2>2, <2>4, <4>2, <4>3
    <3>3. CASE c \notin M /\ ~IsPool(r, f, c)
      <4>1. reg \in PagesAfter(w, P(n))
        BY <2>6, <2>7, <3>3
      <4>2. w.op \notin {"branch", "jump"}
        BY <4>1 DEF PagesAfter
      <4>3. CASE w.op = "adrp" /\ reg = w.rd
        <5>1. reg # XZR
          <6>1. PagesAfter(w, P(n)) = P(n) \cup ({w.rd} \ {XZR})
            BY <4>3 DEF PagesAfter
          <6>. QED
            BY <2>2, <4>1, <6>1
        <5>. QED
          BY <2>5, <4>3, <5>1
      <4>4. CASE ~(w.op = "adrp" /\ reg = w.rd)
        <5>1. reg \in P(n) /\ reg # w.rd /\ (w.op = "access" => reg \notin {w.rn, w.rs})
          BY <4>1, <4>2, <4>4 DEF PagesAfter
        <5>2. Spares(c, reg)
          BY <4>2, <5>1 DEF Spares, w
        <5>. QED
          BY <2>2, <2>4, <5>1, <5>2
      <4>. QED
        BY <4>3, <4>4
    <3>. QED
      BY <3>1, <3>2, <3>3
  <2>. QED
    BY <2>1, <2>7 DEF d
<1>. HIDE DEF G
<1>7. \A n \in 0 .. N : n \in G
  BY <1>1, <1>5, <1>6, StepsUp
<1>8. ASSUME NEW n \in 1 .. N, NEW reg \in P(n)
      PROVE  HoldsPage(r, f, Nth(f, n), reg)
  <2>1. n - 1 \in G /\ (n - 1) + 1 = n
    BY <1>1, <1>7
  <2>2. PICK p \in Offsets(f) : Set(p, reg, Nth(f, n))
    BY <2>1 DEF G
  <2>. QED
    BY <2>2 DEF HoldsPage, Spares, M
<1>. QED
  BY <1>8 DEF N, P

-----------------------------------------------------------------------------
(* Words folded alike into the parametric key have the same shape.         *)

Alike(r, f, a, q, g, b, pages) ==
  \/ a \in Marks(r, f) /\ b \in Marks(q, g)
  \/ /\ a \notin Marks(r, f) /\ b \notin Marks(q, g) /\ Registers(At(r, a), At(q, b))
     /\ IsPool(r, f, a) <=> IsPool(q, g, b)
     /\ \/ /\ IsFar(r, f, a) /\ IsFar(q, g, b) /\ Keep(At(r, a)) = Keep(At(q, b))
        \/ /\ ~IsFar(r, f, a) /\ ~IsFar(q, g, b)
           /\ \/ At(r, a) = At(q, b) \/ At(r, a).op \in MoveOps
              \/ At(r, a).op \in PageOps /\ At(r, a).rn \in pages

Beside(f, a, g, b) == f.end - f.start = g.end - g.start /\ a - f.start = b - g.start

LEMMA PlacesBeside ==
  ASSUME NEW r, NEW f, Fits(r, f), NEW q, NEW g, Fits(q, g), NEW a \in Offsets(f), NEW b \in Offsets(g),
         Beside(f, a, g, b), NEW d \in Int
  PROVE  /\ a + 4 * d <= f.end <=> b + 4 * d <= g.end
         /\ a + 4 * d < f.end <=> b + 4 * d < g.end
         /\ a + 4 * d >= f.start <=> b + 4 * d >= g.start
<1>1. a \in Nat /\ b \in Nat /\ f.start \in Nat /\ g.start \in Nat /\ f.end \in Nat /\ g.end \in Nat
  BY PlaceOfWord
<1>2. b = a - f.start + g.start /\ g.end = f.end - f.start + g.start
  BY <1>1 DEF Beside
<1>. QED
  BY <1>1, <1>2

LEMMA PoolsBeside ==
  ASSUME NEW r, NEW f, Fits(r, f), NEW q, NEW g, Fits(q, g), NEW a \in Offsets(f), NEW b \in Offsets(g),
         Beside(f, a, g, b), At(r, a) = At(q, b)
  PROVE  /\ IsPool(r, f, a) <=> IsPool(q, g, b)
         /\ IsRelative(r, f, a) <=> IsRelative(q, g, b)
         /\ Inside(r, f, a) <=> Inside(q, g, b)
<1>1. At(r, a).imm + 1 \in Int /\ At(r, a).disp \in Int
  BY WordThere, WordFields
<1>2. IsPool(r, f, a) <=> IsPool(q, g, b)
  <2>1. PoolEnd(r, f, a) <= f.end <=> PoolEnd(q, g, b) <= g.end
    BY <1>1, PlacesBeside DEF PoolEnd
  <2>. QED
    BY <2>1 DEF IsPool
<1>3. Inside(r, f, a) <=> Inside(q, g, b)
  BY <1>1, PlacesBeside DEF Inside, Target
<1>. QED
  BY <1>2, <1>3 DEF IsRelative, IsLiteral

LEMMA FoldedAlike ==
  ASSUME NEW r, NEW f, Fits(r, f), NEW q, NEW g, Fits(q, g), NEW a \in Offsets(f), NEW b \in Offsets(g),
         Beside(f, a, g, b), NEW pages,
         Folded(r, f, a, Marks(r, f), pages).param = Folded(q, g, b, Marks(q, g), pages).param
  PROVE  Alike(r, f, a, q, g, b, pages)
<1>. DEFINE v == At(r, a)
            w == At(q, b)
            x == Folded(r, f, a, Marks(r, f), pages).param
            y == Folded(q, g, b, Marks(q, g), pages).param
<1>1. \/ a \in Marks(r, f) /\ x = <<>>
      \/ a \notin Marks(r, f) /\ IsFar(r, f, a) /\ x = <<Keep(v), External>>
      \/ a \notin Marks(r, f) /\ ~IsFar(r, f, a) /\ x = <<Masked(v, pages)>>
  BY FoldedCases
<1>2. \/ b \in Marks(q, g) /\ y = <<>>
      \/ b \notin Marks(q, g) /\ IsFar(q, g, b) /\ y = <<Keep(w), External>>
      \/ b \notin Marks(q, g) /\ ~IsFar(q, g, b) /\ y = <<Masked(w, pages)>>
  BY FoldedCases
<1>3. x = y
  OBVIOUS
<1>4. v \in Opcodes /\ w \in Opcodes
  BY WordThere
<1>5. /\ Registers(Keep(v), v) /\ Registers(Keep(w), w)
      /\ Registers(Masked(v, pages), v) /\ Registers(Masked(w, pages), w)
      /\ Masked(v, pages) = v \/ v.op \in MoveOps \/ (v.op \in PageOps /\ v.rn \in pages)
      /\ Masked(w, pages) = w \/ w.op \in MoveOps \/ (w.op \in PageOps /\ w.rn \in pages)
  BY <1>4, Masks
<1>6. ASSUME IsPool(r, f, a) \/ IsPool(q, g, b), Registers(v, w)
      PROVE  v.op = "pool" /\ w.op = "pool" /\ w.op \notin MoveOps /\ w.op \notin PageOps
  <2>1. v.op = "pool" /\ w.op = "pool"
    BY <1>6 DEF IsPool, Registers
  <2>. HIDE DEF v, w
  <2>. QED
    BY <2>1 DEF MoveOps, PageOps
<1>. HIDE DEF v, w, x, y
<1>7. CASE a \in Marks(r, f) /\ b \in Marks(q, g)
  BY <1>7 DEF Alike
<1>8. CASE /\ a \notin Marks(r, f) /\ b \notin Marks(q, g) /\ IsFar(r, f, a) /\ IsFar(q, g, b)
           /\ Keep(v) = Keep(w)
  <2>1. Registers(v, w)
    BY <1>5, <1>8 DEF Registers
  <2>2. ASSUME NEW s, NEW h, NEW o, IsPool(s, h, o)
        PROVE  ~IsFar(s, h, o)
    BY <2>2 DEF IsPool, IsFar, IsRelative, IsLiteral, RelativeOps
  <2>3. ~IsPool(r, f, a) /\ ~IsPool(q, g, b)
    BY <1>8, <2>2
  <2>. QED
    BY <1>8, <2>1, <2>3 DEF Alike, v, w
<1>9. CASE /\ a \notin Marks(r, f) /\ b \notin Marks(q, g) /\ ~IsFar(r, f, a) /\ ~IsFar(q, g, b)
           /\ Masked(v, pages) = Masked(w, pages)
  <2>1. Registers(v, w)
    BY <1>5, <1>9 DEF Registers
  <2>2. v = w \/ v.op \in MoveOps \/ (v.op \in PageOps /\ v.rn \in pages)
    BY <1>5, <1>9, <2>1 DEF Registers
  <2>3. v = w => (IsPool(r, f, a) <=> IsPool(q, g, b))
    BY PoolsBeside DEF v, w
  <2>4. IsPool(r, f, a) <=> IsPool(q, g, b)
    BY <1>6, <2>1, <2>2, <2>3 DEF Registers
  <2>. QED
    BY <1>9, <2>1, <2>2, <2>4 DEF Alike, v, w
<1>10. \/ a \in Marks(r, f) /\ b \in Marks(q, g)
       \/ /\ a \notin Marks(r, f) /\ b \notin Marks(q, g) /\ IsFar(r, f, a) /\ IsFar(q, g, b)
          /\ Keep(v) = Keep(w)
       \/ /\ a \notin Marks(r, f) /\ b \notin Marks(q, g) /\ ~IsFar(r, f, a) /\ ~IsFar(q, g, b)
          /\ Masked(v, pages) = Masked(w, pages)
  BY <1>1, <1>2, <1>3
<1>. QED
  BY <1>7, <1>8, <1>9, <1>10

LEMMA ShapesSame ==
  ASSUME NEW r, NEW f, Fits(r, f), NEW q, NEW g, Fits(q, g), NEW a \in Offsets(f), NEW b \in Offsets(g),
         Beside(f, a, g, b), NEW pages, Alike(r, f, a, q, g, b, pages),
         \A reg \in pages : HoldsPage(r, f, a, reg) /\ HoldsPage(q, g, b, reg)
  PROVE  SameShape(r, f, a, q, g, b)
<1>. DEFINE v == At(r, a)
            w == At(q, b)
<1>1. /\ v.op \in MoveOps \cup {"adrp"} => v.op \notin PageOps /\ ~IsRelative(r, f, a)
      /\ v.op \in PageOps => ~IsRelative(r, f, a)
  <2>1. v.op = "pool" \/ v.op \in RelativeOps \/ ~IsRelative(r, f, a)
    BY DEF IsRelative, IsLiteral, RelativeOps
  <2>. HIDE DEF v
  <2>. QED
    BY <2>1 DEF RelativeOps, MoveOps, PageOps
<1>2. Inside(r, f, a) \in BOOLEAN /\ Inside(q, g, b) \in BOOLEAN
  BY DEF Inside
<1>3. CASE a \in Marks(r, f) /\ b \in Marks(q, g)
  BY <1>3 DEF SameShape
<1>4. CASE /\ a \notin Marks(r, f) /\ b \notin Marks(q, g) /\ Registers(v, w)
           /\ IsFar(r, f, a) /\ IsFar(q, g, b) /\ Keep(v) = Keep(w)
  <2>1. v.op = w.op
    BY <1>4 DEF Registers
  <2>2. v.op = "adrp" \/ (/\ IsRelative(r, f, a) /\ ~Inside(r, f, a) /\ IsRelative(q, g, b) /\ ~Inside(q, g, b))
    BY <1>4, <2>1 DEF IsFar
  <2>3. CASE v.op = "adrp"
    BY <1>1, <1>4, <2>3 DEF SameShape, Registers
  <2>4. CASE v.op # "adrp"
    <3>1. ~Inside(r, f, a) /\ ~Inside(q, g, b) /\ IsRelative(r, f, a) /\ IsRelative(q, g, b)
      BY <2>2, <2>4
    <3>2. Inside(r, f, a) = Inside(q, g, b)
      BY <1>2, <3>1
    <3>. QED
      BY <1>1, <1>4, <3>1, <3>2 DEF SameShape, Registers
  <2>. QED
    BY <2>3, <2>4
<1>5. CASE /\ a \notin Marks(r, f) /\ b \notin Marks(q, g) /\ Registers(v, w)
           /\ ~IsFar(r, f, a) /\ ~IsFar(q, g, b)
           /\ v = w \/ v.op \in MoveOps \/ (v.op \in PageOps /\ v.rn \in pages)
  <2>1. CASE v.op \in MoveOps
    BY <1>1, <1>5, <2>1 DEF SameShape, Registers
  <2>2. CASE v.op \in PageOps /\ v.rn \in pages
    <3>1. HoldsPage(r, f, a, v.rn) /\ HoldsPage(q, g, b, w.rn)
      BY <1>5, <2>2 DEF Registers
    <3>. QED
      BY <1>1, <1>5, <2>2, <3>1 DEF SameShape, Registers
  <2>3. CASE v = w
    <3>1. IsRelative(r, f, a) => IsRelative(q, g, b) /\ Inside(r, f, a) = Inside(q, g, b)
      <4>1. /\ IsRelative(r, f, a) <=> IsRelative(q, g, b)
            /\ Inside(r, f, a) <=> Inside(q, g, b)
        BY <2>3, PoolsBeside
      <4>. QED
        BY <1>2, <4>1
    <3>. HIDE DEF v, w
    <3>. QED
      BY <1>5, <2>3, <3>1 DEF SameShape, v, w
  <2>. QED
    BY <1>5, <2>1, <2>2, <2>3
<1>. QED
  BY <1>3, <1>4, <1>5 DEF Alike

-----------------------------------------------------------------------------
(* Functions of equal keys.                                                *)

LEMMA WordsBeside ==
  ASSUME NEW r, NEW f, Fits(r, f), NEW q, NEW g, Fits(q, g),
         f.end - f.start = g.end - g.start, NEW n \in 1 .. Words(f)
  PROVE  /\ Words(f) = Words(g) /\ Nth(f, n) \in Offsets(f) /\ Nth(g, n) \in Offsets(g)
         /\ Nth(f, n) - f.start + g.start = Nth(g, n)
         /\ Beside(f, Nth(f, n), g, Nth(g, n))
<1>1. Words(f) = Words(g)
  BY DEF Words
<1>2. f.start \in Nat /\ g.start \in Nat /\ Nth(f, n) \in Offsets(f) /\ Nth(g, n) \in Offsets(g)
  BY <1>1, PlaceOfWord
<1>3. n \in Nat
  BY PlaceOfWord
<1>4. Nth(f, n) - f.start = 4 * (n - 1) /\ Nth(g, n) - g.start = 4 * (n - 1)
  BY <1>2, <1>3 DEF Nth
<1>. QED
  BY <1>1, <1>2, <1>3, <1>4 DEF Beside, Nth

LEMMA IdenticalCopies ==
  ASSUME NEW r, NEW f, Fits(r, f), NEW q, NEW g, Fits(q, g),
         OwnKeys(r, f).ident = OwnKeys(q, g).ident
  PROVE  Copies(SameMeaning, r, f, q, g)
<1>1. f.end - f.start = g.end - g.start /\ \A n \in 1 .. Words(f) : Item(r, f, n).ident = Item(q, g, n).ident
  BY KeysAgree
<1>2. ASSUME NEW o \in Offsets(f)
      PROVE  SameMeaning(r, f, o, q, g, o - f.start + g.start)
  <2>1. PICK n \in 1 .. Words(f) : o = Nth(f, n)
    BY PlaceOfWord
  <2>2. /\ Nth(f, n) \in Offsets(f) /\ Nth(g, n) \in Offsets(g)
        /\ o - f.start + g.start = Nth(g, n)
    BY <1>1, <2>1, WordsBeside
  <2>3. SameMeaning(r, f, Nth(f, n), q, g, Nth(g, n))
    BY <1>1, <2>2, MeansSame DEF Item
  <2>. QED
    BY <2>1, <2>2, <2>3
<1>. QED
  BY <1>1, <1>2 DEF Copies

\* A word leaves the same registers with pages as one alike.
LEMMA PagesAlike ==
  ASSUME NEW r, NEW f, Fits(r, f), NEW q, NEW g, Fits(q, g), NEW n \in 1 .. Words(f), Words(f) = Words(g),
         PagesTo(r, f, n) = PagesTo(q, g, n),
         Alike(r, f, Nth(f, n), q, g, Nth(g, n), PagesTo(r, f, n))
  PROVE  PagesTo(r, f, n + 1) = PagesTo(q, g, n + 1)
<1>. DEFINE a == Nth(f, n)
            b == Nth(g, n)
            P == PagesTo(r, f, n)
<1>1. /\ PagesTo(r, f, n + 1) = IF a \in Marks(r, f) \/ IsPool(r, f, a) THEN P ELSE PagesAfter(At(r, a), P)
      /\ PagesTo(q, g, n + 1) = IF b \in Marks(q, g) \/ IsPool(q, g, b) THEN P ELSE PagesAfter(At(q, b), P)
  BY PagesAre
<1>2. Registers(At(r, a), At(q, b)) => PagesAfter(At(r, a), P) = PagesAfter(At(q, b), P)
  BY DEF Registers, PagesAfter
<1>3. Alike(r, f, a, q, g, b, P)
  OBVIOUS
<1>. HIDE DEF a, b, P
<1>. QED
  BY <1>1, <1>2, <1>3 DEF Alike

LEMMA ParametricCopies ==
  ASSUME NEW r, NEW f, Fits(r, f), NEW q, NEW g, Fits(q, g),
         OwnKeys(r, f).param = OwnKeys(q, g).param
  PROVE  Copies(SameShape, r, f, q, g)
<1>. DEFINE N == Words(f)
            G == {n \in 0 .. N : PagesTo(r, f, n + 1) = PagesTo(q, g, n + 1)}
<1>1. /\ f.end - f.start = g.end - g.start /\ Words(g) = N /\ N \in Nat
      /\ \A n \in 1 .. N : Item(r, f, n).param = Item(q, g, n).param
  BY KeysAgree, PlaceOfWord
<1>2. ASSUME NEW n \in 1 .. N, PagesTo(r, f, n) = PagesTo(q, g, n)
      PROVE  Alike(r, f, Nth(f, n), q, g, Nth(g, n), PagesTo(r, f, n))
  <2>1. Nth(f, n) \in Offsets(f) /\ Nth(g, n) \in Offsets(g) /\ Beside(f, Nth(f, n), g, Nth(g, n))
    BY <1>1, WordsBeside
  <2>2. Folded(r, f, Nth(f, n), Marks(r, f), PagesTo(r, f, n)).param
          = Folded(q, g, Nth(g, n), Marks(q, g), PagesTo(r, f, n)).param
    BY <1>1, <1>2 DEF Item
  <2>. QED
    BY <2>1, <2>2, FoldedAlike
<1>3. 0 \in G
  <2>1. PagesTo(r, f, 0 + 1) = PagesTo(q, g, 0 + 1)
    BY PagesAre
  <2>. QED
    BY <1>1, <2>1
<1>4. ASSUME NEW n \in 1 .. N, n - 1 \in G
      PROVE  n \in G
  <2>1. n \in 0 .. N /\ (n - 1) + 1 = n
    BY <1>1
  <2>2. PagesTo(r, f, n) = PagesTo(q, g, n)
    BY <1>4, <2>1
  <2>3. PagesTo(r, f, n + 1) = PagesTo(q, g, n + 1)
    BY <1>1, <1>2, <2>2, PagesAlike
  <2>. QED
    BY <2>1, <2>3
<1>. HIDE DEF G
<1>5. \A n \in 0 .. N : n \in G
  BY <1>1, <1>3, <1>4, StepsUp
<1>6. ASSUME NEW o \in Offsets(f)
      PROVE  SameShape(r, f, o, q, g, o - f.start + g.start)
  <2>1. PICK n \in 1 .. N : o = Nth(f, n)
    BY PlaceOfWord
  <2>2. n - 1 \in 0 .. N /\ (n - 1) + 1 = n
    BY <1>1
  <2>3. PagesTo(r, f, n) = PagesTo(q, g, n)
    BY <1>5, <2>2 DEF G
  <2>4. /\ Nth(f, n) \in Offsets(f) /\ Nth(g, n) \in Offsets(g)
        /\ o - f.start + g.start = Nth(g, n) /\ Beside(f, Nth(f, n), g, Nth(g, n))
    BY <1>1, <2>1, WordsBeside
  <2>5. \A reg \in PagesTo(r, f, n) : HoldsPage(r, f, Nth(f, n), reg) /\ HoldsPage(q, g, Nth(g, n), reg)
    <3>1. \A reg \in PagesTo(r, f, n) : HoldsPage(r, f, Nth(f, n), reg)
      BY PagesHeld
    <3>2. \A reg \in PagesTo(q, g, n) : HoldsPage(q, g, Nth(g, n), reg)
      BY <1>1, PagesHeld
    <3>. QED
      BY <2>3, <3>1, <3>2
  <2>6. SameShape(r, f, Nth(f, n), q, g, Nth(g, n))
    BY <1>2, <2>3, <2>4, <2>5, ShapesSame
  <2>. QED
    BY <2>1, <2>4, <2>6
<1>. QED
  BY <1>1, <1>6 DEF Copies

-----------------------------------------------------------------------------
(* Identical keys are parametric copies.                                   *)

Matched(r, f, a, q, g, b) ==
  \/ At(r, a) = At(q, b)
  \/ IsFar(r, f, a) /\ IsFar(q, g, b) /\ Keep(At(r, a)) = Keep(At(q, b))

LEMMA IdentsMatch ==
  ASSUME NEW r, NEW f, NEW q, NEW g, NEW a, NEW b, NEW p1, NEW p2,
         Folded(r, f, a, Marks(r, f), p1).ident = Folded(q, g, b, Marks(q, g), p2).ident
  PROVE  Matched(r, f, a, q, g, b)
<1>. DEFINE v == At(r, a)
            w == At(q, b)
            x == Folded(r, f, a, Marks(r, f), p1).ident
            y == Folded(q, g, b, Marks(q, g), p2).ident
<1>1. x = <<v>> \/ (IsFar(r, f, a) /\ x = <<Keep(v), Where(r, a)>>)
  BY FoldedCases
<1>2. y = <<w>> \/ (IsFar(q, g, b) /\ y = <<Keep(w), Where(q, b)>>)
  BY FoldedCases
<1>3. x = y
  OBVIOUS
<1>. HIDE DEF v, w, x, y
<1>4. v = w \/ (IsFar(r, f, a) /\ IsFar(q, g, b) /\ Keep(v) = Keep(w))
  BY <1>1, <1>2, <1>3
<1>. QED
  BY <1>4 DEF Matched, v, w

\* A word whose target is outside marks nothing.
LEMMA FarMarksNothing ==
  ASSUME NEW r, NEW f, Fits(r, f), NEW o \in Offsets(f), IsFar(r, f, o), NEW s \in MarkStates(f)
  PROVE  Mark(r, f, s, o) = s
<1>. DEFINE data == {p \in Offsets(f) : IF IsPool(r, f, o) THEN o < p /\ p < PoolEnd(r, f, o)
                                        ELSE Target(r, o) <= p /\ p < ReadEnd(r, o)}
<1>1. s = [skip |-> s.skip, data |-> s.data]
  BY DEF MarkStates
<1>2. ~IsPool(r, f, o)
  BY DEF IsPool, IsFar, IsRelative, IsLiteral, RelativeOps
<1>3. IsLiteral(r, f, o) => ~Inside(r, f, o)
  BY DEF IsLiteral, IsFar
<1>4. ASSUME ~Inside(r, f, o), Target(r, o) >= f.start
      PROVE  data = {}
  <2>1. Target(r, o) \in Int /\ f.end \in Nat /\ f.start \in Nat
    BY Displacements, PlaceOfWord
  <2>2. Target(r, o) >= f.end
    BY <1>4, <2>1 DEF Inside
  <2>3. \A p \in Offsets(f) : p \in Nat /\ p < f.end
    <3>1. \A p \in Offsets(f) : p \in Nat /\ p + 4 <= f.end
      BY PlaceOfWord
    <3>. QED
      BY <2>1, <3>1
  <2>. QED
    BY <1>2, <2>1, <2>2, <2>3
<1>5. Mark(r, f, s, o) = s \/ (/\ IsLiteral(r, f, o) /\ Target(r, o) >= f.start
                               /\ Mark(r, f, s, o) = [skip |-> s.skip, data |-> s.data \cup data])
  BY <1>2 DEF Mark
<1>. HIDE DEF data
<1>. QED
  BY <1>1, <1>3, <1>4, <1>5

LEMMA TargetsBeside ==
  ASSUME NEW r, NEW f, Fits(r, f), NEW q, NEW g, Fits(q, g), NEW a \in Offsets(f), NEW b \in Offsets(g),
         At(r, a) = At(q, b)
  PROVE  \E d, k, p \in Int :
           /\ Target(r, a) = a + 4 * d /\ ReadEnd(r, a) = a + 4 * k /\ PoolEnd(r, f, a) = a + 4 * p
           /\ Target(q, b) = b + 4 * d /\ ReadEnd(q, b) = b + 4 * k /\ PoolEnd(q, g, b) = b + 4 * p
<1>. DEFINE w == At(r, a)
            n == IF w.op = "pool" THEN 2 ELSE w.imm
<1>1. a \in Nat /\ b \in Nat /\ w.disp \in Int /\ w.imm \in Int /\ n \in Int
  BY PlaceOfWord, WordThere, WordFields
<1>2. Target(r, a) = a + 4 * w.disp /\ Target(q, b) = b + 4 * w.disp
  BY DEF Target
<1>3. ReadEnd(r, a) = a + 4 * (w.disp + n) /\ ReadEnd(q, b) = b + 4 * (w.disp + n)
  <2>1. ReadEnd(r, a) = Target(r, a) + 4 * n /\ ReadEnd(q, b) = Target(q, b) + 4 * n
    BY DEF ReadEnd
  <2>. HIDE DEF n, w
  <2>. QED
    BY <1>1, <1>2, <2>1
<1>4. PoolEnd(r, f, a) = a + 4 * (w.imm + 1) /\ PoolEnd(q, g, b) = b + 4 * (w.imm + 1)
  BY DEF PoolEnd
<1>. HIDE DEF n
<1>5. w.disp + n \in Int /\ w.imm + 1 \in Int
  BY <1>1
<1>. QED
  BY <1>1, <1>2, <1>3, <1>4, <1>5

\* The marks of two functions, word by word.
Shifted(s, f, t, g) ==
  \A n \in 1 .. Words(f) : /\ Nth(f, n) < s.skip <=> Nth(g, n) < t.skip
                           /\ Nth(f, n) \in s.data <=> Nth(g, n) \in t.data

LEMMA MarksShift ==
  ASSUME NEW r, NEW f, Fits(r, f), NEW q, NEW g, Fits(q, g), f.end - f.start = g.end - g.start,
         NEW n \in 1 .. Words(f), Matched(r, f, Nth(f, n), q, g, Nth(g, n)),
         NEW s \in MarkStates(f), NEW t \in MarkStates(g), Shifted(s, f, t, g)
  PROVE  Shifted(Mark(r, f, s, Nth(f, n)), f, Mark(q, g, t, Nth(g, n)), g)
<1>. DEFINE a == Nth(f, n)
            b == Nth(g, n)
            N == Words(f)
            D(x, h, o) == {p \in Offsets(h) : IF IsPool(x, h, o) THEN o < p /\ p < PoolEnd(x, h, o)
                                              ELSE Target(x, o) <= p /\ p < ReadEnd(x, o)}
<1>1. /\ Words(g) = N /\ N \in Nat /\ a \in Offsets(f) /\ b \in Offsets(g) /\ Beside(f, a, g, b)
      /\ f.start \in Nat /\ g.start \in Nat
  BY WordsBeside, PlaceOfWord
<1>2. CASE IsFar(r, f, a) /\ IsFar(q, g, b)
  <2>1. Mark(r, f, s, a) = s /\ Mark(q, g, t, b) = t
    BY <1>1, <1>2, FarMarksNothing
  <2>. QED
    BY <2>1
<1>3. CASE At(r, a) = At(q, b)
  <2>1. /\ IsPool(r, f, a) <=> IsPool(q, g, b)
        /\ IsLiteral(r, f, a) <=> IsLiteral(q, g, b)
    BY <1>1, <1>3, PoolsBeside DEF IsLiteral
  <2>2. PICK d, k, p \in Int :
           /\ Target(r, a) = a + 4 * d /\ ReadEnd(r, a) = a + 4 * k /\ PoolEnd(r, f, a) = a + 4 * p
           /\ Target(q, b) = b + 4 * d /\ ReadEnd(q, b) = b + 4 * k /\ PoolEnd(q, g, b) = b + 4 * p
    BY <1>1, <1>3, TargetsBeside
  <2>3. /\ Target(r, a) >= f.start <=> Target(q, b) >= g.start
        /\ ReadEnd(r, a) <= f.end <=> ReadEnd(q, b) <= g.end
    BY <1>1, <2>2, PlacesBeside
  <2>4. a < s.skip <=> b < t.skip
    BY DEF Shifted
  <2>5. \A m \in 1 .. N : \A c \in Int : /\ Nth(f, m) \in Nat /\ Nth(g, m) \in Nat
                                         /\ Nth(f, m) < a + 4 * c <=> Nth(g, m) < b + 4 * c
                                         /\ a + 4 * c <= Nth(f, m) <=> b + 4 * c <= Nth(g, m)
                                         /\ a < Nth(f, m) <=> b < Nth(g, m)
    <3>1. \A m \in 1 .. N : Nth(f, m) = f.start + 4 * (m - 1) /\ Nth(g, m) = g.start + 4 * (m - 1)
      BY DEF Nth
    <3>2. a = f.start + 4 * (n - 1) /\ b = g.start + 4 * (n - 1)
      BY DEF Nth
    <3>. HIDE DEF a, b, N
    <3>. QED
      BY <1>1, <3>1, <3>2
  <2>6. \A m \in 1 .. N : Nth(f, m) \in Offsets(f) /\ Nth(g, m) \in Offsets(g)
    BY <1>1, PlaceOfWord
  <2>7. \A m \in 1 .. N : Nth(f, m) \in D(r, f, a) <=> Nth(g, m) \in D(q, g, b)
    <3>. HIDE DEF a, b, N
    <3>1. ASSUME NEW m \in 1 .. N
          PROVE  Nth(f, m) \in D(r, f, a) <=> Nth(g, m) \in D(q, g, b)
      <4>1. Nth(f, m) < PoolEnd(r, f, a) <=> Nth(g, m) < PoolEnd(q, g, b)
        BY <2>2, <2>5
      <4>2. Nth(f, m) < ReadEnd(r, a) <=> Nth(g, m) < ReadEnd(q, b)
        BY <2>2, <2>5
      <4>3. Target(r, a) <= Nth(f, m) <=> Target(q, b) <= Nth(g, m)
        BY <2>2, <2>5
      <4>4. a < Nth(f, m) <=> b < Nth(g, m)
        BY <2>5
      <4>. QED
        BY <2>1, <2>6, <4>1, <4>2, <4>3, <4>4
    <3>. QED
      BY <3>1
  <2>8. ASSUME NEW x, NEW h, NEW u, NEW o
        PROVE  Mark(x, h, u, o) =
                 IF o < u.skip THEN u
                 ELSE IF IsPool(x, h, o) THEN [skip |-> PoolEnd(x, h, o), data |-> u.data \cup D(x, h, o)]
                 ELSE IF IsLiteral(x, h, o) /\ Target(x, o) >= h.start /\ ReadEnd(x, o) <= h.end
                   THEN [skip |-> u.skip, data |-> u.data \cup D(x, h, o)]
                 ELSE u
    BY DEF Mark
  <2>. DEFINE S == Mark(r, f, s, a)
              T == Mark(q, g, t, b)
  <2>9. \/ S = s /\ T = t
        \/ /\ S = [skip |-> PoolEnd(r, f, a), data |-> s.data \cup D(r, f, a)]
           /\ T = [skip |-> PoolEnd(q, g, b), data |-> t.data \cup D(q, g, b)]
        \/ /\ S = [skip |-> s.skip, data |-> s.data \cup D(r, f, a)]
           /\ T = [skip |-> t.skip, data |-> t.data \cup D(q, g, b)]
    <3>. HIDE DEF D, a, b
    <3>. QED
      BY <2>1, <2>3, <2>4, <2>8
  <2>10. \A m \in 1 .. N : Nth(f, m) < PoolEnd(r, f, a) <=> Nth(g, m) < PoolEnd(q, g, b)
    <3>. HIDE DEF a, b, N
    <3>. QED
      BY <2>2, <2>5
  <2>. HIDE DEF D, S, T, a, b
  <2>. QED
    BY <2>7, <2>9, <2>10 DEF Shifted, S, T, a, b
<1>. HIDE DEF D
<1>. QED
  BY <1>2, <1>3 DEF Matched

LEMMA MarksMatch ==
  ASSUME NEW r, NEW f, Fits(r, f), NEW q, NEW g, Fits(q, g), f.end - f.start = g.end - g.start,
         \A n \in 1 .. Words(f) : Matched(r, f, Nth(f, n), q, g, Nth(g, n))
  PROVE  \A n \in 1 .. Words(f) : Nth(f, n) \in Marks(r, f) <=> Nth(g, n) \in Marks(q, g)
<1>. DEFINE N == Words(f)
            S == Marked(r, f)
            T == Marked(q, g)
            G == {n \in 0 .. N : Shifted(S[n], f, T[n], g)}
<1>1. Words(g) = N /\ N \in Nat
  BY PlaceOfWord DEF Words
<1>2. /\ S[0] = [skip |-> 0, data |-> {}] /\ T[0] = [skip |-> 0, data |-> {}]
      /\ \A n \in 0 .. N : S[n] \in MarkStates(f) /\ T[n] \in MarkStates(g)
      /\ \A n \in 1 .. N : S[n] = Mark(r, f, S[n - 1], Nth(f, n)) /\ T[n] = Mark(q, g, T[n - 1], Nth(g, n))
  BY <1>1, MarkedSteps
<1>3. Marks(r, f) = S[N].data /\ Marks(q, g) = T[N].data
  BY <1>1, MarksGrow
<1>. HIDE DEF S, T, N
<1>4. 0 \in G
  <2>1. \A n \in 1 .. N : Nth(f, n) \in Nat /\ Nth(g, n) \in Nat
    BY <1>1, PlaceOfWord DEF N
  <2>. QED
    BY <1>1, <1>2, <2>1 DEF Shifted, N
<1>5. ASSUME NEW n \in 1 .. N, n - 1 \in G
      PROVE  n \in G
  <2>1. n - 1 \in 0 .. N /\ n \in 0 .. N
    BY <1>1
  <2>2. Shifted(Mark(r, f, S[n - 1], Nth(f, n)), f, Mark(q, g, T[n - 1], Nth(g, n)), g)
    BY <1>2, <1>5, <2>1, MarksShift DEF N
  <2>. QED
    BY <1>2, <2>1, <2>2
<1>. HIDE DEF G
<1>6. N \in G
  BY <1>1, <1>4, <1>5, StepsUp
<1>. QED
  BY <1>3, <1>6 DEF G, N, Shifted

\* Matched words, both marked or neither, fold alike into the parametric key
\* and leave the same registers with pages.
LEMMA ParamsMatch ==
  ASSUME NEW r, NEW f, Fits(r, f), NEW q, NEW g, Fits(q, g), NEW n \in 1 .. Words(f),
         f.end - f.start = g.end - g.start, Matched(r, f, Nth(f, n), q, g, Nth(g, n)),
         Nth(f, n) \in Marks(r, f) <=> Nth(g, n) \in Marks(q, g),
         PagesTo(r, f, n) = PagesTo(q, g, n)
  PROVE  Item(r, f, n).param = Item(q, g, n).param /\ PagesTo(r, f, n + 1) = PagesTo(q, g, n + 1)
<1>. DEFINE a == Nth(f, n)
            b == Nth(g, n)
            v == At(r, a)
            w == At(q, b)
            P == PagesTo(r, f, n)
<1>1. Words(f) = Words(g) /\ a \in Offsets(f) /\ b \in Offsets(g) /\ Beside(f, a, g, b)
  BY WordsBeside
<1>2. CASE v = w
  <2>1. IsPool(r, f, a) <=> IsPool(q, g, b)
    BY <1>1, <1>2, PoolsBeside
  <2>2. IsFar(r, f, a) <=> IsFar(q, g, b)
    BY <1>1, <1>2, PoolsBeside DEF IsFar
  <2>3. Item(r, f, n).param = Item(q, g, n).param
    <3>1. \/ a \in Marks(r, f) /\ Item(r, f, n).param = <<>>
          \/ a \notin Marks(r, f) /\ IsFar(r, f, a) /\ Item(r, f, n).param = <<Keep(v), External>>
          \/ a \notin Marks(r, f) /\ ~IsFar(r, f, a) /\ Item(r, f, n).param = <<Masked(v, P)>>
      BY FoldedCases DEF Item
    <3>2. \/ b \in Marks(q, g) /\ Item(q, g, n).param = <<>>
          \/ b \notin Marks(q, g) /\ IsFar(q, g, b) /\ Item(q, g, n).param = <<Keep(w), External>>
          \/ b \notin Marks(q, g) /\ ~IsFar(q, g, b) /\ Item(q, g, n).param = <<Masked(w, P)>>
      BY FoldedCases DEF Item
    <3>. HIDE DEF v, w, P
    <3>. QED
      BY <1>2, <2>2, <3>1, <3>2
  <2>4. PagesTo(r, f, n + 1) = PagesTo(q, g, n + 1)
    <3>1. /\ PagesTo(r, f, n + 1) = IF a \in Marks(r, f) \/ IsPool(r, f, a) THEN P ELSE PagesAfter(v, P)
          /\ PagesTo(q, g, n + 1) = IF b \in Marks(q, g) \/ IsPool(q, g, b) THEN P ELSE PagesAfter(w, P)
      BY <1>1, PagesAre
    <3>. QED
      BY <1>2, <2>1, <3>1
  <2>. QED
    BY <2>3, <2>4
<1>3. CASE IsFar(r, f, a) /\ IsFar(q, g, b) /\ Keep(v) = Keep(w)
  <2>1. ASSUME NEW s, NEW h, NEW o, IsFar(s, h, o)
        PROVE  ~IsPool(s, h, o)
    BY <2>1 DEF IsPool, IsFar, IsRelative, IsLiteral, RelativeOps
  <2>2. ~IsPool(r, f, a) /\ ~IsPool(q, g, b)
    BY <1>3, <2>1
  <2>3. Registers(v, w)
    <3>1. v \in Opcodes /\ w \in Opcodes
      BY <1>1, WordThere
    <3>2. Registers(Keep(v), v) /\ Registers(Keep(w), w)
      BY <3>1, Masks
    <3>. HIDE DEF v, w
    <3>. QED
      BY <1>3, <3>2 DEF Registers
  <2>4. Item(r, f, n).param = Item(q, g, n).param
    <3>1. \/ a \in Marks(r, f) /\ Item(r, f, n).param = <<>>
          \/ a \notin Marks(r, f) /\ Item(r, f, n).param = <<Keep(v), External>>
      BY <1>3, FoldedCases DEF Item
    <3>2. \/ b \in Marks(q, g) /\ Item(q, g, n).param = <<>>
          \/ b \notin Marks(q, g) /\ Item(q, g, n).param = <<Keep(w), External>>
      BY <1>3, FoldedCases DEF Item
    <3>. HIDE DEF v, w, P
    <3>. QED
      BY <1>3, <3>1, <3>2
  <2>5. PagesTo(r, f, n + 1) = PagesTo(q, g, n + 1)
    <3>1. Alike(r, f, a, q, g, b, P)
      BY <1>3, <2>2, <2>3 DEF Alike
    <3>. QED
      BY <1>1, <3>1, PagesAlike
  <2>. QED
    BY <2>4, <2>5
<1>. QED
  BY <1>2, <1>3 DEF Matched

\* Functions of one identical key are of one parametric key.
LEMMA IdentsAreParams ==
  ASSUME NEW r, NEW f, Fits(r, f), NEW q, NEW g, Fits(q, g), OwnKeys(r, f).ident = OwnKeys(q, g).ident
  PROVE  OwnKeys(r, f).param = OwnKeys(q, g).param
<1>. DEFINE N == Words(f)
            G == {n \in 0 .. N : PagesTo(r, f, n + 1) = PagesTo(q, g, n + 1)}
<1>1. /\ f.end - f.start = g.end - g.start /\ Words(g) = N /\ N \in Nat
      /\ \A n \in 1 .. N : Item(r, f, n).ident = Item(q, g, n).ident
  BY KeysAgree, PlaceOfWord
<1>2. \A n \in 1 .. N : Matched(r, f, Nth(f, n), q, g, Nth(g, n))
  BY <1>1, IdentsMatch DEF Item
<1>3. \A n \in 1 .. N : Nth(f, n) \in Marks(r, f) <=> Nth(g, n) \in Marks(q, g)
  BY <1>1, <1>2, MarksMatch
<1>4. ASSUME NEW n \in 1 .. N, PagesTo(r, f, n) = PagesTo(q, g, n)
      PROVE  Item(r, f, n).param = Item(q, g, n).param /\ PagesTo(r, f, n + 1) = PagesTo(q, g, n + 1)
  BY <1>1, <1>2, <1>3, <1>4, ParamsMatch
<1>5. \A n \in 1 .. N : n - 1 \in 0 .. N /\ (n - 1) + 1 = n /\ n \in 0 .. N
  BY <1>1
<1>6. 0 \in G
  <2>1. PagesTo(r, f, 0 + 1) = PagesTo(q, g, 0 + 1)
    BY PagesAre
  <2>. QED
    BY <1>1, <2>1
<1>7. ASSUME NEW n \in 1 .. N, n - 1 \in G
      PROVE  n \in G
  BY <1>4, <1>5, <1>7
<1>. HIDE DEF G
<1>8. \A n \in 0 .. N : n \in G
  BY <1>1, <1>6, <1>7, StepsUp
<1>9. \A n \in 1 .. N : Item(r, f, n).param = Item(q, g, n).param
  <2>1. \A n \in 1 .. N : PagesTo(r, f, n) = PagesTo(q, g, n)
    BY <1>5, <1>8 DEF G
  <2>. QED
    BY <1>4, <2>1
<1>. DEFINE s == OwnKeys(r, f).param
            t == OwnKeys(q, g).param
<1>10. /\ Lists(s, N, f.end - f.start, [n \in 1 .. N |-> Item(r, f, n).param])
       /\ Lists(t, N, f.end - f.start, [n \in 1 .. N |-> Item(q, g, n).param])
  BY <1>1, KeysAre
<1>11. (\E A : s \in Seq(A)) /\ (\E B : t \in Seq(B))
  <2>1. ASSUME NEW x, NEW h, Fits(x, h)
        PROVE  \E A : OwnKeys(x, h).param \in Seq(A)
    <3>1. Words(h) \in Nat /\ Folds(x, h, Marks(x, h))[Words(h)] \in FoldStates(x, h, Marks(x, h))
      <4>1. Words(h) \in Nat
        BY <2>1, PlaceOfWord
      <4>2. Words(h) \in 0 .. Words(h)
        BY <4>1
      <4>. QED
        BY <2>1, <4>1, <4>2, FoldsSteps
    <3>2. OwnKeys(x, h) \in FoldStates(x, h, Marks(x, h))
      BY <3>1 DEF OwnKeys, Keys, Words
    <3>. QED
      BY <3>2 DEF FoldStates
  <2>. QED
    BY <2>1
<1>. HIDE DEF s, t
<1>12. PICK A, B : s \in Seq(A) /\ t \in Seq(B)
  BY <1>11
<1>13. s \in Seq(A \cup B) /\ t \in Seq(A \cup B)
  BY <1>12, SeqMonotonic
<1>14. Len(s) = N + 1 /\ Len(t) = N + 1 /\ \A i \in 1 .. N + 1 : s[i] = t[i]
  <2>1. \A i \in 1 .. N : s[i + 1] = t[i + 1]
    BY <1>9, <1>10 DEF Lists
  <2>2. \A i \in 1 .. N + 1 : i = 1 \/ (i - 1 \in 1 .. N /\ (i - 1) + 1 = i)
    BY <1>1
  <2>. QED
    BY <1>10, <2>1, <2>2 DEF Lists
<1>15. s = t
  <2>. DEFINE C == A \cup B
  <2>1. s \in Seq(C) /\ t \in Seq(C)
    BY <1>13
  <2>. HIDE DEF C
  <2>. QED
    BY <1>14, <2>1, SeqEqual
<1>. QED
  BY <1>15 DEF s, t

-----------------------------------------------------------------------------
(* The functions keyed.                                                    *)

\* A function fits its range, its keys are its words', its group its key's.
Kept(m, rs, gs) ==
  /\ m.range \in DOMAIN rs /\ Fits(rs[m.range], m.f)
  /\ m.ident = OwnKeys(rs[m.range], m.f).ident
  /\ m.param = OwnKeys(rs[m.range], m.f).param
  /\ m.group \in DOMAIN gs /\ gs[m.group].key = m.param
MembersKept ==
  /\ \E S : members \in Seq(S)
  /\ \A i \in DOMAIN members : Kept(members[i], ranges, groups)

LEMMA KeptStay ==
  ASSUME MembersKept, members' = members, ranges' = ranges, DOMAIN groups \subseteq DOMAIN groups',
         \A h \in DOMAIN groups : groups'[h].key = groups[h].key
  PROVE  MembersKept'
BY DEF MembersKept, Kept

LEMMA KeptAdded ==
  ASSUME MembersKept, ReportsInv, phase = "keying", next <= Len(Spans(Range1)),
         NEW f, f = Trimmed(Range1, Spans(Range1)[next]), ranges' = ranges, NEW g,
         OneKeyed(f, g, KeysHere(f).param, KeysHere(f).ident)
  PROVE  MembersKept'
<1>. DEFINE span == Spans(Range1)[next]
            m == [range |-> at, f |-> f, group |-> g, ident |-> KeysHere(f).ident, param |-> KeysHere(f).param]
<1>1. /\ members' = Append(members, m) /\ DOMAIN groups \subseteq DOMAIN groups'
      /\ \A h \in DOMAIN groups : groups'[h].key = groups[h].key
      /\ g \in DOMAIN groups' /\ groups'[g].key = KeysHere(f).param
  BY DEF OneKeyed, Joined
<1>2. Fits(Range1, span)
  BY RangeScanned, SpanKeyed DEF ReportsInv, Fits
<1>3. Fits(Range1, f) /\ Marks(Range1, f) = Marks(Range1, span)
  BY <1>2, TrimmedFits, MarksTrimmed
<1>4. KeysHere(f) = OwnKeys(Range1, f)
  BY <1>3 DEF KeysHere, OwnKeys
<1>5. at \in DOMAIN ranges /\ ranges[at] = Range1
  BY DEF ReportsInv, Progress, Range1
<1>6. Kept(m, ranges', groups')
  BY <1>1, <1>3, <1>4, <1>5 DEF Kept
<1>. HIDE DEF m
<1>7. PICK S : members \in Seq(S)
  BY DEF MembersKept
<1>. DEFINE T == S \cup {m}
<1>8. members \in Seq(T) /\ m \in T
  BY <1>7
<1>. HIDE DEF T
<1>9. /\ members' \in Seq(T) /\ DOMAIN members' = 1 .. Len(members) + 1 /\ DOMAIN members = 1 .. Len(members)
      /\ Len(members) \in Nat /\ members'[Len(members) + 1] = m
      /\ \A i \in 1 .. Len(members) : members'[i] = members[i]
  BY <1>1, <1>8, AppendProperties, LenProperties
<1>10. ASSUME NEW i \in DOMAIN members'
       PROVE  Kept(members'[i], ranges', groups')
  <2>1. CASE i = Len(members) + 1
    BY <1>6, <1>9, <2>1
  <2>2. CASE i # Len(members) + 1
    <3>1. i \in DOMAIN members /\ members'[i] = members[i]
      BY <1>9, <2>2
    <3>2. Kept(members[i], ranges, groups)
      BY <3>1 DEF MembersKept
    <3>. QED
      BY <1>1, <3>1, <3>2 DEF Kept
  <2>. QED
    BY <2>1, <2>2
<1>. QED
  BY <1>9, <1>10 DEF MembersKept

LEMMA KeyFunctionKeepsMembers ==
  ASSUME HashIsNumber, SlotsAssumption, ReportsInv, MembersKept, KeyFunction
  PROVE  MembersKept'
<1>. DEFINE f     == Trimmed(Range1, Spans(Range1)[next])
            table == IF Due(slots) THEN Regrouped ELSE slots
<1>1. phase = "keying" /\ next <= Len(Spans(Range1)) /\ ranges' = ranges /\ at' = at
  BY DEF KeyFunction
<1>2. \/ groups' = groups /\ members' = members
      \/ f.end # f.start /\ AddFunction(f, table, Grown(idents, TRUE)) /\ next' = next + 1
  BY DEF KeyFunction, dedup
<1>3. CASE groups' = groups /\ members' = members
  BY <1>1, <1>3, KeptStay
<1>4. CASE f.end # f.start /\ AddFunction(f, table, Grown(idents, TRUE)) /\ next' = next + 1
  <2>1. \E g \in Nat : OneKeyed(f, g, KeysHere(f).param, KeysHere(f).ident)
    BY <1>1, <1>4, FunctionAdded
  <2>2. PICK g \in Nat : OneKeyed(f, g, KeysHere(f).param, KeysHere(f).ident)
    BY <2>1
  <2>. QED
    BY <1>1, <2>2, KeptAdded
<1>. QED
  BY <1>2, <1>3, <1>4

LEMMA EmitsKeepsMembers ==
  ASSUME ReportsInv, MembersKept, Emits
  PROVE  MembersKept'
<1>1. PICK f \in Findings(ranges), s \in Sites \cup {NoValue} : EmitFinding(f, Sites \ {s})
  BY DEF Emits
<1>2. /\ Note(f, Range1.base + f.at, Sites \ {s}) /\ slots' = slots
      /\ members' = members /\ ranges' = ranges
  BY <1>1 DEF EmitFinding
<1>3. DOMAIN groups' = DOMAIN groups /\ \A h \in DOMAIN groups : groups'[h].key = groups[h].key
  BY <1>2, GroupsNoted
<1>. QED
  BY <1>2, <1>3, KeptStay

LEMMA MembersStep ==
  ASSUME HashIsNumber, ReportsInv, MembersKept, [Next]_vars
  PROVE  MembersKept'
<1>1. SlotsAssumption
  BY SlotsAssumption DEF SlotsAssumption
<1>2. CASE KeyFunction
  BY <1>1, <1>2, KeyFunctionKeepsMembers
<1>3. CASE Emits
  BY <1>3, EmitsKeepsMembers
<1>4. CASE UNCHANGED <<ranges, groups, members>>
  BY <1>4, KeptStay
<1>5. Keyed \/ ScanConstants \/ FinishRange \/ UNCHANGED vars => UNCHANGED <<ranges, groups, members>>
  BY DEF Keyed, ScanConstants, FinishRange, vars, dedup
<1>. QED
  BY <1>2, <1>3, <1>4, <1>5 DEF Next

LEMMA KeptAreCopies ==
  ASSUME MembersKept
  PROVE  CopiesAreCopies
<1>. SUFFICES ASSUME NEW i \in DOMAIN members, NEW j \in DOMAIN members
              PROVE  LET r == ranges[members[i].range]
                         q == ranges[members[j].range]
                     IN  /\ members[i].ident = members[j].ident => Copies(SameMeaning, r, Member(i), q, Member(j))
                         /\ members[i].group = members[j].group => Copies(SameShape, r, Member(i), q, Member(j))
  BY DEF CopiesAreCopies
<1>. DEFINE m == members[i]
            n == members[j]
            r == ranges[m.range]
            q == ranges[n.range]
<1>1. /\ Fits(r, m.f) /\ m.ident = OwnKeys(r, m.f).ident /\ m.param = OwnKeys(r, m.f).param
      /\ groups[m.group].key = m.param
      /\ Fits(q, n.f) /\ n.ident = OwnKeys(q, n.f).ident /\ n.param = OwnKeys(q, n.f).param
      /\ groups[n.group].key = n.param
  BY DEF MembersKept, Kept
<1>2. m.ident = n.ident => Copies(SameMeaning, r, m.f, q, n.f)
  BY <1>1, IdenticalCopies
<1>3. m.group = n.group => Copies(SameShape, r, m.f, q, n.f)
  BY <1>1, ParametricCopies
<1>. QED
  BY <1>2, <1>3 DEF Member

\* Functions the duplicate report counts as copies are: of two functions
\* under one identical key every word means the same at both addresses, of
\* two in one group the words differ only in the fields that tell instances
\* apart, whatever pools, literals, pages and padding the functions hold
\* (dedup_key, dedup_add_function).
THEOREM CopiesProved ==
  ASSUME HashIsNumber
  PROVE  Spec => []CopiesAreCopies
<1>1. Init => MembersKept
  <2>. SUFFICES ASSUME Init PROVE MembersKept
    OBVIOUS
  <2>1. members = <<>>
    BY DEF Init
  <2>2. members \in Seq({}) /\ DOMAIN members = {}
    BY <2>1
  <2>. QED
    BY <2>2 DEF MembersKept
<1>2. ReportsInv /\ MembersKept /\ [Next]_vars => MembersKept'
  BY MembersStep
<1>3. MembersKept => CopiesAreCopies
  BY KeptAreCopies
<1>4. Spec => []ReportsInv
  BY InvariantHolds
<1>. QED
  BY <1>1, <1>2, <1>3, <1>4, PTL DEF Spec

-----------------------------------------------------------------------------
(* Sums over sets.                                                         *)

\* t adds f over the subsets of S one element at a time.
Adds(t, f, S) ==
  /\ t \in [SUBSET S -> Int] /\ t[{}] = 0 /\ \A x \in S : f[x] \in Int
  /\ \A s \in SUBSET S : \A x \in s : t[s] = t[s \ {x}] + f[x]

LEMMA SumsExist ==
  ASSUME NEW S, IsFiniteSet(S), NEW f, \A x \in S : f[x] \in Int
  PROVE  \E t : Adds(t, f, S)
<1>. DEFINE Q(T)  == IsFiniteSet(T) /\ T \subseteq S
            Bad == {n \in Nat : \E T \in SUBSET S : IsFiniteSet(T) /\ Cardinality(T) = n /\ ~\E t : Adds(t, f, T)}
<1>1. SUFFICES ASSUME Bad # {}
               PROVE  FALSE
  BY FS_CardinalityType
<1>2. PICK n \in Bad : \A i \in Bad : n <= i
  <2>1. Bad \in SUBSET Nat
    OBVIOUS
  <2>. HIDE DEF Bad
  <2>. QED
    BY <1>1, <2>1, LeastDistance
<1>3. PICK T \in SUBSET S : IsFiniteSet(T) /\ Cardinality(T) = n /\ ~\E t : Adds(t, f, T)
  BY <1>2
<1>4. T # {}
  <2>1. Adds([s \in SUBSET {} |-> 0], f, {})
    BY DEF Adds
  <2>. QED
    BY <1>3, <2>1
<1>5. PICK y \in T : TRUE
  BY <1>4
<1>. DEFINE U == T \ {y}
<1>6. IsFiniteSet(U) /\ Cardinality(U) = n - 1 /\ U \in SUBSET S /\ n - 1 \in Nat
  <2>1. IsFiniteSet(U) /\ Cardinality(U) = n - 1
    BY <1>3, <1>5, FS_RemoveElement
  <2>. QED
    BY <2>1, FS_CardinalityType
<1>7. PICK t : Adds(t, f, U)
  <2>1. n - 1 \notin Bad
    BY <1>2
  <2>. QED
    BY <1>6, <2>1
<1>. DEFINE v == [s \in SUBSET T |-> t[s \ {y}] + (IF y \in s THEN f[y] ELSE 0)]
<1>8. \A s \in SUBSET T : s \ {y} \in SUBSET U /\ t[s \ {y}] \in Int
  BY <1>7 DEF Adds
<1>9. \A x \in T : f[x] \in Int
  OBVIOUS
<1>10. v \in [SUBSET T -> Int]
  BY <1>5, <1>8, <1>9
<1>11. v[{}] = 0
  <2>1. {} \ {y} = {} /\ {} \in SUBSET T /\ t[{}] = 0
    BY <1>7 DEF Adds
  <2>. QED
    BY <2>1
<1>12. ASSUME NEW s \in SUBSET T, NEW x \in s
       PROVE  v[s] = v[s \ {x}] + f[x]
  <2>1. s \ {x} \in SUBSET T /\ x \in T
    OBVIOUS
  <2>2. /\ v[s] = t[s \ {y}] + (IF y \in s THEN f[y] ELSE 0)
        /\ v[s \ {x}] = t[(s \ {x}) \ {y}] + (IF y \in s \ {x} THEN f[y] ELSE 0)
    BY <2>1
  <2>3. CASE x = y
    <3>1. (s \ {x}) \ {y} = s \ {y} /\ y \in s /\ y \notin s \ {x}
      BY <2>3
    <3>2. PICK c \in Int : c = t[s \ {y}]
      BY <1>8
    <3>. HIDE DEF v
    <3>3. v[s] = c + f[x] /\ v[s \ {x}] = c + 0
      BY <2>2, <2>3, <3>1, <3>2
    <3>4. f[x] \in Int
      BY <1>9, <2>1
    <3>. QED
      BY <3>2, <3>3, <3>4
  <2>4. CASE x # y
    <3>1. (s \ {x}) \ {y} = (s \ {y}) \ {x} /\ x \in s \ {y} /\ (y \in s <=> y \in s \ {x})
      BY <2>4
    <3>2. t[s \ {y}] = t[(s \ {y}) \ {x}] + f[x]
      BY <1>7, <1>8, <3>1 DEF Adds
    <3>3. t[(s \ {x}) \ {y}] \in Int /\ t[s \ {y}] \in Int
      BY <1>8, <2>1
    <3>. HIDE DEF v
    <3>. QED
      BY <1>5, <1>9, <2>1, <2>2, <3>1, <3>2, <3>3
  <2>. QED
    BY <2>3, <2>4
<1>13. Adds(v, f, T)
  BY <1>9, <1>10, <1>11, <1>12 DEF Adds
<1>. QED
  BY <1>3, <1>13

LEMMA SumIs ==
  ASSUME NEW S, IsFiniteSet(S), NEW f, NEW t, Adds(t, f, S)
  PROVE  SumFunctionOnSet(f, S) = t[S]
<1>. DEFINE Body(u) == [s \in SUBSET S |-> IF s = {} THEN 0
                          ELSE f[CHOOSE x \in s : TRUE] + u[s \ {CHOOSE x \in s : TRUE}]]
            u == CHOOSE u : u = Body(u)
<1>1. SumFunctionOnSet(f, S) = u[S]
  BY DEF SumFunctionOnSet, FoldFunctionOnSet, MapThenFoldSet
<1>2. t = Body(t)
  <2>1. t \in [SUBSET S -> Int] /\ t[{}] = 0
    BY DEF Adds
  <2>2. ASSUME NEW s \in SUBSET S, s # {}, NEW x, x = CHOOSE y \in s : TRUE
        PROVE  t[s] = f[x] + t[s \ {x}]
    <3>1. x \in s
      BY <2>2
    <3>2. s \ {x} \in SUBSET S
      OBVIOUS
    <3>3. t[s] = t[s \ {x}] + f[x] /\ f[x] \in Int /\ t[s \ {x}] \in Int
      BY <2>1, <3>1, <3>2 DEF Adds
    <3>. QED
      BY <3>3
  <2>3. \A s \in SUBSET S : t[s] = IF s = {} THEN 0 ELSE f[CHOOSE x \in s : TRUE] + t[s \ {CHOOSE x \in s : TRUE}]
    BY <2>1, <2>2
  <2>. QED
    BY <2>1, <2>3
<1>3. u = Body(u)
  BY <1>2
<1>4. /\ u[{}] = t[{}]
      /\ \A s \in SUBSET S : s # {} =>
           \E x \in s : u[s] = f[x] + u[s \ {x}] /\ t[s] = f[x] + t[s \ {x}]
  <2>1. u[{}] = 0 /\ t[{}] = 0
    BY <1>3 DEF Adds
  <2>2. ASSUME NEW s \in SUBSET S, s # {}
        PROVE  LET x == CHOOSE x \in s : TRUE
               IN  x \in s /\ u[s] = f[x] + u[s \ {x}] /\ t[s] = f[x] + t[s \ {x}]
    BY <1>2, <1>3, <2>2
  <2>. HIDE DEF u
  <2>. QED
    BY <2>1, <2>2
<1>. HIDE DEF u
<1>. DEFINE Bad == {n \in Nat : \E s \in SUBSET S : Cardinality(s) = n /\ u[s] # t[s]}
<1>5. SUFFICES ASSUME u[S] # t[S] PROVE FALSE
  BY <1>1
<1>6. PICK n \in Bad : \A i \in Bad : n <= i
  <2>1. Bad \in SUBSET Nat
    OBVIOUS
  <2>2. Cardinality(S) \in Bad
    BY <1>5, FS_CardinalityType
  <2>. HIDE DEF Bad
  <2>. QED
    BY <2>1, <2>2, LeastDistance
<1>7. PICK s \in SUBSET S : Cardinality(s) = n /\ u[s] # t[s]
  BY <1>6
<1>8. PICK x \in s : u[s] = f[x] + u[s \ {x}] /\ t[s] = f[x] + t[s \ {x}]
  <2>1. s # {}
    BY <1>4, <1>7
  <2>. QED
    BY <1>4, <2>1
<1>9. Cardinality(s \ {x}) = n - 1 /\ n - 1 \in Nat
  <2>1. IsFiniteSet(s)
    BY FS_Subset
  <2>2. IsFiniteSet(s \ {x}) /\ Cardinality(s \ {x}) = n - 1
    BY <1>7, <2>1, FS_RemoveElement
  <2>. QED
    BY <2>2, FS_CardinalityType
<1>10. n - 1 \notin Bad
  BY <1>6
<1>11. u[s \ {x}] = t[s \ {x}]
  BY <1>9, <1>10
<1>. QED
  BY <1>7, <1>8, <1>11

\* A sum over a set, less one of its elements.
LEMMA SumWithout ==
  ASSUME NEW S, IsFiniteSet(S), NEW f, \A y \in S : f[y] \in Int, NEW x \in S
  PROVE  /\ SumFunctionOnSet(f, S) \in Int /\ SumFunctionOnSet(f, S \ {x}) \in Int
         /\ SumFunctionOnSet(f, S) = SumFunctionOnSet(f, S \ {x}) + f[x]
<1>. DEFINE R == S \ {x}
<1>1. PICK t : Adds(t, f, S)
  BY SumsExist
<1>. DEFINE u == [s \in SUBSET R |-> t[s]]
<1>2. /\ t \in [SUBSET S -> Int] /\ t[{}] = 0
      /\ \A s \in SUBSET S : \A y \in s : t[s] = t[s \ {y}] + f[y]
  BY <1>1 DEF Adds
<1>3. SUBSET R \subseteq SUBSET S /\ R \in SUBSET S /\ {} \in SUBSET R
  OBVIOUS
<1>4. Adds(u, f, R)
  <2>1. u \in [SUBSET R -> Int] /\ u[{}] = 0
    BY <1>2, <1>3
  <2>2. ASSUME NEW s \in SUBSET R, NEW y \in s
        PROVE  u[s] = u[s \ {y}] + f[y]
    <3>1. s \ {y} \in SUBSET R /\ s \in SUBSET S
      OBVIOUS
    <3>. QED
      BY <1>2, <3>1
  <2>. QED
    BY <2>1, <2>2 DEF Adds
<1>5. IsFiniteSet(R)
  BY FS_RemoveElement
<1>6. SumFunctionOnSet(f, S) = t[S] /\ SumFunctionOnSet(f, R) = u[R]
  BY <1>1, <1>4, <1>5, SumIs
<1>7. u[R] = t[R] /\ t[S] = t[R] + f[x] /\ t[S] \in Int /\ t[R] \in Int
  BY <1>2, <1>3
<1>. QED
  BY <1>6, <1>7

\* Sums of functions that agree.
LEMMA SumAlike ==
  ASSUME NEW S, IsFiniteSet(S), NEW f, NEW g, \A y \in S : f[y] \in Int /\ g[y] = f[y]
  PROVE  SumFunctionOnSet(g, S) = SumFunctionOnSet(f, S)
<1>1. PICK t : Adds(t, f, S)
  BY SumsExist
<1>2. Adds(t, g, S)
  BY <1>1 DEF Adds
<1>. QED
  BY <1>1, <1>2, SumIs

\* The sum of a function after one of its values changed or came to it.
LEMMA SumChanged ==
  ASSUME NEW f, NEW g, IsFiniteSet(DOMAIN f), \A y \in DOMAIN f : f[y] \in Int,
         NEW x, g[x] \in Int, DOMAIN g = DOMAIN f \cup {x}, \A y \in DOMAIN f : y # x => g[y] = f[y]
  PROVE  /\ SumFunction(f) \in Int
         /\ SumFunction(g) = SumFunction(f) + (IF x \in DOMAIN f THEN g[x] - f[x] ELSE g[x])
<1>. DEFINE S == DOMAIN f
            T == DOMAIN g
            R == T \ {x}
<1>1. IsFiniteSet(T) /\ IsFiniteSet(R)
  BY FS_AddElement, FS_RemoveElement
<1>2. \A y \in T : g[y] \in Int
  OBVIOUS
<1>3. SumFunction(f) = SumFunctionOnSet(f, S) /\ SumFunction(g) = SumFunctionOnSet(g, T)
  BY DEF SumFunction
<1>4. SumFunctionOnSet(g, T) = SumFunctionOnSet(g, R) + g[x] /\ SumFunctionOnSet(g, R) \in Int
  BY <1>1, <1>2, SumWithout
<1>5. SumFunctionOnSet(g, R) = SumFunctionOnSet(f, R)
  BY <1>1, SumAlike
<1>6. CASE x \in S
  <2>1. R = S \ {x}
    BY <1>6
  <2>2. /\ SumFunctionOnSet(f, S) = SumFunctionOnSet(f, S \ {x}) + f[x]
        /\ SumFunctionOnSet(f, S) \in Int /\ SumFunctionOnSet(f, S \ {x}) \in Int
    BY <1>6, SumWithout
  <2>3. f[x] \in Int
    BY <1>6
  <2>. HIDE DEF R, S, T
  <2>4. PICK a, b \in Int : a = SumFunctionOnSet(f, R) /\ b = f[x]
    BY <2>1, <2>2, <2>3
  <2>. QED
    BY <1>3, <1>4, <1>5, <1>6, <2>1, <2>2, <2>4 DEF S
<1>7. CASE x \notin S
  <2>1. R = S
    BY <1>7
  <2>. HIDE DEF R, S, T
  <2>. QED
    BY <1>3, <1>4, <1>5, <1>7, <2>1 DEF S
<1>. QED
  BY <1>6, <1>7

LEMMA SumOfNothing ==
  ASSUME NEW f, DOMAIN f = {}
  PROVE  SumFunction(f) = 0
<1>1. Adds([s \in SUBSET {} |-> 0], f, {})
  BY DEF Adds
<1>2. SumFunctionOnSet(f, {}) = 0
  BY <1>1, SumIs, FS_EmptySet
<1>. QED
  BY <1>2 DEF SumFunction

-----------------------------------------------------------------------------
(* The keys a table counts.                                                *)

Over(t, m) == {k \in Held(t) : CountOf(t, k) > m}

\* Each key is in a slot of its own.
LEMMA RowsAreKeys ==
  ASSUME NEW t, t = Unused \/ Sound(t), NEW m \in Nat
  PROVE  /\ IsFiniteSet(Over(t, m))
         /\ Cardinality({s \in Entries(t) : t[s].count > m}) = Cardinality(Over(t, m))
<1>. DEFINE R == {s \in Entries(t) : t[s].count > m}
            f == [s \in R |-> t[s].key]
<1>1. IsFiniteSet(Entries(t)) /\ Reachable(t)
  <2>1. CASE t = Unused
    BY <2>1, UnusedTable, FS_EmptySet
  <2>2. CASE Sound(t)
    BY <2>2, TableWithKeys DEF Sound
  <2>. QED
    BY <2>1, <2>2
<1>2. IsFiniteSet(R)
  BY <1>1, FS_Subset
<1>3. \A s \in Entries(t) : CountOf(t, t[s].key) = t[s].count /\ SlotOf(t, t[s].key) = s
  BY <1>1, CountOfEntry DEF Reachable
<1>4. \A s \in R : f[s] \in Over(t, m)
  BY <1>3 DEF Over, Held
<1>5. \A k \in Over(t, m) : \E s \in R : f[s] = k
  BY <1>3 DEF Over, Held
<1>6. \A s, u \in R : f[s] = f[u] => s = u
  BY <1>3
<1>7. ExistsBijection(R, Over(t, m))
  <2>1. f \in [R -> Over(t, m)]
    BY <1>4
  <2>. HIDE DEF f, R
  <2>. QED
    <3>1. f \in Injection(R, Over(t, m)) /\ f \in Surjection(R, Over(t, m))
      BY <1>5, <1>6, <2>1 DEF Injection, Surjection, IsInjective
    <3>. QED
      BY <3>1 DEF ExistsBijection, Bijection
<1>. QED
  BY <1>2, <1>7, FS_Bijection

LEMMA UsedIsHeld ==
  ASSUME NEW t, t = Unused \/ Sound(t)
  PROVE  IsFiniteSet(Held(t)) /\ Used(t) = Cardinality(Held(t))
<1>1. \A s \in Entries(t) : t[s].count > 0 /\ CountOf(t, t[s].key) = t[s].count
  <2>1. CASE t = Unused
    BY <2>1, UnusedTable
  <2>2. CASE Sound(t)
    BY <2>2, CountOfEntry DEF Sound
  <2>. QED
    BY <2>1, <2>2
<1>2. {s \in Entries(t) : t[s].count > 0} = Entries(t) /\ Over(t, 0) = Held(t)
  BY <1>1 DEF Over, Held
<1>. QED
  BY <1>2, RowsAreKeys DEF Used

\* Two tables of the same counts have the same sizes.
Figures(t) == [used |-> Used(t), shared |-> Cardinality({s \in Entries(t) : t[s].count > 1})]

LEMMA SameFigures ==
  ASSUME HashIsNumber, NEW t, t = Unused \/ Sound(t), NEW u, u = Unused \/ Sound(u),
         \A k : CountOf(u, k) = CountOf(t, k)
  PROVE  Figures(u) = Figures(t)
<1>1. Held(u) = Held(t)
  <2>1. \A k : k \in Held(u) <=> k \in Held(t)
    BY HeldIsCounted
  <2>. QED
    BY <2>1
<1>2. Over(u, 1) = Over(t, 1)
  BY <1>1 DEF Over
<1>. QED
  BY <1>1, <1>2, UsedIsHeld, RowsAreKeys DEF Figures

\* A key counted once more.
LEMMA FiguresAdded ==
  ASSUME HashIsNumber, SlotsAssumption, NEW t, t = Unused \/ Sound(t), NEW k
  PROVE  LET u == Add(Grown(t, TRUE), k, 1)
             c == CountOf(t, k)
         IN  /\ c \in Nat /\ CountOf(Grown(t, TRUE), k) = c
             /\ \A q : CountOf(u, q) = IF q = k THEN c + 1 ELSE CountOf(t, q)
             /\ Figures(t).used \in Nat /\ Figures(t).shared \in Nat
             /\ Figures(u).used = Figures(t).used + (IF c = 0 THEN 1 ELSE 0)
             /\ Figures(u).shared = Figures(t).shared + (IF c = 1 THEN 1 ELSE 0)
<1>. DEFINE v == Grown(t, TRUE)
            u == Add(v, k, 1)
            c == CountOf(t, k)
<1>1. /\ Sound(v) /\ Used(v) < Cap(v) /\ \A q : CountOf(v, q) = CountOf(t, q)
  BY RoomToAdd
<1>. HIDE DEF v
<1>2. Sound(u) /\ \A q : CountOf(u, q) = IF q = k THEN CountOf(v, k) + 1 ELSE CountOf(v, q)
  <2>1. 1 \in Nat \ {0}
    OBVIOUS
  <2>. QED
    BY <1>1, <2>1, SoundAdd
<1>. HIDE DEF u
<1>3. c \in Nat
  BY <1>1, CountNumber
<1>4. \A q : CountOf(u, q) = IF q = k THEN c + 1 ELSE CountOf(t, q)
  BY <1>1, <1>2
<1>5. Held(u) = Held(t) \cup {k}
  <2>1. \A q : q \in Held(u) <=> (q \in Held(t) \/ q = k)
    BY <1>2, <1>3, <1>4, HeldIsCounted
  <2>. QED
    BY <2>1
<1>6. k \in Held(t) <=> c # 0
  BY HeldIsCounted
<1>. HIDE DEF c
<1>7. Over(u, 1) = IF c = 0 THEN Over(t, 1) ELSE Over(t, 1) \cup {k}
  BY <1>3, <1>4, <1>5, <1>6 DEF Over
<1>8. k \in Over(t, 1) <=> (c # 0 /\ c # 1)
  BY <1>3, <1>6 DEF Over, c
<1>9. /\ IsFiniteSet(Held(t)) /\ Figures(t).used = Cardinality(Held(t)) /\ Figures(u).used = Cardinality(Held(u))
  BY <1>2, UsedIsHeld DEF Figures
<1>10. /\ IsFiniteSet(Over(t, 1)) /\ Figures(t).shared = Cardinality(Over(t, 1))
       /\ Figures(u).shared = Cardinality(Over(u, 1))
  BY <1>2, RowsAreKeys DEF Figures
<1>11. Cardinality(Held(t)) \in Nat /\ Cardinality(Over(t, 1)) \in Nat
  BY <1>9, <1>10, FS_CardinalityType
<1>12. Cardinality(Held(u)) = Cardinality(Held(t)) + (IF c = 0 THEN 1 ELSE 0)
  BY <1>5, <1>6, <1>9, <1>11, FS_AddElement
<1>13. Cardinality(Over(u, 1)) = Cardinality(Over(t, 1)) + (IF c = 1 THEN 1 ELSE 0)
  BY <1>7, <1>8, <1>10, <1>11, FS_AddElement
<1>. QED
  BY <1>1, <1>3, <1>4, <1>9, <1>10, <1>11, <1>12, <1>13 DEF u, v, c

\* u is t with k counted once more, n times before.
OnceMore(t, u, k, n) ==
  /\ n \in Nat /\ Figures(t).used \in Nat /\ Figures(t).shared \in Nat
  /\ \A q : CountOf(u, q) = IF q = k THEN n + 1 ELSE CountOf(t, q)
  /\ Figures(u).used = Figures(t).used + (IF n = 0 THEN 1 ELSE 0)
  /\ Figures(u).shared = Figures(t).shared + (IF n = 1 THEN 1 ELSE 0)

LEMMA CountedOnce ==
  ASSUME HashIsNumber, SlotsAssumption, NEW t, t = Unused \/ Sound(t), NEW k,
         NEW u, u = Add(Grown(t, TRUE), k, 1), NEW n, n = CountOf(t, k)
  PROVE  OnceMore(t, u, k, n)
<1>1. n \in Nat /\ Figures(t).used \in Nat /\ Figures(t).shared \in Nat
  BY FiguresAdded
<1>2. Figures(u).used = Figures(t).used + (IF n = 0 THEN 1 ELSE 0)
  BY FiguresAdded
<1>3. Figures(u).shared = Figures(t).shared + (IF n = 1 THEN 1 ELSE 0)
  BY FiguresAdded
<1>. DEFINE v == Grown(t, TRUE)
<1>4. Sound(v) /\ Used(v) < Cap(v) /\ \A q : CountOf(v, q) = CountOf(t, q)
  BY RoomToAdd
<1>5. u = Add(v, k, 1)
  OBVIOUS
<1>. HIDE DEF v
<1>6. \A q : CountOf(u, q) = IF q = k THEN CountOf(v, k) + 1 ELSE CountOf(v, q)
  <2>1. 1 \in Nat \ {0}
    OBVIOUS
  <2>2. \A q : CountOf(Add(v, k, 1), q) = IF q = k THEN CountOf(v, k) + 1 ELSE CountOf(v, q)
    BY <1>4, <2>1, SoundAdd
  <2>. QED
    BY <1>5, <2>2
<1>. QED
  BY <1>1, <1>2, <1>3, <1>4, <1>6 DEF OnceMore

-----------------------------------------------------------------------------
(* The figures of the duplicate report.                                    *)

Pairs   == [ident : Int, param : Int]
SumRows == [functions : Int, bytes : Int, shared : Pairs, copies : Pairs, copyBytes : Pairs]

Column(gs, figure) == [g \in DOMAIN gs |-> gs[g][figure]]

\* The figures that copies under one key change, and those they leave.
LEMMA CopiedFigures ==
  ASSUME NEW sum \in SumRows, NEW kind \in {"ident", "param"}, NEW n, NEW size \in Int
  PROVE  LET s == Copied(sum, kind, n, size)
         IN  /\ s \in SumRows /\ s.functions = sum.functions /\ s.bytes = sum.bytes
             /\ s.shared[kind] = sum.shared[kind] + (IF n = 2 THEN 1 ELSE 0)
             /\ s.copies[kind] = sum.copies[kind] + 1
             /\ s.copyBytes[kind] = sum.copyBytes[kind] + size
             /\ \A k \in {"ident", "param"} : k # kind =>
                  /\ s.shared[k] = sum.shared[k] /\ s.copies[k] = sum.copies[k]
                  /\ s.copyBytes[k] = sum.copyBytes[k]
<1>. DEFINE Now(p, x) == [p EXCEPT ![kind] = x]
            a == IF n = 2 THEN sum.shared[kind] + 1 ELSE sum.shared[kind]
            b == sum.copies[kind] + 1
            c == sum.copyBytes[kind] + size
            s == Copied(sum, kind, n, size)
            s1 == [sum EXCEPT !.shared = Now(sum.shared, a)]
            s2 == [s1 EXCEPT !.copies = Now(sum.copies, b)]
            s3 == [s2 EXCEPT !.copyBytes = Now(sum.copyBytes, c)]
<1>1. /\ sum = [functions |-> sum.functions, bytes |-> sum.bytes, shared |-> sum.shared,
                copies |-> sum.copies, copyBytes |-> sum.copyBytes]
      /\ sum.functions \in Int /\ sum.bytes \in Int
      /\ sum.shared \in Pairs /\ sum.copies \in Pairs /\ sum.copyBytes \in Pairs
  BY DEF SumRows
<1>2. ASSUME NEW p \in Pairs
      PROVE  /\ p[kind] \in Int
             /\ \A x \in Int : /\ Now(p, x) \in Pairs /\ Now(p, x)[kind] = x
                               /\ \A k \in {"ident", "param"} : k # kind => Now(p, x)[k] = p[k]
  <2>1. CASE kind = "ident"
    BY <2>1 DEF Pairs
  <2>2. CASE kind = "param"
    BY <2>2 DEF Pairs
  <2>. QED
    BY <2>1, <2>2
<1>3. a \in Int /\ b \in Int /\ c \in Int
  <2>1. sum.shared[kind] \in Int /\ sum.copies[kind] \in Int /\ sum.copyBytes[kind] \in Int
    BY <1>1, <1>2
  <2>. QED
    BY <2>1
<1>4. s = s3
  BY <1>1 DEF Copied
<1>. HIDE DEF a, b, c, Now, s
<1>5. s1 = [functions |-> sum.functions, bytes |-> sum.bytes, shared |-> Now(sum.shared, a),
            copies |-> sum.copies, copyBytes |-> sum.copyBytes]
  BY <1>1
<1>. HIDE DEF s1
<1>6. s2 = [functions |-> sum.functions, bytes |-> sum.bytes, shared |-> Now(sum.shared, a),
            copies |-> Now(sum.copies, b), copyBytes |-> sum.copyBytes]
  BY <1>5
<1>. HIDE DEF s2
<1>7. s3 = [functions |-> sum.functions, bytes |-> sum.bytes, shared |-> Now(sum.shared, a),
            copies |-> Now(sum.copies, b), copyBytes |-> Now(sum.copyBytes, c)]
  BY <1>6
<1>. HIDE DEF s3
<1>8. s \in SumRows
  BY <1>1, <1>2, <1>3, <1>4, <1>7 DEF SumRows
<1>9. /\ s.functions = sum.functions /\ s.bytes = sum.bytes /\ s.shared = Now(sum.shared, a)
      /\ s.copies = Now(sum.copies, b) /\ s.copyBytes = Now(sum.copyBytes, c)
  BY <1>4, <1>7
<1>10. sum.shared[kind] \in Int /\ sum.copies[kind] \in Int /\ sum.copyBytes[kind] \in Int
  BY <1>1, <1>2
<1>11. a = sum.shared[kind] + (IF n = 2 THEN 1 ELSE 0)
  BY <1>10 DEF a
<1>12. /\ s.shared[kind] = a /\ s.copies[kind] = b /\ s.copyBytes[kind] = c
       /\ \A k \in {"ident", "param"} : k # kind =>
            /\ s.shared[k] = sum.shared[k] /\ s.copies[k] = sum.copies[k]
            /\ s.copyBytes[k] = sum.copyBytes[k]
  <2>1. sum.shared \in Pairs /\ sum.copies \in Pairs /\ sum.copyBytes \in Pairs
    BY <1>1
  <2>2. ASSUME NEW p \in Pairs, NEW x \in Int, NEW q, q = Now(p, x)
        PROVE  q[kind] = x /\ \A k \in {"ident", "param"} : k # kind => q[k] = p[k]
    BY <1>2, <2>2
  <2>3. s.shared[kind] = a /\ \A k \in {"ident", "param"} : k # kind => s.shared[k] = sum.shared[k]
    BY <1>3, <1>9, <2>1, <2>2
  <2>4. s.copies[kind] = b /\ \A k \in {"ident", "param"} : k # kind => s.copies[k] = sum.copies[k]
    BY <1>3, <1>9, <2>1, <2>2
  <2>5. s.copyBytes[kind] = c /\ \A k \in {"ident", "param"} : k # kind => s.copyBytes[k] = sum.copyBytes[k]
    BY <1>3, <1>9, <2>1, <2>2
  <2>. QED
    BY <2>3, <2>4, <2>5
<1>. QED
  BY <1>8, <1>9, <1>11, <1>12 DEF b, c, s

-----------------------------------------------------------------------------
(* A function keyed.                                                       *)

LEMMA RowChanged ==
  ASSUME NEW K, NEW x \in GroupRows(K), NEW m \in Nat, NEW n \in Nat
  PROVE  /\ LET y == Recopied(x, m, n)
            IN  /\ y.key = x.key /\ y.size = x.size /\ y.copies = m /\ y.variants = n
                /\ y.findings = x.findings /\ y.distinct = x.distinct
         /\ LET y == Recounted(x, m, n)
            IN  /\ y.key = x.key /\ y.size = x.size /\ y.copies = x.copies /\ y.variants = x.variants
                /\ y.findings = m /\ y.distinct = n
<1>. DEFINE copied == [x EXCEPT !.copies = m]
            found1 == [x EXCEPT !.findings = m]
<1>1. x = [key |-> x.key, size |-> x.size, copies |-> x.copies, variants |-> x.variants,
           findings |-> x.findings, distinct |-> x.distinct]
  BY DEF GroupRows
<1>2. /\ Recopied(x, m, n) = [copied EXCEPT !.variants = n]
      /\ Recounted(x, m, n) = [found1 EXCEPT !.distinct = n]
  BY DEF Recopied, Recounted
<1>3. /\ copied = [key |-> x.key, size |-> x.size, copies |-> m, variants |-> x.variants,
                   findings |-> x.findings, distinct |-> x.distinct]
      /\ found1 = [key |-> x.key, size |-> x.size, copies |-> x.copies, variants |-> x.variants,
                   findings |-> m, distinct |-> x.distinct]
  BY <1>1
<1>. HIDE DEF copied, found1
<1>. QED
  BY <1>2, <1>3

\* A group of one function more, or of one.
RowJoined(g, home, twin, size, param) ==
  /\ DOMAIN groups' = DOMAIN groups \cup {g}
  /\ \A h \in DOMAIN groups : h # g => groups'[h] = groups[h]
  /\ groups'[g].key = param
  /\ home = 0 =>
       /\ g \notin DOMAIN groups /\ Len(groups') = Len(groups) + 1
       /\ groups'[g].copies = 1 /\ groups'[g].variants = IF twin = 0 THEN 1 ELSE 0
       /\ groups'[g].size = size /\ groups'[g].findings = 0 /\ groups'[g].distinct = 0
  /\ home # 0 =>
       /\ g \in DOMAIN groups /\ Len(groups') = Len(groups) /\ groups[g].key = param
       /\ groups'[g].copies = groups[g].copies + 1
       /\ groups'[g].variants = groups[g].variants + (IF twin = 0 THEN 1 ELSE 0)
       /\ groups'[g].size = groups[g].size /\ groups'[g].findings = groups[g].findings
       /\ groups'[g].distinct = groups[g].distinct

SumsJoined(g, home, twin, size) ==
  /\ sums' \in SumRows
  /\ sums'.functions = sums.functions + 1 /\ sums'.bytes = sums.bytes + size
  /\ sums'.copies.param = sums.copies.param + (IF home = 0 THEN 0 ELSE 1)
  /\ sums'.copies.ident = sums.copies.ident + (IF twin = 0 THEN 0 ELSE 1)
  /\ sums'.shared.param = sums.shared.param + (IF home # 0 /\ groups[g].copies = 1 THEN 1 ELSE 0)
  /\ sums'.shared.ident = sums.shared.ident + (IF twin = 1 THEN 1 ELSE 0)
  /\ sums'.copyBytes.param = sums.copyBytes.param + (IF home = 0 THEN 0 ELSE size)

LEMMA FunctionFigures ==
  ASSUME HashIsNumber, SlotsAssumption, ReportsInv, sums \in SumRows,
         phase = "keying", next <= Len(Spans(Range1)),
         NEW f, f = Trimmed(Range1, Spans(Range1)[next]), f.end # f.start,
         AddFunction(f, IF Due(slots) THEN Regrouped ELSE slots, Grown(idents, TRUE))
  PROVE  LET param == KeysHere(f).param
             ident == KeysHere(f).ident
             size  == f.end - f.start
             home  == CountOf(slots, param)
             twin  == CountOf(idents, ident)
             g     == IF home = 0 THEN Len(groups) + 1 ELSE home
         IN  /\ size \in Nat
             /\ RowJoined(g, home, twin, size, param) /\ SumsJoined(g, home, twin, size)
             /\ idents' = Add(Grown(idents, TRUE), ident, 1)
             /\ members' = Append(members, [range |-> at, f |-> f, group |-> g, ident |-> ident, param |-> param])
<1>. DEFINE table == IF Due(slots) THEN Regrouped ELSE slots
            keys  == KeysHere(f)
            param == keys.param
            size  == f.end - f.start
            home  == CountOf(slots, param)
            twin  == CountOf(idents, keys.ident)
            g     == IF home = 0 THEN Len(groups) + 1 ELSE home
            group == IF home = 0 THEN [key |-> param, size |-> size, copies |-> 0, variants |-> 0,
                                       findings |-> 0, distinct |-> 0]
                     ELSE groups[g]
            copies   == group.copies + 1
            variants == IF twin = 0 THEN group.variants + 1 ELSE group.variants
            more     == Recopied(group, copies, variants)
            summed   == [sums EXCEPT !.functions = @ + 1, !.bytes = @ + size]
            asParam  == IF home = 0 THEN summed ELSE Copied(summed, "param", copies, size)
<1>1. /\ CountOf(table, param) = home /\ CountOf(Grown(idents, TRUE), keys.ident) = twin /\ twin \in Nat
  <2>1. \A q : CountOf(table, q) = CountOf(slots, q)
    BY RegroupedTable DEF ReportsInv, TablesOpen
  <2>2. idents = Unused \/ Sound(idents)
    BY DEF ReportsInv, TablesOpen, Open
  <2>. HIDE DEF table, keys
  <2>. QED
    BY <2>1, <2>2, FiguresAdded
<1>2. /\ groups' = IF home = 0 THEN Append(groups, more) ELSE [groups EXCEPT ![g] = more]
      /\ idents' = Add(Grown(idents, TRUE), keys.ident, 1)
      /\ sums' = IF twin = 0 THEN asParam ELSE Copied(asParam, "ident", twin + 1, size)
      /\ members' = Append(members, [range |-> at, f |-> f, group |-> g, ident |-> keys.ident, param |-> param])
  BY <1>1 DEF AddFunction, Recopied, KeysHere
<1>. HIDE DEF table, keys
<1>3. PICK K : groups \in Seq(GroupRows(K))
  BY DEF ReportsInv, GroupsFound
<1>4. size \in Nat
  <2>1. f \in Places /\ f.start <= f.end
    BY SpanKeyed DEF ReportsInv
  <2>2. f.start \in Nat /\ f.end \in Nat
    BY <2>1 DEF Places
  <2>. QED
    BY <2>1, <2>2
<1>. HIDE DEF size
<1>5. home # 0 => home \in DOMAIN groups /\ groups[home].key = param
  BY DEF ReportsInv, GroupsFound
<1>6. Len(groups) \in Nat /\ DOMAIN groups = 1 .. Len(groups)
  BY <1>3
<1>. DEFINE L == K \cup {param}
<1>. HIDE DEF home, twin
<1>7. group \in GroupRows(L) /\ group.key = param
  <2>1. CASE home = 0
    BY <1>4, <2>1 DEF GroupRows
  <2>2. CASE home # 0
    <3>1. group = groups[home] /\ groups[home] \in GroupRows(K)
      BY <1>3, <1>5, <2>2
    <3>2. GroupRows(K) \subseteq GroupRows(L)
      BY DEF GroupRows
    <3>. HIDE DEF group
    <3>. QED
      BY <1>5, <2>2, <3>1, <3>2
  <2>. QED
    BY <2>1, <2>2
<1>8. /\ home = 0 => g = Len(groups) + 1 /\ group.copies = 0 /\ group.variants = 0 /\ group.size = size
                     /\ group.findings = 0 /\ group.distinct = 0
      /\ home # 0 => g = home /\ group = groups[g]
  OBVIOUS
<1>9. copies \in Nat /\ variants \in Nat /\ group.copies \in Nat /\ group.variants \in Nat
  <2>1. group.copies \in Nat /\ group.variants \in Nat
    BY <1>7 DEF GroupRows
  <2>. HIDE DEF group
  <2>. QED
    BY <2>1
<1>. HIDE DEF group
<1>10. /\ more.key = group.key /\ more.size = group.size /\ more.copies = copies /\ more.variants = variants
       /\ more.findings = group.findings /\ more.distinct = group.distinct
  <2>. HIDE DEF copies, variants
  <2>. QED
    BY <1>7, <1>9, RowChanged
<1>. HIDE DEF more, g
<1>11. /\ DOMAIN groups' = DOMAIN groups \cup {g} /\ groups'[g] = more
       /\ \A h \in DOMAIN groups : h # g => groups'[h] = groups[h]
       /\ home = 0 => g \notin DOMAIN groups /\ Len(groups') = Len(groups) + 1
       /\ home # 0 => g \in DOMAIN groups /\ Len(groups') = Len(groups)
  <2>1. CASE home = 0
    <3>1. groups' = Append(groups, more) /\ g = Len(groups) + 1
      BY <1>2, <1>8, <2>1
    <3>. DEFINE S == GroupRows(K) \cup {more}
    <3>2. groups \in Seq(S) /\ more \in S
      BY <1>3, SeqMonotonic
    <3>. HIDE DEF S
    <3>3. /\ DOMAIN groups' = 1 .. Len(groups) + 1 /\ Len(groups') = Len(groups) + 1
          /\ groups'[Len(groups) + 1] = more /\ \A h \in 1 .. Len(groups) : groups'[h] = groups[h]
      BY <3>1, <3>2, AppendProperties, LenProperties
    <3>. QED
      BY <1>6, <2>1, <3>1, <3>3
  <2>2. CASE home # 0
    <3>1. groups' = [groups EXCEPT ![g] = more] /\ g \in DOMAIN groups
      BY <1>2, <1>5, <1>8, <2>2
    <3>2. DOMAIN groups' = DOMAIN groups /\ groups'[g] = more
      BY <3>1
    <3>3. Len(groups') = Len(groups)
      <4>. DEFINE S == GroupRows(K) \cup {more}
      <4>1. groups \in Seq(S) /\ more \in S /\ g \in 1 .. Len(groups)
        BY <1>3, <1>6, <3>1, SeqMonotonic
      <4>. HIDE DEF S
      <4>. QED
        BY <3>1, <4>1, ExceptSeq
    <3>. QED
      BY <2>2, <3>1, <3>2, <3>3
  <2>. QED
    BY <2>1, <2>2
<1>12. RowJoined(g, home, twin, size, param)
  <2>1. variants = group.variants + (IF twin = 0 THEN 1 ELSE 0)
    BY <1>9
  <2>2. groups'[g].key = param
    BY <1>7, <1>10, <1>11
  <2>3. ASSUME home = 0
        PROVE  /\ groups'[g].copies = 1 /\ groups'[g].variants = IF twin = 0 THEN 1 ELSE 0
               /\ groups'[g].size = size /\ groups'[g].findings = 0 /\ groups'[g].distinct = 0
    BY <1>8, <1>10, <1>11, <2>1, <2>3
  <2>4. ASSUME home # 0
        PROVE  /\ groups[g].key = param /\ groups'[g].copies = groups[g].copies + 1
               /\ groups'[g].variants = groups[g].variants + (IF twin = 0 THEN 1 ELSE 0)
               /\ groups'[g].size = groups[g].size /\ groups'[g].findings = groups[g].findings
               /\ groups'[g].distinct = groups[g].distinct
    <3>1. group = groups[g] /\ groups'[g] = more
      BY <1>8, <1>11, <2>4
    <3>. HIDE DEF variants
    <3>. QED
      BY <1>7, <1>10, <2>1, <3>1
  <2>. HIDE DEF copies, variants
  <2>. QED
    BY <1>11, <2>2, <2>3, <2>4 DEF RowJoined
<1>13. /\ summed \in SumRows /\ summed.functions = sums.functions + 1 /\ summed.bytes = sums.bytes + size
       /\ summed.shared = sums.shared /\ summed.copies = sums.copies /\ summed.copyBytes = sums.copyBytes
  <2>1. sums = [functions |-> sums.functions, bytes |-> sums.bytes, shared |-> sums.shared,
                copies |-> sums.copies, copyBytes |-> sums.copyBytes]
        /\ sums.functions \in Int /\ sums.bytes \in Int
    BY DEF SumRows
  <2>. DEFINE s1 == [sums EXCEPT !.functions = sums.functions + 1]
  <2>2. s1 = [functions |-> sums.functions + 1, bytes |-> sums.bytes, shared |-> sums.shared,
              copies |-> sums.copies, copyBytes |-> sums.copyBytes]
    BY <2>1
  <2>3. summed = [s1 EXCEPT !.bytes = sums.bytes + size]
    BY <2>1
  <2>. HIDE DEF s1, summed
  <2>4. summed = [functions |-> sums.functions + 1, bytes |-> sums.bytes + size, shared |-> sums.shared,
                  copies |-> sums.copies, copyBytes |-> sums.copyBytes]
    BY <2>2, <2>3
  <2>5. sums.shared \in Pairs /\ sums.copies \in Pairs /\ sums.copyBytes \in Pairs
    BY DEF SumRows
  <2>6. sums.functions + 1 \in Int /\ sums.bytes + size \in Int
    BY <1>4, <2>1
  <2>. QED
    BY <2>4, <2>5, <2>6 DEF SumRows
<1>. HIDE DEF summed
<1>14. /\ asParam \in SumRows /\ asParam.functions = summed.functions /\ asParam.bytes = summed.bytes
       /\ asParam.copies.param = summed.copies.param + (IF home = 0 THEN 0 ELSE 1)
       /\ asParam.shared.param = summed.shared.param + (IF home # 0 /\ groups[g].copies = 1 THEN 1 ELSE 0)
       /\ asParam.copyBytes.param = summed.copyBytes.param + (IF home = 0 THEN 0 ELSE size)
       /\ asParam.copies.ident = summed.copies.ident /\ asParam.shared.ident = summed.shared.ident
  <2>1. /\ summed.copies.param \in Int /\ summed.shared.param \in Int /\ summed.copyBytes.param \in Int
    BY <1>13 DEF SumRows, Pairs
  <2>2. CASE home = 0
    BY <1>13, <2>1, <2>2
  <2>3. CASE home # 0
    <3>1. asParam = Copied(summed, "param", copies, size)
      BY <2>3
    <3>2. copies = 2 <=> groups[g].copies = 1
      BY <1>8, <1>9, <2>3
    <3>. HIDE DEF asParam, copies
    <3>3. size \in Int /\ "param" \in {"ident", "param"} /\ "ident" \in {"ident", "param"}
      BY <1>4
    <3>4. /\ asParam \in SumRows /\ asParam.functions = summed.functions /\ asParam.bytes = summed.bytes
          /\ asParam.shared["param"] = summed.shared["param"] + (IF copies = 2 THEN 1 ELSE 0)
          /\ asParam.copies["param"] = summed.copies["param"] + 1
          /\ asParam.copyBytes["param"] = summed.copyBytes["param"] + size
          /\ asParam.shared["ident"] = summed.shared["ident"] /\ asParam.copies["ident"] = summed.copies["ident"]
      BY <1>13, <3>1, <3>3, CopiedFigures
    <3>. QED
      BY <2>3, <3>2, <3>4
  <2>. QED
    BY <2>2, <2>3
<1>. HIDE DEF asParam
<1>15. /\ sums' \in SumRows /\ sums'.functions = asParam.functions /\ sums'.bytes = asParam.bytes
       /\ sums'.copies.ident = asParam.copies.ident + (IF twin = 0 THEN 0 ELSE 1)
       /\ sums'.shared.ident = asParam.shared.ident + (IF twin = 1 THEN 1 ELSE 0)
       /\ sums'.copies.param = asParam.copies.param /\ sums'.shared.param = asParam.shared.param
       /\ sums'.copyBytes.param = asParam.copyBytes.param
  <2>1. asParam.copies.ident \in Int /\ asParam.shared.ident \in Int
    BY <1>14 DEF SumRows, Pairs
  <2>2. CASE twin = 0
    BY <1>2, <1>14, <2>1, <2>2
  <2>3. CASE twin # 0
    <3>1. sums' = Copied(asParam, "ident", twin + 1, size)
      BY <1>2, <2>3
    <3>2. twin + 1 = 2 <=> twin = 1
      BY <1>1
    <3>3. size \in Int /\ "param" \in {"ident", "param"} /\ "ident" \in {"ident", "param"}
      BY <1>4
    <3>. DEFINE n == twin + 1
    <3>. HIDE DEF n
    <3>4. /\ sums' \in SumRows /\ sums'.functions = asParam.functions /\ sums'.bytes = asParam.bytes
          /\ sums'.shared["ident"] = asParam.shared["ident"] + (IF n = 2 THEN 1 ELSE 0)
          /\ sums'.copies["ident"] = asParam.copies["ident"] + 1
          /\ sums'.shared["param"] = asParam.shared["param"] /\ sums'.copies["param"] = asParam.copies["param"]
          /\ sums'.copyBytes["param"] = asParam.copyBytes["param"]
      BY <1>14, <3>1, <3>3, CopiedFigures DEF n
    <3>. QED
      BY <2>3, <3>2, <3>4 DEF n
  <2>. QED
    BY <2>2, <2>3
<1>16. SumsJoined(g, home, twin, size)
  BY <1>13, <1>14, <1>15 DEF SumsJoined
<1>. QED
  BY <1>2, <1>4, <1>12, <1>16 DEF g, home, twin, size, keys

-----------------------------------------------------------------------------
(* The sums over the groups.                                               *)

Figure == {"size", "copies", "variants", "findings", "distinct"}

LEMMA GroupsAreRows ==
  ASSUME GroupsFound
  PROVE  /\ Len(groups) \in Nat /\ DOMAIN groups = 1 .. Len(groups) /\ IsFiniteSet(DOMAIN groups)
         /\ \A g \in DOMAIN groups : \A c \in Figure : groups[g][c] \in Nat
<1>1. PICK K : groups \in Seq(GroupRows(K))
  BY DEF GroupsFound
<1>2. Len(groups) \in Nat /\ DOMAIN groups = 1 .. Len(groups)
  BY <1>1
<1>3. IsFiniteSet(1 .. Len(groups))
  BY <1>2, FS_Interval
<1>4. ASSUME NEW g \in DOMAIN groups, NEW c \in Figure
      PROVE  groups[g][c] \in Nat
  <2>1. groups[g] \in GroupRows(K)
    BY <1>1
  <2>. QED
    BY <2>1 DEF GroupRows, Figure
<1>. QED
  BY <1>2, <1>3, <1>4

LEMMA ColumnChanged ==
  ASSUME GroupsFound, NEW g, DOMAIN groups' = DOMAIN groups \cup {g},
         \A h \in DOMAIN groups : h # g => groups'[h] = groups[h],
         NEW c \in Figure, groups'[g][c] \in Int
  PROVE  /\ SumFunction(Column(groups, c)) \in Int
         /\ SumFunction(Column(groups', c)) = SumFunction(Column(groups, c))
              + (IF g \in DOMAIN groups THEN groups'[g][c] - groups[g][c] ELSE groups'[g][c])
<1>. DEFINE F == Column(groups, c)
            G == Column(groups', c)
<1>1. /\ DOMAIN F = DOMAIN groups /\ DOMAIN G = DOMAIN groups' /\ G[g] = groups'[g][c]
      /\ \A h \in DOMAIN groups : F[h] = groups[h][c] /\ (h # g => G[h] = F[h])
  BY DEF Column
<1>2. IsFiniteSet(DOMAIN F) /\ \A h \in DOMAIN F : F[h] \in Int
  <2>1. \A h \in DOMAIN groups : groups[h][c] \in Nat
    BY GroupsAreRows
  <2>. QED
    BY <1>1, <2>1, GroupsAreRows
<1>. HIDE DEF F, G
<1>3. /\ SumFunction(F) \in Int
      /\ SumFunction(G) = SumFunction(F) + (IF g \in DOMAIN F THEN G[g] - F[g] ELSE G[g])
  <2>1. G[g] \in Int /\ DOMAIN G = DOMAIN F \cup {g} /\ \A h \in DOMAIN F : h # g => G[h] = F[h]
    BY <1>1
  <2>. QED
    BY <1>2, <2>1, SumChanged
<1>. QED
  BY <1>1, <1>3 DEF F, G

Shared(gs) == {g \in DOMAIN gs : gs[g].copies > 1}

GroupSums ==
  /\ sums \in SumRows
  /\ sums.functions = SumFunction(Column(groups, "copies"))
  /\ sums.copies.param = sums.functions - Len(groups)
  /\ sums.shared.param = Cardinality(Shared(groups))
  /\ sums.copyBytes.param = sums.bytes - SumFunction(Column(groups, "size"))
  /\ \A g \in DOMAIN groups : groups[g].copies > 0 /\ groups[g].size = groups[g].key[1]

LEMMA GroupSumsJoined ==
  ASSUME GroupsFound, GroupSums, NEW g, NEW home, NEW twin, NEW size \in Nat, NEW param,
         size = param[1], RowJoined(g, home, twin, size, param), SumsJoined(g, home, twin, size)
  PROVE  GroupSums'
<1>1. /\ Len(groups) \in Nat /\ IsFiniteSet(DOMAIN groups)
      /\ \A h \in DOMAIN groups : groups[h].copies \in Nat /\ groups[h].size \in Nat
  BY GroupsAreRows DEF Figure
<1>2. /\ sums.functions \in Int /\ sums.bytes \in Int /\ sums.copies.param \in Int
      /\ sums.shared.param \in Int /\ sums.copyBytes.param \in Int
  BY DEF GroupSums, SumRows, Pairs
<1>3. /\ DOMAIN groups' = DOMAIN groups \cup {g}
      /\ \A h \in DOMAIN groups : h # g => groups'[h] = groups[h]
      /\ g \in DOMAIN groups <=> home # 0
  BY DEF RowJoined
<1>4. groups'[g].copies \in Nat /\ groups'[g].size \in Nat
  BY <1>1 DEF RowJoined
<1>5. /\ SumFunction(Column(groups, "copies")) \in Int
      /\ SumFunction(Column(groups', "copies")) = SumFunction(Column(groups, "copies"))
           + (IF g \in DOMAIN groups THEN groups'[g].copies - groups[g].copies ELSE groups'[g].copies)
  <2>1. "copies" \in Figure /\ groups'[g]["copies"] \in Int
    BY <1>4 DEF Figure
  <2>. QED
    BY <1>3, <2>1, ColumnChanged
<1>6. /\ SumFunction(Column(groups, "size")) \in Int
      /\ SumFunction(Column(groups', "size")) = SumFunction(Column(groups, "size"))
           + (IF g \in DOMAIN groups THEN groups'[g].size - groups[g].size ELSE groups'[g].size)
  <2>1. "size" \in Figure /\ groups'[g]["size"] \in Int
    BY <1>4 DEF Figure
  <2>. QED
    BY <1>3, <2>1, ColumnChanged
<1>7. SumFunction(Column(groups', "copies")) = SumFunction(Column(groups, "copies")) + 1
  BY <1>1, <1>3, <1>5 DEF RowJoined
<1>8. SumFunction(Column(groups', "size")) = SumFunction(Column(groups, "size")) + (IF home = 0 THEN size ELSE 0)
  BY <1>1, <1>3, <1>6 DEF RowJoined
<1>9. Cardinality(Shared(groups')) = Cardinality(Shared(groups)) + (IF home # 0 /\ groups[g].copies = 1 THEN 1 ELSE 0)
  <2>1. IsFiniteSet(Shared(groups)) /\ Cardinality(Shared(groups)) \in Nat
    BY <1>1, FS_Subset, FS_CardinalityType DEF Shared
  <2>2. CASE home = 0
    <3>1. Shared(groups') = Shared(groups)
      BY <1>3, <2>2 DEF Shared, RowJoined
    <3>. QED
      BY <2>1, <2>2, <3>1
  <2>3. CASE home # 0
    <3>1. g \in DOMAIN groups /\ groups'[g].copies = groups[g].copies + 1 /\ groups[g].copies \in Nat
          /\ groups[g].copies > 0
      BY <1>1, <1>3, <2>3 DEF RowJoined, GroupSums
    <3>2. Shared(groups') = Shared(groups) \cup {g} /\ (g \in Shared(groups) <=> groups[g].copies # 1)
      BY <1>3, <3>1 DEF Shared
    <3>3. Cardinality(Shared(groups) \cup {g}) =
            IF g \in Shared(groups) THEN Cardinality(Shared(groups)) ELSE Cardinality(Shared(groups)) + 1
      BY <2>1, FS_AddElement
    <3>. QED
      BY <2>1, <2>3, <3>2, <3>3
  <2>. QED
    BY <2>2, <2>3
<1>10. \A h \in DOMAIN groups' : groups'[h].copies > 0 /\ groups'[h].size = groups'[h].key[1]
  <2>1. ASSUME NEW h \in DOMAIN groups'
        PROVE  groups'[h].copies > 0 /\ groups'[h].size = groups'[h].key[1]
    <3>1. CASE h # g
      BY <1>3, <3>1 DEF GroupSums
    <3>2. CASE h = g
      <4>1. groups'[g].copies > 0
        BY <1>1, <1>3 DEF RowJoined
      <4>2. groups'[g].key = param
        BY DEF RowJoined
      <4>3. groups'[g].size = param[1]
        BY <1>3 DEF RowJoined, GroupSums
      <4>. QED
        BY <3>2, <4>1, <4>2, <4>3
    <3>. QED
      BY <3>1, <3>2
  <2>. QED
    BY <2>1
<1>11. Len(groups') = Len(groups) + (IF home = 0 THEN 1 ELSE 0)
  BY <1>1 DEF RowJoined
<1>12. /\ sums' \in SumRows
       /\ sums'.functions = SumFunction(Column(groups', "copies"))
       /\ sums'.copies.param = sums'.functions - Len(groups')
       /\ sums'.shared.param = Cardinality(Shared(groups'))
       /\ sums'.copyBytes.param = sums'.bytes - SumFunction(Column(groups', "size"))
  <2>1. sums' \in SumRows
    BY DEF SumsJoined
  <2>2. sums'.functions = SumFunction(Column(groups', "copies"))
    BY <1>7 DEF SumsJoined, GroupSums
  <2>3. sums'.copies.param = sums'.functions - Len(groups')
    BY <1>1, <1>2, <1>11 DEF SumsJoined, GroupSums
  <2>4. sums'.shared.param = Cardinality(Shared(groups'))
    BY <1>9 DEF SumsJoined, GroupSums
  <2>5. sums'.copyBytes.param = sums'.bytes - SumFunction(Column(groups', "size"))
    <3>1. PICK s \in Int : s = SumFunction(Column(groups, "size"))
      BY <1>6
    <3>2. sums.copyBytes.param = sums.bytes - s
      BY <3>1 DEF GroupSums
    <3>. QED
      BY <1>2, <1>8, <3>1, <3>2 DEF SumsJoined
  <2>. QED
    BY <2>1, <2>2, <2>3, <2>4, <2>5
<1>. QED
  BY <1>10, <1>12 DEF GroupSums

-----------------------------------------------------------------------------
(* The functions under each identical key.                                 *)

IdentsIn(ms, g) == {ms[i].ident : i \in {j \in DOMAIN ms : ms[j].group = g}}

IdentSums ==
  /\ sums.functions = Len(members)
  /\ sums.copies.ident = sums.functions - Used(idents)
  /\ sums.shared.ident = Cardinality({s \in Entries(idents) : idents[s].count > 1})
  /\ \A k : CountOf(idents, k) # 0 <=> \E i \in DOMAIN members : members[i].ident = k
  /\ \A g \in DOMAIN groups : /\ IsFiniteSet(IdentsIn(members, g))
                              /\ groups[g].variants = Cardinality(IdentsIn(members, g))

\* A function of an identical key that is known is one of the group.
LEMMA TwinInGroup ==
  ASSUME MembersKept, GroupsFound, NEW r, NEW f, Fits(r, f), NEW i \in DOMAIN members,
         members[i].ident = OwnKeys(r, f).ident
  PROVE  /\ members[i].group = CountOf(slots, OwnKeys(r, f).param) /\ members[i].group \in DOMAIN groups
         /\ CountOf(slots, OwnKeys(r, f).param) # 0
<1>. DEFINE m == members[i]
            q == ranges[m.range]
<1>1. /\ Fits(q, m.f) /\ m.ident = OwnKeys(q, m.f).ident /\ m.param = OwnKeys(q, m.f).param
      /\ m.group \in DOMAIN groups /\ groups[m.group].key = m.param
  BY DEF MembersKept, Kept
<1>2. OwnKeys(q, m.f).param = OwnKeys(r, f).param
  <2>1. ASSUME NEW x, NEW h, Fits(x, h), OwnKeys(x, h).ident = OwnKeys(r, f).ident
        PROVE  OwnKeys(x, h).param = OwnKeys(r, f).param
    BY <2>1, IdentsAreParams
  <2>2. OwnKeys(q, m.f).ident = OwnKeys(r, f).ident
    BY <1>1
  <2>. HIDE DEF m, q
  <2>. QED
    BY <1>1, <2>1, <2>2
<1>3. CountOf(slots, groups[m.group].key) = m.group
  BY <1>1 DEF GroupsFound
<1>4. 0 \notin DOMAIN groups
  <2>1. Len(groups) \in Nat /\ DOMAIN groups = 1 .. Len(groups)
    BY GroupsAreRows
  <2>. QED
    BY <2>1
<1>. QED
  BY <1>1, <1>2, <1>3, <1>4

GroupFor(home) == IF home = 0 THEN Len(groups) + 1 ELSE home
MemberJoined(m) == members' = Append(members, m)

LEMMA IdentSumsJoined ==
  ASSUME HashIsNumber, SlotsAssumption, ReportsInv, MembersKept, IdentSums, sums \in SumRows,
         NEW r, NEW f, Fits(r, f), NEW param, param = OwnKeys(r, f).param,
         NEW ident, ident = OwnKeys(r, f).ident,
         NEW home, home = CountOf(slots, param), NEW twin, twin = CountOf(idents, ident),
         NEW g, g = GroupFor(home), NEW size,
         RowJoined(g, home, twin, size, param), SumsJoined(g, home, twin, size),
         idents' = Add(Grown(idents, TRUE), ident, 1),
         NEW m, m.ident = ident, m.group = g, MemberJoined(m)
  PROVE  IdentSums'
<1>1. /\ twin \in Nat /\ Used(idents) \in Nat
      /\ \A q : CountOf(idents', q) = IF q = ident THEN twin + 1 ELSE CountOf(idents, q)
      /\ Used(idents') = Used(idents) + (IF twin = 0 THEN 1 ELSE 0)
      /\ Cardinality({s \in Entries(idents') : idents'[s].count > 1})
           = Cardinality({s \in Entries(idents) : idents[s].count > 1}) + (IF twin = 1 THEN 1 ELSE 0)
  <2>1. idents = Unused \/ Sound(idents)
    BY DEF ReportsInv, TablesOpen, Open
  <2>2. /\ twin \in Nat /\ Figures(idents).used \in Nat
        /\ \A q : CountOf(idents', q) = IF q = ident THEN twin + 1 ELSE CountOf(idents, q)
        /\ Figures(idents').used = Figures(idents).used + (IF twin = 0 THEN 1 ELSE 0)
        /\ Figures(idents').shared = Figures(idents).shared + (IF twin = 1 THEN 1 ELSE 0)
    <3>1. OnceMore(idents, idents', ident, twin)
      BY <2>1, CountedOnce
    <3>. QED
      BY <3>1 DEF OnceMore
  <2>. QED
    BY <2>2 DEF Figures
<1>2. PICK S : members \in Seq(S)
  BY DEF MembersKept
<1>. DEFINE T == S \cup {m}
<1>3. members \in Seq(T) /\ m \in T
  BY <1>2, SeqMonotonic
<1>. HIDE DEF T
<1>4. /\ Len(members) \in Nat /\ DOMAIN members = 1 .. Len(members)
      /\ Len(members') = Len(members) + 1 /\ DOMAIN members' = 1 .. Len(members) + 1
      /\ members'[Len(members) + 1] = m /\ \A i \in 1 .. Len(members) : members'[i] = members[i]
  BY <1>3, AppendProperties, LenProperties DEF MemberJoined
<1>5. \A h : IdentsIn(members', h) = IF h = g THEN IdentsIn(members, h) \cup {ident} ELSE IdentsIn(members, h)
  <2>1. ASSUME NEW h
        PROVE  IdentsIn(members', h) \subseteq IdentsIn(members, h) \cup (IF h = g THEN {ident} ELSE {})
    <3>1. \A i \in DOMAIN members' : i = Len(members) + 1 \/ (i \in DOMAIN members /\ members'[i] = members[i])
      BY <1>4
    <3>. QED
      BY <1>4, <3>1 DEF IdentsIn
  <2>2. ASSUME NEW h
        PROVE  IdentsIn(members, h) \subseteq IdentsIn(members', h)
    <3>1. \A i \in DOMAIN members : i \in DOMAIN members' /\ members'[i] = members[i]
      BY <1>4
    <3>. QED
      BY <3>1 DEF IdentsIn
  <2>3. ident \in IdentsIn(members', g)
    <3>1. Len(members) + 1 \in DOMAIN members' /\ members'[Len(members) + 1].group = g
          /\ members'[Len(members) + 1].ident = ident
      BY <1>4
    <3>. QED
      BY <3>1 DEF IdentsIn
  <2>. QED
    BY <2>1, <2>2, <2>3
<1>6. \A k : CountOf(idents', k) # 0 <=> \E i \in DOMAIN members' : members'[i].ident = k
  <2>1. ASSUME NEW k
        PROVE  (\E i \in DOMAIN members' : members'[i].ident = k)
                 <=> (k = ident \/ \E i \in DOMAIN members : members[i].ident = k)
    <3>1. \A i \in DOMAIN members' : i = Len(members) + 1 \/ (i \in DOMAIN members /\ members'[i] = members[i])
      BY <1>4
    <3>2. \A i \in DOMAIN members : i \in DOMAIN members' /\ members'[i] = members[i]
      BY <1>4
    <3>3. Len(members) + 1 \in DOMAIN members'
      BY <1>4
    <3>. QED
      BY <1>4, <3>1, <3>2, <3>3
  <2>2. ASSUME NEW k
        PROVE  CountOf(idents', k) # 0 <=> (k = ident \/ CountOf(idents, k) # 0)
    <3>1. CASE k = ident
      <4>1. CountOf(idents', k) = twin + 1
        BY <1>1, <3>1
      <4>2. twin + 1 # 0
        BY <1>1
      <4>. QED
        BY <3>1, <4>1, <4>2
    <3>2. CASE k # ident
      BY <1>1, <3>2
    <3>. QED
      BY <3>1, <3>2
  <2>. QED
    BY <2>1, <2>2 DEF IdentSums
<1>7. twin # 0 => home # 0 /\ ident \in IdentsIn(members, g)
  <2>. SUFFICES ASSUME twin # 0
                PROVE  home # 0 /\ ident \in IdentsIn(members, g)
    OBVIOUS
  <2>1. PICK i \in DOMAIN members : members[i].ident = ident
    BY DEF IdentSums
  <2>2. members[i].group = home /\ home # 0
    BY <2>1, TwinInGroup DEF ReportsInv, GroupFor
  <2>. QED
    BY <2>1, <2>2 DEF IdentsIn, GroupFor
<1>8. twin = 0 => \A h : ident \notin IdentsIn(members, h)
  BY DEF IdentSums, IdentsIn
<1>9. \A h : h \notin DOMAIN groups => IdentsIn(members, h) = {}
  BY DEF MembersKept, Kept, IdentsIn
<1>10. ASSUME NEW h \in DOMAIN groups'
       PROVE  /\ IsFiniteSet(IdentsIn(members', h))
              /\ groups'[h].variants = Cardinality(IdentsIn(members', h))
  <2>1. CASE h # g
    <3>1. h \in DOMAIN groups /\ groups'[h] = groups[h]
      BY <2>1 DEF RowJoined
    <3>. QED
      BY <1>5, <2>1, <3>1 DEF IdentSums
  <2>2. CASE h = g
    <3>. DEFINE I == IdentsIn(members, g)
    <3>1. IdentsIn(members', h) = I \cup {ident} /\ (ident \in I <=> twin # 0)
      BY <1>5, <1>7, <1>8, <2>2
    <3>2. IsFiniteSet(I) /\ groups'[g].variants = Cardinality(I) + (IF twin = 0 THEN 1 ELSE 0)
      <4>1. CASE home = 0
        <5>1. I = {} /\ twin = 0
          BY <1>7, <1>9, <4>1 DEF RowJoined
        <5>2. groups'[g].variants = 1
          BY <4>1, <5>1 DEF RowJoined
        <5>3. IsFiniteSet(I) /\ Cardinality(I) = 0
          BY <5>1, FS_EmptySet
        <5>. QED
          BY <5>1, <5>2, <5>3
      <4>2. CASE home # 0
        BY <4>2 DEF RowJoined, IdentSums
      <4>. QED
        BY <4>1, <4>2
    <3>. HIDE DEF I
    <3>3. /\ IsFiniteSet(I \cup {ident}) /\ Cardinality(I) \in Nat
          /\ Cardinality(I \cup {ident}) = IF ident \in I THEN Cardinality(I) ELSE Cardinality(I) + 1
      BY <3>2, FS_AddElement, FS_CardinalityType
    <3>4. IsFiniteSet(IdentsIn(members', h))
      BY <3>1, <3>3
    <3>5. Cardinality(IdentsIn(members', h)) = Cardinality(I) + (IF twin = 0 THEN 1 ELSE 0)
      BY <3>1, <3>3
    <3>. QED
      BY <2>2, <3>2, <3>4, <3>5
  <2>. QED
    BY <2>1, <2>2
<1>11. sums.functions \in Int /\ sums.copies.ident \in Int /\ sums.shared.ident \in Int
  BY DEF SumRows, Pairs
<1>12. /\ sums'.functions = Len(members')
       /\ sums'.copies.ident = sums'.functions - Used(idents')
  <2>1. sums'.functions = Len(members')
    BY <1>4 DEF SumsJoined, IdentSums
  <2>2. sums.copies.ident = sums.functions - Used(idents)
    BY DEF IdentSums
  <2>3. sums'.copies.ident = sums.copies.ident + (IF twin = 0 THEN 0 ELSE 1) /\ sums'.functions = sums.functions + 1
    BY DEF SumsJoined
  <2>4. Used(idents) \in Nat /\ Used(idents') = Used(idents) + (IF twin = 0 THEN 1 ELSE 0)
    BY <1>1
  <2>. DEFINE a == sums.copies.ident
              b == sums.functions
              c == Used(idents)
              d == sums'.copies.ident
              e == sums'.functions
              h == Used(idents')
  <2>5. /\ a \in Int /\ b \in Int /\ c \in Nat /\ a = b - c /\ e = b + 1
        /\ d = a + (IF twin = 0 THEN 0 ELSE 1) /\ h = c + (IF twin = 0 THEN 1 ELSE 0)
    BY <1>11, <2>2, <2>3, <2>4
  <2>. HIDE DEF a, b, c, d, e, h
  <2>6. d = e - h
    BY <2>5
  <2>. QED
    BY <2>1, <2>6 DEF d, e, h
<1>13. sums'.shared.ident = Cardinality({s \in Entries(idents') : idents'[s].count > 1})
  BY <1>1 DEF SumsJoined, IdentSums
<1>. QED
  BY <1>6, <1>10, <1>12, <1>13 DEF IdentSums

-----------------------------------------------------------------------------
(* Findings of the groups and repeats by type.                             *)

RepeatSums ==
  /\ IsFiniteSet(DOMAIN types) /\ DOMAIN types \subseteq Types
  /\ \A t \in DOMAIN types : types[t].repeats \in Nat
  /\ SumFunction(Column(groups, "findings")) - SumFunction(Column(groups, "distinct"))
       = SumFunction(Column(types, "repeats"))

SumInv == GroupSums /\ IdentSums /\ RepeatSums

\* A group with one finding more, and a type with one.
RowNoted(g, again) ==
  /\ g \in DOMAIN groups /\ DOMAIN groups' = DOMAIN groups /\ Len(groups') = Len(groups)
  /\ \A h \in DOMAIN groups : h # g => groups'[h] = groups[h]
  /\ groups'[g].key = groups[g].key /\ groups'[g].size = groups[g].size
  /\ groups'[g].copies = groups[g].copies /\ groups'[g].variants = groups[g].variants
  /\ groups'[g].findings = groups[g].findings + 1
  /\ groups'[g].distinct = groups[g].distinct + (IF again THEN 0 ELSE 1)
TypeNoted(type, again) ==
  /\ DOMAIN types' = DOMAIN types \cup {type}
  /\ \A t \in DOMAIN types : t # type => types'[t] = types[t]
  /\ types'[type].repeats = (IF type \in DOMAIN types THEN types[type].repeats ELSE 0) + (IF again THEN 1 ELSE 0)

LEMMA FindingFigures ==
  ASSUME ReportsInv, RepeatSums, TypesFit, NEW f, f.type \in Types, NEW vaddr, NEW fits, Note(f, vaddr, fits)
  PROVE  \E again \in BOOLEAN :
           /\ TypeNoted(f.type, again)
           /\ (groups' = groups /\ ~again) \/ \E g \in DOMAIN groups : RowNoted(g, again)
<1>. DEFINE u     == UnitOf(vaddr)
            i     == CHOOSE i \in u : TRUE
            g     == units[i].group
            key   == <<g, vaddr - units[i].start, f.type>>
            table == Grown(seen, "seen" \in fits)
            again == u # {} /\ ~(u # {} /\ NoRoom(seen, fits)) /\ CountOf(table, key) > 0
            m     == groups[g].findings + 1
            n     == IF again THEN groups[g].distinct ELSE groups[g].distinct + 1
            more  == Recounted(groups[g], m, n)
            known == f.type \in DOMAIN types
            old   == IF known THEN types[f.type] ELSE [count |-> 0, repeats |-> 0]
            now   == [count |-> old.count + 1, repeats |-> IF again THEN old.repeats + 1 ELSE old.repeats]
<1>1. again \in BOOLEAN
  OBVIOUS
<1>2. groups' = IF u = {} THEN groups ELSE [groups EXCEPT ![g] = more]
  BY DEF Note, Recounted
<1>3. types' = With(types, f.type, now)
  <2>1. known \/ Cardinality(DOMAIN types) < SummaryMax
    BY RoomForType DEF RepeatSums
  <2>. QED
    BY <2>1 DEF Note
<1>4. u = {} => ~again
  OBVIOUS
<1>5. u # {} => i \in DOMAIN units
  <2>1. u # {} => i \in u
    OBVIOUS
  <2>. QED
    BY <2>1, UnitFound DEF ReportsInv
<1>6. u # {} => g \in DOMAIN groups
  BY <1>5 DEF ReportsInv, UnitsInOrder
<1>. HIDE DEF again, g, u
<1>7. TypeNoted(f.type, again)
  <2>1. now.repeats = old.repeats + (IF again THEN 1 ELSE 0)
    <3>1. old.repeats \in Nat
      BY DEF RepeatSums
    <3>2. now.repeats = IF again THEN old.repeats + 1 ELSE old.repeats
      OBVIOUS
    <3>. HIDE DEF old, now
    <3>. QED
      BY <3>1, <3>2
  <2>2. old.repeats = IF known THEN types[f.type].repeats ELSE 0
    OBVIOUS
  <2>. HIDE DEF now, old
  <2>3. /\ DOMAIN types' = DOMAIN types \cup {f.type} /\ types'[f.type] = now
        /\ \A t \in DOMAIN types : t # f.type => types'[t] = types[t]
    BY <1>3 DEF With
  <2>. QED
    BY <2>1, <2>2, <2>3 DEF TypeNoted
<1>8. CASE u = {}
  BY <1>1, <1>2, <1>4, <1>7, <1>8
<1>9. CASE u # {}
  <2>1. PICK K : groups \in Seq(GroupRows(K))
    BY DEF ReportsInv, GroupsFound
  <2>2. groups[g] \in GroupRows(K) /\ g \in DOMAIN groups
    BY <1>6, <1>9, <2>1
  <2>3. m \in Nat /\ n \in Nat /\ n = groups[g].distinct + (IF again THEN 0 ELSE 1)
    <3>1. groups[g].findings \in Nat /\ groups[g].distinct \in Nat
      BY <2>2 DEF GroupRows
    <3>. QED
      BY <3>1
  <2>4. /\ more.key = groups[g].key /\ more.size = groups[g].size
        /\ more.copies = groups[g].copies /\ more.variants = groups[g].variants
        /\ more.findings = m /\ more.distinct = n
    <3>. HIDE DEF m, n
    <3>. QED
      BY <2>2, <2>3, RowChanged
  <2>. HIDE DEF more, n
  <2>5. groups' = [groups EXCEPT ![g] = more]
    BY <1>2, <1>9
  <2>6. /\ DOMAIN groups' = DOMAIN groups /\ groups'[g] = more
        /\ \A h \in DOMAIN groups : h # g => groups'[h] = groups[h]
    BY <2>2, <2>5
  <2>7. Len(groups') = Len(groups)
    <3>. DEFINE S == GroupRows(K) \cup {more}
    <3>1. groups \in Seq(S) /\ more \in S /\ g \in 1 .. Len(groups)
      BY <2>1, <2>2, SeqMonotonic
    <3>. HIDE DEF S
    <3>. QED
      BY <2>5, <3>1, ExceptSeq
  <2>8. RowNoted(g, again)
    BY <2>2, <2>3, <2>4, <2>6, <2>7 DEF RowNoted
  <2>. QED
    BY <1>1, <1>7, <2>2, <2>8
<1>. QED
  BY <1>8, <1>9

LEMMA RepeatsAdded ==
  ASSUME RepeatSums, NEW type \in Types, NEW again \in BOOLEAN, TypeNoted(type, again)
  PROVE  /\ IsFiniteSet(DOMAIN types') /\ DOMAIN types' \subseteq Types
         /\ \A t \in DOMAIN types' : types'[t].repeats \in Nat
         /\ SumFunction(Column(types, "repeats")) \in Int
         /\ SumFunction(Column(types', "repeats")) = SumFunction(Column(types, "repeats")) + (IF again THEN 1 ELSE 0)
<1>. DEFINE F == Column(types, "repeats")
            G == Column(types', "repeats")
<1>1. /\ IsFiniteSet(DOMAIN types) /\ DOMAIN types \subseteq Types
      /\ \A t \in DOMAIN types : types[t].repeats \in Nat
  BY DEF RepeatSums
<1>2. /\ DOMAIN types' = DOMAIN types \cup {type}
      /\ \A t \in DOMAIN types : t # type => types'[t] = types[t]
      /\ types'[type].repeats = (IF type \in DOMAIN types THEN types[type].repeats ELSE 0) + (IF again THEN 1 ELSE 0)
  BY DEF TypeNoted
<1>3. types'[type].repeats \in Nat
  BY <1>1, <1>2
<1>4. \A t \in DOMAIN types' : types'[t].repeats \in Nat
  BY <1>1, <1>2, <1>3
<1>5. IsFiniteSet(DOMAIN types') /\ DOMAIN types' \subseteq Types
  BY <1>1, <1>2, FS_AddElement
<1>6. /\ DOMAIN F = DOMAIN types /\ DOMAIN G = DOMAIN types' /\ G[type] = types'[type].repeats
      /\ \A t \in DOMAIN types : F[t] = types[t].repeats /\ (t # type => G[t] = F[t])
  BY <1>2 DEF Column
<1>. HIDE DEF F, G
<1>7. /\ SumFunction(F) \in Int
      /\ SumFunction(G) = SumFunction(F) + (IF type \in DOMAIN F THEN G[type] - F[type] ELSE G[type])
  <2>1. /\ IsFiniteSet(DOMAIN F) /\ \A t \in DOMAIN F : F[t] \in Int
        /\ G[type] \in Int /\ DOMAIN G = DOMAIN F \cup {type} /\ \A t \in DOMAIN F : t # type => G[t] = F[t]
    BY <1>1, <1>2, <1>3, <1>6
  <2>. QED
    BY <2>1, SumChanged
<1>8. (IF type \in DOMAIN F THEN G[type] - F[type] ELSE G[type]) = IF again THEN 1 ELSE 0
  <2>1. CASE type \in DOMAIN types
    <3>1. F[type] \in Nat /\ G[type] = F[type] + (IF again THEN 1 ELSE 0)
      BY <1>1, <1>2, <1>6, <2>1
    <3>. QED
      BY <1>6, <2>1, <3>1
  <2>2. CASE type \notin DOMAIN types
    <3>1. G[type] = 0 + (IF again THEN 1 ELSE 0)
      BY <1>2, <1>6, <2>2
    <3>. QED
      BY <1>6, <2>2, <3>1
  <2>. QED
    BY <2>1, <2>2
<1>. QED
  BY <1>4, <1>5, <1>7, <1>8 DEF F, G

LEMMA RepeatSumsJoined ==
  ASSUME GroupsFound, RepeatSums, NEW g, NEW home, NEW twin, NEW size, NEW param,
         RowJoined(g, home, twin, size, param), types' = types
  PROVE  RepeatSums'
<1>1. \A h \in DOMAIN groups : groups[h].findings \in Nat /\ groups[h].distinct \in Nat
  BY GroupsAreRows DEF Figure
<1>2. /\ DOMAIN groups' = DOMAIN groups \cup {g}
      /\ \A h \in DOMAIN groups : h # g => groups'[h] = groups[h]
  BY DEF RowJoined
<1>3. ASSUME NEW c \in {"findings", "distinct"}
      PROVE  SumFunction(Column(groups', c)) = SumFunction(Column(groups, c))
  <2>1. \/ home = 0 /\ g \notin DOMAIN groups /\ groups'[g][c] = 0
        \/ home # 0 /\ g \in DOMAIN groups /\ groups'[g][c] = groups[g][c]
    BY DEF RowJoined
  <2>2. groups'[g][c] \in Int /\ c \in Figure
    BY <1>1, <2>1 DEF Figure
  <2>3. /\ SumFunction(Column(groups, c)) \in Int
        /\ SumFunction(Column(groups', c)) = SumFunction(Column(groups, c))
             + (IF g \in DOMAIN groups THEN groups'[g][c] - groups[g][c] ELSE groups'[g][c])
    BY <1>2, <2>2, ColumnChanged
  <2>. QED
    BY <2>1, <2>2, <2>3
<1>4. /\ SumFunction(Column(groups', "findings")) = SumFunction(Column(groups, "findings"))
      /\ SumFunction(Column(groups', "distinct")) = SumFunction(Column(groups, "distinct"))
  BY <1>3
<1>. QED
  BY <1>4 DEF RepeatSums

\* A finding leaves the functions' figures, and adds to both sides of the
\* repeats' sum or to neither.
LEMMA SumsNoted ==
  ASSUME ReportsInv, SumInv, TypesFit, NEW f, f.type \in Types, NEW vaddr, NEW fits, Note(f, vaddr, fits),
         UNCHANGED <<sums, idents, members>>
  PROVE  SumInv'
<1>. USE DEF SumInv
<1>1. PICK again \in BOOLEAN :
        /\ TypeNoted(f.type, again)
        /\ (groups' = groups /\ ~again) \/ \E g \in DOMAIN groups : RowNoted(g, again)
  BY FindingFigures
<1>2. /\ IsFiniteSet(DOMAIN types') /\ DOMAIN types' \subseteq Types
      /\ \A t \in DOMAIN types' : types'[t].repeats \in Nat
      /\ SumFunction(Column(types, "repeats")) \in Int
      /\ SumFunction(Column(types', "repeats")) = SumFunction(Column(types, "repeats")) + (IF again THEN 1 ELSE 0)
  BY <1>1, RepeatsAdded
<1>3. CASE groups' = groups /\ ~again
  <2>1. GroupSums' /\ IdentSums'
    BY <1>3 DEF GroupSums, IdentSums
  <2>2. SumFunction(Column(types', "repeats")) = SumFunction(Column(types, "repeats"))
    BY <1>2, <1>3
  <2>3. RepeatSums'
    BY <1>2, <1>3, <2>2 DEF RepeatSums
  <2>. QED
    BY <2>1, <2>3
<1>4. CASE \E g \in DOMAIN groups : RowNoted(g, again)
  <2>1. PICK g \in DOMAIN groups : RowNoted(g, again)
    BY <1>4
  <2>2. \A h \in DOMAIN groups : \A c \in Figure : groups[h][c] \in Nat
    BY GroupsAreRows DEF ReportsInv
  <2>3. /\ DOMAIN groups' = DOMAIN groups /\ Len(groups') = Len(groups)
        /\ \A h \in DOMAIN groups : h # g => groups'[h] = groups[h]
        /\ groups'[g].key = groups[g].key /\ groups'[g].size = groups[g].size
        /\ groups'[g].copies = groups[g].copies /\ groups'[g].variants = groups[g].variants
        /\ groups'[g].findings = groups[g].findings + 1
        /\ groups'[g].distinct = groups[g].distinct + (IF again THEN 0 ELSE 1)
    BY <2>1 DEF RowNoted
  <2>4. \A h \in DOMAIN groups : /\ groups'[h].key = groups[h].key /\ groups'[h].size = groups[h].size
                                 /\ groups'[h].copies = groups[h].copies /\ groups'[h].variants = groups[h].variants
    BY <2>3
  <2>5. /\ Column(groups', "copies") = Column(groups, "copies") /\ Column(groups', "size") = Column(groups, "size")
        /\ Shared(groups') = Shared(groups)
    BY <2>3, <2>4 DEF Column, Shared
  <2>6. GroupSums'
    BY <2>3, <2>4, <2>5 DEF GroupSums
  <2>7. IdentSums'
    BY <2>3, <2>4 DEF IdentSums
  <2>8. ASSUME NEW c \in Figure, groups'[g][c] \in Int
        PROVE  /\ SumFunction(Column(groups, c)) \in Int
               /\ SumFunction(Column(groups', c)) = SumFunction(Column(groups, c)) + (groups'[g][c] - groups[g][c])
    <3>1. DOMAIN groups' = DOMAIN groups \cup {g}
      BY <2>3
    <3>2. SumFunction(Column(groups', c)) = SumFunction(Column(groups, c))
            + (IF g \in DOMAIN groups THEN groups'[g][c] - groups[g][c] ELSE groups'[g][c])
      BY <2>3, <2>8, <3>1, ColumnChanged DEF ReportsInv
    <3>3. SumFunction(Column(groups, c)) \in Int
      BY <2>3, <2>8, <3>1, ColumnChanged DEF ReportsInv
    <3>. QED
      BY <3>2, <3>3
  <2>9. /\ groups[g].findings \in Nat /\ groups[g].distinct \in Nat
        /\ groups'[g].findings \in Int /\ groups'[g].distinct \in Int
        /\ groups'[g].findings - groups[g].findings = 1
        /\ groups'[g].distinct - groups[g].distinct = IF again THEN 0 ELSE 1
    <3>1. groups[g].findings \in Nat /\ groups[g].distinct \in Nat
      BY <2>2 DEF Figure
    <3>. QED
      BY <2>3, <3>1
  <2>10. /\ SumFunction(Column(groups, "findings")) \in Int
         /\ SumFunction(Column(groups', "findings")) = SumFunction(Column(groups, "findings")) + 1
    <3>1. "findings" \in Figure
      BY DEF Figure
    <3>. QED
      BY <2>8, <2>9, <3>1
  <2>11. /\ SumFunction(Column(groups, "distinct")) \in Int
         /\ SumFunction(Column(groups', "distinct")) = SumFunction(Column(groups, "distinct")) + (IF again THEN 0 ELSE 1)
    <3>1. "distinct" \in Figure
      BY DEF Figure
    <3>. QED
      BY <2>8, <2>9, <3>1
  <2>12. SumFunction(Column(groups', "findings")) - SumFunction(Column(groups', "distinct"))
           = SumFunction(Column(types', "repeats"))
    <3>1. SumFunction(Column(groups, "findings")) - SumFunction(Column(groups, "distinct"))
            = SumFunction(Column(types, "repeats"))
      BY DEF RepeatSums
    <3>. QED
      BY <1>2, <2>10, <2>11, <3>1
  <2>13. RepeatSums'
    BY <1>2, <2>12 DEF RepeatSums
  <2>. QED
    BY <2>6, <2>7, <2>13
<1>. QED
  BY <1>1, <1>3, <1>4

-----------------------------------------------------------------------------
(* The figures of every state.                                             *)

LEMMA SumsStay ==
  ASSUME SumInv, UNCHANGED <<groups, idents, sums, members, types>>
  PROVE  SumInv'
BY DEF SumInv, GroupSums, IdentSums, RepeatSums

\* A growth alone leaves what the table of identical keys counts.
LEMMA SumsGrown ==
  ASSUME HashIsNumber, SlotsAssumption, ReportsInv, SumInv, UNCHANGED <<groups, sums, members, types>>,
         idents' \in {idents, Grown(idents, TRUE)}
  PROVE  SumInv'
<1>1. idents = Unused \/ Sound(idents)
  BY DEF ReportsInv, TablesOpen, Open
<1>. DEFINE u == Grown(idents, TRUE)
<1>2. Sound(u) /\ \A q : CountOf(u, q) = CountOf(idents, q)
  BY <1>1, RoomToAdd
<1>. HIDE DEF u
<1>3. Figures(u) = Figures(idents)
  BY <1>1, <1>2, SameFigures
<1>4. idents' = idents \/ idents' = u
  BY DEF u
<1>5. Figures(idents') = Figures(idents) /\ \A q : CountOf(idents', q) = CountOf(idents, q)
  BY <1>2, <1>3, <1>4
<1>6. /\ Used(idents') = Used(idents)
      /\ Cardinality({s \in Entries(idents') : idents'[s].count > 1})
           = Cardinality({s \in Entries(idents) : idents[s].count > 1})
  BY <1>5 DEF Figures
<1>7. GroupSums' /\ RepeatSums'
  BY DEF SumInv, GroupSums, RepeatSums
<1>8. IdentSums'
  <2>1. \A k : CountOf(idents', k) # 0 <=> \E i \in DOMAIN members' : members'[i].ident = k
    BY <1>5 DEF SumInv, IdentSums
  <2>. QED
    BY <1>6, <2>1 DEF SumInv, IdentSums
<1>. QED
  BY <1>7, <1>8 DEF SumInv

LEMMA KeyFunctionSums ==
  ASSUME HashIsNumber, SlotsAssumption, ReportsInv, MembersKept, SumInv, KeyFunction
  PROVE  SumInv'
<1>. DEFINE f     == Trimmed(Range1, Spans(Range1)[next])
            table == IF Due(slots) THEN Regrouped ELSE slots
<1>1. phase = "keying" /\ next <= Len(Spans(Range1)) /\ types' = types
  BY DEF KeyFunction, found
<1>2. \/ UNCHANGED <<groups, sums, members>> /\ idents' \in {idents, Grown(idents, TRUE)}
      \/ f.end # f.start /\ AddFunction(f, table, Grown(idents, TRUE))
  BY DEF KeyFunction, dedup
<1>3. CASE UNCHANGED <<groups, sums, members>> /\ idents' \in {idents, Grown(idents, TRUE)}
  BY <1>1, <1>3, SumsGrown
<1>4. CASE f.end # f.start /\ AddFunction(f, table, Grown(idents, TRUE))
  <2>. DEFINE param == KeysHere(f).param
              ident == KeysHere(f).ident
              size  == f.end - f.start
              home  == CountOf(slots, param)
              twin  == CountOf(idents, ident)
              g     == GroupFor(home)
              m     == [range |-> at, f |-> f, group |-> g, ident |-> ident, param |-> param]
  <2>1. sums \in SumRows /\ GroupsFound /\ GroupSums /\ IdentSums /\ RepeatSums
    BY DEF SumInv, GroupSums, ReportsInv
  <2>2. /\ size \in Nat
        /\ RowJoined(g, home, twin, size, param) /\ SumsJoined(g, home, twin, size)
        /\ idents' = Add(Grown(idents, TRUE), ident, 1) /\ MemberJoined(m)
    BY <1>1, <1>4, <2>1, FunctionFigures DEF GroupFor, MemberJoined
  <2>3. Fits(Range1, f) /\ KeysHere(f) = OwnKeys(Range1, f)
    <3>. DEFINE span == Spans(Range1)[next]
    <3>1. Fits(Range1, span)
      BY <1>1, RangeScanned, SpanKeyed DEF ReportsInv, Fits
    <3>2. Fits(Range1, f) /\ Marks(Range1, f) = Marks(Range1, span)
      BY <3>1, TrimmedFits, MarksTrimmed
    <3>. QED
      BY <3>2 DEF KeysHere, OwnKeys
  <2>4. size = param[1] /\ param = OwnKeys(Range1, f).param /\ ident = OwnKeys(Range1, f).ident
    BY <2>3, KeysAre DEF Lists
  <2>5. m.ident = ident /\ m.group = g
    OBVIOUS
  <2>6. home = CountOf(slots, param) /\ twin = CountOf(idents, ident) /\ g = GroupFor(home)
    OBVIOUS
  <2>. HIDE DEF param, ident, size, home, twin, g, m, f
  <2>7. GroupSums'
    BY <2>1, <2>2, <2>4, GroupSumsJoined
  <2>8. IdentSums'
    BY <2>1, <2>2, <2>3, <2>4, <2>5, <2>6, IdentSumsJoined
  <2>9. RepeatSums'
    BY <1>1, <2>1, <2>2, RepeatSumsJoined
  <2>. QED
    BY <2>7, <2>8, <2>9 DEF SumInv
<1>. QED
  BY <1>2, <1>3, <1>4

LEMMA EmitsSums ==
  ASSUME TypesFit, ReportsInv, SumInv, Emits
  PROVE  SumInv'
<1>1. PICK f \in Findings(ranges), s \in Sites \cup {NoValue} : EmitFinding(f, Sites \ {s})
  BY DEF Emits
<1>2. Note(f, Range1.base + f.at, Sites \ {s}) /\ UNCHANGED <<sums, idents, members>>
  BY <1>1 DEF EmitFinding
<1>3. f.type \in Types
  BY FindingFits DEF ReportsInv
<1>. QED
  BY <1>2, <1>3, SumsNoted

LEMMA SumsStep ==
  ASSUME HashIsNumber, TypesFit, ReportsInv, MembersKept, SumInv, [Next]_vars
  PROVE  SumInv'
<1>1. SlotsAssumption
  BY SlotsAssumption DEF SlotsAssumption
<1>2. CASE KeyFunction
  BY <1>1, <1>2, KeyFunctionSums
<1>3. CASE Emits
  BY <1>3, EmitsSums
<1>4. CASE UNCHANGED <<groups, idents, sums, members, types>>
  BY <1>4, SumsStay
<1>5. Keyed \/ ScanConstants \/ FinishRange \/ UNCHANGED vars => UNCHANGED <<groups, idents, sums, members, types>>
  BY DEF Keyed, ScanConstants, FinishRange, vars, dedup, found
<1>. QED
  BY <1>2, <1>3, <1>4, <1>5 DEF Next

LEMMA SumsAtFirst ==
  ASSUME Init
  PROVE  SumInv
<1>1. /\ groups = <<>> /\ idents = Unused /\ members = <<>> /\ DOMAIN types = {}
      /\ DOMAIN groups = {} /\ DOMAIN members = {} /\ Len(groups) = 0 /\ Len(members) = 0
  BY DEF Init, Nothing
<1>2. /\ sums = [functions |-> 0, bytes |-> 0, shared |-> [ident |-> 0, param |-> 0],
                 copies |-> [ident |-> 0, param |-> 0], copyBytes |-> [ident |-> 0, param |-> 0]]
  BY DEF Init
<1>3. \A c : SumFunction(Column(groups, c)) = 0
  <2>1. \A c : DOMAIN Column(groups, c) = {}
    BY <1>1 DEF Column
  <2>. QED
    BY <2>1, SumOfNothing
<1>4. SumFunction(Column(types, "repeats")) = 0
  <2>1. DOMAIN Column(types, "repeats") = {}
    BY <1>1 DEF Column
  <2>. QED
    BY <2>1, SumOfNothing
<1>5. GroupSums
  <2>1. Shared(groups) = {} /\ Cardinality({}) = 0
    BY <1>1, FS_EmptySet DEF Shared
  <2>2. sums \in SumRows
    BY <1>2 DEF SumRows, Pairs
  <2>. QED
    BY SMTT(30), <1>1, <1>2, <1>3, <2>1, <2>2 DEF GroupSums
<1>6. IdentSums
  <2>1. Used(idents) = 0 /\ Entries(idents) = {} /\ \A q : CountOf(idents, q) = 0
    BY <1>1, UnusedTable
  <2>2. {s \in Entries(idents) : idents[s].count > 1} = {} /\ Cardinality({}) = 0
    BY <2>1, FS_EmptySet
  <2>. QED
    BY <1>1, <1>2, <2>1, <2>2 DEF IdentSums
<1>7. RepeatSums
  BY <1>1, <1>3, <1>4, FS_EmptySet DEF RepeatSums
<1>. QED
  BY <1>5, <1>6, <1>7 DEF SumInv

LEMMA SumsAreFigures ==
  ASSUME SumInv
  PROVE  SumsAgree
<1>1. \A c : SumFunction([g \in DOMAIN groups |-> groups[g][c]]) = SumFunction(Column(groups, c))
  BY DEF Column
<1>2. SumFunction([t \in DOMAIN types |-> types[t].repeats]) = SumFunction(Column(types, "repeats"))
  BY DEF Column
<1>3. Cardinality({g \in DOMAIN groups : groups[g].copies > 1}) = Cardinality(Shared(groups))
  BY DEF Shared
<1>4. \A g \in DOMAIN groups :
        Cardinality({members[i].ident : i \in {j \in DOMAIN members : members[j].group = g}}) = groups[g].variants
  BY DEF SumInv, IdentSums, IdentsIn
<1>5. /\ sums.functions = Len(members) /\ sums.functions = SumFunction(Column(groups, "copies"))
      /\ sums.copies.param = sums.functions - Len(groups)
      /\ sums.copies.ident = sums.functions - Used(idents)
      /\ sums.shared.param = Cardinality(Shared(groups))
      /\ sums.shared.ident = Cardinality({s \in Entries(idents) : idents[s].count > 1})
      /\ sums.copyBytes.param = sums.bytes - SumFunction(Column(groups, "size"))
  BY DEF SumInv, GroupSums, IdentSums
<1>6. SumFunction(Column(groups, "findings")) - SumFunction(Column(groups, "distinct"))
        = SumFunction(Column(types, "repeats"))
  BY DEF SumInv, RepeatSums
<1>. QED
  BY <1>1, <1>2, <1>3, <1>4, <1>5, <1>6 DEF SumsAgree

\* The duplicate report adds up in every state, whatever allocation failed
\* on the way: every function keyed is one copy of its group, copies are the
\* functions beyond the first of a key, shared keys are those of two or
\* more, variants the identical keys of a group, and the findings of a group
\* that are not distinct are the repeats of the by-type table
\* (dedup_add_function, dedup_note_finding).
THEOREM SumsProved ==
  ASSUME HashIsNumber, TypesFit
  PROVE  Spec => []SumsAgree
<1>1. Init => MembersKept /\ SumInv
  <2>. SUFFICES ASSUME Init PROVE MembersKept /\ SumInv
    OBVIOUS
  <2>1. members = <<>>
    BY DEF Init
  <2>2. members \in Seq({}) /\ DOMAIN members = {}
    BY <2>1
  <2>. QED
    BY <2>2, SumsAtFirst DEF MembersKept
<1>2. ReportsInv /\ MembersKept /\ SumInv /\ [Next]_vars => MembersKept' /\ SumInv'
  BY MembersStep, SumsStep
<1>3. SumInv => SumsAgree
  BY SumsAreFigures
<1>4. Spec => []ReportsInv
  BY InvariantHolds
<1>. QED
  BY <1>1, <1>2, <1>3, <1>4, PTL DEF Spec
=============================================================================
