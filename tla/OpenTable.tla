----------------------------- MODULE OpenTable ------------------------------
(* The open-addressed tables behind the reports: the by-function tally,    *)
(* the constant tally, the duplicate groups and identical keys, the seen   *)
(* findings and the constant chains.  A table is a function from slots     *)
(* 0 .. cap - 1 to entries; capacities are powers of two, so that masking  *)
(* a hash with cap - 1 is its remainder.  A table grows by a new           *)
(* allocation into which every entry is hashed again, in slot order.       *)
EXTENDS Integers, SequencesExt

CONSTANTS
  Hash(_),       \* the hash of a key (ideal: keys are equal iff their values are)
  InitialSlots   \* slots of the first allocation: 256 or 1024
ASSUME SlotsAssumption == InitialSlots \in Nat \ {0, 1}

Free   == [key |-> <<>>, count |-> 0]
Unused == <<>>                              \* a table never allocated

Cap(t)     == Cardinality(DOMAIN t)
Entries(t) == {s \in DOMAIN t : t[s] # Free}
Used(t)    == Cardinality(Entries(t))

\* The slots a probe for k stops at, as distances from its home slot: those
\* that hold k or nothing.  With none the loop would never end.
Stops(t, k) ==
  {i \in 0 .. Cap(t) - 1 : LET e == t[(Hash(k) + i) % Cap(t)] IN e = Free \/ e.key = k}
SlotOf(t, k) == (Hash(k) + Min(Stops(t, k))) % Cap(t)
CountOf(t, k) ==
  IF Stops(t, k) = {} \/ t[SlotOf(t, k)] = Free THEN 0 ELSE t[SlotOf(t, k)].count

Put(t, e)    == [t EXCEPT ![SlotOf(t, e.key)] = e]
Add(t, k, n) == Put(t, [key |-> k, count |-> CountOf(t, k) + n])

FreshTable(cap) == [s \in 0 .. cap - 1 |-> Free]
NextCap(t)      == IF t = Unused THEN InitialSlots ELSE 2 * Cap(t)

\* The rows in use, put one after the other in a new table.
Filled(cap, rows) ==
  LET Upto[n \in 0 .. Len(rows)] ==
        IF n = 0 THEN FreshTable(cap)
        ELSE IF rows[n] = Free THEN Upto[n - 1] ELSE Put(Upto[n - 1], rows[n])
  IN  Upto[Len(rows)]

\* Mutant: entries are copied to their old slots.
RehashedInPlace(t) == [s \in 0 .. NextCap(t) - 1 |-> IF s \in DOMAIN t THEN t[s] ELSE Free]
Rehashed(t) == Filled(NextCap(t), [i \in 1 .. Cap(t) |-> t[i - 1]])

\* At half load a table is due to grow, and stays as it is when the
\* allocation fails.
Due(t)         == 2 * Used(t) >= Cap(t)
Grown(t, fits) == IF Due(t) /\ fits THEN Rehashed(t) ELSE t

\* Every entry is found from its hash, and so counted in one slot only.
Reachable(t) == \A s \in Entries(t) : Stops(t, t[s].key) # {} /\ SlotOf(t, t[s].key) = s
=============================================================================
