------------------------------ MODULE Reports -------------------------------
(***************************************************************************)
(* The tables that outlive the ranges of a scan: the summary by type, by   *)
(* function and by constant, the duplicate code with its repeated          *)
(* findings, and the constant chains.                                      *)
(*                                                                         *)
(* scan_code keys the functions of a range one by one, tallies its chains  *)
(* and lints it; each finding goes through emit_finding.  Every growth of  *)
(* a table may fail.  A failure while keying or tallying chains ends the   *)
(* scan, what earlier ranges added stays; a failure while a finding is     *)
(* counted leaves the finding out of one table and is counted.             *)
(***************************************************************************)
EXTENDS ConstantChains, OpenTable

CONSTANTS
  Files,        \* the sequences of code ranges a file may hold
  Findings(_),  \* of a file: [type, at, value], the offset in a range
  Types,
  NoValue,      \* a finding of no constant audit, of no function
  SummaryMax,   \* ARMLINT_SUMMARY_MAX
  MaxFindings   \* bound: findings of a range
\* Anchors are sorted by address, one to an address (anchors_finish, main.c),
\* findings lie at words and name constants of an audit.
Symbols    == [at : Nat, size : Nat, named : BOOLEAN]
Opcodes    == {w \in [op : STRING, rd : Nat, rn : Nat, rs : Nat, disp : Int, imm : Int] :
                 w.op = "pool" => w.rd = XZR /\ w.imm \in Nat}
CodeRanges == [base : Nat, words : Seq(Opcodes), anchors : Seq(Symbols)]
Sorted(anchors) == \A m, n \in DOMAIN anchors : m < n => anchors[m].at < anchors[n].at
ASSUME FilesAssumption ==
  \A file \in Files :
    file \in Seq(CodeRanges) \ {<<>>} /\ \A i \in DOMAIN file : Sorted(file[i].anchors)
ASSUME FindingsAssumption ==
  /\ NoValue \notin Int
  /\ \A file \in Files : \A f \in Findings(file) :
       f \in [type : Types, at : Nat, value : Nat \cup {NoValue}] /\ f.at % 4 = 0
ASSUME LimitAssumption == SummaryMax \in Nat /\ MaxFindings \in Nat

VARIABLES
  ranges,    \* the file's code ranges
  at,        \* the range being scanned
  phase,     \* keying, constants, linting, or over
  next,      \* the function to key; then the findings emitted for the range
  groups,    \* dedup->groups: functions the same up to constants
  slots,     \* dedup->group_slots: parametric key to group index
  idents,    \* dedup->idents: identical key to copies
  units,     \* dedup->units: the functions of the range
  sums,      \* dedup->functions, bytes, shared, copies, copy_bytes
  seen,      \* dedup->seen
  types,     \* dedup->types: findings and repeats of each type
  untracked,
  entries,   \* summary->entries: findings of each type
  funcs,     \* summary->funcs
  misfits,   \* summary->misfits
  unplaced,  \* summary->nofunc
  lost,      \* summary->funcs_dropped, misfit_dropped
  values,    \* constants->values: chains of each value
  rebuilds,  \* the rebuilds of each value
  census,    \* constants->words, functions, chains, instructions, rebuilding_functions
  members,   \* history: the functions keyed
  given      \* history: the last finding

dedup   == <<groups, slots, idents, units, sums>>
found   == <<seen, types, untracked, entries, funcs, misfits, unplaced, lost, given>>
chained == <<values, rebuilds, census>>
vars    == <<ranges, at, phase, next, dedup, found, chained, members>>

Nothing == [k \in {} |-> 0]

Init ==
  /\ ranges \in Files
  /\ at = 1 /\ phase = "keying" /\ next = 1
  /\ groups = <<>> /\ slots = Unused /\ idents = Unused /\ units = <<>>
  /\ sums = [functions |-> 0, bytes |-> 0, shared |-> [ident |-> 0, param |-> 0],
             copies |-> [ident |-> 0, param |-> 0], copyBytes |-> [ident |-> 0, param |-> 0]]
  /\ seen = Unused /\ types = Nothing /\ untracked = 0
  /\ entries = Nothing /\ funcs = Unused /\ misfits = Unused
  /\ unplaced = 0 /\ lost = [functions |-> 0, values |-> 0]
  /\ values = Unused /\ rebuilds = Nothing
  /\ census = [words |-> 0, functions |-> 0, chains |-> 0, instructions |-> 0,
               rebuilds |-> 0, rebuilt |-> 0, rebuilding |-> 0]
  /\ members = <<>> /\ given = NoValue

Range1 == ranges[at]
With(f, k, v) == [x \in DOMAIN f \cup {k} |-> IF x = k THEN v ELSE f[x]]
Bump(f, k, n) == With(f, k, n + IF k \in DOMAIN f THEN f[k] ELSE 0)

-----------------------------------------------------------------------------
(* armlint_dedup_scan.                                                     *)

\* The group table is hashed again in the order of the groups.
Regrouped == Filled(NextCap(slots), [g \in DOMAIN groups |-> [key |-> groups[g].key, count |-> g]])

\* One function under both keys.  Under a key already there it is a copy.
\* Mutant: every copy counts its key as newly shared.
CopiedShares(sum, kind, copies, size) ==
  [sum EXCEPT !.shared[kind] = @ + 1, !.copies[kind] = @ + 1, !.copyBytes[kind] = @ + size]
Copied(sum, kind, copies, size) ==
  [sum EXCEPT !.shared[kind] = IF copies = 2 THEN @ + 1 ELSE @,
              !.copies[kind] = @ + 1, !.copyBytes[kind] = @ + size]

AddFunction(f, table, known) ==
  LET keys  == Keys(Range1, f, Marks(Range1, Spans(Range1)[next]))
      size  == f.end - f.start
      home  == CountOf(table, keys.param)
      twin  == CountOf(known, keys.ident)
      g     == IF home = 0 THEN Len(groups) + 1 ELSE home
      group == IF home = 0 THEN [key |-> keys.param, size |-> size, copies |-> 0, variants |-> 0,
                                 findings |-> 0, distinct |-> 0]
               ELSE groups[g]
      more  == [group EXCEPT !.copies = @ + 1, !.variants = IF twin = 0 THEN @ + 1 ELSE @]
      summed == [sums EXCEPT !.functions = @ + 1, !.bytes = @ + size]
      asParam == IF home = 0 THEN summed ELSE Copied(summed, "param", group.copies + 1, size)
  IN  /\ groups' = IF home = 0 THEN Append(groups, more) ELSE [groups EXCEPT ![g] = more]
      /\ slots' = Put(table, [key |-> keys.param, count |-> g])
      /\ idents' = Add(known, keys.ident, 1)
      /\ sums' = IF twin = 0 THEN asParam ELSE Copied(asParam, "ident", twin + 1, size)
      /\ units' = Append(units, [start |-> Range1.base + f.start, end |-> Range1.base + f.end, group |-> g])
      /\ members' = Append(members, [range |-> at, f |-> f, group |-> g, ident |-> keys.ident, param |-> keys.param])

GiveUp == phase' = "over"

\* dedup_add_function on the next span; empty ones add nothing.
KeyFunction ==
  /\ phase = "keying" /\ next <= Len(Spans(Range1))
  /\ LET span == Spans(Range1)[next]
         f    == Trimmed(Range1, span)
     IN  \/ /\ f.end = f.start
            /\ next' = next + 1
            /\ UNCHANGED <<phase, dedup, members>>
         \/ /\ span.end # span.start        \* the marks' scratch
            /\ GiveUp /\ UNCHANGED <<next, dedup, members>>
         \/ /\ f.end # f.start /\ Due(slots)
            /\ GiveUp /\ UNCHANGED <<next, dedup, members>>
         \/ /\ f.end # f.start
            /\ LET table == IF Due(slots) THEN Regrouped ELSE slots
               IN  \/ /\ GiveUp             \* the identical keys, the functions or the groups
                      /\ slots' = table
                      /\ idents' \in {idents, Grown(idents, TRUE)}
                      /\ UNCHANGED <<next, groups, units, sums, members>>
                   \/ /\ AddFunction(f, table, Grown(idents, TRUE))
                      /\ next' = next + 1
                      /\ UNCHANGED phase
  /\ UNCHANGED <<ranges, at, found, chained>>

Keyed ==
  /\ phase = "keying" /\ next > Len(Spans(Range1))
  /\ phase' = "constants" /\ next' = 0
  /\ UNCHANGED <<ranges, at, dedup, found, chained, members>>

-----------------------------------------------------------------------------
(* armlint_constants_scan.                                                 *)

Tallied(chains) ==
  LET Upto[n \in 0 .. Len(chains)] ==
        IF n = 0 THEN values ELSE Add(Grown(Upto[n - 1], TRUE), chains[n].value, 1)
  IN  Upto[Len(chains)]

\* The rebuilds of functions 1 .. m, each the next run of the chains.
Attributed(fs, chains, m) ==
  LET Step(s, i) ==
        LET run  == Run(chains, s.next, fs[i])
            some == {v \in {run[j].value : j \in DOMAIN run} : Rebuilds(run)[v] > 0}
        IN  [next |-> Passed(chains, s.next, fs[i]),
             rebuilds |-> FoldSet(LAMBDA v, b : Bump(b, v, Rebuilds(run)[v]), s.rebuilds, some),
             census |-> [s.census EXCEPT
                           !.functions = @ + 1,
                           !.rebuilds = @ + FoldSet(LAMBDA v, n : n + Rebuilds(run)[v], 0, some),
                           !.rebuilt = @ + FoldSet(LAMBDA v, n : n + Rebuilt(run, v), 0, some),
                           !.rebuilding = IF some = {} THEN @ ELSE @ + 1]]
  IN  FoldLeft(Step, [next |-> 1, rebuilds |-> rebuilds, census |-> census], [i \in 1 .. m |-> i])

\* The growth of the range's chains may fail at any chain, before any counts;
\* that of the value table before any chain, the copy of a function's chains
\* before any function that has two.
ScanConstants ==
  /\ phase = "constants"
  /\ \/ /\ \E n \in Records(Range1) : census' = [census EXCEPT !.words = @ + n]
        /\ GiveUp /\ UNCHANGED <<values, rebuilds>>
     \/ LET scan == Scanned(Range1)
            fs   == Functions(Range1)
        IN  \E n \in 0 .. Len(scan.chains), m \in 0 .. Len(fs) :
              LET all   == n = Len(scan.chains)
                  whole == Attributed(fs, scan.chains, m)
              IN  /\ all \/ (m = 0 /\ Due(Tallied(SubSeq(scan.chains, 1, n))))
                  /\ m = Len(fs) \/ ~all \/ Len(Run(scan.chains, whole.next, fs[m + 1])) >= 2
                  /\ values' = Tallied(SubSeq(scan.chains, 1, n))
                  /\ rebuilds' = whole.rebuilds
                  /\ census' = [whole.census EXCEPT
                                  !.words = @ + scan.words, !.chains = @ + n,
                                  !.functions = IF all /\ m < Len(fs) THEN @ + 1 ELSE @,
                                  !.instructions = @ + Lengths(SubSeq(scan.chains, 1, n))]
                  /\ IF all /\ m = Len(fs) THEN phase' = "linting" ELSE GiveUp
  /\ UNCHANGED <<ranges, at, next, dedup, found, members>>

-----------------------------------------------------------------------------
(* emit_finding, with the allocations that fit.                            *)

Nowhere == -1
Missing == -2
Sites == {"functions", "name", "values", "seen"}

\* summary_add: by type, up to the size of its array.
CountType(f) ==
  IF f.type \in DOMAIN entries \/ Cardinality(DOMAIN entries) < SummaryMax
  THEN Bump(entries, f.type, 1) ELSE entries

\* summary_add_misfit: a table that cannot grow is filled to its last slot.
CountValue(f, fits) ==
  LET table == Grown(misfits, "values" \in fits)
  IN  IF f.value = NoValue THEN [table |-> misfits, lost |-> 0]
      ELSE IF Due(misfits) /\ "values" \notin fits /\ Used(misfits) >= Cap(misfits)
        THEN [table |-> misfits, lost |-> 1]
      ELSE [table |-> Add(table, <<f.value>>, 1), lost |-> 0]

\* summary_add_function: a table that cannot grow, or a new row whose name
\* cannot be copied, loses the finding.
CountFunction(vaddr, fits) ==
  LET table == Grown(funcs, "functions" \in fits)
      Left(t, out, lose) == [table |-> t, unplaced |-> out, lost |-> lose]
  IN  IF Range1.anchors = <<>> THEN Left(funcs, 0, 0)
      ELSE IF Anchor(Range1.anchors, vaddr) = {} THEN Left(funcs, 1, 0)
      ELSE IF Due(funcs) /\ "functions" \notin fits THEN Left(funcs, 0, 1)
      ELSE LET a == CHOOSE a \in Anchor(Range1.anchors, vaddr) : TRUE
           IN  IF CountOf(table, <<a.at>>) = 0 /\ a.named /\ "name" \notin fits
               THEN Left(table, 0, 1) ELSE Left(Add(table, <<a.at>>, 1), 0, 0)

\* dedup_note_finding: the last function at or below the finding, if it
\* reaches that far, and whether one of its shape was seen there.
UnitOf(vaddr) ==
  LET last == Cardinality({i \in DOMAIN units : units[i].start <= vaddr})
  IN  {i \in {last} \ {0} : vaddr < units[i].end}

\* dedup_seen_add keeps a slot free; a key it has no room for is untracked.
\* Mutant: it fills the last slot.
NoRoomLate(t, fits) == Due(t) /\ "seen" \notin fits /\ Used(t) >= Cap(t)
NoRoom(t, fits) == Due(t) /\ "seen" \notin fits /\ Used(t) + 1 >= Cap(t)

Note(f, vaddr, fits) ==
  LET u     == UnitOf(vaddr)
      g     == units[CHOOSE i \in u : TRUE].group
      key   == <<g, vaddr - units[CHOOSE i \in u : TRUE].start, f.type>>
      group == groups[g]
      table == Grown(seen, "seen" \in fits)
      full  == u # {} /\ NoRoom(seen, fits)
      again == u # {} /\ ~full /\ CountOf(table, key) > 0
      known == f.type \in DOMAIN types
      old   == IF known THEN types[f.type] ELSE [count |-> 0, repeats |-> 0]
  IN  /\ types' = IF known \/ Cardinality(DOMAIN types) < SummaryMax
                  THEN With(types, f.type, [count |-> old.count + 1,
                                            repeats |-> IF again THEN old.repeats + 1 ELSE old.repeats])
                  ELSE types
      /\ seen' = IF u = {} \/ full \/ again THEN (IF u = {} \/ full THEN seen ELSE table)
                 ELSE Add(table, key, 1)
      /\ untracked' = IF full THEN untracked + 1 ELSE untracked
      /\ groups' = IF u = {} THEN groups
                   ELSE [groups EXCEPT ![g] = [group EXCEPT !.findings = @ + 1,
                                                            !.distinct = IF again THEN @ ELSE @ + 1]]

Member(i) == members[i].f

\* History: the finding as the promise sees it.
Given(f, vaddr) ==
  LET here == {i \in DOMAIN members : members[i].range = at /\ f.at \in Offsets(Member(i))}
  IN  [type |-> f.type, value |-> f.value,
       address |-> IF Range1.anchors = <<>> THEN NoValue
                   ELSE IF Anchor(Range1.anchors, vaddr) = {} THEN Nowhere
                   ELSE (CHOOSE a \in Anchor(Range1.anchors, vaddr) : TRUE).at,
       shape |-> IF here = {} THEN NoValue
                 ELSE LET m == members[CHOOSE i \in here : TRUE]
                      IN  [code |-> m.param, offset |-> f.at - m.f.start, type |-> f.type]]

EmitFinding(f, fits) ==
  /\ phase = "linting" /\ next < MaxFindings
  /\ f.at < 4 * Len(Range1.words)
  /\ LET vaddr == Range1.base + f.at
         v     == CountValue(f, fits)
         w     == CountFunction(vaddr, fits)
     IN  /\ Note(f, vaddr, fits)
         /\ entries' = CountType(f)
         /\ misfits' = v.table /\ funcs' = w.table
         /\ unplaced' = unplaced + w.unplaced
         /\ lost' = [functions |-> lost.functions + w.lost, values |-> lost.values + v.lost]
         /\ given' = Given(f, vaddr)
  /\ next' = next + 1
  /\ UNCHANGED <<ranges, at, phase, slots, idents, units, sums, chained, members>>

\* The next code range, or the end of the file.
FinishRange ==
  /\ phase = "linting"
  /\ IF at < Len(ranges) THEN at' = at + 1 /\ phase' = "keying" ELSE at' = at /\ GiveUp
  /\ next' = 1 /\ units' = <<>>
  /\ UNCHANGED <<ranges, groups, slots, idents, sums, found, chained, members>>

\* Bound: a finding meets at most one failed allocation.
Emits == \E f \in Findings(ranges), s \in Sites \cup {NoValue} : EmitFinding(f, Sites \ {s})

Next == KeyFunction \/ Keyed \/ ScanConstants \/ Emits \/ FinishRange
Spec == Init /\ [][Next]_vars

-----------------------------------------------------------------------------
(* Properties.                                                             *)

\* What holds of every table.
OfTables(P(_)) == P(slots) /\ P(idents) /\ P(seen) /\ P(funcs) /\ P(misfits) /\ P(values)

TypeOK ==
  /\ at \in DOMAIN ranges /\ phase \in {"keying", "constants", "linting", "over"}
  /\ \A i \in DOMAIN units : units[i].group \in DOMAIN groups /\ units[i].start < units[i].end
  /\ \A i \in 1 .. Len(units) - 1 : units[i].end <= units[i + 1].start
  /\ OfTables(LAMBDA t : \A s \in Entries(t) : t[s].count > 0)

Roomy(t) == t = Unused \/ Used(t) < Cap(t)
\* No probe runs for ever and no entry is out of its reach, through growths,
\* failed ones too: every table keeps a free slot but the constants', which
\* refuses findings once it is full (summary_add_misfit).
ProbesEnd ==
  /\ OfTables(Reachable)
  /\ Roomy(slots) /\ Roomy(idents) /\ Roomy(seen) /\ Roomy(funcs) /\ Roomy(values)

\* The figures the duplicate report prints agree with its tables, also after
\* a function that could not be added: functions and copies under either key,
\* keys shared, variants, and findings of a group with their repeats.
SumsAgree ==
  LET Total(figure) == SumFunction([g \in DOMAIN groups |-> groups[g][figure]])
  IN  /\ sums.functions = Len(members) /\ sums.functions = Total("copies")
      /\ sums.copies.param = sums.functions - Len(groups)
      /\ sums.copies.ident = sums.functions - Used(idents)
      /\ sums.shared.param = Cardinality({g \in DOMAIN groups : groups[g].copies > 1})
      /\ sums.shared.ident = Cardinality({s \in Entries(idents) : idents[s].count > 1})
      /\ sums.copyBytes.param = sums.bytes - Total("size")
      /\ \A g \in DOMAIN groups :
           groups[g].variants = Cardinality({members[i].ident : i \in {j \in DOMAIN members : members[j].group = g}})
      /\ Total("findings") - Total("distinct")
           = SumFunction([t \in DOMAIN types |-> types[t].repeats])

\* Functions counted as copies are: under the identical key every word means
\* the same at both addresses, under the parametric key they differ only in
\* the fields that tell instances apart (README, "Duplicate code").
CopiesAreCopies ==
  \A i, j \in DOMAIN members :
    LET r == ranges[members[i].range]
        q == ranges[members[j].range]
    IN  /\ members[i].ident = members[j].ident => Copies(SameMeaning, r, Member(i), q, Member(j))
        /\ members[i].group = members[j].group => Copies(SameShape, r, Member(i), q, Member(j))

\* A rebuild is a chain whose value an earlier chain of its function built.
RebuildsOf(r) ==
  LET chains == Scanned(r).chains
      In(f)  == {i \in DOMAIN chains : chains[i].offset \in f.start .. f.end - 1}
  IN  {i \in DOMAIN chains : \E f \in ToSet(Functions(r)), j \in DOMAIN chains :
         j < i /\ {i, j} \subseteq In(f) /\ chains[i].value = chains[j].value}
\* The rebuilds counted are those of the ranges scanned (armlint.h,
\* "Constant chains"), and each value has more chains than rebuilds.
RebuildsCounted ==
  /\ phase = "linting" =>
       census.rebuilds = FoldSet(LAMBDA i, n : n + Cardinality(RebuildsOf(ranges[i])), 0, 1 .. at)
  /\ \A v \in DOMAIN rebuilds : rebuilds[v] < CountOf(values, v)

\* The tables implement the promise: a shape is a parametric key, an offset
\* and a type.
Addresses == UNION {UNION {{a.at : a \in ToSet(file[i].anchors)} : i \in DOMAIN file} : file \in Files}
Constants == {f.value : f \in UNION {Findings(file) : file \in Files}} \ {NoValue}
Shape(e)  == [code |-> groups[e.key[1]].key, offset |-> e.key[2], type |-> e.key[3]]
Promise == INSTANCE Tally WITH
  Values <- Constants, Lost <- Missing, Unknown <- NoValue,
  byType     <- [t \in Types |-> IF t \in DOMAIN entries THEN entries[t] ELSE 0],
  repeats    <- [t \in Types |-> IF t \in DOMAIN types THEN types[t].repeats ELSE 0],
  byFunction <- [a \in Addresses \cup {Nowhere, Missing} |->
                   CASE a = Nowhere -> unplaced [] a = Missing -> lost.functions
                     [] OTHER -> CountOf(funcs, <<a>>)],
  byValue    <- [v \in Constants \cup {Missing} |->
                   IF v = Missing THEN lost.values ELSE CountOf(misfits, <<v>>)],
  shapes     <- {Shape(seen[s]) : s \in Entries(seen)}
PromiseKept == Promise!Spec

=============================================================================
