# A TLA+ model of armlint

armlint is a peephole linter for AArch64 machine code: it streams over the
words of a code section, matches short sequences, and reports a rewrite that is
shorter or cheaper. Its promise (`README.md:29-33`) is *soundness*: a reported
rewrite "provably preserves the program's result". Most of what is hard about
the program is in that word. Deleting an instruction is only sound when what it
wrote is dead, and armlint has to know that from the words it has seen, the
words it has not reached yet, and the branches between them.

This directory states what soundness means, models the machinery that is
supposed to deliver it, model-checks it over every buffer of small families, and
proves the central claims about liveness for buffers of every size.

## The system

| part | where | state | operations |
|---|---|---|---|
| Liveness classifiers | `armlint.c:3288-3498, 3536-3949, 14820-14912` | none | grade a word for a proof about NZCV or one register: overwritten, read, safe or unsafe end, unknown |
| Branch-target walks | `6458-6617` | worklist `path_at[8]`, `seen[64]`, cursor, window (locals of one call) | is NZCV / a register dead at a branch's target? |
| Streaming driver | `23945-24046`, `1393-1511` | the cursor, one `armlint_state`, the branch-target bitmap | skip pools and undecodable words, run the registry, gate, report |
| Trackers | struct `203-1369` | per pattern: `*_active`, registers, immediates, start offset | each check expires and reopens its own at every word |
| Deferral slots | `3500-5678` | per slot: finding, register, window left, kind-specific extras | open (check), advance (every word), prove, fail, flush |
| Rewrites | most of `armlint.c` | none beyond the tracker | compute the replacement's operands and immediates |
| MOV chains, bitmask immediates | `1558-2200` | the chain in progress | extend, close, compare with the minimal encoding |
| Value numbering, dead writes, constant folding | `11758-12649` | value number per register, table of expressions, write mask | number, invalidate, report recomputes |
| Known values | `12649-14429` | known bits per register | transfer, join at labels, decide branches and selects |
| LSE loops | `7288-7647, 4255-4318` | the words of a loop matched so far; a finding and two registers | advance, reset or reopen; watch both die |
| PAC, jump-table recognisers | `7657-7883` | a stage and the registers so far | advance or reset the stage |
| Reporting tables | `23224-25422` | per-function counts, hash tables of functions and constants | add, grow, sort, print |
| BTI verification, symbols | `main.c:288-1360` | sorted arrays of targets and symbols | insert, sort, look up |
| Object readers, command line | `main.c` | none outliving a file | range-check, iterate over sections |

The driver owns the loop. A word goes through `armlint_check_registry` in a fixed
order: the advancers of the deferral slots first, then the checks. They interact
only through `armlint_state`: a check that matches a pair either reports it at
once or opens a slot; the slot's advancer sees the *next* word first. A finding
that comes out passes the side-entry gate, which reads a bitmap built before the
first word. There is no concurrency; what is hard is order and stale state over
long sequences of words: a proof that straddles a gap, a slot reopened by the
word that settles it, a branch that leaves the straight line, two findings whose
proofs lean on each other.

What makes each part correct:

* **walks**: an answer "dead" is true of every execution from the target, also
  around loops and where paths meet; the fixed arrays are never overrun; the walk
  returns.
* **driver and slots**: a reported deletion is of a dead value; a proof never
  crosses data; a reported window is not entered past its top; a pair is reported
  once and a finding that needs no proof is not lost with one that does; findings
  can be applied together.
* **rewrites**: the words suggested leave every register, SP and the flags as the words
  they replace do, the proved-dead register aside; they can be encoded; two checks that
  read the same words do not both report them.
* **value numbering, known values**: whatever is recorded of a register, SP or the flags
  is true of every machine that can be there, also after labels, skipped data, calls and
  partial writes; two checks do not rewrite one word, and two deletions can both be made.
* **flag checks**: a rewrite that moves a test, drops one or merges several leaves every
  path through the branch as it was, the flags at the far end included.
* **exclusive loops**: the loop among other writers to its memory, retries and failed compares
  included, has no behaviour the atomic suggested has not.
* **tables**: every finding is counted once or its loss is; no entry becomes unfindable,
  also when a growth fails half way; copies are copies.

## The modules

| module | stands for |
|---|---|
| `A64Flow` | words, successors, pools, the classifiers, and `DeadFrom`: what it means for a resource to be dead at a slot |
| `TargetWalk` | `nzcv_dead_at_target` and `reg_dead_at_target`, one action per branch of the loop |
| `TargetWalkProofs` | type correctness, array bounds and soundness of the walks; that a refusal has a reason |
| `Stream` | `check_instructions`, `armlint_flush`, four trackers, four deferral slots, the gate |
| `StreamProofs` | type correctness of the driver, and that every deletion it reports is sound; that it reports a pair once, in a window entered at its top, proves nothing across skipped data and loses no downgrade; that its findings may be applied together |
| `Alu` | the integer words the checks match and suggest, and what they compute, on a register of `W` bits (external: the architecture) |
| `AluProofs` | what the adder computes at every width: values as numbers, sums modulo a power of two |
| `BitFolds` | eighteen folding checks as operators: which word opens one, what it makes of the next |
| `PairFolds` | the same for multiplies, extensions, copies and CSET before arithmetic, with the fallback that keeps the producer |
| `Peephole` | those checks at work on a buffer, with the immediate chain and the field insert, and the soundness rule |
| `PeepholeProofs` | that no fold suggests a word that cannot be encoded and no window is reported twice |
| `FoldsProofs` | that every fold leaves what the words it replaces leave, at every width and from every state |
| `FlagFolds` | the checks about the flags and the words that test them: zero and bit tests, compares, selects |
| `Flags` | those checks at work, with the compare chains, thirteen deferral slots, and execution of both sides through branches |
| `ValueNumbers` | local value numbering, recomputes and dead writes |
| `KnownBits`, `KnownValues` | facts of registers and flags: bits, ranges, possible flag states; what decides a branch or a select |
| `MovChains`, `ChainOps` | move-wide chains, and what consumes their constant (arithmetic, logic, multiplication, division, selects, stores) |
| `Facts` | value numbers, dead writes, known values and chains over one buffer, beside the machines that execute it |
| `NumbersProofs` | that registers of one value number hold one value and known constants are held, in every machine and at every width |
| `Atomics` | shared memory, exclusive loads and stores, the LSE atomics (external: the architecture) |
| `AtomicUpdate` | what a finding about an exclusive loop promises; `LseLoops` implements it |
| `LseLoops` | `check_lse_rmw`, the slot that watches two registers, and a thread that runs the loop among others |
| `LseProofs` | that the loops reported do what the atomics suggested for them do, at every width: `LseLoops` refines `AtomicUpdate` |
| `OpenTable` | the open-addressed tables of the reports |
| `DuplicateCode`, `ConstantChains` | the identical and parametric keys of a function; the constants a function builds and rebuilds |
| `Reports` | keying, constant chains and linting of the ranges of a file, with allocations that fail |
| `ReportsProofs` | that an insertion and a growth keep every entry findable and every count, that the tables stay sound through failed growths, and groups and functions in order; that functions of equal keys are copies, and that the figures of the duplicate report agree with its tables |
| `Tally` | what the reports promise of the findings they are given; `Reports` implements it (`ReportsProofs`) |
| `MCTargetWalk`, `MCStream`, `MCPeephole`, `MCFlags`, `MCFacts`, `MCLse`, `MCReports` | the instances TLC checks |

The modules build on one another in stacks:

    A64Flow <- TargetWalk <- TargetWalkProofs
            <- Stream     <- StreamProofs
    Alu <- BitFolds <- PairFolds <- Peephole  <- PeepholeProofs <- FoldsProofs
                                 <- FlagFolds <- Flags
        <- AluProofs <- PeepholeProofs, LseProofs, NumbersProofs
        <- Atomics  <- LseLoops <- LseProofs    (implements AtomicUpdate)
        <- ValueNumbers <- KnownBits <- KnownValues <- MovChains <- ChainOps <- Facts <- NumbersProofs
    DuplicateCode <- ConstantChains, OpenTable <- Reports   (implements Tally)
    Reports <- ReportsProofs

They meet at premises. `Stream` takes from `TargetWalk` what a walk may answer.
`Peephole`, `Facts` and `Flags` decide what a rewrite is; that the register it spends
is dead is a premise in the first two, which `Stream` discharges for the slots it
shares with them, and is worked out inside `Flags` for the slots `Stream` leaves out.
`Reports` takes any findings.

### Words

A word is a record `[op, reads, writes, to]`. `op` is its encoding class as far
as control flow and the modelled checks can tell; `reads` and `writes` are sets
of *resources*, the general registers of the instance and the four condition
flags as one resource `NZCV`; `to` is the slot a direct branch targets. Slots
are byte offsets divided by four. The decode tables of the classifiers are the
data this abstracts: which encodings read or write which register is given with
the word, and the classifiers' *control* (what is tested first, which transfers
end a scan how) is what is modelled. `WordsAssumption` and `ShapesAssumption`
state what the A64 encodings guarantee (no control transfer writes a watched
resource; a B.cond reads the flags and nothing else; a CSET writes one register
and reads the flags...). One assumption is about the machine and not the code: a
word Capstone rejects is data, and is never executed in between.

`DeadFrom(prog, t, r)` is the reference. It says that `t` lies in a set of slots
closed under control flow in which nothing observes `r` and which control leaves
only over a kill of `r`: a greatest fixed point, so a loop that never touches the
flags has dead flags. Past a call, a return or a system call a register may be
an argument or result and counts as observed; the flags end there (the
procedure-call standard), except for the dead-compare deletion, which the code
denies that argument (`armlint.c:4065-4070`).

### TargetWalk

The variables are the locals of the C function: `pathAt` (the worklist), `seen`,
`at`, `window`, plus `phase` (its control point) and `res` (which of the two
functions runs). The two differ in what they follow (`Follows`), the grade they use
(`Grade`) and when they look a slot up in `seen` (`LooksUp`: the register walk
only after a branch). `Init` chooses the function, the program and the target.

The inductive invariant says every slot in `seen` other than the current one is
*covered*: it kills the resource or all its successors are in `seen`, on the
worklist or the current slot. When the worklist is empty, `seen` itself is the
closed set `DeadFrom` asks for; that is why stopping at an examined word is
sound although around a loop the promise is circular.

### Stream

One action per path through the driver's loop body: `SkipPool`,
`SkipUndecodable`, `Instruction` (the whole registry pass), `EndOfBuffer`. The
state is the four trackers `cmp`, `cset`, `mov`, `fnl`, the four slots `pending`,
`dc`, `mz`, `tb`, and the findings `out`; `decoded` and `gaps` are history. The
fifteen slots of the C program are variants of one another (`Flags` has nine more of them, `LseLoops` one); these
four bring the mechanisms of the driver: a proof with and without the procedure-call argument, a branch
that is followed, a taken edge covered by containment, a downgrade stashed in case
the proof fails, a slot lost to a later finding. The checks chosen open them in
every way: after a proof at the branch's target (CMP #0; B.cond), immediately (dead
compare, MOV #0; STR), unless the consumer itself overwrites the register (LSL;
ORR and CSET; EOR), only on a forward branch (CSET; CBZ).

The target walks appear by their contract: they may always refuse, and answer
"dead" only when `DeadFrom` holds, which is what `TargetWalkProofs!WalkSound`
proves of them.

Abstracted: the conditions, immediates and displacement limits under which a pair
is a candidate (the model lets every pair of the right shapes be one), verbosity,
text, and the counters. A finding is its kind, the slots of its producer and
consumer and the register.

### Alu, BitFolds, PairFolds and Peephole

`Stream` asks when a finding is reported and whether what it deletes is dead. These
three ask the other half of the soundness rule: whether the words it suggests
compute the same thing.

A value is the set of positions of its one bits, so AND, ORR and a shift are set
operations and an adder is a recursive function over positions. `Alu` gives each
word its outcome; register 31 is ZR or SP by operand, a W-form result clears the
upper half. Nothing of it is armlint's but the recognisers of encodable
immediates (`BitmaskImmediates` from `decode_bitmask_imm_value`, `AddSubEncodable`)
and the read and write sets.

`BitFolds` has for each adjacent-pair check an `...Opens(w)`, the second half of
the C function, and a `...Fold(p, w)`, the first: the set of findings made of a
held producer `p` and the word `w`. A fold is the words that replace the pair and
the register handed to `defer_dead_mov` (none when the consumer overwrites it).
Aliases are one word here as they are one encoding there: a UBFX that reaches the
top of the register is LSR, MOV is ORR with ZR.

`PairFolds` continues with pairs whose consumer is arithmetic: a multiply and a sum
(MADD, MSUB, their widening forms), an extension and a sum (the extended-operand form),
copies, CSET and a sum. Some of these stash a *fallback*: when the producer's register
cannot be proved dead the producer stays and only the consumer changes. A fold carries it
as `kept`, and `FoldsSound` executes it too, with every register compared.

`Peephole` runs them: `Instruction` reads one word, makes the findings of every
check that holds something, and expires or reopens each (`Hold`, `HoldChain`,
`HoldInsert`). `check_add_sub_imm_chain` waits through words that leave its
registers alone, up to the window; `check_bfxil_synth` collects a clear and an
isolate in either order. Both findings are executed too, the words in between kept.

A finding is what the code reports: the first word of its window, how many words the window has
(`insn_count`) and the rewrite, with the word it was made at. The window need not reach that word: of a move to SP that the
next word overwrites, the move alone is reported; a field insert is always three words, whatever was displaced since it
began. So soundness is stated over what has been read: the words from the window's first to the word the finding was
made at (`ReadFrom`) must leave what the rewrite and then the words after the window (`ReadAfter`) leave.

`FoldsSound` runs every finding from every state of `Machines` and compares the
registers, SP and flags. `AndLsrExact` is the completeness a comment of the code
claims ("a single UBFX -- iff"): for masks of one run, a pair is reported exactly
when some UBFX computes it. `ReportedOnce` is what the code's many "that is the
other check's shape" conditions are for.

Loads that repeat the sign (LDRSB, LDRSH, LDRSW) are producers of the redundant extension check and words
in between for the others. They read one cell, `mem`, and have no writeback: which address a load reads is
not told apart, and the check does not look at it.

Abstracted: the alias a rewrite is printed as (UXTB or UBFX or AND #0xff:
one value), the ADDS/SUBS immediate forms, which no modelled check accepts, and the
text. That the dead register is dead is the deferral's business and is the
premise here.

### FlagFolds and Flags

These are the checks in which the rewrite is not local: a test of zero moves onto the word
that computed it, a bit test becomes a TBZ of the source, a compare chain becomes one
compare, and what must be dead is the flags, or some of them, or a register on both edges
of a branch. `FlagFolds` has the pairs; `Flags` has what waits longer (the flag-setting
twin of a word across a gap, the compare chain, the CSET compared again) and the deferral
slots `sv`, `zs`, `cssc`, `sgn`, `cbr`, `ccc`, `cwc`, `crc`, `bvs` with `pending`, `dc`, `mz`, `tb`.
Each slot has its own way to grade a word: `zs` reads conditions and passes a B.cond
that ignores the altered flags, `dc` does not take a call for the end of the flags,
`tb` shares the fall-through's proof with the taken edge, `cwc` proves two resources at
once and follows branches, `bvs` up to three, each settled by a word of its own. Two checks
share `bvs`: the compare with INT_MIN or INT_MAX, which becomes a question about overflow
(`Extremes`, `OverflowLink`), and the compare of a masked field, whose mask and constant are
looked for backwards among the words before it (`MaskedField`, `Bystanders`). The constant of either is a chain of
move-wides (`MoveChain`), which the first takes at the width of the compare only, the second at any.

The gap in which the flag-setting twin may follow its word is refused to words the classifier does not know to
write the flags: MSR NZCV, and the SVE and SME spaces, for which PTEST stands.

A finding is a window of words and its rewrite, padded with NOP so that branches keep their
targets. When it is given out, `FlagsSound` runs the words read since its start and the
same words rewritten from every state of `Machines`, and compares where they end, the
registers and the flags. The paths may leave the buffer; what the walk at that target
proved dead may differ there. The verdicts of the walks (`Verdicts`) are a
nondeterministic choice and are believed, as `TargetWalk` proves them. One premise is the
code's own: some folds take NZCV for dead at a branch target without a walk
(`README.md:85-98`, `armlint.c:3562`), and the two checks of `bvs` the registers they spend as well
("the taken path is not scanned", `analyses.md:2094`, although the README argues that a register, "unlike
NZCV, is routinely live into a branch target"); such a finding is marked `trusts`, and what it
trusts is not compared at the target of its own branch. A call preserves what the procedure-call
standard says and no flags.

`SearchExact` is about the compare chains: the code decides whether a single compare is
equivalent from finitely many candidates at finitely many points ("the search that
decides it is exact"). The property compares that with every compare and every value.

### ValueNumbers, KnownBits, KnownValues, MovChains, ChainOps and Facts

The forward analyses keep records that must be true of any execution that is there.
`Facts` therefore carries, beside the records, the set of machines that may execute each
word: all that fell through, those of `Machines` at a side entry (a branch may come with any state),
those that did not take a conditional branch after one. `NumbersTrue` says that equal
numbers are equal contents and a known constant is what the register holds; `FactsTrue`
that known bits, signed and unsigned ranges in both widths, possible flag states and
zeroed tops hold in every machine that goes on.

An instruction is processed with one word of lookahead because the code does so: a dead
write, a constant fold and a chain end at the *next* word. The order of the trackers is
the registry's; `check_const_fold` reads what `check_value_recompute` left for the same
word. The known-value engine of the code applies a word's effects at the next one; nothing
reads it between, so the model applies them at the end of the step.

A finding replaces the words `first .. last` by `new`; the registers in `dead` are left
different and are the deferral's business. `RewritesSound` executes both,
`RewritesGain` asks that the replacement encodes and is shorter (or one word for one),
`BranchesDecided` that a branch called always or never taken is, `OneOwner` that the
single-word checks leave each other's shapes alone, as their comments and `analyses.md:2360,2785,2897` list them ("so
no instruction is reported twice"). Three pairs are on no list (`Shared`), and there one instruction is
reported twice: an AND or a select computed again may be a mask without effect or a select decided, and an AND may
have its result pinned by known bits where only a range confines its input. Both reports are right each time;
`SharedProgram` has the three.

### Atomics, AtomicUpdate and LseLoops

`check_lse_rmw` is the one check that matches a cycle: LDXR, an operation and STXR with a CBNZ back
(fetch), without the operation (swap), or with CMP and B.NE out of the loop (compare and swap). `lse`
holds the words matched; its length and kinds are the code's stage. Any other word drops them, and
an LDXR begins anew (`Match`). What a whole loop becomes, an atomic with a word before it or two around it, waits
in a slot until every register the loop writes and the atomic does not is overwritten (`Alive`,
`Proven`): two at once, and a word that reads one of them and overwrites the other counts as a read.

Here the linted program is concurrent, though armlint is not. When a finding is given out a
thread runs the words read, one step each, while `Rival` writes to its variable and disarms its
monitor, and `StoreExclusive` may fail without a reason. `AtomicUpdate` is the abstract specification:
between begin and end there is one moment at which the words suggested run, uninterrupted, on the memory of that moment,
and what they leave is the answer. `LoopsAtomic == Promise!Spec` says that every behaviour of the
loop is one of those. The refinement mapping needs no history: the loop has taken effect when
nothing is left for it to do with memory (`Leaving`), which is after a store that succeeded, and for a
compare that is going to fail already at the load. The words after the loop are part of both sides, so
memory, all registers and the flags are compared, the ones found dead included. `AtomicUpdate` knows
nothing of words: what it means to run them (`RunShared`) and what of a machine is its own (`Own`) are its parameters.

Abstracted: ordering suffixes, which are carried over by name (memory is in one order here), and the
monitor left armed when a compare fails, which the header argues is unobservable. The feature
`-m lse` is on. Entry into the middle of a loop is the gate's business (`Stream`).

### OpenTable, DuplicateCode, ConstantChains, Reports and Tally

`Reports` scans the code ranges of a file. Per range it keys each function (two
keys, four tables), tallies its constant chains, and then takes findings, any that the
instance allows, through `emit_finding`: by type, by function, by constant, repeated or
new. Every growth of a table may fail. While keying or tallying, that ends the scan;
while a finding is counted, it is left out of one table and counted as lost.

`OpenTable` is the open addressing the six tables share: probe from the hash, stop at the
key or a free slot, grow at half load by hashing every entry again (`Filled`). Hashes are ideal (equal exactly for equal
keys) but share home slots, so that probes collide.

`DuplicateCode` folds a function word by word, with the registers that hold an ADRP page: of data
(literals, pools) the word and a tag; of an ADRP or a target outside the function the word without
it, and the address or a tag; of any other word the word, and in the parametric key the word without
a move's immediate or the low bits added to a page. XZR never holds a page. The data are marked over the
span the symbol table gives, the key is of the function trimmed of padding. A pool marker that opens no
pool is the literal load it looks like. Keys are the sequences folded, not their 64-bit hashes.

`ConstantChains` has chains of both widths: a MOVK extends a chain of its own width only, and a value is a sequence of
halfwords, so that one of two is never one of four. Three arrays may fail to grow: the chains of the range (`Records`: at any
chain, with the words counted until then and nothing tallied), the value table, and the copy of a function's chains.

`Tally` is the abstract specification: one action, `Finding`, with counts per type,
place, constant and shape. `PromiseKept == Promise!Spec` says that the detailed system
implements it: tables become counts, `funcs_dropped` and `misfit_dropped` the counts of
`Lost`, and every step other than emitting a finding is a stutter. Its assumption is that the
file has no more types of findings than `ARMLINT_SUMMARY_MAX` rows; past that the code
drops rows in silence, as its comment says it may.

`FilesAssumption` and `FindingsAssumption` say what the callers hand in: at least one code range
with the anchors sorted by address, one to an address (`anchors_finish`), and findings at words.

## What is checked

| run | question | instance |
|---|---|---|
| `walk` | is "dead" dead, is a refusal one the code has a reason for, do the arrays hold, does the walk return? | every buffer of 4 words, both functions; worklist 2, budget 4, window 2; with pools |
| `driver` | are deletions sound, alone and together; is no finding entered below its top; is each pair once and no downgrade lost; does no proof cross data? | five families of buffers of up to 6 words: flags with data and pools, registers, shared words, two downgrades at a flush, shifts before data; window 3 |
| `gap` | (violated) do findings stay clear of skipped data? | 4 words |
| `folds` | does every rewrite compute what it replaces, can it be encoded, is it reported once? | every pair of field words, every producer with every register operation, immediate chains, field inserts, arithmetic pairs, signed loads; X of 4 bits, W of 2, 36 start states |
| `synthesis` | (violated) the same for a field insert with two isolates | 4 words |
| `flags` | does every path through a rewritten test end as it did; is the chain search exact; is no window reported twice? | twenty-one families of 3 to 7 words; X of 8 bits, W of 4, 28 start states; window 3 |
| `single_bit` | (violated) the same for a field extracted in place before a zero branch | 4 words |
| `masked` | (violated) the same for a masked field compared with a constant in the first operand | 7 words |
| `facts` | is what is recorded true, do rewrites preserve and shorten, is a decided branch decided, has a word one owner? | ten programs of 2 to 5 words, some with a side entry; X of 8 bits, W of 4; all states over three values |
| `facts_compose` | (violated) can a dead write and an already-held constant both be deleted? | 4 words |
| `lse` | is every exclusive loop reported, among other writers and failing stores, the atomic suggested? | nine families of 5 to 8 words: three sizes of fetch and CAS loops, swaps, reopened loops, what follows; X of 4 bits, W of 2, a byte of 1; five registers; 4 start states; three values others write |
| `reports` | do tables stay findable and add up through failed growths, are copies copies, is the promise of `Tally` kept? | files of one or two ranges of up to 10 words, chains of both widths; tables that start with two slots; three findings a range |

**Bounds.** A pair takes two words, its proof one more, a word to disturb it and
one after: four or five words hold every interaction of two findings, and loops
of one to three words. `Window` is smaller than the buffer so that it runs out.
Every program over the instance's words is an initial state, so within the
bounds nothing depends on chosen examples. The theorems remove the bounds where they
apply.

For the folds the bound that matters is the register: with 4 bits a field has a
bottom, a top and an inside, a shift can leave one bit or lose one, and W and X
differ; an ADD immediate of one bit, plain or shifted, makes sums that do and do
not encode. The checks compare registers for equality only, so producers write
`r1` from `r1` or `r2`, and consumers use those, a third, and register 31. The start
states give two registers every pair of six values (none, each half, every other
bit, both ends, all), which tell every bit position from every other; SP, the
third register and the flags vary with them. The families leave out only the shapes
listed under the findings.

`flags` and `facts` need numbers, not fields, and so 8 bits: signs of W and X apart, ranges
with room on both sides, halfwords of `Piece` bits for a move-wide chain (four in `facts`, two in `flags`). The scaled limits are `ImmBits`
(12-bit immediates of ADD), `CmpBits` (5-bit immediates of CCMP), `ExtShift` (the
extended form's shift), `CbMax` (63), `TestReach`, `CbReach` and `CondReach` (the
displacements of TBZ, CB<cc>, B.cond). Their *order* is kept and each is exceeded by
some word. `CondReach` exceeds all displacements of the instance, as 1 MiB exceeds all a
function has; a TBZ or CB<cc> does fail to reach. Compare chains are over X registers only and compare
small immediates, because the search relies on them being well below half the register, which
is so by a factor of 2^26 in the W form of the code and would be by none in 4 bits. `MaxLinks` (3) is
less than the longest chain of an instance, `Window` (3 in `flags`) less than what follows a
compare, so that it runs out, `ZsGap` (2)
equal to the words a gap may have, `RepMax`, `ReadyMax` and `NumberMax` small enough to be
reached in `facts`.

Masked fields are compared in X registers only: every even constant of 4 bits is an immediate of CMP or CMN
already.

In `lse` nobody bounds the retries: the thread may go round for ever, and does so over finitely many
states. Others write one value of each kind (equal to the comparand, to half of it, to none), so that a compare fails, succeeds, and
succeeds only in its low half. `Window` (3) lets one word pass between the loop and the two that end its proof. Words after
a loop access no memory. Others stop writing when the thread has done with memory, since nothing reads it after.

A buffer of `flags` holds a window, then words that end a proof, spoil it, or leave it
open past its window. Displacements go to the words of the window, past it, and out of the buffer
both ways.

In `reports` tables of two slots grow twice; keys collide at home and after growth; each
growth may fail. The three findings a range may have are chosen so that types,
places, constants and shapes repeat and differ.

**Fairness.** The driver and the walks are plain loops of a single thread: an
enabled step is taken, which is `WF_vars(Next)`. The walk needs it for `AlwaysReturns`. The other
specifications state safety only and have no fairness.

**Deadlock** is checked for the walk, the driver and the folds. `facts`, `flags`, `lse` and
`reports` end: the buffer or the file is read, which TLC would call a deadlock.

### Findings

Five, each a run that TLC violates.

* `gap`: `armlint_flush` (`1781-1907`) resets trackers one by one and
  misses `fnl_active` (and `cpa_active`, `spm_active`, `aos_pending`). In `LSL; <word
  that does not decode>; ORR ... LSR` the funnel check still takes the shift for the
  previous instruction and reports the pair as adjacent, though the driver says
  "Flush first so an in-progress sequence cannot straddle the gap"
  (`24018-24020`). The run `gap` is that trace. `ProofsStopAtGaps` shows what does
  hold: the *liveness proof* of a finding never crosses a gap, and no match but the funnel's does.
* `synthesis`: in `check_bfxil_synth` (`10150-10160`) a second isolate of the same
  field replaces the first and keeps the first word as the window's start. The
  window of three then covers the first isolate, whose write is not undone, and not the
  combination.
* `facts_compose`: `check_dead_write` leaves a write alone when the overwrite is one
  `check_value_recompute` deletes (`12601-12604`), for the first is only dead if the second
  stays. `check_const_fold` deletes words too ("already holds"), and no condition covers it.
* `single_bit`: `check_single_bit_cbz` falls back to a TBZ of the producer's source with
  the producer kept, "Valid regardless of the producer's liveness" (`5719-5721`). The comment argues AND in place;
  the decoder also opens on UBFX, SBFX, LSR and ASR, and in place the source is
  gone. Bit 2 of `ubfx w0, w0, #2, #1` is always clear.
* `masked`: `check_and_mov_cmp_ubfx` finds the masked register in either operand of the compare
  (`21414`, `21419`) and always suggests it first, keeping the reader's condition ("unchanged by the
  rewrite", `21329`). In `and x1, x3, #m; mov x2, #c; cmp x2, x1; csel .., lo` the operands
  trade places, and LO with them. EQ and NE do not mind; `FlagsSound` holds of those.

Smaller disagreements, found while modelling and left out of the passing instances:

* `check_add_sub_zero` (`9209-9212`) calls `ADD Wd, Wd, #0` a no-op ("When Rd == Rn the instruction is a
  no-op", `armlint.h:1030-1031`). A write of a W register clears bits 63..32, which is why the header excludes the
  W-form MOV from `check_mov_reg_self` (`armlint.h:1025-1026`). `MCPeephole` has no such word.
* `check_lse_rmw` accepts AND and SUB in place (`7344-7345` ask only that the result is not the operand), and
  suggests `mvn w0, w1; ldclr w0, w0, [x2]`. The header says in-place computation is "excluded for the
  scratch-using ones (the scratch would collide with the atomic's own destination, a CONSTRAINED UNPREDICTABLE
  encoding)" (`armlint.h:712-715`), which the code does for immediates only (`7362-7363`). In `Atomics` an atomic reads its
  operand before it writes, and with that `LoopsAtomic` holds of both.
* `insn_writes_sp` (`22257-22289`) misses the logical immediates, which
  name SP as destination 31: `add x0, sp, #a; and sp, x1, #m; add x0, x0, #b` is folded as
  if SP had not moved. `MCPeephole` has no logical immediate between the adjustments of a chain.
* `check_neg_cbz` (`5824-5827`) asks no proof, for a NEG in place, of the edge where the register is
  zero: "NEG changed nothing there". The low half is what it was, but with the NEG deleted a W form no longer
  clears bits 63..32. `MCFlags` has the W form out of place only.
* a CCMP that closes the INT_MIN compare copies its unfinished finding into the slot's finding
  (`21168`) without asking whether one waits there. The waiting finding's proof then gives out the text
  of the other, which nothing has proved. `Begun` models the copy; `MCFlags` has no such CCMP
  while a finding of the slot waits.
* the by-function table is keyed by address (`23258`), and the sections of a relocatable object all start
  at 0 ("section-relative in ET_REL objects", `main.c:1624-1625`): functions of two sections share a
  row. `Reports` takes addresses as given.
* `check_cset_recompare` (`6306`) does not refuse an MSR to NZCV, or a word of the SVE and SME spaces, in its gap, which
  `check_zero_cmp_to_s_variant` does (`5016-5019`). `MCFlags` has none there.
* the comment at `2925-2928` says a replicated mask
  has no single-UBFX equivalent; `and x0, x1, #0x0f0f...; lsr x0, x0, #56` has one. The
  code only misses a finding, which its rule allows.

## What is proved

`tlapm` checks, for every buffer, word set, register set and bound:

* `TargetWalkProofs!TypeCorrect`: the walk's types, and that `pathAt` and `seen`
  stay within their arrays.
* `TargetWalkProofs!WalkSound`: `Spec => []DeadIsDead`, by the covering invariant above.
* `StreamProofs!TypeCorrect`: the driver's types.
* `StreamProofs!DriverSound`: `Spec => []FindingsSound`. The invariant `SoundInv`
  says of every open slot that *if* its resource is dead at the cursor then its
  finding is safe (and its downgrade is safe as it is). `FindingsSound` alone is not
  inductive: it says nothing of findings not yet out. Each word either ends the life
  of the resource (the premise becomes true: report), is an observer (drop), or
  leaves the resource alone and passes the premise back one word (`DeadStep`,
  `CarryBack`). The branch slot's invariant carries the premise back to *every* slot since the
  branch, which is what lets one straight-line proof serve both edges when the
  target lies in between (`Contained`).

* `TargetWalkProofs!RefusalsExplained`: `Spec => []RefusalHasReason`. The invariant `ReasonInv` says that until
  the verdict every edge waiting, and the slot the walk is at, lies in *every* set of slots by which the target is
  dead (`GradedOn`). A step stays within such a set, so the first slot outside is a slot no such set has.
* `StreamProofs!ProofsEndAtGaps`: `Spec => ProofsStopAtGaps`. `GapInv`: gaps lie behind the cursor; a tracker
  but the funnel's is armed for the word just before it, no gap; nothing skipped lies between the match of a held
  finding and the cursor. A flush that forgets a slot or a tracker breaks one of the three.
* `StreamProofs!DowngradesKept`: `Spec => FallbackKept`, from the types alone and two facts: an
  advancer leaves a slot as it is or closes it with its fold or its downgrade emitted (`Advanced`), and a
  branch that reopens the branch's slot has closed it first, since every transfer ends its proof.
* `StreamProofs!PairsReportedOnce`: `Spec => []OneReport`. `PairInv` adds to it that the pairs held by any two
  slots differ, that a downgrade is single and of its fold's pair, and that all of them are older than the word
  at the cursor. What one word matches is new, and its kind allows one match (`ChecksPair`) beside the dead
  compare's, which starts at the word itself.
* `StreamProofs!WindowsEnteredAtTop`: `Spec => []EnteredAtTop`. The gate asks a map of targets that another
  loop collected before the first word. `EntryInv`: the words decoded so far, and those still ahead of the cursor, are among the
  words that loop visits, for both step over pools alike (`ScanVisits` is its closed form).
* `StreamProofs!FindingsComposed`: `Spec => []FindingsCompose`. `FormInv` gives each kind of finding its form: a window and
  what is deleted from it. The argument (`StillDead`) is about the buffer as it is when the other findings have been
  applied: a set of slots in which nothing observes the register stays one, since the words put in observe no more than
  those they replace. Its premises are part of the property: no branch leads into a pool, and the pairs are
  adjacent; the finding `gap` is a pair that is not.

* `ReportsProofs!PutKeepsReachable`, `FreeSlotEndsProbe`, `AddKeepsReachable`: of a table of any capacity, any keys and
  any hash. The slots a probe passes are occupied by other keys and stay so; of all residues one is the free
  slot's. The lemmas after them are about growth: the rows put again one by one (`Filled`) make a table with room that counts
  every key as before.
* `ReportsProofs!ProbesAlwaysEnd`: `Spec => []ProbesEnd`, and `TypesHold`: `Spec => []TypeOK`. The invariant `ReportsInv` has the
  six tables sound (each row reachable, each counting something), a free slot in all but the constants', and every
  group found under its own key and no other. Hence no more groups than slots in use (`GroupsFitSlots`), which is what gives
  the group table, hashed again from the list of groups, the room it needs (`RegroupedTable`). The functions of a
  range come in order, none over another: that is about spans of sorted anchors (`SpansInOrder`).
* `ReportsProofs!TallyImplemented`: `Spec => PromiseKept`, the refinement of `Tally`. `TallyInv` relates what the code looks up to what
  the promise means: the units of a range are the last functions keyed, at their addresses and in their groups, so the
  unit that holds an address (`UnitHolds`: the last one that starts at or below it) is the function the finding is
  in, and two remembered rows are of one shape only if they are one row.

* `ReportsProofs!CopiesProved`: `Spec => []CopiesAreCopies`. `MembersKept`: a keyed function lies in its range, its keys are
  its own words', its group's key is its own. Three arguments make equal keys mean copies. The marks of the span are
  those of the trimmed function (`MarksTrimmed`): what a literal or a pool marks is kept, what is cut off marks nothing. A register the
  fold takes to hold a page does (`PagesHeld`), and equal parametric keys make the fold of both functions agree
  on the registers at every word (`PagesAlike`). Then items folded alike are of words that mean the same (`MeansSame`) or
  have the same shape (`ShapesSame`).

* `ReportsProofs!SumsProved`: `Spec => []SumsAgree`. The sums are `SumFunction` of the community modules; that it adds one value at a
  time (`SumChanged`) is proved first, from a function on the subsets of its domain, since a theorem by induction over
  sets is out of the provers' reach. `SumInv` is `SumsAgree` with what makes it inductive: the size of a group is that of its key, an
  identical key is counted exactly if some function has it, and the functions of a group of one identical key are one
  variant. The last needs that identical keys are parametric copies (`IdentsAreParams`: words folded alike mark alike), or else a
  twin could be in another group and its variant be counted in neither.

* `PeepholeProofs!TypesHold`: `Spec => []TypeOK`, and `RewritesAlwaysEncode`: `Spec => []RewritesEncode`. A fold computes its
  shift amounts, fields and masks from two words that can be encoded; a lemma per check (`GoodShiftFold`...) shows that they
  fit. The hard ones are masks: what an AND of a low mask becomes, how high a run of ones ends (`MaskEnds`), that the
  intersection of two masks is looked up before it is suggested, and the widths a chain of extensions may end with. `Invariant`
  says that what a tracker holds is the word before, that it opens that tracker, and that the field of an insert is one
  run within its register.
* `PeepholeProofs!WindowsReportedOnce`: `Spec => []ReportedOnce`. The trackers do not know of each other; `Claims` names for each the
  producers and consumers it takes, and `OneClaim` shows them apart. The delicate pair are the sign-extension and the
  chain of masks (`SextIsNotChained`): both take an SBFX before a mask, and the condition by which the chain leaves the other's shape
  alone has to be the other's condition. `Windows` adds that the chain of adjustments holds adjustments and that the two
  words of an insert are two.
* `FoldsProofs!FoldsAlwaysSound`: `Spec => []FoldsSound`, the soundness rule of `README.md:29-33` for the folding checks, at
  every register width, from every state of registers, SP and flags, and for every buffer. `PairsAreSound` is the
  same of two words alone, of which a signed load may be the first, followed by what stays of them
  after the window. A lemma per check (`ShiftIsSound`, `ChainIsSound`, `MulIsSound`...) computes both sides; where
  the words are masks and shifts both are sets of bit positions and the lemma compares them position by position; where they are
  sums, `AluProofs` says which number the adder's bits stand for. The invariant `SoundWindows` adds to that of
  `PeepholeProofs` what the two longer checks hold: a chain's adjustment and the words since have left its registers alone
  (`ChainsHeld`), and a started insert holds the last word or the last two (`InsertHeld`). `AdjustmentsAreSound` then carries
  the sum through the words in between, in which the kept words may read anything but the register adjusted.
  The premise `Ordinary(Families)` leaves out three spellings, each of which a check misjudges and *Findings* describes: the
  W-form `ADD Wd, Wd, #0`, a write of SP that `insn_writes_sp` misses after an adjustment that reads SP, and three parts of
  an insert in a row (the run `synthesis`). Without any of the three the theorem is false; `folds` evaluates the premise of its own
  families (`FoldsAreOrdinary`).

* `LseProofs!LoopsImplement`: `Spec => LoopsAtomic`, the refinement of `AtomicUpdate`, at every register width and for every
  buffer, machine and rival. The invariant `LseInv` has three parts. `ReadingInv`: the words held are a loop as far as it
  goes, and a finding that waits or is out was made of the loop at its place, with every register the loop spends either watched still or
  overwritten since, and not read before that (`Follows`). `MemoryHolds`: memory has its cells and no others. `ThreadHolds`: the thread
  is somewhere in the loop of the finding, what it loaded is in its register, the registers the loop does not write are as they
  were at the begin, and a monitor still armed means that memory holds what was loaded (`Holding`); it is why a store
  that succeeds stores what the atomic would (`LoopStores`). A step of the loop keeps that (`Running`); the two moments at which the loop has taken
  effect, a store that succeeds and a compare that is going to fail, leave what the rewrite leaves but for the registers spent
  (`Matched`), and the words after the loop take the difference away (`SameAnswer`). The hard part is arithmetic on part of a register: a byte loop adds in W
  and stores eight bits, `LDADDB` adds in eight (`SumCut`, `DifferenceCut`), SUB becomes the addition of a negated operand, and
  the Z flag of a CMP says that the bits `CAS` compares are equal (`EqualIfNoDifference`).

* `NumbersProofs!NumbersAlwaysTrue`: `Spec => []NumbersTrue`, for every buffer, side entry, forgotten computation, machine and register
  width. A value number is an equivalence class, so the invariant (`NumbersInv`) gives it a meaning: for every machine that goes
  on there is one value per number (`Knows`), such that each register, SP and the flags hold the value of their number, and a
  remembered computation (`Meant`) has, of the values of its operands' numbers, the value of its own number. `Sane` adds what the tables need for that: numbers
  are at most the counter, in the registers as in the rows and their keys. The heart is that the key decides the value (`KeyDetermines`): two words the table takes for one
  computation compute one value from equal operands, also when they differ in spelling, order of operands or width. A word then either finds
  its key, and writes what the machine already knows by that number, or takes a new number that nothing is
  known of (`NumberedKnows`, `AssignKnows`); a word that is not pure gives what it writes new numbers. `NumberSound` says it of every word; a word said to recompute what its destination holds is pure
  and leaves every register, SP and the flags as they were.
* `NumbersProofs!OwnersApart`: `Spec => []OneOwner`. Seven pairs of checks have to be apart, and each check claim a word once.
  Most are apart by the shapes they take (`Claimed`); the delicate pair are the recompute and the redundant zero
  extension, for a field extracted in place is not among the shapes the recompute leaves to others. It cannot be a recompute
  at all: a computation is numbered after what it reads (`Older`, in `OwnersInv`), so a word that reads its destination
  never computes the number its destination carries (`NumberOlder`). An attempt to prove the property with no pairs left
  out failed on `Shared`, which runs then showed to occur.

The theorems about the driver and the walks rest on `WordsAssumption`, `BoundsAssumption` and `ShapesAssumption`, which the
runs `walk` and `driver` evaluate. Those about tables take the hash for a number (`HashIsNumber`) and rest on
`FilesAssumption`, `FindingsAssumption` and `SlotsAssumption`, which `reports` evaluates. `TallyImplemented` takes two more hypotheses, `SumsProved` the second of them:
the mark for "no constant, no function" is no record, and there are no more types than rows (`TypesFit`). The second is the code's own
expectation ("comfortably above the few dozen that exist", `armlint.c:23143`) and nothing in the code enforces it.

Those about the folds rest on `PeepholeAssumption` (what a buffer holds was decoded from words that can be encoded) and
`AluAssumption`, which `folds` evaluates, and on `WidthOfElement`: the register width is a power of two up to 64, as the bitmask
immediates need.

`LoopsImplement` rests on `AluAssumption`, `LseAssumption` and `QuietAssumption`, which `lse` evaluates. The second says what words and
machines are (a machine begins with none of the shared memory in it, exclusives access up to half a register or all of it); the third that no
exclusive follows a loop in a buffer, since the words after a loop are part of both sides and run undisturbed on either.

`NumbersAlwaysTrue` and `OwnersApart` rest on `AluAssumption` and `FactsAssumption`, which `facts` evaluates: what a buffer holds was decoded from words that can be
encoded (`Instructions`), a machine holds values of the register width, and the register file is finite.

Only model-checked: liveness (`AlwaysReturns`: fairness and ENABLED are beyond the prover); the values of `flags`
(`FlagsSound`, `SearchExact`) and the rest of `facts` (`FactsTrue`, `RewritesSound`, `BranchesDecided`), which need a lemma per transfer function as `FoldsProofs` has one per check; the
one completeness claim of the folds (`AndLsrExact`); and of the reports the rebuilds (`RebuildsCounted`).

## Plan

1. Proofs: the rebuilds of the reports; the known bits and ranges of a register (`FactsTrue`) by a lemma per transfer function.
2. The remaining deferral slot, `fp`, with what it watches: a vector register and its lanes.
3. Memory folds: pairs, pre- and post-index, base and offset folding; `Alu` has one cell of memory,
   which is enough for stores of a constant only.
4. Pools and gaps for the trackers of `Flags` and `Facts`, as `Stream` has them: `Facts` has
   data and side entries, `Flags` neither.
5. The census and the BTI lookups.

## Not modelled

* **PAC and jump tables** (`7657-7883`): multi-word stages whose findings are audits; they
  suggest nothing whose effect could be compared.
* **The `fp` slot and vector registers** (`4421-4610`), floating-point and vector rewrites: no
  floating-point values.
* **Memory rewrites**: see the plan.
* **The census, sample sites and names of the verbose reports; the by-type table past its 128 rows**:
  the first print what is already counted; the last is declared beyond reach by the code.
* **BTI and symbols, object readers, command line** (`main.c`): parsing and sorted lookups, with
  no state that outlives a file.
* **Capstone** (external), text and formatting, the tools under `tools/`, tests and fixtures.
