---------------------------- MODULE AtomicUpdate ----------------------------
(* What a finding of check_lse_rmw promises: the code it replaces behaves  *)
(* as the words suggested, run without interruption at one moment between  *)
(* its begin and its end, whatever others write to memory meanwhile.       *)

CONSTANTS
  RunShared(_, _),  \* the machine, with memory, that running words leaves
  Own(_)            \* a machine without memory

VARIABLES
  memory,
  task,     \* the words to run and the machine that runs them, once begun
  effect,   \* what they leave in registers and flags, once they have run
  answer    \* what the code left, once it has ended
vars == <<memory, task, effect, answer>>

Init == task = {} /\ effect = {} /\ answer = {}

Begin ==
  /\ task = {} /\ answer = {} /\ task' # {} /\ \A s, t \in task' : s = t
  /\ UNCHANGED <<memory, effect, answer>>

TakeEffect ==
  /\ effect = {}
  /\ \E t \in task :
       LET m == RunShared([t.machine EXCEPT !.mem = memory], t.words)
       IN  effect' = {Own(m)} /\ memory' = m.mem
  /\ UNCHANGED <<task, answer>>

End ==
  /\ effect # {} /\ answer' = effect
  /\ task' = {} /\ effect' = {}
  /\ UNCHANGED memory

OthersWrite ==
  /\ task # {} /\ memory' # memory
  /\ UNCHANGED <<task, effect, answer>>

Next == Begin \/ TakeEffect \/ End \/ OthersWrite
Spec == Init /\ [][Next]_vars
=============================================================================
