------------------------------- MODULE Tally --------------------------------
(* What the report promises of the findings it is given: each is counted   *)
(* by its type, under the function that contains it and, a constant        *)
(* audit's, by its constant -- or its loss is counted; and it is a repeat  *)
(* exactly when a finding of its shape is remembered, a shape being a      *)
(* function up to constants, an offset in it and a type.                   *)
EXTENDS Integers

CONSTANTS Types, Addresses, Values,
  Nowhere,     \* the address of a finding under no anchor
  Unknown,     \* no symbol table, no constant, no function
  Lost         \* counted as missing

VARIABLES
  given,       \* the last finding: its type, address, value and shape
  byType,      \* findings of each type
  byFunction,  \* findings under the anchor at each address, and under none
  byValue,     \* constant audits' findings of each constant
  shapes,      \* the shapes remembered
  repeats,     \* findings of each type that repeat a remembered one
  untracked    \* findings that could be neither compared nor remembered
vars == <<given, byType, byFunction, byValue, shapes, repeats, untracked>>

Init ==
  /\ byType = [t \in Types |-> 0] /\ repeats = [t \in Types |-> 0]
  /\ byFunction = [a \in Addresses \cup {Nowhere, Lost} |-> 0]
  /\ byValue = [v \in Values \cup {Lost} |-> 0]
  /\ shapes = {} /\ untracked = 0

OneMore(f, k) == [f EXCEPT ![k] = @ + 1]

Place(f) ==
  IF f.address = Unknown THEN UNCHANGED byFunction
  ELSE \E a \in {f.address} \cup (IF f.address = Nowhere THEN {} ELSE {Lost}) :
         byFunction' = OneMore(byFunction, a)
Weigh(f) ==
  IF f.value = Unknown THEN UNCHANGED byValue
  ELSE \E v \in {f.value, Lost} : byValue' = OneMore(byValue, v)
Compare(f) ==
  \/ f.shape = Unknown /\ UNCHANGED <<shapes, repeats, untracked>>
  \/ /\ f.shape # Unknown /\ untracked' = untracked + 1
     /\ UNCHANGED <<shapes, repeats>>
  \/ /\ f.shape # Unknown /\ f.shape \in shapes
     /\ repeats' = OneMore(repeats, f.type)
     /\ UNCHANGED <<shapes, untracked>>
  \/ /\ f.shape # Unknown /\ f.shape \notin shapes
     /\ shapes' = shapes \cup {f.shape}
     /\ UNCHANGED <<repeats, untracked>>

Finding ==
  /\ given' # Unknown
  /\ byType' = OneMore(byType, given'.type)
  /\ Place(given') /\ Weigh(given') /\ Compare(given')

Spec == Init /\ [][Finding]_vars
=============================================================================
