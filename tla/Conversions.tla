---------------------------- MODULE Conversions ----------------------------
(***************************************************************************)
(* The machine that takes the inputs of the conversions one by one: input  *)
(* is nothing, or one input of the kind chosen at first; every property of *)
(* the modules that extend this one speaks of one kind.  A text or a       *)
(* packet is the sequence of its bytes.                                    *)
(***************************************************************************)
EXTENDS Integers, Sequences

CONSTANT Inputs   \* the inputs of each kind, a function

VARIABLES kind, input

vars == <<kind, input>>

Nothing == [kind |-> "none", of |-> <<>>]

Init == kind \in DOMAIN Inputs /\ input = Nothing

Choose ==
  /\ input = Nothing
  /\ \E x \in Inputs[kind] : input' = [kind |-> kind, of |-> x]
  /\ UNCHANGED kind

Finish == input # Nothing /\ input' = Nothing /\ UNCHANGED kind

Next == Choose \/ Finish

Spec == Init /\ [][Next]_vars
=============================================================================
