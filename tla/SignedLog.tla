------------------------------ MODULE SignedLog ------------------------------
(***************************************************************************)
(* What the signed controls of the operators promise: every series of      *)
(* revisions is a log that only grows at its end, by one entry at a time.  *)
(* OperatorAuth implements it, whatever its workers race for.              *)
(***************************************************************************)
EXTENDS Naturals, Sequences

CONSTANTS Owners, Entries

VARIABLE log

Init == log = [o \in Owners |-> << >>]

Append1(o, e) == log' = [log EXCEPT ![o] = Append(@, e)]

Next == \E o \in Owners : log'[o] # log[o] /\ \E e \in Entries : Append1(o, e)

Spec == Init /\ [][Next]_log
============================================================================
