-------------------------------- MODULE Loops --------------------------------
(***************************************************************************)
(* The for loops of the reports: a state, and a body applied to it and to  *)
(* each element of a list in turn.                                         *)
(***************************************************************************)
EXTENDS Integers, Sequences

\* for x in list: state = Step(state, x)
Loop(Step(_, _), init, list) ==
  LET state[i \in 0..Len(list)] ==
        IF i = 0 THEN init ELSE Step(state[i - 1], list[i])
  IN  state[Len(list)]
=============================================================================
