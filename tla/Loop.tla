---------------------------------- MODULE Loop ----------------------------------
(*******************************************************************************)
(* A for-loop over a sequence: Step is its body, which takes the state of the  *)
(* loop and the next element and gives the new state.  SequencesExt!FoldLeft   *)
(* computes the same thing; this form is a recursive function whose properties *)
(* LoopProofs can establish.                                                   *)
(*******************************************************************************)
EXTENDS Integers, Sequences

CONSTANT Step(_, _)

Run(init, seq) ==
  LET state[i \in 0 .. Len(seq)] ==
        IF i = 0 THEN init ELSE Step(state[i - 1], seq[i])
  IN  state[Len(seq)]

================================================================================
