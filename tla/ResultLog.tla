------------------------------ MODULE ResultLog ------------------------------
(***************************************************************************)
(* What a delayed reduction promises to the ranks that share it: they all  *)
(* read one and the same sequence of global results, each at its own pace, *)
(* in order and leaving none out.                                          *)
(***************************************************************************)
EXTENDS Naturals, Sequences

CONSTANTS Ranks, Guess

VARIABLES log,  \* results agreed on so far
          pos,  \* how many of them each rank has read
          read  \* the last one that it has read, at first an initial guess

vars == <<log, pos, read>>

Init == /\ log = <<>> /\ pos = [r \in Ranks |-> 0]
        /\ read = [r \in Ranks |-> Guess]

Extended == Len(log') = Len(log) + 1 /\ SubSeq(log', 1, Len(log)) = log

Read(r) ==
  /\ pos' = [pos EXCEPT ![r] = @ + 1]
  /\ pos'[r] <= Len(log')
  /\ read' = [read EXCEPT ![r] = log'[pos'[r]]]

\* A rank may read a result in the step that completes the next one.
Next ==
  \/ Extended /\ UNCHANGED <<pos, read>>
  \/ \E r \in Ranks : Read(r) /\ (log' = log \/ Extended)

Spec == Init /\ [][Next]_vars
==============================================================================
