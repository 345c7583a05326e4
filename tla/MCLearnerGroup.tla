---------------------------- MODULE MCLearnerGroup ----------------------------
(* Instances of LearnerGroup for TLC: environments of each rank, steps in its restart *)
(* files (none) and what it gathers at most. *)
EXTENDS LearnerGroup

Even      == [r \in Ranks |-> 1]
Uneven    == [r \in Ranks |-> IF r = 0 THEN 2 ELSE 1]
OneOwner  == [r \in Ranks |-> IF r = 0 THEN 1 ELSE 0]

AllHave   == {[owned |-> Uneven, onWorkers |-> FALSE], [owned |-> Even, onWorkers |-> TRUE]}
Mixed     == AllHave \cup [owned : {OneOwner}, onWorkers : BOOLEAN]

Fresh     == [r \in Ranks |-> 0]
Three     == [r \in Ranks |-> 3]
==============================================================================
