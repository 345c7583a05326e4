---------------------------- MODULE MCLearnerLoop ----------------------------
(* Instances of LearnerLoop for TLC. *)
EXTENDS LearnerLoop, TLC

CONSTANTS e1, e2, h1, h2

OwnThread  == (e1 :> h1) @@ (e2 :> h2)
OneThread  == (e1 :> h1) @@ (e2 :> h1)
SingleEnv  == e1 :> h1

\* Environments with a thread each are interchangeable, thread included.
Swap == {(e1 :> e2) @@ (e2 :> e1) @@ (h1 :> h2) @@ (h2 :> h1)}
==============================================================================
