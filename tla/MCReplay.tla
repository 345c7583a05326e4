------------------------------ MODULE MCReplay ------------------------------
(* Setups of Replay, which a configuration file cannot write. *)
EXTENDS Replay
MCSetups == {<<"uniform", FALSE, "farpolfrac">>, <<"uniform", TRUE, "oldest">>,
             <<"PERrank", FALSE, "oldest">>, <<"PERseq", FALSE, "oldest">>}
==============================================================================
