-------------------------------- MODULE EnvRPC --------------------------------
(***************************************************************************)
(* What the calls of an application promise to it: every state it sends is *)
(* answered exactly once, with an action or with the signal that training  *)
(* is over, and after that signal nobody who is served by the same thread  *)
(* of the master is given another action.                                  *)
(***************************************************************************)
CONSTANTS Clients,  \* applications
          Group(_)  \* thread that serves an application

VARIABLES status,   \* "run", "wait" for an answer, or "over"
          closing   \* groups that are being told that training is over

Init == status = [c \in Clients |-> "run"] /\ closing = {}

Ask(c) == /\ status[c] = "run"
          /\ status' = [status EXCEPT ![c] = "wait"]
          /\ UNCHANGED closing

Act(c) == /\ status[c] = "wait" /\ Group(c) \notin closing
          /\ status' = [status EXCEPT ![c] = "run"]
          /\ UNCHANGED closing

\* A group is closed when all its members wait: none is cut off in its work.
Close(c) == /\ \A d \in Clients : Group(d) = Group(c) => status[d] = "wait"
            /\ closing' = closing \cup {Group(c)}
            /\ UNCHANGED status

Kill(c) == /\ status[c] = "wait" /\ Group(c) \in closing
           /\ status' = [status EXCEPT ![c] = "over"]
           /\ UNCHANGED closing

Next == \E c \in Clients : Ask(c) \/ Act(c) \/ Close(c) \/ Kill(c)

Answer(c) == Act(c) \/ Kill(c)

Spec == /\ Init /\ [][Next]_<<status, closing>>
        /\ \A c \in Clients : SF_<<status, closing>>(Answer(c))
==============================================================================
