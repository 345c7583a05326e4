------------------------------ MODULE MCRankSetup ------------------------------
(* Command lines for RankSetup. *)
EXTENDS RankSetup

Lines(m, w, p, e, c) ==
  [nMasters : m, nWorkers : w, workerProcessesPerEnv : p, nEnvironments : e, calls : c]

\* All small worlds, and more environments where they are forked; three masters with
\* as many workers or fewer; teams of two; and applications that make more calls.
AnyShapes ==
  {s \in Lines(0 .. 2, 0 .. 3, 0 .. 2, {1}, {0}) : s.nMasters + s.nWorkers > 0}
    \cup Lines(1 .. 2, {0}, {1}, {2}, {0}) \cup Lines(1 .. 2, 1 .. 2, {0}, {2}, {0})
    \cup Lines({3}, 0 .. 2, {1}, {1}, {0}) \cup Lines({1, 2}, {4}, {2}, {1}, {0})
    \cup Lines({1}, {1}, {1}, {1}, {2}) \cup Lines({2}, {1}, {1}, {1}, {1})

\* The first team finds the directory of an earlier run.
SomeDirs == {{<<0, 0>>}}
==============================================================================
