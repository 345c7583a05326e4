-------------------------- MODULE OnPolicy_proofs --------------------------
(* Proofs about OnPolicy, for every number of environments, agents and      *)
(* vectors and every horizon and batch.                                     *)
EXTENDS OnPolicy, FiniteSums, FiniteSetTheorems, TLAPS

------------------------------------------------------------------------------
(* The inductive invariant                                                 *)

\* Where an environment is in its episode: it ends with the last time step at the
\* latest, and only what has ended is stored.
InEpisode(e) ==
  /\ time[e] \in 0 .. LastTime
  /\ time[e] = 0 => ~ending[e]
  /\ time[e] = LastTime => ending[e]
  /\ hpc[e] = "store" => ending[e]

\* CMA: the agents that have started since the episode began, and that have ended it.
\* All have started when the first ends.
Counted(e) ==
  /\ time[e] = 0 => curNumStartedPerEnv[e] = turn[e] - 1 /\ curNumEndedPerEnv[e] = 0
  /\ time[e] = 1 => /\ curNumEndedPerEnv[e] = turn[e] - 1
                    /\ curNumStartedPerEnv[e] = IF turn[e] = 1 THEN nOwnAgentsPerEnv ELSE 0

\* Every episode of CMA has one transition here, so that what is removed is there.
Started ==
  /\ \A e \in Envs : InEpisode(e) /\ (algo = "CMA" => Counted(e))
  /\ algo = "CMA" => nEpisodes = nTransitions
  /\ mpc # "tasks" => algo = "CMA"

\* Handlers that are past the gate with an episode to store: each has room for it.
Past   == {e \in Envs : hpc[e] # "away" /\ ending[e]}
Quota  == IF algo = "CMA" THEN nSeqPerStep ELSE nHorizon
Stored == IF algo = "CMA" THEN nEpisodes ELSE nTransitions
RoomForPast ==
  Stored + Cardinality(Past) * LastTime < Quota + Cardinality(Envs) * LastTime

IInv == TypeOK /\ Started /\ RoomForPast

------------------------------------------------------------------------------
(* Parameters                                                              *)

LEMMA Product == \A a, b \in Nat \ {0} : a * b \in Nat \ {0}
OBVIOUS

\* A generation and a horizon take one episode or transition at least.
LEMMA QuotaPositive == algo \in Algos => Quota \in Nat \ {0} /\ LastTime \in Nat \ {0}
<1> DEFINE n == Cardinality(Envs)
<1>1. n \in Nat \ {0}
  BY OnPolicyAssumption, FS_CardinalityType, FS_EmptySet
<1>2. batchSize_local \in Nat \ {0}
  <2> HIDE DEF n
  <2>1. BatchSize % n \in 0 .. n - 1
    BY <1>1, OnPolicyAssumption
  <2> QED BY <1>1, <2>1, OnPolicyAssumption DEF batchSize_local, n
<1>3. workLoadSize \in Nat \ {0}
  BY <1>2, Product, PopulationAssumption DEF workLoadSize, Sizes
<1>4. nSeqPerStep \in Nat \ {0}
  BY <1>3, Product, OnPolicyAssumption DEF nSeqPerStep
<1> QED BY <1>4, OnPolicyAssumption DEF Quota, LastTime

LEMMA ModNext ==
  ASSUME NEW n \in Nat \ {0}, NEW i \in 1 .. n
  PROVE  i % n = IF i < n THEN i ELSE 0
OBVIOUS

LEMMA WeightFacts == 0 \in WeightIDs /\ \A n \in Nat : n % ESpopSize \in WeightIDs
BY PopulationAssumption DEF Sizes, WeightIDs

\* The vectors keep their type, whatever is done with them.
LEMMA VectorTypes ==
  ASSUME NEW vector \in [Params -> Int], NEW g \in Int
  PROVE  Drawn(vector, g) \in [Params -> Int] /\ Gathered(vector, g) \in [Params -> Int]
BY DEF Drawn, Gathered

LEMMA InitTypes == populationInit => populationTypeOK
<1>1. [w \in Params |-> 0] \in [Params -> Int] /\ [w \in Params |-> -1] \in [Params -> Int]
  OBVIOUS
<1>2. Drawn([w \in Params |-> -1], 0) \in [Params -> Int]
  BY <1>1, VectorTypes
<1>3. Gathered(Drawn([w \in Params |-> -1], 0), 0) \in [Params -> Int]
  <2>1. \A vector \in [Params -> Int] : Gathered(vector, 0) \in [Params -> Int]
    BY VectorTypes
  <2> QED BY <1>2, <2>1, Zenon
<1> QED BY <1>1, <1>3 DEF populationInit, populationTypeOK

LEMMA StepTypes ==
  ASSUME populationTypeOK, NEW g \in Int
  PROVE  /\ \A i \in WeightIDs : getWeights(i, g) => populationTypeOK'
         /\ drawSamples(g) => populationTypeOK'
         /\ startAllGather(g) => populationTypeOK'
<1> USE DEF populationTypeOK
<1>1. \A i \in WeightIDs : \A h \in Int :
        /\ Drawn(sampled_weights[i], h) \in [Params -> Int]
        /\ Gathered(sampled_weights[i], h) \in [Params -> Int]
  BY VectorTypes
<1>2. ASSUME NEW i \in WeightIDs, getWeights(i, g) PROVE populationTypeOK'
  BY <1>1, <1>2 DEF getWeights
<1>3. drawSamples(g) => populationTypeOK'
  BY <1>1 DEF drawSamples
<1>4. startAllGather(g) => populationTypeOK'
  <2> SUFFICES ASSUME startAllGather(g) PROVE populationTypeOK'
    OBVIOUS
  <2>1. weightsMPIrequests' \subseteq WeightIDs \ {0}
    BY DEF startAllGather
  <2>2. sampled_weights' \in [WeightIDs -> [Params -> Int]]
    <3>1. g - 1 \in Int
      OBVIOUS
    <3> QED BY <1>1, <3>1 DEF startAllGather
  <2> QED BY <2>1, <2>2
<1> QED BY <1>2, <1>3, <1>4

LEMMA SameTypes == populationTypeOK /\ UNCHANGED populationVars => populationTypeOK'
BY DEF populationTypeOK, populationVars

------------------------------------------------------------------------------
(* Slices of the vectors                                                   *)

LEMMA WholeShares ==
  ASSUME NEW n \in Nat, NEW u \in Nat \ {0}
  PROVE  LET q == (n + u - 1) \div u IN q \in Nat /\ n <= u * q /\ u * q < n + u
OBVIOUS

LEMMA Products ==
  ASSUME NEW a \in Nat, NEW b \in Nat, NEW c \in Nat
  PROVE  /\ a * b \in Nat /\ (a * b) * c = a * (c * b)
         /\ (a + 1) * b = a * b + b /\ a <= c => a * b <= c * b
OBVIOUS

\* The stride times the ranks is not less than the parameters, and fits a Uint.
LEMMA StrideFacts ==
  /\ mpiDistribOpsStride \in Nat
  /\ nParams <= learn_size * mpiDistribOpsStride
  /\ learn_size * mpiDistribOpsStride < UintRange
  /\ nParams \in Nat /\ learn_size \in Nat \ {0} /\ UintRange \in Nat
<1> DEFINE u == learn_size * SimdWidth
           q == (nParams + u - 1) \div u
<1>1. /\ nParams \in Nat /\ SimdWidth \in Nat \ {0} /\ learn_size \in Nat \ {0}
      /\ UintRange \in Nat /\ nParams + u <= UintRange
  BY PopulationAssumption DEF Sizes
<1>2. u \in Nat \ {0}
  BY <1>1, Product
<1>3. q \in Nat /\ nParams <= u * q /\ u * q < nParams + u
  BY <1>1, <1>2, WholeShares
<1>4. mpiDistribOpsStride = q * SimdWidth
  BY DEF mpiDistribOpsStride
<1> HIDE DEF q
<1>5. u * q = learn_size * (q * SimdWidth) /\ q * SimdWidth \in Nat
  BY <1>1, <1>3, Products
<1> HIDE DEF u
<1>6. u * q < UintRange
  <2>1. u * q \in Nat
    BY <1>2, <1>3, Products
  <2> DEFINE x == u * q
  <2>2. x \in Nat /\ x < nParams + u
    BY <2>1, <1>3
  <2> HIDE DEF x
  <2>3. x < UintRange
    BY <2>2, <1>1, <1>2
  <2> QED BY <2>3 DEF x
<1> QED BY <1>1, <1>3, <1>4, <1>5, <1>6

\* Where the slices of a rank begin and end.
LEMMA RankBounds ==
  ASSUME NEW r \in LearnRanks
  PROVE  /\ pStarts(r) \in Nat
         /\ mpiDistribOpsStride * (r + 1) = pStarts(r) + mpiDistribOpsStride
         /\ pStarts(r) + mpiDistribOpsStride < UintRange
<1> DEFINE m == mpiDistribOpsStride
<1>1. m \in Nat /\ r \in Nat /\ r + 1 \in Nat /\ r + 1 <= learn_size /\ learn_size \in Nat
  BY StrideFacts DEF LearnRanks
<1>2. learn_size * m < UintRange /\ UintRange \in Nat
  BY StrideFacts
<1> HIDE DEF m
<1>3. m * r \in Nat /\ m * (r + 1) = m * r + m /\ m * (r + 1) <= learn_size * m
  <2>1. r * m \in Nat /\ (r + 1) * m = r * m + m
    BY <1>1, Products
  <2>2. (r + 1) * m <= learn_size * m
    BY <1>1, Products
  <2>3. r * m = m * r /\ (r + 1) * m = m * (r + 1)
    BY <1>1
  <2> QED BY <2>1, <2>2, <2>3
<1>4. learn_size * m \in Nat
  BY <1>1, Products
<1> DEFINE x == m * r
           y == learn_size * m
<1>5. x \in Nat /\ m * (r + 1) = x + m /\ x + m <= y /\ y < UintRange /\ y \in Nat
  BY <1>2, <1>3, <1>4
<1> HIDE DEF x, y
<1>6. x + m < UintRange
  BY <1>1, <1>2, <1>5
<1> QED BY <1>5, <1>6 DEF pStarts, m, x

\* A rank draws what it sends, also where its number of parameters wraps.
LEMMA DrawnIsSent ==
  ASSUME NEW r \in LearnRanks
  PROVE  Slice(r) = Sent(r)
<1> DEFINE m == mpiDistribOpsStride
           b == pStarts(r)
           e == IF b + m < nParams THEN b + m ELSE nParams
<1>1. b \in Nat /\ m \in Nat /\ b + m < UintRange /\ nParams \in Nat /\ UintRange \in Nat
  BY RankBounds, StrideFacts
<1>2. nParams < UintRange
  <2> DEFINE y == learn_size * m
  <2>1. y \in Nat /\ nParams <= y /\ y < UintRange
    BY StrideFacts, Products
  <2> HIDE DEF y
  <2> QED BY <1>1, <2>1
<1>3. pCounts(r) = (e - b) % UintRange
  BY RankBounds DEF pCounts
<1>4. Sent(r) = {w \in Params : b <= w /\ w < b + m}
  BY RankBounds DEF Sent
<1> HIDE DEF m, b
<1>5. (b + ((e - b) % UintRange)) % UintRange = e
  <2>1. CASE e >= b
    <3>1. (e - b) % UintRange = e - b
      BY <1>1, <1>2, <2>1
    <3> QED BY <1>1, <1>2, <2>1, <3>1
  <2>2. CASE e < b
    <3>1. (e - b) % UintRange = e - b + UintRange
      BY <1>1, <1>2, <2>2
    <3>2. (e + UintRange) % UintRange = e
      BY <1>1, <1>2
    <3> QED BY <1>1, <1>2, <3>1, <3>2
  <2> QED BY <1>1, <2>1, <2>2
<1>6. Slice(r) = {w \in Params : b <= w /\ w < e}
  BY <1>3, <1>5, Zenon DEF Slice, b
<1> QED BY <1>1, <1>4, <1>6 DEF Params

\* Every parameter is in the slice of one rank, and of one only.
LEMMA SlicesPartition ==
  /\ \A w \in Params : \E r \in LearnRanks : w \in Slice(r)
  /\ \A r, s \in LearnRanks : r # s => Slice(r) \cap Slice(s) = {}
<1> DEFINE m == mpiDistribOpsStride
<1>0. m \in Nat /\ nParams \in Nat /\ learn_size \in Nat \ {0} /\ nParams <= learn_size * m
  BY StrideFacts
<1>1. \A r \in LearnRanks : \A w : w \in Slice(r) <=> w \in Params /\ m * r <= w /\ w < m * (r + 1)
  BY DrawnIsSent DEF Sent, pStarts
<1> HIDE DEF m
<1>2. ASSUME NEW w \in Params PROVE \E r \in LearnRanks : w \in Slice(r)
  <2>1. w \in Nat /\ w < nParams
    BY <1>0 DEF Params
  <2>2. m > 0
    <3> SUFFICES ASSUME m = 0 PROVE FALSE
      BY <1>0
    <3>1. learn_size * m = 0
      BY <1>0
    <3> QED BY <1>0, <2>1, <3>1
  <2> DEFINE r == w \div m
  <2>3. r \in Nat /\ m * r <= w /\ w < m * (r + 1)
    BY <2>1, <2>2, <1>0
  <2> HIDE DEF r
  <2>4. r < learn_size
    <3> SUFFICES ASSUME learn_size <= r PROVE FALSE
      BY <2>3, <1>0
    <3>1. learn_size * m <= r * m /\ r * m = m * r
      BY <2>3, <1>0, Products
    <3> DEFINE x == learn_size * m
               y == m * r
    <3>2. x \in Nat /\ y \in Nat /\ x <= y /\ y <= w /\ nParams <= x
      BY <3>1, <2>3, <1>0, Products
    <3> HIDE DEF x, y
    <3> QED BY <3>2, <2>1, <1>0
  <2> QED BY <1>0, <1>1, <2>3, <2>4 DEF LearnRanks
<1>3. ASSUME NEW r \in LearnRanks, NEW s \in LearnRanks, r < s, NEW w \in Slice(r)
      PROVE  w \notin Slice(s)
  <2>1. r + 1 \in Nat /\ s \in Nat /\ r + 1 <= s
    BY <1>3, <1>0 DEF LearnRanks
  <2>2. (r + 1) * m <= s * m /\ (r + 1) * m = m * (r + 1) /\ s * m = m * s
    BY <2>1, <1>0, Products
  <2> DEFINE x == m * (r + 1)
             y == m * s
  <2>3. x \in Nat /\ y \in Nat /\ x <= y /\ w \in Nat /\ w < x
    BY <2>1, <2>2, <1>0, <1>1, Products DEF Params
  <2>4. w \in Slice(s) => y <= w
    BY <1>1
  <2> HIDE DEF x, y
  <2> QED BY <2>3, <2>4
<1>4. ASSUME NEW r \in LearnRanks, NEW s \in LearnRanks, r # s
      PROVE  Slice(r) \cap Slice(s) = {}
  <2>1. r < s \/ s < r
    BY <1>4, <1>0 DEF LearnRanks
  <2> QED BY <2>1, <1>3
<1> QED BY <1>2, <1>4

------------------------------------------------------------------------------
(* Types                                                                   *)

LEMMA InitInv == Init => TypeOK /\ Started
<1> SUFFICES ASSUME Init PROVE TypeOK /\ Started
  OBVIOUS
<1> USE OnPolicyAssumption, WeightFacts
<1>1. LastTime \in Nat \ {0}
  BY DEF Init, LastTime
<1>2. TypeOK
  BY InitTypes DEF Init, TypeOK, NoEpisodes
<1>3. Started
  BY <1>1 DEF Init, Started, InEpisode, Counted
<1> QED BY <1>2, <1>3

\* Each step of a handler concerns one environment.
LEMMA HandlerType ==
  ASSUME TypeOK, Started, NEW e \in Envs, Handler(e)
  PROVE  TypeOK' /\ Started'
<1> USE OnPolicyAssumption DEF TypeOK
<1>0. algo' = algo /\ LastTime' = LastTime /\ LastTime \in 1 .. MaxLen
  <2>1. algo' = algo
    BY DEF Handler, Gate, selectAction, processTerminal, terminateCurrentEpisode
  <2> QED BY <2>1 DEF LastTime
<1>9. /\ turn[e] \in 1 .. nOwnAgentsPerEnv
      /\ turn[e] % nOwnAgentsPerEnv = IF turn[e] < nOwnAgentsPerEnv THEN turn[e] ELSE 0
  BY ModNext
<1>1. InEpisode(e) /\ (algo = "CMA" => Counted(e))
  BY DEF Started
<1>2. CASE Gate(e)
  <2>1. TypeOK'
    BY <1>2, SameTypes DEF Gate, dataVars, workVars, stepVars
  <2>2. Started'
    BY <1>2, <1>0 DEF Gate, dataVars, workVars, stepVars, Started, InEpisode, Counted
  <2> QED BY <2>1, <2>2
<1>3. CASE selectAction(e)
  <2>1. ~ending[e] /\ Answer(e, FALSE)
    BY <1>3 DEF selectAction
  <2>2. time[e] < LastTime
    <3>1. time[e] # LastTime
      BY <2>1, <1>1, Zenon DEF InEpisode
    <3>2. time[e] \in 0 .. LastTime /\ LastTime \in Nat
      BY <1>0, <1>1 DEF InEpisode
    <3> QED BY ONLY <3>1, <3>2
  <2>3. /\ turn' \in [Envs -> 1 .. nOwnAgentsPerEnv]
        /\ turn'[e] = IF turn[e] < nOwnAgentsPerEnv THEN turn[e] + 1 ELSE 1
    BY <2>1, <1>9 DEF Answer
  <2>4. /\ time' \in [Envs -> 0 .. MaxLen] /\ ending' \in [Envs -> BOOLEAN]
        /\ turn[e] < nOwnAgentsPerEnv => time'[e] = time[e] /\ ~ending'[e]
        /\ ~(turn[e] < nOwnAgentsPerEnv) =>
             time'[e] = time[e] + 1 /\ (time'[e] = LastTime => ending'[e])
    <3>1. CASE turn[e] < nOwnAgentsPerEnv
      BY <2>1, <3>1 DEF Answer
    <3>2. CASE ~(turn[e] < nOwnAgentsPerEnv)
      <4>1. PICK ends \in BOOLEAN :
              /\ time[e] + 1 = LastTime => ends
              /\ time' = [time EXCEPT ![e] = time[e] + 1]
              /\ ending' = [ending EXCEPT ![e] = ends]
        BY <2>1, <3>2, Zenon DEF Answer
      <4>2. time[e] + 1 \in 0 .. MaxLen
        BY <2>2, <1>0
      <4> QED BY <4>1, <4>2, <3>2
    <3> QED BY <3>1, <3>2
  <2>5. /\ curNumStartedPerEnv' \in [Envs -> 0 .. nOwnAgentsPerEnv]
        /\ weightIDs' \in [Envs -> WeightIDs] /\ lastWorkLoadStarted' \in Nat
        /\ algo = "CMA" /\ time[e] = 0 => curNumStartedPerEnv'[e] = turn[e]
        /\ ~(algo = "CMA" /\ time[e] = 0) => curNumStartedPerEnv' = curNumStartedPerEnv
        /\ \A x \in Envs \ {e} : curNumStartedPerEnv'[x] = curNumStartedPerEnv[x]
    <3>1. CASE algo = "CMA" /\ time[e] = 0
      <4>1. assignWeightID(e) /\ curNumStartedPerEnv[e] = turn[e] - 1
        BY <1>3, <3>1, <1>1 DEF selectAction, Counted
      <4>2. turn[e] \in 1 .. nOwnAgentsPerEnv
        OBVIOUS
      <4>3. curNumStartedPerEnv' = [curNumStartedPerEnv EXCEPT ![e] = turn[e]]
        <5>1. curNumStartedPerEnv' = [curNumStartedPerEnv EXCEPT ![e] = curNumStartedPerEnv[e] + 1]
          BY <4>1, Zenon DEF assignWeightID
        <5>2. curNumStartedPerEnv[e] + 1 = turn[e]
          BY <4>1, <4>2
        <5> QED BY <5>1, <5>2
      <4>4. weightIDs' \in [Envs -> WeightIDs] /\ lastWorkLoadStarted' \in Nat
        <5>1. lastWorkLoadStarted % ESpopSize \in WeightIDs
          BY WeightFacts
        <5>2. \/ weightIDs' = [weightIDs EXCEPT ![e] = lastWorkLoadStarted % ESpopSize]
              \/ weightIDs' = weightIDs
          BY <4>1, Zenon DEF assignWeightID
        <5>3. \E d \in {0, 1} : lastWorkLoadStarted' = lastWorkLoadStarted + d
          BY <4>1 DEF assignWeightID
        <5> QED BY <5>1, <5>2, <5>3
      <4>5. curNumStartedPerEnv' \in [Envs -> 0 .. nOwnAgentsPerEnv]
        BY <4>2, <4>3
      <4>6. /\ curNumStartedPerEnv'[e] = turn[e]
            /\ \A x \in Envs \ {e} : curNumStartedPerEnv'[x] = curNumStartedPerEnv[x]
        BY <4>3
      <4> QED BY <3>1, <4>4, <4>5, <4>6
    <3>2. CASE ~(algo = "CMA" /\ time[e] = 0)
      BY <1>3, <3>2 DEF selectAction
    <3> QED BY <3>1, <3>2
  <2>6. /\ nSeen' \in Nat /\ hpc' = [hpc EXCEPT ![e] = "away"]
        /\ UNCHANGED <<algo, nEpisodes, nTransitions, curNumEndedPerEnv, Ns, mpc, stepVars>>
        /\ \A x \in Envs \ {e} : time'[x] = time[x] /\ ending'[x] = ending[x] /\ turn'[x] = turn[x]
    BY <1>3, <2>1 DEF selectAction, Answer
  <2>12. populationTypeOK'
    <3>1. CASE algo = "CMA"
      <4>1. getWeights(weightIDs'[e], nGradSteps)
        BY <1>3, <3>1, Zenon DEF selectAction
      <4>2. weightIDs'[e] \in WeightIDs /\ nGradSteps \in Int
        BY <2>5
      <4> QED BY <4>1, <4>2, StepTypes
    <3>2. CASE algo # "CMA"
      BY <1>3, <3>2, SameTypes DEF selectAction
    <3> QED BY <3>1, <3>2
  <2>7. TypeOK'
    BY <2>3, <2>4, <2>5, <2>6, <2>12 DEF stepVars
  <2>8. ASSUME NEW x \in Envs PROVE InEpisode(x)' /\ (algo = "CMA" => Counted(x)')
    <3>1. CASE x # e
      <4>1. InEpisode(x)'
        BY <3>1, <1>0, <2>6 DEF Started, InEpisode
      <4>2. ASSUME algo = "CMA" PROVE Counted(x)'
        BY <4>2, <3>1, <2>5, <2>6 DEF Started, Counted
      <4> QED BY <4>1, <4>2
    <3>2. CASE x = e
      <4>1. InEpisode(e)'
        BY <1>0, <1>1, <2>1, <2>2, <2>4, <2>6 DEF InEpisode
      <4>2. ASSUME algo = "CMA" PROVE Counted(e)'
        <5>1. time[e] = 0 /\ LastTime = 1
          BY <4>2, <2>2, <1>0 DEF LastTime
        <5>2. curNumStartedPerEnv'[e] = turn[e] /\ curNumEndedPerEnv'[e] = 0
          BY <5>1, <4>2, <1>1, <2>5, <2>6 DEF Counted
        <5> QED BY <5>1, <5>2, <1>9, <2>3, <2>4 DEF Counted
      <4> QED BY <3>2, <4>1, <4>2
    <3> QED BY <3>1, <3>2
  <2>9. UNCHANGED <<nEpisodes, nTransitions, mpc>>
    BY <2>6
  <2> QED BY <2>7, <2>8, <2>9, <1>0 DEF Started
<1>4. CASE processTerminal(e)
  <2> USE <1>4 DEF processTerminal, dataVars, stepVars
  <2>1. Ns' \in [Envs -> [WeightIDs -> Nat]]
    OBVIOUS
  <2>2. TypeOK'
    BY <2>1, SameTypes
  <2>3. Started'
    BY <1>0 DEF Started, InEpisode, Counted
  <2> QED BY <2>2, <2>3
<1>5. CASE terminateCurrentEpisode(e)
  <2>1. hpc[e] = "store" /\ Answer(e, TRUE)
    BY <1>5 DEF terminateCurrentEpisode
  <2>2. ending[e] /\ time[e] \in 1 .. LastTime
    BY <2>1, <1>0, <1>1 DEF InEpisode
  <2>3. /\ turn' \in [Envs -> 1 .. nOwnAgentsPerEnv]
        /\ turn'[e] = IF turn[e] < nOwnAgentsPerEnv THEN turn[e] + 1 ELSE 1
    BY <2>1, <1>9 DEF Answer
  <2>4. /\ time' \in [Envs -> 0 .. MaxLen] /\ ending' \in [Envs -> BOOLEAN]
        /\ turn[e] < nOwnAgentsPerEnv => time'[e] = time[e] /\ ending'[e]
        /\ ~(turn[e] < nOwnAgentsPerEnv) => time'[e] = 0 /\ ~ending'[e]
    <3>1. CASE turn[e] < nOwnAgentsPerEnv
      BY <2>1, <2>2, <3>1 DEF Answer
    <3>2. CASE ~(turn[e] < nOwnAgentsPerEnv)
      <4>1. PICK ends \in BOOLEAN :
              /\ 0 = 0 => ~ends
              /\ time' = [time EXCEPT ![e] = 0]
              /\ ending' = [ending EXCEPT ![e] = ends]
        BY <2>1, <3>2, Zenon DEF Answer
      <4> QED BY <4>1, <3>2
    <3> QED BY <3>1, <3>2
  <2>5. /\ algo # "CMA" => UNCHANGED <<curNumStartedPerEnv, curNumEndedPerEnv>>
        /\ algo = "CMA" => countEnded(e)
    BY <1>5 DEF terminateCurrentEpisode
  <2>6. ASSUME algo = "CMA"
        PROVE  /\ curNumStartedPerEnv' = [curNumStartedPerEnv EXCEPT ![e] = 0]
               /\ curNumEndedPerEnv' = [curNumEndedPerEnv EXCEPT ![e] =
                     IF turn[e] < nOwnAgentsPerEnv THEN turn[e] ELSE 0]
    <3>1. time[e] = 1
      BY <2>2, <2>6, <1>0 DEF LastTime
    <3>2. /\ curNumEndedPerEnv[e] + 1 = turn[e]
          /\ turn[e] # 1 => curNumStartedPerEnv[e] = 0
      BY <3>1, <2>6, <1>1, <1>9 DEF Counted
    <3>3. curNumStartedPerEnv = [curNumStartedPerEnv EXCEPT ![e] = curNumStartedPerEnv[e]]
      OBVIOUS
    <3> QED BY <2>5, <2>6, <3>2, <3>3, <1>9 DEF countEnded
  <2>7. /\ curNumStartedPerEnv' \in [Envs -> 0 .. nOwnAgentsPerEnv]
        /\ curNumEndedPerEnv' \in [Envs -> 0 .. nOwnAgentsPerEnv - 1]
        /\ \A x \in Envs \ {e} : /\ curNumStartedPerEnv'[x] = curNumStartedPerEnv[x]
                                 /\ curNumEndedPerEnv'[x] = curNumEndedPerEnv[x]
    BY <2>5, <2>6, <1>9
  <2>8. /\ nEpisodes' \in Nat /\ nTransitions' \in Nat /\ nSeen' \in Nat
        /\ hpc' = [hpc EXCEPT ![e] = "away"]
        /\ UNCHANGED <<algo, weightIDs, lastWorkLoadStarted, Ns, mpc, stepVars>>
        /\ \A x \in Envs \ {e} : time'[x] = time[x] /\ ending'[x] = ending[x] /\ turn'[x] = turn[x]
    BY <1>5, <2>1 DEF terminateCurrentEpisode, Answer
  <2>12. populationTypeOK'
    BY <1>5, SameTypes DEF terminateCurrentEpisode
  <2>9. TypeOK'
    BY <2>3, <2>4, <2>7, <2>8, <2>12 DEF stepVars
  <2>10. ASSUME NEW x \in Envs PROVE InEpisode(x)' /\ (algo = "CMA" => Counted(x)')
    <3>1. CASE x # e
      <4>1. InEpisode(x)'
        BY <3>1, <1>0, <2>8 DEF Started, InEpisode
      <4>2. ASSUME algo = "CMA" PROVE Counted(x)'
        BY <4>2, <3>1, <2>7, <2>8 DEF Started, Counted
      <4> QED BY <4>1, <4>2
    <3>2. CASE x = e
      <4>1. InEpisode(e)'
        BY <1>0, <2>2, <2>4, <2>8 DEF InEpisode
      <4>2. ASSUME algo = "CMA" PROVE Counted(e)'
        <5>1. time[e] = 1
          BY <2>2, <4>2, <1>0 DEF LastTime
        <5>2. curNumStartedPerEnv'[e] = 0 /\ curNumEndedPerEnv'[e] = IF turn[e] < nOwnAgentsPerEnv THEN turn[e] ELSE 0
          BY <2>6, <4>2
        <5> QED BY <5>1, <5>2, <1>9, <2>3, <2>4 DEF Counted
      <4> QED BY <3>2, <4>1, <4>2
    <3> QED BY <3>1, <3>2
  <2>11. algo = "CMA" => nEpisodes' = nTransitions'
    <3>1. nEpisodes' = nEpisodes + 1 /\ nTransitions' = nTransitions + time[e]
      BY <1>5 DEF terminateCurrentEpisode
    <3>2. algo = "CMA" => time[e] = 1 /\ nEpisodes = nTransitions
      BY <2>2, <1>0 DEF LastTime, Started
    <3> QED BY <3>1, <3>2
  <2> QED BY <2>8, <2>9, <2>10, <2>11, <1>0 DEF Started
<1> QED BY <1>2, <1>3, <1>4, <1>5 DEF Handler

LEMMA SurplusFacts ==
  ASSUME TypeOK
  PROVE  Surplus \in 0 .. nTransitions
<1> DEFINE s == nTransitions - (LastTime + 1) - nHorizon
<1>1. s \in Int /\ s <= nTransitions /\ nTransitions \in Nat
  BY OnPolicyAssumption, QuotaPositive DEF TypeOK
<1>2. Max({0, s}) \in {0, s} /\ \A y \in {0, s} : Max({0, s}) >= y
  BY <1>1 DEF Max
<1> QED BY <1>1, <1>2 DEF Surplus

LEMMA MainType ==
  ASSUME TypeOK, Started, Main
  PROVE  TypeOK' /\ Started'
<1> USE OnPolicyAssumption DEF TypeOK, handlerVars, dataVars, workVars, stepVars
<1>1. LastTime' = LastTime
  BY DEF Main, stepInit, stepMainPPO, stepMainCMA, resetLoss,
     applyEpisodesRemovalAlgo, apply_update, stepComplete, LastTime
<1>2. Started'
  <2>1. algo' = algo /\ \A e \in Envs : InEpisode(e)' /\ (algo = "CMA" => Counted(e)')
    BY <1>1 DEF Main, stepInit, stepMainPPO, stepMainCMA, resetLoss,
                applyEpisodesRemovalAlgo, apply_update, stepComplete, Started, InEpisode, Counted
  <2>2. mpc' # "tasks" => algo = "CMA"
    BY DEF Main, stepInit, stepMainPPO, stepMainCMA, resetLoss,
           applyEpisodesRemovalAlgo, apply_update, stepComplete, Started
  <2>3. algo = "CMA" => nEpisodes' = nTransitions'
    <3>1. CASE UNCHANGED dataVars
      BY <3>1 DEF Started
    <3>2. CASE clearAll
      BY <3>2 DEF clearAll
    <3>3. CASE applyEpisodesRemovalAlgo
      BY <3>3 DEF applyEpisodesRemovalAlgo, Started
    <3> QED BY <3>1, <3>2, <3>3 DEF Main, stepInit, stepMainPPO, stepMainCMA, resetLoss,
       apply_update, stepComplete
  <2> QED BY <2>1, <2>2, <2>3 DEF Started
<1>3. CASE stepInit
  BY <1>2, <1>3, SameTypes DEF stepInit
<1>4. CASE stepMainPPO
  BY <1>2, <1>4, SameTypes DEF stepMainPPO
<1>5. CASE stepMainCMA
  BY <1>2, <1>5, SameTypes DEF stepMainCMA
<1>6. CASE resetLoss
  <2>1. lastWorkLoadStarted' \in Nat
    <3>1. workLoadSize \in Nat \ {0}
      <4>1. batchSize_local \in Nat \ {0}
        <5> DEFINE n == Cardinality(Envs)
        <5>1. n \in Nat \ {0}
          BY FS_CardinalityType, FS_EmptySet
        <5> HIDE DEF n
        <5>2. BatchSize % n \in 0 .. n - 1
          BY <5>1
        <5> QED BY <5>1, <5>2 DEF batchSize_local, n
      <4> QED BY <4>1, Product, PopulationAssumption DEF workLoadSize, Sizes
    <3> QED BY <3>1, <1>6 DEF resetLoss
  <2> QED BY <1>2, <1>6, <2>1, SameTypes DEF resetLoss, NoEpisodes
<1>7. CASE stepComplete
  <2>1. nGradSteps + 1 \in Int
    OBVIOUS
  <2>2. populationTypeOK'
    BY <1>7, <2>1, StepTypes, SameTypes DEF stepComplete
  <2> QED BY <1>2, <1>7, <2>2 DEF stepComplete, clearAll
<1>9. CASE apply_update
  <2>1. nGradSteps + 1 \in Int
    OBVIOUS
  <2>2. populationTypeOK'
    BY <1>9, <2>1, StepTypes DEF apply_update
  <2> QED BY <1>2, <1>9, <2>2 DEF apply_update
<1>8. CASE applyEpisodesRemovalAlgo
  <2>1. nEpisodes' \in Nat /\ nTransitions' \in Nat
    BY <1>8, SurplusFacts DEF applyEpisodesRemovalAlgo, Started
  <2> QED BY <1>2, <1>8, <2>1, SameTypes DEF applyEpisodesRemovalAlgo
<1> QED BY <1>2, <1>3, <1>4, <1>5, <1>6, <1>7, <1>8, <1>9 DEF Main

------------------------------------------------------------------------------
(* Room for what is past the gate                                          *)

LEMMA PastFacts == IsFiniteSet(Past) /\ Cardinality(Past) \in 0 .. Cardinality(Envs)
                   /\ Cardinality(Envs) \in Nat
<1>1. Past \subseteq Envs
  BY DEF Past
<1>2. IsFiniteSet(Past) /\ Cardinality(Past) <= Cardinality(Envs)
  BY <1>1, FS_Subset, OnPolicyAssumption
<1> QED BY <1>2, FS_CardinalityType, OnPolicyAssumption

LEMMA Monotone == \A a, b, c \in Nat : a <= b => a * c <= b * c
OBVIOUS

\* Below the quota there is room for one episode of every environment.
LEMMA BelowQuota ==
  ASSUME TypeOK, Stored < Quota
  PROVE  RoomForPast
<1> DEFINE p == Cardinality(Past) * LastTime
           n == Cardinality(Envs) * LastTime
<1>1. Stored \in Nat /\ Quota \in Nat \ {0} /\ LastTime \in Nat \ {0}
  BY QuotaPositive DEF TypeOK, Stored
<1>2. p \in Nat /\ n \in Nat /\ p <= n
  BY <1>1, PastFacts, Monotone
<1> HIDE DEF p, n
<1>3. Stored + p < Quota + n
  BY <1>1, <1>2
<1> QED BY <1>3 DEF RoomForPast, p, n

LEMMA InitRoom == ASSUME Init, TypeOK PROVE RoomForPast
<1>1. Stored = 0
  BY DEF Init, Stored
<1>2. Quota \in Nat \ {0}
  BY QuotaPositive DEF TypeOK
<1> QED BY <1>1, <1>2, BelowQuota

LEMMA HandlerRoom ==
  ASSUME IInv, NEW e \in Envs, Handler(e), TypeOK'
  PROVE  RoomForPast'
<1> USE DEF IInv
<1>0. /\ algo' = algo /\ LastTime' = LastTime /\ Quota' = Quota
      /\ Quota \in Nat \ {0} /\ LastTime \in Nat \ {0} /\ Stored \in Nat
  BY QuotaPositive DEF Handler, Gate, selectAction, processTerminal, terminateCurrentEpisode,
     LastTime, Quota, Stored, TypeOK, nSeqPerStep, workLoadSize, batchSize_local
<1>1. InEpisode(e)
  BY DEF Started
<1>2. CASE Gate(e)
  <2>1. Stored' = Stored /\ Stored < Quota
    BY <1>2, <1>0 DEF Gate, Stored, Quota, blockDataAcquisition, dataVars, TypeOK,
                      nSeqPerStep, workLoadSize, batchSize_local
  <2>2. (Stored < Quota)'
    BY <2>1, <1>0
  <2>3. (TypeOK /\ Stored < Quota => RoomForPast)'
    BY BelowQuota, PTL
  <2> QED BY <2>2, <2>3
<1>3. CASE selectAction(e) \/ processTerminal(e)
  <2>1. Stored' = Stored
    BY <1>3, <1>0 DEF selectAction, processTerminal, dataVars, Stored
  <2>2. Past' = Past
    BY <1>3 DEF selectAction, processTerminal, Answer, Past, TypeOK
  <2> QED BY <1>0, <2>1, <2>2 DEF RoomForPast
<1>4. CASE terminateCurrentEpisode(e)
  <2> DEFINE c == Cardinality(Past)
             n == Cardinality(Envs) * LastTime
  <2>1. e \in Past /\ time[e] \in 0 .. LastTime
    BY <1>4, <1>1 DEF terminateCurrentEpisode, Past, InEpisode
  <2>2. Past' = Past \ {e}
    BY <1>4 DEF terminateCurrentEpisode, Answer, Past, TypeOK
  <2>3. Cardinality(Past') = c - 1 /\ c \in Nat \ {0}
    BY <2>1, <2>2, PastFacts, FS_RemoveElement, FS_EmptySet
  <2>4. Stored' \in Nat /\ Stored' <= Stored + LastTime
    BY <1>4, <1>0, <2>1 DEF terminateCurrentEpisode, Stored, LastTime, TypeOK
  <2>5. Stored + c * LastTime < Quota + n
    BY DEF RoomForPast
  <2>6. n \in Nat
    BY <1>0, PastFacts
  <2> HIDE DEF c, n
  <2>7. (c - 1) * LastTime = c * LastTime - LastTime /\ c * LastTime \in Nat
    BY <2>3, <1>0
  <2>8. Stored' + (c - 1) * LastTime < Quota + n
    BY <1>0, <2>4, <2>5, <2>6, <2>7
  <2> QED BY <2>8, <2>3, <1>0 DEF RoomForPast, n
<1> QED BY <1>2, <1>3, <1>4 DEF Handler

LEMMA MainRoom == ASSUME IInv, Main, TypeOK' PROVE RoomForPast'
<1> USE DEF IInv
<1>0. /\ algo' = algo /\ Past' = Past
      /\ LastTime' = LastTime /\ Quota' = Quota /\ Quota \in Nat \ {0}
  BY QuotaPositive DEF Main, stepInit, stepMainPPO, stepMainCMA, resetLoss,
     applyEpisodesRemovalAlgo, apply_update, stepComplete, Past,
     handlerVars, LastTime, Quota, TypeOK, nSeqPerStep, workLoadSize, batchSize_local
<1>1. CASE UNCHANGED dataVars
  BY <1>0, <1>1 DEF RoomForPast, Stored, dataVars
<1>2. CASE clearAll
  <2>1. (Stored < Quota)'
    BY <1>0, <1>2 DEF clearAll, Stored
  <2>2. (TypeOK /\ Stored < Quota => RoomForPast)'
    BY BelowQuota, PTL
  <2> QED BY <2>1, <2>2
<1>3. CASE applyEpisodesRemovalAlgo
  <2> DEFINE p == Cardinality(Past) * LastTime
             n == Cardinality(Envs) * LastTime
  <2>1. Stored' <= Stored /\ Stored' \in Int /\ Stored \in Int
    BY <1>3, SurplusFacts DEF applyEpisodesRemovalAlgo, Stored, TypeOK
  <2>2. Stored + p < Quota + n
    BY DEF RoomForPast
  <2>3. p \in Nat /\ n \in Nat
    BY PastFacts, QuotaPositive DEF TypeOK
  <2>4. RoomForPast' <=> Stored' + p < Quota + n
    BY <1>0 DEF RoomForPast
  <2> HIDE DEF p, n
  <2>5. Quota \in Int /\ p \in Int /\ n \in Int
    BY <1>0, <2>3
  <2>6. Stored' + p < Quota + n
    <3>1. \A a, b, x, q, y \in Int : a <= b /\ b + x < q + y => a + x < q + y
      OBVIOUS
    <3> QED BY <3>1, <2>1, <2>2, <2>5
  <2> QED BY <2>4, <2>6
<1> QED BY <1>1, <1>2, <1>3 DEF Main, stepInit, stepMainPPO, stepMainCMA, resetLoss,
     applyEpisodesRemovalAlgo, apply_update, stepComplete

------------------------------------------------------------------------------
(* What the vectors hold                                                   *)

OwnIn(g) ==
  \A i \in WeightIDs : \A w \in Slice(learn_rank) : sampled_weights[i][w] = g

\* The slices of this rank are of the generation drawn last, and a vector that is
\* not being gathered of that generation in all its parameters.
Vectors ==
  algo = "CMA" => IF mpc = "gather" THEN OwnIn(nGradSteps + 1)
                  ELSE OwnIn(nGradSteps) /\ WholeIn(nGradSteps)

\* A gather leaves the slice of this rank alone and brings those of all others.
LEMMA GatherFacts ==
  ASSUME NEW vector \in [Params -> Int], NEW g \in Int
  PROVE  /\ \A w \in Slice(learn_rank) : Gathered(vector, g)[w] = vector[w]
         /\ (\A w \in Slice(learn_rank) : vector[w] = g)
              => \A w \in Params : Gathered(vector, g)[w] = g
<1>1. learn_rank \in LearnRanks
  BY PopulationAssumption DEF Sizes, LearnRanks
<1>2. \A r \in LearnRanks : Sent(r) \cap Slice(r) = Slice(r) /\ Slice(r) \subseteq Params
  BY DrawnIsSent DEF Sent
<1>3. \A w \in Params : Gathered(vector, g)[w] =
        IF \E r \in LearnRanks \ {learn_rank} : w \in Slice(r) THEN g ELSE vector[w]
  BY <1>2 DEF Gathered
<1>4. ASSUME NEW w \in Slice(learn_rank) PROVE Gathered(vector, g)[w] = vector[w]
  <2>1. w \in Params /\ ~ \E r \in LearnRanks \ {learn_rank} : w \in Slice(r)
    BY <1>1, <1>2, SlicesPartition
  <2> QED BY <1>3, <2>1
<1>5. ASSUME \A w \in Slice(learn_rank) : vector[w] = g, NEW w \in Params
      PROVE  Gathered(vector, g)[w] = g
  <2>1. PICK r \in LearnRanks : w \in Slice(r)
    BY SlicesPartition
  <2> QED BY <1>3, <1>5, <2>1
<1> QED BY <1>4, <1>5

LEMMA GatherFills ==
  ASSUME NEW vector \in [Params -> Int], NEW g \in Int,
         \A w \in Slice(learn_rank) : vector[w] = g
  PROVE  \A w \in Params : Gathered(vector, g)[w] = g
BY GatherFacts

LEMMA OwnOfDrawn ==
  ASSUME NEW vector, NEW g, NEW w \in Slice(learn_rank)
  PROVE  Drawn(vector, g)[w] = g
BY DEF Drawn, Slice

LEMMA AloneAll == learn_size < 2 => Slice(learn_rank) = Params
<1> SUFFICES ASSUME learn_size < 2 PROVE Slice(learn_rank) = Params
  OBVIOUS
<1>1. LearnRanks = {learn_rank}
  BY PopulationAssumption DEF Sizes, LearnRanks
<1> QED BY <1>1, SlicesPartition DEF Slice

LEMMA InitVectors == ASSUME Init PROVE Vectors
<1> DEFINE none == [w \in Params |-> -1]
           first == Drawn(none, 0)
<1>1. first \in [Params -> Int]
  <2>1. none \in [Params -> Int]
    OBVIOUS
  <2> HIDE DEF none
  <2> QED BY <2>1, VectorTypes
<1>2. \A w \in Slice(learn_rank) : first[w] = 0
  BY OwnOfDrawn
<1>3. mpc = "tasks" /\ nGradSteps = 0
  BY DEF Init
<1>4. \A i \in WeightIDs : sampled_weights[i] = IF i = 0 THEN [w \in Params |-> 0] ELSE Gathered(first, 0)
  BY DEF Init, populationInit
<1> HIDE DEF first
<1>5. \A w \in Params : Gathered(first, 0)[w] = 0
  BY <1>1, <1>2, GatherFills
<1>6. \A i \in WeightIDs : \A w \in Params : sampled_weights[i][w] = 0
  BY <1>4, <1>5
<1>7. Slice(learn_rank) \subseteq Params
  BY DEF Slice
<1> QED BY <1>3, <1>6, <1>7 DEF Vectors, OwnIn, WholeIn

\* A thread that uses a vector in generation g.
LEMMA UseKeeps ==
  ASSUME populationTypeOK, NEW g \in Int, NEW i \in WeightIDs, getWeights(i, g)
  PROVE  /\ \A h \in Int : OwnIn(h) => OwnIn(h)'
         /\ OwnIn(g) /\ WholeIn(g) => WholeIn(g)'
<1> USE DEF populationTypeOK, getWeights
<1>0. sampled_weights[i] \in [Params -> Int]
  OBVIOUS
<1>1. /\ sampled_weights'[i] = IF i \in weightsMPIrequests THEN Gathered(sampled_weights[i], g)
                               ELSE sampled_weights[i]
      /\ \A j \in WeightIDs \ {i} : sampled_weights'[j] = sampled_weights[j]
      /\ weightsMPIrequests' = weightsMPIrequests \ {i}
  OBVIOUS
<1>2. ASSUME NEW h \in Int, OwnIn(h) PROVE OwnIn(h)'
  BY <1>0, <1>1, <1>2, GatherFacts DEF OwnIn
<1>3. ASSUME OwnIn(g), WholeIn(g) PROVE WholeIn(g)'
  <2>1. ASSUME i \in weightsMPIrequests PROVE \A w \in Params : sampled_weights'[i][w] = g
    <3>1. PICK vector \in [Params -> Int] : vector = sampled_weights[i]
      BY <1>0
    <3>2. \A w \in Params : Gathered(vector, g)[w] = g
      BY <1>3, <3>1, GatherFills DEF OwnIn
    <3> QED BY <1>1, <2>1, <3>1, <3>2
  <2>2. i \notin weightsMPIrequests => \A w \in Params : sampled_weights'[i][w] = g
    BY <1>1, <1>3 DEF WholeIn
  <2>3. \A j \in WeightIDs \ {i} : j \notin weightsMPIrequests =>
           \A w \in Params : sampled_weights'[j][w] = g
    BY <1>1, <1>3 DEF WholeIn
  <2> QED BY <1>1, <2>1, <2>2, <2>3 DEF WholeIn
<1> QED BY <1>2, <1>3

\* The end of apply_update.
LEMMA GatherKeeps ==
  ASSUME populationTypeOK, NEW g \in Int, OwnIn(g), startAllGather(g)
  PROVE  OwnIn(g)' /\ WholeIn(g)'
<1> USE DEF populationTypeOK
<1>0. g - 1 \in Int /\ \A i \in WeightIDs : sampled_weights[i] \in [Params -> Int]
  OBVIOUS
<1>1. \A i \in WeightIDs : sampled_weights'[i] =
        IF i = 0 THEN Gathered(sampled_weights[i], g)
        ELSE IF i \in weightsMPIrequests THEN Gathered(sampled_weights[i], g - 1)
        ELSE sampled_weights[i]
  BY DEF startAllGather
<1>2. OwnIn(g)'
  BY <1>0, <1>1, GatherFacts DEF OwnIn
<1>3. CASE learn_size < 2
  BY <1>2, <1>3, AloneAll DEF OwnIn, WholeIn
<1>4. CASE ~(learn_size < 2)
  <2>1. WeightIDs \ weightsMPIrequests' \subseteq {0}
    BY <1>4 DEF startAllGather
  <2>2. 0 \in WeightIDs
    BY WeightFacts
  <2>3. sampled_weights[0] \in [Params -> Int] /\ sampled_weights'[0] = Gathered(sampled_weights[0], g)
    BY <1>0, <1>1, <2>2
  <2>4. \A w \in Slice(learn_rank) : sampled_weights[0][w] = g
    BY <2>2 DEF OwnIn
  <2>5. \A w \in Params : sampled_weights'[0][w] = g
    <3>1. PICK vector \in [Params -> Int] : vector = sampled_weights[0]
      BY <2>3
    <3>2. \A w \in Slice(learn_rank) : vector[w] = g
      BY <2>4, <3>1
    <3>3. \A w \in Params : Gathered(vector, g)[w] = g
      BY <3>2, GatherFills
    <3> QED BY <2>3, <3>1, <3>3
  <2> QED BY <1>2, <2>1, <2>5 DEF WholeIn
<1> QED BY <1>3, <1>4

LEMMA VectorsKept == ASSUME IInv, Vectors, [Next]_vars PROVE Vectors'
<1> USE DEF IInv, TypeOK
<1>1. ASSUME UNCHANGED <<populationVars, algo, nGradSteps>>, mpc' = "gather" <=> mpc = "gather"
      PROVE  Vectors'
  BY <1>1 DEF Vectors, OwnIn, WholeIn, populationVars
<1>2. ASSUME NEW e \in Envs, Handler(e) PROVE Vectors'
  <2>1. UNCHANGED <<algo, nGradSteps, mpc>>
    BY <1>2 DEF Handler, Gate, selectAction, processTerminal, terminateCurrentEpisode, stepVars
  <2>2. CASE ~(selectAction(e) /\ algo = "CMA")
    <3>1. UNCHANGED populationVars
      BY <1>2, <2>2 DEF Handler, Gate, selectAction, processTerminal, terminateCurrentEpisode,
                        workVars
    <3> QED BY <1>1, <2>1, <3>1
  <2>3. CASE selectAction(e) /\ algo = "CMA"
    <3>1. getWeights(weightIDs'[e], nGradSteps)
      BY <2>3, Zenon DEF selectAction
    <3>2. weightIDs'[e] \in WeightIDs /\ nGradSteps \in Int /\ nGradSteps + 1 \in Int
      BY <1>2, HandlerType
    <3>3. PICK g \in Int : g = nGradSteps
      BY <3>2
    <3>4. g + 1 \in Int
      OBVIOUS
    <3>5. CASE mpc = "gather"
      <4>1. OwnIn(g + 1)'
        BY <3>1, <3>2, <3>3, <3>4, <3>5, <2>3, UseKeeps DEF Vectors
      <4> QED BY <2>1, <3>3, <3>5, <4>1 DEF Vectors, OwnIn
    <3>6. CASE mpc # "gather"
      <4>1. OwnIn(g)' /\ WholeIn(g)'
        BY <3>1, <3>2, <3>3, <3>6, <2>3, UseKeeps DEF Vectors
      <4> QED BY <2>1, <3>3, <3>6, <4>1 DEF Vectors, OwnIn, WholeIn
    <3> QED BY <3>5, <3>6
  <2> QED BY <2>2, <2>3
<1>3. ASSUME stepInit \/ stepMainPPO \/ stepMainCMA \/ resetLoss \/ applyEpisodesRemovalAlgo
      PROVE  Vectors'
  BY <1>1, <1>3 DEF stepInit, stepMainPPO, stepMainCMA, resetLoss, applyEpisodesRemovalAlgo,
                    workVars, stepVars
<1>4. CASE apply_update
  <2>1. \A i \in WeightIDs : sampled_weights'[i] = Drawn(sampled_weights[i], nGradSteps + 1)
    BY <1>4 DEF apply_update, drawSamples
  <2>2. OwnIn(nGradSteps + 1)'
    BY <1>4, <2>1, OwnOfDrawn DEF OwnIn, apply_update, stepVars
  <2> QED BY <1>4, <2>2 DEF Vectors, apply_update
<1>5. CASE stepComplete
  <2>1. UNCHANGED algo /\ nGradSteps' = nGradSteps + 1 /\ mpc' = "tasks" /\ nGradSteps + 1 \in Int
    BY <1>5 DEF stepComplete
  <2>2. CASE algo # "CMA"
    BY <2>1, <2>2 DEF Vectors
  <2>3. CASE algo = "CMA"
    <3>1. mpc = "gather" /\ startAllGather(nGradSteps + 1)
      BY <1>5, <2>3 DEF stepComplete
    <3>2. OwnIn(nGradSteps + 1)
      BY <3>1, <2>3 DEF Vectors
    <3>3. OwnIn(nGradSteps)' /\ WholeIn(nGradSteps)'
      <4>1. PICK g \in Int : g = nGradSteps + 1
        BY <2>1
      <4>2. OwnIn(g)' /\ WholeIn(g)'
        BY <3>1, <3>2, <4>1, GatherKeeps
      <4> QED BY <2>1, <4>1, <4>2 DEF OwnIn, WholeIn
    <3> QED BY <2>1, <3>3 DEF Vectors, OwnIn, WholeIn
  <2> QED BY <2>2, <2>3
<1>6. CASE UNCHANGED vars
  BY <1>1, <1>6 DEF vars, workVars, stepVars
<1> QED BY <1>2, <1>3, <1>4, <1>5, <1>6 DEF Next, Main

------------------------------------------------------------------------------
(* Theorems                                                                *)

LEMMA Inductive == Spec => []IInv
<1>1. Init => IInv
  BY InitInv, InitRoom DEF IInv
<1>2. IInv /\ [Next]_vars => IInv'
  <2> SUFFICES ASSUME IInv, [Next]_vars PROVE IInv'
    OBVIOUS
  <2>1. ASSUME NEW e \in Envs, Handler(e) PROVE IInv'
    BY <2>1, HandlerType, HandlerRoom DEF IInv
  <2>2. CASE Main
    BY <2>2, MainType, MainRoom DEF IInv
  <2>3. CASE UNCHANGED vars
    BY <2>3, SameTypes DEF IInv, TypeOK, Started, InEpisode, Counted, RoomForPast, Past, Stored, Quota,
       LastTime, vars, handlerVars, dataVars, workVars, stepVars
  <2> QED BY <2>1, <2>2, <2>3 DEF Next
<1> QED BY <1>1, <1>2, PTL DEF Spec

\* Every variable keeps its type, and with it the agents of an environment are never
\* counted as started or ended twice in an episode, as CMALearner asserts.
THEOREM TypeCorrect == Spec => []TypeOK
BY Inductive, PTL DEF IInv

\* A handler that is past the gate has room for the episode that it will store,
\* whatever the other handlers store in the meantime and although the gate is not
\* looked at again: the data set outgrows its quota by one episode of each environment
\* at most, with any number of environments.
THEOREM StoredIsBounded == Spec => []StoredBounded
<1>1. IInv => StoredBounded
  <2> SUFFICES ASSUME IInv PROVE StoredBounded
    OBVIOUS
  <2> DEFINE p == Cardinality(Past) * LastTime
             n == Cardinality(Envs) * LastTime
  <2>1. Stored \in Nat /\ Quota \in Nat \ {0} /\ LastTime \in Nat \ {0}
    BY QuotaPositive DEF IInv, TypeOK, Stored
  <2>2. p \in Nat /\ n \in Nat
    BY <2>1, PastFacts
  <2>3. Stored + p < Quota + n
    BY DEF IInv, RoomForPast
  <2> HIDE DEF p
  <2>4. Stored < Quota + n
    BY <2>1, <2>2, <2>3
  <2> QED BY <2>4, PastFacts, OnPolicyAssumption DEF StoredBounded, Stored, Quota, LastTime
<1> QED BY <1>1, Inductive, PTL

\* A vector that a thread may use is of the current generation in all its parameters,
\* those that this rank has drawn and those that it has gathered from the others, for
\* every number of parameters and of ranks, also where ranks are left without any and
\* the number of theirs wraps (CMA_Optimizer).
THEOREM DrawnByAll ==
  Spec => [](algo = "CMA" /\ mpc # "gather" => WholeIn(nGradSteps))
<1>1. Init => Vectors
  BY InitVectors
<1>2. IInv /\ Vectors /\ [Next]_vars => Vectors'
  BY VectorsKept
<1>3. Vectors => (algo = "CMA" /\ mpc # "gather" => WholeIn(nGradSteps))
  BY DEF Vectors
<1> QED BY <1>1, <1>2, <1>3, Inductive, PTL DEF Spec

------------------------------------------------------------------------------
(* The observations that back the gradient steps of PPO.                    *)

\* Transitions that have been seen of the episodes under way: those of an agent that has
\* acted in this time step, or ended with it, are one ahead.
OpenOf ==
  [e \in Envs |->
    IF time[e] = 0 THEN 0
    ELSE (nOwnAgentsPerEnv - turn[e] + 1) * (time[e] - 1)
         + (IF ending[e] THEN 0 ELSE (turn[e] - 1) * time[e])]

\* After k rounds, epoch by epoch and batch by batch: cntBatch stands for j batches.  The
\* data of a round are complete when its first step is taken.
Backed(k, j) ==
  /\ nSeen >= k * nHorizon + nTransitions + SumOf(OpenOf, Envs)
  /\ nGradSteps = k * (nEpochs * batchesPerEpoch) + cntEpoch * batchesPerEpoch + j
  /\ cntBatch = j * BatchSize /\ cntBatch < nHorizon
  /\ cntEpoch < nEpochs
  /\ algoSubStepID = 1 \/ j > 0 \/ cntEpoch > 0 => nTransitions >= nHorizon

PPOInv == algo = "PPO" /\ nEpochs > 0 => \E k, j \in Nat : Backed(k, j)

LEMMA HorizonFacts ==
  /\ nEpochs \in Nat /\ nEpochs * ObsPerStep <= BatchSize
  /\ batchesPerEpoch \in Nat /\ nHorizon <= batchesPerEpoch * BatchSize
  /\ batchesPerEpoch * BatchSize < nHorizon + BatchSize
  /\ nHorizon \in Nat \ {0} /\ BatchSize \in Nat \ {0} /\ ObsPerStep \in Nat \ {0}
<1>1. nHorizon \in Nat \ {0} /\ BatchSize \in Nat \ {0} /\ ObsPerStep \in Nat \ {0}
  BY OnPolicyAssumption
<1>2. \A n \in Nat, u \in Nat \ {0} : n \div u \in Nat /\ (n \div u) * u <= n
  OBVIOUS
<1>3. LET q == (nHorizon + BatchSize - 1) \div BatchSize
      IN q \in Nat /\ nHorizon <= BatchSize * q /\ BatchSize * q < nHorizon + BatchSize
  BY <1>1, WholeShares
<1>4. \A q \in Nat : q * BatchSize = BatchSize * q
  BY <1>1
<1> QED BY <1>1, <1>2, <1>3, <1>4 DEF nEpochs, batchesPerEpoch

LEMMA OpenTyped ==
  ASSUME TypeOK, Started
  PROVE  OpenOf \in [Envs -> Int] /\ \A e \in Envs : OpenOf[e] >= 0
<1>1. ASSUME NEW e \in Envs PROVE OpenOf[e] \in Int /\ OpenOf[e] >= 0
  <2>1. time[e] \in Nat /\ turn[e] \in 1 .. nOwnAgentsPerEnv /\ nOwnAgentsPerEnv \in Nat
    BY OnPolicyAssumption DEF TypeOK
  <2>2. \A a, b \in Nat : a * b \in Nat
    OBVIOUS
  <2>3. CASE time[e] = 0
    BY <2>3 DEF OpenOf
  <2>4. CASE time[e] # 0
    <3>1. nOwnAgentsPerEnv - turn[e] + 1 \in Nat /\ time[e] - 1 \in Nat /\ turn[e] - 1 \in Nat
      BY <2>1, <2>4
    <3>2. (nOwnAgentsPerEnv - turn[e] + 1) * (time[e] - 1) \in Nat /\ (turn[e] - 1) * time[e] \in Nat
      BY <2>1, <2>2, <3>1
    <3> QED BY <2>4, <3>2 DEF OpenOf
  <2> QED BY <2>3, <2>4
<1> QED BY <1>1 DEF OpenOf

\* What has been seen and not yet stored grows by what is seen and shrinks by what is
\* stored.
LEMMA OpenChanges ==
  ASSUME TypeOK, Started, TypeOK', Started', algo = "PPO", NEW e \in Envs, Handler(e)
  PROVE  /\ \A f \in Envs \ {e} : OpenOf'[f] = OpenOf[f]
         /\ nSeen' - nTransitions' - OpenOf'[e] = nSeen - nTransitions - OpenOf[e]
         /\ nTransitions' >= nTransitions
<1> DEFINE n == nOwnAgentsPerEnv
           t == time[e]
           u == turn[e]
<1>1. /\ n \in Nat \ {0} /\ t \in Nat /\ u \in Nat /\ u >= 1 /\ u <= n
      /\ nSeen \in Nat /\ nTransitions \in Nat
  BY OnPolicyAssumption DEF TypeOK
<1>2. time[e] = 0 => ~ending[e]
  BY DEF Started, InEpisode
<1>3. /\ OpenOf[e] = IF t = 0 THEN 0 ELSE (n - u + 1) * (t - 1) + (IF ending[e] THEN 0 ELSE (u - 1) * t)
      /\ OpenOf'[e] = IF time'[e] = 0 THEN 0
                      ELSE (n - turn'[e] + 1) * (time'[e] - 1)
                           + (IF ending'[e] THEN 0 ELSE (turn'[e] - 1) * time'[e])
  BY DEF OpenOf
<1>4. OpenOf[e] \in Int /\ OpenOf'[e] \in Int
  <2>1. (TypeOK /\ Started => OpenOf \in [Envs -> Int])'
    BY OpenTyped, PTL
  <2>2. OpenOf' \in [Envs -> Int]
    BY <2>1
  <2> QED BY <2>2, OpenTyped
<1>5. ASSUME UNCHANGED <<turn, time, ending, nTransitions, nSeen>>
      PROVE  /\ \A f \in Envs \ {e} : OpenOf'[f] = OpenOf[f]
             /\ nSeen' - nTransitions' - OpenOf'[e] = nSeen - nTransitions - OpenOf[e]
             /\ nTransitions' >= nTransitions
  BY <1>1, <1>4, <1>5 DEF OpenOf
<1>6. CASE Gate(e) \/ processTerminal(e)
  BY <1>5, <1>6 DEF Gate, processTerminal, dataVars
<1>7. ASSUME NEW over \in BOOLEAN, Answer(e, over)
      PROVE  /\ \A f \in Envs \ {e} : OpenOf'[f] = OpenOf[f]
             /\ turn'[e] = IF u < n THEN u + 1 ELSE 1
             /\ u < n => time'[e] = t /\ ending'[e] = ending[e]
             /\ u = n => time'[e] = IF over THEN 0 ELSE t + 1
  <2>1. u % n = IF u < n THEN u ELSE 0
    BY <1>1, ModNext
  <2>2. turn' = [turn EXCEPT ![e] = (u % n) + 1]
    BY <1>7 DEF Answer
  <2>3. /\ turn \in [Envs -> 1 .. nOwnAgentsPerEnv] /\ time \in [Envs -> 0 .. MaxLen]
        /\ ending \in [Envs -> BOOLEAN]
    BY DEF TypeOK
  <2>4. turn'[e] = IF u < n THEN u + 1 ELSE 1
    BY <1>1, <2>1, <2>2, <2>3
  <2>5. CASE u < n
    <3>1. UNCHANGED <<time, ending>>
      BY <1>7, <2>5 DEF Answer
    <3>2. \A f \in Envs \ {e} : OpenOf'[f] = OpenOf[f]
      BY <2>2, <2>3, <3>1 DEF OpenOf
    <3> QED BY <1>1, <2>4, <2>5, <3>1, <3>2
  <2>6. CASE ~(u < n)
    <3>1. PICK ends \in BOOLEAN :
            /\ time' = [time EXCEPT ![e] = IF over THEN 0 ELSE t + 1]
            /\ ending' = [ending EXCEPT ![e] = ends]
      BY <1>7, <2>6 DEF Answer
    <3>2. \A f \in Envs \ {e} : OpenOf'[f] = OpenOf[f]
      BY <2>2, <2>3, <3>1 DEF OpenOf
    <3>3. time'[e] = IF over THEN 0 ELSE t + 1
      BY <2>3, <3>1
    <3> QED BY <1>1, <2>4, <2>6, <3>2, <3>3
  <2> QED BY <2>5, <2>6
<1> HIDE DEF n, t, u
<1>p. \A a, b \in Int : /\ (a + 1) * b = a * b + b /\ (a - 1) * b = a * b - b
                       /\ a * b \in Int /\ a * (b + 1) = a * b + a
                       /\ a * (b - 1) = a * b - a
  OBVIOUS
<1>8. CASE selectAction(e)
  <2>1. Answer(e, FALSE) /\ ~ending[e] /\ nTransitions' = nTransitions
        /\ nSeen' = IF t > 0 THEN nSeen + 1 ELSE nSeen
    BY <1>8 DEF selectAction, t
  <2>2. /\ \A f \in Envs \ {e} : OpenOf'[f] = OpenOf[f]
        /\ turn'[e] = IF u < n THEN u + 1 ELSE 1
        /\ u < n => time'[e] = t /\ ending'[e] = ending[e]
        /\ u = n => time'[e] = t + 1
    BY <1>7, <2>1
  <2>3. CASE t = 0
    <3>1. OpenOf[e] = 0
      BY <1>3, <2>3
    <3>2. OpenOf'[e] = 0
      <4>1. CASE u < n
        BY <1>3, <2>2, <2>3, <4>1
      <4>2. CASE u = n
        <5>1. time'[e] = 1 /\ turn'[e] = 1
          BY <1>1, <2>2, <2>3, <4>2
        <5>2. OpenOf'[e] = (n - 1 + 1) * (1 - 1) + (IF ending'[e] THEN 0 ELSE (1 - 1) * 1)
          BY <1>3, <5>1
        <5> QED BY <1>1, <5>2
      <4> QED BY <1>1, <4>1, <4>2
    <3> QED BY <1>1, <2>1, <2>2, <2>3, <3>1, <3>2
  <2>4. CASE t > 0
    <3> DEFINE x == n - u + 1
    <3>1. OpenOf[e] = x * (t - 1) + (u - 1) * t
      BY <1>3, <2>1, <2>4
    <3>2. OpenOf'[e] = OpenOf[e] + 1
      <4>1. CASE u < n
        <5>1. OpenOf'[e] = (n - (u + 1) + 1) * (t - 1) + ((u + 1) - 1) * t
          BY <1>3, <2>1, <2>2, <2>4, <4>1
        <5>2. n - (u + 1) + 1 = x - 1 /\ (u + 1) - 1 = (u - 1) + 1 /\ x \in Int /\ t - 1 \in Int
              /\ t \in Int /\ u - 1 \in Int
          BY <1>1
        <5> HIDE DEF x
        <5>3. (x - 1) * (t - 1) = x * (t - 1) - (t - 1) /\ ((u - 1) + 1) * t = (u - 1) * t + t
              /\ x * (t - 1) \in Int /\ (u - 1) * t \in Int
          BY <1>p, <5>2
        <5>4. OpenOf'[e] = (x - 1) * (t - 1) + ((u - 1) + 1) * t
          BY <5>1, <5>2
        <5> QED BY <3>1, <5>2, <5>3, <5>4
      <4>2. CASE u = n
        <5>1. time'[e] = t + 1 /\ turn'[e] = 1 /\ t + 1 # 0
          BY <1>1, <2>2, <4>2
        <5>2. OpenOf'[e] = (n - 1 + 1) * ((t + 1) - 1) + (IF ending'[e] THEN 0 ELSE (1 - 1) * (t + 1))
          BY <1>3, <5>1
        <5>3. n - 1 + 1 = n /\ (t + 1) - 1 = t /\ (1 - 1) * (t + 1) = 0 /\ n * t \in Int
              /\ x = 1 /\ (u - 1) * t = n * t - t /\ 1 * (t - 1) = t - 1
          BY <1>1, <1>p, <4>2
        <5>4. OpenOf'[e] = n * t
          BY <5>2, <5>3
        <5> HIDE DEF x
        <5>5. OpenOf[e] = 1 * (t - 1) + (u - 1) * t
          BY <3>1, <5>3
        <5> QED BY <1>1, <5>3, <5>4, <5>5
      <4> QED BY <1>1, <4>1, <4>2
    <3> HIDE DEF x
    <3> QED BY <1>1, <1>4, <2>1, <2>2, <2>4, <3>2
  <2> QED BY <1>1, <2>3, <2>4
<1>9. CASE terminateCurrentEpisode(e)
  <2>1. Answer(e, TRUE) /\ ending[e] /\ nTransitions' = nTransitions + t
        /\ nSeen' = nSeen + 1
    BY <1>9 DEF terminateCurrentEpisode, t, Started, InEpisode
  <2>2. /\ \A f \in Envs \ {e} : OpenOf'[f] = OpenOf[f]
        /\ turn'[e] = IF u < n THEN u + 1 ELSE 1
        /\ u < n => time'[e] = t /\ ending'[e] = ending[e]
        /\ u = n => time'[e] = 0
    BY <1>7, <2>1
  <2>3. t > 0
    BY <1>1, <1>2, <2>1 DEF t
  <2> DEFINE x == n - u + 1
  <2>4. OpenOf[e] = x * (t - 1)
    <3>1. OpenOf[e] = (n - u + 1) * (t - 1) + 0
      BY <1>3, <2>1, <2>3
    <3>2. (n - u + 1) * (t - 1) \in Int
      BY <1>1, <1>p
    <3> QED BY <3>1, <3>2
  <2>5. OpenOf'[e] = OpenOf[e] - (t - 1)
    <3>1. CASE u < n
      <4>1. OpenOf'[e] = (n - (u + 1) + 1) * (t - 1) + 0
        <5>1. turn'[e] = u + 1 /\ time'[e] = t /\ t # 0 /\ ending'[e]
          <6>1. turn'[e] = u + 1 /\ time'[e] = t /\ t # 0
            BY <1>1, <2>2, <2>3, <3>1
          <6>2. ending'[e] = ending[e]
            BY <2>2, <3>1
          <6>3. ending'[e]
            BY ONLY <2>1, <6>2, Zenon
          <6> QED BY <6>1, <6>3
        <5>2. OpenOf'[e] = (n - turn'[e] + 1) * (time'[e] - 1) + 0
          BY <1>3, <5>1
        <5> QED BY <5>1, <5>2
      <4>2. n - (u + 1) + 1 = x - 1 /\ x \in Int /\ t - 1 \in Int
        BY <1>1
      <4> HIDE DEF x
      <4>3. (x - 1) * (t - 1) = x * (t - 1) - (t - 1) /\ x * (t - 1) \in Int
        BY <1>p, <4>2
      <4>4. OpenOf'[e] = (x - 1) * (t - 1) + 0
        BY <4>1, <4>2
      <4> QED BY <2>4, <4>2, <4>3, <4>4
    <3>2. CASE u = n
      <4>1. OpenOf'[e] = 0
        BY <1>3, <2>2, <3>2
      <4>2. x = 1 /\ 1 * (t - 1) = t - 1 /\ t - 1 \in Int
        BY <1>1, <3>2
      <4> HIDE DEF x
      <4> QED BY <2>4, <4>1, <4>2
    <3> QED BY <1>1, <3>1, <3>2
  <2> HIDE DEF x
  <2> QED BY <1>1, <1>4, <2>1, <2>2, <2>5
<1> QED BY <1>6, <1>5, <1>8, <1>9 DEF Handler

\* Rounds of epochs, batch by batch, against what the rounds have taken in.
LEMMA RoundsBacked ==
  ASSUME NEW R \in Nat, NEW E \in Nat, NEW b \in Nat, NEW O \in Nat, NEW H \in Nat,
         NEW B \in Nat, NEW n \in Nat, NEW s \in Nat,
         E * O <= B, n <= R * (E * b), R * H <= s
  PROVE  n * O * H <= s * b * B
<1> DEFINE x == R * (E * b)
           y == R * H
           z == E * O
<1>0. \A u, v \in Nat : u * v \in Nat
  OBVIOUS
<1>1. x \in Nat /\ y \in Nat /\ z \in Nat /\ E * b \in Nat
  BY <1>0
<1>2. n * O <= x * O /\ n * O \in Nat /\ x * O \in Nat
  BY <1>0, <1>1, Products
<1>3. (n * O) * H <= (x * O) * H
  BY <1>2, Products
<1>4. (x * O) * H = (y * b) * z
  OBVIOUS
<1>5. y * b <= s * b /\ y * b \in Nat /\ s * b \in Nat
  BY <1>0, <1>1, Products
<1>6. (y * b) * B <= (s * b) * B
  BY <1>5, Products
<1>7. z * (y * b) <= B * (y * b) /\ z * (y * b) = (y * b) * z /\ B * (y * b) = (y * b) * B
  BY <1>1, <1>5, Products
<1> DEFINE p1 == (n * O) * H
           p2 == (x * O) * H
           p3 == (y * b) * z
           p4 == (y * b) * B
           p5 == (s * b) * B
<1>8. p1 \in Nat /\ p2 \in Nat /\ p3 \in Nat /\ p4 \in Nat /\ p5 \in Nat
  BY <1>0, <1>1, <1>2, <1>5
<1>9. p1 <= p2 /\ p2 = p3 /\ p3 <= p4 /\ p4 <= p5
  BY <1>3, <1>4, <1>6, <1>7
<1> HIDE DEF p1, p2, p3, p4, p5, x, y, z
<1>10. p1 <= p5
  BY <1>8, <1>9
<1> QED BY <1>10 DEF p1, p5

LEMMA InitBacked == Init => PPOInv
<1> SUFFICES ASSUME Init, algo = "PPO", nEpochs > 0 PROVE Backed(0, 0)
  BY DEF PPOInv
<1>1. IsFiniteSet(Envs) /\ 0 \in Int
  BY OnPolicyAssumption
<1>2. OpenOf \in [Envs -> Int] /\ \A e \in Envs : OpenOf[e] = 0
  BY DEF Init, OpenOf
<1>3. SumOf(OpenOf, Envs) = Cardinality(Envs) * 0
  BY ONLY <1>1, <1>2, SumConstant, Zenon
<1>4. Cardinality(Envs) \in Nat
  BY <1>1, FS_CardinalityType
<1>5. SumOf(OpenOf, Envs) = 0
  BY <1>3, <1>4
<1> QED BY <1>5, HorizonFacts DEF Init, Backed

LEMMA HandlerBacked ==
  ASSUME TypeOK, Started, TypeOK', Started', algo = "PPO", NEW e \in Envs, Handler(e),
         NEW k \in Nat, NEW j \in Nat, Backed(k, j)
  PROVE  Backed(k, j)'
<1>1. UNCHANGED <<cntBatch, cntEpoch, nGradSteps, algoSubStepID>>
  BY DEF Handler, Gate, selectAction, processTerminal, terminateCurrentEpisode, stepVars
<1>2. IsFiniteSet(Envs) /\ OpenOf \in [Envs -> Int]
  BY OpenTyped, OnPolicyAssumption
<1>3. OpenOf' \in [Envs -> Int]
  <2>1. (TypeOK /\ Started => OpenOf \in [Envs -> Int])'
    BY OpenTyped, PTL
  <2> QED BY <2>1
<1>4. /\ \A f \in Envs \ {e} : OpenOf'[f] = OpenOf[f]
      /\ nSeen' - nTransitions' - OpenOf'[e] = nSeen - nTransitions - OpenOf[e]
      /\ nTransitions' >= nTransitions
  BY OpenChanges
<1>5. SumOf(OpenOf', Envs) = SumOf(OpenOf, Envs) - OpenOf[e] + OpenOf'[e]
  <2>1. e \in Envs
    OBVIOUS
  <2>2. \A f \in Envs \ {e} : OpenOf'[f] = OpenOf[f]
    BY <1>4
  <2>3. PICK f \in [Envs -> Int], g \in [Envs -> Int] : f = OpenOf /\ g = OpenOf'
    BY <1>2, <1>3
  <2>4. \A y \in Envs \ {e} : g[y] = f[y]
    BY <2>2, <2>3
  <2>5. IsFiniteSet(Envs)
    BY <1>2
  <2>6. SumOf(g, Envs) = SumOf(f, Envs) - f[e] + g[e]
    BY <2>1, <2>4, <2>5, SumChange
  <2> QED BY <2>3, <2>6, Zenon
<1>6. SumOf(OpenOf, Envs) \in Int
  BY <1>2, SumType
<1>7. /\ OpenOf[e] \in Int /\ OpenOf'[e] \in Int
      /\ nSeen \in Nat /\ nTransitions \in Nat /\ nSeen' \in Nat /\ nTransitions' \in Nat
  BY <1>2, <1>3 DEF TypeOK
<1>8. k * nHorizon \in Nat
  BY HorizonFacts, Products
<1> DEFINE x == k * nHorizon
           s == SumOf(OpenOf, Envs)
<1>9. x \in Nat /\ s \in Int /\ nSeen >= x + nTransitions + s
  BY <1>6, <1>8 DEF Backed
<1> HIDE DEF x, s
<1>10. nSeen' >= x + nTransitions' + (s - OpenOf[e] + OpenOf'[e])
  BY <1>4, <1>7, <1>9
<1>11. nSeen' >= k * nHorizon + nTransitions' + SumOf(OpenOf', Envs)
  BY <1>5, <1>10 DEF x, s
<1>12. nTransitions >= nHorizon => nTransitions' >= nHorizon
  BY <1>4, <1>7, HorizonFacts
<1>13. algoSubStepID' = 1 \/ j > 0 \/ cntEpoch' > 0 => nTransitions' >= nHorizon
  BY <1>1, <1>12 DEF Backed
<1>14. /\ nGradSteps' = k * (nEpochs * batchesPerEpoch) + cntEpoch' * batchesPerEpoch + j
       /\ cntBatch' = j * BatchSize /\ cntBatch' < nHorizon
       /\ cntEpoch' < nEpochs
  BY <1>1 DEF Backed
<1> QED BY <1>11, <1>13, <1>14 DEF Backed

\* An epoch ends with the batch that completes the horizon.
LEMMA LastBatch ==
  ASSUME NEW j \in Nat, NEW b \in Nat, NEW B \in Nat \ {0}, NEW H \in Nat,
         j * B < H, H <= b * B, b * B < H + B
  PROVE  /\ j + 1 <= b
         /\ (j + 1) * B = j * B + B
         /\ (j + 1) * B >= H => j + 1 = b
<1> DEFINE x == j * B
           y == b * B
<1>1. x \in Nat /\ y \in Nat /\ (j + 1) * B = x + B
  BY Products
<1>2. b <= j => y <= x
  BY Products
<1>3. j + 2 <= b => y >= x + B + B
  <2> SUFFICES ASSUME j + 2 <= b PROVE y >= x + B + B
    OBVIOUS
  <2>1. (j + 2) * B <= y
    BY Products
  <2>2. (j + 2) * B = x + B + B
    OBVIOUS
  <2> QED BY <2>1, <2>2
<1> HIDE DEF x, y
<1>4. x < H /\ H <= y /\ y < H + B
  BY DEF x, y
<1>5. j + 1 <= b
  BY <1>1, <1>2, <1>4
<1>6. x + B >= H => j + 1 = b
  <2> SUFFICES ASSUME x + B >= H, j + 2 <= b PROVE FALSE
    BY <1>5
  <2> QED BY <1>1, <1>3, <1>4
<1> QED BY <1>1, <1>5, <1>6

LEMMA MainBacked ==
  ASSUME TypeOK, Started, algo = "PPO", nEpochs > 0, Main,
         NEW k \in Nat, NEW j \in Nat, Backed(k, j)
  PROVE  \E l, i \in Nat : Backed(l, i)'
<1>0. nTransitions \in Nat /\ nSeen \in Nat /\ cntEpoch \in Nat /\ cntBatch \in Nat
      /\ nGradSteps \in Nat /\ algoSubStepID \in {-1, 0, 1}
  BY DEF TypeOK
<1>1. UNCHANGED OpenOf
  BY DEF Main, stepInit, stepMainPPO, stepMainCMA, resetLoss, applyEpisodesRemovalAlgo,
         apply_update, stepComplete, handlerVars, OpenOf
<1>2. CASE stepInit
  <2>1. UNCHANGED <<cntBatch, cntEpoch, nGradSteps, nSeen, nTransitions>> /\ algoSubStepID' = 0
    BY <1>2 DEF stepInit, dataVars
  <2>2. Backed(k, j)'
    BY <1>1, <2>1 DEF Backed
  <2> QED BY <2>2
<1>3. CASE stepMainPPO
  <2>1. UNCHANGED <<cntBatch, cntEpoch, nGradSteps, nSeen, nTransitions>>
        /\ ~(nTransitions < nHorizon)
    BY <1>3 DEF stepMainPPO, dataVars, blockGradientUpdates
  <2>2. nTransitions' >= nHorizon
    BY <1>0, <2>1, HorizonFacts
  <2>3. Backed(k, j)'
    BY <1>1, <2>1, <2>2 DEF Backed
  <2> QED BY <2>3
<1>4. CASE stepMainCMA \/ resetLoss \/ applyEpisodesRemovalAlgo \/ apply_update
  BY <1>4 DEF stepMainCMA, resetLoss, applyEpisodesRemovalAlgo, apply_update, Started
<1>5. CASE stepComplete
  <2> DEFINE b == batchesPerEpoch
             B == BatchSize
             H == nHorizon
             E == nEpochs
             c == cntEpoch
             s == SumOf(OpenOf, Envs)
  <2>1. /\ algoSubStepID = 1 /\ algoSubStepID' = 0 /\ nGradSteps' = nGradSteps + 1
        /\ nSeen' = nSeen
    BY <1>5 DEF stepComplete, clearAll, dataVars
  <2>2. cntBatch + B < H =>
          cntBatch' = cntBatch + B /\ cntEpoch' = c /\ nTransitions' = nTransitions
    <3>1. ~(cntBatch + B >= H) <=> cntBatch + B < H
      BY <1>0, HorizonFacts
    <3>2. ~(c >= E)
      BY <1>0, HorizonFacts DEF Backed
    <3> QED BY <1>5, <3>1, <3>2 DEF stepComplete, dataVars
  <2>3. cntBatch + B >= H /\ ~(c + 1 >= E) =>
          cntBatch' = 0 /\ cntEpoch' = c + 1 /\ nTransitions' = nTransitions
    BY <1>5 DEF stepComplete, dataVars
  <2>4. cntBatch + B >= H /\ c + 1 >= E =>
          cntBatch' = 0 /\ cntEpoch' = 0 /\ nTransitions' = 0
    BY <1>5 DEF stepComplete, clearAll
  <2>5. /\ E \in Nat /\ b \in Nat /\ H \in Nat \ {0} /\ B \in Nat \ {0}
        /\ H <= b * B /\ b * B < H + B
    BY HorizonFacts
  <2>6. /\ nSeen >= k * H + nTransitions + s
        /\ nGradSteps = k * (E * b) + c * b + j
        /\ cntBatch = j * B /\ cntBatch < H
        /\ c < E /\ nTransitions >= H
    BY <2>1 DEF Backed
  <2>7. s \in Int
    BY OpenTyped, OnPolicyAssumption, SumType
  <2>8. s' = s
    BY <1>1
  <2>9. \A u, v \in Nat : u * v \in Nat /\ (u + 1) * v = u * v + v /\ 0 * v = 0
    OBVIOUS
  <2>s. c \in Nat
    BY <1>0
  <2>t. PICK r \in Int : r = s
    BY <2>7
  <2>u. SumOf(OpenOf', Envs) = r
    BY <1>1, <2>t
  <2>v. nSeen >= k * H + nTransitions + r
    BY <2>6, <2>t
  <2> HIDE DEF s
  <2>10. CASE cntBatch + B < H
    <3>1. (j + 1) * B = cntBatch + B /\ j + 1 \in Nat
      BY <2>5, <2>6, <2>9
    <3>2. /\ nSeen' >= k * H + nTransitions' + r
          /\ algoSubStepID' = 1 \/ j + 1 > 0 \/ cntEpoch' > 0 => nTransitions' >= H
          /\ cntBatch' = (j + 1) * B /\ cntBatch' < H /\ cntEpoch' < E
      BY <2>1, <2>2, <2>6, <2>v, <2>10, <3>1
    <3>3. nGradSteps' = k * (E * b) + cntEpoch' * b + (j + 1)
      <4> DEFINE p == k * (E * b)
                 q == c * b
      <4>1. p \in Nat /\ q \in Nat /\ nGradSteps = p + q + j
        BY <2>5, <2>6, <2>9, <2>s
      <4>2. cntEpoch' * b = q
        BY <2>2, <2>10
      <4> HIDE DEF p, q
      <4>3. nGradSteps' = p + q + (j + 1)
        BY <2>1, <4>1
      <4> QED BY <4>2, <4>3 DEF p
    <3>4. Backed(k, j + 1)'
      BY <2>u, <3>2, <3>3 DEF Backed
    <3> QED BY <3>1, <3>4
  <2>11. CASE cntBatch + B >= H
    <3>1. j + 1 = b
      <4>1. j * B < H
        BY <2>6
      <4>2. /\ (j + 1) * B = j * B + B
            /\ (j + 1) * B >= H => j + 1 = b
        BY <4>1, <2>5, LastBatch
      <4>3. (j + 1) * B >= H
        BY <4>2, <2>6, <2>11
      <4> QED BY <4>2, <4>3
    <3>2. nGradSteps' = k * (E * b) + (c + 1) * b
      <4> DEFINE p == k * (E * b)
                 q == c * b
      <4>1. p \in Nat /\ q \in Nat /\ nGradSteps = p + q + j
        BY <2>5, <2>6, <2>9, <2>s
      <4>2. (c + 1) * b = q + b
        BY <2>5, <2>9, <2>s
      <4> HIDE DEF p, q
      <4>3. nGradSteps' = p + (q + b)
        BY <2>1, <2>5, <3>1, <4>1
      <4> QED BY <4>2, <4>3 DEF p
    <3>3. CASE ~(c + 1 >= E)
      <4>1. /\ nSeen' >= k * H + nTransitions' + r
            /\ algoSubStepID' = 1 \/ 0 > 0 \/ cntEpoch' > 0 => nTransitions' >= H
            /\ cntBatch' = 0 * B /\ cntBatch' < H /\ cntEpoch' < E
        BY <2>1, <2>3, <2>5, <2>6, <2>v, <2>11, <2>9, <2>s, <3>3
      <4>2. nGradSteps' = k * (E * b) + cntEpoch' * b + 0
        <5>1. k * (E * b) \in Nat /\ (c + 1) * b \in Nat /\ cntEpoch' = c + 1
          BY <2>3, <2>5, <2>9, <2>s, <2>11, <3>3
        <5> QED BY <3>2, <5>1
      <4>3. Backed(k, 0)'
        BY <2>u, <4>1, <4>2 DEF Backed
      <4> QED BY <4>3
    <3>4. CASE c + 1 >= E
      <4>1. c + 1 = E
        BY <2>5, <2>6, <2>s, <3>4
      <4>2. (k + 1) * H = k * H + H /\ k * H \in Nat /\ (k + 1) * (E * b) = k * (E * b) + E * b
            /\ k + 1 \in Nat /\ k * (E * b) \in Nat /\ E * b \in Nat /\ 0 * b = 0
        BY <2>5, <2>9
      <4>3. /\ nSeen' >= (k + 1) * H + nTransitions' + r
            /\ algoSubStepID' = 1 \/ 0 > 0 \/ cntEpoch' > 0 => nTransitions' >= H
            /\ cntBatch' = 0 * B /\ cntBatch' < H /\ cntEpoch' < E
        <5>1. nTransitions' = 0 /\ cntBatch' = 0 /\ cntEpoch' = 0
          BY <2>4, <2>11, <3>4
        <5> DEFINE x == k * H
        <5>2. x \in Nat /\ (k + 1) * H = x + H /\ nSeen >= x + nTransitions + r
          BY <2>v, <4>2
        <5> HIDE DEF x
        <5>3. nSeen' >= (x + H) + nTransitions' + r
          BY <1>0, <2>1, <2>5, <2>6, <5>1, <5>2
        <5> QED BY <2>1, <2>5, <2>6, <2>9, <2>s, <5>1, <5>2, <5>3
      <4>4. nGradSteps' = (k + 1) * (E * b) + cntEpoch' * b + 0
        <5>1. cntEpoch' * b = 0
          BY <2>4, <2>5, <2>11, <3>4
        <5>2. nGradSteps' = (k + 1) * (E * b) /\ (k + 1) * (E * b) \in Nat
          BY <3>2, <4>1, <4>2
        <5> QED BY <5>1, <5>2
      <4>5. Backed(k + 1, 0)'
        BY <2>u, <4>3, <4>4 DEF Backed
      <4> QED BY <4>2, <4>5
    <3> QED BY <3>3, <3>4
  <2>12. cntBatch + B < H \/ cntBatch + B >= H
    BY <1>0, <2>5
  <2> QED BY <2>10, <2>11, <2>12
<1> QED BY <1>2, <1>3, <1>4, <1>5 DEF Main

LEMMA BackedEnough ==
  ASSUME TypeOK, Started, PPOInv
  PROVE  GradientsBacked
<1> SUFFICES ASSUME algo = "PPO", nEpochs > 0
             PROVE  nGradSteps * ObsPerStep * nHorizon <= nSeen * batchesPerEpoch * BatchSize
  BY DEF GradientsBacked
<1> DEFINE b == batchesPerEpoch
           B == BatchSize
           H == nHorizon
           E == nEpochs
           c == cntEpoch
           s == SumOf(OpenOf, Envs)
<1>1. PICK k \in Nat, j \in Nat : Backed(k, j)
  BY DEF PPOInv
<1>2. /\ nSeen >= k * H + nTransitions + s
      /\ nGradSteps = k * (E * b) + c * b + j
      /\ j * B < H /\ c < E
      /\ j > 0 \/ c > 0 => nTransitions >= H
  BY <1>1 DEF Backed
<1>3. /\ nTransitions \in Nat /\ nSeen \in Nat /\ c \in Nat /\ nGradSteps \in Nat
  BY DEF TypeOK
<1>4. /\ E \in Nat /\ b \in Nat /\ H \in Nat \ {0} /\ B \in Nat \ {0} /\ ObsPerStep \in Nat
      /\ H <= b * B /\ b * B < H + B /\ E * ObsPerStep <= B
  BY HorizonFacts
<1>5. s \in Int /\ s >= 0
  <2>1. IsFiniteSet(Envs) /\ 0 \in Int
    BY OnPolicyAssumption
  <2>2. OpenOf \in [Envs -> Int] /\ \A e \in Envs : OpenOf[e] >= 0
    BY OpenTyped
  <2>3. [e \in Envs |-> 0] \in [Envs -> Int] /\ \A e \in Envs : [x \in Envs |-> 0][e] = 0
    OBVIOUS
  <2>4. SumOf([e \in Envs |-> 0], Envs) = Cardinality(Envs) * 0
    BY ONLY <2>1, <2>3, SumConstant, Zenon
  <2>5. \A e \in Envs : [x \in Envs |-> 0][e] <= OpenOf[e]
    BY <2>2
  <2>6. SumOf([e \in Envs |-> 0], Envs) <= s
    BY ONLY <2>1, <2>2, <2>3, <2>5, SumMono, Zenon
  <2>7. Cardinality(Envs) \in Nat /\ s \in Int
    BY <2>1, <2>2, FS_CardinalityType, SumType
  <2> QED BY <2>4, <2>6, <2>7
<1>6. \A u, v \in Nat : u * v \in Nat /\ (u + 1) * v = u * v + v /\ 0 * v = 0
  OBVIOUS
<1> HIDE DEF s
<1>7. \E R \in Nat : nGradSteps <= R * (E * b) /\ R * H <= nSeen
  <2> DEFINE x == k * H
             p == k * (E * b)
  <2>1. x \in Nat /\ p \in Nat /\ E * b \in Nat
    BY <1>4, <1>6
  <2>2. CASE j = 0 /\ c = 0
    <3>1. c * b = 0
      BY <1>4, <1>6, <2>2
    <3>2. nSeen >= x + nTransitions + s /\ nGradSteps = p + 0 + 0
      BY <1>2, <2>2, <3>1
    <3> HIDE DEF x, p
    <3>3. nGradSteps <= p /\ x <= nSeen
      BY <1>3, <1>5, <2>1, <3>2
    <3> QED BY <3>3 DEF x, p
  <2>3. CASE j > 0 \/ c > 0
    <3>1. (k + 1) * H = x + H /\ (k + 1) * (E * b) = p + E * b /\ k + 1 \in Nat
      BY <1>4, <1>6, <2>1
    <3>2. j + 1 <= b
      BY <1>2, <1>4, LastBatch
    <3> DEFINE q == c * b
               m == E * b
    <3>3. q \in Nat /\ m \in Nat /\ q + b <= m
      <4>1. (c + 1) * b <= E * b /\ (c + 1) * b = q + b
        BY <1>2, <1>3, <1>4, Products
      <4> QED BY <1>3, <1>4, <1>6, <4>1
    <3>4. nSeen >= x + nTransitions + s /\ nGradSteps = p + q + j /\ nTransitions >= H
      BY <1>2, <2>3
    <3> HIDE DEF x, p, q, m
    <3>5. nGradSteps <= p + m /\ x + H <= nSeen
      BY <1>3, <1>4, <1>5, <2>1, <3>2, <3>3, <3>4
    <3> QED BY <3>1, <3>5 DEF m
  <2> QED BY <1>3, <2>2, <2>3
<1>8. PICK R \in Nat : nGradSteps <= R * (E * b) /\ R * H <= nSeen
  BY <1>7
<1> HIDE DEF b, B, H, E
<1>9. nGradSteps * ObsPerStep * H <= nSeen * b * B
  BY <1>3, <1>4, <1>8, RoundsBacked
<1> QED BY <1>9 DEF b, B, H

\* PPO takes its gradient steps from data that it has seen: nGradSteps counts batches and
\* epochs, not observations, and still keeps the ratio of observations to gradient steps
\* that the settings ask for, up to the rounding of a horizon to whole batches -- however
\* the handlers go on while a horizon is used (PPO: cntBatch and cntEpoch).
THEOREM GradientsBackedHolds == Spec => []GradientsBacked
<1>1. Init => PPOInv
  BY InitBacked
<1>2. IInv /\ IInv' /\ PPOInv /\ [Next]_vars => PPOInv'
  <2> SUFFICES ASSUME IInv, IInv', PPOInv, [Next]_vars, (algo = "PPO" /\ nEpochs > 0)'
               PROVE  (\E k, j \in Nat : Backed(k, j))'
    BY DEF PPOInv
  <2>0. algo' = algo /\ algo = "PPO" /\ nEpochs > 0
    BY DEF Next, Handler, Gate, selectAction, processTerminal, terminateCurrentEpisode, Main,
           stepInit, stepMainPPO, stepMainCMA, resetLoss, applyEpisodesRemovalAlgo,
           apply_update, stepComplete, vars, nEpochs
  <2>1. PICK k \in Nat, j \in Nat : Backed(k, j)
    BY <2>0 DEF PPOInv
  <2>2. ASSUME NEW e \in Envs, Handler(e) PROVE \E l, i \in Nat : Backed(l, i)'
    <3>1. Backed(k, j)'
      BY <2>0, <2>1, <2>2, HandlerBacked DEF IInv
    <3> QED BY <3>1
  <2>3. CASE Main
    BY <2>0, <2>1, <2>3, MainBacked DEF IInv
  <2>4. CASE UNCHANGED vars
    <3>1. UNCHANGED <<nSeen, nTransitions, nGradSteps, cntBatch, cntEpoch, algoSubStepID>>
      BY <2>4 DEF vars, dataVars, stepVars
    <3>2. UNCHANGED OpenOf
      BY <2>4 DEF vars, handlerVars, OpenOf
    <3>3. Backed(k, j)'
      BY <2>1, <3>1, <3>2 DEF Backed
    <3> QED BY <3>3
  <2> QED BY <2>2, <2>3, <2>4 DEF Next
<1>3. IInv /\ PPOInv => GradientsBacked
  BY BackedEnough DEF IInv
<1> QED BY <1>1, <1>2, <1>3, Inductive, PTL DEF Spec

------------------------------------------------------------------------------
(* The vectors of a generation are handed out in turn.  For each vector,    *)
(* what has been played since is weighed against how often it was handed    *)
(* out: as long as no episode with it has ended, the episodes with it under *)
(* way account for all turns of the others.                                 *)

\* Quotient and remainder, which determine each other.
LEMMA Remainders ==
  ASSUME NEW a \in Nat, NEW p \in Nat \ {0}
  PROVE  /\ a % p \in 0 .. p - 1 /\ a \div p \in Nat
         /\ a = p * (a \div p) + (a % p)
<1>1. a % p \in 0 .. p - 1
  OBVIOUS
<1>2. a \div p \in Nat
  OBVIOUS
<1>3. a % p = a - p * (a \div p)
  OBVIOUS
<1>4. p * (a \div p) \in Int
  BY <1>2
<1> DEFINE y == p * (a \div p)
           r == a % p
<1>5. r = a - y /\ y \in Int
  BY <1>3, <1>4
<1> HIDE DEF y, r
<1>6. a = y + r
  BY <1>5
<1>7. a = p * (a \div p) + (a % p)
  BY ONLY <1>6, Zenon DEF y, r
<1> QED BY ONLY <1>1, <1>2, <1>7, Zenon

LEMMA RemainderIs ==
  ASSUME NEW a \in Nat, NEW p \in Nat \ {0}, NEW k \in Int, NEW r \in 0 .. p - 1,
         a = p * k + r
  PROVE  a % p = r
<1>1. PICK q \in Nat, s \in 0 .. p - 1 : s = a % p /\ a = p * q + s
  BY Remainders, Zenon
<1>2. ASSUME NEW x \in Int, NEW y \in Int, x < y PROVE p * y >= p * x + p
  <2>1. y - x - 1 \in Nat /\ p \in Nat
    BY <1>2
  <2>2. p * (y - x - 1) >= 0
    BY <2>1
  <2>3. p * (y - x - 1) = p * y - p * x - p
    OBVIOUS
  <2> QED BY <2>2, <2>3
<1>3. CASE q < k
  <2>1. p * k >= p * q + p
    BY <1>2, <1>3
  <2> QED BY <1>1, <2>1
<1>4. CASE k < q
  <2>1. p * q >= p * k + p
    BY <1>2, <1>4
  <2> QED BY <1>1, <2>1
<1>5. CASE k = q
  <2>1. p * k = p * q /\ p * k \in Int
    BY <1>5
  <2> QED BY <1>1, <2>1
<1> QED BY <1>3, <1>4, <1>5

LEMMA RemainderNext ==
  ASSUME NEW a \in Nat, NEW p \in Nat \ {0}
  PROVE  (a + 1) % p = IF a % p = p - 1 THEN 0 ELSE (a % p) + 1
<1>1. PICK q \in Nat, s \in 0 .. p - 1 : s = a % p /\ a = p * q + s
  BY Remainders
<1>2. p * (q + 1) = p * q + p /\ p * q \in Nat
  OBVIOUS
<1>3. CASE s = p - 1
  <2>1. a + 1 = p * (q + 1) + 0 /\ q + 1 \in Int /\ 0 \in 0 .. p - 1 /\ a + 1 \in Nat
    BY <1>1, <1>2, <1>3
  <2>2. (a + 1) % p = 0
    BY ONLY <2>1, p \in Nat \ {0}, RemainderIs
  <2> QED BY <1>1, <1>3, <2>2
<1>4. CASE s # p - 1
  <2>1. a + 1 = p * q + (s + 1) /\ q \in Int /\ s + 1 \in 0 .. p - 1 /\ a + 1 \in Nat
    BY <1>1, <1>2, <1>4
  <2>2. (a + 1) % p = s + 1
    BY <2>1, RemainderIs
  <2> QED BY <1>1, <1>4, <2>2
<1> QED BY <1>3, <1>4

\* The remainder of a remainder by a multiple.
LEMMA RemainderOf ==
  ASSUME NEW a \in Nat, NEW p \in Nat \ {0}, NEW k \in Nat \ {0}
  PROVE  (a % (k * p)) % p = a % p
<1>0. k * p \in Nat \ {0}
  OBVIOUS
<1>1. PICK q \in Nat, s \in 0 .. k * p - 1 : s = a % (k * p) /\ a = (k * p) * q + s
  BY <1>0, Remainders
<1>2. PICK t \in Nat, r \in 0 .. p - 1 : r = s % p /\ s = p * t + r
  <2>1. s \in Nat
    BY <1>0
  <2> QED BY <2>1, Remainders
<1>3. (k * p) * q = p * (k * q) /\ k * q \in Int /\ k * q + t \in Int
  OBVIOUS
<1>4. p * (k * q + t) = p * (k * q) + p * t
  BY <1>3
<1>5. a = p * (k * q + t) + r
  <2> DEFINE x == p * (k * q)
             y == p * t
  <2>1. x \in Int /\ y \in Int /\ a = x + s /\ s = y + r
    BY <1>1, <1>2, <1>3
  <2> HIDE DEF x, y
  <2>2. a = (x + y) + r
    BY <2>1
  <2> QED BY <1>4, <2>2 DEF x, y
<1>6. a % p = r
  BY <1>3, <1>5, RemainderIs
<1> QED BY <1>1, <1>2, <1>6

\* Agents of an environment whose episode is under way and not stored; that of the
\* agent that is being stored has been evaluated.
Unstored ==
  [e \in Envs |-> IF time[e] = 0 THEN IF turn[e] = 1 THEN 0 ELSE nOwnAgentsPerEnv
                  ELSE nOwnAgentsPerEnv - turn[e] + 1]
Storing(e) == IF hpc[e] = "store" THEN 1 ELSE 0

\* Vectors that were handed out since w was.
NextID == lastWorkLoadStarted % ESpopSize
Since(w) == IF NextID > w THEN NextID - 1 - w ELSE NextID + ESpopSize - 1 - w

\* Environments that are to evaluate w still, and what the others have to store.
Holders(w) == {e \in Envs : weightIDs[e] = w /\ Unstored[e] > Storing(e)}
Others(w)  == [e \in Envs |-> IF weightIDs[e] = w THEN Storing(e) ELSE Unstored[e]]

Starts(e) ==
  /\ Unstored[e] = 0 /\ hpc[e] = "select"
  /\ hpc' = [hpc EXCEPT ![e] = "away"]
  /\ Unstored' = [Unstored EXCEPT ![e] = nOwnAgentsPerEnv]
  /\ weightIDs' = [weightIDs EXCEPT ![e] = NextID]
  /\ lastWorkLoadStarted' = lastWorkLoadStarted + 1
  /\ weightsMPIrequests' = weightsMPIrequests \ {NextID}
  /\ UNCHANGED <<nEpisodes, Ns>>

Stores(e) ==
  /\ hpc[e] = "store"
  /\ hpc' = [hpc EXCEPT ![e] = "away"]
  /\ Unstored' = [Unstored EXCEPT ![e] = Unstored[e] - 1]
  /\ nEpisodes' = nEpisodes + 1
  /\ UNCHANGED <<weightIDs, lastWorkLoadStarted, Ns, weightsMPIrequests>>

Evaluates(e) ==
  /\ hpc[e] = "select"
  /\ hpc' = [hpc EXCEPT ![e] = "store"]
  /\ Ns' = [Ns EXCEPT ![e][weightIDs[e]] = @ + 1]
  /\ UNCHANGED <<Unstored, weightIDs, lastWorkLoadStarted, nEpisodes, weightsMPIrequests>>

GoesOn(e) ==
  /\ \/ hpc[e] = "away" /\ nEpisodes < nSeqPerStep /\ hpc' = [hpc EXCEPT ![e] = "select"]
     \/ hpc[e] = "select" /\ hpc' = [hpc EXCEPT ![e] = "away"]
  /\ weightsMPIrequests' \subseteq weightsMPIrequests
  /\ UNCHANGED <<Unstored, weightIDs, lastWorkLoadStarted, nEpisodes, Ns>>

\* Where the agents of an environment are.
LEMMA TurnFacts ==
  ASSUME TypeOK, Started, algo = "CMA", NEW e \in Envs
  PROVE  /\ nOwnAgentsPerEnv \in Nat \ {0} /\ turn[e] \in 1 .. nOwnAgentsPerEnv
         /\ time[e] \in {0, 1} /\ (time[e] = 1 => ending[e]) /\ (time[e] = 0 => ~ending[e])
         /\ time[e] = 0 => (curNumStartedPerEnv[e] = 0 <=> turn[e] = 1)
         /\ Unstored[e] \in 0 .. nOwnAgentsPerEnv
         /\ hpc[e] = "store" => Unstored[e] > 0 /\ time[e] = 1
<1>1. nOwnAgentsPerEnv \in Nat \ {0} /\ turn[e] \in 1 .. nOwnAgentsPerEnv
  BY OnPolicyAssumption DEF TypeOK
<1>2. /\ time[e] \in {0, 1} /\ (time[e] = 1 => ending[e]) /\ (time[e] = 0 => ~ending[e])
      /\ hpc[e] = "store" => ending[e]
  BY DEF Started, InEpisode, LastTime
<1>3. time[e] = 0 => (curNumStartedPerEnv[e] = 0 <=> turn[e] = 1)
  <2>1. time[e] = 0 => curNumStartedPerEnv[e] = turn[e] - 1
    BY DEF Started, Counted
  <2> QED BY <1>1, <2>1
<1>4. Unstored[e] \in 0 .. nOwnAgentsPerEnv /\ (time[e] = 1 => Unstored[e] > 0)
  BY <1>1, <1>2 DEF Unstored
<1>5. hpc[e] = "store" => time[e] = 1
  BY <1>2, Zenon
<1> QED BY <1>1, <1>2, <1>3, <1>4, <1>5, Zenon

LEMMA UnstoredTyped ==
  ASSUME TypeOK, Started, algo = "CMA"
  PROVE  Unstored \in [Envs -> 0 .. nOwnAgentsPerEnv]
<1>1. \A e \in Envs : Unstored[e] \in 0 .. nOwnAgentsPerEnv
  BY TurnFacts
<1> QED BY <1>1 DEF Unstored

\* The agents of one environment change.
LEMMA UnstoredChanges ==
  ASSUME NEW e \in Envs, NEW x, NEW t, NEW u,
         time \in [Envs -> Nat], turn \in [Envs -> Nat],
         time' = [time EXCEPT ![e] = t], turn' = [turn EXCEPT ![e] = u],
         x = IF t = 0 THEN IF u = 1 THEN 0 ELSE nOwnAgentsPerEnv ELSE nOwnAgentsPerEnv - u + 1
  PROVE  Unstored' = [Unstored EXCEPT ![e] = x]
<1>1. time'[e] = t /\ turn'[e] = u
  OBVIOUS
<1>2. Unstored'[e] = x
  BY <1>1 DEF Unstored
<1>3. \A f \in Envs \ {e} : Unstored'[f] = Unstored[f]
  BY DEF Unstored
<1>4. Unstored' = [f \in Envs |-> Unstored'[f]] /\ Unstored = [f \in Envs |-> Unstored[f]]
  BY DEF Unstored
<1> HIDE DEF Unstored
<1> QED BY <1>2, <1>3, <1>4

LEMMA HandlerEffect ==
  ASSUME TypeOK, Started, algo = "CMA", NEW e \in Envs, Handler(e)
  PROVE  /\ UNCHANGED <<algo, mpc, algoSubStepID, allN>>
         /\ Starts(e) \/ Stores(e) \/ Evaluates(e) \/ GoesOn(e)
<1> DEFINE n == nOwnAgentsPerEnv
<1>0. /\ n \in Nat \ {0} /\ turn[e] \in 1 .. n
      /\ time[e] \in {0, 1} /\ (time[e] = 1 => ending[e]) /\ (time[e] = 0 => ~ending[e])
      /\ time[e] = 0 => (curNumStartedPerEnv[e] = 0 <=> turn[e] = 1)
      /\ hpc[e] = "store" => time[e] = 1
  BY TurnFacts
<1>a. UNCHANGED <<algo, mpc, algoSubStepID, allN>>
  BY DEF Handler, Gate, selectAction, processTerminal, terminateCurrentEpisode, stepVars
<1>q. nSeqPerStep \in Nat
  BY QuotaPositive DEF Quota, TypeOK
<1>t. /\ turn \in [Envs -> Nat] /\ time \in [Envs -> Nat]
      /\ turn \in [Envs -> 1 .. n] /\ time \in [Envs -> 0 .. MaxLen] /\ ending \in [Envs -> BOOLEAN]
      /\ hpc \in [Envs -> {"away", "select", "store"}]
  BY OnPolicyAssumption DEF TypeOK
<1>m. turn[e] % n = IF turn[e] < n THEN turn[e] ELSE 0
  BY <1>0, ModNext
<1>1. CASE Gate(e)
  <2>1. UNCHANGED Unstored
    BY <1>1 DEF Gate, Unstored
  <2>2. hpc[e] = "away" /\ ~(nEpisodes >= nSeqPerStep)
    BY <1>1 DEF Gate, blockDataAcquisition
  <2>3. nEpisodes < nSeqPerStep
    BY <1>q, <2>2 DEF TypeOK
  <2>4. GoesOn(e)
    BY <1>1, <2>1, <2>2, <2>3 DEF Gate, GoesOn, dataVars, workVars, populationVars
  <2> QED BY <1>a, <2>4
<1>2. CASE processTerminal(e)
  <2>1. UNCHANGED Unstored
    BY <1>2 DEF processTerminal, Unstored
  <2>2. Evaluates(e)
    BY <1>2, <2>1 DEF processTerminal, Evaluates, dataVars, populationVars
  <2> QED BY <1>a, <2>2
<1>3. CASE terminateCurrentEpisode(e)
  <2>1. hpc[e] = "store" /\ time[e] = 1 /\ Answer(e, TRUE)
    BY <1>0, <1>3 DEF terminateCurrentEpisode
  <2>2. turn' = [turn EXCEPT ![e] = (turn[e] % n) + 1]
    BY <2>1 DEF Answer
  <2>3. Unstored' = [Unstored EXCEPT ![e] = Unstored[e] - 1]
    <3>1. CASE turn[e] < n
      <4>1. time' = [time EXCEPT ![e] = 1] /\ turn' = [turn EXCEPT ![e] = turn[e] + 1]
        BY <1>0, <1>m, <1>t, <2>1, <2>2, <3>1 DEF Answer
      <4>2. Unstored[e] - 1 = n - (turn[e] + 1) + 1
        BY <1>0, <2>1 DEF Unstored
      <4>3. Unstored[e] - 1 = IF 1 = 0 THEN IF turn[e] + 1 = 1 THEN 0 ELSE n
                              ELSE n - (turn[e] + 1) + 1
        BY <4>2
      <4> QED BY <1>t, <4>1, <4>3, UnstoredChanges
    <3>2. CASE ~(turn[e] < n)
      <4>0. (turn[e] % n) + 1 = 1 /\ turn[e] = n
        BY <1>0, <1>m, <3>2
      <4>1. turn' = [turn EXCEPT ![e] = 1]
        BY <2>2, <4>0
      <4>2. time' = [time EXCEPT ![e] = 0]
        BY <2>1, <3>2 DEF Answer
      <4>3. Unstored[e] - 1 = 0
        BY <1>0, <2>1, <4>0 DEF Unstored
      <4> QED BY <1>t, <4>1, <4>2, <4>3, UnstoredChanges
    <3> QED BY <3>1, <3>2
  <2>4. Stores(e)
    BY <1>3, <2>1, <2>3 DEF terminateCurrentEpisode, Stores, Answer, populationVars
  <2> QED BY <1>a, <2>4
<1>4. CASE selectAction(e)
  <2>1. hpc[e] = "select" /\ time[e] = 0 /\ Answer(e, FALSE)
    BY <1>0, <1>4, Zenon DEF selectAction
  <2>2. turn' = [turn EXCEPT ![e] = (turn[e] % n) + 1] /\ hpc' = [hpc EXCEPT ![e] = "away"]
    BY <2>1 DEF Answer
  <2>3. assignWeightID(e) /\ getWeights(weightIDs'[e], nGradSteps)
    BY <1>4, <2>1, Zenon DEF selectAction
  <2>4. Unstored' = [Unstored EXCEPT ![e] = n]
    <3>1. CASE turn[e] < n
      <4>1. time' = [time EXCEPT ![e] = 0] /\ turn' = [turn EXCEPT ![e] = turn[e] + 1]
        BY <1>0, <1>m, <1>t, <2>1, <2>2, <3>1 DEF Answer
      <4>2. turn[e] + 1 # 1
        BY <1>0
      <4> QED BY <1>t, <4>1, <4>2, UnstoredChanges
    <3>2. CASE ~(turn[e] < n)
      <4>1. time' = [time EXCEPT ![e] = 1] /\ turn' = [turn EXCEPT ![e] = 1]
        <5>1. PICK ends \in BOOLEAN : time' = [time EXCEPT ![e] = time[e] + 1]
          BY <2>1, <3>2 DEF Answer
        <5>2. (turn[e] % n) + 1 = 1
          BY <1>0, <1>m, <3>2
        <5>3. turn' = [turn EXCEPT ![e] = 1]
          BY <2>2, <5>2
        <5> QED BY <2>1, <5>1, <5>3
      <4>2. n = IF 1 = 0 THEN IF 1 = 1 THEN 0 ELSE n ELSE n - 1 + 1
        BY <1>0
      <4> QED BY <1>t, <4>1, <4>2, UnstoredChanges
    <3> QED BY <3>1, <3>2
  <2>5. UNCHANGED <<nEpisodes, Ns>> /\ weightsMPIrequests' = weightsMPIrequests \ {weightIDs'[e]}
    BY <1>4, <2>3 DEF selectAction, getWeights
  <2>6. CASE turn[e] = 1
    <3>1. curNumStartedPerEnv[e] = 0 /\ Unstored[e] = 0
      BY <1>0, <2>1, <2>6 DEF Unstored
    <3>2. weightIDs' = [weightIDs EXCEPT ![e] = NextID]
          /\ lastWorkLoadStarted' = lastWorkLoadStarted + 1
      BY <2>3, <3>1 DEF assignWeightID, NextID
    <3>3. weightIDs'[e] = NextID
      BY <3>2 DEF TypeOK
    <3>4. Starts(e)
      BY <2>1, <2>2, <2>4, <2>5, <3>1, <3>2, <3>3 DEF Starts
    <3> QED BY <1>a, <3>4
  <2>7. CASE turn[e] # 1
    <3>1. curNumStartedPerEnv[e] # 0 /\ Unstored[e] = n
      BY <1>0, <2>1, <2>7 DEF Unstored
    <3>2. weightIDs' = weightIDs /\ lastWorkLoadStarted' = lastWorkLoadStarted
      BY <2>3, <3>1 DEF assignWeightID, TypeOK
    <3>3. Unstored' = Unstored
      BY <2>4, <3>1 DEF Unstored
    <3>4. GoesOn(e)
      BY <2>1, <2>2, <2>5, <3>2, <3>3 DEF GoesOn
    <3> QED BY <1>a, <3>4
  <2> QED BY <2>6, <2>7
<1> QED BY <1>1, <1>2, <1>3, <1>4 DEF Handler

\* Episodes that have been stored for the generation to come, and turns of vectors that
\* they can stand for as long as no episode with w has ended.
NewEpisodes == IF mpc = "remove" \/ algoSubStepID = 1 THEN 0 ELSE nEpisodes
Turns(w) == (ESpopSize - 1) * Cardinality(Holders(w)) + Since(w) + Cardinality(Envs) - 1
Unevaluated(w) == \A e \in Envs : Ns[e][w] = 0
Accounted(w) ==
  NewEpisodes + SumOf(Others(w), Envs) <= nOwnAgentsPerEnv * Turns(w)

LEMMA SinceFacts ==
  ASSUME lastWorkLoadStarted \in Nat, NEW w \in WeightIDs
  PROVE  /\ NextID \in WeightIDs /\ Since(w) \in 0 .. ESpopSize - 1
         /\ \A v \in WeightIDs : Since(v) = Since(w) => v = w
<1>1. ESpopSize \in Nat \ {0, 1}
  BY PopulationAssumption DEF Sizes
<1>2. NextID \in 0 .. ESpopSize - 1
  BY <1>1, Remainders DEF NextID
<1> QED BY <1>1, <1>2 DEF Since, WeightIDs

\* A vector that is handed out becomes the last one.
LEMMA SinceNext ==
  ASSUME lastWorkLoadStarted \in Nat, lastWorkLoadStarted' = lastWorkLoadStarted + 1,
         NEW w \in WeightIDs
  PROVE  /\ w = NextID => Since(w) = ESpopSize - 1 /\ Since(w)' = 0
         /\ w # NextID => Since(w)' = Since(w) + 1
<1>1. ESpopSize \in Nat \ {0, 1}
  BY PopulationAssumption DEF Sizes
<1>2. NextID \in 0 .. ESpopSize - 1
  BY <1>1, Remainders DEF NextID
<1>3. NextID' = IF NextID = ESpopSize - 1 THEN 0 ELSE NextID + 1
  BY <1>1, RemainderNext DEF NextID
<1>4. Since(w)' = IF NextID' > w THEN NextID' - 1 - w ELSE NextID' + ESpopSize - 1 - w
  BY DEF Since
<1>5. CASE NextID = ESpopSize - 1
  BY <1>1, <1>2, <1>3, <1>4, <1>5 DEF Since, WeightIDs
<1>6. CASE NextID # ESpopSize - 1
  BY <1>1, <1>2, <1>3, <1>4, <1>6 DEF Since, WeightIDs
<1> QED BY <1>5, <1>6

LEMMA EnvFacts ==
  /\ IsFiniteSet(Envs) /\ Cardinality(Envs) \in Nat \ {0}
  /\ nOwnAgentsPerEnv \in Nat \ {0} /\ ESpopSize \in Nat \ {0, 1}
BY OnPolicyAssumption, PopulationAssumption, FS_CardinalityType, FS_EmptySet DEF Sizes

LEMMA HoldersFinite ==
  \A w : IsFiniteSet(Holders(w)) /\ Cardinality(Holders(w)) \in 0 .. Cardinality(Envs)
<1> SUFFICES ASSUME NEW w
             PROVE  IsFiniteSet(Holders(w)) /\ Cardinality(Holders(w)) \in 0 .. Cardinality(Envs)
  OBVIOUS
<1>1. Holders(w) \subseteq Envs
  BY DEF Holders
<1>2. IsFiniteSet(Holders(w)) /\ Cardinality(Holders(w)) <= Cardinality(Envs)
  BY <1>1, EnvFacts, FS_Subset
<1> QED BY <1>2, EnvFacts, FS_CardinalityType

LEMMA OthersTyped ==
  ASSUME TypeOK, Started, algo = "CMA", NEW w
  PROVE  Others(w) \in [Envs -> Nat] /\ Others(w) \in [Envs -> Int]
<1>1. \A e \in Envs : Unstored[e] \in Nat /\ Storing(e) \in {0, 1}
  BY TurnFacts DEF Storing
<1> QED BY <1>1 DEF Others

LEMMA TurnsTyped ==
  ASSUME TypeOK, NEW w \in WeightIDs
  PROVE  Turns(w) \in Int
<1>1. \A a, b \in Nat : a * b \in Nat
  OBVIOUS
<1>2. ESpopSize - 1 \in Nat /\ Cardinality(Holders(w)) \in Nat
  BY EnvFacts, HoldersFinite
<1>3. Since(w) \in Int
  BY SinceFacts DEF TypeOK
<1> QED BY <1>1, <1>2, <1>3, EnvFacts DEF Turns

\* The sum over the environments when one of them changes.
LEMMA SumStep ==
  ASSUME NEW f \in [Envs -> Int], NEW g \in [Envs -> Int], NEW e \in Envs,
         \A x \in Envs \ {e} : g[x] = f[x]
  PROVE  SumOf(g, Envs) = SumOf(f, Envs) - f[e] + g[e] /\ SumOf(f, Envs) \in Int
         /\ SumOf(g, Envs) \in Int
<1>1. IsFiniteSet(Envs)
  BY EnvFacts
<1>2. SumOf(g, Envs) = SumOf(f, Envs) - f[e] + g[e]
  BY <1>1, SumChange
<1> QED BY <1>1, <1>2, SumType

LEMMA HandlerAccounted ==
  ASSUME TypeOK, Started, TypeOK', Started', algo = "CMA", NEW e \in Envs, Handler(e),
         NEW w \in WeightIDs, Unevaluated(w)', Unevaluated(w) => Accounted(w)
  PROVE  Accounted(w)'
<1>0. /\ UNCHANGED <<algo, mpc, algoSubStepID, allN>>
      /\ Starts(e) \/ Stores(e) \/ Evaluates(e) \/ GoesOn(e)
  BY HandlerEffect
<1>1. /\ hpc \in [Envs -> {"away", "select", "store"}] /\ weightIDs \in [Envs -> WeightIDs]
      /\ Unstored \in [Envs -> 0 .. nOwnAgentsPerEnv] /\ lastWorkLoadStarted \in Nat
      /\ Ns \in [Envs -> [WeightIDs -> Nat]] /\ nEpisodes \in Nat
      /\ nOwnAgentsPerEnv \in Nat \ {0}
  BY UnstoredTyped, EnvFacts DEF TypeOK
<1>2. Unevaluated(w) /\ (Evaluates(e) => weightIDs[e] # w)
  <2>1. CASE ~Evaluates(e)
    <3>1. Ns' = Ns
      BY <1>0, <2>1 DEF Starts, Stores, GoesOn
    <3> QED BY <2>1, <3>1 DEF Unevaluated
  <2>2. CASE Evaluates(e)
    <3>1. PICK i \in WeightIDs : i = weightIDs[e]
      BY <1>1
    <3>2. Ns' = [Ns EXCEPT ![e][i] = Ns[e][i] + 1]
      BY <2>2, <3>1 DEF Evaluates
    <3>3. Ns'[e][i] = Ns[e][i] + 1 /\ Ns[e][i] \in Nat
      BY <1>1, <3>2
    <3>4. i # w
      BY <3>3 DEF Unevaluated
    <3>5. \A x \in Envs : Ns'[x][w] = Ns[x][w]
      BY <1>1, <3>2, <3>4
    <3> QED BY <3>1, <3>4, <3>5 DEF Unevaluated
  <2> QED BY <2>1, <2>2
<1>3. Accounted(w)
  BY <1>2
<1> DEFINE a == nOwnAgentsPerEnv
           x == Cardinality(Holders(w))
           n == Cardinality(Envs)
<1>4. PICK f \in [Envs -> Int], s \in Int : f = Others(w) /\ s = SumOf(f, Envs)
  <2>1. Others(w) \in [Envs -> Int]
    BY OthersTyped
  <2> QED BY <2>1, EnvFacts, SumType
<1>5. PICK g \in [Envs -> Int], t \in Int : g = Others(w)' /\ t = SumOf(g, Envs)
  <2>1. (TypeOK /\ Started /\ algo = "CMA" => Others(w) \in [Envs -> Int])'
    BY OthersTyped, PTL
  <2>2. Others(w)' \in [Envs -> Int]
    BY <2>1, <1>0
  <2> QED BY <2>2, EnvFacts, SumType
<1>6. NewEpisodes \in Nat /\ NewEpisodes' \in Nat /\ Turns(w) \in Int
      /\ (nEpisodes' = nEpisodes => NewEpisodes' = NewEpisodes)
      /\ (nEpisodes' = nEpisodes + 1 => NewEpisodes' <= NewEpisodes + 1)
  BY <1>0, <1>1, TurnsTyped DEF NewEpisodes, TypeOK
<1>7. NewEpisodes + s <= a * Turns(w)
  BY <1>3, <1>4 DEF Accounted
<1>8. SUFFICES NewEpisodes' + t <= a * Turns(w)'
  BY <1>5 DEF Accounted
<1>9. SUFFICES /\ \A y \in Envs \ {e} : g[y] = f[y]
               /\ \/ g[e] = f[e] /\ nEpisodes' = nEpisodes /\ Turns(w)' = Turns(w)
                  \/ g[e] = f[e] - 1 /\ nEpisodes' = nEpisodes + 1 /\ Turns(w)' = Turns(w)
                  \/ g[e] = f[e] + a /\ nEpisodes' = nEpisodes /\ Turns(w)' = Turns(w) + 1
  <2> SUFFICES ASSUME /\ \A y \in Envs \ {e} : g[y] = f[y]
                      /\ \/ g[e] = f[e] /\ nEpisodes' = nEpisodes /\ Turns(w)' = Turns(w)
                         \/ g[e] = f[e] - 1 /\ nEpisodes' = nEpisodes + 1
                            /\ Turns(w)' = Turns(w)
                         \/ g[e] = f[e] + a /\ nEpisodes' = nEpisodes
                            /\ Turns(w)' = Turns(w) + 1
               PROVE  NewEpisodes' + t <= a * Turns(w)'
    OBVIOUS
  <2>1. t = s - f[e] + g[e]
    BY <1>4, <1>5, SumStep
  <2>2. PICK q \in Int : q = Turns(w)
    BY <1>6
  <2>3. a * q \in Int /\ a * (q + 1) = a * q + a
    BY <1>1
  <2> DEFINE z == a * q
  <2>4. z \in Int /\ NewEpisodes + s <= z /\ f[e] \in Int /\ g[e] \in Int
    BY <1>7, <2>2, <2>3
  <2>5. CASE g[e] = f[e] /\ nEpisodes' = nEpisodes /\ Turns(w)' = Turns(w)
    BY <1>6, <2>1, <2>2, <2>4, <2>5
  <2>6. CASE g[e] = f[e] - 1 /\ nEpisodes' = nEpisodes + 1 /\ Turns(w)' = Turns(w)
    <3> HIDE DEF z
    <3>1. NewEpisodes' + t <= z
      BY <1>6, <2>1, <2>4, <2>6
    <3> QED BY <2>2, <2>6, <3>1 DEF z
  <2>7. CASE g[e] = f[e] + a /\ nEpisodes' = nEpisodes /\ Turns(w)' = Turns(w) + 1
    <3>1. a * Turns(w)' = z + a
      BY <2>2, <2>3, <2>7
    <3> HIDE DEF z
    <3>2. NewEpisodes' + t <= z + a
      BY <1>1, <1>6, <2>1, <2>4, <2>7
    <3> QED BY <3>1, <3>2
  <2> QED BY <2>5, <2>6, <2>7
<1>10. \A y \in Envs \ {e} : g[y] = f[y]
  <2>1. \A y \in Envs \ {e} : Unstored'[y] = Unstored[y] /\ weightIDs'[y] = weightIDs[y]
                              /\ hpc'[y] = hpc[y]
    BY <1>0, <1>1 DEF Starts, Stores, Evaluates, GoesOn
  <2> QED BY <1>4, <1>5, <2>1 DEF Others, Storing
<1>11. ASSUME Cardinality(Holders(w))' = Cardinality(Holders(w)), Since(w)' = Since(w)
       PROVE  Turns(w)' = Turns(w)
  BY <1>11 DEF Turns
<1>12. ASSUME lastWorkLoadStarted' = lastWorkLoadStarted PROVE Since(w)' = Since(w)
  BY <1>12 DEF Since, NextID
<1>13. CASE Starts(e)
  <2>1. /\ Unstored[e] = 0 /\ hpc[e] = "select" /\ hpc'[e] = "away" /\ Unstored'[e] = a
        /\ weightIDs'[e] = NextID /\ lastWorkLoadStarted' = lastWorkLoadStarted + 1
        /\ nEpisodes' = nEpisodes
        /\ \A y \in Envs \ {e} : Unstored'[y] = Unstored[y] /\ weightIDs'[y] = weightIDs[y]
                                 /\ hpc'[y] = hpc[y]
    BY <1>1, <1>13 DEF Starts
  <2>2. f[e] = 0 /\ e \notin Holders(w)
    BY <1>4, <2>1 DEF Others, Storing, Holders
  <2>3. CASE w = NextID
    <3>1. g[e] = 0
      BY <1>5, <2>1, <2>3 DEF Others, Storing
    <3>2. Holders(w)' = Holders(w) \cup {e}
      BY <1>1, <2>1, <2>3 DEF Holders, Storing
    <3>3. Cardinality(Holders(w)') = Cardinality(Holders(w)) + 1
      BY <2>2, <3>2, HoldersFinite, FS_AddElement
    <3>4. Since(w) = ESpopSize - 1 /\ Since(w)' = 0
      BY <1>1, <2>1, <2>3, SinceNext
    <3>5. PICK c \in Nat, m \in Nat : c = Cardinality(Holders(w)) /\ m = ESpopSize - 1
      BY HoldersFinite, EnvFacts
    <3>6. m * (c + 1) + 0 + n - 1 = m * c + m + n - 1
      BY EnvFacts
    <3>7. Turns(w)' = m * (c + 1) + 0 + n - 1 /\ Turns(w) = m * c + m + n - 1
      BY <3>3, <3>4, <3>5 DEF Turns
    <3> QED BY <1>10, <2>1, <2>2, <3>1, <3>6, <3>7
  <2>4. CASE w # NextID
    <3>1. g[e] = a
      BY <1>5, <2>1, <2>4 DEF Others
    <3>2. Holders(w)' = Holders(w)
      BY <2>1, <2>2, <2>4 DEF Holders, Storing
    <3>3. Since(w)' = Since(w) + 1 /\ Since(w) \in Int
      BY <1>1, <2>1, <2>4, SinceNext, SinceFacts
    <3>5. PICK c \in Int : c = (ESpopSize - 1) * Cardinality(Holders(w))
      <4>1. ESpopSize - 1 \in Int /\ Cardinality(Holders(w)) \in Int
        BY HoldersFinite, EnvFacts
      <4>2. \A i, j \in Int : i * j \in Int
        OBVIOUS
      <4> QED BY <4>1, <4>2
    <3>6. Turns(w)' = c + (Since(w) + 1) + n - 1 /\ Turns(w) = c + Since(w) + n - 1
      BY <3>2, <3>3, <3>5 DEF Turns
    <3>7. Turns(w)' = Turns(w) + 1
      BY <3>3, <3>6, EnvFacts
    <3>8. g[e] = f[e] + a
      BY <1>1, <2>2, <3>1
    <3> QED BY <1>10, <2>1, <3>7, <3>8
  <2> QED BY <2>3, <2>4
<1>14. CASE Stores(e)
  <2>1. /\ hpc[e] = "store" /\ hpc'[e] = "away" /\ Unstored'[e] = Unstored[e] - 1
        /\ UNCHANGED <<weightIDs, lastWorkLoadStarted>> /\ nEpisodes' = nEpisodes + 1
        /\ \A y \in Envs \ {e} : Unstored'[y] = Unstored[y] /\ hpc'[y] = hpc[y]
    BY <1>1, <1>14 DEF Stores
  <2>2. Unstored[e] \in Int
    BY <1>1
  <2>3. g[e] = f[e] - 1
    BY <1>4, <1>5, <2>1, <2>2 DEF Others, Storing
  <2>4. Holders(w)' = Holders(w)
    <3>1. ASSUME NEW y \in Envs PROVE y \in Holders(w)' <=> y \in Holders(w)
      <4>1. CASE y = e
        BY <2>1, <2>2, <4>1 DEF Holders, Storing
      <4>2. CASE y # e
        BY <2>1, <4>2 DEF Holders, Storing
      <4> QED BY <4>1, <4>2
    <3>2. Holders(w)' \subseteq Envs /\ Holders(w) \subseteq Envs
      BY DEF Holders
    <3> QED BY <3>1, <3>2
  <2>5. Turns(w)' = Turns(w)
    BY <1>11, <1>12, <2>1, <2>4
  <2> QED BY <1>10, <2>1, <2>3, <2>5
<1>15. CASE Evaluates(e) \/ GoesOn(e)
  <2>1. /\ UNCHANGED <<Unstored, weightIDs, lastWorkLoadStarted, nEpisodes>>
        /\ \A y \in Envs \ {e} : hpc'[y] = hpc[y]
        /\ weightIDs[e] = w => hpc[e] # "store" /\ hpc'[e] # "store"
    BY <1>1, <1>2, <1>15 DEF Evaluates, GoesOn
  <2>2. \A y \in Envs : weightIDs[y] = w => Storing(y)' = Storing(y)
    BY <2>1 DEF Storing
  <2>3. g[e] = f[e]
    BY <1>4, <1>5, <2>1, <2>2 DEF Others
  <2>4. Holders(w)' = Holders(w)
    BY <2>1, <2>2 DEF Holders
  <2>5. Turns(w)' = Turns(w)
    BY <1>11, <1>12, <2>1, <2>4
  <2> QED BY <1>10, <2>1, <2>3, <2>5
<1> QED BY <1>0, <1>13, <1>14, <1>15

\* Sums of summands that are not greater than c.
LEMMA SumBelow ==
  ASSUME NEW f \in [Envs -> Int], NEW c \in Int, \A x \in Envs : f[x] <= c
  PROVE  /\ SumOf(f, Envs) \in Int /\ SumOf(f, Envs) <= Cardinality(Envs) * c
         /\ \A e \in Envs : SumOf(f, Envs) <= Cardinality(Envs) * c - c + f[e]
         /\ \A e, d \in Envs : e # d =>
              SumOf(f, Envs) <= Cardinality(Envs) * c - c + f[e] - c + f[d]
<1> DEFINE n == Cardinality(Envs)
<1>0. IsFiniteSet(Envs) /\ n * c \in Int /\ SumOf(f, Envs) \in Int
  <2>1. n \in Int
    BY EnvFacts
  <2> QED BY <2>1, EnvFacts, SumType
<1>1. PICK h \in [Envs -> Int] : \A x \in Envs : h[x] = c
  <2>1. [x \in Envs |-> c] \in [Envs -> Int]
    OBVIOUS
  <2> QED BY <2>1
<1>2. SumOf(h, Envs) = n * c
  BY <1>0, <1>1, SumConstant
<1>3. SumOf(f, Envs) <= n * c
  <2>1. \A x \in Envs : f[x] <= h[x]
    BY <1>1
  <2> QED BY <1>0, <1>2, <2>1, SumMono
<1>4. ASSUME NEW e \in Envs
      PROVE  \E g \in [Envs -> Int] : /\ SumOf(g, Envs) = n * c - c + f[e]
                                      /\ g[e] = f[e] /\ \A x \in Envs \ {e} : g[x] = c
  <2>1. PICK g \in [Envs -> Int] : g[e] = f[e] /\ \A x \in Envs \ {e} : g[x] = c
    <3>1. [x \in Envs |-> IF x = e THEN f[e] ELSE c] \in [Envs -> Int]
      OBVIOUS
    <3> QED BY <3>1
  <2>2. \A x \in Envs \ {e} : g[x] = h[x]
    BY <1>1, <2>1
  <2>3. SumOf(g, Envs) = SumOf(h, Envs) - h[e] + g[e]
    BY <2>2, SumStep
  <2> QED BY <1>1, <1>2, <2>1, <2>3
<1>5. ASSUME NEW e \in Envs PROVE SumOf(f, Envs) <= n * c - c + f[e]
  <2>1. PICK g \in [Envs -> Int] : /\ SumOf(g, Envs) = n * c - c + f[e]
                                   /\ g[e] = f[e] /\ \A x \in Envs \ {e} : g[x] = c
    BY <1>4
  <2>2. \A x \in Envs : f[x] <= g[x]
    BY <2>1
  <2>3. SumOf(f, Envs) <= SumOf(g, Envs)
    BY <1>0, <2>2, SumMono
  <2> QED BY <2>1, <2>3
<1>6. ASSUME NEW e \in Envs, NEW d \in Envs, e # d
      PROVE  SumOf(f, Envs) <= n * c - c + f[e] - c + f[d]
  <2>1. PICK g \in [Envs -> Int] : /\ SumOf(g, Envs) = n * c - c + f[e]
                                   /\ g[e] = f[e] /\ \A x \in Envs \ {e} : g[x] = c
    BY <1>4
  <2>2. PICK k \in [Envs -> Int] : k[d] = f[d] /\ \A x \in Envs \ {d} : k[x] = g[x]
    <3>1. [x \in Envs |-> IF x = d THEN f[d] ELSE g[x]] \in [Envs -> Int]
      OBVIOUS
    <3> QED BY <3>1
  <2>3. SumOf(k, Envs) = SumOf(g, Envs) - g[d] + k[d]
    BY <2>2, SumStep
  <2>4. \A x \in Envs : f[x] <= k[x]
    BY <1>6, <2>1, <2>2
  <2>5. SumOf(f, Envs) <= SumOf(k, Envs)
    BY <1>0, <2>4, SumMono
  <2>6. g[d] = c
    BY <1>6, <2>1
  <2>7. f[e] \in Int /\ f[d] \in Int /\ SumOf(k, Envs) = n * c - c + f[e] - c + f[d]
    <3> DEFINE z == n * c
    <3>1. z \in Int /\ SumOf(g, Envs) = z - c + f[e] /\ f[e] \in Int /\ f[d] \in Int
      BY <1>0, <2>1
    <3> HIDE DEF z
    <3>2. SumOf(k, Envs) = z - c + f[e] - c + f[d]
      BY <2>2, <2>3, <2>6, <3>1
    <3> QED BY <3>1, <3>2 DEF z
  <2> QED BY <2>5, <2>7
<1> QED BY <1>0, <1>3, <1>5, <1>6

\* A vector that was handed out last is with an environment, and an environment that
\* has stored the last episode of a generation does not go on.
Rotation == (\E e \in Envs : Since(weightIDs[e]) = 0) \/ (\A e \in Envs : Unstored[e] = 0)
Closed ==
  nEpisodes >= nSeqPerStep =>
    \E e \in Envs : hpc[e] = "away" /\ Unstored[e] < nOwnAgentsPerEnv

\* The bound on what the environments can have under way when a generation begins.
LEMMA AccountedAtReset ==
  ASSUME TypeOK, Started, algo = "CMA", Rotation, Closed, nEpisodes >= nSeqPerStep,
         NEW w \in WeightIDs
  PROVE  SumOf(Others(w), Envs) <= nOwnAgentsPerEnv * Turns(w)
<1> DEFINE a == nOwnAgentsPerEnv
           n == Cardinality(Envs)
<1>1. /\ a \in Nat \ {0} /\ n \in Nat \ {0} /\ ESpopSize \in Nat \ {0, 1}
  BY EnvFacts
<1>2. \A e \in Envs : Unstored[e] \in 0 .. a /\ Storing(e) \in {0, 1} /\ Storing(e) <= Unstored[e]
  <2> TAKE e \in Envs
  <2>1. Unstored[e] \in 0 .. a /\ (hpc[e] = "store" => Unstored[e] > 0)
    BY TurnFacts
  <2> QED BY <2>1 DEF Storing
<1>3. PICK f \in [Envs -> Int] : f = Others(w)
  BY OthersTyped
<1>4. \A e \in Envs : f[e] <= Unstored[e] /\ f[e] <= a /\ (weightIDs[e] = w => f[e] = Storing(e))
  BY <1>1, <1>2, <1>3 DEF Others
<1>5. PICK c \in 0 .. n : c = Cardinality(Holders(w))
  BY HoldersFinite
<1>6. PICK s \in 0 .. ESpopSize - 1 : s = Since(w)
  BY SinceFacts DEF TypeOK
<1>7. Turns(w) = (ESpopSize - 1) * c + s + n - 1
  BY <1>5, <1>6 DEF Turns
<1>8. PICK m \in Nat : m = (ESpopSize - 1) * c /\ (c >= 1 => m >= 1) /\ (c = 0 => m = 0)
  <2> DEFINE p == ESpopSize - 1
  <2>1. p \in Nat \ {0} /\ c \in Nat
    BY <1>1
  <2> HIDE DEF p
  <2>2. p * c \in Nat /\ (c >= 1 => p * c >= 1) /\ (c = 0 => p * c = 0)
    BY <2>1
  <2> QED BY <2>2 DEF p
<1>9. /\ SumOf(f, Envs) \in Int /\ SumOf(f, Envs) <= n * a
      /\ \A e \in Envs : SumOf(f, Envs) <= n * a - a + f[e]
      /\ \A e, d \in Envs : e # d => SumOf(f, Envs) <= n * a - a + f[e] - a + f[d]
  <2>1. a \in Int /\ \A e \in Envs : f[e] <= a
    BY <1>1, <1>4
  <2> QED BY <2>1, SumBelow
<1>10. SUFFICES SumOf(f, Envs) <= a * (m + s + n - 1)
  BY <1>3, <1>7, <1>8
<1>11. \A u, v \in Nat : u >= v => a * u >= a * v /\ a * u \in Int /\ a * v \in Int
  BY <1>1
<1>12. n * a = a * n /\ a * (n - 1) = a * n - a /\ a * n \in Int
  BY <1>1
<1>13. CASE c >= 1 \/ s >= 1
  <2>1. m + s + n - 1 \in Nat /\ m + s + n - 1 >= n
    BY <1>1, <1>8, <1>13
  <2>2. a * (m + s + n - 1) >= a * n /\ a * (m + s + n - 1) \in Int
    BY <1>1, <1>11, <2>1
  <2> QED BY <1>9, <1>12, <2>2
<1>14. CASE c = 0 /\ s = 0
  <2>1. a * (m + s + n - 1) = a * n - a
    <3>1. m + s + n - 1 = n - 1
      BY <1>1, <1>8, <1>14
    <3> QED BY <1>12, <3>1
  <2>2. \A e \in Envs : e \notin Holders(w)
    BY <1>5, <1>14, HoldersFinite, FS_EmptySet
  <2>3. CASE \A e \in Envs : Unstored[e] = 0
    <3>1. PICK e \in Envs : TRUE
      BY OnPolicyAssumption
    <3>2. f[e] <= 0 /\ f[e] \in Int
      BY <1>2, <1>4, <2>3
    <3>3. SumOf(f, Envs) <= n * a - a + f[e]
      BY <1>9
    <3> QED BY <1>1, <1>9, <1>12, <2>1, <3>2, <3>3
  <2>4. CASE \E e \in Envs : Since(weightIDs[e]) = 0
    <3>1. PICK e \in Envs : Since(weightIDs[e]) = 0
      BY <2>4
    <3>2. weightIDs[e] = w
      <4>1. weightIDs[e] \in WeightIDs /\ lastWorkLoadStarted \in Nat
        BY DEF TypeOK
      <4> QED BY <1>6, <1>14, <3>1, <4>1, SinceFacts
    <3>3. Unstored[e] <= Storing(e) /\ f[e] = Storing(e)
      BY <1>2, <1>4, <2>2, <3>2 DEF Holders
    <3>4. PICK d \in Envs : hpc[d] = "away" /\ Unstored[d] < a
      BY DEF Closed
    <3>5. CASE d = e
      <4>1. f[e] = 0
        BY <3>3, <3>4, <3>5 DEF Storing
      <4>2. SumOf(f, Envs) <= n * a - a + f[e]
        BY <1>9
      <4> QED BY <1>1, <1>9, <1>12, <2>1, <4>1, <4>2
    <3>6. CASE d # e
      <4>1. f[d] <= a - 1 /\ f[e] <= 1 /\ f[d] \in Int /\ f[e] \in Int
        BY <1>1, <1>2, <1>4, <3>3, <3>4
      <4>2. SumOf(f, Envs) <= n * a - a + f[e] - a + f[d]
        BY <1>9, <3>6
      <4> QED BY <1>1, <1>9, <1>12, <2>1, <4>1, <4>2
    <3> QED BY <3>5, <3>6
  <2> QED BY <2>3, <2>4 DEF Rotation
<1> QED BY <1>13, <1>14

\* A generation takes every vector once for every environment at least.
LEMMA BatchFacts ==
  /\ batchSize_local \in Nat /\ batchSize_local >= Cardinality(Envs)
  /\ nSeqPerStep = nOwnAgentsPerEnv * (batchSize_local * ESpopSize) /\ nSeqPerStep \in Nat \ {0}
<1> DEFINE n == Cardinality(Envs)
<1>1. n \in Nat \ {0} /\ BatchSize \in Nat \ {0} /\ ESpopSize \in Nat \ {0}
      /\ nOwnAgentsPerEnv \in Nat \ {0}
  BY EnvFacts, OnPolicyAssumption
<1> HIDE DEF n
<1>2. PICK q \in Nat, r \in 0 .. n - 1 : r = BatchSize % n /\ BatchSize = n * q + r
  <2>1. BatchSize \in Nat
    BY <1>1
  <2> QED BY <1>1, <2>1, Remainders, Zenon
<1>3. batchSize_local = IF r = 0 THEN BatchSize ELSE BatchSize + n - r
  BY <1>2 DEF batchSize_local, n
<1>4. n * q \in Nat /\ (q >= 1 => n * q >= n) /\ (q = 0 => n * q = 0)
  BY <1>1
<1>5. batchSize_local \in Nat /\ batchSize_local >= n
  <2> DEFINE y == n * q
  <2>1. y \in Nat /\ (q >= 1 => y >= n) /\ (q = 0 => y = 0) /\ BatchSize = y + r
    BY <1>2, <1>4
  <2> HIDE DEF y
  <2> QED BY <1>1, <1>2, <1>3, <2>1
<1>6. nSeqPerStep = nOwnAgentsPerEnv * (batchSize_local * ESpopSize)
  BY DEF nSeqPerStep, workLoadSize
<1>7. nSeqPerStep \in Nat \ {0}
  <2>1. batchSize_local \in Nat \ {0}
    BY <1>1, <1>5
  <2> QED BY <1>1, <1>6, <2>1, Product
<1> QED BY <1>5, <1>6, <1>7 DEF n

\* A vector with which no episode has ended leaves the generation open.
LEMMA EvaluatedWhenFull ==
  ASSUME TypeOK, Started, algo = "CMA", Rotation, NEW w \in WeightIDs, Accounted(w),
         NewEpisodes = nEpisodes, nEpisodes >= nSeqPerStep
  PROVE  FALSE
<1> DEFINE a == nOwnAgentsPerEnv
           n == Cardinality(Envs)
           p == ESpopSize
           b == batchSize_local
<1>1. a \in Nat \ {0} /\ n \in Nat \ {0} /\ p \in Nat \ {0, 1} /\ b \in Nat /\ b >= n
      /\ nSeqPerStep = a * (b * p) /\ IsFiniteSet(Envs)
  BY EnvFacts, BatchFacts
<1>2. PICK t \in Int : t = SumOf(Others(w), Envs) /\ t >= 0
  <2>1. Others(w) \in [Envs -> Int] /\ \A e \in Envs : 0 <= Others(w)[e]
    <3>1. Others(w) \in [Envs -> Nat]
      BY OthersTyped
    <3> QED BY <3>1
  <2>2. PICK z \in [Envs -> Int] : \A e \in Envs : z[e] = 0
    <3>1. [e \in Envs |-> 0] \in [Envs -> Int]
      OBVIOUS
    <3> QED BY <3>1
  <2>3. SumOf(z, Envs) = n * 0
    <3>1. 0 \in Int
      OBVIOUS
    <3> QED BY <1>1, <2>2, <3>1, SumConstant
  <2>4. SumOf(z, Envs) <= SumOf(Others(w), Envs)
    <3>1. \A e \in Envs : z[e] <= Others(w)[e]
      BY <2>1, <2>2
    <3> QED BY <1>1, <2>1, <3>1, SumMono
  <2>5. SumOf(Others(w), Envs) \in Int
    BY <1>1, <2>1, SumType
  <2> QED BY <1>1, <2>3, <2>4, <2>5
<1>3. PICK c \in 0 .. n : c = Cardinality(Holders(w))
  BY HoldersFinite
<1>4. PICK s \in 0 .. p - 1 : s = Since(w)
  BY SinceFacts DEF TypeOK
<1>5. nEpisodes + t <= a * ((p - 1) * c + s + n - 1) /\ nEpisodes \in Nat
  BY <1>2, <1>3, <1>4 DEF Accounted, Turns, TypeOK
<1>6. (p - 1) * c + s + n - 1 <= p * n - 1
  <2>1. (p - 1) * n = p * n - n /\ (p - 1) * (n - 1) = p * n - n - p + 1 /\ p * n \in Int
    BY <1>1
  <2>2. CASE c = n
    <3>1. Envs \ Holders(w) = {}
      <4>1. Holders(w) \subseteq Envs
        BY DEF Holders
      <4> QED BY <1>1, <1>3, <2>2, <4>1, HoldersFinite, FS_Subset
    <3>2. PICK e \in Envs : Since(weightIDs[e]) = 0
      <4>1. PICK d \in Envs : TRUE
        BY OnPolicyAssumption
      <4>2. d \in Holders(w) /\ Unstored[d] \in Nat /\ Storing(d) \in {0, 1}
        BY <3>1, TurnFacts DEF Storing
      <4>3. Unstored[d] # 0
        BY <4>2 DEF Holders
      <4> QED BY <4>3 DEF Rotation
    <3>3. weightIDs[e] = w
      BY <3>1 DEF Holders
    <3>4. s = 0
      BY <1>4, <3>2, <3>3
    <3> QED BY <1>1, <2>1, <2>2, <3>4
  <2>3. CASE c # n
    <3>1. (p - 1) * c <= (p - 1) * (n - 1) /\ (p - 1) * c \in Int
      <4>1. p - 1 \in Nat /\ c \in Nat /\ n - 1 \in Nat /\ c <= n - 1
        BY <1>1, <2>3
      <4>2. \A i, j, k \in Nat : j <= k => i * j <= i * k /\ i * j \in Int
        OBVIOUS
      <4> QED BY <4>1, <4>2
    <3> DEFINE x == (p - 1) * c
               y == p * n
    <3>2. x \in Int /\ y \in Int /\ x <= y - n - p + 1
      BY <2>1, <3>1
    <3> HIDE DEF x, y
    <3>3. x + s + n - 1 <= y - 1
      BY <1>1, <3>2
    <3> QED BY <3>3 DEF x, y
  <2> QED BY <2>2, <2>3
<1>7. PICK u \in Int, v \in Int : /\ u = (p - 1) * c + s + n - 1 /\ v = b * p /\ u <= v - 1
  <2>1. (p - 1) * c \in Int /\ p * n \in Int /\ b * p \in Int /\ p * n <= b * p
    <3>1. \A i, j, k \in Nat : j <= k => j * i <= k * i /\ i * j = j * i /\ i * j \in Int
      OBVIOUS
    <3>2. p \in Nat /\ n \in Nat /\ b \in Nat /\ n <= b /\ p - 1 \in Nat /\ c \in Nat
      BY <1>1
    <3>3. p * n = n * p /\ n * p <= b * p /\ b * p \in Int /\ p * n \in Int
      BY <3>1, <3>2, Products
    <3>4. (p - 1) * c \in Int
      BY <3>2
    <3> QED BY <3>3, <3>4
  <2> DEFINE x == (p - 1) * c
             y == p * n
             z == b * p
  <2>2. x \in Int /\ y \in Int /\ z \in Int /\ y <= z /\ x + s + n - 1 <= y - 1
    BY <1>6, <2>1
  <2> HIDE DEF x, y, z
  <2>3. x + s + n - 1 \in Int /\ x + s + n - 1 <= z - 1
    BY <1>1, <2>2
  <2> QED BY <2>2, <2>3 DEF x, z
<1>8. a * u <= a * (v - 1) /\ a * (v - 1) = a * v - a /\ a * u \in Int /\ a * v \in Int
  <2>1. \A i, j \in Int : i <= j => a * i <= a * j
    BY <1>1
  <2> QED BY <1>1, <1>7, <2>1
<1>9. nEpisodes + t <= a * u /\ nEpisodes >= a * v
  BY <1>1, <1>5, <1>7
<1> HIDE DEF a
<1> QED BY <1>1, <1>2, <1>5, <1>8, <1>9

PopInv ==
  algo = "CMA" =>
    /\ Rotation /\ Closed
    /\ \A w \in WeightIDs : Unevaluated(w) => Accounted(w)
    /\ mpc = "reset" => nEpisodes >= nSeqPerStep /\ \A w \in WeightIDs : allN[w] > 0

LEMMA NothingStored ==
  ASSUME NEW f \in [Envs -> Int], \A e \in Envs : f[e] = 0
  PROVE  SumOf(f, Envs) = 0
<1>1. SumOf(f, Envs) = Cardinality(Envs) * 0
  <2>1. 0 \in Int
    OBVIOUS
  <2> QED BY <2>1, EnvFacts, SumConstant
<1> QED BY <1>1, EnvFacts

LEMMA InitPop == Init => PopInv
<1> SUFFICES ASSUME Init, algo = "CMA"
             PROVE  Rotation /\ Closed /\ mpc # "reset" /\ \A w \in WeightIDs : Accounted(w)
  BY DEF PopInv
<1>1. TypeOK /\ Started
  BY InitInv
<1>2. \A e \in Envs : Unstored[e] = 0 /\ Storing(e) = 0
  BY DEF Init, Unstored, Storing
<1>3. Rotation
  BY <1>2 DEF Rotation
<1>4. Closed
  BY BatchFacts DEF Init, Closed
<1>5. mpc # "reset" /\ NewEpisodes = 0
  BY DEF Init, NewEpisodes
<1>6. ASSUME NEW w \in WeightIDs PROVE Accounted(w)
  <2>1. Others(w) \in [Envs -> Int] /\ \A e \in Envs : Others(w)[e] = 0
    <3>1. Others(w) \in [Envs -> Int]
      BY <1>1, OthersTyped
    <3>2. \A e \in Envs : Others(w)[e] = 0
      BY <1>2 DEF Others
    <3> QED BY <3>1, <3>2
  <2>2. SumOf(Others(w), Envs) = 0
    BY <2>1, NothingStored
  <2>3. PICK k \in Nat : k = Turns(w)
    <3>1. Holders(w) = {}
      BY <1>2 DEF Holders
    <3>2. Cardinality(Holders(w)) = 0
      BY <3>1, FS_EmptySet
    <3>3. (ESpopSize - 1) * 0 = 0
      BY EnvFacts
    <3>4. Since(w) \in Nat
      BY <1>1, SinceFacts DEF TypeOK
    <3>5. Turns(w) = 0 + Since(w) + Cardinality(Envs) - 1
      BY <3>2, <3>3 DEF Turns
    <3> QED BY <3>4, <3>5, EnvFacts
  <2>4. nOwnAgentsPerEnv * k \in Nat
    BY <2>3, EnvFacts
  <2> QED BY <1>5, <2>2, <2>3, <2>4 DEF Accounted
<1> QED BY <1>3, <1>4, <1>5, <1>6

LEMMA HandlerPop ==
  ASSUME TypeOK, Started, TypeOK', Started', algo = "CMA", PopInv, NEW e \in Envs, Handler(e)
  PROVE  PopInv'
<1>0. /\ UNCHANGED <<algo, mpc, algoSubStepID, allN>>
      /\ Starts(e) \/ Stores(e) \/ Evaluates(e) \/ GoesOn(e)
  BY HandlerEffect
<1>1. /\ hpc \in [Envs -> {"away", "select", "store"}] /\ weightIDs \in [Envs -> WeightIDs]
      /\ Unstored \in [Envs -> 0 .. nOwnAgentsPerEnv] /\ lastWorkLoadStarted \in Nat
      /\ nEpisodes \in Nat /\ nSeqPerStep \in Nat
  BY UnstoredTyped, BatchFacts DEF TypeOK
<1>2. \A w \in WeightIDs : Unevaluated(w)' => Accounted(w)'
  BY HandlerAccounted DEF PopInv
<1>3. Rotation'
  <2>1. CASE Starts(e)
    <3>1. PICK v \in WeightIDs : v = NextID
      BY <1>1, SinceFacts
    <3>2. weightIDs'[e] = v
      BY <1>1, <2>1, <3>1 DEF Starts
    <3>3. Since(v)' = 0
      BY <1>1, <2>1, <3>1, SinceNext DEF Starts
    <3>4. \E x \in Envs : Since(weightIDs[x])' = 0
      BY <3>2, <3>3 DEF Since
    <3> QED BY <3>4 DEF Rotation
  <2>2. CASE ~Starts(e)
    <3>1. UNCHANGED <<weightIDs, lastWorkLoadStarted>>
      BY <1>0, <2>2 DEF Stores, Evaluates, GoesOn
    <3>2. \A x \in Envs : Since(weightIDs[x])' = Since(weightIDs[x])
      BY <3>1 DEF Since, NextID
    <3>3. (\A x \in Envs : Unstored[x] = 0) => UNCHANGED Unstored
      <4>1. Stores(e) => Unstored[e] > 0
        BY TurnFacts DEF Stores
      <4> QED BY <1>0, <1>1, <2>2, <4>1 DEF Evaluates, GoesOn
    <3>4. Rotation
      BY DEF PopInv
    <3> QED BY <3>2, <3>3, <3>4 DEF Rotation
  <2> QED BY <2>1, <2>2
<1>4. Closed'
  <2>1. CASE Stores(e)
    <3>1. hpc'[e] = "away" /\ Unstored'[e] < nOwnAgentsPerEnv
      BY <1>1, <2>1, EnvFacts DEF Stores
    <3> QED BY <3>1 DEF Closed
  <2>2. CASE ~Stores(e)
    <3> SUFFICES ASSUME nEpisodes' >= nSeqPerStep
                 PROVE  \E x \in Envs : hpc'[x] = "away" /\ Unstored'[x] < nOwnAgentsPerEnv
      BY DEF Closed, nSeqPerStep, workLoadSize, batchSize_local
    <3>1. nEpisodes' = nEpisodes
      BY <1>0, <2>2 DEF Starts, Evaluates, GoesOn
    <3>2. PICK x \in Envs : hpc[x] = "away" /\ Unstored[x] < nOwnAgentsPerEnv
      BY <3>1 DEF PopInv, Closed
    <3>3. ~(nEpisodes < nSeqPerStep)
      BY <1>1, <3>1
    <3>4. hpc[e] # "away"
      BY <1>0, <2>2, <3>3 DEF Starts, Evaluates, GoesOn
    <3>5. x # e
      BY <3>2, <3>4
    <3>6. hpc'[x] = hpc[x] /\ Unstored'[x] = Unstored[x]
      BY <1>0, <1>1, <2>2, <3>5 DEF Starts, Evaluates, GoesOn
    <3> QED BY <3>2, <3>6
  <2> QED BY <2>1, <2>2
<1>5. mpc' = "reset" => (nEpisodes' >= nSeqPerStep /\ \A w \in WeightIDs : allN'[w] > 0)
  <2>1. nEpisodes' = nEpisodes \/ nEpisodes' = nEpisodes + 1
    BY <1>0 DEF Starts, Stores, Evaluates, GoesOn
  <2> QED BY <1>0, <1>1, <2>1 DEF PopInv
<1>6. nSeqPerStep' = nSeqPerStep
  BY DEF nSeqPerStep, workLoadSize, batchSize_local
<1> QED BY <1>2, <1>3, <1>4, <1>5, <1>6 DEF PopInv

\* The steps taken with a vector, on all environments, as a sum of a function.
StepsWith(w) == [e \in Envs |-> Ns[e][w]]

LEMMA StepsAreSum ==
  ASSUME TypeOK, NEW w \in WeightIDs
  PROVE  /\ StepsWith(w) \in [Envs -> Nat]
         /\ MapThenSumSet(LAMBDA e : Ns[e][w], Envs) = SumOf(StepsWith(w), Envs)
<1> DEFINE Def(iter) == iter = [s \in SUBSET Envs |-> IF s = {} THEN 0
               ELSE Ns[AnyOf(s)][w] + iter[s \ {AnyOf(s)}]]
<1>1. MapThenSumSet(LAMBDA e : Ns[e][w], Envs) = (CHOOSE iter : Def(iter))[Envs]
  BY DEF MapThenSumSet, MapThenFoldSet, AnyOf
<1>2. ASSUME NEW iter PROVE Def(iter) <=> Adds(iter, StepsWith(w), Envs)
  <2>1. \A s \in SUBSET Envs : s # {} => StepsWith(w)[AnyOf(s)] = Ns[AnyOf(s)][w]
    BY AnyFacts DEF StepsWith
  <2> QED BY <2>1 DEF Adds
<1>3. StepsWith(w) \in [Envs -> Nat] /\ StepsWith(w) \in [Envs -> Int]
  BY DEF StepsWith, TypeOK
<1> HIDE DEF Def
<1>4. Adds(CHOOSE iter : Def(iter), StepsWith(w), Envs)
  BY <1>2, <1>3, EnvFacts, AddsExists
<1>5. SumOf(StepsWith(w), Envs) = (CHOOSE iter : Def(iter))[Envs]
  BY <1>3, <1>4, EnvFacts, SumIs
<1> QED BY <1>1, <1>3, <1>5

\* Where the main thread leaves the handlers alone, and the counts.
LEMMA MainPop ==
  ASSUME TypeOK, Started, TypeOK', Started', algo = "CMA", PopInv, Main
  PROVE  PopInv'
<1>0. UNCHANGED <<algo, hpc, turn, time, ending, weightIDs>>
  BY DEF Main, stepInit, stepMainPPO, stepMainCMA, resetLoss, applyEpisodesRemovalAlgo,
         apply_update, stepComplete, handlerVars, workVars
<1>1. UNCHANGED Unstored /\ \A e \in Envs : Storing(e)' = Storing(e)
  BY <1>0 DEF Unstored, Storing
<1>2. nSeqPerStep' = nSeqPerStep /\ nSeqPerStep \in Nat \ {0} /\ nEpisodes \in Nat
  BY BatchFacts DEF nSeqPerStep, workLoadSize, batchSize_local, TypeOK
<1>3. \A w : Holders(w)' = Holders(w) /\ Others(w)' = Others(w)
  BY <1>0, <1>1 DEF Holders, Others
<1>4. ASSUME NextID' = NextID
      PROVE  /\ \A w : Since(w)' = Since(w) /\ Turns(w)' = Turns(w)
             /\ Rotation'
  <2>1. \A w : Since(w)' = Since(w)
    BY <1>4 DEF Since
  <2>2. \A w : Turns(w)' = Turns(w)
    BY <1>3, <2>1 DEF Turns
  <2>3. \A e \in Envs : Since(weightIDs[e])' = Since(weightIDs[e])
    BY <1>0, <1>4 DEF Since
  <2>4. Rotation'
    BY <1>1, <2>3 DEF Rotation, PopInv
  <2> QED BY <2>1, <2>2, <2>4
<1>5. ASSUME lastWorkLoadStarted' = lastWorkLoadStarted PROVE NextID' = NextID
  BY <1>5 DEF NextID
<1>6. ASSUME NextID' = NextID, Ns' = Ns, NewEpisodes' = NewEpisodes
      PROVE  \A w \in WeightIDs : Unevaluated(w)' => Accounted(w)'
  BY <1>3, <1>4, <1>6 DEF Unevaluated, Accounted, PopInv
<1>7. ASSUME nEpisodes' \in Nat, nEpisodes' <= nEpisodes PROVE Closed'
  <2>1. nEpisodes' >= nSeqPerStep' => nEpisodes >= nSeqPerStep
    BY <1>2, <1>7
  <2>2. Closed
    BY DEF PopInv
  <2> QED BY <1>0, <1>1, <2>1, <2>2 DEF Closed
<1>8. CASE stepInit
  <2>1. UNCHANGED <<lastWorkLoadStarted, Ns, nEpisodes, mpc, allN>>
        /\ algoSubStepID = -1 /\ algoSubStepID' = 0 /\ mpc = "tasks"
    BY <1>8 DEF stepInit, dataVars, workVars
  <2>2. NewEpisodes' = NewEpisodes
    BY <2>1 DEF NewEpisodes
  <2> QED BY <1>2, <1>4, <1>5, <1>6, <1>7, <2>1, <2>2 DEF PopInv
<1>9. CASE stepMainPPO
  BY <1>9 DEF stepMainPPO
<1>10. CASE stepMainCMA
  <2>1. /\ UNCHANGED <<lastWorkLoadStarted, Ns, nEpisodes, algoSubStepID>>
        /\ mpc = "tasks" /\ mpc' = "reset" /\ algoSubStepID = 0
        /\ ~(nEpisodes < nSeqPerStep)
    BY <1>10 DEF stepMainCMA, dataVars, workVars, blockGradientUpdates
  <2>2. NewEpisodes' = NewEpisodes /\ NewEpisodes = nEpisodes /\ nEpisodes >= nSeqPerStep
    BY <1>2, <2>1 DEF NewEpisodes
  <2>3. ASSUME NEW w \in WeightIDs PROVE allN'[w] > 0
    <3>1. allN'[w] = MapThenSumSet(LAMBDA e : Ns[e][w], Envs)
      BY <1>10 DEF stepMainCMA
    <3> DEFINE f == [e \in Envs |-> Ns[e][w]]
               z == [e \in Envs |-> 0]
    <3>2. f \in [Envs -> Int] /\ z \in [Envs -> Int] /\ \A e \in Envs : f[e] \in Nat /\ z[e] = 0
      BY DEF TypeOK
    <3>3. allN'[w] = SumOf(f, Envs)
      <4>1. MapThenSumSet(LAMBDA e : Ns[e][w], Envs) = SumOf(StepsWith(w), Envs)
        BY StepsAreSum
      <4>2. f = StepsWith(w)
        BY DEF StepsWith
      <4> HIDE DEF f
      <4> QED BY <3>1, <4>1, <4>2
    <3>4. PICK e \in Envs : Ns[e][w] # 0
      <4>1. ~Unevaluated(w)
        <5> SUFFICES ASSUME Unevaluated(w) PROVE FALSE
          OBVIOUS
        <5>1. Accounted(w) /\ Rotation
          BY DEF PopInv
        <5> QED BY <2>2, <5>1, EvaluatedWhenFull
      <4> QED BY <4>1 DEF Unevaluated
    <3>5. f[e] > 0
      <4>1. f[e] = Ns[e][w] /\ f[e] \in Nat
        BY <3>2
      <4> HIDE DEF f
      <4> QED BY <3>4, <4>1
    <3>6. PICK g \in [Envs -> Int] : g[e] = f[e] /\ \A x \in Envs \ {e} : g[x] = z[x]
      <4> HIDE DEF f, z
      <4>1. [x \in Envs |-> IF x = e THEN f[e] ELSE z[x]] \in [Envs -> Int]
        BY <3>2
      <4> QED BY <4>1
    <3> HIDE DEF f, z
    <3>7. SumOf(g, Envs) = SumOf(z, Envs) - z[e] + g[e] /\ SumOf(z, Envs) = 0
      BY <3>2, <3>6, SumStep, NothingStored
    <3>8. SumOf(g, Envs) <= SumOf(f, Envs) /\ SumOf(f, Envs) \in Int /\ f[e] \in Int /\ z[e] = 0
      <4>1. \A x \in Envs : g[x] <= f[x]
        BY <3>2, <3>6
      <4> QED BY <3>2, <4>1, EnvFacts, SumMono, SumType
    <3> QED BY <3>3, <3>5, <3>6, <3>7, <3>8
  <2> QED BY <1>2, <1>4, <1>5, <1>6, <1>7, <2>1, <2>2, <2>3 DEF PopInv
<1>11. CASE resetLoss
  <2>1. /\ mpc = "reset" /\ mpc' = "remove" /\ nEpisodes' = nEpisodes
        /\ lastWorkLoadStarted' = lastWorkLoadStarted % workLoadSize
    BY <1>11 DEF resetLoss, dataVars
  <2>2. NextID' = NextID
    <3>1. batchSize_local \in Nat \ {0} /\ ESpopSize \in Nat \ {0} /\ lastWorkLoadStarted \in Nat
      BY BatchFacts, EnvFacts DEF TypeOK
    <3>2. (lastWorkLoadStarted % (batchSize_local * ESpopSize)) % ESpopSize
            = lastWorkLoadStarted % ESpopSize
      BY <3>1, RemainderOf
    <3> QED BY <2>1, <3>2 DEF NextID, workLoadSize
  <2>3. NewEpisodes' = 0
    BY <2>1 DEF NewEpisodes
  <2>4. ASSUME NEW w \in WeightIDs PROVE Accounted(w)'
    <3>1. SumOf(Others(w), Envs) <= nOwnAgentsPerEnv * Turns(w)
      BY <2>1, AccountedAtReset DEF PopInv
    <3>2. SumOf(Others(w), Envs)' = SumOf(Others(w), Envs) /\ SumOf(Others(w), Envs) \in Int
      BY <1>3, OthersTyped, EnvFacts, SumType
    <3>3. Turns(w)' = Turns(w)
      BY <1>4, <2>2
    <3> QED BY <2>3, <3>1, <3>2, <3>3 DEF Accounted
  <2> QED BY <1>2, <1>4, <1>7, <2>1, <2>2, <2>4 DEF PopInv
<1>12. CASE applyEpisodesRemovalAlgo
  <2>1. /\ UNCHANGED <<lastWorkLoadStarted, Ns>> /\ mpc = "remove" /\ algoSubStepID' = 1
        /\ mpc' = "tasks" /\ nEpisodes' = nEpisodes - Surplus
    BY <1>12 DEF applyEpisodesRemovalAlgo, workVars
  <2>2. nEpisodes' \in Nat /\ nEpisodes' <= nEpisodes
    <3>1. Surplus \in Nat
      BY SurplusFacts DEF TypeOK
    <3>2. nEpisodes' \in Nat
      BY DEF TypeOK
    <3> QED BY <1>2, <2>1, <3>1, <3>2
  <2>3. NewEpisodes' = NewEpisodes
    BY <2>1 DEF NewEpisodes
  <2> QED BY <1>4, <1>5, <1>6, <1>7, <2>1, <2>2, <2>3 DEF PopInv
<1>13. CASE apply_update
  <2>1. /\ UNCHANGED <<lastWorkLoadStarted, Ns, nEpisodes, algoSubStepID>> /\ algoSubStepID = 1
        /\ mpc' = "gather"
    BY <1>13 DEF apply_update, dataVars, stepVars
  <2>2. NewEpisodes' = NewEpisodes
    BY <2>1 DEF NewEpisodes
  <2> QED BY <1>2, <1>4, <1>5, <1>6, <1>7, <2>1, <2>2 DEF PopInv
<1>14. CASE stepComplete
  <2>1. /\ UNCHANGED <<lastWorkLoadStarted, Ns>> /\ algoSubStepID = 1 /\ algoSubStepID' = 0
        /\ mpc' = "tasks" /\ nEpisodes' = 0
    BY <1>14 DEF stepComplete, clearAll
  <2>2. NewEpisodes' = NewEpisodes /\ nEpisodes' \in Nat /\ nEpisodes' <= nEpisodes
    BY <1>2, <2>1 DEF NewEpisodes
  <2> QED BY <1>4, <1>5, <1>6, <1>7, <2>1, <2>2 DEF PopInv
<1> QED BY <1>8, <1>9, <1>10, <1>11, <1>12, <1>13, <1>14 DEF Main

\* A vector whose gather has not been waited for has not been handed out since: what the
\* environments have stored, and have under way, are turns of the others.
AllUsed ==
  algo = "CMA" =>
    /\ \A w \in weightsMPIrequests :
         nEpisodes + SumOf(Unstored, Envs) <= nOwnAgentsPerEnv * (Cardinality(Envs) + Since(w))
    /\ mpc # "tasks" \/ algoSubStepID = 1 => weightsMPIrequests = {}

\* What the environments have under way, as they go on.
LEMMA UnderWay ==
  ASSUME TypeOK, Started, algo = "CMA"
  PROVE  /\ SumOf(Unstored, Envs) \in Nat
         /\ SumOf(Unstored, Envs) <= nOwnAgentsPerEnv * Cardinality(Envs)
<1>1. Unstored \in [Envs -> 0 .. nOwnAgentsPerEnv] /\ Unstored \in [Envs -> Int]
  BY UnstoredTyped, EnvFacts
<1> DEFINE z == [e \in Envs |-> 0]
<1>2. z \in [Envs -> Int] /\ \A e \in Envs : z[e] = 0
  OBVIOUS
<1>3. \A e \in Envs : z[e] <= Unstored[e] /\ Unstored[e] <= nOwnAgentsPerEnv
  BY <1>1, EnvFacts
<1> HIDE DEF z
<1>4. SumOf(z, Envs) = 0
  BY <1>2, NothingStored
<1>5. SumOf(z, Envs) <= SumOf(Unstored, Envs)
  <2>1. PICK f \in [Envs -> Int] : f = Unstored
    BY <1>1
  <2>2. SumOf(z, Envs) <= SumOf(f, Envs)
    BY <1>2, <1>3, <2>1, EnvFacts, SumMono
  <2> QED BY <2>1, <2>2
<1>6. SumOf(Unstored, Envs) \in Int
      /\ SumOf(Unstored, Envs) <= Cardinality(Envs) * nOwnAgentsPerEnv
  <2>1. PICK f \in [Envs -> Int] : f = Unstored
    BY <1>1
  <2>2. nOwnAgentsPerEnv \in Int /\ \A e \in Envs : f[e] <= nOwnAgentsPerEnv
    BY <1>3, <2>1, EnvFacts
  <2>3. SumOf(f, Envs) \in Int /\ SumOf(f, Envs) <= Cardinality(Envs) * nOwnAgentsPerEnv
    BY <2>2, SumBelow
  <2> QED BY <2>1, <2>3
<1>7. Cardinality(Envs) * nOwnAgentsPerEnv = nOwnAgentsPerEnv * Cardinality(Envs)
  BY EnvFacts
<1> QED BY <1>4, <1>5, <1>6, <1>7

LEMMA UnderWayNext ==
  ASSUME TypeOK, Started, TypeOK', Started', algo = "CMA", algo' = algo, NEW e \in Envs, NEW x,
         Unstored' = [Unstored EXCEPT ![e] = x]
  PROVE  SumOf(Unstored, Envs)' = SumOf(Unstored, Envs) - Unstored[e] + x
         /\ SumOf(Unstored, Envs) \in Int /\ Unstored[e] \in Int /\ x \in Int
<1>1. Unstored \in [Envs -> Int]
  BY UnstoredTyped, EnvFacts
<1>2. Unstored' \in [Envs -> Int]
  <2>1. Unstored' \in [Envs -> 0 .. nOwnAgentsPerEnv]
    <3>1. (TypeOK /\ Started /\ algo = "CMA" => Unstored \in [Envs -> 0 .. nOwnAgentsPerEnv])'
      BY UnstoredTyped, PTL
    <3> QED BY <3>1
  <2> QED BY <2>1, EnvFacts
<1>3. PICK f \in [Envs -> Int] : f = Unstored
  BY <1>1
<1>4. PICK g \in [Envs -> Int] : g = Unstored'
  BY <1>2
<1>5. g[e] = x /\ \A d \in Envs \ {e} : g[d] = f[d]
  BY <1>1, <1>3, <1>4
<1>6. SumOf(g, Envs) = SumOf(f, Envs) - f[e] + g[e] /\ SumOf(f, Envs) \in Int
  BY <1>5, SumStep
<1>7. SumOf(Unstored, Envs)' = SumOf(g, Envs)
  <2>1. SumOf(Unstored, Envs)' = SumOf(Unstored', Envs)
    OBVIOUS
  <2> QED BY <1>4, <2>1
<1> QED BY <1>3, <1>5, <1>6, <1>7

LEMMA InitUsed == Init => AllUsed
BY DEF Init, populationInit, AllUsed

LEMMA HandlerUsed ==
  ASSUME TypeOK, Started, TypeOK', Started', algo = "CMA", AllUsed, NEW e \in Envs, Handler(e)
  PROVE  AllUsed'
<1>0. /\ UNCHANGED <<algo, mpc, algoSubStepID, allN>>
      /\ Starts(e) \/ Stores(e) \/ Evaluates(e) \/ GoesOn(e)
  BY HandlerEffect
<1>1. weightsMPIrequests' \subseteq weightsMPIrequests
  BY <1>0 DEF Starts, Stores, Evaluates, GoesOn
<1> SUFFICES ASSUME NEW w \in weightsMPIrequests'
             PROVE  nEpisodes' + SumOf(Unstored, Envs)'
                      <= nOwnAgentsPerEnv * (Cardinality(Envs) + Since(w)')
  BY <1>0, <1>1 DEF AllUsed
<1> DEFINE a == nOwnAgentsPerEnv
           n == Cardinality(Envs)
<1>2. /\ w \in weightsMPIrequests /\ w \in WeightIDs /\ nEpisodes \in Nat
      /\ a \in Nat \ {0} /\ n \in Nat \ {0} /\ lastWorkLoadStarted \in Nat
  BY <1>1, EnvFacts DEF TypeOK, populationTypeOK
<1>3. PICK s \in Nat : s = Since(w)
  BY <1>2, SinceFacts
<1>4. PICK t \in Nat : t = SumOf(Unstored, Envs)
  BY UnderWay
<1>5. nEpisodes + t <= a * (n + s)
  BY <1>2, <1>3, <1>4 DEF AllUsed
<1>6. CASE Starts(e)
  <2>1. SumOf(Unstored, Envs)' = t + a
    <3>1. Unstored' = [Unstored EXCEPT ![e] = a] /\ Unstored[e] = 0
      BY <1>6 DEF Starts
    <3>2. SumOf(Unstored, Envs)' = t - Unstored[e] + a
      BY <1>0, <1>4, <3>1, UnderWayNext
    <3>3. t - 0 + a = t + a
      BY <1>2
    <3> QED BY <3>1, <3>2, <3>3
  <2>2. nEpisodes' = nEpisodes /\ w # NextID
    BY <1>6 DEF Starts
  <2>3. Since(w)' = s + 1
    BY <1>2, <1>3, <1>6, <2>2, SinceNext DEF Starts
  <2>4. a * (n + (s + 1)) = a * (n + s) + a /\ a * (n + s) \in Nat
    BY <1>2
  <2> QED BY <1>2, <1>5, <2>1, <2>2, <2>3, <2>4
<1>7. CASE Stores(e)
  <2>1. SumOf(Unstored, Envs)' = t - 1
    <3>1. Unstored' = [Unstored EXCEPT ![e] = Unstored[e] - 1]
      BY <1>7 DEF Stores
    <3>2. SumOf(Unstored, Envs)' = t - Unstored[e] + (Unstored[e] - 1) /\ Unstored[e] \in Int
      BY <1>0, <1>4, <3>1, UnderWayNext
    <3> QED BY <3>2
  <2>2. nEpisodes' = nEpisodes + 1 /\ lastWorkLoadStarted' = lastWorkLoadStarted
    BY <1>7 DEF Stores
  <2>3. Since(w)' = s
    BY <1>3, <2>2 DEF Since, NextID
  <2>4. a * (n + s) \in Nat
    BY <1>2
  <2> QED BY <1>2, <1>5, <2>1, <2>2, <2>3, <2>4
<1>8. CASE Evaluates(e) \/ GoesOn(e)
  <2>1. UNCHANGED <<Unstored, lastWorkLoadStarted, nEpisodes>>
    BY <1>8 DEF Evaluates, GoesOn
  <2>2. Since(w)' = s
    BY <1>3, <2>1 DEF Since, NextID
  <2>3. SumOf(Unstored, Envs)' = t
    <3>1. SumOf(Unstored, Envs)' = SumOf(Unstored', Envs)
      OBVIOUS
    <3> QED BY <1>4, <2>1, <3>1
  <2> QED BY <1>5, <2>1, <2>2, <2>3
<1> QED BY <1>0, <1>6, <1>7, <1>8

\* With several environments or a batch of several, a generation takes more turns than
\* can be had before every vector has come round.
LEMMA TurnsEnough ==
  ASSUME Cardinality(Envs) > 1 \/ BatchSize > 1
  PROVE  batchSize_local * ESpopSize >= Cardinality(Envs) + ESpopSize
<1> DEFINE n == Cardinality(Envs)
           b == batchSize_local
           p == ESpopSize
<1>1. /\ n \in Nat \ {0} /\ b \in Nat \ {0} /\ p \in Nat \ {0, 1} /\ b >= n
      /\ BatchSize \in Nat \ {0}
  BY EnvFacts, BatchFacts, OnPolicyAssumption
<1>2. n = 1 => b = BatchSize
  BY <1>1 DEF batchSize_local
<1> HIDE DEF n, b, p
<1>3. b >= 2 /\ (b = n \/ b > n \/ n = 1)
  BY <1>1, <1>2 DEF n
<1>4. b * p >= n + p
  <2>1. b - 1 \in Nat /\ p - 1 \in Nat /\ b - 2 \in Nat /\ p - 2 \in Nat
    BY <1>1, <1>3
  <2>2. (b - 1) * (p - 1) >= 1
    <3>1. \A i, j \in Nat \ {0} : i * j >= 1
      OBVIOUS
    <3> QED BY <1>1, <1>3, <3>1
  <2>3. (b - 1) * (p - 1) = b * p - b - p + 1 /\ b * p \in Int
    BY <1>1
  <2> QED BY <1>1, <2>2, <2>3
<1> QED BY <1>4 DEF n, b, p

LEMMA UsedWhenFull ==
  ASSUME Cardinality(Envs) > 1 \/ BatchSize > 1, TypeOK, Started, algo = "CMA", AllUsed,
         nEpisodes >= nSeqPerStep
  PROVE  weightsMPIrequests = {}
<1> SUFFICES ASSUME NEW w \in weightsMPIrequests PROVE FALSE
  OBVIOUS
<1> DEFINE a == nOwnAgentsPerEnv
           n == Cardinality(Envs)
           p == ESpopSize
           b == batchSize_local
<1>1. /\ w \in WeightIDs /\ nEpisodes \in Nat /\ a \in Nat \ {0} /\ n \in Nat \ {0}
      /\ p \in Nat \ {0, 1} /\ b \in Nat \ {0} /\ lastWorkLoadStarted \in Nat
  BY EnvFacts, BatchFacts DEF TypeOK, populationTypeOK
<1>2. PICK s \in 0 .. p - 1 : s = Since(w)
  BY <1>1, SinceFacts
<1>3. PICK t \in Nat : t = SumOf(Unstored, Envs)
  BY UnderWay
<1>4. nEpisodes + t <= a * (n + s)
  BY <1>2, <1>3 DEF AllUsed
<1>5. PICK q \in Nat : q = b * p /\ q >= n + p
  <2>1. b * p \in Nat
    BY <1>1
  <2> QED BY <2>1, TurnsEnough
<1>6. nSeqPerStep = a * q
  BY <1>5 DEF nSeqPerStep, workLoadSize
<1> HIDE DEF a, n, p, b
<1>7. a * q >= a * (n + s) + a /\ a * (n + s) \in Int
  <2>1. q - (n + s) - 1 \in Nat
    BY <1>1, <1>2, <1>5
  <2>2. a * (q - (n + s) - 1) >= 0
    BY <1>1, <2>1
  <2>3. a * (q - (n + s) - 1) = a * q - a * (n + s) - a
    BY <1>1, <1>2
  <2>4. a * q \in Int /\ a * (n + s) \in Int /\ a \in Int
    BY <1>1, <1>2
  <2> QED BY <2>2, <2>3, <2>4
<1>8. a * q \in Int
  BY <1>1
<1> QED BY <1>1, <1>3, <1>4, <1>6, <1>7, <1>8

LEMMA MainUsed ==
  ASSUME Cardinality(Envs) > 1 \/ BatchSize > 1,
         TypeOK, Started, TypeOK', Started', algo = "CMA", AllUsed, Main
  PROVE  AllUsed'
<1>0. UNCHANGED <<algo, time, turn>> /\ nEpisodes \in Nat /\ nSeqPerStep \in Nat
  BY BatchFacts DEF Main, stepInit, stepMainPPO, stepMainCMA, resetLoss,
     applyEpisodesRemovalAlgo, apply_update, stepComplete, handlerVars, TypeOK
<1>1. UNCHANGED Unstored
  BY <1>0 DEF Unstored
<1>2. SumOf(Unstored, Envs)' = SumOf(Unstored, Envs)
  <2>1. SumOf(Unstored, Envs)' = SumOf(Unstored', Envs)
    OBVIOUS
  <2> QED BY <1>1, <2>1
<1>3. ASSUME weightsMPIrequests' = {} PROVE AllUsed'
  BY <1>3 DEF AllUsed
<1>4. CASE stepInit
  <2>1. UNCHANGED <<lastWorkLoadStarted, nEpisodes, mpc, weightsMPIrequests>>
        /\ algoSubStepID' = 0 /\ mpc = "tasks"
    BY <1>4 DEF stepInit, dataVars, workVars, populationVars
  <2>2. \A w : Since(w)' = Since(w)
    BY <2>1 DEF Since, NextID
  <2> QED BY <1>0, <1>2, <2>1, <2>2 DEF AllUsed
<1>5. CASE stepMainPPO
  BY <1>5 DEF stepMainPPO
<1>6. CASE stepMainCMA
  <2>1. ~(nEpisodes < nSeqPerStep) /\ UNCHANGED weightsMPIrequests
    BY <1>6 DEF stepMainCMA, blockGradientUpdates, workVars, populationVars
  <2>2. nEpisodes >= nSeqPerStep
    BY <1>0, <2>1
  <2> QED BY <1>3, <2>1, <2>2, UsedWhenFull
<1>7. CASE resetLoss \/ applyEpisodesRemovalAlgo \/ apply_update
  <2>1. UNCHANGED weightsMPIrequests /\ (mpc # "tasks" \/ algoSubStepID = 1)
    BY <1>7 DEF resetLoss, applyEpisodesRemovalAlgo, apply_update, drawSamples, workVars,
       populationVars
  <2> QED BY <1>3, <2>1 DEF AllUsed
<1>8. CASE stepComplete
  <2>1. /\ startAllGather(nGradSteps + 1) /\ nEpisodes' = 0
        /\ lastWorkLoadStarted' = lastWorkLoadStarted /\ mpc' = "tasks" /\ algoSubStepID' = 0
    BY <1>8 DEF stepComplete, clearAll
  <2>2. weightsMPIrequests' \subseteq WeightIDs
    BY <2>1 DEF startAllGather
  <2>3. ASSUME NEW w \in weightsMPIrequests'
        PROVE  nEpisodes' + SumOf(Unstored, Envs)'
                 <= nOwnAgentsPerEnv * (Cardinality(Envs) + Since(w)')
    <3> DEFINE a == nOwnAgentsPerEnv
               n == Cardinality(Envs)
    <3>1. Since(w)' = Since(w)
      BY <2>1 DEF Since, NextID
    <3>2. PICK s \in Nat : s = Since(w)
      BY <2>2, SinceFacts DEF TypeOK
    <3>3. PICK t \in Nat : t = SumOf(Unstored, Envs) /\ t <= a * n
      BY UnderWay
    <3>4. a \in Nat /\ n \in Nat
      BY EnvFacts
    <3> HIDE DEF a, n
    <3>5. a * (n + s) = a * n + a * s /\ a * s \in Nat /\ a * n \in Nat
      BY <3>4
    <3>6. t <= a * (n + s)
      BY <3>3, <3>5
    <3> QED BY <1>2, <2>1, <3>1, <3>2, <3>3, <3>6 DEF a, n
  <2> QED BY <2>1, <2>3 DEF AllUsed
<1> QED BY <1>4, <1>5, <1>6, <1>7, <1>8 DEF Main

\* Every vector has been played with before the returns of a generation are added up, on
\* any number of environments that may be at different paces, with episodes under way
\* from one generation to the next: an environment that is late with a vector leaves it
\* unevaluated only as long as the others have not taken a turn of every other one.
THEOREM EverySampleEvaluatedHolds == Spec => []EverySampleEvaluated
<1>1. Init => PopInv
  BY InitPop
<1>2. IInv /\ IInv' /\ PopInv /\ [Next]_vars => PopInv'
  <2> SUFFICES ASSUME IInv, IInv', PopInv, [Next]_vars, algo' = "CMA" PROVE PopInv'
    BY DEF PopInv
  <2>1. CASE UNCHANGED vars
    <3>1. UNCHANGED <<algo, mpc, nEpisodes, allN, hpc, turn, time, weightIDs, Ns,
                      lastWorkLoadStarted, algoSubStepID>>
      BY <2>1 DEF vars, handlerVars, dataVars, workVars, stepVars
    <3>2. UNCHANGED Unstored /\ (\A e : Storing(e)' = Storing(e)) /\ (\A w : Since(w)' = Since(w))
      BY <3>1 DEF Unstored, Storing, Since, NextID
    <3>3. \A w : Holders(w)' = Holders(w) /\ Others(w)' = Others(w)
      BY <3>1, <3>2 DEF Holders, Others
    <3>4. \A w : Turns(w)' = Turns(w) /\ Accounted(w)' = Accounted(w)
                 /\ Unevaluated(w)' = Unevaluated(w)
      BY <3>1, <3>2, <3>3 DEF Turns, Accounted, NewEpisodes, Unevaluated
    <3>5. Rotation' = Rotation /\ Closed' = Closed /\ nSeqPerStep' = nSeqPerStep
      BY <3>1, <3>2 DEF Rotation, Closed, nSeqPerStep, workLoadSize, batchSize_local
    <3> QED BY <3>1, <3>4, <3>5 DEF PopInv
  <2>2. CASE Next
    <3>1. algo = "CMA"
      BY <2>2 DEF Next, Handler, Gate, selectAction, processTerminal, terminateCurrentEpisode,
         Main, stepInit, stepMainPPO, stepMainCMA, resetLoss, applyEpisodesRemovalAlgo,
         apply_update, stepComplete
    <3> QED BY <2>2, <3>1, HandlerPop, MainPop DEF Next, IInv
  <2> QED BY <2>1, <2>2
<1>3. PopInv /\ IInv => EverySampleEvaluated
  <2>1. IInv /\ mpc = "reset" => algo = "CMA"
    BY DEF IInv, Started
  <2> QED BY <2>1 DEF PopInv, EverySampleEvaluated
<1> QED BY <1>1, <1>2, <1>3, Inductive, PTL DEF Spec

\* No gather is pending when the vectors of the next generation are drawn, although nobody
\* waits for one there, and whenever the main thread is not drawing, all that may be used
\* is of the current generation (a thread that uses a vector while it is drawn is not
\* spoken of).  This relies on a generation being long enough: with a single environment
\* and a batch of one, an episode too many that is removed lets the environment play on
\* while a vector that nobody has used since the last gather is drawn over.
THEOREM SamplesWholeHolds ==
  Cardinality(Envs) > 1 \/ BatchSize > 1 => (Spec => []SamplesWhole)
<1> SUFFICES ASSUME Cardinality(Envs) > 1 \/ BatchSize > 1 PROVE Spec => []SamplesWhole
  OBVIOUS
<1>1. Init => Vectors /\ AllUsed
  BY InitVectors, InitUsed
<1>2. IInv /\ IInv' /\ AllUsed /\ [Next]_vars => AllUsed'
  <2> SUFFICES ASSUME IInv, IInv', AllUsed, [Next]_vars, algo' = "CMA" PROVE AllUsed'
    BY DEF AllUsed
  <2>1. CASE UNCHANGED vars
    <3>1. UNCHANGED <<algo, mpc, nEpisodes, turn, time, lastWorkLoadStarted, algoSubStepID,
                      weightsMPIrequests>>
      BY <2>1 DEF vars, handlerVars, dataVars, workVars, stepVars, populationVars
    <3>2. UNCHANGED Unstored /\ \A w : Since(w)' = Since(w)
      BY <3>1 DEF Unstored, Since, NextID
    <3> QED BY <3>1, <3>2 DEF AllUsed
  <2>2. CASE Next
    <3>1. algo = "CMA"
      BY <2>2 DEF Next, Handler, Gate, selectAction, processTerminal, terminateCurrentEpisode,
         Main, stepInit, stepMainPPO, stepMainCMA, resetLoss, applyEpisodesRemovalAlgo,
         apply_update, stepComplete
    <3> QED BY <2>2, <3>1, HandlerUsed, MainUsed DEF Next, IInv
  <2> QED BY <2>1, <2>2
<1>3. IInv /\ Vectors /\ [Next]_vars => Vectors'
  BY VectorsKept
<1>4. Vectors /\ AllUsed => SamplesWhole
  BY DEF Vectors, AllUsed, SamplesWhole
<1> QED BY <1>1, <1>2, <1>3, <1>4, Inductive, PTL DEF Spec
==============================================================================
