--------------------------- MODULE AutotuneProofs ---------------------------
(***************************************************************************)
(* Theorems about Autotune, for every plugin, every number of scenarios    *)
(* and every number of restarts; those about results need a plugin that    *)
(* keeps PluginContract.                                                   *)
(***************************************************************************)
EXTENDS Autotune, FiniteSetTheorems, TLAPS

-----------------------------------------------------------------------------
(* The inductive invariant.                                                *)

\* The states in which the driver may be about to send e.
StatesAt(e) ==
    CASE e = "initialize_plugin"     -> {"InitialState"}
      [] e = "start_tuning_step"     -> {"InitializingPlugin", "FinishingTuningStep"}
      [] e = "perform_analysis"      -> {"StartingTuningStep"}
      [] e = "create_scenarios"      -> {"StartingTuningStep", "PerformingAnalysis", "RunningPhaseExperiments"}
      [] e = "prepare_scenarios"     -> {"CreatingScenarios", "RunningPhaseExperiments"}
      [] e = "define_experiment"     -> {"PreparingScenarios", "RunningPhaseExperiments"}
      [] e = "consider_restart"      -> {"DefiningExperiments"}
      [] e = "run_phase_experiments" -> {"ConsideringApplicationRestart", "RunningPhaseExperiments"}
      [] e = "searchFinished"        -> {"RunningPhaseExperiments"}
      [] e = "finish_tuning_step"    -> {"RunningPhaseExperiments"}
      [] e = "create_tuning_advice"  -> {"FinishingTuningStep"}
      [] e = "finalize_autotuning"   -> {"CreatingTuningAdvice"}
      [] OTHER                       -> {"FinalState"}

\* The driver and the state machine agree, and an analysis is only asked for
\* where the contract lets it be asked for.
ControlOK ==
    /\ state \in StatesAt(pc)
    /\ pc = "perform_analysis" => Analysis = "first"

\* No request waits in the buffer between two events, and the network runs
\* whenever an instrumented application may be needed.
NetworkOK ==
    /\ buffer = <<>>
    /\ ~is_instrumented => FALSE \in Modes
    /\ pc # "initialize_plugin" /\ just_started => Modes = {FALSE}
    /\ pc = "run_phase_experiments" /\ is_instrumented => TRUE \in Modes

\* Where the driver is when a pool is not empty; an experiment of an application
\* that is not instrumented has one scenario.
PoolsOK ==
    /\ pc \notin {"consider_restart", "run_phase_experiments"} => esp = {}
    /\ pc = "run_phase_experiments" /\ ~is_instrumented => esp = {}
    /\ FALSE \in Modes => \A i, j \in esp : i = j
    /\ pc \notin {"define_experiment", "consider_restart", "run_phase_experiments"} => psp = {}
    /\ pc \notin {"prepare_scenarios", "define_experiment", "consider_restart", "run_phase_experiments"}
          => csp = {}

\* A request whose scenarios are not executed has its scenarios among the
\* finished ones already.  When no restart is needed, their results are there.
RequestOK ==
    ~executed => /\ pc = "run_phase_experiments" /\ is_instrumented
                 /\ esp = {}
                 /\ request \subseteq fsp
                 /\ ~need_restart => \A i \in request : Measured(i)

\* Every finished scenario has a result, or is in such a request.
MeasuredOK == \A i \in fsp : Measured(i) \/ (~executed /\ i \in request)

\* The scenarios that still wait for a result are of the current search step.
StepOK ==
    /\ \A i \in csp \cup psp \cup esp : created[i] = search_step
    /\ ~executed => \A i \in request : created[i] = search_step

IInv == ControlOK /\ NetworkOK /\ PoolsOK /\ RequestOK /\ MeasuredOK /\ StepOK /\ ResultsUnderOwnStep
-----------------------------------------------------------------------------
(* Lemmas about the definitions.                                           *)

\* The events of transition_table.
LEMMA EventNames ==
    Events = {"initialize_plugin", "start_tuning_step", "perform_analysis", "create_scenarios",
              "prepare_scenarios", "define_experiment", "consider_restart", "run_phase_experiments",
              "finish_tuning_step", "create_tuning_advice", "finalize_autotuning"}
BY DEF Events, Rows

\* A row leads from a state to a state.
LEMMA RowStates == \A r \in Rows : r[1] \in States /\ r[3] \in States
BY DEF States

\* pop takes scenarios of the pool.
LEMMA LowestSubset == \A pool, k : Lowest(pool, k) \subseteq pool
BY DEF Lowest

-----------------------------------------------------------------------------
(* Types.                                                                  *)

\* An event the machine takes leads to one of its states.
LEMMA ProcessEventType == \A e : ProcessEvent(e) => state' \in States
BY RowStates DEF ProcessEvent

\* Results of scenarios in s have the type of srp.
LEMMA ResultsType ==
    ASSUME NEW s, NEW t, s \subseteq t, search_step \in Nat
    PROVE  Results(s) \subseteq [scenario : t, step : Nat]
BY DEF Results

\* What an event loop leaves in need_restart, the counter and the buffer.
LEMMA LoopType ==
    ASSUME NEW b, LoopAndRestart(b), restarts \in Nat, need_restart \in BOOLEAN
    PROVE  buffer' = <<>> /\ need_restart' \in BOOLEAN /\ restarts' \in Nat
<1>1. buffer' = <<>> /\ restarts' \in Nat
  BY DEF LoopAndRestart
<1>2. need_restart' \in BOOLEAN
  BY Zenon DEF LoopAndRestart, SecondLoop
<1> QED
  BY <1>1, <1>2

\* The same, with the start of the network.
LEMMA StartType ==
    ASSUME NEW b, StartNetwork(b), restarts \in Nat, need_restart \in BOOLEAN
    PROVE  /\ buffer' = <<>> /\ need_restart' \in BOOLEAN /\ restarts' \in Nat
           /\ just_started' \in BOOLEAN
<1>1. buffer' = <<>> /\ need_restart' \in BOOLEAN /\ restarts' \in Nat
  BY LoopType DEF StartNetwork
<1>2. just_started' \in BOOLEAN
  BY Zenon DEF StartNetwork
<1> QED
  BY <1>1, <1>2

\* What run_phase_experiments does with the experiment's scenarios.
LEMMA CreateRequestType ==
    ASSUME TypeOK, CreateRequest, UNCHANGED nextId
    PROVE  request' \subseteq Ids /\ esp' \subseteq Ids /\ fsp' \subseteq Ids
BY DEF TypeOK, CreateRequest, Ids

\* The agents are sent scenarios that exist.
LEMMA SentType ==
    ASSUME NEW b \in Seq(SUBSET Ids)
    PROVE  Sent(b) \subseteq Ids
BY DEF Sent

\* Every variable keeps its type, for any plugin: in particular pools, requests
\* and results only ever name scenarios that were created (frontend_statemachine.cc).
THEOREM TypeCorrect == Spec => []TypeOK
<1>1. Init => TypeOK
  <2> SUFFICES ASSUME Init PROVE TypeOK
    OBVIOUS
  <2>1. /\ firstSearch \in BOOLEAN /\ executed \in BOOLEAN /\ need_restart \in BOOLEAN
        /\ is_instrumented \in BOOLEAN /\ just_started \in BOOLEAN
    BY Zenon DEF Init
  <2>2. state \in States
    BY DEF Init, States, Rows
  <2>3. nextId \in 0..MaxScenarios /\ Ids = {}
    BY AutotuneAssumption DEF Init, Ids
  <2>4. created \in [Ids -> Nat] /\ buffer \in Seq(SUBSET Ids)
    BY <2>3 DEF Init
  <2> QED
    BY <2>1, <2>2, <2>3, <2>4, EventNames DEF Init, TypeOK
<1>2. TypeOK /\ [Next]_vars => TypeOK'
  <2> SUFFICES ASSUME TypeOK, [Next]_vars PROVE TypeOK'
    OBVIOUS
  <2>0. /\ Ids = 0..(nextId - 1) /\ nextId \in 0..MaxScenarios
        /\ nextId' = nextId => Ids' = Ids
        /\ <<>> \in Seq(SUBSET Ids)
    BY DEF TypeOK, Ids
  <2>1. CASE InitializePlugin
    <3>1. /\ buffer' \in Seq(SUBSET Ids) /\ need_restart' \in BOOLEAN
          /\ restarts' \in Nat /\ just_started' \in BOOLEAN
      <4>1. CASE StartNetwork(buffer)
        BY <2>0, <4>1, StartType, Zenon DEF TypeOK
      <4>2. CASE UNCHANGED <<buffer, need_restart, restarts, just_started>>
        BY <4>2, Zenon DEF TypeOK
      <4> QED
        BY <2>1, <4>1, <4>2 DEF InitializePlugin
    <3> QED
      BY <2>0, <2>1, <3>1, ProcessEventType, EventNames
      DEF TypeOK, InitializePlugin, poolVars, scenarioVars
  <2>2. CASE StartTuningStep
    BY <2>0, <2>2, ProcessEventType, EventNames
    DEF TypeOK, StartTuningStep, NextSearchStep, poolVars, scenarioVars, agentVars, modeVars
  <2>3. CASE PerformAnalysis
    <3>1. Push(AnalysisRequest) \in Seq(SUBSET Ids)
      BY DEF TypeOK, Push, AnalysisRequest
    <3>2. /\ buffer' \in Seq(SUBSET Ids) /\ need_restart' \in BOOLEAN
          /\ restarts' \in Nat /\ just_started' \in BOOLEAN
      <4>1. CASE StartNetwork(Push(AnalysisRequest))
        BY <2>0, <4>1, StartType, Zenon DEF TypeOK
      <4>2. CASE LoopAndRestart(Push(AnalysisRequest)) /\ UNCHANGED just_started
        <5>1. buffer' \in Seq(SUBSET Ids) /\ need_restart' \in BOOLEAN /\ restarts' \in Nat
          BY <2>0, <4>2, LoopType, Zenon DEF TypeOK
        <5> QED
          BY <4>2, <5>1, Zenon DEF TypeOK
      <4>3. CASE /\ buffer' = Push(AnalysisRequest)
                 /\ UNCHANGED <<need_restart, restarts, just_started>>
        BY <3>1, <4>3, Zenon DEF TypeOK
      <4> QED
        BY <2>3, <4>1, <4>2, <4>3 DEF PerformAnalysis
    <3> QED
      BY <2>0, <2>3, <3>2, ProcessEventType, EventNames
      DEF TypeOK, PerformAnalysis, poolVars, scenarioVars
  <2>4. CASE CreateScenarios
    <3>1. PICK n \in 1..(MaxScenarios - nextId) :
             /\ csp' = csp \cup nextId..(nextId + n - 1)
             /\ nextId' = nextId + n
             /\ created' = [i \in 0..(nextId + n - 1) |->
                               IF i < nextId THEN created[i] ELSE search_step]
      BY <2>4 DEF CreateScenarios
    <3>2. Ids \subseteq Ids' /\ nextId' \in 0..MaxScenarios
      BY <2>0, <3>1, AutotuneAssumption DEF Ids
    <3>3. created' \in [Ids' -> Nat]
      BY <2>0, <3>1 DEF TypeOK, Ids
    <3>4. csp' \subseteq Ids' /\ pc' \in Events \cup {"searchFinished"} /\ search_step' \in Nat
      BY <2>0, <2>4, <3>1, <3>2, EventNames DEF TypeOK, CreateScenarios, ContinueWith, Ids
    <3>5. buffer' \in Seq(SUBSET Ids')
      BY <2>4, <3>2 DEF TypeOK, CreateScenarios, agentVars
    <3>6. srp' \subseteq [scenario : Ids', step : Nat]
      BY <2>4, <3>2 DEF TypeOK, CreateScenarios
    <3> QED
      BY <2>4, <3>2, <3>3, <3>4, <3>5, <3>6, ProcessEventType
      DEF TypeOK, CreateScenarios, agentVars, modeVars
  <2>5. CASE PrepareScenarios
    BY <2>0, <2>5, ProcessEventType, EventNames, LowestSubset
    DEF TypeOK, PrepareScenarios, scenarioVars, agentVars, modeVars
  <2>6. CASE DefineExperiment
    BY <2>0, <2>6, ProcessEventType, EventNames, LowestSubset
    DEF TypeOK, DefineExperiment, scenarioVars, agentVars, modeVars
  <2>7. CASE ConsiderRestartInstrumented
    <3>1. /\ buffer' \in Seq(SUBSET Ids) /\ need_restart' \in BOOLEAN
          /\ restarts' \in Nat /\ just_started' \in BOOLEAN
      <4>1. CASE StartNetwork(buffer)
        BY <2>0, <4>1, StartType, Zenon DEF TypeOK
      <4>2. CASE /\ buffer' = <<>> /\ restarts' = restarts + 1
                 /\ SecondLoop(buffer) /\ UNCHANGED just_started
        <5>1. need_restart' \in BOOLEAN /\ just_started' \in BOOLEAN
          BY <4>2, Zenon DEF TypeOK, SecondLoop
        <5> QED
          BY <4>2, <5>1 DEF TypeOK
      <4>3. CASE UNCHANGED <<just_started, buffer, need_restart, restarts>>
        BY <4>3, Zenon DEF TypeOK
      <4> QED
        BY <2>7, <4>1, <4>2, <4>3 DEF ConsiderRestartInstrumented
    <3> QED
      BY <2>0, <2>7, <3>1, ProcessEventType, EventNames
      DEF TypeOK, ConsiderRestartInstrumented, poolVars, scenarioVars
  <2>8. CASE ConsiderRestartUninstrumented
    <3>1. Lowest(esp, 1) \subseteq Ids
      BY LowestSubset DEF TypeOK
    <3>2. Results(Lowest(esp, 1)) \subseteq [scenario : Ids, step : Nat]
      BY <3>1, ResultsType DEF TypeOK
    <3> QED
      BY <2>0, <2>8, <3>1, <3>2, ProcessEventType, EventNames
      DEF TypeOK, ConsiderRestartUninstrumented, scenarioVars, agentVars
  <2>9. CASE RunPhaseExecuted
    <3> DEFINE b == IF executed THEN Push(esp) ELSE buffer
    <3>1. Results(Sent(b)) \subseteq [scenario : Ids, step : Nat]
      <4>1. b \in Seq(SUBSET Ids)
        BY DEF TypeOK, Push
      <4> QED
        BY <4>1, SentType, ResultsType DEF TypeOK
    <3>2. srp' = srp \cup Results(Sent(b))
      BY <2>9 DEF RunPhaseExecuted
    <3>3. UNCHANGED <<nextId, created>> /\ CreateRequest
      BY <2>9 DEF RunPhaseExecuted, scenarioVars
    <3>4. pc' \in Events \cup {"searchFinished"} /\ search_step' \in Nat
      BY <2>9, EventNames DEF TypeOK, RunPhaseExecuted, AfterExperiment, ContinueWith
    <3>5. state' \in States
      BY <2>9, ProcessEventType DEF RunPhaseExecuted
    <3> HIDE DEF b
    <3> QED
      BY <2>0, <2>9, <3>1, <3>2, <3>3, <3>4, <3>5, CreateRequestType
      DEF TypeOK, RunPhaseExecuted, modeVars
  <2>10. CASE RunPhaseRestart
    <3> DEFINE b == IF executed THEN Push(esp) ELSE buffer
    <3>1. b \in Seq(SUBSET Ids)
      BY DEF TypeOK, Push
    <3>2. PICK first \in SUBSET Sent(b), second \in SUBSET request' :
             /\ SecondLoop(<<request'>>)
             /\ srp' = srp \cup Results(first) \cup Results(second)
      BY <2>10 DEF RunPhaseRestart
    <3>3. UNCHANGED <<nextId, created>> /\ CreateRequest
      BY <2>10 DEF RunPhaseRestart, scenarioVars
    <3>4. request' \subseteq Ids /\ esp' \subseteq Ids /\ fsp' \subseteq Ids
      BY <3>3, CreateRequestType
    <3>5. first \subseteq Ids /\ second \subseteq Ids
      BY <3>1, <3>4, SentType
    <3>6. /\ Results(first) \subseteq [scenario : Ids, step : Nat]
          /\ Results(second) \subseteq [scenario : Ids, step : Nat]
      BY <3>5, ResultsType DEF TypeOK
    <3>7. state' \in States
      BY <2>10, ProcessEventType DEF RunPhaseRestart
    <3>8. need_restart' \in BOOLEAN /\ executed' \in BOOLEAN
      BY <2>10, <3>2, Zenon DEF SecondLoop, RunPhaseRestart
    <3> HIDE DEF b
    <3> QED
      BY <2>0, <2>10, <3>2, <3>3, <3>4, <3>6, <3>7, <3>8, EventNames
      DEF TypeOK, RunPhaseRestart, modeVars
  <2>11. CASE RunPhaseUninstrumented
    BY <2>0, <2>11, ProcessEventType, EventNames
    DEF TypeOK, RunPhaseUninstrumented, AfterExperiment, ContinueWith,
        poolVars, scenarioVars, agentVars, modeVars
  <2>12. CASE SearchFinished
    BY <2>0, <2>12, EventNames
    DEF TypeOK, SearchFinished, NextSearchStep, poolVars, scenarioVars, agentVars, modeVars
  <2>13. CASE SearchThrows \/ NoTransition
    BY <2>0, <2>13 DEF TypeOK, SearchThrows, NoTransition, poolVars, scenarioVars, agentVars, modeVars
  <2>14. CASE FinishTuningStep \/ CreateTuningAdvice \/ FinalizeAutotuning
    BY <2>0, <2>14, ProcessEventType, EventNames
    DEF TypeOK, FinishTuningStep, CreateTuningAdvice, FinalizeAutotuning,
        poolVars, scenarioVars, agentVars, modeVars
  <2>15. CASE UNCHANGED vars
    BY <2>0, <2>15 DEF TypeOK, vars, poolVars, scenarioVars, agentVars, modeVars
  <2> QED
    BY <2>1, <2>2, <2>3, <2>4, <2>5, <2>6, <2>7, <2>8, <2>9, <2>10, <2>11, <2>12, <2>13, <2>14, <2>15
    DEF Next, Driver
<1> QED
  BY <1>1, <1>2, PTL DEF Spec

-----------------------------------------------------------------------------
(* Pools.                                                                  *)

\* The pools always partition the scenarios created, for any plugin and any
\* sequence of restarts: pop and push of the actions move scenarios and never
\* lose or duplicate one (ScenarioPool.cc, createStrategyRequest).
THEOREM PoolsPartition == Spec => []EachInOnePool
<1>1. Init => EachInOnePool
  BY DEF Init, EachInOnePool, Ids
<1>2. TypeOK /\ EachInOnePool /\ [Next]_vars => EachInOnePool'
  <2> SUFFICES ASSUME TypeOK, EachInOnePool, [Next]_vars PROVE EachInOnePool'
    OBVIOUS
  <2>0. nextId' = nextId => Ids' = Ids
    BY DEF Ids
  <2>1. CASE UNCHANGED <<csp, psp, esp, fsp, nextId>>
    BY <2>0, <2>1 DEF EachInOnePool
  <2>2. CASE CreateScenarios
    <3>1. PICK n \in 1..(MaxScenarios - nextId) :
             csp' = csp \cup nextId..(nextId + n - 1) /\ nextId' = nextId + n
      BY <2>2 DEF CreateScenarios
    <3>2. Ids' = Ids \cup nextId..(nextId + n - 1) /\ Ids \cap nextId..(nextId + n - 1) = {}
      BY <3>1, AutotuneAssumption DEF TypeOK, Ids
    <3> QED
      BY <2>2, <3>1, <3>2 DEF CreateScenarios, EachInOnePool
  <2>3. CASE PrepareScenarios
    BY <2>0, <2>3, LowestSubset DEF PrepareScenarios, EachInOnePool, scenarioVars
  <2>4. CASE DefineExperiment
    BY <2>0, <2>4, LowestSubset DEF DefineExperiment, EachInOnePool, scenarioVars
  <2>5. CASE ConsiderRestartUninstrumented
    BY <2>0, <2>5, LowestSubset DEF ConsiderRestartUninstrumented, EachInOnePool, scenarioVars
  <2>6. CASE RunPhaseExecuted \/ RunPhaseRestart
    <3>1. CreateRequest /\ UNCHANGED <<csp, psp, nextId>>
      BY <2>6 DEF RunPhaseExecuted, RunPhaseRestart, scenarioVars
    <3> QED
      BY <2>0, <3>1 DEF CreateRequest, EachInOnePool
  <2>7. CASE InitializePlugin \/ StartTuningStep \/ PerformAnalysis
    BY <2>1, <2>7 DEF InitializePlugin, StartTuningStep, PerformAnalysis, poolVars, scenarioVars
  <2>8. CASE ConsiderRestartInstrumented \/ RunPhaseUninstrumented
    BY <2>1, <2>8 DEF ConsiderRestartInstrumented, RunPhaseUninstrumented, poolVars, scenarioVars
  <2>9. CASE SearchFinished \/ SearchThrows \/ NoTransition
    BY <2>1, <2>9 DEF SearchFinished, SearchThrows, NoTransition, poolVars, scenarioVars
  <2>10. CASE FinishTuningStep \/ CreateTuningAdvice \/ FinalizeAutotuning
    BY <2>1, <2>10 DEF FinishTuningStep, CreateTuningAdvice, FinalizeAutotuning, poolVars, scenarioVars
  <2>11. CASE UNCHANGED vars
    BY <2>1, <2>11 DEF vars, poolVars, scenarioVars
  <2> QED
    BY <2>2, <2>3, <2>4, <2>5, <2>6, <2>7, <2>8, <2>9, <2>10, <2>11 DEF Next, Driver
<1> QED
  BY <1>1, <1>2, TypeCorrect, PTL DEF Spec

-----------------------------------------------------------------------------
(* Results.                                                                *)

\* One pop takes the only scenario of a pool that has one.
LEMMA LowestOfOne ==
    ASSUME NEW pool, pool \subseteq Nat, \A i, j \in pool : i = j
    PROVE  Lowest(pool, 1) = pool
<1> SUFFICES ASSUME NEW i \in pool PROVE Cardinality({j \in pool : j < i}) < 1
  BY DEF Lowest
<1>1. \A j \in pool : ~(j < i)
  <2> SUFFICES ASSUME NEW j \in pool PROVE ~(j < i)
    OBVIOUS
  <2>1. j = i /\ i \in Nat
    OBVIOUS
  <2> QED
    BY <2>1
<1>2. {j \in pool : j < i} = {}
  BY <1>1
<1>3. Cardinality({}) = 0
  BY FS_EmptySet
<1> QED
  BY <1>2, <1>3

\* One pop takes at most one scenario.
LEMMA LowestIsOne ==
    ASSUME NEW pool, NEW n \in Nat, pool \subseteq 0..n
    PROVE  \A i, j \in Lowest(pool, 1) : i = j
<1> SUFFICES ASSUME NEW i \in Lowest(pool, 1), NEW j \in Lowest(pool, 1), i < j PROVE FALSE
  BY DEF Lowest
<1> DEFINE S == {k \in pool : k < j}
<1>1. IsFiniteSet(S)
  <2>1. IsFiniteSet(0..n)
    BY FS_Interval
  <2>2. S \subseteq 0..n
    OBVIOUS
  <2> QED
    BY <2>1, <2>2, FS_Subset
<1>2. i \in S
  BY DEF Lowest
<1>3. Cardinality(S) \in Nat /\ Cardinality(S) # 0
  BY <1>1, <1>2, FS_CardinalityType, FS_EmptySet
<1>4. Cardinality(S) < 1
  BY DEF Lowest
<1> QED
  BY <1>3, <1>4

\* The state an event leads to does not depend on the one it is taken in.
LEMMA EventTarget ==
    /\ ProcessEvent("initialize_plugin") => state' = "InitializingPlugin"
    /\ ProcessEvent("start_tuning_step") => state' = "StartingTuningStep"
    /\ ProcessEvent("perform_analysis") => state' = "PerformingAnalysis"
    /\ ProcessEvent("create_scenarios") => state' = "CreatingScenarios"
    /\ ProcessEvent("prepare_scenarios") => state' = "PreparingScenarios"
    /\ ProcessEvent("define_experiment") => state' = "DefiningExperiments"
    /\ ProcessEvent("consider_restart") => state' = "ConsideringApplicationRestart"
    /\ ProcessEvent("run_phase_experiments") => state' = "RunningPhaseExperiments"
    /\ ProcessEvent("finish_tuning_step") => state' = "FinishingTuningStep"
    /\ ProcessEvent("create_tuning_advice") => state' = "CreatingTuningAdvice"
    /\ ProcessEvent("finalize_autotuning") => state' = "FinalState"
BY DEF ProcessEvent, Rows

\* Where the driver may send an event, the table has a row for it.
LEMMA ControlMeansValid == ControlOK => NoInvalidEvent
<1> SUFFICES ASSUME ControlOK, pc \in Events PROVE \E r \in Rows : r[1] = state /\ r[2] = pc
  BY DEF NoInvalidEvent
<1> DEFINE Row(to) == <<state, pc, to>>
<1>1. CASE pc = "initialize_plugin"
  <2>1. Row("InitializingPlugin") \in Rows
    BY <1>1 DEF ControlOK, StatesAt, Rows
  <2> QED
    BY <2>1
<1>2. CASE pc = "start_tuning_step"
  <2>1. Row("StartingTuningStep") \in Rows
    BY <1>2 DEF ControlOK, StatesAt, Rows
  <2> QED
    BY <2>1
<1>3. CASE pc = "perform_analysis"
  <2>1. Row("PerformingAnalysis") \in Rows
    BY <1>3 DEF ControlOK, StatesAt, Rows
  <2> QED
    BY <2>1
<1>4. CASE pc = "create_scenarios"
  <2>1. Row("CreatingScenarios") \in Rows
    BY <1>4 DEF ControlOK, StatesAt, Rows
  <2> QED
    BY <2>1
<1>5. CASE pc = "prepare_scenarios"
  <2>1. Row("PreparingScenarios") \in Rows
    BY <1>5 DEF ControlOK, StatesAt, Rows
  <2> QED
    BY <2>1
<1>6. CASE pc = "define_experiment"
  <2>1. Row("DefiningExperiments") \in Rows
    BY <1>6 DEF ControlOK, StatesAt, Rows
  <2> QED
    BY <2>1
<1>7. CASE pc = "consider_restart"
  <2>1. Row("ConsideringApplicationRestart") \in Rows
    BY <1>7 DEF ControlOK, StatesAt, Rows
  <2> QED
    BY <2>1
<1>8. CASE pc = "run_phase_experiments"
  <2>1. Row("RunningPhaseExperiments") \in Rows
    BY <1>8 DEF ControlOK, StatesAt, Rows
  <2> QED
    BY <2>1
<1>9. CASE pc = "finish_tuning_step"
  <2>1. Row("FinishingTuningStep") \in Rows
    BY <1>9 DEF ControlOK, StatesAt, Rows
  <2> QED
    BY <2>1
<1>10. CASE pc = "create_tuning_advice"
  <2>1. Row("CreatingTuningAdvice") \in Rows
    BY <1>10 DEF ControlOK, StatesAt, Rows
  <2> QED
    BY <2>1
<1>11. CASE pc = "finalize_autotuning"
  <2>1. Row("FinalState") \in Rows
    BY <1>11 DEF ControlOK, StatesAt, Rows
  <2> QED
    BY <2>1
<1> QED
  BY <1>1, <1>2, <1>3, <1>4, <1>5, <1>6, <1>7, <1>8, <1>9, <1>10, <1>11, EventNames

\* A result stays a result.
LEMMA MeasuredStays ==
    ASSUME srp \subseteq srp'
    PROVE  \A i : Measured(i) => Measured(i)'
BY DEF Measured

\* The scenarios of the results that are pushed are measured.
LEMMA ResultsMeasure ==
    ASSUME NEW s, Results(s) \subseteq srp'
    PROVE  \A i \in s : Measured(i)'
<1> SUFFICES ASSUME NEW i \in s PROVE Measured(i)'
  OBVIOUS
<1>1. [scenario |-> i, step |-> search_step] \in srp'
  BY DEF Results
<1> QED
  BY <1>1 DEF Measured

\* The pools are empty and the finished scenarios measured when the plugin is
\* asked whether the search is finished.
LEMMA AllMeasured == EachInOnePool /\ IInv => EveryScenarioMeasured
BY DEF EachInOnePool, IInv, PoolsOK, RequestOK, MeasuredOK, EveryScenarioMeasured

\* An action that touches neither pools nor results nor requests, and that the
\* driver takes while all scenarios are finished, keeps all but ControlOK.
LEMMA QuietStep ==
    ASSUME IInv, UNCHANGED <<csp, psp, esp, fsp, srp, created, search_step, request, buffer, executed>>,
           UNCHANGED <<is_instrumented, just_started>>,
           pc \notin {"initialize_plugin", "prepare_scenarios", "define_experiment", "consider_restart",
                      "run_phase_experiments"},
           pc' \notin {"initialize_plugin", "run_phase_experiments"}
    PROVE  (NetworkOK /\ PoolsOK /\ RequestOK /\ MeasuredOK /\ StepOK /\ ResultsUnderOwnStep)'
<1>1. NetworkOK'
  BY DEF IInv, NetworkOK
<1>2. PoolsOK' /\ RequestOK'
  BY DEF IInv, PoolsOK, RequestOK
<1>3. MeasuredOK'
  BY DEF IInv, MeasuredOK, Measured
<1>4. StepOK' /\ ResultsUnderOwnStep'
  BY DEF IInv, StepOK, ResultsUnderOwnStep
<1> QED
  BY <1>1, <1>2, <1>3, <1>4

\* The inductive step.
LEMMA Induction ==
    ASSUME PluginContract, TypeOK, EachInOnePool, IInv, [Next]_vars
    PROVE  IInv'
<1>1. CASE InitializePlugin
  <2>1. ControlOK'
    BY <1>1, EventTarget DEF InitializePlugin, ControlOK, StatesAt
  <2>2. /\ UNCHANGED <<csp, psp, esp, fsp, srp, created, search_step, request, executed, is_instrumented>>
        /\ pc = "initialize_plugin" /\ pc' = "start_tuning_step"
    BY <1>1 DEF InitializePlugin, poolVars, scenarioVars, ProcessEvent
  <2>3. buffer' = <<>> /\ (just_started' => Modes = {FALSE})
    BY <1>1 DEF InitializePlugin, StartNetwork, LoopAndRestart, PluginContract, IInv, NetworkOK
  <2>4. NetworkOK'
    BY <2>2, <2>3 DEF IInv, NetworkOK
  <2>5. PoolsOK' /\ RequestOK'
    BY <2>2 DEF IInv, PoolsOK, RequestOK
  <2>6. MeasuredOK' /\ StepOK' /\ ResultsUnderOwnStep'
    BY <2>2 DEF IInv, MeasuredOK, Measured, StepOK, ResultsUnderOwnStep
  <2> QED
    BY <2>1, <2>4, <2>5, <2>6 DEF IInv
<1>2. CASE StartTuningStep
  <2>1. ControlOK'
    BY <1>2, EventTarget, AutotuneAssumption
    DEF StartTuningStep, NextSearchStep, ControlOK, StatesAt, PluginContract
  <2>2. (NetworkOK /\ PoolsOK /\ RequestOK /\ MeasuredOK /\ StepOK /\ ResultsUnderOwnStep)'
    BY <1>2, QuietStep
    DEF StartTuningStep, ProcessEvent, NextSearchStep, poolVars, scenarioVars, agentVars, modeVars
  <2> QED
    BY <2>1, <2>2 DEF IInv
<1>3. CASE PerformAnalysis
  <2>1. ControlOK'
    BY <1>3, EventTarget DEF PerformAnalysis, ControlOK, StatesAt
  <2>2. /\ UNCHANGED <<csp, psp, esp, fsp, srp, created, search_step, request, executed, is_instrumented>>
        /\ pc = "perform_analysis" /\ pc' = "create_scenarios"
    BY <1>3 DEF PerformAnalysis, poolVars, scenarioVars, ProcessEvent
  <2>3. is_instrumented /\ ~just_started
    BY <2>2 DEF IInv, ControlOK, NetworkOK, PluginContract
  <2>4. buffer' = <<>> /\ just_started' = just_started
    BY <1>3, <2>3 DEF PerformAnalysis, LoopAndRestart
  <2>5. NetworkOK'
    BY <2>2, <2>4 DEF IInv, NetworkOK
  <2>6. PoolsOK' /\ RequestOK'
    BY <2>2 DEF IInv, PoolsOK, RequestOK
  <2>7. MeasuredOK' /\ StepOK' /\ ResultsUnderOwnStep'
    BY <2>2 DEF IInv, MeasuredOK, Measured, StepOK, ResultsUnderOwnStep
  <2> QED
    BY <2>1, <2>5, <2>6, <2>7 DEF IInv
<1>4. CASE CreateScenarios
  <2>1. PICK n \in 1..(MaxScenarios - nextId) :
           /\ csp' = csp \cup nextId..(nextId + n - 1)
           /\ nextId' = nextId + n
           /\ created' = [i \in 0..(nextId + n - 1) |->
                             IF i < nextId THEN created[i] ELSE search_step]
    BY <1>4 DEF CreateScenarios
  <2>2. /\ UNCHANGED <<psp, esp, fsp, srp, request, buffer, executed, is_instrumented, just_started>>
        /\ pc = "create_scenarios"
    BY <1>4 DEF CreateScenarios, ProcessEvent, agentVars, modeVars
  <2>3. csp' # {}
    <3>1. nextId \in csp'
      BY <2>1 DEF TypeOK
    <3> QED
      BY <3>1
  <2>4. pc' = "prepare_scenarios" /\ search_step' = search_step
    BY <1>4, <2>3 DEF CreateScenarios, ContinueWith
  <2>5. ControlOK'
    BY <1>4, <2>4, EventTarget DEF CreateScenarios, ControlOK, StatesAt
  <2>6. NetworkOK' /\ PoolsOK' /\ RequestOK'
    BY <2>2, <2>4 DEF IInv, NetworkOK, PoolsOK, RequestOK
  <2>7. MeasuredOK'
    BY <2>2 DEF IInv, MeasuredOK, Measured
  <2>8. csp = {} /\ psp = {} /\ esp = {} /\ executed
    BY <2>2 DEF IInv, PoolsOK, RequestOK
  <2>9. StepOK'
    BY <2>1, <2>2, <2>4, <2>8 DEF StepOK, TypeOK
  <2>10. ResultsUnderOwnStep'
    <3> SUFFICES ASSUME NEW r \in srp PROVE r.step = created'[r.scenario]
      BY <2>2 DEF ResultsUnderOwnStep
    <3>1. r.scenario \in 0..(nextId - 1) /\ r.step = created[r.scenario]
      BY DEF TypeOK, Ids, IInv, ResultsUnderOwnStep
    <3> QED
      BY <2>1, <3>1 DEF TypeOK
  <2> QED
    BY <2>5, <2>6, <2>7, <2>9, <2>10 DEF IInv
<1>5. CASE PrepareScenarios
  <2>1. PICK k \in 1..MaxScenarios :
           csp' = csp \ Lowest(csp, k) /\ psp' = psp \cup Lowest(csp, k)
    BY <1>5 DEF PrepareScenarios
  <2>2. /\ UNCHANGED <<esp, fsp, srp, created, search_step, request, buffer, executed>>
        /\ UNCHANGED <<is_instrumented, just_started>>
        /\ pc = "prepare_scenarios" /\ pc' = "define_experiment"
    BY <1>5 DEF PrepareScenarios, ProcessEvent, scenarioVars, agentVars, modeVars
  <2>3. ControlOK'
    BY <1>5, <2>2, EventTarget DEF PrepareScenarios, ControlOK, StatesAt
  <2>4. NetworkOK' /\ PoolsOK' /\ RequestOK'
    BY <2>2 DEF IInv, NetworkOK, PoolsOK, RequestOK
  <2>5. MeasuredOK' /\ ResultsUnderOwnStep'
    BY <2>2 DEF IInv, MeasuredOK, Measured, ResultsUnderOwnStep
  <2>6. StepOK'
    BY <2>1, <2>2, LowestSubset DEF IInv, StepOK
  <2> QED
    BY <2>3, <2>4, <2>5, <2>6 DEF IInv
<1>6. CASE DefineExperiment
  <2>1. /\ UNCHANGED <<csp, fsp, srp, created, search_step, request, buffer, executed>>
        /\ UNCHANGED <<is_instrumented, just_started>>
        /\ psp' = psp \ Lowest(psp, NumProcs)
        /\ esp' = esp \cup Lowest(psp, NumProcs)
        /\ pc = "define_experiment" /\ pc' = "consider_restart"
    BY <1>6 DEF DefineExperiment, ProcessEvent, scenarioVars, agentVars, modeVars
  <2>2. ControlOK'
    BY <1>6, <2>1, EventTarget DEF DefineExperiment, ControlOK, StatesAt
  <2>3. NetworkOK' /\ RequestOK'
    BY <2>1 DEF IInv, NetworkOK, RequestOK
  <2>4. PoolsOK'
    <3>1. FALSE \in Modes => \A i, j \in esp' : i = j
      <4> SUFFICES ASSUME FALSE \in Modes PROVE \A i, j \in esp' : i = j
        OBVIOUS
      <4>1. esp' = Lowest(psp, 1)
        BY <2>1 DEF PluginContract, IInv, PoolsOK
      <4>2. psp \subseteq 0..MaxScenarios
        BY AutotuneAssumption DEF TypeOK, Ids
      <4> QED
        BY <4>1, <4>2, LowestIsOne, AutotuneAssumption
    <3> QED
      BY <2>1, <3>1 DEF PoolsOK
  <2>5. MeasuredOK' /\ ResultsUnderOwnStep'
    BY <2>1 DEF IInv, MeasuredOK, Measured, ResultsUnderOwnStep
  <2>6. StepOK'
    BY <2>1, LowestSubset DEF IInv, StepOK
  <2> QED
    BY <2>2, <2>3, <2>4, <2>5, <2>6 DEF IInv
<1>7. CASE ConsiderRestartInstrumented
  <2>1. /\ UNCHANGED <<csp, psp, esp, fsp, srp, created, search_step, request, executed>>
        /\ is_instrumented' = TRUE
        /\ TRUE \in Modes
        /\ pc = "consider_restart" /\ pc' = "run_phase_experiments"
    BY <1>7 DEF ConsiderRestartInstrumented, ProcessEvent, poolVars, scenarioVars
  <2>2. ControlOK'
    BY <1>7, <2>1, EventTarget DEF ConsiderRestartInstrumented, ControlOK, StatesAt
  <2>3. buffer' = <<>> /\ (just_started' => just_started)
    BY <1>7 DEF ConsiderRestartInstrumented, StartNetwork, LoopAndRestart, IInv, NetworkOK
  <2>4. NetworkOK'
    BY <2>1, <2>3 DEF IInv, NetworkOK
  <2>5. PoolsOK' /\ RequestOK'
    BY <2>1 DEF IInv, PoolsOK, RequestOK
  <2>6. MeasuredOK' /\ StepOK' /\ ResultsUnderOwnStep'
    BY <2>1 DEF IInv, MeasuredOK, Measured, StepOK, ResultsUnderOwnStep
  <2> QED
    BY <2>2, <2>4, <2>5, <2>6 DEF IInv
<1>8. CASE ConsiderRestartUninstrumented
  <2>1. /\ UNCHANGED <<csp, psp, created, search_step, request, executed, buffer, just_started>>
        /\ is_instrumented' = FALSE
        /\ FALSE \in Modes
        /\ pc = "consider_restart" /\ pc' = "run_phase_experiments"
    BY <1>8 DEF ConsiderRestartUninstrumented, ProcessEvent, scenarioVars, agentVars
  <2>2. Lowest(esp, 1) = esp
    <3>1. \A i, j \in esp : i = j
      BY <2>1 DEF IInv, PoolsOK
    <3>2. esp \subseteq Nat
      BY DEF TypeOK, Ids
    <3> QED
      BY <3>1, <3>2, LowestOfOne
  <2>3. esp' = {} /\ fsp' = fsp \cup esp /\ srp' = srp \cup Results(esp)
    BY <1>8, <2>2 DEF ConsiderRestartUninstrumented
  <2>4. ControlOK'
    BY <1>8, <2>1, EventTarget DEF ConsiderRestartUninstrumented, ControlOK, StatesAt
  <2>5. NetworkOK' /\ PoolsOK'
    BY <2>1, <2>3 DEF IInv, NetworkOK, PoolsOK
  <2>6. executed /\ RequestOK'
    BY <2>1 DEF IInv, RequestOK
  <2>7. MeasuredOK'
    BY <2>3, <2>6, MeasuredStays, ResultsMeasure DEF IInv, MeasuredOK
  <2>8. StepOK'
    BY <2>1, <2>3, <2>6 DEF IInv, StepOK
  <2>9. ResultsUnderOwnStep'
    BY <2>1, <2>3 DEF IInv, ResultsUnderOwnStep, Results, StepOK
  <2> QED
    BY <2>4, <2>5, <2>6, <2>7, <2>8, <2>9 DEF IInv
<1>9. CASE RunPhaseExecuted
  <2> DEFINE b == IF executed THEN Push(esp) ELSE buffer
  <2>1. /\ UNCHANGED <<csp, psp, created, is_instrumented, just_started>>
        /\ pc = "run_phase_experiments" /\ is_instrumented /\ ~need_restart
        /\ executed' = TRUE /\ buffer' = <<>>
        /\ srp' = srp \cup Results(Sent(b))
        /\ CreateRequest /\ AfterExperiment
    BY <1>9 DEF RunPhaseExecuted, ProcessEvent, scenarioVars, modeVars
  <2>2. /\ executed => Sent(b) = esp
        /\ ~executed => Sent(b) = {}
    BY DEF IInv, NetworkOK, Sent, Push
  <2> HIDE DEF b
  <2>3. esp' = {} /\ fsp' = fsp \cup esp
    BY <2>1 DEF CreateRequest, IInv, RequestOK
  <2>4. \/ pc' = "define_experiment" /\ search_step' = search_step
        \/ pc' = "prepare_scenarios" /\ psp = {} /\ search_step' = search_step
        \/ pc' = "searchFinished" /\ psp = {} /\ csp = {}
    BY <2>1 DEF AfterExperiment, ContinueWith
  <2>5. ControlOK'
    BY <1>9, <2>4, EventTarget DEF RunPhaseExecuted, ControlOK, StatesAt
  <2>6. NetworkOK'
    BY <2>1, <2>4 DEF IInv, NetworkOK
  <2>7. PoolsOK' /\ RequestOK'
    BY <2>1, <2>3, <2>4 DEF PoolsOK, RequestOK
  <2>8. MeasuredOK'
    <3> SUFFICES ASSUME NEW i \in fsp' PROVE Measured(i)'
      BY DEF MeasuredOK
    <3>1. CASE Measured(i)
      BY <2>1, <3>1, MeasuredStays
    <3>2. CASE ~executed
      <4>1. Measured(i)
        BY <2>1, <2>3, <3>2 DEF IInv, RequestOK, MeasuredOK
      <4> QED
        BY <3>1, <4>1
    <3>3. CASE executed /\ ~Measured(i)
      <4>1. i \in esp
        BY <2>3, <3>3 DEF IInv, MeasuredOK
      <4> QED
        BY <2>1, <2>2, <3>3, <4>1, ResultsMeasure
    <3> QED
      BY <3>1, <3>2, <3>3
  <2>9. StepOK'
    BY <2>1, <2>3, <2>4 DEF IInv, StepOK
  <2>10. ResultsUnderOwnStep'
    BY <2>1, <2>2 DEF IInv, ResultsUnderOwnStep, Results, StepOK
  <2> QED
    BY <2>5, <2>6, <2>7, <2>8, <2>9, <2>10 DEF IInv
<1>10. CASE RunPhaseRestart
  <2> DEFINE b == IF executed THEN Push(esp) ELSE buffer
  <2>1. /\ UNCHANGED <<csp, psp, created, search_step, is_instrumented, just_started>>
        /\ pc = "run_phase_experiments" /\ pc' = "run_phase_experiments" /\ is_instrumented
        /\ executed' = FALSE /\ buffer' = <<>>
        /\ CreateRequest
    BY <1>10 DEF RunPhaseRestart, ProcessEvent, scenarioVars, modeVars
  <2>2. PICK first \in SUBSET Sent(b), second \in SUBSET request' :
           /\ ~need_restart' => second = request'
           /\ srp' = srp \cup Results(first) \cup Results(second)
    BY <1>10 DEF RunPhaseRestart
  <2>3. /\ executed => Sent(b) = esp
        /\ ~executed => Sent(b) = {}
    BY DEF IInv, NetworkOK, Sent, Push
  <2> HIDE DEF b
  <2>4. /\ esp' = {} /\ fsp' = fsp \cup esp
        /\ executed => request' = esp
        /\ ~executed => request' = request
        /\ request' \subseteq fsp'
    BY <2>1 DEF CreateRequest, IInv, RequestOK
  <2>5. \A i \in request' : created[i] = search_step
    BY <2>4 DEF IInv, StepOK
  <2>6. ControlOK'
    BY <1>10, <2>1, EventTarget DEF RunPhaseRestart, ControlOK, StatesAt
  <2>7. NetworkOK' /\ PoolsOK'
    BY <2>1, <2>4 DEF IInv, NetworkOK, PoolsOK
  <2>8. RequestOK'
    <3>1. ~need_restart' => \A i \in request' : Measured(i)'
      BY <2>2, ResultsMeasure
    <3> QED
      BY <2>1, <2>4, <3>1 DEF RequestOK
  <2>9. MeasuredOK'
    <3> SUFFICES ASSUME NEW i \in fsp', i \notin request' PROVE Measured(i)'
      BY <2>1 DEF MeasuredOK
    <3>1. Measured(i)
      BY <2>1, <2>4 DEF IInv, MeasuredOK, RequestOK
    <3> QED
      BY <2>2, <3>1, MeasuredStays
  <2>10. StepOK'
    BY <2>1, <2>4, <2>5 DEF IInv, StepOK
  <2>11. ResultsUnderOwnStep'
    <3>1. \A i \in first \cup second : created[i] = search_step
      BY <2>2, <2>3, <2>4, <2>5
    <3> QED
      BY <2>1, <2>2, <3>1 DEF IInv, ResultsUnderOwnStep, Results
  <2> QED
    BY <2>6, <2>7, <2>8, <2>9, <2>10, <2>11 DEF IInv
<1>11. CASE RunPhaseUninstrumented
  <2>1. /\ UNCHANGED <<csp, psp, esp, fsp, srp, created, request, buffer, executed>>
        /\ UNCHANGED <<is_instrumented, just_started>>
        /\ pc = "run_phase_experiments" /\ ~is_instrumented
        /\ AfterExperiment
    BY <1>11 DEF RunPhaseUninstrumented, ProcessEvent, poolVars, scenarioVars, agentVars, modeVars
  <2>2. \/ pc' = "define_experiment" /\ search_step' = search_step
        \/ pc' = "prepare_scenarios" /\ psp = {} /\ search_step' = search_step
        \/ pc' = "searchFinished" /\ psp = {} /\ csp = {}
    BY <2>1 DEF AfterExperiment, ContinueWith
  <2>3. esp = {} /\ executed
    BY <2>1 DEF IInv, PoolsOK, RequestOK
  <2>4. ControlOK'
    BY <1>11, <2>2, EventTarget DEF RunPhaseUninstrumented, ControlOK, StatesAt
  <2>5. NetworkOK' /\ PoolsOK' /\ RequestOK'
    BY <2>1, <2>2, <2>3 DEF IInv, NetworkOK, PoolsOK, RequestOK
  <2>6. MeasuredOK' /\ ResultsUnderOwnStep'
    BY <2>1 DEF IInv, MeasuredOK, Measured, ResultsUnderOwnStep
  <2>7. StepOK'
    BY <2>1, <2>2, <2>3 DEF IInv, StepOK
  <2> QED
    BY <2>4, <2>5, <2>6, <2>7 DEF IInv
<1>12. CASE SearchFinished
  <2>1. ControlOK'
    BY <1>12, AutotuneAssumption
    DEF SearchFinished, NextSearchStep, IInv, ControlOK, StatesAt, PluginContract
  <2>2. (NetworkOK /\ PoolsOK /\ RequestOK /\ MeasuredOK /\ StepOK /\ ResultsUnderOwnStep)'
    BY <1>12, QuietStep
    DEF SearchFinished, NextSearchStep, poolVars, scenarioVars, agentVars, modeVars
  <2> QED
    BY <2>1, <2>2 DEF IInv
<1>13. ~SearchThrows
  BY AllMeasured DEF SearchThrows, EveryScenarioMeasured, Ids
<1>14. ~NoTransition
  BY ControlMeansValid DEF NoTransition, NoInvalidEvent, IInv
<1>15. CASE FinishTuningStep \/ CreateTuningAdvice \/ FinalizeAutotuning
  <2>1. ControlOK'
    BY <1>15, EventTarget
    DEF FinishTuningStep, CreateTuningAdvice, FinalizeAutotuning, ControlOK, StatesAt
  <2>2. (NetworkOK /\ PoolsOK /\ RequestOK /\ MeasuredOK /\ StepOK /\ ResultsUnderOwnStep)'
    BY <1>15, QuietStep
    DEF FinishTuningStep, CreateTuningAdvice, FinalizeAutotuning, ProcessEvent,
        poolVars, scenarioVars, agentVars, modeVars
  <2> QED
    BY <2>1, <2>2 DEF IInv
<1>16. CASE UNCHANGED vars
  <2>1. ControlOK' /\ NetworkOK' /\ PoolsOK' /\ RequestOK'
    BY <1>16 DEF vars, poolVars, scenarioVars, agentVars, modeVars,
                 IInv, ControlOK, NetworkOK, PoolsOK, RequestOK, Measured
  <2>2. MeasuredOK' /\ StepOK' /\ ResultsUnderOwnStep'
    BY <1>16 DEF vars, poolVars, scenarioVars, agentVars, modeVars,
                 IInv, MeasuredOK, Measured, StepOK, ResultsUnderOwnStep
  <2> QED
    BY <2>1, <2>2 DEF IInv
<1> QED
  BY <1>1, <1>2, <1>3, <1>4, <1>5, <1>6, <1>7, <1>8, <1>9, <1>10, <1>11, <1>12, <1>13, <1>14, <1>15,
     <1>16
  DEF Next, Driver

\* The inductive invariant holds whenever the plugin keeps its contract.
THEOREM Invariance == PluginContract => (Spec => []IInv)
<1> SUFFICES ASSUME PluginContract PROVE Spec => []IInv
  OBVIOUS
<1>1. Init => IInv
  <2> SUFFICES ASSUME Init PROVE IInv
    OBVIOUS
  <2>1. ControlOK /\ NetworkOK
    BY DEF Init, ControlOK, StatesAt, NetworkOK
  <2>2. PoolsOK /\ RequestOK /\ MeasuredOK /\ StepOK /\ ResultsUnderOwnStep
    BY DEF Init, PoolsOK, RequestOK, MeasuredOK, StepOK, ResultsUnderOwnStep
  <2> QED
    BY <2>1, <2>2 DEF IInv
<1>2. TypeOK /\ EachInOnePool /\ IInv /\ [Next]_vars => IInv'
  BY Induction
<1> QED
  BY <1>1, <1>2, TypeCorrect, PoolsPartition, PTL DEF Spec

\* With a plugin that keeps its contract, every scenario has a result when the
\* search is asked whether it is finished, however often the application ends
\* early and is restarted (run_phase_experiments_action, consider_restart_action).
THEOREM SearchIsComplete == PluginContract => (Spec => []EveryScenarioMeasured)
<1> SUFFICES ASSUME PluginContract PROVE Spec => []EveryScenarioMeasured
  OBVIOUS
<1>1. EachInOnePool /\ IInv => EveryScenarioMeasured
  BY AllMeasured
<1>2. Spec => []IInv
  BY Invariance
<1> QED
  BY <1>1, <1>2, PoolsPartition, PTL

\* Under the same contract each result is filed under the search step that
\* created its scenario, the late and the repeated results of a restart too.
THEOREM ResultsFiled == PluginContract => (Spec => []ResultsUnderOwnStep)
<1> SUFFICES ASSUME PluginContract PROVE Spec => []ResultsUnderOwnStep
  OBVIOUS
<1>1. IInv => ResultsUnderOwnStep
  BY DEF IInv
<1>2. Spec => []IInv
  BY Invariance
<1> QED
  BY <1>1, <1>2, PTL

\* Under the same contract the driver's loops never send an event for which
\* transition_table has no row.
THEOREM EventsExpected == PluginContract => (Spec => []NoInvalidEvent)
<1> SUFFICES ASSUME PluginContract PROVE Spec => []NoInvalidEvent
  OBVIOUS
<1>1. IInv => NoInvalidEvent
  BY ControlMeansValid DEF IInv
<1>2. Spec => []IInv
  BY Invariance
<1> QED
  BY <1>1, <1>2, PTL

\* A pool of natural numbers that is not empty has a scenario with the lowest id.
LEMMA LowestExists ==
    ASSUME NEW pool, NEW n \in Nat, pool \subseteq 0..n, pool # {}
    PROVE  \E i \in pool : \A j \in pool : ~(j < i)
<1> DEFINE Below(i) == {j \in pool : j < i}
           T == {Below(i) : i \in pool}
<1>1. IsFiniteSet(pool)
  <2>1. IsFiniteSet(0..n)
    BY FS_Interval
  <2> QED
    BY <2>1, FS_Subset
<1>2. T \subseteq FiniteSubsetsOf(pool) /\ T # {}
  <2>1. \A i \in pool : Below(i) \in SUBSET pool /\ IsFiniteSet(Below(i))
    <3> SUFFICES ASSUME NEW i \in pool PROVE IsFiniteSet(Below(i))
      OBVIOUS
    <3>1. Below(i) \in SUBSET pool
      OBVIOUS
    <3> QED
      BY <1>1, <3>1, FS_Subset
  <2> QED
    BY <2>1 DEF FiniteSubsetsOf
<1>3. PICK B \in T : \A C \in T : ~(<<C, B>> \in StrictSubsetOrdering(pool))
  <2> HIDE DEF T
  <2> QED
    BY <1>2, FS_StrictSubsetOrderingWellFounded, WFMin
<1>4. PICK i \in pool : B = Below(i)
  OBVIOUS
<1>5. ASSUME NEW j \in pool, j < i PROVE FALSE
  <2>1. Below(j) \in T /\ i \in Nat /\ j \in Nat
    OBVIOUS
  <2>2. Below(j) \subseteq Below(i)
    <3>1. ASSUME NEW k \in pool, k < j PROVE k < i
      <4>1. k \in Nat
        OBVIOUS
      <4> QED
        BY <1>5, <2>1, <3>1, <4>1
    <3> QED
      BY <3>1
  <2>3. j \in Below(i) /\ j \notin Below(j)
    BY <1>5, <2>1
  <2>4. <<Below(j), Below(i)>> \in StrictSubsetOrdering(pool)
    BY <2>2, <2>3 DEF StrictSubsetOrdering
  <2> QED
    BY <1>3, <1>4, <2>1, <2>4
<1> QED
  BY <1>5

\* pop on a pool that is not empty takes a scenario.
LEMMA LowestTakesOne ==
    ASSUME NEW pool, NEW n \in Nat, pool \subseteq 0..n, pool # {}, NEW k \in Nat \ {0}
    PROVE  Lowest(pool, k) # {}
<1>1. PICK i \in pool : \A j \in pool : ~(j < i)
  BY LowestExists
<1>2. {j \in pool : j < i} = {}
  BY <1>1
<1>3. Cardinality({j \in pool : j < i}) < k
  BY <1>2, FS_EmptySet
<1> QED
  BY <1>3 DEF Lowest

\* The loops of the driver go on with a pool only when it has a scenario.
PoolsFed ==
    /\ pc = "prepare_scenarios" => csp # {}
    /\ pc = "define_experiment" => psp # {}

\* Whatever the plugin does, phase experiments of an instrumented application find it and its
\* agents running, and consider_restart_action, which pops a scenario without a check, finds one.
THEOREM ExperimentsReady == Spec => []ReadyForExperiment
<1>1. Init => PoolsFed /\ ReadyForExperiment
  BY DEF Init, PoolsFed, ReadyForExperiment
<1>2. TypeOK /\ PoolsFed /\ ReadyForExperiment /\ [Next]_vars => (PoolsFed /\ ReadyForExperiment)'
  <2> SUFFICES ASSUME TypeOK, PoolsFed, ReadyForExperiment, [Next]_vars
               PROVE  (PoolsFed /\ ReadyForExperiment)'
    OBVIOUS
  <2> USE DEF PoolsFed, ReadyForExperiment
  <2>0. MaxScenarios \in Nat /\ csp \subseteq 0..MaxScenarios /\ psp \subseteq 0..MaxScenarios
    BY AutotuneAssumption DEF TypeOK, Ids
  <2>1. CASE CreateScenarios
    BY <2>1 DEF CreateScenarios, ContinueWith
  <2>2. CASE PrepareScenarios
    <3>1. PICK k \in 1..MaxScenarios : psp' = psp \cup Lowest(csp, k)
      BY <2>2 DEF PrepareScenarios
    <3>2. csp # {}
      BY <2>2 DEF PrepareScenarios, ProcessEvent
    <3>3. Lowest(csp, k) # {}
      <4>1. k \in Nat \ {0}
        BY <2>0
      <4> QED
        BY <2>0, <3>2, <4>1, LowestTakesOne
    <3> QED
      BY <2>2, <3>1, <3>3 DEF PrepareScenarios
  <2>3. CASE DefineExperiment
    <3>1. psp # {}
      BY <2>3 DEF DefineExperiment, ProcessEvent
    <3>2. Lowest(psp, NumProcs) # {}
      BY <2>0, <3>1, LowestTakesOne, AutotuneAssumption
    <3> QED
      BY <2>3, <3>2 DEF DefineExperiment
  <2>4. CASE ConsiderRestartInstrumented
    BY <2>4 DEF ConsiderRestartInstrumented, StartNetwork
  <2>5. CASE ConsiderRestartUninstrumented
    BY <2>5 DEF ConsiderRestartUninstrumented
  <2>6. CASE RunPhaseExecuted \/ RunPhaseUninstrumented
    BY <2>6 DEF RunPhaseExecuted, RunPhaseUninstrumented, AfterExperiment, ContinueWith, poolVars
  <2>7. CASE RunPhaseRestart
    BY <2>7 DEF RunPhaseRestart, ProcessEvent, modeVars
  <2>8. CASE InitializePlugin \/ StartTuningStep \/ PerformAnalysis
    BY <2>8 DEF InitializePlugin, StartTuningStep, NextSearchStep, PerformAnalysis
  <2>9. CASE SearchFinished \/ SearchThrows \/ NoTransition
    BY <2>9 DEF SearchFinished, NextSearchStep, SearchThrows, NoTransition
  <2>10. CASE FinishTuningStep \/ CreateTuningAdvice \/ FinalizeAutotuning
    BY <2>10 DEF FinishTuningStep, CreateTuningAdvice, FinalizeAutotuning
  <2>11. CASE UNCHANGED vars
    BY <2>11 DEF vars, poolVars, modeVars
  <2> QED
    BY <2>1, <2>2, <2>3, <2>4, <2>5, <2>6, <2>7, <2>8, <2>9, <2>10, <2>11 DEF Next, Driver
<1> QED
  BY <1>1, <1>2, TypeCorrect, PTL DEF Spec
=============================================================================
