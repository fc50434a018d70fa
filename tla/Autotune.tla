------------------------------ MODULE Autotune ------------------------------
(***************************************************************************)
(* Automatic tuning: the driver run_tuning_plugin (frontend.cc), the       *)
(* autotune state machine with its actions (frontend_statemachine.h/.cc),  *)
(* the four scenario pools, and a plugin that behaves as DemoPlugin and    *)
(* the search algorithms do.  One action is one event of the driver with   *)
(* the code up to its next event; pc is that event.                        *)
(*                                                                         *)
(* An event loop with the agents is one step here; module Frontend models  *)
(* its inside.  Left out: the analysis results pool and experiment_count,  *)
(* the key of its entries; what a scenario contains.                       *)
(***************************************************************************)
EXTENDS Integers, Sequences, FiniteSets

CONSTANTS ApplUninstrumented, \* applUninstrumented()
          Modes,              \* what restartRequired may leave in is_instrumented
          Analysis,           \* when the plugin wants an analysis: "never", "first" or "always"
          NumProcs,           \* how many scenarios it puts into an experiment, if there are that many
          MaxScenarios,       \* bound: scenarios created
          MaxRestarts         \* bound: after that many restarts the application no longer ends early

ASSUME AutotuneAssumption ==
    /\ ApplUninstrumented \in BOOLEAN
    /\ Modes \subseteq BOOLEAN /\ Modes # {}
    /\ Analysis \in {"never", "first", "always"}
    /\ NumProcs \in Nat \ {0}
    /\ MaxScenarios \in Nat \ {0}
    /\ MaxRestarts \in Nat

VARIABLES pc,               \* the event the driver sends next, or "searchFinished", "done", "failed"
          state,            \* of the state machine
          csp, psp, esp, fsp, \* the created, prepared, experiment and finished scenarios
          srp,              \* the scenario results: a scenario and the search step it is filed under
          nextId,           \* the static counter of Scenario
          created,          \* created[i]: the search step that created scenario i
          search_step,
          firstSearch,      \* it is the first search step of the tuning step
          request,          \* prepared_strategy_request
          buffer,           \* strategyRequestBuffer
          executed,         \* scenarios_executed
          is_instrumented, just_started, need_restart,
          restarts          \* restart_sequences so far

poolVars == <<csp, psp, esp, fsp>>
scenarioVars == <<nextId, created>>
agentVars == <<request, buffer, executed, need_restart, restarts>>
modeVars == <<is_instrumented, just_started>>
vars == <<pc, state, poolVars, srp, scenarioVars, search_step, firstSearch, agentVars, modeVars>>

Init ==
    /\ pc = "initialize_plugin" /\ state = "InitialState"
    /\ csp = {} /\ psp = {} /\ esp = {} /\ fsp = {} /\ srp = {}
    /\ nextId = 0 /\ created = [i \in {} |-> 0]
    /\ search_step = 0 /\ firstSearch = TRUE
    /\ request = {} /\ buffer = <<>> /\ executed = TRUE
    /\ is_instrumented = TRUE /\ just_started = TRUE /\ need_restart = FALSE
    /\ restarts = 0

-----------------------------------------------------------------------------
(* The state machine.                                                      *)

\* transition_table: start state, event, next state.
Rows == {
    <<"InitialState",           "initialize_plugin",     "InitializingPlugin">>,
    <<"InitializingPlugin",     "start_tuning_step",     "StartingTuningStep">>,
    <<"StartingTuningStep",     "create_scenarios",      "CreatingScenarios">>,
    <<"StartingTuningStep",     "perform_analysis",      "PerformingAnalysis">>,
    <<"PerformingAnalysis",     "create_scenarios",      "CreatingScenarios">>,
    <<"CreatingScenarios",      "prepare_scenarios",     "PreparingScenarios">>,
    <<"CreatingScenarios",      "finish_tuning_step",    "FinishingTuningStep">>,
    <<"PreparingScenarios",     "define_experiment",     "DefiningExperiments">>,
    <<"DefiningExperiments",    "consider_restart",      "ConsideringApplicationRestart">>,
    <<"ConsideringApplicationRestart", "run_phase_experiments", "RunningPhaseExperiments">>,
    <<"RunningPhaseExperiments", "run_phase_experiments", "RunningPhaseExperiments">>,
    <<"RunningPhaseExperiments", "define_experiment",    "DefiningExperiments">>,
    <<"RunningPhaseExperiments", "prepare_scenarios",    "PreparingScenarios">>,
    <<"RunningPhaseExperiments", "create_scenarios",     "CreatingScenarios">>,
    <<"RunningPhaseExperiments", "finish_tuning_step",   "FinishingTuningStep">>,
    <<"FinishingTuningStep",    "start_tuning_step",     "StartingTuningStep">>,
    <<"FinishingTuningStep",    "create_tuning_advice",  "CreatingTuningAdvice">>,
    <<"CreatingTuningAdvice",   "finalize_autotuning",   "FinalState">>}

States == {r[1] : r \in Rows} \cup {r[3] : r \in Rows}
Events == {r[2] : r \in Rows}

\* The driver sends event e and the state machine takes it.
ProcessEvent(e) ==
    /\ pc = e
    /\ \E r \in Rows : r[1] = state /\ r[2] = e /\ state' = r[3]

\* no_transition: the event is not expected in the state; exit.
NoTransition ==
    /\ pc \in Events
    /\ ~\E r \in Rows : r[1] = state /\ r[2] = pc
    /\ pc' = "failed"
    /\ UNCHANGED <<state, poolVars, srp, scenarioVars, search_step, firstSearch, agentVars, modeVars>>

-----------------------------------------------------------------------------
(* Helpers of the actions.                                                 *)

\* What k calls of ScenarioPool::pop return: the pool is ordered by id.
Lowest(pool, k) == {i \in pool : Cardinality({j \in pool : j < i}) < k}

\* A strategy request is the set of its scenarios; that of an analysis has none.
AnalysisRequest == {}

\* pushStrategyRequest
Push(r) == Append(buffer, r)

\* The request the agents work on when the event loop has sent the buffer b:
\* they read only the first.  An empty buffer ends the loop at once.
Sent(b) == IF b = <<>> THEN {} ELSE Head(b)

\* The application may come to its end, before the search does, in an event
\* loop that sends the buffer b, k being the number of restarts before it.
MayEnd(b, k) == b # <<>> /\ k < MaxRestarts

\* The event loop of a restarted application leaves need_restart.
SecondLoop(b) == \/ need_restart' = FALSE
                 \/ MayEnd(b, restarts + 1) /\ need_restart' = TRUE

\* An event loop for the requests in b and, if the application ended before
\* the search, one restart_sequence in which the agents go on with theirs.
LoopAndRestart(b) ==
    /\ buffer' = <<>>
    /\ \/ /\ ~need_restart
          /\ UNCHANGED <<need_restart, restarts>>
       \/ /\ need_restart \/ MayEnd(b, restarts)
          /\ restarts' = restarts + 1
          /\ SecondLoop(b)

\* start_application_and_agent_network: the agents gather the regions.
StartNetwork(b) ==
    /\ LoopAndRestart(Append(b, AnalysisRequest))
    /\ just_started' = FALSE

\* Mutant: off by one in the search step.
Mutant_Results_StepBefore(s) == {[scenario |-> i, step |-> search_step - 1] : i \in s}

\* ScenarioResultsPool::push
Results(s) == {[scenario |-> i, step |-> search_step] : i \in s}

Measured(i) == \E r \in srp : r.scenario = i

\* Mutant: the search step is counted with every preparation.
Mutant_ContinueWith_Counts(c) ==
    /\ pc' = IF c # {} THEN "prepare_scenarios" ELSE "searchFinished"
    /\ search_step' = search_step + 1

\* The driver after an experiment or after the creation of scenarios, when the
\* created pool is c: prepare some of them, or end the search step.
ContinueWith(c) ==
    IF c # {}
    THEN pc' = "prepare_scenarios" /\ UNCHANGED search_step
    ELSE pc' = "searchFinished" /\ search_step' = search_step + 1

\* Mutant: an analysis before every creation of scenarios.
Mutant_NextSearchStep_Analysis(first) ==
    /\ firstSearch' = first
    /\ pc' = IF Analysis # "never" THEN "perform_analysis" ELSE "create_scenarios"

\* The driver at the beginning of a search step: analysisRequired.
NextSearchStep(first) ==
    /\ firstSearch' = first
    /\ pc' = IF Analysis = "always" \/ (Analysis = "first" /\ first)
             THEN "perform_analysis" ELSE "create_scenarios"

-----------------------------------------------------------------------------
(* The actions of the state machine.                                       *)

InitializePlugin ==
    /\ ProcessEvent("initialize_plugin")
    /\ \/ ~ApplUninstrumented /\ StartNetwork(buffer)
       \/ ApplUninstrumented /\ UNCHANGED <<buffer, need_restart, restarts, just_started>>
    /\ pc' = "start_tuning_step"
    /\ UNCHANGED <<poolVars, srp, scenarioVars, search_step, firstSearch, request, executed,
                   is_instrumented>>

StartTuningStep ==
    /\ ProcessEvent("start_tuning_step")
    /\ NextSearchStep(TRUE)
    /\ UNCHANGED <<poolVars, srp, scenarioVars, search_step, agentVars, modeVars>>

\* The request is pushed even if the application of the last experiment was
\* not instrumented; then it stays in the buffer.
PerformAnalysis ==
    /\ ProcessEvent("perform_analysis")
    /\ \/ /\ is_instrumented /\ just_started
          /\ StartNetwork(Push(AnalysisRequest))
       \/ /\ is_instrumented /\ ~just_started
          /\ LoopAndRestart(Push(AnalysisRequest))
          /\ UNCHANGED just_started
       \/ /\ ~is_instrumented
          /\ buffer' = Push(AnalysisRequest)
          /\ UNCHANGED <<need_restart, restarts, just_started>>
    /\ pc' = "create_scenarios"
    /\ UNCHANGED <<poolVars, srp, scenarioVars, search_step, firstSearch, request, executed,
                   is_instrumented>>

CreateScenarios ==
    /\ ProcessEvent("create_scenarios")
    /\ \E n \in 1..(MaxScenarios - nextId) :
          /\ csp' = csp \cup nextId..(nextId + n - 1)
          /\ nextId' = nextId + n
          /\ created' = [i \in 0..(nextId + n - 1) |-> IF i < nextId THEN created[i] ELSE search_step]
    /\ ContinueWith(csp')
    /\ UNCHANGED <<psp, esp, fsp, srp, firstSearch, agentVars, modeVars>>

\* The plugin prepares all the created scenarios, or some.
PrepareScenarios ==
    /\ ProcessEvent("prepare_scenarios")
    /\ \E k \in 1..MaxScenarios :
          /\ csp' = csp \ Lowest(csp, k)
          /\ psp' = psp \cup Lowest(csp, k)
    /\ pc' = "define_experiment"
    /\ UNCHANGED <<esp, fsp, srp, scenarioVars, search_step, firstSearch, agentVars, modeVars>>

DefineExperiment ==
    /\ ProcessEvent("define_experiment")
    /\ psp' = psp \ Lowest(psp, NumProcs)
    /\ esp' = esp \cup Lowest(psp, NumProcs)
    /\ pc' = "consider_restart"
    /\ UNCHANGED <<csp, fsp, srp, scenarioVars, search_step, firstSearch, agentVars, modeVars>>

\* consider_restart for an instrumented application: start it and the agents;
\* or rebuild the hierarchy for another number of processes; or restart the
\* application alone; or go on with it.
ConsiderRestartInstrumented ==
    /\ ProcessEvent("consider_restart")
    /\ TRUE \in Modes
    /\ is_instrumented' = TRUE
    /\ \/ StartNetwork(buffer)
       \/ /\ ~just_started
          /\ buffer' = <<>>
          /\ restarts' = restarts + 1
          /\ SecondLoop(buffer)
          /\ UNCHANGED just_started
       \/ /\ ~just_started
          /\ UNCHANGED <<just_started, buffer, need_restart, restarts>>
    /\ pc' = "run_phase_experiments"
    /\ UNCHANGED <<poolVars, srp, scenarioVars, search_step, firstSearch, request, executed>>

\* consider_restart for an application that is not instrumented: run it and
\* take its run time as the result of one scenario.
ConsiderRestartUninstrumented ==
    /\ ProcessEvent("consider_restart")
    /\ FALSE \in Modes
    /\ is_instrumented' = FALSE
    /\ esp' = esp \ Lowest(esp, 1)
    /\ fsp' = fsp \cup Lowest(esp, 1)
    /\ srp' = srp \cup Results(Lowest(esp, 1))
    /\ pc' = "run_phase_experiments"
    /\ UNCHANGED <<csp, psp, scenarioVars, search_step, firstSearch, agentVars, just_started>>

\* Mutant: the created scenarios are taken for prepared ones.
Mutant_AfterExperiment_TooFar ==
    IF psp \cup csp # {} THEN pc' = "define_experiment" /\ UNCHANGED search_step ELSE ContinueWith(csp)

\* The driver when the scenarios are executed.
AfterExperiment ==
    IF psp # {} THEN pc' = "define_experiment" /\ UNCHANGED search_step ELSE ContinueWith(csp)

\* Mutants: a new request after a restart; scenarios read but not popped.
Mutant_CreateRequest_Always == request' = esp /\ esp' = {} /\ fsp' = fsp \cup esp

Mutant_CreateRequest_Keeps ==
    IF executed
    THEN request' = esp /\ esp' = esp /\ fsp' = fsp \cup esp
    ELSE UNCHANGED <<request, esp, fsp>>

\* createStrategyRequest, when the scenarios of the last request are executed.
CreateRequest ==
    IF executed
    THEN request' = esp /\ esp' = {} /\ fsp' = fsp \cup esp
    ELSE UNCHANGED <<request, esp, fsp>>

\* The first event loop ends with the search: the agents have finished the
\* request they were sent.
RunPhaseExecuted ==
    LET b == IF executed THEN Push(esp) ELSE buffer
    IN /\ ProcessEvent("run_phase_experiments")
       /\ is_instrumented
       /\ ~need_restart
       /\ CreateRequest
       /\ executed' = TRUE
       /\ UNCHANGED need_restart
       /\ buffer' = <<>>
       /\ srp' = srp \cup Results(Sent(b))
       /\ AfterExperiment
       /\ UNCHANGED <<csp, psp, scenarioVars, firstSearch, restarts, modeVars>>

\* The first event loop ends with the application, after a part of the results.
\* restart_sequence pushes the request again and waits for the next end of the
\* search or of the application.
RunPhaseRestart ==
    LET b == IF executed THEN Push(esp) ELSE buffer
    IN /\ ProcessEvent("run_phase_experiments")
       /\ is_instrumented
       /\ need_restart \/ MayEnd(b, restarts)
       /\ CreateRequest
       /\ executed' = FALSE
       /\ restarts' = restarts + 1
       /\ buffer' = <<>>
       /\ \E first \in SUBSET Sent(b), second \in SUBSET request' :
             /\ SecondLoop(<<request'>>)
             /\ ~need_restart' => second = request'
             /\ srp' = srp \cup Results(first) \cup Results(second)
       /\ pc' = "run_phase_experiments"
       /\ UNCHANGED <<csp, psp, scenarioVars, search_step, firstSearch, modeVars>>

RunPhaseUninstrumented ==
    /\ ProcessEvent("run_phase_experiments")
    /\ ~is_instrumented
    /\ AfterExperiment
    /\ UNCHANGED <<poolVars, srp, scenarioVars, firstSearch, agentVars, modeVars>>

\* searchFinished of the plugin.  It evaluates the results of every scenario it
\* created; a missing one is an exception that the driver does not catch.
SearchFinished ==
    /\ pc = "searchFinished"
    /\ \A i \in 0..(nextId - 1) : Measured(i)
    /\ \/ pc' = "finish_tuning_step" /\ UNCHANGED firstSearch
       \/ nextId < MaxScenarios /\ NextSearchStep(FALSE)
    /\ UNCHANGED <<state, poolVars, srp, scenarioVars, search_step, agentVars, modeVars>>

SearchThrows ==
    /\ pc = "searchFinished"
    /\ \E i \in 0..(nextId - 1) : ~Measured(i)
    /\ pc' = "failed"
    /\ UNCHANGED <<state, poolVars, srp, scenarioVars, search_step, firstSearch, agentVars, modeVars>>

\* finish_tuning_step, and the tuningFinished that follows it.
FinishTuningStep ==
    /\ ProcessEvent("finish_tuning_step")
    /\ \/ pc' = "create_tuning_advice"
       \/ pc' = "start_tuning_step" /\ nextId < MaxScenarios
    /\ UNCHANGED <<poolVars, srp, scenarioVars, search_step, firstSearch, agentVars, modeVars>>

CreateTuningAdvice ==
    /\ ProcessEvent("create_tuning_advice")
    /\ pc' = "finalize_autotuning"
    /\ UNCHANGED <<poolVars, srp, scenarioVars, search_step, firstSearch, agentVars, modeVars>>

FinalizeAutotuning ==
    /\ ProcessEvent("finalize_autotuning")
    /\ pc' = "done"
    /\ UNCHANGED <<poolVars, srp, scenarioVars, search_step, firstSearch, agentVars, modeVars>>

Driver == \/ InitializePlugin \/ StartTuningStep \/ PerformAnalysis
          \/ CreateScenarios \/ PrepareScenarios \/ DefineExperiment
          \/ ConsiderRestartInstrumented \/ ConsiderRestartUninstrumented
          \/ RunPhaseExecuted \/ RunPhaseRestart \/ RunPhaseUninstrumented
          \/ SearchFinished \/ SearchThrows \/ NoTransition
          \/ FinishTuningStep \/ CreateTuningAdvice \/ FinalizeAutotuning

Ended == pc \in {"done", "failed"}

Next == Driver \/ (Ended /\ UNCHANGED vars)

Spec == Init /\ [][Next]_vars

\* The driver is one thread that goes on as long as it can.
FairSpec == Spec /\ WF_vars(Driver)

-----------------------------------------------------------------------------
(* What the driver expects of a plugin and does not check: it has to run   *)
(* an application that is not instrumented as such, with one scenario in   *)
(* an experiment and no analysis, and may ask for an analysis only at the  *)
(* start of a tuning step.                                                 *)
PluginContract ==
    /\ ApplUninstrumented => Modes = {FALSE}
    /\ FALSE \in Modes => NumProcs = 1 /\ Analysis = "never"
    /\ Analysis # "always"

-----------------------------------------------------------------------------
(* Properties.                                                             *)

Ids == 0..(nextId - 1)

\* Types of the driver's, the state machine's and the pools' variables.
TypeOK ==
    /\ pc \in Events \cup {"searchFinished", "done", "failed"}
    /\ state \in States
    /\ nextId \in 0..MaxScenarios
    /\ search_step \in Nat /\ restarts \in Nat
    /\ created \in [Ids -> Nat]
    /\ csp \subseteq Ids /\ psp \subseteq Ids /\ esp \subseteq Ids /\ fsp \subseteq Ids
    /\ request \subseteq Ids
    /\ srp \subseteq [scenario : Ids, step : Nat]
    /\ buffer \in Seq(SUBSET Ids)
    /\ firstSearch \in BOOLEAN /\ executed \in BOOLEAN /\ need_restart \in BOOLEAN
    /\ is_instrumented \in BOOLEAN /\ just_started \in BOOLEAN

\* A scenario is always in exactly one pool, whatever restarts its experiment
\* meets: the actions and the plugin move scenarios and lose or double none.
EachInOnePool ==
    /\ csp \cup psp \cup esp \cup fsp = Ids
    /\ csp \cap psp = {} /\ csp \cap esp = {} /\ csp \cap fsp = {}
    /\ psp \cap esp = {} /\ psp \cap fsp = {} /\ esp \cap fsp = {}

\* When the driver asks the plugin whether its search is finished, every
\* scenario created so far has a result: no restart of the application and no
\* stale request makes the driver count a scenario as executed that is not.
EveryScenarioMeasured == pc = "searchFinished" => \A i \in Ids : Measured(i)

\* A result is filed under the search step that created its scenario, although
\* a restart delivers results late and again.
ResultsUnderOwnStep == \A r \in srp : r.step = created[r.scenario]

\* The driver sends no event the state machine does not expect.
NoInvalidEvent == pc \in Events => \E r \in Rows : r[1] = state /\ r[2] = pc

\* Phase experiments of an instrumented application find it and its agents
\* running, and every experiment has a scenario to begin with: consider_restart
\* pops one without a check.
ReadyForExperiment ==
    /\ pc = "run_phase_experiments" /\ is_instrumented => ~just_started
    /\ pc = "consider_restart" => esp # {}

\* Tuning comes to its regular end.
TuningEnds == <>(pc = "done")
=============================================================================
