------------------------------ MODULE Frontend ------------------------------
(***************************************************************************)
(* The frontend, and the composition with its agents: the message handlers *)
(* of frontend_accl_handler.cc, the timer step of frontend.cc, and the     *)
(* code of frontend_statemachine.cc and run_analysis that runs between two *)
(* event loops.  That code is sequential; one action leads from the end of *)
(* an event loop to the beginning of the next.                             *)
(*                                                                         *)
(* op is the operation in progress: "gather" (start_application_and_agent_ *)
(* network), "analysis" (perform_analysis), "restart" (consider_restart    *)
(* with an application restart), "phase" (run_phase_experiments), "search" *)
(* (run_analysis), "none" between two operations.  stage is where it is:   *)
(* "run", the first event loop; "terminating" and "restarted", the two     *)
(* loops of restart_sequence; "calltree".                                  *)
(***************************************************************************)
EXTENDS AnalysisAgent, HighLevelAgent

CONSTANTS Tuning,       \* TRUE: run_tuning_plugin drives, FALSE: run_analysis
          Rts,          \* withRtsSupport(): the call-tree is gathered
          HasDelay,     \* --delay was given
          Autoinst,     \* automatic instrumentation (--inst) may ask for a restart
          MaxReqs,      \* bound: strategy requests created
          MaxAnalysisRuns  \* max_runs of run_analysis

ASSUME FrontendAssumption ==
    /\ {Tuning, Rts, HasDelay, Autoinst} \subseteq BOOLEAN
    /\ MaxReqs \in Nat /\ MaxAnalysisRuns \in Nat
    /\ \E c \in Agents : Children(FE) = {c}  \* runAgents starts one agent for the frontend

VARIABLES op, stage,
          loop,            \* the TimerAction of the event loop, "off" outside of one
          ended,           \* stop() was called in it
          timerOn,         \* its timer is scheduled
          need_restart, restart_requested, shutdown_allowed, quit_fe,
          runs,            \* the loop counter of run_analysis
          quitting,        \* quit() waits for the application to unregister
          buffer,          \* strategyRequestBuffer
          nreq,            \* strategy requests created
          executed,        \* scenarios_executed
          metaproperties,  \* the properties received and not yet used
          pools,           \* the properties used, with the request of the moment
          trees            \* the analysis agents whose call-tree has arrived

loopVars == <<loop, ended, timerOn>>
ctlVars == <<op, stage, runs, nreq, executed, pools>>
decVars == <<need_restart, restart_requested, shutdown_allowed, quit_fe, quitting>>
feVars == <<loopVars, ctlVars, decVars, buffer, metaproperties, trees>>
vars == <<treeVars, aaVars, appVars, hlaVars, feVars>>

\* Mutant: the counter of requests lags behind.
Mutant_Request_Ahead(n) == [id |-> n + 1, delay |-> HasDelay /\ n = 1]

Request(n) == [id |-> n, delay |-> HasDelay /\ n = 1]

\* The application runs, the agents have been started, and the first strategy
\* request (Importance when tuning) waits for them.
Init ==
    /\ TreeInit /\ AAInit /\ HLAInit
    /\ op = IF Tuning THEN "gather" ELSE "search"
    /\ stage = "run"
    /\ loop = "STARTUP" /\ ended = FALSE /\ timerOn = TRUE
    /\ need_restart = FALSE /\ restart_requested = FALSE
    /\ shutdown_allowed = FALSE /\ quit_fe = FALSE /\ quitting = FALSE
    /\ runs = 1
    /\ buffer = <<Request(1)>> /\ nreq = 1
    /\ executed = TRUE
    /\ metaproperties = {} /\ pools = {} /\ trees = {}

-----------------------------------------------------------------------------
(* Parts of handlers.  i stands for the AgentInfo records so far.          *)

ForChildren(i, f, v) == [n \in Agents |-> IF Parent[n] = FE THEN [i[n] EXCEPT ![f] = v] ELSE i[n]]

\* start: send the buffered requests, or leave the event loop.
Start(i) ==
    IF buffer = <<>>
    THEN /\ ended' = TRUE
         /\ info' = i
         /\ UNCHANGED <<down, buffer>>
    ELSE /\ down' = SendToChildren(FE, [type |-> "start", requests |-> buffer])
         /\ buffer' = <<>>
         /\ info' = ForChildren(i, "properties_sent", FALSE)
         /\ UNCHANGED ended

\* Mutant: the agents are not told.
Mutant_Quit_Silent ==
    /\ quit_fe' = TRUE
    /\ quitting' = TRUE
    /\ UNCHANGED down

\* quit, up to its wait for the registry.
Quit ==
    /\ down' = SendToChildren(FE, Msg("quit"))
    /\ quit_fe' = TRUE
    /\ quitting' = TRUE

\* checkForReinstrumentation
Reinstrument == IF Autoinst /\ run < MaxRuns THEN BOOLEAN ELSE {FALSE}

\* decide_continuation, "Enforce decision": every child has reported and has
\* delivered its properties.
Enforce(i, s) ==
    \/ /\ s = "FINISHED"
       /\ Start(ForChildren(i, "properties_sent", FALSE))
       /\ restart_requested' = FALSE
       /\ UNCHANGED <<need_restart, quit_fe, quitting>>
    \/ /\ s = "REQEXPERIMENT"
       /\ info' = ForChildren(ForChildren(i, "properties_sent", FALSE), "search_status", "UNDEFINED")
       /\ down' = SendToChildren(FE, Msg("startexperiment"))
       /\ restart_requested' = FALSE
       /\ UNCHANGED <<buffer, ended, need_restart, quit_fe, quitting>>
    \/ /\ s = "REQRESTART" /\ shutdown_allowed
       /\ info' = ForChildren(i, "properties_sent", FALSE)
       /\ Quit
       /\ restart_requested' = FALSE
       /\ UNCHANGED <<buffer, ended, need_restart>>
    \/ /\ s = "REQRESTART" /\ ~shutdown_allowed
       /\ info' = [n \in Agents |->
                     IF Parent[n] = FE
                     THEN [i[n] EXCEPT !.properties_sent = FALSE, !.appl_terminated = FALSE,
                                       !.search_status = "UNDEFINED", !.status_reinit = "INITIAL"]
                     ELSE i[n]]
       /\ need_restart' = TRUE
       /\ restart_requested' = TRUE
       /\ ended' = TRUE
       /\ UNCHANGED <<down, buffer, quit_fe, quitting>>

\* decide_continuation
DecideContinuation(i) ==
    LET s == Combined(Children(FE), i)
    IN /\ \/ /\ ~AllReported(Children(FE), i)
             /\ info' = i
             /\ restart_requested' = FALSE
             /\ UNCHANGED <<down, buffer, ended, need_restart, quit_fe, quitting>>
          \/ /\ AllReported(Children(FE), i)
             /\ \E c \in Children(FE) : ~i[c].properties_sent
             /\ info' = i
             /\ down' = SendToChildren(FE, Msg("check"))
             /\ restart_requested' = FALSE
             /\ UNCHANGED <<buffer, ended, need_restart, quit_fe, quitting>>
          \/ /\ AllReported(Children(FE), i)
             /\ \A c \in Children(FE) : i[c].properties_sent
             /\ \E r \in IF s = "REQEXPERIMENT" THEN Reinstrument ELSE {FALSE} :
                   Enforce(i, IF r THEN "REQRESTART" ELSE s)
       /\ UNCHANGED shutdown_allowed

-----------------------------------------------------------------------------
(* Messages of child c.                                                    *)

ReadMessage(c) == up' = [up EXCEPT ![c] = Tail(@)]

\* on_heartbeat
FEOnHeartbeat(c) ==
    /\ HasMessage(c, "heartbeat")
    /\ info' = [info EXCEPT ![c] = IF @.status = "INITIAL"
                                   THEN [@ EXCEPT !.status = "STARTED", !.properties_sent = FALSE]
                                   ELSE [@ EXCEPT !.status_reinit = "STARTED", !.properties_sent = FALSE]]
    /\ UNCHANGED <<down, ended, decVars, buffer, metaproperties, trees>>

\* Mutant: a property replaces those received before.
Mutant_FEOnFoundProp_Replaces(c) ==
    /\ HasMessage(c, "foundprop")
    /\ metaproperties' = Head(up[c]).props
    /\ UNCHANGED <<down, info, ended, decVars, buffer, trees>>

\* on_foundprop
FEOnFoundProp(c) ==
    /\ HasMessage(c, "foundprop")
    /\ metaproperties' = metaproperties \cup Head(up[c]).props
    /\ UNCHANGED <<down, info, ended, decVars, buffer, trees>>

\* on_calltree
FEOnCalltree(c) ==
    /\ HasMessage(c, "calltree")
    /\ trees' = trees \cup {Head(up[c]).aa}
    /\ UNCHANGED <<down, info, ended, decVars, buffer, metaproperties>>

\* on_searchfinished, on_reqexperiment, on_needrestart
FEOnSearchRequest(c) ==
    /\ up[c] # <<>> /\ Head(up[c]).type \in SearchRequests
    /\ DecideContinuation([info EXCEPT ![c].search_status = StatusOf(Head(up[c]).type)])
    /\ UNCHANGED <<metaproperties, trees>>

\* on_propertiessent
FEOnPropertiesSent(c) ==
    /\ HasMessage(c, "propertiessent")
    /\ LET i == [info EXCEPT ![c].properties_sent = TRUE]
       IN IF \A n \in Children(FE) : i[n].properties_sent
          THEN DecideContinuation(i)
          ELSE info' = i /\ UNCHANGED <<down, ended, decVars, buffer>>
    /\ UNCHANGED <<metaproperties, trees>>

\* on_terminated; its look at the registry decides nothing.
FEOnTerminated(c) ==
    /\ HasMessage(c, "terminated")
    /\ info' = [info EXCEPT ![c].appl_terminated = TRUE]
    /\ UNCHANGED <<down, ended, decVars, buffer, metaproperties, trees>>

\* on_calltreesent: as in the high-level agent, the loop breaks at the sender.
\* Whatever event loop the frontend is in, it is left.
FEOnCalltreeSent(c) ==
    /\ HasMessage(c, "calltreesent")
    /\ IF \A n \in Before(c) : info[n].calltree_sent
       THEN /\ info' = ForChildren(info, "calltree_sent", FALSE)
            /\ ended' = TRUE
       ELSE /\ info' = [info EXCEPT ![c].calltree_sent = TRUE]
            /\ UNCHANGED ended
    /\ UNCHANGED <<down, decVars, buffer, metaproperties, trees>>

InLoop == loop # "off" /\ ~ended /\ ~quitting

FEHandleMessage(c) ==
    /\ InLoop
    /\ Parent[c] = FE
    /\ \/ FEOnHeartbeat(c)
       \/ FEOnFoundProp(c)
       \/ FEOnCalltree(c)
       \/ FEOnSearchRequest(c)
       \/ FEOnPropertiesSent(c)
       \/ FEOnTerminated(c)
       \/ FEOnCalltreeSent(c)
    /\ ReadMessage(c)
    /\ UNCHANGED <<alive, aaVars, appVars, hlaVars, loop, timerOn, ctlVars>>

-----------------------------------------------------------------------------
(* handle_step, what the timer does in each event loop.                    *)

StepStartup ==
    /\ loop = "STARTUP"
    /\ \A c \in Children(FE) : info[c].status = "STARTED"
    /\ Start(info)

\* Mutant: the agents are not told to go on.
Mutant_StepStartupReinit_Silent ==
    /\ loop = "STARTUP_REINIT"
    /\ \A c \in Children(FE) : info[c].status_reinit = "STARTED"
    /\ info' = ForChildren(ForChildren(info, "search_status", "UNDEFINED"), "properties_sent", FALSE)
    /\ UNCHANGED <<down, buffer, ended>>

StepStartupReinit ==
    /\ loop = "STARTUP_REINIT"
    /\ \A c \in Children(FE) : info[c].status_reinit = "STARTED"
    /\ info' = ForChildren(ForChildren(info, "search_status", "UNDEFINED"), "properties_sent", FALSE)
    /\ down' = SendToChildren(FE, Msg("startexperiment"))
    /\ UNCHANGED <<buffer, ended>>

StepApplicationTermination ==
    /\ loop = "APPLICATION_TERMINATION"
    /\ \A c \in Children(FE) : info[c].appl_terminated
    /\ registry = {}
    /\ ended' = TRUE
    /\ UNCHANGED <<down, info, buffer>>

StepRequestCalltree ==
    /\ loop = "REQUESTCALLTREE"
    /\ \A c \in Children(FE) : info[c].status = "STARTED"
    /\ info' = ForChildren(info, "calltree_sent", FALSE)
    /\ down' = SendToChildren(FE, Msg("serializecalltree"))
    /\ UNCHANGED <<buffer, ended>>

FEHandleStep ==
    /\ InLoop /\ timerOn
    /\ timerOn' = FALSE
    /\ \/ StepStartup
       \/ StepStartupReinit
       \/ StepApplicationTermination
       \/ StepRequestCalltree
    /\ UNCHANGED <<up, alive, aaVars, appVars, hlaVars, loop, ctlVars, decVars, metaproperties, trees>>

\* handle_step, a wait that has taken too long.  The wait for the agents of a
\* restart has no limit.
FETimeout ==
    /\ TimeOuts
    /\ InLoop /\ timerOn
    /\ \/ loop \in {"STARTUP", "REQUESTCALLTREE"} /\ \E c \in Children(FE) : info[c].status # "STARTED"
       \/ loop = "APPLICATION_TERMINATION" /\ \E c \in Children(FE) : ~info[c].appl_terminated
    /\ Quit
    /\ UNCHANGED <<up, info, alive, aaVars, appVars, hlaVars, loopVars, ctlVars, need_restart,
                   restart_requested, shutdown_allowed, buffer, metaproperties, trees>>

\* quit, the rest: the application has unregistered; or 60 seconds have passed
\* and the registry is cleaned; or the wait is skipped, as the time it compares
\* with is uninitialised.
FEQuitFinished ==
    /\ quitting
    /\ quitting' = FALSE
    /\ registry' \in {{}, registry}
    /\ ended' = TRUE
    /\ UNCHANGED <<treeVars, aaVars, run, hlaVars, loop, timerOn, ctlVars, buffer, metaproperties, trees,
                   need_restart, restart_requested, shutdown_allowed, quit_fe>>

-----------------------------------------------------------------------------
(* Between two event loops.                                                *)

\* ace_communication_phase after a reset of the event loop.
EnterLoop(action) ==
    /\ loop' = action
    /\ ended' = FALSE
    /\ timerOn' = TRUE

LoopEnded == ended /\ ~quitting

\* restart_sequence, and run_analysis: ask for the application to be terminated.
BeginRestart ==
    /\ down' = SendToChildren(FE, Msg("terminate"))
    /\ info' = ForChildren(info, "appl_terminated", FALSE)
    /\ stage' = "terminating"
    /\ EnterLoop("APPLICATION_TERMINATION")

\* The end of the first event loop of an operation that calls for a restart.
FERestart ==
    /\ LoopEnded /\ stage = "run" /\ need_restart
    /\ op \in {"gather", "analysis", "phase"}
    /\ BeginRestart
    /\ executed' = IF op = "phase" THEN FALSE ELSE executed
    /\ UNCHANGED <<up, alive, aaVars, appVars, hlaVars, op, runs, nreq, pools, decVars, buffer,
                   metaproperties, trees>>

\* restart_sequence, the rest (and the body of the loop of run_analysis):
\* rerunApplication starts the application and tells the agents; a phase
\* experiment has its request pushed again.
FERerun ==
    /\ LoopEnded /\ stage = "terminating"
    /\ run' = run + 1
    /\ registry' = registry \cup {<<a, run + 1>> : a \in AAs}
    /\ down' = SendToChildren(FE, Msg("reinit"))
    /\ need_restart' = (op = "search" /\ need_restart)
    /\ buffer' = IF op = "phase" THEN Append(buffer, Request(nreq)) ELSE buffer
    /\ stage' = "restarted"
    /\ EnterLoop(IF op \in {"phase", "restart"} THEN "STARTUP" ELSE "STARTUP_REINIT")
    /\ UNCHANGED <<up, info, alive, aaVars, hlaVars, op, runs, nreq, executed, pools,
                   restart_requested, shutdown_allowed, quit_fe, quitting, metaproperties, trees>>

\* The new properties go to a pool (a gather adds their regions to the
\* application), filed under the step that is being made.
Filed == {[prop |-> p, step |-> nreq] : p \in metaproperties}

Finished(o) ==
    /\ op' = o
    /\ stage' = "run"
    /\ loop' = "off"
    /\ UNCHANGED <<ended, timerOn>>

\* The loops of a gather, an analysis or a phase experiment are over: take the
\* results, then gather the call-tree.
FEResults ==
    /\ LoopEnded
    /\ op \in {"gather", "analysis", "phase"}
    /\ (stage = "run" /\ ~need_restart) \/ stage = "restarted"
    /\ executed' = IF op = "phase" THEN stage = "run" ELSE executed
    /\ pools' = pools \cup Filed
    /\ IF Rts /\ op # "analysis"
       THEN /\ stage' = "calltree"
            /\ EnterLoop("REQUESTCALLTREE")
            /\ metaproperties' = IF op = "gather" THEN metaproperties ELSE {}
            /\ UNCHANGED op
       ELSE /\ Finished(IF op = "phase" /\ stage # "run" THEN "again" ELSE "none")
            /\ metaproperties' = {}
    /\ UNCHANGED <<treeVars, aaVars, appVars, hlaVars, runs, nreq, decVars, buffer, trees>>

\* The call-tree event loop is over; a gather forgets its properties only now.
FECalltreeDone ==
    /\ LoopEnded /\ stage = "calltree"
    /\ Finished(IF op = "phase" /\ ~executed THEN "again" ELSE "none")
    /\ metaproperties' = IF op = "gather" THEN {} ELSE metaproperties
    /\ UNCHANGED <<treeVars, aaVars, appVars, hlaVars, runs, nreq, executed, pools, decVars, buffer,
                   trees>>

\* run_phase_experiments once more, after a restart.
FEPhaseAgain ==
    /\ op = "again"
    /\ op' = "phase"
    /\ EnterLoop("STARTUP")
    /\ UNCHANGED <<treeVars, aaVars, appVars, hlaVars, stage, runs, nreq, executed, pools, decVars,
                   buffer, metaproperties, trees>>

\* createStrategyRequest or the plugin's request, and pushStrategyRequest.
PushRequest ==
    /\ nreq < MaxReqs
    /\ nreq' = nreq + 1
    /\ buffer' = Append(buffer, Request(nreq + 1))

\* perform_analysis, run_phase_experiments
FEBegin(o) ==
    /\ Tuning
    /\ op = "none"
    /\ PushRequest
    /\ op' = o
    /\ EnterLoop("STARTUP")
    /\ UNCHANGED <<treeVars, aaVars, appVars, hlaVars, stage, runs, executed, pools, decVars,
                   metaproperties, trees>>

\* consider_restart when the plugin asks for a restart with the same number of
\* processes.  The AGENT_STARTUP loop before restart_sequence is left at once:
\* the event loop was ended and is not reset.
FEConsiderRestart ==
    /\ Tuning
    /\ op = "none" /\ nreq < MaxReqs /\ run < MaxRuns
    /\ op' = "restart"
    /\ need_restart' = TRUE
    /\ BeginRestart
    /\ UNCHANGED <<up, alive, aaVars, appVars, hlaVars, runs, nreq, executed, pools, buffer,
                   restart_requested, shutdown_allowed, quit_fe, quitting, metaproperties, trees>>

\* The end of consider_restart; run_phase_experiments follows.
FERestartDone ==
    /\ LoopEnded /\ op = "restart" /\ stage = "restarted"
    /\ PushRequest
    /\ op' = "phase"
    /\ stage' = "run"
    /\ EnterLoop("STARTUP")
    /\ UNCHANGED <<treeVars, aaVars, appVars, hlaVars, runs, executed, pools, decVars,
                   metaproperties, trees>>

\* run_analysis: another round of its loop, or not.
FESearchEnded ==
    /\ LoopEnded /\ op = "search" /\ stage \in {"run", "restarted"}
    /\ LET k == IF stage = "run" THEN 1 ELSE runs + 1
       IN /\ runs' = k
          /\ \/ /\ need_restart /\ k < MaxAnalysisRuns /\ ~quit_fe /\ restart_requested
                /\ shutdown_allowed' = (k = MaxAnalysisRuns - 1)
                /\ BeginRestart
                /\ UNCHANGED op
             \/ /\ ~(need_restart /\ k < MaxAnalysisRuns /\ ~quit_fe /\ restart_requested)
                /\ Finished("none")
                /\ UNCHANGED <<down, info, shutdown_allowed>>
    /\ UNCHANGED <<up, alive, aaVars, appVars, hlaVars, nreq, executed, pools, need_restart,
                   restart_requested, quit_fe, quitting, buffer, metaproperties, trees>>

\* do_finalization
FEFinalize ==
    /\ op = "none"
    /\ op' = "final"
    /\ Quit
    /\ UNCHANGED <<up, info, alive, aaVars, appVars, hlaVars, loopVars, stage, runs, nreq, executed,
                   pools, need_restart, restart_requested, shutdown_allowed, buffer, metaproperties, trees>>

FEStep == \/ \E c \in Agents : FEHandleMessage(c)
          \/ FEHandleStep
          \/ FETimeout \/ FEQuitFinished
          \/ FERestart \/ FERerun \/ FEResults \/ FECalltreeDone \/ FEPhaseAgain
          \/ FERestartDone \/ FESearchEnded
          \/ FEBegin("analysis") \/ FEBegin("phase") \/ FEConsiderRestart
          \/ FEFinalize

-----------------------------------------------------------------------------
AgentStep(n) ==
    \/ n \in AAs /\ AAStep(n) /\ UNCHANGED <<hlaVars, feVars>>
    \/ n \in HLAs /\ HLAStep(n) /\ UNCHANGED <<aaVars, appVars, feVars>>

Terminated == op = "final" /\ ~quitting /\ \A n \in Agents : alive[n] = "down"

Next == \/ FEStep
        \/ \E n \in Agents : AgentStep(n)
        \/ Terminated /\ UNCHANGED vars

Spec == Init /\ [][Next]_vars

\* Every process keeps taking the steps it can take: the agents and the frontend
\* run reactor event loops with a periodic timer.
Fairness == WF_vars(FEStep) /\ \A n \in Agents : WF_vars(AgentStep(n))

FairSpec == Spec /\ Fairness

-----------------------------------------------------------------------------
(* Properties.                                                             *)

\* Types: a request that an agent works on or has finished was created, and it
\* is attached to a run that was started.
TypeOK ==
    /\ info \in [Agents -> AgentInfo]
    /\ alive \in [Agents -> {"starting", "up", "down"}]
    /\ proc \in [AAs -> ProcState]
    /\ started \in [AAs -> BOOLEAN] /\ delay \in [AAs -> BOOLEAN] /\ newRts \in [AAs -> BOOLEAN]
    /\ \A a \in AAs : /\ attached[a] \in 1..run
                       /\ {strategy[a], finished[a]} \subseteq 0..nreq
                       /\ exps[a] \in Nat
    /\ registry \subseteq AAs \X (1..run)
    /\ timer \in [HLAs -> {"off", "STARTUP", "STARTUP_REINIT"}]
    /\ op \in {"gather", "analysis", "restart", "phase", "again", "search", "none", "final"}
    /\ stage \in {"run", "terminating", "restarted", "calltree"}
    /\ loop \in {"off", "STARTUP", "STARTUP_REINIT", "APPLICATION_TERMINATION", "REQUESTCALLTREE"}
    /\ {ended, timerOn, need_restart, restart_requested, shutdown_allowed, quit_fe, quitting, executed}
          \subseteq BOOLEAN
    /\ trees \subseteq AAs

PropsIn(s) == UNION {s[i].props : i \in {j \in DOMAIN s : s[j].type = "foundprop"}}

\* The properties on their way to the frontend.
Travelling == UNION ({PropsIn(up[n]) : n \in Agents}
                     \cup {{found[a][i] : i \in DOMAIN found[a]} : a \in AAs}
                     \cup {properties[h] : h \in HLAs})

\* Every property an agent ever found is in exactly one place: with the agent,
\* in a stream, kept by a high-level agent for clustering, received by the
\* frontend, or filed (the properties of a gather stay with the frontend until
\* its call-tree has arrived).  No check, restart or repeated request loses or
\* doubles one.
NothingLostOrDoubled ==
    LET filed == {e.prop : e \in pools}
    IN /\ \A a \in AAs : {p.n : p \in {q \in Travelling \cup metaproperties \cup filed : q.aa = a}}
                           = 1..nprops[a]
       /\ Travelling \cap (metaproperties \cup filed) = {}
       /\ metaproperties \cap filed # {} => op = "gather" /\ stage = "calltree"
       /\ Cardinality(pools) = Cardinality(filed)

WorkRequests == {"start", "startexperiment", "check"}
Reports == SearchRequests \cup {"foundprop", "propertiessent"}

\* When the frontend leaves an event loop in which it waited for a search, the
\* search is over everywhere: no experiment runs, no request for one and no
\* report of one is on its way, and every property has been delivered.
RoundOver ==
    LoopEnded /\ loop \in {"STARTUP", "STARTUP_REINIT"} =>
        /\ \A a \in AAs : ~started[a]
        /\ \A n \in Agents : \A i \in DOMAIN down[n] : down[n][i].type \notin WorkRequests
        /\ \A n \in Agents : \A i \in DOMAIN up[n] : up[n][i].type \notin Reports
        /\ Travelling = {}

\* An agent only has an experiment running on processes of the current run of
\* the application, and none on processes that were terminated, although the
\* frontend starts a phase after a restart without waiting for the agents to
\* have found the new processes.
ExperimentsOnCurrentRun ==
    \A a \in AAs : started[a] => attached[a] = run /\ proc[a] # "terminated"

\* The application is started again only when every process of the run before
\* has terminated and is no longer registered, and no agent has an experiment
\* running on it.
RestartOnlyWhenDown ==
    [][run' # run => registry = {} /\ \A a \in AAs : proc[a] = "terminated" /\ ~started[a]]_vars

\* Unless the plugin or a new instrumentation calls for it, the application is
\* restarted only after some process of it came to its end before the search did.
RestartOnlyAtEnd ==
    [][need_restart' /\ ~need_restart /\ op' # "restart" /\ ~Autoinst
         => \E a \in AAs : NeedRestart(proc[a])]_vars

\* When the frontend counts the scenarios of a phase experiment as executed,
\* every analysis agent has finished the strategy request they were sent in
\* ("the scenarios are executed if there is no restart").
ExecutedMeansFinished ==
    [][op = "phase" /\ op' \notin {"phase", "again"} =>
         executed' /\ \A a \in AAs : finished[a] = nreq]_vars

\* run_analysis ends when every agent has finished the search, and before that
\* only once its last permitted run has ended too, or when the agents did not
\* start in time.
SearchEndsFinished ==
    [][op = "search" /\ op' = "none" =>
         \/ \A a \in AAs : finished[a] = nreq
         \/ quit_fe /\ runs' = MaxAnalysisRuns
         \/ quit_fe /\ TimeOuts /\ \A a \in AAs : strategy[a] = 0]_vars

\* When the frontend goes on after it asked for the call-tree, it has one, unless
\* the agents could not finish the search: it uses the root without a check.
CalltreeArrived ==
    [][stage = "calltree" /\ stage' # "calltree" /\ (\A a \in AAs : finished[a] = nreq)
         => trees # {}]_vars

\* Tuning without regard to messages and event loops.  A request is in progress
\* until its results are taken; an experiment that is repeated is one request.
Mode == CASE op = "again" \/ (op = "phase" /\ ~(stage = "calltree" /\ executed)) -> "experiment"
          [] op \in {"gather", "analysis"} /\ stage # "calltree" -> "analysis"
          [] OTHER -> "idle"

Busy == {a \in AAs : started[a]}
AnalysisRestarted == op \in {"gather", "analysis"} /\ stage = "restarted"
Unfiled == (Travelling \cup metaproperties) \ {e.prop : e \in pools}

Rounds == INSTANCE SearchRounds WITH
    Workers <- AAs, Delayed <- IF HasDelay THEN {1} ELSE {},
    mode <- Mode, request <- nreq, running <- Busy, done <- finished,
    restarted <- AnalysisRestarted, results <- Unfiled, filed <- pools

\* Tuning implements SearchRounds: whatever the hierarchy, the order of the
\* messages and the restarts, each request is worked on by every agent, ends when
\* it is finished and not before, and has all its results filed when it does.
ImplementsRounds == Rounds!Spec

\* What a time-out leads to: the frontend waits for agents it has told to quit,
\* or for a high-level agent that has stopped.
WaitsForNobody ==
    TimeOuts /\ \/ quit_fe /\ ~quitting /\ ~ended
                \/ ~quit_fe /\ \E h \in HLAs : alive[h] = "down"

\* Every operation the frontend begins comes to its end, unless a time-out
\* leaves it waiting for agents that are gone: a time-out of the start ends the
\* search, only one in the middle of a restart is not recovered from.
OperationsEnd == op # "none" ~> op \in {"none", "final"} \/ WaitsForNobody

\* At the end all agents are told to quit and do.
AllQuit == <>Terminated
==============================================================================
