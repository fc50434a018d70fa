--------------------------- MODULE AnalysisAgent ---------------------------
(***************************************************************************)
(* The analysis agent: the handlers of accl_mrinodeagent_handler.cc, the   *)
(* timer step of analysisagent.cc and, of DataProvider.cc, what they need  *)
(* of the application processes the agent controls.  The processes of an   *)
(* agent are one value, the ApplicationState that no_wait computes.        *)
(***************************************************************************)
EXTENDS AgentTree

CONSTANTS UserPhase,  \* the phase region is not the main region of the application
          MaxRuns,    \* bound: only the runs before the MaxRuns-th may end early
          MaxExp      \* bound: experiments a strategy asks for in one search

ASSUME AgentAssumption == UserPhase \in BOOLEAN /\ MaxRuns \in Nat /\ MaxExp \in Nat

VARIABLES proc,      \* proc[a]: state of the processes a controls
          attached,  \* attached[a]: the application run these processes belong to
          started,   \* started[a]: an experiment has begun and is not evaluated
          strategy,  \* strategy[a]: id of the strategy request a works on, 0 before the first
          delay,     \* delay[a]: the phases to skip are not zero
          exps,      \* exps[a]: experiments evaluated for the current strategy request
          found,     \* found[a]: foundProperties
          nprops,    \* nprops[a]: properties found since the agent started
          finished,  \* finished[a]: the last strategy request a reported as finished
          newRts,    \* newRts[a]: there are call-tree nodes to serialize
          run,       \* the current run of the application
          registry   \* the application processes registered, as <<agent, run>>

aaVars == <<proc, attached, started, strategy, delay, exps, found, nprops, finished, newRts>>
appVars == <<run, registry>>

ProcState == {"suspended", "working", "atend", "terminated"}

\* A property: found by aa, as its n-th, while it worked on strategy request req.
Property(a) == [aa |-> a, n |-> nprops[a] + 1, req |-> strategy[a]]

AAInit ==
    /\ proc = [a \in AAs |-> "suspended"]
    /\ attached = [a \in AAs |-> 1]
    /\ started = [a \in AAs |-> FALSE]
    /\ strategy = [a \in AAs |-> 0]
    /\ delay = [a \in AAs |-> FALSE]
    /\ exps = [a \in AAs |-> 0]
    /\ found = [a \in AAs |-> <<>>]
    /\ nprops = [a \in AAs |-> 0]
    /\ finished = [a \in AAs |-> 0]
    /\ newRts = [a \in AAs |-> FALSE]
    /\ run = 1
    /\ registry = {<<a, 1>> : a \in AAs}

-----------------------------------------------------------------------------
(* DataProvider.                                                           *)

\* wait, still_executing: where processes told to run stop.  Processes that
\* have reached the end of the application stay there.
StopsAt(s) == IF s \in {"atend", "terminated"} THEN {s}
              ELSE IF run < MaxRuns THEN {"suspended", "atend"} ELSE {"suspended"}

\* test_need_restart
NeedRestart(s) == s \in {"atend", "terminated"}

\* app_finish: the processes not yet terminated are, and are unregistered.
RegistryAfterFinish(a) ==
    IF proc[a] = "terminated" THEN registry ELSE registry \ {<<a, attached[a]>>}

-----------------------------------------------------------------------------
(* Requests of the parent.                                                 *)

ReadRequest(a) == down' = [down EXCEPT ![a] = Tail(@)]
SendUp(a, t) == up' = [up EXCEPT ![a] = Append(@, Msg(t))]

\* Experiment::begin through start_experiment: the processes run to the end
\* of the phase region.
StartExperiment(a) ==
    /\ proc' = [proc EXCEPT ![a] = "working"]
    /\ started' = [started EXCEPT ![a] = TRUE]
    /\ UNCHANGED up

\* run: the agent is connected to its processes and reports to its parent.
AARun(a) ==
    /\ alive[a] = "starting"
    /\ alive' = [alive EXCEPT ![a] = "up"]
    /\ SendUp(a, "heartbeat")
    /\ UNCHANGED <<down, info, aaVars, appVars>>

\* on_start: only the first request of the container is read.  After the
\* delay phases the application may have come to its end: a delayed search is
\* then given up, any other asks for a restart.
AAOnStart(a) ==
    /\ HasRequest(a, "start")
    /\ LET request == Head(Head(down[a]).requests)
       IN /\ strategy' = [strategy EXCEPT ![a] = request.id]
          /\ exps' = [exps EXCEPT ![a] = 0]
          /\ delay' = [delay EXCEPT ![a] = @ \/ request.delay]
          /\ \E s \in IF request.delay THEN StopsAt(proc[a]) ELSE {proc[a]} :
                \/ /\ NeedRestart(s)
                   /\ proc' = [proc EXCEPT ![a] = s]
                   /\ IF request.delay
                      THEN SendUp(a, "searchfinished") /\ finished' = [finished EXCEPT ![a] = request.id]
                      ELSE SendUp(a, "needrestart") /\ UNCHANGED finished
                   /\ UNCHANGED started
                \/ /\ ~NeedRestart(s)
                   /\ StartExperiment(a)
                   /\ UNCHANGED finished
    /\ ReadRequest(a)
    /\ UNCHANGED <<info, alive, attached, found, nprops, newRts, appVars>>

\* on_startexperiment
AAOnStartExperiment(a) ==
    /\ HasRequest(a, "startexperiment")
    /\ ReadRequest(a)
    /\ \/ /\ NeedRestart(proc[a])
          /\ SendUp(a, "needrestart")
          /\ UNCHANGED <<proc, started>>
       \/ /\ ~NeedRestart(proc[a])
          /\ StartExperiment(a)
    /\ UNCHANGED <<info, alive, attached, strategy, delay, exps, found, nprops, finished, newRts, appVars>>

\* on_terminate
AAOnTerminate(a) ==
    /\ HasRequest(a, "terminate")
    /\ ReadRequest(a)
    /\ registry' = RegistryAfterFinish(a)
    /\ proc' = [proc EXCEPT ![a] = "terminated"]
    /\ SendUp(a, "terminated")
    /\ UNCHANGED <<info, alive, attached, started, strategy, delay, exps, found, nprops, finished, newRts, run>>

\* on_quit, and the app_finish with which the agent's main ends.
AAOnQuit(a) ==
    /\ HasRequest(a, "quit")
    /\ ReadRequest(a)
    /\ alive' = [alive EXCEPT ![a] = "down"]
    /\ registry' = RegistryAfterFinish(a)
    /\ proc' = [proc EXCEPT ![a] = "terminated"]
    /\ UNCHANGED <<up, info, attached, started, strategy, delay, exps, found, nprops, finished, newRts, run>>

\* on_check: deliver the found properties and forget them.
AAOnCheck(a) ==
    /\ HasRequest(a, "check")
    /\ ReadRequest(a)
    /\ up' = [up EXCEPT ![a] =
                @ \o [i \in 1..Len(found[a]) |-> [type |-> "foundprop", props |-> {found[a][i]}]]
                  \o <<Msg("propertiessent")>>]
    /\ found' = [found EXCEPT ![a] = <<>>]
    /\ UNCHANGED <<info, alive, proc, attached, started, strategy, delay, exps, nprops, finished, newRts, appVars>>

\* Mutant: the announcement comes before the nodes.
Mutant_CalltreeMessages_Swapped(a) ==
    <<Msg("calltreesent")>> \o (IF newRts[a] THEN <<[type |-> "calltree", aa |-> a]>> ELSE <<>>)

\* The call-tree nodes not yet sent, as one message, then calltreesent.
CalltreeMessages(a) ==
    (IF newRts[a] THEN <<[type |-> "calltree", aa |-> a]>> ELSE <<>>) \o <<Msg("calltreesent")>>

\* on_serializecalltree
AAOnSerializeCalltree(a) ==
    /\ HasRequest(a, "serializecalltree")
    /\ ReadRequest(a)
    /\ up' = [up EXCEPT ![a] = @ \o CalltreeMessages(a)]
    /\ newRts' = [newRts EXCEPT ![a] = FALSE]
    /\ UNCHANGED <<info, alive, proc, attached, started, strategy, delay, exps, found, nprops, finished, appVars>>

\* on_reinit: let go of the old processes, connect to the new ones, report to
\* the parent, and skip the delay phases again.
AAOnReinit(a) ==
    /\ HasRequest(a, "reinit")
    /\ ReadRequest(a)
    /\ registry' = RegistryAfterFinish(a)
    /\ attached' = [attached EXCEPT ![a] = run]
    /\ SendUp(a, "heartbeat")
    /\ \E s \in IF delay[a] THEN StopsAt("working") ELSE {"suspended"} :
          proc' = [proc EXCEPT ![a] = s]
    /\ UNCHANGED <<info, alive, started, strategy, delay, exps, found, nprops, finished, newRts, run>>

AAHandleRequest(a) ==
    /\ alive[a] = "up"
    /\ \/ AAOnStart(a)
       \/ AAOnStartExperiment(a)
       \/ AAOnTerminate(a)
       \/ AAOnQuit(a)
       \/ AAOnCheck(a)
       \/ AAOnSerializeCalltree(a)
       \/ AAOnReinit(a)

-----------------------------------------------------------------------------
(* The timer step.                                                         *)

\* What follows an evaluated experiment.  "incomplete": not all information is
\* gathered yet, the strategy is not asked.  "next": the strategy wants
\* another experiment.  "finished": it does not.
Verdict(a) == IF exps[a] + 1 < MaxExp THEN {"incomplete", "next", "finished"} ELSE {"finished"}

\* evaluate_experiment, once the processes have left the phase region; they are
\* sent on to the next start of the region unless they are at the end.
AAEvaluate(a) ==
    /\ alive[a] = "up"
    /\ started[a]
    /\ started' = [started EXCEPT ![a] = FALSE]
    /\ \E s \in StopsAt(proc[a]) :
          \/ /\ UserPhase /\ NeedRestart(s)
             /\ proc' = [proc EXCEPT ![a] = s]
             /\ SendUp(a, "needrestart")
             /\ UNCHANGED <<exps, found, nprops, finished, newRts>>
          \/ /\ ~(UserPhase /\ NeedRestart(s))
             /\ s # "terminated"  \* getResults on a closed socket aborts the agent
             /\ \E next \in StopsAt(s), v \in Verdict(a) :
                  /\ proc' = [proc EXCEPT ![a] = next]
                  /\ exps' = [exps EXCEPT ![a] = @ + 1]
                  /\ newRts' = [newRts EXCEPT ![a] = TRUE]
                  /\ IF v = "incomplete"
                     THEN UNCHANGED <<found, nprops>>
                     ELSE /\ found' = [found EXCEPT ![a] = Append(@, Property(a))]
                          /\ nprops' = [nprops EXCEPT ![a] = @ + 1]
                  /\ SendUp(a, IF v = "finished" THEN "searchfinished"
                               ELSE IF NeedRestart(next) THEN "needrestart" ELSE "reqexperiment")
                  /\ finished' = IF v = "finished" THEN [finished EXCEPT ![a] = strategy[a]] ELSE finished
    /\ UNCHANGED <<down, info, alive, attached, strategy, delay, appVars>>

AAStep(a) == AARun(a) \/ AAHandleRequest(a) \/ AAEvaluate(a)
==============================================================================
