----------------------------- MODULE DataProvider -----------------------------
(***************************************************************************)
(* One analysis agent and the application processes it controls: the MRI   *)
(* protocol of DataProvider over one connection per process, with the      *)
(* read-ahead buffer all connections share (sockets.c), and the handlers   *)
(* of the agent that use it.  The agent is sequential; one action goes     *)
(* from one of its blocking reads to the next.                             *)
(*                                                                         *)
(* The processes (Score-P) and the frontend are external: they do what the *)
(* agent's code expects of them.  A line or a buffer is one message, and   *)
(* what is measured is the set of metrics; the evaluation of properties    *)
(* and the call-tree are left out.  A write to a dead process is lost (the *)
(* signal it may raise would end the agent).                               *)
(***************************************************************************)
EXTENDS Integers, FiniteSetsExt, SequencesExt

CONSTANTS NumProcs,  \* processes the agent controls
          PapiSet,   \* metric2papiset of each metric; NoSet for a metric that is no PAPI counter
          NoSet,
          Cases,     \* what the agents are asked to do, see CasesAssumption
          MaxRuns    \* bound: runs of the application

Procs   == 1 .. NumProcs
Metrics == DOMAIN PapiSet

\* The other words of the protocol.
Words == {"setnumiterations", "beginrequests", "endrequests", "tuningaction", "runtostart", "runtoend",
          "getsummarydata"}

ASSUME CasesAssumption ==
    /\ NumProcs \in Nat \ {0} /\ MaxRuns \in Nat \ {0}
    /\ IsFiniteSet(Metrics) /\ Metrics \cap Words = {}
    /\ \A c \in Cases :
          /\ c.tuning \in BOOLEAN          \* scenarios of a plugin, or run_analysis
          /\ c.wanted \subseteq Metrics    \* the metrics a step of the strategy requests
          /\ c.steps \in Nat               \* further steps of the strategy
          /\ c.searches \in Nat \ {0}      \* strategy requests
          /\ c.burst \in Nat               \* setIterationBurstLength, or 0
          /\ c.delay \in Nat               \* delay_phases
          /\ c.userPhase \in BOOLEAN       \* the phase region is not the main region
          /\ c.iterations \in Nat \ {0}    \* phases per experiment
          /\ c.phases # {} /\ c.phases \subseteq Nat \* phases in a run of the application,
          /\ c.endless \in BOOLEAN         \* or more than it will be asked for
          /\ c.crash \in BOOLEAN           \* a process may die
          /\ c.traced \subseteq Procs      \* these send lines of trace data while they run

VARIABLES
    case,      \* the case of this behaviour
    order,     \* the last message between the agent and the frontend
    runs, searches, \* so far
    pc, cur,   \* where the agent blocks, and the process it reads from
    then,      \* what follows the pass over the processes it is in
    executing, \* the local variable of wait and still_executing
    delays,    \* delay phases still to skip
    todo,      \* requests still to be sent; the first is being sent to one process after the other
    received,  \* the buffers received from the process
    gathered,  \* getResults returned ALL_INFO_GATHERED
    state,     \* status.state of each process
    requests, backup, burst, pending, \* measurement_requests and its backup, burst_counter, old_requests_pending
    tuning,    \* there are tuning_requests
    steps,     \* further steps of the strategy
    ahead,     \* what socket_my_read has read ahead
    down, up,  \* the two streams of each connection
    proc,      \* the processes
    got,       \* the metrics received from each process since they were requested
    results    \* the experiments evaluated since then

frontendVars == <<case, runs, searches>>
requestVars  == <<requests, backup, burst, pending, tuning, steps>>
resultVars   == <<gathered, got, results>>
streamVars   == <<ahead, down, up>>
agentVars    == <<frontendVars, order, pc, cur, then, executing, delays, todo, received, state,
                  requestVars, resultVars>>
vars == <<agentVars, streamVars, proc>>

-----------------------------------------------------------------------------
(* The processes (external): suspended, running to the start or to the end *)
(* of the phase region, or dead; at the start of a phase, elsewhere, or at *)
(* their exit.                                                             *)

FreshProcess(n) == [is |-> "suspended", at |-> "outside", left |-> n, iterations |-> 1,
                 asked |-> {}, measured |-> {}]

Buffers == <<"MERGED_REGION_DEFINITIONS", "FLAT_PROFILE", "METRIC_DEFINITIONS",
             "CALLTREE_DEFINITIONS", "RTS_MEASUREMENTS">>

Message(p, kind, data) == [from |-> p, run |-> runs, kind |-> kind, data |-> data]
Says(p, kind) == up' = [up EXCEPT ![p] = Append(@, Message(p, kind, {}))]

Summary(p) == [i \in DOMAIN Buffers |->
                 Message(p, Buffers[i], IF Buffers[i] = "FLAT_PROFILE" THEN proc[p].measured ELSE {})]

Obey(p) ==
    /\ proc[p].is = "suspended" /\ down[p] # <<>>
    /\ down' = [down EXCEPT ![p] = Tail(@)]
    /\ LET c == Head(down[p]) IN
       \/ /\ c = "setnumiterations"
          /\ proc' = [proc EXCEPT ![p].iterations = case.iterations] /\ UNCHANGED up
       \/ /\ c = "beginrequests"
          /\ proc' = [proc EXCEPT ![p].asked = {}] /\ Says(p, "OK")
       \/ /\ c \in Metrics
          /\ proc' = [proc EXCEPT ![p].asked = @ \cup {c}] /\ Says(p, "OK")
       \/ c \in {"tuningaction", "endrequests"} /\ Says(p, "OK") /\ UNCHANGED proc
       \/ c \in {"runtostart", "runtoend"} /\ proc' = [proc EXCEPT ![p].is = c] /\ UNCHANGED up
       \/ /\ c = "getsummarydata"
          /\ up' = [up EXCEPT ![p] = @ \o Summary(p)] /\ UNCHANGED proc
    /\ UNCHANGED <<agentVars, ahead>>

\* A running process reaches what it was told to run to, or its exit.
Stop(p) ==
    /\ proc[p].is \in {"runtostart", "runtoend"}
    /\ LET q    == proc[p]
           need == IF q.is = "runtoend" THEN q.iterations ELSE IF q.at = "start" THEN 2 ELSE 1
           done == IF q.is = "runtoend" THEN need ELSE need - 1
           exits == ~case.userPhase \/ (q.left < need /\ ~case.endless)
       IN  /\ proc' = [proc EXCEPT ![p] =
                 [q EXCEPT !.is = "suspended",
                           !.at = IF exits THEN "exit" ELSE IF q.is = "runtostart" THEN "start" ELSE "outside",
                           !.left = IF exits THEN 0 ELSE IF case.endless THEN @ ELSE @ - done,
                           !.measured = IF q.is = "runtoend" /\ (exits => ~case.userPhase) THEN q.asked ELSE {}]]
           /\ Says(p, IF exits THEN "SUSPENDEDATEND" ELSE "SUSPENDED")
    /\ UNCHANGED <<agentVars, ahead, down>>

\* A running process sends a line of trace data.
Trace(p) ==
    /\ p \in case.traced /\ proc[p].is \in {"runtostart", "runtoend"} /\ up[p] = <<>>
    /\ Says(p, "TRACEDATA")
    /\ UNCHANGED <<agentVars, ahead, down, proc>>

Die(p) ==
    /\ case.crash /\ proc[p].is # "dead"
    /\ proc' = [proc EXCEPT ![p].is = "dead"]
    /\ down' = [down EXCEPT ![p] = <<>>]
    /\ UNCHANGED <<agentVars, ahead, up>>

Process(p) == Obey(p) \/ Stop(p) \/ Trace(p) \/ Die(p)

-----------------------------------------------------------------------------
(* sockets.c.                                                              *)

CanRead == ahead # <<>> \/ up[cur] # <<>>
Line    == IF ahead # <<>> THEN Head(ahead) ELSE Head(up[cur])

\* socket_my_read: whatever was read ahead comes first; read returns any part of the stream.
Read ==
    \/ ahead # <<>> /\ ahead' = Tail(ahead) /\ UNCHANGED up
    \/ /\ ahead = <<>>
       /\ \E k \in DOMAIN up[cur] :
             /\ ahead' = SubSeq(up[cur], 2, k)
             /\ up' = [up EXCEPT ![cur] = SubSeq(@, k + 1, Len(@))]

\* A line of length 0: the process has closed the connection.
Eof == ~CanRead /\ proc[cur].is = "dead"

\* The stream d after command c to process p, and after c to every process.
Written(d, p, c) == IF proc[p].is = "dead" THEN d ELSE [d EXCEPT ![p] = Append(@, c)]
ToAll(d, c)      == [p \in Procs |-> Written(d, p, c)[p]]

-----------------------------------------------------------------------------
(* The pass over the working processes, in wait and still_executing.       *)

NextWorking(s, p) == Min({q \in p .. NumProcs : s[q] = "working"} \cup {NumProcs + 1})

StartPass ==
    pc' = "pass" /\ cur' = NextWorking(state', 1) /\ executing' = FALSE

\* stop_on_start_region and stop_on_end_region, up to the first line awaited.
RunTo(c, t) ==
    /\ down' = ToAll(down, c) /\ state' = [p \in Procs |-> "working"]
    /\ then' = t /\ StartPass

\* Mutant: any line a process sends tells that it has stopped.
Mutant_KeepsRunning_No(kind) == FALSE

\* Any line but the two verdicts tells that the process still runs.
KeepsRunning(kind) == kind \notin {"SUSPENDED", "SUSPENDEDATEND"}

PassReads ==
    /\ pc = "pass" /\ cur \in Procs
    /\ \/ /\ CanRead /\ Read
          /\ executing' = (executing \/ KeepsRunning(Line.kind))
          /\ state' = [state EXCEPT ![cur] = IF Line.kind = "SUSPENDED" THEN "suspended"
                                             ELSE IF Line.kind = "SUSPENDEDATEND" THEN "atend" ELSE @]
       \/ Eof /\ UNCHANGED <<executing, state, ahead, up>>
    /\ cur' = NextWorking(state', cur + 1)
    /\ UNCHANGED <<frontendVars, order, pc, then, delays, todo, received, requestVars, resultVars, down, proc>>

\* Some process was still running: the loop of wait, or the next call of handle_step.
PassAgain ==
    /\ pc = "pass" /\ cur \notin Procs /\ executing
    /\ UNCHANGED state /\ StartPass
    /\ UNCHANGED <<frontendVars, order, then, delays, todo, received, requestVars, resultVars, streamVars, proc>>

PassOver(t) == pc = "pass" /\ cur \notin Procs /\ ~executing /\ then = t

\* test_need_restart, and no_wait () of a process suspended at its end.
NeedRestart == (\A p \in Procs : state[p] # "working") /\ \E p \in Procs : state[p] = "atend"

Tell(m) == order' = m /\ pc' = "idle"

-----------------------------------------------------------------------------
(* Requests.                                                               *)

\* addMeasurementRequest, addTuningRequest: what a step of the strategy asks for.
AddRequests ==
    /\ requests' = requests \cup case.wanted
    /\ tuning' = case.tuning
    /\ burst' = IF case.burst > 0 THEN case.burst ELSE burst
    /\ backup' = IF case.burst > 0 THEN requests' ELSE backup
    /\ got' = [p \in Procs |-> {}] /\ results' = 0
    /\ UNCHANGED <<pending, gathered>>

\* addMeasurementRequest aborts while old requests are pending.
Refused == pending /\ case.wanted # {}
Abort ==
    /\ pc' = "aborted"
    /\ UNCHANGED <<order, requestVars, resultVars>>

\* formRequestSet: the metrics without a set, and those of a most populated one.
InSet(s) == {m \in requests : PapiSet[m] = s}
PapiSets == {PapiSet[m] : m \in requests} \ {NoSet}
RequestSets ==
    IF PapiSets = {} THEN {requests}
    ELSE {InSet(NoSet) \cup InSet(s) :
             s \in {t \in PapiSets : \A u \in PapiSets : Cardinality(InSet(u)) <= Cardinality(InSet(t))}}

\* Mutant: requests that were not submitted are lost.
Mutant_Unsubmitted_Lost(chosen) == {}

\* Requests that were not submitted are pushed back to the list.
Unsubmitted(chosen) == requests \ chosen

\* transfer_requests_to_processes, up to the first OK awaited.
Transfer ==
    /\ down' = Written(ToAll(down, "setnumiterations"), 1, "beginrequests")
    /\ pc' = "begin" /\ cur' = 1

\* wait_for_ok: a line that is not OK is ignored.
AwaitsOk(at) == pc = at /\ CanRead /\ Read
IgnoresLine ==
    UNCHANGED <<pc, cur, then, executing, todo, state, requestVars, down>>

\* Every process is asked before the next request is sent; the end of the requests goes to all.
SendNext(list) ==
    /\ todo' = list /\ cur' = 1
    /\ IF list = <<>>
       THEN down' = ToAll(down, "endrequests") /\ pc' = "end"
       ELSE down' = Written(down, 1, Head(list)) /\ pc' = "request"

\* Behind the last OK: formRequestSet and the requests themselves.
SendRequests ==
    /\ \E chosen \in RequestSets :
          /\ requests' = Unsubmitted(chosen)
          /\ SendNext((IF tuning THEN <<"tuningaction">> ELSE <<>>) \o SetToSeq(chosen))
    /\ tuning' = FALSE
    /\ UNCHANGED <<backup, burst, pending, steps, then, executing, state>>

BeginRequestsOk ==
    /\ AwaitsOk("begin")
    /\ IF Line.kind # "OK" THEN IgnoresLine
       ELSE IF cur = NumProcs THEN SendRequests
       ELSE /\ down' = Written(down, cur + 1, "beginrequests") /\ cur' = cur + 1
            /\ UNCHANGED <<pc, then, executing, todo, state, requestVars>>
    /\ UNCHANGED <<frontendVars, order, delays, received, resultVars, proc>>

RequestOk ==
    /\ AwaitsOk("request")
    /\ IF Line.kind # "OK" THEN IgnoresLine
       ELSE IF cur = NumProcs THEN SendNext(Tail(todo)) /\ UNCHANGED <<then, executing, state, requestVars>>
       ELSE /\ down' = Written(down, cur + 1, Head(todo)) /\ cur' = cur + 1
            /\ UNCHANGED <<pc, then, executing, todo, state, requestVars>>
    /\ UNCHANGED <<frontendVars, order, delays, received, resultVars, proc>>

\* After the last OK: start_experiment, Experiment::begin.
EndRequestsOk ==
    /\ AwaitsOk("end")
    /\ IF Line.kind # "OK" THEN IgnoresLine
       ELSE IF cur = NumProcs THEN RunTo("runtoend", "evaluate") /\ UNCHANGED <<todo, requestVars>>
       ELSE cur' = cur + 1 /\ UNCHANGED <<pc, then, executing, todo, state, requestVars, down>>
    /\ UNCHANGED <<frontendVars, order, delays, received, resultVars, proc>>

-----------------------------------------------------------------------------
(* The handlers of the agent.                                              *)

SkipPhase(t, left) == RunTo("runtostart", t) /\ delays' = left

\* on_start behind the delay.
StartSearch ==
    IF NeedRestart
    THEN Tell(IF case.delay > 0 THEN "searchfinished" ELSE "needrestart") /\ UNCHANGED <<cur, down, requestVars, resultVars>>
    ELSE IF Refused
    THEN Abort /\ UNCHANGED <<cur, down>>
    ELSE AddRequests /\ steps' = case.steps /\ Transfer /\ UNCHANGED order

OnStart ==
    /\ pc = "idle" /\ order = "start"
    /\ IF case.delay > 0
       THEN SkipPhase("delayed", case.delay - 1) /\ UNCHANGED <<order, requestVars, resultVars>>
       ELSE StartSearch /\ UNCHANGED <<then, executing, delays, state>>
    /\ UNCHANGED <<frontendVars, todo, received, ahead, up, proc>>

Delayed ==
    /\ PassOver("delayed")
    /\ IF delays > 0
       THEN SkipPhase("delayed", delays - 1) /\ UNCHANGED <<order, requestVars, resultVars>>
       ELSE StartSearch /\ UNCHANGED <<then, executing, delays, state>>
    /\ UNCHANGED <<frontendVars, todo, received, ahead, up, proc>>

OnStartExperiment ==
    /\ pc = "idle" /\ order = "startexperiment"
    /\ IF NeedRestart
       THEN Tell("needrestart") /\ UNCHANGED <<cur, down>>
       ELSE Transfer /\ UNCHANGED order
    /\ UNCHANGED <<frontendVars, then, executing, delays, todo, received, state, requestVars, resultVars,
                   ahead, up, proc>>

\* The connections are those to the new processes: app_finish and reinit.
OnReinit ==
    /\ pc = "idle" /\ order = "reinit"
    /\ IF case.delay > 0
       THEN SkipPhase("redelayed", case.delay - 1) /\ UNCHANGED order
       ELSE /\ Tell("ready") /\ state' = [p \in Procs |-> "suspended"]
            /\ UNCHANGED <<cur, then, executing, delays, down>>
    /\ UNCHANGED <<frontendVars, todo, received, requestVars, resultVars, ahead, up, proc>>

Redelayed ==
    /\ PassOver("redelayed")
    /\ IF delays > 0
       THEN SkipPhase("redelayed", delays - 1) /\ UNCHANGED order
       ELSE Tell("ready") /\ UNCHANGED <<cur, then, executing, delays, state, down>>
    /\ UNCHANGED <<frontendVars, todo, received, requestVars, resultVars, ahead, up, proc>>

\* evaluate_experiment, up to the first buffer awaited in getResults.
Evaluate ==
    /\ PassOver("evaluate")
    /\ IF case.userPhase /\ NeedRestart
       THEN Tell("needrestart") /\ UNCHANGED <<cur, received, down>>
       ELSE /\ down' = Written(down, 1, "getsummarydata")
            /\ pc' = "buffer" /\ cur' = 1 /\ received' = 0 /\ UNCHANGED order
    /\ UNCHANGED <<frontendVars, then, executing, delays, todo, state, requestVars, resultVars, ahead, up, proc>>

\* Mutant: the run-time situations are not received, as if they were not sent either.
Mutant_Further_SkipsRts(n) == IF n = 3 THEN 5 ELSE n + 1

\* The buffers received from a process with one more.
Further(n) == n + 1

\* blockingBufferReceive and the loop over the processes; getResults aborts at any other line.
ReceiveBuffer ==
    /\ pc = "buffer" /\ CanRead /\ Read
    /\ IF Line.kind # Buffers[received + 1]
       THEN pc' = "aborted" /\ UNCHANGED <<cur, received, got, down>>
       ELSE /\ got' = [got EXCEPT ![cur] = @ \cup Line.data]
            /\ \/ Further(received) < 5 /\ received' = Further(received) /\ UNCHANGED <<pc, cur, down>>
               \/ /\ Further(received) = 5 /\ cur < NumProcs
                  /\ cur' = cur + 1 /\ received' = 0
                  /\ down' = Written(down, cur + 1, "getsummarydata") /\ UNCHANGED pc
               \/ /\ Further(received) = 5 /\ cur = NumProcs
                  /\ pc' = "results" /\ received' = 5 /\ UNCHANGED <<cur, down>>
    /\ UNCHANGED <<frontendVars, order, then, executing, delays, todo, state, requestVars, gathered, results, proc>>

\* Mutant: the counter is decremented whatever it is.
Mutant_Counted_Always(b) == b - 1

Counted(b) == IF b > 0 THEN b - 1 ELSE b

\* Mutant: the flag is never reset.
Mutant_StillPending_Kept(all, b) == pending \/ (~all /\ b = 0)

\* old_requests_pending after the results, with b experiments of the burst left.
StillPending(all, b) == ~all /\ (b = 0 \/ pending)

\* The rest of getResults, and evaluate_experiment up to the end of the wait in it.
Results ==
    /\ pc = "results"
    /\ LET b == Counted(burst)
           all == requests = {} /\ b = 0
       IN  /\ burst' = b /\ gathered' = all /\ pending' = StillPending(all, b)
           /\ requests' = IF requests = {} /\ b > 0 THEN backup ELSE requests
    /\ results' = results + 1
    /\ IF NeedRestart
       THEN pc' = "verdict" /\ UNCHANGED <<cur, then, executing, state, down>>
       ELSE RunTo("runtostart", "tostart")
    /\ UNCHANGED <<frontendVars, order, delays, todo, received, backup, tuning, steps, got, ahead, up, proc>>

AtStart ==
    /\ PassOver("tostart") /\ pc' = "verdict"
    /\ UNCHANGED <<frontendVars, order, cur, then, executing, delays, todo, received, state,
                   requestVars, resultVars, streamVars, proc>>

\* appropriate_request
AppropriateRequest == Tell(IF NeedRestart THEN "needrestart" ELSE "reqexperiment")

\* The end of evaluate_experiment, with evaluateAndReqNextExperiment.
Verdict ==
    /\ pc = "verdict"
    /\ \/ ~gathered /\ AppropriateRequest /\ UNCHANGED <<requestVars, resultVars>>
       \/ /\ gathered /\ steps > 0
          /\ IF Refused THEN Abort ELSE AddRequests /\ steps' = steps - 1 /\ AppropriateRequest
       \/ gathered /\ steps = 0 /\ Tell("searchfinished") /\ UNCHANGED <<requestVars, resultVars>>
    /\ UNCHANGED <<frontendVars, cur, then, executing, delays, todo, received, state, streamVars, proc>>

Agent ==
    \/ OnStart \/ OnStartExperiment \/ OnReinit
    \/ BeginRequestsOk \/ RequestOk \/ EndRequestsOk
    \/ PassReads \/ PassAgain \/ Delayed \/ Redelayed \/ Evaluate \/ AtStart
    \/ ReceiveBuffer \/ Results \/ Verdict

-----------------------------------------------------------------------------
(* The frontend (external), with the other agents left out: what it makes  *)
(* of the answers of this one; see module Frontend.                        *)

\* Another run: the old processes are told to terminate, and the new ones are suspended.
Rerun ==
    /\ order = "needrestart" /\ runs < MaxRuns
    /\ runs' = runs + 1 /\ order' = "reinit"
    /\ \E n \in case.phases : proc' = [p \in Procs |-> FreshProcess(n)]
    /\ down' = [p \in Procs |-> <<>>] /\ up' = [p \in Procs |-> <<>>]
    /\ UNCHANGED <<searches, ahead>>

Answer ==
    /\ \/ order = "reqexperiment" /\ order' = "startexperiment" /\ UNCHANGED searches
       \/ /\ order = "ready" /\ order' = IF case.tuning THEN "start" ELSE "startexperiment"
          /\ UNCHANGED searches
       \/ /\ order = "searchfinished" /\ searches < case.searches
          /\ order' = "start" /\ searches' = searches + 1
       \/ order = "searchfinished" /\ searches = case.searches /\ order' = "done" /\ UNCHANGED searches
       \/ order = "needrestart" /\ runs = MaxRuns /\ order' = "done" /\ UNCHANGED searches
    /\ UNCHANGED <<runs, proc, streamVars>>

TheFrontend ==
    /\ pc = "idle" /\ (Rerun \/ Answer)
    /\ UNCHANGED <<case, pc, cur, then, executing, delays, todo, received, state, requestVars, resultVars>>

Init ==
    /\ case \in Cases
    /\ order = "start" /\ runs = 1 /\ searches = 1
    /\ pc = "idle" /\ cur = 1 /\ then = "evaluate" /\ executing = FALSE /\ delays = 0
    /\ todo = <<>> /\ received = 0 /\ state = [p \in Procs |-> "suspended"]
    /\ requests = {} /\ backup = {} /\ burst = 0 /\ pending = FALSE /\ tuning = FALSE /\ steps = 0
    /\ gathered = FALSE /\ got = [p \in Procs |-> {}] /\ results = 0
    /\ ahead = <<>> /\ down = [p \in Procs |-> <<>>] /\ up = [p \in Procs |-> <<>>]
    /\ \E n \in case.phases : proc = [p \in Procs |-> FreshProcess(n)]

Next == Agent \/ TheFrontend \/ \E p \in Procs : Process(p)

Spec == Init /\ [][Next]_vars

\* Nobody else runs the agent, the frontend answers, and a process reads its commands and
\* comes to the end of what it was told to run.
Fairness ==
    /\ WF_vars(Agent) /\ WF_vars(TheFrontend)
    /\ \A p \in Procs : WF_vars(Obey(p)) /\ WF_vars(Stop(p))

FairSpec == Spec /\ Fairness

-----------------------------------------------------------------------------
(* Properties.                                                             *)

TypeOK ==
    /\ case \in Cases /\ runs \in 1 .. MaxRuns /\ searches \in 1 .. case.searches
    /\ order \in {"start", "startexperiment", "reinit", "ready", "reqexperiment", "needrestart",
                  "searchfinished", "done"}
    /\ pc \in {"idle", "begin", "request", "end", "pass", "buffer", "results", "verdict", "aborted"}
    /\ cur \in 1 .. NumProcs + 1 /\ executing \in BOOLEAN
    /\ then \in {"delayed", "redelayed", "evaluate", "tostart"}
    /\ delays \in Nat /\ burst \in Nat /\ steps \in Nat /\ results \in Nat
    /\ todo \in Seq(Metrics \cup {"tuningaction"}) /\ received \in 0 .. 5
    /\ state \in [Procs -> {"working", "suspended", "atend"}]
    /\ requests \subseteq Metrics /\ backup \subseteq Metrics
    /\ pending \in BOOLEAN /\ tuning \in BOOLEAN /\ gathered \in BOOLEAN
    /\ got \in [Procs -> SUBSET Metrics]

\* A pass reads one line of each process and turns to the next, whose reader is given what was read
\* ahead behind the line: a verdict behind trace data strays.  Only if the last process alone writes
\* trace data, and none dies, the next reader is that of the same process.
Strays == case.traced # {} /\ (case.traced # {NumProcs} \/ case.crash)

\* What was read ahead on one connection is never handed to the reader of another, nor to one of
\* the next run: the static buffer of socket_my_read is used up before the agent turns elsewhere.
\* Except where lines stray: then those of processes that write trace data do so, in a pass.  If
\* processes die besides, the answers of others may fall behind, and stray as well.
OwnAnswers ==
    [][ahead # <<>> /\ ahead' = Tail(ahead) =>
          \/ Head(ahead).from = cur /\ Head(ahead).run = runs
          \/ Strays /\ (case.crash \/ (Head(ahead).from \in case.traced /\ pc = "pass"))]_ahead

\* No process is sent a command while it runs: wait and still_executing do not end before the
\* last process has stopped, whatever it writes meanwhile, and even where lines stray.  Except that
\* the reader of a process may be given a strayed verdict, and the process it came from die.
NoCommandWhileRunning ==
    \/ Strays /\ case.crash
    \/ \A p \in Procs : proc[p].is \in {"runtostart", "runtoend"} => down[p] = <<>>

\* evaluateAndReqNextExperiment is called when every process has been measured for every metric
\* its strategy had requested, in as many experiments as the burst is long: not after the requests
\* of one set only, not after a process died, not after an experiment that the application cut short.
EvaluatedMeansMeasured ==
    pc = "verdict" /\ gathered =>
       results >= case.burst /\ \A p \in Procs : case.wanted \subseteq got[p]

\* A process that writes trace data has stopped, and the line that says so was taken for another's:
\* the agent waits for it for ever.
VerdictLost(p) ==
    /\ p \in case.traced /\ state[p] = "working"
    /\ proc[p].is = "suspended" /\ down[p] = <<>> /\ up[p] = <<>>
    /\ \A i \in DOMAIN ahead : ahead[i].from # p

\* In tuning the application has ended when some requests of a step had been measured and others
\* had not: after the restart the scenarios are sent again, and their requests refused.
CutBetweenSets == pc = "aborted" /\ case.tuning /\ runs > 1 /\ order = "start" /\ pending

\* The searches come to an end.  What may keep them from it is that a process dies, for which the
\* agent waits for ever, and the two cases above.  In no other does the agent abort, neither for new
\* requests while old ones are pending (addMeasurementRequest) nor for a line of a process it did not
\* expect (getResults), or wait for ever.
SearchEnds ==
    <>(order = "done" \/ CutBetweenSets \/ \E p \in Procs : proc[p].is = "dead" \/ VerdictLost(p))
=============================================================================
