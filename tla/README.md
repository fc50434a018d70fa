# Formal model of the Periscope Tuning Framework

The repository is the Periscope Tuning Framework (PTF) of the READEX project:
a frontend starts a parallel application under measurement, a tree of agents
controls its processes and searches for performance properties, and tuning
plugins run experiments (*scenarios*) on it to find better settings.

This project models the parts in which PTF is hard to get right: how the
application, the frontend and the agents find each other, and find each other
again after a restart; the protocol between the frontend and its agents, with
restarts of the application in the middle of it; the protocol between an agent
and the processes it measures; the driver that takes scenarios through their
pools while all that goes on below; the search that creates those scenarios; and
the Score-P plugin that applies their settings inside the application and takes
them back.

## 1. The system

| part | state | operations | talks to |
|---|---|---|---|
| frontend event loops (`frontend/src/frontend.cc`, `frontend_accl_handler.cc`, `frontend_statemachine.cc`) | timer action, child records, `need_restart`, `restart_requested`, request buffer, received properties | one handler per message, `handle_step` per timer action, `start`, `check`, `quit`, `restart_sequence`, `run_analysis` | its child agents by messages; the registry; the starter |
| high-level agents (`hagent/`) | child records, kept properties, timer | pass requests down, combine reports upwards, cluster properties | parent and children by messages |
| process protocol of an agent (`aagent/src/DataProvider.cc`, `registry/src/sockets.c`) | a connection and a state per process, measurement requests, burst counter, read-ahead buffer | send requests in sets that PAPI can measure together, run the processes to a region, read what they measured | application processes by the MRI protocol, a line at a time |
| analysis agents (`aagent/`) | strategy, experiment, application processes, found properties, call-tree | `on_start`, `on_startexperiment`, `on_check`, `on_terminate`, `on_reinit`, `on_serializecalltree`, `on_quit`, the timer's evaluation | parent by messages; application processes by the MRI protocol |
| autotune driver and state machine (`frontend.cc: run_tuning_plugin`, `frontend_statemachine.h/.cc`) | state, search and tuning step, `scenarios_executed`, `is_instrumented`, `just_started` | one event per step of the plugin interface | plugin calls; frontend event loops |
| scenario pools (`autotune/datamodel`) | created, prepared, experiment, finished scenarios; results | push, pop | driver, plugin, search algorithm |
| plugins and search algorithms (`autotune/plugins`, `autotune/searchalgorithms`) | search spaces, best scenario | the `IPlugin` and `ISearchAlgorithm` interfaces | pools |
| starter (`frontend/src/ApplicationStarter.cc`) | agent hierarchy | start and restart the application, compute and start the hierarchy | processes, registry |
| registry (`registry/`) | entries of agents and processes | add, query, delete | everyone |
| Score-P substrate (`scorep/`) | parameter stack and table per region | set and restore tuning parameters | the measured application |
| strategies and properties (`aagent/src/strategies`, `properties`) | measured data | numerical conditions | analysis agent |
| tuning model, cube tools, reports | finished data | output | files |

What is hard in it:

* every agent is a process of its own; a parent reads its children's messages
  in any interleaving, and decides when "all have reported" from records that
  were partly filled in earlier rounds;
* the application may end before a search does.  Then a report asks for a
  restart, the frontend terminates what is left, waits until the registry is
  empty, starts the application again and lets the agents go on, while other
  agents may have finished;
* the frontend runs several event loops after another.  A message that is late
  is read in the wrong one;
* agents are forked at the same time, take the first free port, and look each
  other up in a registry from which an agent removes itself only when it is
  destroyed, and not always then; a restart changes the ids of the processes, a
  rebuilt hierarchy reuses the tags of the agents before;
* an agent talks to many processes with blocking reads over one read-ahead
  buffer; requests may need several experiments, an experiment may be cut short,
  and a process that died looks like one that has stopped;
* the driver, the transition table and the plugin are written apart, and the
  flags they share (`scenarios_executed`, `need_restart`, `is_instrumented`,
  `just_started`) live across restarts;
* the substrate plugin restores a parameter from one stack per parameter.  That
  every exit finds the value of its own entry depends on the nesting of the
  regions, on when parameters are mapped and on how many threads there are;
* the individual search keeps its place by two counters and a vector it erases
  from.

`PROJECT.json` lists the hazards at their lines.

## 2. Modules

### AgentTree
The tree of agents (`Agents`, `Parent`; the frontend is 0), `up` and `down`,
the two FIFO streams of every edge, and `info`, the `AgentInfo` record a parent
keeps of a child.  An agent has one parent, so all the `child_agents_` maps
together are one function.  The constructor of `AgentInfo` leaves three flags
uninitialised; `TreeInit` allows either value.  `AllReported` and `Combined`
are the decision that `forward_request` (high-level agent) and
`decide_continuation` (frontend) share.

### AnalysisAgent
One action per handler of `accl_mrinodeagent_handler.cc`, and `AAEvaluate` for
the timer step.  The processes of an agent are one value of `ProcState`:
suspended, working, at the end of the application, terminated.  Where they stop
when told to run is nondeterministic (`StopsAt`), as is the strategy's verdict
on an experiment (`Verdict`).  `registry` holds the application processes
that are registered, `run` counts the starts of the application, `attached`
is the run an agent is connected to.

### HighLevelAgent
One action per handler of `hagent_accl_handler.cc`, and the timer of
`hlagent.cc`.  A clustered message holds the set of its properties.

### SearchRounds
What `Frontend` and its agents promise to the code that drives them: a request
is issued to all agents, each works and reports until it has finished it, the
application is restarted only when nothing runs on it, results are filed under
their request, and a request ends when all agents have finished it (an analysis
also after a second early end of the application).  A request behind delay
phases (`Delayed`) may be given up before its first experiment (`GiveUp`), when
the application does not reach it.  No messages, no loops, no hierarchy.
`Frontend` implements it when it tunes (`ImplementsRounds`); the mapping takes
`running` from the agents that have an experiment in progress (`Busy`), `done`
from the records of the agents, `results` from all that is on its way or noted
but not filed (`Unfiled`), and `mode` from the operation the frontend is in
(`Mode`).  Section 5 says how that is proved, and what follows from the promise
(`FiledRight`, in the same module).

### Frontend
Composes the agents with the frontend.  Handlers of
`frontend_accl_handler.cc`; `Step*`, the cases of `handle_step`; and the
sequential code between two event loops, one action from the end of a loop to
the beginning of the next (`FERestart`, `FERerun`, `FEResults`, ...).  `op`
and `stage` say which function of `frontend_statemachine.cc` or `frontend.cc`
is in progress and where.  Messages are read only inside an event loop, as in
the code.  With `TimeOuts` every wait that has a limit may exceed it:
`FETimeout` and `HLAHandleTimeout`.

### FrontendProofs, FrontendRounds
The theorems about Frontend.  FrontendProofs: its types; what a *wave* is (a
request on its way down the tree, or its answer on the way up) and what a step of
an agent does to one; the invariant with what follows from it.  FrontendRounds:
what becomes of the properties the agents find; why the frontend restarts the
application; what has become of a request when the frontend counts it as done;
and last the refinement of SearchRounds.

### AgentHierarchy
`computeAgentHierarchy` as operators: `Placement` (which processes each analysis
agent controls, per node or forced to one host), the levels above, `TagOf`,
`PortOf`, and `Hierarchy`, which gives for every tag what its agent is started
with.  The code goes from level to level; rounding up level by level is rounding
up once, so `Place` says directly which agent of a level one belongs to.

### AgentNetwork
The registry, the application and the agents from their start to the first
heartbeat at the frontend, and again after a restart or a rebuild.
`ProcessRegisters`, `ProcessExits` and `LauncherFails` are the application;
`PollSucceeds` and `PollFails` are the loops of `startApplication` and
`rerunApplication`, the first with `runAgents`; `Restart`, `Rebuild`, `Quit`,
`RestartApplication`, `WaitForShutdown`, `StartAgain` are `consider_restart`,
`terminate_agent_hierarchy`, `quit` and what follows them.  An agent goes through
`Register`, `Attach`, `FindParent`, `Connect`, `Heartbeat`, then obeys commands
(`ObeyReinit`, `ObeyTerminate`, and `TellTerminate`, `DeleteEntry` for every
process, since others look into the registry in between).  An agent that has read
`quit` is `leaving`: it still listens and is still found in the registry until
`Leave`, which is `~PeriscopeAgent` (`psc_agent.h:188`).  An analysis agent deletes
its entry there (`aagent/src/main.cc:943`); a high-level agent may or may not, for
`hlagent_main.cc` destroys the `regsrv` of line 454 before the agent of line 250; and
an agent that gave up has called `exit`, which destroys neither, so that its entry
stays.  `delete_entry` in `PeriscopeHLAgent::stop` (`hlagent.cc:135`) is compiled for
`__p575` only and left out.  The agents of the last hierarchy leave in the same way,
with nobody behind them, and are not followed (`Followed`).  `entries` and `tagged`
are the registry: the processes, which it orders by their ids (`InOrder`, `First`),
and per tag the agents in the order of theirs, which is what "the first entry"
means in the code.  The plugin's wishes for numbers of processes (`plan`) and the
command line (`opt`) are chosen at the beginning.

### AgentNetworkProofs
The theorems about AgentNetwork.

### DataProvider
One agent with its processes.  The agent is sequential, so an action goes from
one blocking read to the next (`pc` says which read: `begin`, `request`, `end` for
the OKs of `transfer_requests_to_processes`, `pass` for the pass over the working
processes in `wait` and `still_executing`, `buffer` for `getResults`).  `Read` is
`socket_my_read`: it may take any part of the stream into `ahead`, the static
buffer.  `requests`, `backup`, `burst`, `pending` and `tuning` are the variables
of the class, with its habit of forgetting requests when they are submitted.
`OnStart`, `OnStartExperiment`, `OnReinit`, `Evaluate`, `Results`, `Verdict`
are the handlers of the agent that call it.  Processes (`Obey`, `Stop`, `Trace`,
`Die`) and the frontend (`Rerun`, `Answer`) are external: the former are Score-P,
the latter is what module Frontend is about.

### DataProviderProofs
The theorems about DataProvider.

### Autotune
The driver `run_tuning_plugin`, the transition table as the relation `Rows`,
and an action per event.  A run of the agents' event loop is one step that ends
with the search or with a request for a restart: what module Frontend shows
about its inside (`ImplementsRounds`: a request ends when all agents have
finished it, and its results are filed under it) is what Autotune takes for
granted, except that a restart may deliver any part of the
results and delivers them again.  The plugin is the one of `DemoPlugin`, with
its freedom: how many scenarios a search step creates, how many are prepared at
a time, how many go into an experiment, when it wants an analysis or a restart.
`PluginContract` states what the driver expects of a plugin and does not check.

### AutotuneProofs
The theorems about Autotune.

### TuningSubstrate
The Score-P plugin inside the application: `table` (the actions requested for
each region), `mapped` and `restore` (the parameters the application has given
it access to, and whether it wants them restored), `stack` (one restore stack
per parameter), `setting` (the value the application sees).  Actions:
`MapParameter`, `AddTuningAction`, `EnterRegion`, `ExitRegion`.  Requests reach
the application only while it is suspended, between two phases
(`Suspendable`).  `calls` is what the threads are executing; its frames
remember, for the properties only, the settings and the heights of the stacks
at the entry.  `baseline` is the value a parameter had when it was mapped.
`MapInside` says whether parameters may be mapped while a phase is running.

### SubstrateProofs
The theorems about TuningSubstrate.

### IndividualSearch
The individual search with the exhaustive search it uses in each step.
`CreateScenarios` enumerates the combinations of the explored parameters
(`Variants`; a restriction is a set, and so are the combinations: the order in
which `iterate_TP` makes them decides only which of two equally good scenarios
is the best one), `Measure` stands for the driver and
gives every new scenario any value of the objective, `SearchFinished`
restricts or eliminates the explored parameter, `Reuse` is `clear` followed by
`addSearchSpace`.  `std::sort` may order equal results in any way
(`SortedPrefixes`, `Backs`).  Reading a vector beyond its end leads to the
stage `undefined`, which `TypeOK` excludes from the first use.

### IndividualSearchProofs
The theorems about IndividualSearch.

The modules MCFrontend, MCSearch, MCNetwork and MCProcesses hold the constants of
the runs.

## 3. Runs

| run | question | constants |
|---|---|---|
| `tuning` | Does the network implement `SearchRounds`: rounds that end cleanly, nothing lost, results under their request, restarts only when and once they may be? | one high-level agent, two analysis agents; two requests, the first behind delay phases, two experiments per search; the first run of the application may end early |
| `tuning_rts` | Does every operation end, is the call-tree there when used, do all agents quit? (fair) | one analysis agent, call-trees, three requests, two early ends, new instrumentations |
| `analysis` | Does `run_analysis` end, only finished or after its last run, and what stays true when waits exceed their limit? (fair) | two analysis agents, delay phases, new instrumentations, a search of at most two runs, `TimeOuts` |
| `calltree_race` | violation: a late `calltreesent` ends the wrong loop | two analysis agents with call-trees |
| `tuning_plugin` | Is every scenario measured, under its own step, and does tuning end? (fair) | up to 5 scenarios, experiments of two, 3 early ends |
| `tuning_any_plugin` | What holds for a plugin that breaks the contract, with an application that is not instrumented too? | mixed modes, analysis in every search step |
| `substrate` | Does every exit restore what its entry found, does nothing leak into the next experiment, do the stacks stay small? | one thread, two regions and the phase region, depth 4 |
| `individual` | Is every value tried, is the optimum the best of all steps, does the search end? (fair) | three parameters, two results kept, three objective values, two uses |
| `network` | Is each hierarchy sound, does the network come up, and again after a restart, and is it complete when the frontend goes on? (fair) | six command lines and plans, below |
| `network_rebuild` | violation: an agent of a rebuilt hierarchy connects to one of the old | two processes, then three |
| `processes` | Is every answer taken for what it is, no process disturbed, nothing evaluated that was not measured, and does the search end? (fair) | three processes, sixteen cases, below |
| `lost_requests` | violation: an experiment cut short is evaluated unmeasured | one process, two PAPI sets, runs of three phases |

**Bounds.** Two analysis agents under a high-level agent are the smallest tree
in which one child is ahead of another and reports are combined twice.  Two
requests make a message of the first one late for the second.  One early end
(`MaxRuns = 2`) gives a restart with agents in every combination of finished,
waiting and at the end; `tuning_rts` and `analysis` have two, so that a restart
meets a restart; in `analysis` the second early end meets the last permitted run
(`MaxAnalysisRuns = 2`, 40 in the code), where `REQRESTART` shuts down.  `MaxExp = 2` lets a search ask for another experiment.
Five scenarios in experiments of two leave an odd one and give several search
steps; three early ends are more than the restarts one experiment needs.
Depth 4 with two regions and the phase region nests a tuned region in itself
with another one between; one parameter is enough because the stacks of
different parameters never meet.  In `individual` the first parameter has one
value, fewer than the results to keep; the second has two, of which one or both
are kept for the third; each but the first is eliminated in some behaviour.
Three objective values allow two improvements after another, so that nothing is
eliminated in others and the second use goes beyond the end.

`network` has up to three processes on two nodes that are not neighbours in rank.
`ManyCases` holds: one process per agent with a fan of two (three levels); the
same with a restart; a fan of one with one process replaced by two, and with two
replaced by one and that restarted; agents of two processes under nodes that
differ; all agents forced to one host.  In `processes` the last process sends its
answers behind two others, whose answers may be read together; of the three
metrics two cannot be measured together, so that a step of the strategy needs one
experiment or two.  Its cases: scenarios in runs too short for two, or even for
one; several sets per scenario and per step; bursts that end with a set and
between two; with the main region; behind delay phases that the application may
not reach; with processes that may die at any time; with trace data of the first
process and of the last, each with death or without, and of all; and scenarios in
tuning that need two sets, in runs of one to three phases, so that the application
ends before, between and behind the sets.

**Fairness.** The frontend and each agent are processes that run a reactor event
loop with a periodic timer: each one goes on as long as it has something to do
(`WF` of its whole next-state action).  The driver is one thread, and it is
the one that calls the search.  In `AgentNetwork` one condition for the
application, the frontend and all agents (`WF_vars(Work)`) is enough, for none of
them takes steps forever; giving up and time-outs are not fair, neither is the
plugin's wish to restart.  In `DataProvider` nobody else runs the
agent (`WF(Agent)`), and Score-P serves requests while it is suspended and
comes to the end of a phase (`WF` of `Obey` and `Stop` per process); trace
data and death are not fair.  Liveness is stated under bounds on how often the
application ends early (`MaxRuns`, `MaxRestarts`): an application that always
ends before the search does is restarted forever in the code as well.

What liveness excuses is said in the property.  `OperationsEnd` excuses a
time-out in the middle of a restart: the wait for the agents (`frontend.cc:617`)
has no limit, and an agent that gave up never answers.  `StartupEnds` excuses an
agent that is `Astray` (it gave up, or looked up another agent than its parent).
`SearchEnds` of `DataProvider` excuses three things, each a state the property
names: the death of a process, for which the agent waits forever; a process whose
report that it has stopped was taken for another's (`VerdictLost`), for which it
waits forever too; and the abort after a scenario in tuning was cut between two sets
(`CutBetweenSets`).  The last two are what the code does wrong (section 4); the run
has the cases in which they happen, and any other abort or endless wait violates the
property.  In the same way `OwnAnswers` and `NoCommandWhileRunning` name what happens
where lines stray (`Strays`) and hold of everything else in these cases.

**Deadlock** is checked in `tuning`, `tuning_rts`, `tuning_plugin`,
`tuning_any_plugin` and `substrate`.  The others really stop: in `analysis` a
frontend that has told its agents to quit and waits for them has no step left
after a time-out; nobody calls an individual search that is finished; the
network is done when the frontend has quit, or it aborted; and the processes
when the agent has nothing more to do, or waits for one that died.

## 4. What disagrees with a comment or the documentation

Runs that end in a violation:

1. *calltree_race.* `on_calltreesent` in both parents breaks its loop at the
   sender, so a high-level agent sends `calltreesent` once per child when they
   arrive in the order of the map.  The frontend ends its event loop at the first; the
   second one ends the next phase experiment's loop.  With a single analysis
   agent (`tuning_rts`) it cannot happen.
2. *network_rebuild.* `connect_to_parent` takes the first entry with its
   parent's tag, and a rebuilt hierarchy has the tags of the one before.  An agent
   deletes its entry in its destructor, after it has read `quit` and left its event
   loop, and `terminate_agent_hierarchy` does not wait for that but for the
   processes: in the trace the old top agent has not left when the new agents are
   forked, and one of them connects to it.  An entry that stays for good, of an agent
   that called `exit` or of a high-level agent, leads to whoever has the port by then,
   or to nobody.
3. *lost_requests.* Measurement requests are removed from the list when they are
   submitted.  An experiment that the application's end cuts short asks for a
   restart without results; `run_analysis` sends `startexperiment` after it, the
   list is empty, and an empty list counts as "all information gathered".  In
   tuning a restart sends `start` again, and the requests are made anew.

The following happens in run `processes`, whose properties name it and exclude
nothing else; each exception is needed, for without it the run ends in a violation:

* *Trace data of a process before the last* (`Strays`): the agent reads one line per
  process and turns to the next, whose reader is given what was read ahead on the
  connection of the first (the buffer is static, `sockets.c:325`).  `OwnAnswers`
  excepts the lines of a process that writes trace data, read in a pass.  The process
  whose report that it has stopped strayed so stays "working" for the agent, which
  waits forever (`VerdictLost`).
* *Trace data and death*: if the process that wrote the stray line dies, its
  connection counts as stopped, the pass may end while the process that was given the
  line still runs, and the next command is sent to that one.
  `NoCommandWhileRunning` excepts this, and `OwnAnswers` all that is read in these
  cases: behind delay phases, the process whose line was taken early answers later
  than it is asked for, and its lines stray too although it writes no trace data.
* *Tuning with several PAPI sets and an application that ends* between them
  (`CutBetweenSets`): the next `start` adds requests while old ones are pending, and
  the agent aborts (`DataProvider.cc:130`).

The following is seen by changing the constants of a configuration:

* *A restart after quit.* With `TimeOuts` and one analysis agent,
  `[][quit_fe => run' = run]_vars` fails: `quit` "terminates the frontend and all
  agents" (`frontend.cc:1047`), but it ends the loop only and not the program
  around it, so `run_analysis` starts the application again and waits for agents
  that are gone.
* *Scenarios of an application that is not instrumented.*  `ApplUninstrumented`
  with `Modes = {FALSE}`, no analysis and two scenarios per experiment violates
  `EveryScenarioMeasured`: one run measures one scenario, whatever the experiment
  pool holds (`frontend_statemachine.cc:404`).
* *A parameter mapped inside a region* (`MapInside`) violates `NoUnderflow`: it
  has no saved value when the region is left.  The example in
  `SCOREP_UserTuning.h` maps a variable inside a function.
* *Energy and time metrics with PAPI counters*: `DataProvider.cc:1637` sets
  `papi_used` to false where the comment at 1647 supposes true, so that they are
  requested together.  The model does what the code does.
* *Settings of a scenario whose metrics need two sets*: the tuning requests go
  with the first experiment only (`DataProvider.cc:909`); the second relies on
  Score-P keeping them.
* *An analysis in every search step* (`Analysis = "always"` in `tuning_plugin`)
  violates `NoInvalidEvent`: `perform_analysis` has a row only from
  `StartingTuningStep`, the driver asks for it in every search step.
* *Several threads* (a second element of `Threads` in `substrate`) violate
  `RestoredOnExit`: the stack of a parameter is shared, and a thread takes the
  value another one has saved.
* *A second use of the individual search* may read `tuningParameters` beyond
  its end, which is why `EveryValueTried`, `BestIsKept` and `TypeOK` speak of
  the first: `clear`, which is to clear "the data structures so that the same
  search object can be used again", empties the search spaces and leaves the
  step count, the eliminations, the best scenario and the restrictions.
* *More than one result kept* (`Keep`): the comment at `searchFinished` says
  that a restriction includes the "settings that improved the previous best
  scenario", the loop takes the first `individual_keep` results whether they
  improve on it or not.  The restrictions of several parameters are then
  combined with each other, so that a step may have more than
  `individual_keep` scenarios per value of its parameter.
* The *finished pool* is filled when a request is built, before its scenarios
  have results.

## 5. Proofs

`AutotuneProofs` proves for every number of scenarios, of scenarios per
experiment and of restarts, from `AutotuneAssumption` only:

* `TypeCorrect` and `PoolsPartition`: types, and every scenario in exactly one
  pool, for any plugin;
* `ExperimentsReady`: an experiment of an instrumented application is started
  with the agents running and a pool is popped only when it has a scenario, for
  any plugin.  It needs one conjunct more, `PoolsFed`, and that `pop` takes
  something (`LowestTakesOne`: a pool has a lowest id);

and, for a plugin that keeps `PluginContract`:

* `SearchIsComplete`: when the search is asked whether it is finished, every
  scenario has a result;
* `ResultsFiled`: every result is filed under the search step that created its
  scenario;
* `EventsExpected`: no event is sent that the state machine does not expect.

None of the three is inductive.  `Invariance` proves `IInv`, whose parts say:
`ControlOK`, which state of the machine goes with which event of the driver;
`NetworkOK`, that the request buffer is empty between events once the agents
run; `PoolsOK`, which pools are empty at which event; `RequestOK`, that a
request that is not executed is the one whose scenarios have no result yet and
that the pools it came from are not touched; `MeasuredOK`, that every finished
scenario is measured or belongs to that request; `StepOK`, that every scenario
that is not measured was created in the current search step.  The last is why
results that a restart delivers late are still filed correctly: the step is
counted only when nothing is left to measure.  `IInv` was model-checked before
it was proved.

`SubstrateProofs` proves, for any sets of regions, parameters and values and
any depth:

* `TypeCorrect`: types, for any number of threads and mappings at any time;

and, if there is only the master thread and parameters are mapped outside of
the phase:

* `NoStackUnderflow`: `popFromStack` never finds an empty stack;
* `ScenariosDoNotLeak`: between two phases every restored parameter has its own
  value again;
* `ExitRestores`: the exit of a region restores what its own entry found;
* `StacksStaySmall`: a restore stack is never higher than the call stack.

The first three of these rest on one invariant, `SubstrateInv`: for every parameter that
is mapped and restored, the frames of the call stack and the restore stack fit
together (`FramesFit`).  A frame whose region tunes the parameter has its value
at the position of the stack that was the next one at its entry (`Found`);
heights grow along the frames (`Ordered`), by exactly one at a frame that saves
and by none at another (`Adjacent`, `OnTop`); the outermost frame found
the parameter's own value (`AtBottom`).  `RestoredOnExit`
itself says nothing of the stack and `NoUnderflow` nothing of the values, so
that neither can be inductive.  The two conditions are necessary: see
section 4.  `StacksStaySmall` adds `HeightsOK` to it: the height a frame
remembers is bounded by the number of the frames below it.

`DataProviderProofs` proves for every number of processes, every set of metrics
and of cases, every number of runs, and wherever processes die, if no process
writes trace data while it runs (`NoTrace`):

* `TypeCorrect`: types;
* `RunningUndisturbed`: no process is sent a command while it runs;
* `AnswersAreOwn`: what `socket_my_read` has read ahead is only ever handed to
  the reader of the process, and in the run, it came from.

They rest on `Types` (types of the processes and the streams too) and
`ProtocolOK`, which says for each blocking read of the agent how far the
protocol is with every process: those before `cur` in the loop are `Quiet`, `cur`
is `Asked`, `Stopping` or `Sending`, and those behind it are as the loop before
left them.  `Sending` is the heart of `AnswersAreOwn`: what is read ahead and
what is in the stream are together the buffers not received yet, so that the
read-ahead buffer is empty when the last of them is taken.  No property above is
inductive: a command is not sent to a running process because of what was read
from the others, and the owner of the buffer depends on how many buffers are
left.  Where no process writes trace data no line strays, and the theorems say that
these things never happen, without the exceptions the properties make.  `NoTrace` is
needed for that: with trace data of a process that is not the last they do happen
(section 4), and that nothing else does is model-checked.

What is measured is the subject of a fourth theorem.  It needs `Whole` besides: an
experiment of `run_analysis` (not one of a scenario, which is sent again) with a
user phase region is one phase long, and no run of the application is shorter than
that, or the application runs for as long as it is asked to.  Without it the
theorem is false, which is what run `lost_requests` shows; all cases of run
`processes` satisfy it.

* `EvaluatedIsMeasured`: an experiment is evaluated when every process has been
  measured for every metric wanted, in as many experiments as the burst is long:
  however the requests fall into sets, however often the application is restarted,
  and wherever processes die.

The invariant behind it, `Measuring`, follows the metrics a strategy wants of a
process from one place to the next: at each blocking read they have been received
(`got`), or are still to be requested (`requests`), or are in what the process has
yet to be asked for (`Unasked`), has been asked for, or has measured and not yet
sent (`Measured`, `Received`, `Profiles`).  Three things could break that
chain.  A process that dies in an experiment has measured nothing, although the
agent goes on: then it waits for that process for ever, and evaluates nothing
(`Doomed`).  A process that comes to the end of the application measures
nothing either: then the experiment is not evaluated, but the requests of it are
gone, so that it must not happen (`Lasting`, from `Whole`).  And the results
counted may be fewer than the burst (`Count`).  The invariant was checked by TLC
before it was proved, on the cases of run `processes` without trace data and on
others that satisfy `Whole`, with two and with three processes.

`FrontendProofs` and `FrontendRounds` prove of the frontend and its agents, for
every finite tree (of which the frontend has one child, as `runAgents` starts it), every number of requests, experiments and runs, with call-trees and
without, with time-outs and without:

* `TypeCorrect`: types.  A handler takes fields from the first message of a
  stream and parts of a record; that they are what it expects is part of it;

and, unless call-trees are gathered in a tree in which somebody has two children
(`NoRace`; without it the waves collide, which is what run `calltree_race` shows):

* `WavesCorrect`: at most one request is in the tree at any time, of a search, of a
  check or of a call-tree.  It goes down as one wave and comes back as one, while
  the frontend is in the event loop that waits for it;
* `RoundsAreOver`: when the frontend leaves the event loop of a search, nothing
  of the search is left in the tree;
* `ExperimentsAreOnCurrentRun`: no experiment runs on processes of an earlier run,
  although the frontend sends the next phase right behind a re-initialisation;
* `NoneLostOrDoubled`: every property an agent has found is in exactly one place,
  in a record of an agent, in one message, or with the frontend, and filed once;
* `RestartsAreDue`: unless the plugin or a new instrumentation calls for it, the
  frontend decides to restart the application only while the processes of some
  agent are at their end;

and, if besides no wait exceeds its limit:

* `RestartsAreClean`: the application is started again only when its processes
  have terminated and left the registry, and no experiment is evaluated any more;
* `ExecutedIsFinished`: when the scenarios of a phase experiment count as executed,
  every analysis agent has finished the request they were sent in.  It is the
  property run `calltree_race` refutes, so that `NoRace` is just what was missing;
* `SearchIsFinished`: `run_analysis` ends when every analysis agent has finished the
  search, or with the last run it permits itself, if it permits more than one
  (`max_runs`, `frontend.cc:370`, is 40).

None of these is inductive: each speaks of the frontend and of the analysis agents,
and the agents between them are reached only by messages.  The invariant `Inv` is
made of three *waves* and of what orders them.  A `Wave` divides the agents into
those with the request in their stream, those that work on it, and those with the
answer in theirs; a high-level agent that works on it waits for just those children
it has not noted an answer of, and under one that does not, nobody has any part
in it.  So a wave that has come to the child of the frontend is over everywhere
(`WaveAtTop`), which is why "all have reported" of one handler in every agent
amounts to what the frontend takes it for.  `Phases` says when which wave may be
out; `Late`, that no request to search overtakes one to terminate, to
re-initialise or to quit; `Undelivered`, that during a check properties are only
left with those still to be asked.  `RestartsAreClean` adds, of the termination, who
has still to read `terminate` (`Terminating`), whose processes are registered
(`Registered`) and who is still to be re-initialised, exactly once (`Reattach`).  The
condition on time-outs is needed: the wait for the application to terminate is
one of those with a limit (`handle_step`), and exceeding it ends in `quit`, which
does not ask who has terminated.  All parts were model-checked on the runs'
instances before they were proved.

`NoneLostOrDoubled` has an invariant of its own, `Accounted`.  The property speaks
of all that travels as one set, in which two copies of an entry would be one:
`Apart` says that the agents on the way hold different properties, that within an
agent the stream and the record do (`Tidy`), and that two messages do (`Once`),
and with it each handler moves what one message carries and nothing else.
`Counted` numbers what is known, `FiledWhere` and `FiledOnce` say when the
frontend files what it has noted.  It rests on `Inv` in one place: properties
only come while the frontend waits for them, so that none of them is noted
twice because an operation has ended in between.

`RestartsAreDue` follows from `AtEnd`: as long as a request to restart is on its way
up, or noted where it still counts (`RestartAsked`; with the frontend, while the
check that follows the search is out), the processes of some agent are at their
end, and that agent is not among those still to read a request to terminate, to
re-initialise or to quit.  The second half makes it inductive: only a
re-initialisation takes processes away from their end, and only agents still to
read it handle one.  That the frontend forgets an old request is again the order
of the waves: none is on its way when it leaves the event loop.

`ExecutedIsFinished` and `SearchIsFinished` rest on `Finishing`.  The frontend
knows of its agents what its child reports, and the child what its children did:
one word for all below it, in which the end of some and a wish of others are
combined.  `Worked` says what that word is true of.  There is a set of agents,
closed downwards, which holds every agent with a report on its way or noted, and
every analysis agent in it has begun the request that was sent last; and one for
those whose report is the end, in which every analysis agent has finished it
(`SpeaksFor`).  A high-level agent that reports joins its children in the set, so
that what reaches the frontend speaks for all (`TopSpeaks`).  That an agent reports
the end only of the request sent last takes `Current`: no older request is left
in a stream, because a new one is only sent when the wave before it is over.  The
rest is the control of the frontend from one event loop to the next: a request
stays in its buffer only until the agents have started (`Buffered`), and when it
leaves an event loop either everyone has finished or a restart is on record
(`Tuned`, `Searching`).  A time-out ends a loop without either, which is why these
two theorems need `~TimeOuts`; `SearchEndsFinished` names what it may leave behind,
and there TLC checks it.

`SearchRounds` has a theorem of its own, about the abstract specification, for any number of
agents, requests and restarts:

* `FiledRight`: each property is filed once and under the request it was found
  for, and between two requests nothing runs and nothing waits to be filed.

`RoundsInv` adds to it that what waits to be filed was found for the request in
progress and is not filed yet (`ResultsFresh`), without which filing in parts
could double an entry.

`FrontendRounds` brings the two together.  For every tree, if the frontend tunes
(`Tuning`), under `NoRace` and `~TimeOuts`:

* `RoundsImplemented`: `Frontend` implements `SearchRounds`;
* `FiledUnderItsRequest`: therefore what `FiledRight` says holds of the frontend:
  each property is filed once, under its own request, and between two requests
  no agent has an experiment running and nothing found is on its way.

The initial state of Frontend is the one of the abstract specification, and each of its
steps is a step of that or changes nothing the mapping shows (`AgentRefines`,
`FERefines`):

| SearchRounds | Frontend |
|---|---|
| `Issue` | `FEBegin`, and `FERestartDone` when a restart for the plugin comes first |
| `Work` | `AAOnStart`, `AAOnStartExperiment`: the processes are told to run into a phase |
| `GiveUp` | `AAOnStart`, when the application ends in the delay phases |
| `Report` | `AAEvaluate` |
| `Restart` | `FERerun` |
| `File` | `FEResults` of a phase experiment that has to be repeated |
| `End` | `FEResults` of any other operation |
| none | every message, all of the high-level agents, the event loops and the checks |

The last row is most of the work.  That a property moved between agents is still
in `Unfiled`, once, is `Accounted`; that nothing is `Busy` at `Restart`, `File`
and `End` is `NothingGoing` (a wave that is over is over everywhere) and
`Restarting`; that all agents are `done` at `End` is `Tuned`.  An agent's `done`
becomes the number of the request it has, the abstract one that of the request in
progress: `Current` says they are the same.  `Rounding` collects these
invariants and adds `Orderly`, where the frontend is while it restarts for the
plugin.  The conditions are needed.  A wait that exceeds its limit goes on with
what it has, and `quit` may leave experiments running; in `NoRace` the loop of an
experiment can end too early; without `Tuning` the operation is `run_analysis`,
which files nothing and which the mapping leaves out (`SearchIsFinished` is about
it).

`AgentNetworkProofs` proves of the registry, the application and its agents, for
every mapping of ranks to nodes, every list of cases (any options and any plan of
runs, each for any number of processes) and every order in which processes and
agents of any number of generations register, look each other up, connect, rejoin
and leave:

* `NetworkTypeCorrect`: types, with what the registry promises (an id belongs to one
  process) and what agents may note (a heartbeat only of a child of theirs, no
  command that was not sent);
* `ReadyIsComplete`: when the frontend goes on to work with the agents, every agent
  is connected to its own parent, and every process of the current run is alive,
  not told to terminate, and controlled by exactly one agent.

Both suppose `HierarchySound`: whenever the frontend forks a hierarchy, it is sound
for the processes in the registry.  What `computeAgentHierarchy` lays out is
computed by folds over sequences, beyond the prover; run `network` checks
that property of every case it has, so that the hypothesis is what is known of the
layout and not of the protocol.  Nothing else is assumed; in particular an
agent may look up the entry of another generation, or connect to whoever
has got the port (run `network_rebuild`), and the frontend may skip its
wait for the registry to be empty.

`NetworkInv` has a part for each thing that could make the heartbeat at the top
say too much.  `Heartbeats`: who is up (`Up`: it has obeyed all commands and sent its
heartbeat) has heard from all of its children, and whoever is noted is up and
connected to the one that noted it.  A heartbeat that goes to the wrong agent is
not noted by it, and is missed by the parent; so if the top is up, all are, with
their true parents (`AllUp`: none that is not has the shortest tag).  That
heartbeats of the startup do not count for a restart needs the order of the commands:
`Progress` says how many of them an agent may still have to obey at each stage of
the frontend, and that "reinit" is the last and only one still to
be obeyed by an analysis agent.  `Listed` says that an agent is in the registry
from its registration until it leaves, so that `Leave` takes its own entry and no
other's.  `Coverage` says that the processes are covered: at
the startup by the ids the agents were given (`Found`), of which an agent that
finds as many as it was given has found each; in a restart by their ranks, each of
which the last poll has given an id, of a process of this run.  `Registry` has
the uniqueness that this rests on, among it that the entries left of an earlier run
are of processes that have exited, so that an agent given one of them gives up
instead of counting it.  `Leaving` keeps the
generations apart: an agent that was told to quit controls no process of this run, so
that what it tells and deletes, however late, is not needed any more.  TLC has
checked `NetworkInv` on the cases of run `network` and on others, with two rebuilds
and with two restarts, before it was proved.

`IndividualSearchProofs` proves for every search space, all ranges and steps, any
number of results kept, any number of uses and whatever is measured, from
`SearchAssumption` only (the parameters of a space are different ones, a range is
not empty, a step is positive):

* `SearchTypeCorrect`: types, and in a new search nothing is read beyond the end
  of the results or of the parameters;
* `OptimumIsRight`: `getOptimum` and `getWorst` name a best and a worst of all
  scenarios ever measured, in later uses of the object too;
* `AllValuesTried`: when a new search is finished, each value of each parameter
  was in a scenario, also of the parameters behind an eliminated one;
* `BestStaysPossible`: between two steps of a new search, the best scenario sets
  exactly the parameters kept, to values their restrictions contain.

The invariant `SearchInv` has three parts for any use.  `Shape` is about parameters,
restrictions and scenarios.  `Step` says that the scenarios of a step set exactly
the parameters counted by `searchStepCount - tpEliminated`.  `Records` says that
best and worst are extreme among what `searchFinished` has looked at (`Seen`), not
only among the results of the last step.  The fourth part, `Fresh`, is about the
first use.  Of the parameters that are left, exactly the first `Settled` are
restricted, and every parameter that is not behind them was tried with every
value: this is what makes an `erase` from the middle of the vector safe, since it
is `tpEliminated` that keeps the position.  While a step is measured, its own
scenarios have every value of the parameter explored.  They are therefore at
least as many as that has values (`EnoughScenarios`), and the loop over the first
`individual_keep` results stays inside the vector.  In a second use `Fresh` fails,
and with it what the three theorems say of the first (section 4).  The lemmas
about `Variants` and `SetToSeq` need that the combinations are finitely many
(`FunctionsFinite`, `SetAsSeq`).  TLC has checked `SearchInv` on the constants of run
`individual` and on others before it was proved.

Only model-checked: liveness (`TuningEnds`, `OperationsEnd`, `AllQuit`,
`StartupEnds`, `RestartEnds`, `SearchEnds`), which is out of the prover's reach;
of Frontend, `CalltreeArrived`, and with time-outs `SearchEndsFinished`; of
AgentNetwork, `HierarchySound`.

## 6. Not modelled

* *Fast mode*: never enabled in the code.  `--manual` and the interactive
  commands; the stand-alone search of an agent.
* *BlueGene*: the variants of registration and start that are compiled for it.
* *Crashes of agents*: the code has no handling for a lost agent.  A write to a
  dead process may raise SIGPIPE, which would end the agent; the model loses it.
* *The performance database*: the lines of a buffer become one set of metrics;
  region ids, threads and the call-tree are not matched.
* *Races inside a handler* of the substrate plugin, the growth of its tables and
  the loading of parameter plugins.
* *The list of timers* of the event loops, which `handle_timers` erases from.
* *Other search algorithms* (random, GDE3): they draw random numbers.  Of the
  exhaustive search, several search spaces, regions and run-time situations.
  Active Harmony and the support-vector code are third-party.
* *What individual plugins tune*: the DVFS, PCAP, MPI, OpenCL and READEX plugins
  are energy models and lists of parameters over the same interface.
* *What is measured*: strategies and properties are numerical code on measured
  data.
* *Clustering*: which properties are merged, and their severities.
* *Output*: tuning advice, tuning model, cube tools.

Almost all of what is left is numerical, generated or output code: it has no
state that outlives a call, or none that two actors share.

## 7. Order of work

Written in this order: AgentTree, AnalysisAgent, HighLevelAgent, Frontend with its
runs; Autotune and AutotuneProofs; TuningSubstrate and SubstrateProofs;
IndividualSearch; SearchRounds and the refinement; time-outs with liveness;
AgentHierarchy and AgentNetwork; DataProvider and DataProviderProofs;
FrontendProofs and FrontendRounds, with the refinement at the end; AgentNetworkProofs; IndividualSearchProofs.

Open:

1. The composition of AgentNetwork with Frontend: both know restarts, the first
   from the side of the registry, the second from that of the messages.
2. The exits of TuningSubstrate against a stack of saved settings as an abstract
   specification.
