----------------------------- MODULE MCProcesses -----------------------------
(* Three processes; three metrics, of which two are PAPI counters that       *)
(* cannot be measured together.                                            *)
EXTENDS DataProvider

None == 0
Sets == [m \in {"tot_cyc", "l2_dcm", "time"} |-> IF m = "tot_cyc" THEN 1 ELSE IF m = "l2_dcm" THEN 2 ELSE None]

Base == [tuning |-> FALSE, wanted |-> {"tot_cyc", "time"}, steps |-> 0, searches |-> 1, burst |-> 0, delay |-> 0,
         userPhase |-> TRUE, iterations |-> 1, phases |-> {3}, endless |-> FALSE, crash |-> FALSE,
         traced |-> {}]

\* Scenarios in runs too short for two, or even for one; scenarios and steps that need
\* two sets each; the same in bursts; with the main region; behind delay phases the
\* application may not reach; with processes that may die; with trace data of the last
\* process, the first, or all; and scenarios whose sets the application may end between.
All == DOMAIN Sets
ManyCases == {
    [Base EXCEPT !.tuning = TRUE, !.searches = 2, !.iterations = 2, !.phases = {0, 1, 3}],
    [Base EXCEPT !.tuning = TRUE, !.searches = 2, !.userPhase = FALSE],
    [Base EXCEPT !.wanted = All, !.tuning = TRUE, !.searches = 2, !.endless = TRUE],
    [Base EXCEPT !.wanted = All, !.steps = 1, !.endless = TRUE, !.traced = {NumProcs}],
    [Base EXCEPT !.wanted = All, !.burst = 2, !.endless = TRUE],
    [Base EXCEPT !.wanted = All, !.burst = 3, !.endless = TRUE],
    [Base EXCEPT !.wanted = All, !.steps = 1, !.userPhase = FALSE],
    [Base EXCEPT !.wanted = All, !.phases = {1, 2}],
    [Base EXCEPT !.steps = 2, !.delay = 2, !.phases = {1, 3}],
    [Base EXCEPT !.tuning = TRUE, !.searches = 2, !.endless = TRUE, !.crash = TRUE],
    [Base EXCEPT !.wanted = All, !.userPhase = FALSE, !.crash = TRUE],
    [Base EXCEPT !.wanted = All, !.traced = {1}],
    [Base EXCEPT !.tuning = TRUE, !.searches = 2, !.traced = Procs],
    [Base EXCEPT !.wanted = All, !.traced = {NumProcs}, !.crash = TRUE],
    [Base EXCEPT !.delay = 2, !.traced = {1}, !.crash = TRUE],
    [Base EXCEPT !.wanted = All, !.tuning = TRUE, !.searches = 2, !.phases = {1, 2, 3}]}

\* The experiment of the second set is cut short: it needs two phases and only one is left.
CutShort == {[Base EXCEPT !.wanted = All, !.iterations = 2]}
=============================================================================
