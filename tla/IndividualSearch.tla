-------------------------- MODULE IndividualSearch --------------------------
(***************************************************************************)
(* The individual search algorithm and the exhaustive search it uses in    *)
(* each of its steps (autotune/searchalgorithms).                          *)
(*                                                                         *)
(* The parameters are explored one after the other.  A step creates all    *)
(* scenarios for the next parameter together with what is left of the      *)
(* parameters before it; searchFinished restricts the parameter to the     *)
(* values of the best scenarios, or drops it when none is better than the  *)
(* best one so far.  Left out: regions and run-time situations, which are  *)
(* attached to the scenarios and do not influence the search; several      *)
(* search spaces, which the individual search refuses.                     *)
(***************************************************************************)
EXTENDS Integers, Sequences, FiniteSets, SequencesExt

CONSTANTS Space,    \* the tuning parameters, in the order of the search space
          Ranges,   \* Ranges[p]: from, to and step of parameter p
          Keep,     \* individual_keep
          Times,    \* values of the objective function
          Searches  \* bound: how often the object is used

Params == {Space[i] : i \in DOMAIN Space}

ASSUME SearchAssumption ==
    /\ Space \in Seq(Params) \ {<<>>} /\ IsInjective(Space)
    /\ Ranges \in [Params -> [from : Int, to : Int, step : Nat \ {0}]]
    /\ \A p \in Params : Ranges[p].from <= Ranges[p].to
    /\ Keep \in Nat \ {0}
    /\ Times \subseteq Nat /\ Times # {}
    /\ Searches \in Nat \ {0}

VARIABLES tuningParameters, \* the parameters that are not eliminated
          restriction,      \* restriction[p]: the elements of a vector restriction, or {}
          searchStepCount, tpEliminated,
          bestScenario, worstScenario, \* 0 for none
          scenarios,        \* the variants of all scenarios, by id
          scenarioIds,      \* the ids that exhaustive search has not evaluated
          time,             \* time[i]: objective of scenario i, when it is measured
          path,             \* scenarios of the last step
          optimum,          \* of the exhaustive search
          stage,            \* what the plugin calls next
          uses              \* how often the object was used

searchVars == <<tuningParameters, restriction, searchStepCount, tpEliminated>>
resultVars == <<bestScenario, worstScenario, path, optimum>>
vars == <<searchVars, resultVars, scenarios, scenarioIds, time, stage, uses>>

\* initialize and addSearchSpace
Init ==
    /\ tuningParameters = Space
    /\ restriction = [p \in Params |-> {}]
    /\ searchStepCount = 0 /\ tpEliminated = 0
    /\ bestScenario = 0 /\ worstScenario = 0
    /\ scenarios = <<>> /\ scenarioIds = {} /\ time = <<>>
    /\ path = {} /\ optimum = 0
    /\ stage = "create"
    /\ uses = 1

RangeSize(p) == (Ranges[p].to - Ranges[p].from) \div Ranges[p].step + 1

\* Mutant: the value is increased before it is used.
Mutant_TPValues_Beyond(p) ==
    IF restriction[p] # {} THEN restriction[p]
    ELSE {Ranges[p].from + k * Ranges[p].step : k \in 1..RangeSize(p)}

\* The values iterate_TP gives parameter p.
TPValues(p) ==
    IF restriction[p] # {} THEN restriction[p]
    ELSE {Ranges[p].from + (k - 1) * Ranges[p].step : k \in 1..RangeSize(p)}

\* iterate_TP: all combinations of values of the parameters ps.
Variants(ps) ==
    {v \in [ps -> UNION {TPValues(p) : p \in ps}] : \A p \in ps : v[p] \in TPValues(p)}

\* The first c parameters that are left.
Explored(c) == {tuningParameters[i] : i \in 1..c}

\* The parameter explored in the present step.
Current == searchStepCount - tpEliminated

\* createScenarios; reading tuningParameters beyond its end is undefined.  The
\* order of the scenarios matters only for which of two equally good ones is best.
CreateScenarios ==
    /\ stage = "create"
    /\ UNCHANGED <<tuningParameters, restriction, tpEliminated, bestScenario, worstScenario, time, uses>>
    /\ searchStepCount' = searchStepCount + 1
    /\ LET count == IF Current' < Len(tuningParameters) THEN Current' ELSE Len(tuningParameters)
       IN scenarios' = scenarios \o SetToSeq(Variants(Explored(count)))
    /\ scenarioIds' = scenarioIds \cup (Len(scenarios) + 1 .. Len(scenarios'))
    /\ stage' = IF Current' > Len(tuningParameters) THEN "undefined" ELSE "measure"
    /\ path' = {}
    /\ optimum' = 0

\* The driver has the scenarios measured.
Measure ==
    /\ stage = "measure"
    /\ \E m \in [scenarioIds -> Times] :
          time' = [i \in DOMAIN time \cup scenarioIds |->
                      IF i \in scenarioIds THEN m[i] ELSE time[i]]
    /\ stage' = "evaluate"
    /\ UNCHANGED <<searchVars, resultVars, scenarios, scenarioIds, uses>>

\* Mutant: each scenario replaces the optimum.
Mutant_Optimum_Last(ids) == CHOOSE i \in ids : \A j \in ids : j <= i

\* ExhaustiveSearch::searchFinished: a scenario replaces the optimum if it is better.
Optimum(ids) ==
    CHOOSE i \in ids : \A j \in ids : time[i] < time[j] \/ (time[i] = time[j] /\ i <= j)

\* The k ids that sorting the results by value may begin with, and those it may end with.
SortedPrefixes(ids, k) ==
    {s \in [1..k -> ids] :
        /\ \A i, j \in 1..k : i < j => s[i] # s[j] /\ time[s[i]] <= time[s[j]]
        /\ \A i \in ids : (\A j \in 1..k : s[j] # i) => time[s[k]] <= time[i]}

Backs(ids) == {i \in ids : \A j \in ids : time[j] <= time[i]}

\* How many results are looked at.
Kept(p) == IF Keep < RangeSize(p) THEN Keep ELSE RangeSize(p)

\* The elements of the restriction: the settings of p in the best scenarios.
Elements(p, best) == {scenarios[best[i]][p] : i \in DOMAIN best}

\* Mutant: no restriction is set.
Mutant_Improve_Unrestricted(best) ==
    /\ bestScenario # 0 => time[best[1]] < time[bestScenario]
    /\ bestScenario' = best[1]
    /\ UNCHANGED <<tuningParameters, tpEliminated, restriction>>

\* searchFinished when the step has a new best scenario: its settings are kept.
Improve(best) ==
    LET p == tuningParameters[Current]
    IN /\ bestScenario # 0 => time[best[1]] < time[bestScenario]
       /\ bestScenario' = best[1]
       /\ restriction' = [restriction EXCEPT ![p] = Elements(p, best)]
       /\ UNCHANGED <<tuningParameters, tpEliminated>>

\* Mutant: the eliminated parameter is not counted.
Mutant_Eliminate_NotCounted(best) ==
    /\ bestScenario # 0 /\ time[best[1]] >= time[bestScenario]
    /\ tuningParameters' = RemoveAt(tuningParameters, Current)
    /\ UNCHANGED <<bestScenario, restriction, tpEliminated>>

\* searchFinished otherwise: the parameter is eliminated.
Eliminate(best) ==
    /\ bestScenario # 0 /\ time[best[1]] >= time[bestScenario]
    /\ tuningParameters' = RemoveAt(tuningParameters, Current)
    /\ tpEliminated' = tpEliminated + 1
    /\ UNCHANGED <<bestScenario, restriction>>

\* searchFinished; reading results beyond their end is undefined.
SearchFinished ==
    /\ stage = "evaluate"
    /\ UNCHANGED <<searchStepCount, scenarios, time, uses>>
    /\ path' = scenarioIds
    /\ optimum' = Optimum(scenarioIds)
    /\ scenarioIds' = {}
    /\ \E w \in Backs(scenarioIds) :
          worstScenario' = IF worstScenario = 0 \/ time[w] > time[worstScenario] THEN w ELSE worstScenario
    /\ LET k == Kept(tuningParameters[Current])
           n == Cardinality(scenarioIds)
       IN /\ \E best \in SortedPrefixes(scenarioIds, IF k < n THEN k ELSE n) : Improve(best) \/ Eliminate(best)
          /\ stage' = IF k > n THEN "undefined"
                      ELSE IF Current' = Len(tuningParameters') THEN "finished" ELSE "create"

\* clear and addSearchSpace: the object is used again for the same parameters.
Reuse ==
    /\ stage = "finished"
    /\ uses < Searches
    /\ uses' = uses + 1
    /\ tuningParameters' = Space
    /\ stage' = "create"
    /\ UNCHANGED <<restriction, searchStepCount, tpEliminated, resultVars, scenarios, scenarioIds, time>>

Next == CreateScenarios \/ Measure \/ SearchFinished \/ Reuse
Spec == Init /\ [][Next]_vars
FairSpec == Spec /\ WF_vars(Next)

-----------------------------------------------------------------------------
\* The states of the search.  A new search reads neither the results nor the parameters
\* beyond their end, also when more results are to be kept than a parameter has values;
\* after clear the step count is still that of the last search, and it may do so.
TypeOK ==
    /\ Range(tuningParameters) \subseteq Params
    /\ \A p \in Params : restriction[p] \subseteq Ranges[p].from..Ranges[p].to
    /\ searchStepCount \in Nat /\ tpEliminated \in 0..searchStepCount
    /\ {bestScenario, worstScenario, optimum} \subseteq 0..Len(scenarios)
    /\ DOMAIN time \cup scenarioIds \cup path \subseteq 1..Len(scenarios)
    /\ stage \in {"create", "measure", "evaluate", "finished", "undefined"}
    /\ uses = 1 => stage # "undefined"

\* After searchFinished no scenario that was ever measured is better than getOptimum or
\* worse than getWorst, although a step compares only its own results with the record.
OptimumIsBest ==
    stage \in {"create", "finished"} /\ bestScenario # 0 =>
        /\ \A i \in DOMAIN time : time[bestScenario] <= time[i] /\ time[i] <= time[worstScenario]
        /\ path # {} => optimum \in path /\ \A i \in path : time[optimum] <= time[i]

\* When a new search is finished every value of every parameter was measured, those of
\* the parameters behind an eliminated one too.
EveryValueTried ==
    stage = "finished" /\ uses = 1 =>
        \A p \in Params : \A k \in 1..RangeSize(p) : \E i \in DOMAIN scenarios :
            p \in DOMAIN scenarios[i] /\ scenarios[i][p] = Ranges[p].from + (k - 1) * Ranges[p].step

\* Between two steps of a new search the best scenario sets exactly the parameters that
\* were kept, to values the next steps still combine with theirs.
BestIsKept ==
    stage \in {"create", "finished"} /\ bestScenario # 0 /\ uses = 1 =>
        /\ DOMAIN scenarios[bestScenario] = Explored(Current)
        /\ \A p \in Explored(Current) : scenarios[bestScenario][p] \in restriction[p]

\* The search ends.
SearchEnds == <>(stage = "finished")
=============================================================================
