--------------------------- MODULE TuningSubstrate ---------------------------
(***************************************************************************)
(* The tuning substrate plugin of Score-P (scorep/tuning_substrate_plugin) *)
(* inside the measured application: the table of tuning actions per        *)
(* region, the table of tuning parameters with their restore stacks, and   *)
(* the handlers of region events that set and restore the parameters.      *)
(*                                                                         *)
(* A parameter is mapped to a variable or to a function that sets it and   *)
(* returns the old value; both have the same effect on it.  Left out: the  *)
(* growth of the tables and stacks, the loading of the plugins that map    *)
(* parameters.                                                             *)
(***************************************************************************)
EXTENDS Naturals, Sequences, FiniteSets

CONSTANTS Regions,   \* regions called within the phase region
          Phase,     \* the phase region; the application may be suspended outside of it
          Threads,   \* the locations that deliver region events
          Master,    \* the thread that runs the phase region
          Params, Values,
          NoAction,  \* a region has no action for a parameter
          MapInside, \* parameters may be mapped within the phase region too
          MaxDepth   \* bound: nested regions of a thread

ASSUME SubstrateAssumption ==
    /\ Phase \notin Regions
    /\ Master \in Threads
    /\ Values # {} /\ NoAction \notin Values
    /\ MapInside \in BOOLEAN
    /\ MaxDepth \in Nat \ {0}

AllRegions == Regions \cup {Phase}

VARIABLES table,    \* table[r][p]: value of the tuning action for p in region r
          mapped,   \* mapped[p]: p has a variable or a function
          restore,  \* restoreValueFlag
          stack,    \* restoreValueStack, empty for a null pointer
          setting,  \* setting[p]: the present value of p
          calls,    \* calls[t]: the regions t is in, each with the settings and the
                    \* heights of the stacks before it was entered
          baseline, \* baseline[p]: the value of p when it was mapped
          failed    \* the process was aborted with "Stack underflow"

paramVars == <<mapped, restore, baseline>>
vars == <<table, paramVars, stack, setting, calls, failed>>

\* initialize, with no parameter mapped yet.
Init ==
    /\ table = [r \in AllRegions |-> [p \in Params |-> NoAction]]
    /\ mapped = [p \in Params |-> FALSE]
    /\ restore = [p \in Params |-> FALSE]
    /\ stack = [p \in Params |-> <<>>]
    /\ setting \in [Params -> Values]
    /\ calls = [t \in Threads |-> <<>>]
    /\ baseline = setting
    /\ failed = FALSE

Suspendable == \A t \in Threads : calls[t] = <<>>

\* Mutant: entries that hold no action are applied too.
Mutant_Tuned_AllEntries(r) == {p \in Params : mapped[p]}

\* The parameters an event of region r acts on.
Tuned(r) == {p \in Params : table[r][p] # NoAction /\ mapped[p]}

\* Those of them with a restore stack.
Restored(r) == {p \in Tuned(r) : restore[p]}

\* scorep_tuning_action_table_fill_entry: a stack that exists is kept; without
\* the flag it is forgotten.
MapParameter(p, flag) ==
    /\ ~failed
    /\ Suspendable \/ MapInside
    /\ mapped' = [mapped EXCEPT ![p] = TRUE]
    /\ restore' = [restore EXCEPT ![p] = flag]
    /\ stack' = [stack EXCEPT ![p] = IF flag THEN @ ELSE <<>>]
    /\ baseline' = [baseline EXCEPT ![p] = setting[p]]
    /\ UNCHANGED <<table, setting, calls, failed>>

\* add_tuning_action: the agent's request, while the application is suspended.
AddTuningAction(r, p, v) ==
    /\ ~failed
    /\ Suspendable
    /\ table' = [table EXCEPT ![r][p] = v]
    /\ UNCHANGED <<paramVars, stack, setting, calls, failed>>

\* The phase region is the outermost one of the master; the other threads work
\* within it.
MayEnter(t, r) ==
    /\ Len(calls[t]) < MaxDepth
    /\ IF r = Phase THEN t = Master /\ Suspendable ELSE calls[Master] # <<>>

\* What the properties remember of the state in which region r is entered.
Frame(r) == [region |-> r, before |-> setting, height |-> [p \in Params |-> Len(stack[p])]]

\* Mutant: a value is saved only where the action changes it.
Mutant_EnterRegion_PushChanged(t, r) ==
    /\ ~failed
    /\ MayEnter(t, r)
    /\ stack' = [p \in Params |-> IF p \in Restored(r) /\ setting[p] # table[r][p]
                                  THEN Append(stack[p], setting[p]) ELSE stack[p]]
    /\ setting' = [p \in Params |-> IF p \in Tuned(r) THEN table[r][p] ELSE setting[p]]
    /\ calls' = [calls EXCEPT ![t] = Append(@, Frame(r))]
    /\ UNCHANGED <<table, paramVars, failed>>

\* enter_region
EnterRegion(t, r) ==
    /\ ~failed
    /\ MayEnter(t, r)
    /\ stack' = [p \in Params |-> IF p \in Restored(r) THEN Append(stack[p], setting[p]) ELSE stack[p]]
    /\ setting' = [p \in Params |-> IF p \in Tuned(r) THEN table[r][p] ELSE setting[p]]
    /\ calls' = [calls EXCEPT ![t] = Append(@, Frame(r))]
    /\ UNCHANGED <<table, paramVars, failed>>

Last(s) == s[Len(s)]
Front(s) == SubSeq(s, 1, Len(s) - 1)

\* A thread leaves its innermost region; the master leaves the phase region after
\* the others have come back.
MayExit(t) ==
    /\ calls[t] # <<>>
    /\ Last(calls[t]).region = Phase => \A u \in Threads \ {t} : calls[u] = <<>>

\* Mutants: the oldest value is taken; the value is read but not popped; it is popped
\* but not applied.
Mutant_PopAll_Oldest(r) ==
    /\ setting' = [p \in Params |-> IF p \in Restored(r) THEN Head(stack[p]) ELSE setting[p]]
    /\ stack' = [p \in Params |-> IF p \in Restored(r) THEN Tail(stack[p]) ELSE stack[p]]

Mutant_PopAll_Peek(r) ==
    /\ setting' = [p \in Params |-> IF p \in Restored(r) THEN Last(stack[p]) ELSE setting[p]]
    /\ UNCHANGED stack

Mutant_PopAll_OnlyPops(r) ==
    /\ stack' = [p \in Params |-> IF p \in Restored(r) THEN Front(stack[p]) ELSE stack[p]]
    /\ UNCHANGED setting

\* popFromStack for every action of region r.
PopAll(r) ==
    /\ setting' = [p \in Params |-> IF p \in Restored(r) THEN Last(stack[p]) ELSE setting[p]]
    /\ stack' = [p \in Params |-> IF p \in Restored(r) THEN Front(stack[p]) ELSE stack[p]]

\* exit_region; popFromStack aborts on an empty stack.
ExitRegion(t) ==
    /\ ~failed
    /\ MayExit(t)
    /\ LET r == Last(calls[t]).region
       IN /\ failed' = \E p \in Restored(r) : stack[p] = <<>>
          /\ IF failed' THEN UNCHANGED <<stack, setting, calls>>
             ELSE PopAll(r) /\ calls' = [calls EXCEPT ![t] = Front(@)]
    /\ UNCHANGED <<table, paramVars>>

Next == \/ \E p \in Params, flag \in BOOLEAN : MapParameter(p, flag)
        \/ \E r \in AllRegions, p \in Params, v \in Values : AddTuningAction(r, p, v)
        \/ \E t \in Threads, r \in AllRegions : EnterRegion(t, r)
        \/ \E t \in Threads : ExitRegion(t)

Spec == Init /\ [][Next]_vars

-----------------------------------------------------------------------------
\* The states of the tables, stacks and calls.
TypeOK ==
    /\ table \in [AllRegions -> [Params -> Values \cup {NoAction}]]
    /\ mapped \in [Params -> BOOLEAN]
    /\ restore \in [Params -> BOOLEAN]
    /\ stack \in [Params -> Seq(Values)]
    /\ setting \in [Params -> Values]
    /\ calls \in [Threads -> Seq([region : AllRegions, before : [Params -> Values],
                                  height : [Params -> Nat]])]
    /\ baseline \in [Params -> Values]
    /\ failed \in BOOLEAN

\* popFromStack never finds an empty stack: the assertion "Stack underflow" holds,
\* whatever is nested in what and whatever was requested between two phases.
NoUnderflow == ~failed

\* restoreValueFlag, "Restore the previous value at region exit event": when a thread
\* leaves a region, each parameter that the region tunes and restores has the value
\* it had when that thread entered the region.
RestoredOnExit ==
    [][\A t \in Threads : Len(calls'[t]) < Len(calls[t]) =>
          LET f == Last(calls[t])
          IN \A p \in Restored(f.region) : setting'[p] = f.before[p]]_vars

\* Between two phases, where the next experiment is set up, every parameter that is
\* restored has its own value again: no scenario leaks into the next one.
ResetBetweenPhases ==
    Suspendable => \A p \in Params : mapped[p] /\ restore[p] => setting[p] = baseline[p]

\* A restore stack holds at most one value per region being executed: push2Stack
\* does not double it again and again over the iterations of the phase.
StackBounded ==
    \A p \in Params :
        Len(stack[p]) <= Cardinality(UNION {{t} \X (1..Len(calls[t])) : t \in Threads})
=============================================================================
