---------------------------- MODULE SearchRounds ----------------------------
(***************************************************************************)
(* What the frontend and its agents promise to the code that drives them,  *)
(* without messages, event loops or a hierarchy: a strategy request is     *)
(* issued to all analysis agents; each runs experiments for it and reports *)
(* what it finds until it has finished the request; the application may be *)
(* restarted in between, when nothing runs on it; the results are filed    *)
(* under the request they were found for.                                  *)
(*                                                                         *)
(* A phase experiment ends when every agent has finished it.  An analysis, *)
(* whose results are advice, is not repeated after a second early end of   *)
(* the application.                                                        *)
(***************************************************************************)
EXTENDS Naturals, TLAPS

CONSTANTS Workers,  \* the analysis agents
          Delayed   \* the requests before which the application runs on for a while

VARIABLES mode,      \* "idle", or the request in progress: "analysis" or "experiment"
          request,   \* the number of strategy requests issued
          running,   \* the agents on whose processes an experiment is running
          done,      \* done[w]: the last request w has finished
          run,       \* the current run of the application
          restarted, \* it is not the one the analysis in progress began with
          results,   \* the properties found for the request and not yet filed
          filed      \* the properties filed, with the request they are filed under

vars == <<mode, request, running, done, run, restarted, results, filed>>

Init ==
    /\ mode = "analysis" /\ request = 1
    /\ running = {} /\ done = [w \in Workers |-> 0]
    /\ run = 1 /\ restarted = FALSE
    /\ results = {} /\ filed = {}

Filing == filed \cup {[prop |-> p, step |-> request] : p \in results}

Issue ==
    /\ mode = "idle"
    /\ mode' \in {"analysis", "experiment"}
    /\ request' = request + 1
    /\ UNCHANGED <<running, done, run, restarted, results, filed>>

\* The agent's processes are told to run through the phase.
Work(w) ==
    /\ mode # "idle"
    /\ w \notin running
    /\ running' = running \cup {w}
    /\ UNCHANGED <<mode, request, done, run, restarted, results, filed>>

\* The application has come to its end before the first experiment of the request.
GiveUp(w) ==
    /\ mode # "idle"
    /\ w \notin running
    /\ request \in Delayed
    /\ done' = [done EXCEPT ![w] = request]
    /\ UNCHANGED <<mode, request, running, run, restarted, results, filed>>

\* The experiment is over: it has given a new property or none, and the
\* request is finished with it or not.
Report(w) ==
    /\ w \in running
    /\ running' = running \ {w}
    /\ done' \in {done, [done EXCEPT ![w] = request]}
    /\ results \subseteq results'
    /\ \A p \in results' \ results : /\ p.aa = w /\ p.req = request
                                     /\ p \notin {e.prop : e \in filed}
    /\ \A p, q \in results' \ results : p = q
    /\ UNCHANGED <<mode, request, run, restarted, filed>>

Restart ==
    /\ running = {}
    /\ run' = run + 1
    /\ restarted' = (mode = "analysis")
    /\ UNCHANGED <<mode, request, running, done, results, filed>>

\* The properties found so far are filed before the request is repeated.
File ==
    /\ mode = "experiment"
    /\ running = {}
    /\ filed' = Filing
    /\ results' = {}
    /\ UNCHANGED <<mode, request, running, done, run, restarted>>

Finished == \A w \in Workers : done[w] = request

End ==
    /\ mode # "idle"
    /\ running = {}
    /\ Finished \/ (mode = "analysis" /\ restarted)
    /\ mode' = "idle"
    /\ filed' = Filing
    /\ results' = {}
    /\ restarted' = FALSE
    /\ UNCHANGED <<request, running, done, run>>

Next == \/ Issue \/ Restart \/ File \/ End
        \/ \E w \in Workers : Work(w) \/ GiveUp(w) \/ Report(w)

Spec == Init /\ [][Next]_vars

-----------------------------------------------------------------------------
(* What follows from this, for any number of agents, requests and restarts:   *)
(* whatever implements it files each property once, under the request it was  *)
(* found for, and has nothing running or unfiled between two requests.        *)

QuietBetween == mode = "idle" => running = {} /\ results = {}

UnderItsRequest == \A e \in filed : e.step = e.prop.req

FiledOnce == \A e1, e2 \in filed : e1.prop = e2.prop => e1 = e2

\* What waits to be filed was found for the request in progress and is new.
ResultsFresh == \A p \in results : p.req = request /\ \A e \in filed : e.prop # p

\* Every filed entry is a property with the number of a request.
Entries == \A e \in filed : e = [prop |-> e.prop, step |-> e.step]

RoundsInv == QuietBetween /\ UnderItsRequest /\ FiledOnce /\ ResultsFresh /\ Entries

\* Filing what was found keeps every entry single and under its request.
LEMMA FilingKeeps ==
    ASSUME RoundsInv, filed' = Filing, results' = {}
    PROVE  UnderItsRequest' /\ FiledOnce' /\ ResultsFresh' /\ Entries'
<1>1. ASSUME NEW e \in filed'
      PROVE  \/ e \in filed
             \/ e.prop \in results /\ e = [prop |-> e.prop, step |-> request]
  BY DEF Filing
<1>2. Entries'
  BY <1>1 DEF RoundsInv, Entries
<1>3. UnderItsRequest'
  BY <1>1 DEF RoundsInv, UnderItsRequest, ResultsFresh
<1>4. FiledOnce'
  <2> SUFFICES ASSUME NEW e1 \in filed', NEW e2 \in filed', e1.prop = e2.prop
               PROVE  e1 = e2
    BY DEF FiledOnce
  <2>1. CASE e1 \in filed /\ e2 \in filed
    BY <2>1 DEF RoundsInv, FiledOnce
  <2>2. CASE e1 \notin filed /\ e2 \notin filed
    BY <1>1, <2>2
  <2>3. CASE e1 \in filed /\ e2 \notin filed
    BY <1>1, <2>3 DEF RoundsInv, ResultsFresh
  <2>4. CASE e1 \notin filed /\ e2 \in filed
    BY <1>1, <2>4 DEF RoundsInv, ResultsFresh
  <2> QED
    BY <2>1, <2>2, <2>3, <2>4
<1>5. ResultsFresh'
  BY DEF ResultsFresh
<1> QED
  BY <1>2, <1>3, <1>4, <1>5

LEMMA RoundsStart == Init => RoundsInv
  BY DEF Init, RoundsInv, QuietBetween, UnderItsRequest, FiledOnce, ResultsFresh, Entries

LEMMA RoundsStep == RoundsInv /\ [Next]_vars => RoundsInv'
<1> SUFFICES ASSUME RoundsInv, [Next]_vars PROVE RoundsInv'
  OBVIOUS
<1> USE DEF RoundsInv, QuietBetween
<1>1. CASE Issue
  BY <1>1 DEF Issue, UnderItsRequest, FiledOnce, ResultsFresh, Entries
<1>2. ASSUME NEW w \in Workers, Work(w) PROVE RoundsInv'
  BY <1>2 DEF Work, UnderItsRequest, FiledOnce, ResultsFresh, Entries
<1>3. ASSUME NEW w \in Workers, GiveUp(w) PROVE RoundsInv'
  BY <1>3 DEF GiveUp, UnderItsRequest, FiledOnce, ResultsFresh, Entries
<1>4. ASSUME NEW w \in Workers, Report(w) PROVE RoundsInv'
  <2>1. mode # "idle" /\ mode' = mode
    BY <1>4 DEF Report
  <2>2. ResultsFresh'
    <3> SUFFICES ASSUME NEW p \in results'
                 PROVE  p.req = request /\ \A e \in filed : e.prop # p
      BY <1>4 DEF Report, ResultsFresh
    <3>1. CASE p \in results
      BY <3>1 DEF ResultsFresh
    <3>2. CASE p \in results' \ results
      BY <1>4, <3>2 DEF Report
    <3> QED
      BY <3>1, <3>2
  <2>3. UnderItsRequest' /\ FiledOnce' /\ Entries'
    BY <1>4 DEF Report, UnderItsRequest, FiledOnce, Entries
  <2> QED
    BY <2>1, <2>2, <2>3
<1>5. CASE Restart
  BY <1>5 DEF Restart, UnderItsRequest, FiledOnce, ResultsFresh, Entries
<1>6. CASE File
  <2>1. filed' = Filing /\ results' = {} /\ mode' = "experiment"
    BY <1>6 DEF File
  <2> QED
    BY <2>1, FilingKeeps
<1>7. CASE End
  <2>1. filed' = Filing /\ results' = {} /\ running' = {}
    BY <1>7 DEF End
  <2> QED
    BY <2>1, FilingKeeps
<1>8. CASE UNCHANGED vars
  BY <1>8 DEF vars, UnderItsRequest, FiledOnce, ResultsFresh, Entries
<1> QED
  BY <1>1, <1>2, <1>3, <1>4, <1>5, <1>6, <1>7, <1>8 DEF Next

\* Each property is filed once, under the strategy request it was found for,
\* although an experiment is repeated on a restarted application and
\* run_phase_experiments_action files its results part by part, once for every
\* time it is run, and none is left to be filed under the next request.
THEOREM FiledRight == Spec => [](FiledOnce /\ UnderItsRequest /\ QuietBetween)
<1>1. RoundsInv => FiledOnce /\ UnderItsRequest /\ QuietBetween
  BY DEF RoundsInv
<1> QED
  BY <1>1, RoundsStart, RoundsStep, PTL DEF Spec
=============================================================================
