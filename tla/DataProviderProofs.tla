-------------------------- MODULE DataProviderProofs --------------------------
(***************************************************************************)
(* What DataProvider guarantees for any number of processes, metrics and   *)
(* cases, and wherever processes die, when the processes write no trace    *)
(* data while they run.  What is measured (at the end) rests on another    *)
(* condition besides.                                                      *)
(***************************************************************************)
EXTENDS DataProvider, FiniteSetTheorems, SequenceTheorems, TLAPS

Kinds    == {"OK", "SUSPENDED", "SUSPENDEDATEND", "TRACEDATA"} \cup {Buffers[i] : i \in 1 .. 5}
Messages == [from : Procs, run : Nat, kind : Kinds, data : SUBSET Metrics]
Commands == Metrics \cup Words
ProcessStates == [is : {"suspended", "runtostart", "runtoend", "dead"}, at : {"start", "outside", "exit"},
                  left : Int, iterations : Nat, asked : SUBSET Metrics, measured : SUBSET Metrics]

\* Types, also of what is not the agent's, and where the agent may block.
Types ==
    /\ TypeOK
    /\ proc \in [Procs -> ProcessStates]
    /\ down \in [Procs -> Seq(Commands)] /\ up \in [Procs -> Seq(Messages)] /\ ahead \in Seq(Messages)
    /\ pc \in {"begin", "request", "end", "buffer"} => cur \in Procs
    /\ pc = "request" => todo # <<>>
    /\ pc = "buffer" => received < 5

-----------------------------------------------------------------------------
(* Lemmas about the definitions.                                           *)

\* A set of natural numbers that is not empty and has a bound has a least element.
LEMMA LeastExists ==
    ASSUME NEW n \in Nat, NEW S, S \subseteq 0..n, S # {}
    PROVE  \E i \in S : \A j \in S : i <= j
<1> DEFINE Below(i) == {j \in S : j < i}
           T == {Below(i) : i \in S}
<1>1. IsFiniteSet(S)
  <2>1. IsFiniteSet(0..n)
    BY FS_Interval
  <2> QED
    BY <2>1, FS_Subset
<1>2. T \subseteq FiniteSubsetsOf(S) /\ T # {}
  <2>1. \A i \in S : Below(i) \in SUBSET S /\ IsFiniteSet(Below(i))
    <3> SUFFICES ASSUME NEW i \in S PROVE IsFiniteSet(Below(i))
      OBVIOUS
    <3>1. Below(i) \in SUBSET S
      OBVIOUS
    <3> QED
      BY <1>1, <3>1, FS_Subset
  <2> QED
    BY <2>1 DEF FiniteSubsetsOf
<1>3. PICK B \in T : \A C \in T : ~(<<C, B>> \in StrictSubsetOrdering(S))
  <2> HIDE DEF T
  <2> QED
    BY <1>2, FS_StrictSubsetOrderingWellFounded, WFMin
<1>4. PICK i \in S : B = Below(i)
  OBVIOUS
<1>5. ASSUME NEW j \in S, j < i PROVE FALSE
  <2>1. Below(j) \in T /\ i \in Nat /\ j \in Nat
    OBVIOUS
  <2>2. Below(j) \subseteq Below(i)
    <3>1. ASSUME NEW k \in S, k < j PROVE k < i
      <4>1. k \in Nat
        OBVIOUS
      <4> QED
        BY <1>5, <2>1, <3>1, <4>1
    <3> QED
      BY <3>1
  <2>3. j \in Below(i) /\ j \notin Below(j)
    BY <1>5, <2>1
  <2>4. <<Below(j), Below(i)>> \in StrictSubsetOrdering(S)
    BY <2>2, <2>3 DEF StrictSubsetOrdering
  <2> QED
    BY <1>3, <1>4, <2>1, <2>4
<1>6. \A j \in S : i <= j
  BY <1>5
<1> QED
  BY <1>6

\* The next working process is the first one from p on, or none is.
LEMMA NextWorkingFacts ==
    ASSUME NEW s, NEW p \in 1 .. NumProcs + 1
    PROVE  /\ NextWorking(s, p) \in p .. NumProcs + 1
           /\ NextWorking(s, p) \in Procs => s[NextWorking(s, p)] = "working"
           /\ \A q \in p .. NumProcs : q < NextWorking(s, p) => s[q] # "working"
<1> DEFINE S == {q \in p .. NumProcs : s[q] = "working"} \cup {NumProcs + 1}
<1>1. NumProcs \in Nat /\ NumProcs + 1 \in Nat /\ S \subseteq 0 .. (NumProcs + 1) /\ S # {}
  BY CasesAssumption
<1>2. \E i \in S : \A j \in S : i <= j
  <2> HIDE DEF S
  <2> QED
    BY <1>1, LeastExists
<1>3. NextWorking(s, p) \in S /\ \A j \in S : NextWorking(s, p) <= j
  <2> HIDE DEF S
  <2>1. Min(S) \in S /\ \A j \in S : Min(S) <= j
    BY <1>2 DEF Min
  <2> QED
    BY <2>1 DEF NextWorking, S
<1> QED
  BY <1>1, <1>3 DEF Procs

\* The requests of a set in some order.
LEMMA SetToSeqType ==
    ASSUME NEW S, IsFiniteSet(S)
    PROVE  SetToSeq(S) \in Seq(S)
<1>1. PICK f \in [1 .. Cardinality(S) -> S] : IsInjective(f)
  <2>1. Cardinality(S) \in Nat /\ \E f : f \in Bijection(1 .. Cardinality(S), S)
    BY FS_CardinalityType DEF ExistsBijection
  <2> QED
    BY <2>1 DEF Bijection, Injection, IsInjective
<1>2. SetToSeq(S) \in [1 .. Cardinality(S) -> S] /\ Cardinality(S) \in Nat
  BY <1>1, FS_CardinalityType DEF SetToSeq
<1> QED
  BY <1>2, SeqDef
\* What Written and ToAll leave in the stream to one process.
LEMMA WrittenFacts ==
    ASSUME NEW d \in [Procs -> Seq(Commands)], NEW p \in Procs, NEW c \in Commands
    PROVE  /\ Written(d, p, c) \in [Procs -> Seq(Commands)]
           /\ \A q \in Procs : q # p => Written(d, p, c)[q] = d[q]
           /\ Written(d, p, c)[p] = IF proc[p].is = "dead" THEN d[p] ELSE Append(d[p], c)
<1>1. Append(d[p], c) \in Seq(Commands)
  OBVIOUS
<1> QED
  BY <1>1 DEF Written

\* The same, written to every process.
LEMMA ToAllFacts ==
    ASSUME NEW d \in [Procs -> Seq(Commands)], NEW c \in Commands
    PROVE  /\ ToAll(d, c) \in [Procs -> Seq(Commands)]
           /\ \A p \in Procs : ToAll(d, c)[p] = IF proc[p].is = "dead" THEN d[p] ELSE Append(d[p], c)
<1>1. \A p \in Procs : /\ Written(d, p, c)[p] \in Seq(Commands)
                       /\ Written(d, p, c)[p] = IF proc[p].is = "dead" THEN d[p] ELSE Append(d[p], c)
  BY WrittenFacts
<1> QED
  BY <1>1 DEF ToAll

\* The same for streams that are empty.
LEMMA FirstCommand ==
    ASSUME NEW d \in [Procs -> Seq(Commands)], NEW c \in Commands
    PROVE  /\ \A p \in Procs : d[p] = <<>> =>
                 Written(d, p, c)[p] = IF proc[p].is = "dead" THEN <<>> ELSE <<c>>
           /\ \A p \in Procs : d[p] = <<>> =>
                 ToAll(d, c)[p] = IF proc[p].is = "dead" THEN <<>> ELSE <<c>>
<1>1. Append(<<>>, c) = <<c>>
  OBVIOUS
<1>2. \A p \in Procs : Written(d, p, c)[p] = IF proc[p].is = "dead" THEN d[p] ELSE Append(d[p], c)
  BY WrittenFacts
<1>3. \A p \in Procs : ToAll(d, c)[p] = IF proc[p].is = "dead" THEN d[p] ELSE Append(d[p], c)
  BY ToAllFacts
<1> QED
  BY <1>1, <1>2, <1>3

\* The same for the stream to one process.
LEMMA OneCommand ==
    ASSUME NEW d \in [Procs -> Seq(Commands)], NEW p \in Procs, NEW c \in Commands, d[p] = <<>>
    PROVE  /\ Written(d, p, c) \in [Procs -> Seq(Commands)]
           /\ \A q \in Procs : q # p => Written(d, p, c)[q] = d[q]
           /\ Written(d, p, c)[p] = IF proc[p].is = "dead" THEN <<>> ELSE <<c>>
<1>1. Written(d, p, c)[p] = IF proc[p].is = "dead" THEN <<>> ELSE <<c>>
  BY FirstCommand
<1> QED
  BY <1>1, WrittenFacts

\* A read takes the next line of what was read ahead and of the stream of cur, and only that.
LEMMA ReadFacts ==
    ASSUME Types, cur \in Procs, CanRead, Read
    PROVE  /\ up' \in [Procs -> Seq(Messages)] /\ ahead' \in Seq(Messages)
           /\ \A p \in Procs : p # cur => up'[p] = up[p]
           /\ Line \in Messages
           /\ ahead # <<>> => ahead' = Tail(ahead) /\ up' = up
           /\ ahead = <<>> =>
                 \E k \in 1 .. Len(up[cur]) :
                    /\ ahead' = SubSeq(up[cur], 2, k)
                    /\ up'[cur] = SubSeq(up[cur], k + 1, Len(up[cur]))
<1>0. ahead \in Seq(Messages) /\ up \in [Procs -> Seq(Messages)] /\ up[cur] \in Seq(Messages)
  BY DEF Types
<1>1. CASE ahead # <<>>
  BY <1>0, <1>1, HeadTailProperties DEF Read, Line
<1>2. CASE ahead = <<>>
  <2>1. up[cur] # <<>> /\ Line \in Messages
    BY <1>0, <1>2 DEF CanRead, Line
  <2>2. PICK k \in DOMAIN up[cur] : /\ ahead' = SubSeq(up[cur], 2, k)
                                    /\ up' = [up EXCEPT ![cur] = SubSeq(@, k + 1, Len(@))]
    BY <1>2 DEF Read
  <2>3. k \in 1 .. Len(up[cur]) /\ Len(up[cur]) \in Nat
    BY <1>0, <2>2
  <2>4. SubSeq(up[cur], 2, k) \in Seq(Messages) /\ SubSeq(up[cur], k + 1, Len(up[cur])) \in Seq(Messages)
    <3>1. \A i \in 1 .. Len(up[cur]) : up[cur][i] \in Messages
      BY <1>0, ElementOfSeq
    <3> QED
      BY <2>3, <3>1, SubSeqProperties
  <2> QED
    BY <1>0, <1>2, <2>1, <2>2, <2>3, <2>4
<1> QED
  BY <1>1, <1>2
-----------------------------------------------------------------------------
(* The inductive invariant: where the protocol stands with each process.   *)

Here(p)   == proc[p].is \in {"suspended", "dead"}
Heard(p)  == down[p] = <<>>      \* it has taken all that was written to it,
Silent(p) == up[p] = <<>>        \* and has written nothing that is not read
Quiet(p)  == Here(p) /\ Heard(p) /\ Silent(p)

\* It has one of the commands before it, or has written the line that answers them, or died.
Said(p, kinds) == \E kind \in kinds : up[p] = <<Message(p, kind, {})>>
Asked(p, cs) ==
    \/ proc[p].is = "suspended" /\ down[p] \in cs /\ Silent(p)
    \/ Here(p) /\ Heard(p) /\ Said(p, {"OK"})
    \/ proc[p].is = "dead" /\ Heard(p) /\ Silent(p)

\* It has only been told the number of iterations yet.
Waiting(p) ==
    /\ Here(p) /\ Silent(p)
    /\ down[p] \in {<<>>, <<"setnumiterations">>}
    /\ proc[p].is = "dead" => Heard(p)

\* It runs until it writes its verdict.
Stopping(p) ==
    \/ proc[p].is = "suspended" /\ down[p] \in {<<"runtostart">>, <<"runtoend">>} /\ Silent(p)
    \/ proc[p].is \in {"runtostart", "runtoend", "dead"} /\ Heard(p) /\ Silent(p)
    \/ Here(p) /\ Heard(p) /\ Said(p, {"SUSPENDED", "SUSPENDEDATEND"})

\* The buffers of p not received yet are in what was read ahead and in its stream, in order.
Sending(p) ==
    \/ /\ Silent(p) /\ ahead = <<>> /\ received = 0
       /\ \/ proc[p].is = "suspended" /\ down[p] = <<"getsummarydata">>
          \/ proc[p].is = "dead" /\ Heard(p)
    \/ /\ Here(p) /\ Heard(p)
       /\ Len(ahead) + Len(up[p]) = 5 - received
       /\ \A i \in 1 .. Len(ahead) : /\ ahead[i].from = p /\ ahead[i].run = runs
                                     /\ ahead[i].kind = Buffers[received + i]
       /\ \A i \in 1 .. Len(up[p]) : /\ up[p][i].from = p /\ up[p][i].run = runs
                                     /\ up[p][i].kind = Buffers[received + Len(ahead) + i]

\* The place of p in the loop over the processes: those before cur are done.
AtBegin(p) ==
    /\ p < cur => Quiet(p)
    /\ p = cur => Asked(p, {<<"setnumiterations", "beginrequests">>, <<"beginrequests">>})
    /\ p > cur => Waiting(p)
AtRequest(p) == IF p = cur THEN Asked(p, {<<Head(todo)>>}) ELSE Quiet(p)
AtEndRequests(p)     == IF p < cur THEN Quiet(p) ELSE Asked(p, {<<"endrequests">>})
InPass(p)    == IF p >= cur /\ state[p] = "working" THEN Stopping(p) ELSE Quiet(p)
AtBuffer(p)  == IF p = cur THEN Sending(p) ELSE Quiet(p)

ProtocolOK ==
    /\ pc \notin {"begin", "request", "end", "pass", "buffer"} => \A p \in Procs : Quiet(p)
    /\ pc = "begin"   => \A p \in Procs : AtBegin(p)
    /\ pc = "request" => \A p \in Procs : AtRequest(p)
    /\ pc = "end"     => \A p \in Procs : AtEndRequests(p)
    /\ pc = "pass"    => /\ ~executing /\ (cur \in Procs => state[cur] = "working")
                         /\ \A p \in Procs : InPass(p)
    /\ pc = "buffer"  => \A p \in Procs : AtBuffer(p)
    /\ pc # "buffer"  => ahead = <<>>

\* The assumption of the theorems: no process writes trace data while it runs.
NoTrace == \A c \in Cases : c.traced = {}

-----------------------------------------------------------------------------
(* Steps of the processes.                                                 *)

\* A function on 1 .. n is a sequence of length n.
LEMMA TableIsSeq ==
    ASSUME NEW S, NEW n \in Nat, NEW f \in [1 .. n -> S]
    PROVE  f \in Seq(S) /\ Len(f) = n
  OBVIOUS

\* The buffers are messages of their process.
LEMMA SummaryFacts ==
    ASSUME Types, NEW p \in Procs
    PROVE  /\ Summary(p) \in Seq(Messages) /\ Len(Summary(p)) = 5
           /\ \A i \in 1 .. 5 : /\ Summary(p)[i].from = p /\ Summary(p)[i].run = runs
                                /\ Summary(p)[i].kind = Buffers[i]
<1>1. DOMAIN Buffers = 1 .. 5 /\ runs \in Nat /\ proc[p].measured \subseteq Metrics
  BY CasesAssumption DEF Buffers, Types, TypeOK, ProcessStates
<1>2. \A i \in 1 .. 5 : Summary(p)[i] \in Messages
  BY <1>1 DEF Summary, Message, Messages, Kinds
<1>3. Summary(p) \in [1 .. 5 -> Messages]
  <2>1. DOMAIN Summary(p) = 1 .. 5 /\ Summary(p) = [i \in 1 .. 5 |-> Summary(p)[i]]
    BY <1>1, Zenon DEF Summary
  <2> QED
    BY <1>2, <2>1, Zenon
<1>4. Summary(p) \in Seq(Messages) /\ Len(Summary(p)) = 5
  BY <1>3, TableIsSeq
<1> QED
  BY <1>1, <1>4 DEF Summary, Message

\* A line of a process is a message.
LEMMA SaysFacts ==
    ASSUME Types, NEW p \in Procs, NEW kind \in Kinds, Says(p, kind)
    PROVE  /\ up' \in [Procs -> Seq(Messages)]
           /\ up'[p] = Append(up[p], Message(p, kind, {}))
           /\ \A q \in Procs : q # p => up'[q] = up[q]
<1>1. Message(p, kind, {}) \in Messages
  BY CasesAssumption DEF Message, Messages, Types, TypeOK
<1> QED
  BY <1>1 DEF Says, Types

\* A process changes its own state and the two streams of its connection.
LEMMA ProcessFacts ==
    ASSUME Types, NEW p \in Procs, Process(p)
    PROVE  /\ UNCHANGED <<agentVars, ahead>>
           /\ proc' \in [Procs -> ProcessStates]
           /\ down' \in [Procs -> Seq(Commands)] /\ up' \in [Procs -> Seq(Messages)]
           /\ \A q \in Procs : q # p => proc'[q] = proc[q] /\ down'[q] = down[q] /\ up'[q] = up[q]
<1>0. /\ proc \in [Procs -> ProcessStates] /\ down \in [Procs -> Seq(Commands)]
      /\ up \in [Procs -> Seq(Messages)] /\ runs \in Nat
  BY CasesAssumption DEF Types, TypeOK
<1>1. CASE Obey(p)
  <2> DEFINE c == Head(down[p])
  <2>1. /\ down[p] # <<>> /\ Tail(down[p]) \in Seq(Commands)
        /\ down' = [down EXCEPT ![p] = Tail(@)]
    BY <1>0, <1>1, HeadTailProperties DEF Obey
  <2>2. case.iterations \in Nat
    BY CasesAssumption DEF Types, TypeOK
  <2>3. proc' \in [Procs -> ProcessStates] /\ \A q \in Procs : q # p => proc'[q] = proc[q]
    <3>1. \/ proc' = [proc EXCEPT ![p].iterations = case.iterations]
          \/ proc' = [proc EXCEPT ![p].asked = {}]
          \/ c \in Metrics /\ proc' = [proc EXCEPT ![p].asked = @ \cup {c}]
          \/ proc' = proc
          \/ c \in {"runtostart", "runtoend"} /\ proc' = [proc EXCEPT ![p].is = c]
      BY <1>1 DEF Obey
    <3>2. ASSUME NEW r \in ProcessStates, proc' = [proc EXCEPT ![p] = r]
          PROVE  proc' \in [Procs -> ProcessStates] /\ \A q \in Procs : q # p => proc'[q] = proc[q]
      BY <1>0, <3>2
    <3>3. proc[p] \in ProcessStates
      BY <1>0
    <3>4. CASE proc' = [proc EXCEPT ![p].iterations = case.iterations]
      <4>1. [proc[p] EXCEPT !.iterations = case.iterations] \in ProcessStates
        BY <2>2, <3>3 DEF ProcessStates
      <4> QED
        BY <3>2, <3>4, <4>1
    <3>5. CASE proc' = [proc EXCEPT ![p].asked = {}]
      <4>1. [proc[p] EXCEPT !.asked = {}] \in ProcessStates
        BY <3>3 DEF ProcessStates
      <4> QED
        BY <3>2, <3>5, <4>1
    <3>6. CASE c \in Metrics /\ proc' = [proc EXCEPT ![p].asked = @ \cup {c}]
      <4> HIDE DEF c
      <4>1. [proc[p] EXCEPT !.asked = @ \cup {c}] \in ProcessStates
        <5>1. proc[p].asked \cup {c} \in SUBSET Metrics
          BY <3>3, <3>6 DEF ProcessStates
        <5> QED
          BY <3>3, <5>1 DEF ProcessStates
      <4> QED
        BY <3>2, <3>6, <4>1
    <3>7. CASE c \in {"runtostart", "runtoend"} /\ proc' = [proc EXCEPT ![p].is = c]
      <4> HIDE DEF c
      <4>1. [proc[p] EXCEPT !.is = c] \in ProcessStates
        BY <3>3, <3>7 DEF ProcessStates
      <4> QED
        BY <3>2, <3>7, <4>1
    <3> QED
      BY <1>0, <3>1, <3>4, <3>5, <3>6, <3>7
  <2>4. up' \in [Procs -> Seq(Messages)] /\ \A q \in Procs : q # p => up'[q] = up[q]
    <3>1. up' = up \/ Says(p, "OK") \/ up' = [up EXCEPT ![p] = @ \o Summary(p)]
      BY <1>1 DEF Obey
    <3>2. up[p] \o Summary(p) \in Seq(Messages)
      BY <1>0, SummaryFacts, ConcatProperties
    <3>3. "OK" \in Kinds
      BY DEF Kinds
    <3> QED
      BY <1>0, <3>1, <3>2, <3>3, SaysFacts
  <2> QED
    BY <1>0, <1>1, <2>1, <2>3, <2>4 DEF Obey
<1>2. CASE Stop(p)
  <2> DEFINE q == proc[p]
             need == IF q.is = "runtoend" THEN q.iterations ELSE IF q.at = "start" THEN 2 ELSE 1
             done == IF q.is = "runtoend" THEN need ELSE need - 1
             exits == ~case.userPhase \/ (q.left < need /\ ~case.endless)
             at   == IF exits THEN "exit" ELSE IF q.is = "runtostart" THEN "start" ELSE "outside"
             left == IF exits THEN 0 ELSE IF case.endless THEN q.left ELSE q.left - done
             measured == IF q.is = "runtoend" /\ (exits => ~case.userPhase) THEN q.asked ELSE {}
  <2>1. proc' = [proc EXCEPT ![p] = [q EXCEPT !.is = "suspended", !.at = at, !.left = left,
                                              !.measured = measured]]
    BY <1>2, Zenon DEF Stop
  <2>2. proc' \in [Procs -> ProcessStates] /\ \A r \in Procs : r # p => proc'[r] = proc[r]
    <3>1. q \in ProcessStates
      BY <1>0
    <3>2. at \in {"start", "outside", "exit"} /\ left \in Int /\ measured \in SUBSET Metrics
      BY <3>1 DEF ProcessStates
    <3> HIDE DEF at, left, measured
    <3>3. [q EXCEPT !.is = "suspended", !.at = at, !.left = left, !.measured = measured] \in ProcessStates
      BY <3>1, <3>2 DEF ProcessStates
    <3> QED
      BY <1>0, <2>1, <3>3
  <2>3. \E kind \in {"SUSPENDED", "SUSPENDEDATEND"} : Says(p, kind)
    BY <1>2 DEF Stop
  <2>4. up' \in [Procs -> Seq(Messages)] /\ \A r \in Procs : r # p => up'[r] = up[r]
    BY <2>3, SaysFacts DEF Kinds
  <2> QED
    BY <1>0, <1>2, <2>2, <2>4 DEF Stop
<1>3. CASE Trace(p)
  <2>1. up' \in [Procs -> Seq(Messages)] /\ \A q \in Procs : q # p => up'[q] = up[q]
    BY <1>3, SaysFacts DEF Trace, Kinds
  <2> QED
    BY <1>0, <1>3, <2>1 DEF Trace
<1>4. CASE Die(p)
  <2>1. proc' = [proc EXCEPT ![p].is = "dead"] /\ down' = [down EXCEPT ![p] = <<>>]
    BY <1>4 DEF Die
  <2>2. proc' \in [Procs -> ProcessStates] /\ \A q \in Procs : q # p => proc'[q] = proc[q]
    <3>1. [proc[p] EXCEPT !.is = "dead"] \in ProcessStates
      BY <1>0 DEF ProcessStates
    <3> QED
      BY <1>0, <2>1, <3>1
  <2>3. down' \in [Procs -> Seq(Commands)] /\ \A q \in Procs : q # p => down'[q] = down[q]
    BY <1>0, <2>1
  <2> QED
    BY <1>0, <1>4, <2>2, <2>3 DEF Die
<1> QED
  BY <1>1, <1>2, <1>3, <1>4 DEF Process

\* The commands a process answers with OK.
OkCommands == Metrics \cup {"beginrequests", "endrequests", "tuningaction"}

\* What a command does to the process that reads it.
LEMMA ObeyFacts ==
    ASSUME Types, NEW p \in Procs, Obey(p)
    PROVE  /\ proc[p].is = "suspended" /\ down[p] # <<>> /\ down'[p] = Tail(down[p])
           /\ Head(down[p]) = "setnumiterations" => proc'[p].is = "suspended" /\ up'[p] = up[p]
           /\ Head(down[p]) \in OkCommands =>
                 proc'[p].is = "suspended" /\ up'[p] = Append(up[p], Message(p, "OK", {}))
           /\ Head(down[p]) \in {"runtostart", "runtoend"} =>
                 proc'[p].is = Head(down[p]) /\ up'[p] = up[p]
           /\ Head(down[p]) = "getsummarydata" =>
                 proc'[p].is = "suspended" /\ up'[p] = up[p] \o Summary(p)
<1> DEFINE c == Head(down[p])
<1>0. /\ proc \in [Procs -> ProcessStates] /\ proc[p] \in ProcessStates
      /\ down \in [Procs -> Seq(Commands)] /\ up \in [Procs -> Seq(Messages)]
  BY DEF Types
<1>1. proc[p].is = "suspended" /\ down[p] # <<>> /\ down'[p] = Tail(down[p])
  BY <1>0 DEF Obey
<1>2. \/ c = "setnumiterations" /\ proc' = [proc EXCEPT ![p].iterations = case.iterations] /\ up' = up
      \/ c = "beginrequests" /\ proc' = [proc EXCEPT ![p].asked = {}] /\ Says(p, "OK")
      \/ c \in Metrics /\ proc' = [proc EXCEPT ![p].asked = @ \cup {c}] /\ Says(p, "OK")
      \/ c \in {"tuningaction", "endrequests"} /\ proc' = proc /\ Says(p, "OK")
      \/ c \in {"runtostart", "runtoend"} /\ proc' = [proc EXCEPT ![p].is = c] /\ up' = up
      \/ c = "getsummarydata" /\ proc' = proc /\ up' = [up EXCEPT ![p] = @ \o Summary(p)]
  BY DEF Obey
<1>3. \A w \in Words : w \notin Metrics
  BY CasesAssumption
<1>4. Says(p, "OK") => up'[p] = Append(up[p], Message(p, "OK", {}))
  BY <1>0 DEF Says
<1>5. CASE c = "setnumiterations"
  BY <1>0, <1>1, <1>2, <1>3, <1>5 DEF Words, OkCommands, ProcessStates
<1>6. CASE c \in OkCommands
  BY <1>0, <1>1, <1>2, <1>3, <1>4, <1>6 DEF Words, OkCommands, ProcessStates
<1>7. CASE c \in {"runtostart", "runtoend"}
  BY <1>0, <1>1, <1>2, <1>3, <1>7 DEF Words, OkCommands, ProcessStates
<1>8. CASE c = "getsummarydata"
  BY <1>0, <1>1, <1>2, <1>3, <1>8 DEF Words, OkCommands, ProcessStates
<1> QED
  BY <1>1, <1>2, <1>5, <1>6, <1>7, <1>8 DEF OkCommands

\* A process that stops gives its verdict.
LEMMA StopFacts ==
    ASSUME Types, NEW p \in Procs, Stop(p)
    PROVE  /\ proc[p].is \in {"runtostart", "runtoend"}
           /\ proc'[p].is = "suspended" /\ down'[p] = down[p]
           /\ \E kind \in {"SUSPENDED", "SUSPENDEDATEND"} : up'[p] = Append(up[p], Message(p, kind, {}))
<1>0. proc \in [Procs -> ProcessStates] /\ proc[p] \in ProcessStates
  BY DEF Types
<1>1. \E kind \in {"SUSPENDED", "SUSPENDEDATEND"} : Says(p, kind)
  BY DEF Stop
<1>2. \E a, l, m : proc' = [proc EXCEPT ![p] =
          [proc[p] EXCEPT !.is = "suspended", !.at = a, !.left = l, !.measured = m]]
  BY Zenon DEF Stop
<1>3. proc'[p].is = "suspended"
  BY <1>0, <1>2 DEF ProcessStates
<1> QED
  BY <1>1, <1>3, SaysFacts DEF Stop, Kinds

\* A process that dies takes the commands to it along, not what it has written.
LEMMA DieFacts ==
    ASSUME Types, NEW p \in Procs, Die(p)
    PROVE  proc'[p].is = "dead" /\ down'[p] = <<>> /\ up'[p] = up[p]
<1>0. proc \in [Procs -> ProcessStates] /\ proc[p] \in ProcessStates /\ down \in [Procs -> Seq(Commands)]
  BY DEF Types
<1> QED
  BY <1>0 DEF Die, ProcessStates

\* Without trace data a process obeys, stops or dies.
LEMMA NothingElse ==
    ASSUME NoTrace, Types, NEW p \in Procs, Process(p)
    PROVE  Obey(p) \/ Stop(p) \/ Die(p)
BY DEF NoTrace, Types, TypeOK, Process, Trace

\* A quiet process stays quiet until it is written to.
LEMMA StaysQuiet ==
    ASSUME NoTrace, Types, NEW p \in Procs, Process(p), Quiet(p)
    PROVE  Quiet(p)'
<1>1. CASE Die(p)
  BY <1>1, DieFacts DEF Quiet, Here, Heard, Silent
<1>2. ~Obey(p) /\ ~Stop(p)
  BY DEF Obey, Stop, Quiet, Here, Heard
<1> QED
  BY <1>1, <1>2, NothingElse

\* A command that asks for an OK gets one line, or the process dies.
LEMMA StaysAsked ==
    ASSUME NoTrace, Types, NEW p \in Procs, Process(p), NEW cs, Asked(p, cs),
           \A d \in cs : \/ \E c \in OkCommands : d = <<c>>
                         \/ d = <<"setnumiterations", "beginrequests">> /\ <<"beginrequests">> \in cs
    PROVE  Asked(p, cs)'
<1>0. runs' = runs /\ up[p] \in Seq(Messages)
  BY ProcessFacts DEF agentVars, frontendVars, Types
<1>1. CASE Obey(p)
  <2>1. down[p] \in cs /\ up[p] = <<>>
    BY <1>1, ObeyFacts DEF Asked, Heard, Silent
  <2>2. ASSUME NEW c \in OkCommands, down[p] = <<c>> PROVE Asked(p, cs)'
    <3>1. Head(down[p]) = c /\ Tail(down[p]) = <<>>
      BY <2>2
    <3>2. proc'[p].is = "suspended" /\ down'[p] = <<>> /\ up'[p] = Append(up[p], Message(p, "OK", {}))
      BY <1>1, <3>1, ObeyFacts
    <3>3. up'[p] = <<Message(p, "OK", {})>>
      BY <2>1, <3>2
    <3> QED
      BY <1>0, <3>2, <3>3 DEF Asked, Here, Heard, Said, Message
  <2>3. ASSUME down[p] = <<"setnumiterations", "beginrequests">>, <<"beginrequests">> \in cs PROVE Asked(p, cs)'
    <3>1. Head(down[p]) = "setnumiterations" /\ Tail(down[p]) = <<"beginrequests">>
      BY <2>3
    <3> QED
      BY <1>1, <2>1, <2>3, <3>1, ObeyFacts DEF Asked, Silent
  <2> QED
    BY <2>1, <2>2, <2>3
<1>2. CASE Die(p)
  BY <1>0, <1>2, DieFacts DEF Asked, Here, Heard, Silent, Said, Message
<1>3. ~Stop(p)
  BY DEF Stop, Asked, Here
<1> QED
  BY <1>1, <1>2, <1>3, NothingElse

\* The number of iterations is not answered.
LEMMA StaysWaiting ==
    ASSUME NoTrace, Types, NEW p \in Procs, Process(p), Waiting(p)
    PROVE  Waiting(p)'
<1>1. CASE Obey(p)
  <2>1. down[p] = <<"setnumiterations">>
    BY <1>1, ObeyFacts DEF Waiting
  <2>2. Head(down[p]) = "setnumiterations" /\ Tail(down[p]) = <<>>
    BY <2>1
  <2> QED
    BY <1>1, <2>2, ObeyFacts DEF Waiting, Here, Heard, Silent
<1>2. CASE Die(p)
  BY <1>2, DieFacts DEF Waiting, Here, Heard, Silent
<1>3. ~Stop(p)
  BY DEF Stop, Waiting, Here
<1> QED
  BY <1>1, <1>2, <1>3, NothingElse

\* A process that was told to run gives one verdict, or dies.
LEMMA StaysStopping ==
    ASSUME NoTrace, Types, NEW p \in Procs, Process(p), Stopping(p)
    PROVE  Stopping(p)'
<1>0. runs' = runs /\ up[p] \in Seq(Messages)
  BY ProcessFacts DEF agentVars, frontendVars, Types
<1>1. CASE Obey(p)
  <2>1. PICK c \in {"runtostart", "runtoend"} : down[p] = <<c>> /\ up[p] = <<>>
    BY <1>1, ObeyFacts DEF Stopping, Heard, Silent
  <2>2. Head(down[p]) = c /\ Tail(down[p]) = <<>>
    BY <2>1
  <2> QED
    BY <1>1, <2>1, <2>2, ObeyFacts DEF Stopping, Heard, Silent
<1>2. CASE Stop(p)
  <2>1. down[p] = <<>> /\ up[p] = <<>>
    BY <1>2, StopFacts DEF Stopping, Here, Heard, Silent
  <2>2. PICK kind \in {"SUSPENDED", "SUSPENDEDATEND"} : up'[p] = Append(up[p], Message(p, kind, {}))
    BY <1>2, StopFacts
  <2>3. up'[p] = <<Message(p, kind, {})>>
    BY <2>1, <2>2
  <2> QED
    BY <1>0, <1>2, <2>1, <2>3, StopFacts DEF Stopping, Here, Heard, Said, Message
<1>3. CASE Die(p)
  BY <1>0, <1>3, DieFacts DEF Stopping, Here, Heard, Silent, Said, Message
<1> QED
  BY <1>1, <1>2, <1>3, NothingElse

\* A process asked for its data sends the five buffers, or dies before or behind them.
LEMMA StaysSending ==
    ASSUME NoTrace, Types, NEW p \in Procs, Process(p), Sending(p)
    PROVE  Sending(p)'
<1>0. /\ UNCHANGED <<runs, received, ahead>> /\ received \in 0 .. 5
      /\ ahead \in Seq(Messages) /\ up[p] \in Seq(Messages)
  BY ProcessFacts DEF agentVars, frontendVars, Types, TypeOK
<1>1. CASE Obey(p)
  <2>1. down[p] = <<"getsummarydata">> /\ up[p] = <<>> /\ ahead = <<>> /\ received = 0
    BY <1>1, ObeyFacts DEF Sending, Heard, Silent
  <2>2. Head(down[p]) = "getsummarydata" /\ Tail(down[p]) = <<>>
    BY <2>1
  <2>3. up'[p] = Summary(p)
    <3>1. up'[p] = up[p] \o Summary(p)
      BY <1>1, <2>2, ObeyFacts
    <3>2. Summary(p) \in Seq(Messages)
      BY SummaryFacts
    <3> QED
      BY <2>1, <3>1, <3>2, ConcatEmptySeq
  <2>4. /\ proc'[p].is = "suspended" /\ down'[p] = <<>>
        /\ ahead' = <<>> /\ received' = 0 /\ runs' = runs
        /\ Len(ahead') = 0 /\ Len(up'[p]) = 5
    <3>1. Len(Summary(p)) = 5
      BY SummaryFacts
    <3>2. proc'[p].is = "suspended" /\ down'[p] = Tail(down[p])
      BY <1>1, <2>2, ObeyFacts
    <3> QED
      BY <1>0, <2>1, <2>2, <2>3, <3>1, <3>2
  <2>5. \A i \in 1 .. 5 : /\ Summary(p)[i].from = p /\ Summary(p)[i].run = runs
                          /\ Summary(p)[i].kind = Buffers[i]
    BY SummaryFacts
  <2> QED
    BY <2>3, <2>4, <2>5 DEF Sending, Here, Heard
<1>2. CASE Die(p)
  BY <1>0, <1>2, DieFacts DEF Sending, Here, Heard, Silent
<1>3. ~Stop(p)
  BY DEF Stop, Sending, Here
<1> QED
  BY <1>1, <1>2, <1>3, NothingElse

\* Where the protocol stands with a process depends on nothing of the others.
LEMMA Untouched ==
    ASSUME NEW p, NEW cs, UNCHANGED <<runs, ahead, received>>,
           proc'[p] = proc[p], down'[p] = down[p], up'[p] = up[p]
    PROVE  /\ Quiet(p)' <=> Quiet(p)
           /\ Asked(p, cs)' <=> Asked(p, cs)
           /\ Waiting(p)' <=> Waiting(p)
           /\ Stopping(p)' <=> Stopping(p)
           /\ Sending(p)' <=> Sending(p)
<1> USE DEF Here, Heard, Silent, Said, Message
<1>1. Quiet(p)' <=> Quiet(p)
  BY DEF Quiet
<1>2. Asked(p, cs)' <=> Asked(p, cs)
  BY DEF Asked
<1>3. Waiting(p)' <=> Waiting(p)
  BY DEF Waiting
<1>4. Stopping(p)' <=> Stopping(p)
  BY DEF Stopping
<1>5. Sending(p)' <=> Sending(p)
  BY DEF Sending
<1> QED
  BY <1>1, <1>2, <1>3, <1>4, <1>5

\* Whatever a process does, the protocol goes on.
LEMMA ProcessStep ==
    ASSUME NoTrace, Types, ProtocolOK, NEW p \in Procs, Process(p)
    PROVE  Types' /\ ProtocolOK'
<1>0. /\ UNCHANGED <<pc, cur, executing, received, todo, state, runs, ahead>>
      /\ \A q \in Procs : q # p => proc'[q] = proc[q] /\ down'[q] = down[q] /\ up'[q] = up[q]
  BY ProcessFacts DEF agentVars, frontendVars
<1>1. Types'
  <2>1. TypeOK'
    <3>1. UNCHANGED agentVars /\ TypeOK
      BY ProcessFacts DEF Types
    <3> QED
      BY <3>1 DEF TypeOK, agentVars, frontendVars, requestVars, resultVars
  <2> QED
    BY <1>0, <2>1, ProcessFacts DEF Types
<1>2. ASSUME NEW q \in Procs, NEW cs,
             \A d \in cs : \/ \E c \in OkCommands : d = <<c>>
                           \/ d = <<"setnumiterations", "beginrequests">> /\ <<"beginrequests">> \in cs
      PROVE  Asked(q, cs) => Asked(q, cs)'
  BY <1>0, <1>2, StaysAsked, Untouched
<1>3. ASSUME NEW q \in Procs
      PROVE  /\ Quiet(q) => Quiet(q)'
             /\ Waiting(q) => Waiting(q)'
             /\ Stopping(q) => Stopping(q)'
             /\ Sending(q) => Sending(q)'
  BY <1>0, StaysQuiet, StaysWaiting, StaysStopping, StaysSending, Untouched
<1>4. ASSUME NEW q \in Procs, pc = "begin" PROVE AtBegin(q)'
  <2>1. AtBegin(q)
    BY <1>4 DEF ProtocolOK
  <2>2. Asked(q, {<<"setnumiterations", "beginrequests">>, <<"beginrequests">>})
           => Asked(q, {<<"setnumiterations", "beginrequests">>, <<"beginrequests">>})'
    BY <1>2 DEF OkCommands
  <2> QED
    BY <1>0, <1>3, <2>1, <2>2 DEF AtBegin
<1>5. ASSUME NEW q \in Procs, pc = "request" PROVE AtRequest(q)'
  <2>1. AtRequest(q) /\ Head(todo) \in OkCommands
    BY <1>5 DEF ProtocolOK, Types, TypeOK, OkCommands
  <2>2. Asked(q, {<<Head(todo)>>}) => Asked(q, {<<Head(todo)>>})'
    <3>1. PICK cs : cs = {<<Head(todo)>>}
      OBVIOUS
    <3>2. Asked(q, cs) => Asked(q, cs)'
      BY <1>2, <2>1, <3>1
    <3> QED
      BY <1>0, <3>1, <3>2
  <2> QED
    BY <1>0, <1>3, <2>1, <2>2 DEF AtRequest
<1>6. ASSUME NEW q \in Procs, pc = "end" PROVE AtEndRequests(q)'
  <2>1. AtEndRequests(q)
    BY <1>6 DEF ProtocolOK
  <2>2. Asked(q, {<<"endrequests">>}) => Asked(q, {<<"endrequests">>})'
    BY <1>2 DEF OkCommands
  <2> QED
    BY <1>0, <1>3, <2>1, <2>2 DEF AtEndRequests
<1>7. ASSUME NEW q \in Procs
      PROVE  /\ pc = "pass" => InPass(q)'
             /\ pc = "buffer" => AtBuffer(q)'
             /\ pc \notin {"begin", "request", "end", "pass", "buffer"} => Quiet(q)'
  BY <1>0, <1>3 DEF ProtocolOK, InPass, AtBuffer
<1> QED
  BY <1>0, <1>1, <1>4, <1>5, <1>6, <1>7 DEF ProtocolOK

-----------------------------------------------------------------------------
(* Steps of the agent.                                                     *)

\* The agent reads the only line of the process it waits for, and nothing else.
LEMMA TakesOnly ==
    ASSUME Types, cur \in Procs, ahead = <<>>, NEW m, up[cur] = <<m>>, Read
    PROVE  /\ Line = m /\ ahead' = <<>>
           /\ up' \in [Procs -> Seq(Messages)] /\ up'[cur] = <<>>
           /\ \A p \in Procs : p # cur => up'[p] = up[p]
<1>1. CanRead
  BY DEF CanRead
<1>2. Len(up[cur]) = 1 /\ Head(up[cur]) = m
  OBVIOUS
<1>3. ahead' = SubSeq(up[cur], 2, 1) /\ up'[cur] = SubSeq(up[cur], 2, 1)
  <2>1. PICK k \in 1 .. Len(up[cur]) : /\ ahead' = SubSeq(up[cur], 2, k)
                                       /\ up'[cur] = SubSeq(up[cur], k + 1, Len(up[cur]))
    BY <1>1, ReadFacts
  <2>2. k = 1
    BY <1>2
  <2> QED
    BY <1>2, <2>1, <2>2
<1>4. SubSeq(up[cur], 2, 1) = <<>>
  BY SubSeqEmpty
<1> QED
  BY <1>1, <1>2, <1>3, <1>4, ReadFacts DEF Line

\* The line of a process that was asked is the OK.
LEMMA TakesOk ==
    ASSUME Types, cur \in Procs, ahead = <<>>, NEW cs, Asked(cur, cs), CanRead, Read
    PROVE  /\ Line.kind = "OK" /\ ahead' = <<>>
           /\ up' \in [Procs -> Seq(Messages)] /\ up'[cur] = <<>>
           /\ \A p \in Procs : p # cur => up'[p] = up[p]
           /\ Here(cur) /\ Heard(cur)
<1>1. up[cur] = <<Message(cur, "OK", {})>> /\ Here(cur) /\ Heard(cur)
  BY DEF Asked, Silent, Said, CanRead
<1> QED
  BY <1>1, TakesOnly DEF Message

\* Every process is at rest and hears of the agent next.
AllReady == \A p \in Procs : Here(p) /\ Heard(p) /\ up'[p] = <<>>

\* A command behind another.
LEMMA AppendToOne == \A a, b : Append(<<a>>, b) = <<a, b>>
<1> SUFFICES ASSUME NEW a, NEW b PROVE Append(<<a>>, b) = <<a, b>>
  OBVIOUS
<1>1. <<a>> \in Seq({a, b}) /\ Len(<<a>>) = 1
  OBVIOUS
<1>2. /\ Append(<<a>>, b) \in Seq({a, b}) /\ Len(Append(<<a>>, b)) = 2
      /\ Append(<<a>>, b)[1] = a /\ Append(<<a>>, b)[2] = b
  BY <1>1
<1>3. <<a, b>> \in Seq({a, b}) /\ Len(<<a, b>>) = 2 /\ <<a, b>>[1] = a /\ <<a, b>>[2] = b
  OBVIOUS
<1>4. \A i \in 1 .. 2 : Append(<<a>>, b)[i] = <<a, b>>[i]
  BY <1>2, <1>3
<1> QED
  BY <1>2, <1>3, <1>4, SeqEqual

\* transfer_requests_to_processes asks the first process.
LEMMA TransferStep ==
    ASSUME Types, AllReady, Transfer, ahead' = <<>>, UNCHANGED proc
    PROVE  down' \in [Procs -> Seq(Commands)] /\ cur' \in Procs /\ ProtocolOK'
<1> DEFINE d == ToAll(down, "setnumiterations")
<1>0. 1 \in Procs /\ down \in [Procs -> Seq(Commands)] /\ \A p \in Procs : down[p] = <<>>
  <2>1. 1 \in Procs
    BY CasesAssumption DEF Procs
  <2> QED
    BY <2>1 DEF Types, AllReady, Heard
<1>1. "setnumiterations" \in Commands /\ "beginrequests" \in Commands
  BY DEF Commands, Words
<1>2. /\ d \in [Procs -> Seq(Commands)]
      /\ \A p \in Procs : d[p] = IF proc[p].is = "dead" THEN <<>> ELSE <<"setnumiterations">>
  BY <1>0, <1>1, ToAllFacts, FirstCommand
<1>3. down' = Written(d, 1, "beginrequests") /\ pc' = "begin" /\ cur' = 1
  BY DEF Transfer
<1> HIDE DEF d
<1>4. /\ down' \in [Procs -> Seq(Commands)]
      /\ \A p \in Procs : p # 1 => down'[p] = d[p]
      /\ down'[1] = IF proc[1].is = "dead" THEN <<>> ELSE <<"setnumiterations", "beginrequests">>
  <2>1. Append(<<"setnumiterations">>, "beginrequests") = <<"setnumiterations", "beginrequests">>
    BY AppendToOne
  <2>2. ASSUME NEW q \in Procs, q = 1
        PROVE  /\ Written(d, q, "beginrequests") \in [Procs -> Seq(Commands)]
               /\ \A p \in Procs : p # q => Written(d, q, "beginrequests")[p] = d[p]
               /\ Written(d, q, "beginrequests")[q] =
                     IF proc[q].is = "dead" THEN d[q] ELSE Append(d[q], "beginrequests")
    BY <1>1, <1>2, WrittenFacts
  <2>3. d[1] = IF proc[1].is = "dead" THEN <<>> ELSE <<"setnumiterations">>
    BY <1>0, <1>2
  <2> QED
    BY <1>0, <1>3, <2>1, <2>2, <2>3
<1>5. ASSUME NEW p \in Procs PROVE AtBegin(p)'
  <2>1. ~(p < 1) /\ (p > 1 => p # 1)
    BY DEF Procs
  <2> QED
    BY <1>2, <1>3, <1>4, <2>1 DEF AtBegin, Asked, Waiting, AllReady, Here, Heard, Silent
<1> QED
  BY <1>0, <1>3, <1>4, <1>5 DEF ProtocolOK

\* SendNext asks the first process for the next request, or tells all that there is none.
LEMMA SendNextStep ==
    ASSUME Types, AllReady, NEW list \in Seq(Metrics \cup {"tuningaction"}), SendNext(list),
           ahead' = <<>>, UNCHANGED proc
    PROVE  /\ down' \in [Procs -> Seq(Commands)] /\ cur' = 1 /\ cur' \in Procs /\ todo' = list
           /\ pc' \in {"request", "end"} /\ (pc' = "request" => list # <<>>)
           /\ ProtocolOK'
<1>0. 1 \in Procs /\ down \in [Procs -> Seq(Commands)] /\ \A p \in Procs : down[p] = <<>>
  <2>1. 1 \in Procs
    BY CasesAssumption DEF Procs
  <2> QED
    BY <2>1 DEF Types, AllReady, Heard
<1>1. CASE list = <<>>
  <2>1. pc' = "end" /\ cur' = 1 /\ todo' = list /\ down' = ToAll(down, "endrequests")
    BY <1>1 DEF SendNext
  <2>2. "endrequests" \in Commands
    BY DEF Commands, Words
  <2>3. /\ down' \in [Procs -> Seq(Commands)]
        /\ \A p \in Procs : down'[p] = IF proc[p].is = "dead" THEN <<>> ELSE <<"endrequests">>
    BY <1>0, <2>1, <2>2, ToAllFacts, FirstCommand
  <2>4. ASSUME NEW p \in Procs PROVE AtEndRequests(p)'
    BY <2>1, <2>3 DEF Procs, AtEndRequests, Asked, AllReady, Here, Heard, Silent
  <2> QED
    BY <1>0, <2>1, <2>3, <2>4 DEF ProtocolOK
<1>2. CASE list # <<>>
  <2>1. pc' = "request" /\ cur' = 1 /\ todo' = list /\ down' = Written(down, 1, Head(list))
    BY <1>2 DEF SendNext
  <2>2. Head(list) \in Commands
    <3>1. Head(list) \in Metrics \cup {"tuningaction"}
      BY <1>2
    <3> QED
      BY <3>1 DEF Commands, Words
  <2>3. /\ down' \in [Procs -> Seq(Commands)]
        /\ \A p \in Procs : p # 1 => down'[p] = <<>>
        /\ down'[1] = IF proc[1].is = "dead" THEN <<>> ELSE <<Head(list)>>
    <3>1. ASSUME NEW q \in Procs, q = 1
          PROVE  /\ Written(down, q, Head(list)) \in [Procs -> Seq(Commands)]
                 /\ \A p \in Procs : p # q => Written(down, q, Head(list))[p] = down[p]
                 /\ Written(down, q, Head(list))[q] = IF proc[q].is = "dead" THEN <<>> ELSE <<Head(list)>>
      BY <1>0, <2>2, WrittenFacts, FirstCommand
    <3> QED
      BY <1>0, <2>1, <3>1
  <2>4. ASSUME NEW p \in Procs PROVE AtRequest(p)'
    BY <2>1, <2>3 DEF AtRequest, Asked, Quiet, AllReady, Here, Heard, Silent
  <2> QED
    BY <1>0, <1>2, <2>1, <2>3, <2>4 DEF ProtocolOK
<1> QED
  BY <1>1, <1>2

\* stop_on_start_region and stop_on_end_region start the pass over the processes.
LEMMA RunToStep ==
    ASSUME Types, AllReady, NEW c \in {"runtostart", "runtoend"}, NEW t, RunTo(c, t),
           ahead' = <<>>, UNCHANGED proc
    PROVE  /\ down' \in [Procs -> Seq(Commands)] /\ state' = [p \in Procs |-> "working"]
           /\ pc' = "pass" /\ cur' \in 1 .. NumProcs + 1 /\ executing' = FALSE /\ then' = t
           /\ ProtocolOK'
<1>0. /\ down \in [Procs -> Seq(Commands)] /\ \A p \in Procs : down[p] = <<>>
      /\ 1 \in 1 .. NumProcs + 1 /\ c \in Commands
  BY CasesAssumption DEF Types, AllReady, Heard, Commands, Words
<1>1. /\ down' = ToAll(down, c) /\ state' = [p \in Procs |-> "working"] /\ then' = t
      /\ pc' = "pass" /\ cur' = NextWorking(state', 1) /\ executing' = FALSE
  BY DEF RunTo, StartPass
<1>2. /\ down' \in [Procs -> Seq(Commands)]
      /\ \A p \in Procs : down'[p] = IF proc[p].is = "dead" THEN <<>> ELSE <<c>>
  BY <1>0, <1>1, ToAllFacts, FirstCommand
<1>3. /\ cur' \in 1 .. NumProcs + 1
      /\ \A p \in Procs : p < cur' => state'[p] # "working"
  BY <1>0, <1>1, NextWorkingFacts DEF Procs
<1>4. \A p \in Procs : ~(p < cur')
  BY <1>1, <1>3
<1>5. ASSUME NEW p \in Procs PROVE InPass(p)'
  <2>1. p >= cur' /\ state'[p] = "working"
    BY <1>1, <1>3, <1>4, CasesAssumption DEF Procs
  <2>2. Stopping(p)'
    BY <1>2 DEF Stopping, AllReady, Here, Heard, Silent
  <2> QED
    BY <2>1, <2>2 DEF InPass
<1> QED
  BY <1>1, <1>2, <1>3, <1>5 DEF ProtocolOK

\* When the pass is over every process is at rest: none is skipped while it runs.
LEMMA PassOverMeansQuiet ==
    ASSUME Types, ProtocolOK, NEW t, PassOver(t)
    PROVE  /\ ahead = <<>> /\ pc = "pass"
           /\ \A p \in Procs : Quiet(p)
<1>1. cur \in 1 .. NumProcs + 1 /\ cur \notin Procs /\ NumProcs \in Nat
  BY CasesAssumption DEF Types, TypeOK, PassOver
<1>2. \A p \in Procs : ~(p >= cur)
  BY <1>1 DEF Procs
<1> QED
  BY <1>2 DEF ProtocolOK, PassOver, InPass

\* The handlers begin when every process is at rest.
LEMMA QuietBetween ==
    ASSUME Types, ProtocolOK, pc \notin {"begin", "request", "end", "pass", "buffer"}
    PROVE  ahead = <<>> /\ \A p \in Procs : Quiet(p)
BY DEF ProtocolOK

\* The agent may go on with processes at rest, ...
LEMMA QuietIsReady ==
    ASSUME \A p \in Procs : Quiet(p), UNCHANGED up
    PROVE  AllReady
BY DEF AllReady, Quiet, Silent

\* ... or leave them so.
LEMMA RestsOn ==
    ASSUME \A p \in Procs : Quiet(p), ahead = <<>>, UNCHANGED streamVars, UNCHANGED proc,
           pc' \notin {"begin", "request", "end", "pass", "buffer"}
    PROVE  ProtocolOK'
BY DEF ProtocolOK, Quiet, Here, Heard, Silent, streamVars

\* The types of what addMeasurementRequest changes.
LEMMA AddRequestsType ==
    ASSUME Types, AddRequests
    PROVE  /\ requests' \subseteq Metrics /\ backup' \subseteq Metrics /\ tuning' \in BOOLEAN
           /\ burst' \in Nat /\ pending' \in BOOLEAN /\ gathered' \in BOOLEAN
           /\ got' \in [Procs -> SUBSET Metrics] /\ results' \in Nat
<1>1. case.wanted \subseteq Metrics /\ case.tuning \in BOOLEAN /\ case.burst \in Nat
  BY CasesAssumption DEF Types, TypeOK
<1>2. /\ requests \subseteq Metrics /\ backup \subseteq Metrics /\ burst \in Nat
      /\ pending \in BOOLEAN /\ gathered \in BOOLEAN
  BY DEF Types, TypeOK
<1>3. requests' \subseteq Metrics /\ UNCHANGED <<pending, gathered>>
  BY <1>1, <1>2 DEF AddRequests
<1>4. backup' \subseteq Metrics /\ burst' \in Nat
  BY <1>1, <1>2, <1>3 DEF AddRequests
<1>5. tuning' \in BOOLEAN /\ got' \in [Procs -> SUBSET Metrics] /\ results' \in Nat
  BY <1>1 DEF AddRequests
<1> QED
  BY <1>2, <1>3, <1>4, <1>5

\* Behind the delay phases a strategy starts, or asks for a restart.
LEMMA StartSearchStep ==
    ASSUME Types, ahead = <<>>, \A p \in Procs : Quiet(p), StartSearch,
           UNCHANGED <<frontendVars, then, executing, delays, state, todo, received, ahead, up, proc>>
    PROVE  Types' /\ ProtocolOK'
<1>1. CASE NeedRestart
  <2>1. /\ order' \in {"searchfinished", "needrestart"} /\ pc' = "idle"
        /\ UNCHANGED <<cur, down, requestVars, resultVars>>
    BY <1>1 DEF StartSearch, Tell
  <2>2. TypeOK'
    <3>1. TypeOK
      BY DEF Types
    <3> QED
      BY <2>1, <3>1 DEF TypeOK, frontendVars, requestVars, resultVars
  <2> QED
    BY <2>1, <2>2, RestsOn DEF Types, streamVars
<1>2. CASE ~NeedRestart /\ Refused
  <2>1. pc' = "aborted" /\ UNCHANGED <<order, cur, down, requestVars, resultVars>>
    BY <1>2 DEF StartSearch, Abort
  <2>2. TypeOK'
    <3>1. TypeOK
      BY DEF Types
    <3> QED
      BY <2>1, <3>1 DEF TypeOK, frontendVars, requestVars, resultVars
  <2> QED
    BY <2>1, <2>2, RestsOn DEF Types, streamVars
<1>3. CASE ~NeedRestart /\ ~Refused
  <2>1. AddRequests /\ steps' = case.steps /\ Transfer /\ UNCHANGED order
    BY <1>3 DEF StartSearch
  <2>2. down' \in [Procs -> Seq(Commands)] /\ cur' \in Procs /\ pc' = "begin" /\ ProtocolOK'
    BY <2>1, QuietIsReady, TransferStep DEF Transfer
  <2>3. steps' \in Nat
    BY <2>1, CasesAssumption DEF Types, TypeOK
  <2>4. cur' \in 1 .. NumProcs + 1
    BY <2>2, CasesAssumption DEF Procs
  <2>5. TypeOK'
    <3>1. TypeOK
      BY DEF Types
    <3> QED
      BY <2>1, <2>2, <2>3, <2>4, <3>1, AddRequestsType DEF TypeOK, frontendVars
  <2> QED
    BY <2>2, <2>5 DEF Types
<1> QED
  BY <1>1, <1>2, <1>3

\* skip_phase starts a pass.
LEMMA SkipPhaseStep ==
    ASSUME Types, ahead = <<>>, \A p \in Procs : Quiet(p),
           NEW t \in {"delayed", "redelayed"}, NEW n \in Nat, SkipPhase(t, n),
           UNCHANGED <<frontendVars, order, requestVars, resultVars, todo, received, ahead, up, proc>>
    PROVE  Types' /\ ProtocolOK'
<1>1. RunTo("runtostart", t) /\ delays' = n
  BY DEF SkipPhase
<1>2. /\ down' \in [Procs -> Seq(Commands)] /\ state' = [p \in Procs |-> "working"]
      /\ pc' = "pass" /\ cur' \in 1 .. NumProcs + 1 /\ executing' = FALSE /\ then' = t
      /\ ProtocolOK'
  BY <1>1, QuietIsReady, RunToStep
<1>3. TypeOK'
  <2>1. TypeOK
    BY DEF Types
  <2> QED
    BY <1>1, <1>2, <2>1 DEF TypeOK, frontendVars, requestVars, resultVars
<1> QED
  BY <1>2, <1>3 DEF Types

\* "start" finds every process at rest, and skips phases or starts the strategy.
LEMMA OnStartStep == ASSUME Types, ProtocolOK, OnStart PROVE Types' /\ ProtocolOK'
<1>0. ahead = <<>> /\ \A p \in Procs : Quiet(p)
  BY QuietBetween DEF OnStart
<1>1. CASE case.delay > 0
  <2>1. case.delay - 1 \in Nat
    BY <1>1, CasesAssumption DEF Types, TypeOK
  <2> QED
    BY <1>0, <1>1, <2>1, SkipPhaseStep DEF OnStart
<1>2. CASE ~(case.delay > 0)
  BY <1>0, <1>2, StartSearchStep DEF OnStart
<1> QED
  BY <1>1, <1>2

\* The next phase of the delay, or the strategy behind the last.
LEMMA DelayedStep == ASSUME Types, ProtocolOK, Delayed PROVE Types' /\ ProtocolOK'
<1>0. ahead = <<>> /\ \A p \in Procs : Quiet(p)
  BY PassOverMeansQuiet DEF Delayed
<1>1. CASE delays > 0
  <2>1. delays - 1 \in Nat
    BY <1>1 DEF Types, TypeOK
  <2> QED
    BY <1>0, <1>1, <2>1, SkipPhaseStep DEF Delayed
<1>2. CASE ~(delays > 0)
  BY <1>0, <1>2, StartSearchStep DEF Delayed
<1> QED
  BY <1>1, <1>2

\* "startexperiment" transfers the requests, unless a process is at its end.
LEMMA OnStartExperimentStep == ASSUME Types, ProtocolOK, OnStartExperiment PROVE Types' /\ ProtocolOK'
<1>0. ahead = <<>> /\ (\A p \in Procs : Quiet(p)) /\ TypeOK
  BY QuietBetween DEF OnStartExperiment, Types
<1>1. CASE NeedRestart
  <2>1. order' = "needrestart" /\ pc' = "idle" /\ UNCHANGED <<cur, down>>
    BY <1>1 DEF OnStartExperiment, Tell
  <2>2. TypeOK'
    BY <1>0, <2>1 DEF OnStartExperiment, TypeOK, frontendVars, requestVars, resultVars
  <2> QED
    BY <1>0, <2>1, <2>2, RestsOn DEF OnStartExperiment, Types, streamVars
<1>2. CASE ~NeedRestart
  <2>1. down' \in [Procs -> Seq(Commands)] /\ cur' \in Procs /\ pc' = "begin" /\ ProtocolOK'
    BY <1>0, <1>2, QuietIsReady, TransferStep DEF OnStartExperiment, Transfer
  <2>2. cur' \in 1 .. NumProcs + 1 /\ UNCHANGED order
    BY <1>2, <2>1, CasesAssumption DEF Procs, OnStartExperiment
  <2>3. TypeOK'
    BY <1>0, <2>1, <2>2 DEF OnStartExperiment, TypeOK, frontendVars, requestVars, resultVars
  <2> QED
    BY <2>1, <2>3 DEF OnStartExperiment, Types
<1> QED
  BY <1>1, <1>2

\* After a restart the connections are used anew.
LEMMA OnReinitStep == ASSUME Types, ProtocolOK, OnReinit PROVE Types' /\ ProtocolOK'
<1>0. ahead = <<>> /\ (\A p \in Procs : Quiet(p)) /\ TypeOK
  BY QuietBetween DEF OnReinit, Types
<1>1. CASE case.delay > 0
  <2>1. case.delay - 1 \in Nat
    BY <1>0, <1>1, CasesAssumption DEF TypeOK
  <2> QED
    BY <1>0, <1>1, <2>1, SkipPhaseStep DEF OnReinit
<1>2. CASE ~(case.delay > 0)
  <2>1. /\ order' = "ready" /\ pc' = "idle" /\ state' = [p \in Procs |-> "suspended"]
        /\ UNCHANGED <<cur, then, executing, delays, down>>
    BY <1>2 DEF OnReinit, Tell
  <2>2. TypeOK'
    BY <1>0, <2>1 DEF OnReinit, TypeOK, frontendVars, requestVars, resultVars
  <2> QED
    BY <1>0, <2>1, <2>2, RestsOn DEF OnReinit, Types, streamVars
<1> QED
  BY <1>1, <1>2

\* The delay of the new run.
LEMMA RedelayedStep == ASSUME Types, ProtocolOK, Redelayed PROVE Types' /\ ProtocolOK'
<1>0. ahead = <<>> /\ (\A p \in Procs : Quiet(p)) /\ TypeOK
  BY PassOverMeansQuiet DEF Redelayed, Types
<1>1. CASE delays > 0
  <2>1. delays - 1 \in Nat
    BY <1>0, <1>1 DEF TypeOK
  <2> QED
    BY <1>0, <1>1, <2>1, SkipPhaseStep DEF Redelayed
<1>2. CASE ~(delays > 0)
  <2>1. order' = "ready" /\ pc' = "idle" /\ UNCHANGED <<cur, then, executing, delays, state, down>>
    BY <1>2 DEF Redelayed, Tell
  <2>2. TypeOK'
    BY <1>0, <2>1 DEF Redelayed, TypeOK, frontendVars, requestVars, resultVars
  <2> QED
    BY <1>0, <2>1, <2>2, RestsOn DEF Redelayed, Types, streamVars
<1> QED
  BY <1>1, <1>2

\* Behind the experiment every process is at the start of a phase again, or at its end.
LEMMA AtStartStep == ASSUME Types, ProtocolOK, AtStart PROVE Types' /\ ProtocolOK'
<1>0. ahead = <<>> /\ (\A p \in Procs : Quiet(p)) /\ TypeOK
  BY PassOverMeansQuiet DEF AtStart, Types
<1>1. pc' = "verdict"
  BY DEF AtStart
<1>2. TypeOK'
  BY <1>0, <1>1 DEF AtStart, TypeOK, frontendVars, requestVars, resultVars
<1> QED
  BY <1>0, <1>1, <1>2, RestsOn DEF AtStart, Types, streamVars

\* The data of the first process is asked for when all are at rest.
LEMMA EvaluateStep == ASSUME Types, ProtocolOK, Evaluate PROVE Types' /\ ProtocolOK'
<1>0. ahead = <<>> /\ (\A p \in Procs : Quiet(p)) /\ TypeOK
  BY PassOverMeansQuiet DEF Evaluate, Types
<1>1. CASE case.userPhase /\ NeedRestart
  <2>1. order' = "needrestart" /\ pc' = "idle" /\ UNCHANGED <<cur, received, down>>
    BY <1>1 DEF Evaluate, Tell
  <2>2. TypeOK'
    BY <1>0, <2>1 DEF Evaluate, TypeOK, frontendVars, requestVars, resultVars
  <2> QED
    BY <1>0, <2>1, <2>2, RestsOn DEF Evaluate, Types, streamVars
<1>2. CASE ~(case.userPhase /\ NeedRestart)
  <2>1. /\ down' = Written(down, 1, "getsummarydata")
        /\ pc' = "buffer" /\ cur' = 1 /\ received' = 0 /\ UNCHANGED order
    BY <1>2 DEF Evaluate
  <2>2. 1 \in Procs /\ 1 \in 1 .. NumProcs + 1 /\ "getsummarydata" \in Commands
    BY CasesAssumption DEF Procs, Commands, Words
  <2>3. TypeOK'
    BY <1>0, <2>1, <2>2 DEF Evaluate, TypeOK, frontendVars, requestVars, resultVars
  <2>4. ASSUME NEW q \in Procs, q = 1
        PROVE  /\ Written(down, q, "getsummarydata") \in [Procs -> Seq(Commands)]
               /\ \A p \in Procs : p # q => Written(down, q, "getsummarydata")[p] = down[p]
               /\ Written(down, q, "getsummarydata")[q] =
                     IF proc[q].is = "dead" THEN <<>> ELSE <<"getsummarydata">>
    <3>1. down \in [Procs -> Seq(Commands)] /\ down[q] = <<>>
      BY <1>0 DEF Types, Quiet, Heard
    <3> QED
      BY <2>2, <3>1, OneCommand
  <2>5. /\ down' \in [Procs -> Seq(Commands)]
        /\ \A p \in Procs : p # 1 => down'[p] = <<>>
        /\ down'[1] = IF proc[1].is = "dead" THEN <<>> ELSE <<"getsummarydata">>
    BY <1>0, <2>1, <2>2, <2>4 DEF Quiet, Heard
  <2>6. UNCHANGED <<ahead, up, proc>>
    BY DEF Evaluate
  <2>7. ASSUME NEW p \in Procs PROVE AtBuffer(p)'
    BY <1>0, <2>1, <2>5, <2>6 DEF AtBuffer, Sending, Quiet, Here, Heard, Silent
  <2>8. ProtocolOK'
    BY <2>1, <2>7 DEF ProtocolOK
  <2> QED
    BY <2>1, <2>2, <2>3, <2>5, <2>6, <2>8 DEF Types
<1> QED
  BY <1>1, <1>2

\* The last buffer leaves every process at rest, for the next run to the start of a phase.
LEMMA ResultsStep == ASSUME Types, ProtocolOK, Results PROVE Types' /\ ProtocolOK'
<1>0. ahead = <<>> /\ (\A p \in Procs : Quiet(p)) /\ TypeOK /\ UNCHANGED <<ahead, up, proc>>
  BY QuietBetween DEF Results, Types
<1>1. burst' \in Nat /\ gathered' \in BOOLEAN /\ pending' \in BOOLEAN /\ requests' \subseteq Metrics /\ results' \in Nat
  <2>1. burst' = Counted(burst) /\ Counted(burst) \in Nat
    BY <1>0 DEF Results, Counted, TypeOK
  <2>2. gathered' = (requests = {} /\ burst' = 0) /\ pending' = (~gathered' /\ (burst' = 0 \/ pending))
    BY Zenon DEF Results, StillPending
  <2>3. gathered' \in BOOLEAN /\ pending' \in BOOLEAN
    BY <2>2, Zenon
  <2>4. requests' \in {requests, backup} /\ results' = results + 1
    BY DEF Results
  <2> QED
    BY <1>0, <2>1, <2>3, <2>4 DEF TypeOK
<1>2. CASE NeedRestart
  <2>1. pc' = "verdict" /\ UNCHANGED <<cur, then, executing, state, down>>
    BY <1>2 DEF Results
  <2>2. TypeOK'
    BY <1>0, <1>1, <2>1 DEF Results, TypeOK, frontendVars
  <2> QED
    BY <1>0, <2>1, <2>2, RestsOn DEF Types, streamVars
<1>3. CASE ~NeedRestart
  <2>1. /\ down' \in [Procs -> Seq(Commands)] /\ state' = [p \in Procs |-> "working"]
        /\ pc' = "pass" /\ cur' \in 1 .. NumProcs + 1 /\ executing' = FALSE /\ then' = "tostart"
        /\ ProtocolOK'
    BY <1>0, <1>3, QuietIsReady, RunToStep DEF Results
  <2>2. TypeOK'
    BY <1>0, <1>1, <2>1 DEF Results, TypeOK, frontendVars
  <2> QED
    BY <1>0, <2>1, <2>2 DEF Types
<1> QED
  BY <1>2, <1>3

\* The verdict touches no connection.
LEMMA VerdictStep == ASSUME Types, ProtocolOK, Verdict PROVE Types' /\ ProtocolOK'
<1>0. ahead = <<>> /\ (\A p \in Procs : Quiet(p)) /\ TypeOK
  BY QuietBetween DEF Verdict, Types
<1>1. pc' \in {"idle", "aborted"} /\ order' \in {order, "needrestart", "reqexperiment", "searchfinished"}
  BY DEF Verdict, AppropriateRequest, Tell, Abort
<1>2. CASE UNCHANGED <<requestVars, resultVars>>
  <2>1. TypeOK'
    BY <1>0, <1>1, <1>2 DEF Verdict, TypeOK, frontendVars, requestVars, resultVars
  <2> QED
    BY <1>0, <1>1, <2>1, RestsOn DEF Verdict, Types, streamVars
<1>3. CASE AddRequests /\ steps > 0 /\ steps' = steps - 1
  <2>1. steps' \in Nat
    BY <1>0, <1>3 DEF TypeOK
  <2>2. TypeOK'
    BY <1>0, <1>1, <1>3, <2>1, AddRequestsType DEF Verdict, TypeOK, frontendVars
  <2> QED
    BY <1>0, <1>1, <2>2, RestsOn DEF Verdict, Types, streamVars
<1> QED
  BY <1>2, <1>3 DEF Verdict, Abort

\* The processes are asked one after the other; behind the last the requests are chosen.
LEMMA BeginRequestsOkStep == ASSUME Types, ProtocolOK, BeginRequestsOk PROVE Types' /\ ProtocolOK'
<1> DEFINE first == {<<"setnumiterations", "beginrequests">>, <<"beginrequests">>}
<1>0. /\ pc = "begin" /\ CanRead /\ Read /\ ahead = <<>> /\ cur \in Procs /\ TypeOK
      /\ proc \in [Procs -> ProcessStates] /\ down \in [Procs -> Seq(Commands)]
      /\ UNCHANGED <<frontendVars, order, delays, received, resultVars, proc>>
      /\ \A p \in Procs : AtBegin(p)
  BY DEF BeginRequestsOk, AwaitsOk, ProtocolOK, Types
<1>1. Asked(cur, first)
  BY <1>0, CasesAssumption DEF AtBegin, Procs
<1> HIDE DEF first
<1>2. /\ Line.kind = "OK" /\ ahead' = <<>>
      /\ up' \in [Procs -> Seq(Messages)] /\ up'[cur] = <<>>
      /\ \A p \in Procs : p # cur => up'[p] = up[p]
      /\ Here(cur) /\ Heard(cur)
  BY <1>0, <1>1, TakesOk
<1>3. CASE cur = NumProcs
  <2>1. AllReady
    <3>1. ASSUME NEW p \in Procs, p # cur PROVE Quiet(p)
      BY <1>0, <1>3, <3>1, CasesAssumption DEF AtBegin, Procs
    <3> QED
      BY <1>2, <3>1 DEF AllReady, Quiet, Silent
  <2>2. SendRequests
    BY <1>2, <1>3 DEF BeginRequestsOk
  <2>3. PICK chosen \in RequestSets :
           /\ requests' = Unsubmitted(chosen)
           /\ SendNext((IF tuning THEN <<"tuningaction">> ELSE <<>>) \o SetToSeq(chosen))
    BY <2>2 DEF SendRequests
  <2> DEFINE list == (IF tuning THEN <<"tuningaction">> ELSE <<>>) \o SetToSeq(chosen)
  <2>4. list \in Seq(Metrics \cup {"tuningaction"})
    <3>1. chosen \subseteq requests /\ requests \subseteq Metrics
      BY <1>0 DEF RequestSets, InSet, TypeOK
    <3>2. IsFiniteSet(chosen)
      BY <3>1, CasesAssumption, FS_Subset
    <3>3. SetToSeq(chosen) \in Seq(Metrics \cup {"tuningaction"})
      BY <3>1, <3>2, SetToSeqType, SeqMonotonic
    <3>4. (IF tuning THEN <<"tuningaction">> ELSE <<>>) \in Seq(Metrics \cup {"tuningaction"})
      <4>1. <<"tuningaction">> \in Seq(Metrics \cup {"tuningaction"})
        OBVIOUS
      <4>2. <<>> \in Seq(Metrics \cup {"tuningaction"})
        OBVIOUS
      <4> QED
        BY <4>1, <4>2, Zenon
    <3> QED
      BY <3>3, <3>4, ConcatProperties
  <2> HIDE DEF list
  <2>5. /\ down' \in [Procs -> Seq(Commands)] /\ cur' \in Procs /\ todo' = list
        /\ pc' \in {"request", "end"} /\ (pc' = "request" => list # <<>>)
        /\ ProtocolOK'
    <3>1. SendNext(list)
      BY <2>3 DEF list
    <3> QED
      BY <1>0, <1>2, <2>1, <2>4, <3>1, SendNextStep
  <2>6. TypeOK'
    <3>1. cur' \in 1 .. NumProcs + 1
      BY <2>5, CasesAssumption DEF Procs
    <3>2. requests' \subseteq Metrics /\ tuning' = FALSE /\ UNCHANGED <<backup, burst, pending, steps, then, executing, state>>
      BY <1>0, <2>2, <2>3 DEF SendRequests, Unsubmitted, TypeOK
    <3> QED
      BY <1>0, <2>4, <2>5, <3>1, <3>2 DEF TypeOK, frontendVars, resultVars
  <2> QED
    BY <1>0, <1>2, <2>5, <2>6 DEF Types
<1>4. CASE cur # NumProcs
  <2>1. /\ down' = Written(down, cur + 1, "beginrequests") /\ cur' = cur + 1
        /\ UNCHANGED <<pc, then, executing, todo, state, requestVars>>
    BY <1>2, <1>4 DEF BeginRequestsOk
  <2>2. cur + 1 \in Procs /\ cur + 1 \in 1 .. NumProcs + 1 /\ "beginrequests" \in Commands
    BY <1>0, <1>4, CasesAssumption DEF Procs, Commands, Words
  <2>3. TypeOK'
    BY <1>0, <2>1, <2>2 DEF TypeOK, frontendVars, requestVars, resultVars
  <2>4. /\ down' \in [Procs -> Seq(Commands)]
        /\ \A p \in Procs : p # cur + 1 => down'[p] = down[p]
        /\ down'[cur + 1] = IF proc[cur + 1].is = "dead" THEN down[cur + 1] ELSE Append(down[cur + 1], "beginrequests")
    <3>1. ASSUME NEW q \in Procs
          PROVE  /\ Written(down, q, "beginrequests") \in [Procs -> Seq(Commands)]
                 /\ \A p \in Procs : p # q => Written(down, q, "beginrequests")[p] = down[p]
                 /\ Written(down, q, "beginrequests")[q] =
                       IF proc[q].is = "dead" THEN down[q] ELSE Append(down[q], "beginrequests")
      BY <1>0, <2>2, WrittenFacts
    <3> QED
      BY <2>1, <2>2, <3>1
  <2>5. ASSUME NEW p \in Procs PROVE AtBegin(p)'
    <3>0. AtBegin(p) /\ cur \in Int /\ p \in Int
      BY <1>0 DEF Procs
    <3>1. CASE p = cur
      BY <1>0, <1>2, <2>1, <2>4, <3>0, <3>1 DEF AtBegin, Quiet, Here, Heard, Silent
    <3>2. CASE p < cur
      BY <1>0, <1>2, <2>1, <2>4, <3>0, <3>2 DEF AtBegin, Quiet, Here, Heard, Silent
    <3>3. CASE p = cur + 1
      <4>1. Waiting(p) /\ up'[p] = <<>>
        BY <1>2, <3>0, <3>3 DEF AtBegin, Waiting, Silent
      <4>2. \/ proc[p].is = "dead" /\ down'[p] = <<>>
            \/ proc[p].is = "suspended" /\ down'[p] = <<"setnumiterations", "beginrequests">>
            \/ proc[p].is = "suspended" /\ down'[p] = <<"beginrequests">>
        <5>1. Append(<<>>, "beginrequests") = <<"beginrequests">>
          OBVIOUS
        <5>2. Append(<<"setnumiterations">>, "beginrequests") = <<"setnumiterations", "beginrequests">>
          BY AppendToOne
        <5> QED
          BY <2>4, <3>3, <4>1, <5>1, <5>2 DEF Waiting, Here, Heard
      <4>3. Asked(p, {<<"setnumiterations", "beginrequests">>, <<"beginrequests">>})'
        BY <1>0, <4>1, <4>2 DEF Asked, Heard, Silent
      <4> QED
        BY <2>1, <3>0, <3>3, <4>3 DEF AtBegin
    <3>4. CASE p > cur + 1
      BY <1>0, <1>2, <2>1, <2>4, <3>0, <3>4 DEF AtBegin, Waiting, Here, Heard, Silent
    <3> QED
      BY <3>0, <3>1, <3>2, <3>3, <3>4
  <2>6. ProtocolOK'
    BY <1>0, <1>2, <2>1, <2>5 DEF ProtocolOK
  <2> QED
    BY <1>0, <1>2, <2>1, <2>2, <2>3, <2>4, <2>6 DEF Types
<1> QED
  BY <1>3, <1>4

\* One request goes round before the next.
LEMMA RequestOkStep == ASSUME Types, ProtocolOK, RequestOk PROVE Types' /\ ProtocolOK'
<1>0. /\ pc = "request" /\ CanRead /\ Read /\ ahead = <<>> /\ cur \in Procs /\ TypeOK
      /\ proc \in [Procs -> ProcessStates] /\ down \in [Procs -> Seq(Commands)]
      /\ todo \in Seq(Metrics \cup {"tuningaction"}) /\ todo # <<>>
      /\ UNCHANGED <<frontendVars, order, delays, received, resultVars, proc>>
      /\ \A p \in Procs : AtRequest(p)
  BY DEF RequestOk, AwaitsOk, ProtocolOK, Types, TypeOK
<1>1. Asked(cur, {<<Head(todo)>>})
  BY <1>0 DEF AtRequest
<1>2. /\ Line.kind = "OK" /\ ahead' = <<>>
      /\ up' \in [Procs -> Seq(Messages)] /\ up'[cur] = <<>>
      /\ \A p \in Procs : p # cur => up'[p] = up[p]
      /\ Here(cur) /\ Heard(cur)
  <2>1. PICK cs : cs = {<<Head(todo)>>}
    OBVIOUS
  <2> QED
    BY <1>0, <1>1, <2>1, TakesOk
<1>3. \A p \in Procs : p # cur => Quiet(p)
  BY <1>0 DEF AtRequest
<1>4. AllReady
  BY <1>2, <1>3 DEF AllReady, Quiet, Silent
<1>5. CASE cur = NumProcs
  <2>1. SendNext(Tail(todo)) /\ UNCHANGED <<then, executing, state, requestVars>>
    BY <1>2, <1>5 DEF RequestOk
  <2> DEFINE list == Tail(todo)
  <2>2. list \in Seq(Metrics \cup {"tuningaction"})
    BY <1>0, HeadTailProperties
  <2> HIDE DEF list
  <2>3. /\ down' \in [Procs -> Seq(Commands)] /\ cur' \in Procs /\ todo' = list
        /\ pc' \in {"request", "end"} /\ (pc' = "request" => list # <<>>)
        /\ ProtocolOK'
    <3>1. SendNext(list)
      BY <2>1 DEF list
    <3> QED
      BY <1>0, <1>2, <1>4, <2>2, <3>1, SendNextStep
  <2>4. TypeOK'
    <3>1. cur' \in 1 .. NumProcs + 1
      BY <2>3, CasesAssumption DEF Procs
    <3> QED
      BY <1>0, <2>1, <2>2, <2>3, <3>1 DEF TypeOK, frontendVars, requestVars, resultVars
  <2> QED
    BY <1>0, <1>2, <2>3, <2>4 DEF Types
<1>6. CASE cur # NumProcs
  <2>1. /\ down' = Written(down, cur + 1, Head(todo)) /\ cur' = cur + 1
        /\ UNCHANGED <<pc, then, executing, todo, state, requestVars>>
    BY <1>2, <1>6 DEF RequestOk
  <2>2. cur + 1 \in Procs /\ cur + 1 \in 1 .. NumProcs + 1
    BY <1>0, <1>6, CasesAssumption DEF Procs
  <2>3. Head(todo) \in Commands
    <3>1. Head(todo) \in Metrics \cup {"tuningaction"}
      BY <1>0
    <3> QED
      BY <3>1 DEF Commands, Words
  <2>4. TypeOK'
    BY <1>0, <2>1, <2>2 DEF TypeOK, frontendVars, requestVars, resultVars
  <2>5. /\ down' \in [Procs -> Seq(Commands)]
        /\ \A p \in Procs : p # cur + 1 => down'[p] = <<>>
        /\ down'[cur + 1] = IF proc[cur + 1].is = "dead" THEN <<>> ELSE <<Head(todo)>>
    <3>1. \A p \in Procs : down[p] = <<>>
      BY <1>4 DEF AllReady, Heard
    <3>2. ASSUME NEW q \in Procs
          PROVE  /\ Written(down, q, Head(todo)) \in [Procs -> Seq(Commands)]
                 /\ \A p \in Procs : p # q => Written(down, q, Head(todo))[p] = down[p]
                 /\ Written(down, q, Head(todo))[q] = IF proc[q].is = "dead" THEN <<>> ELSE <<Head(todo)>>
      <4>1. down \in [Procs -> Seq(Commands)] /\ down[q] = <<>>
        BY <1>0, <3>1
      <4> QED
        BY <2>3, <4>1, OneCommand
    <3> QED
      BY <2>1, <2>2, <3>1, <3>2
  <2>6. ASSUME NEW p \in Procs PROVE AtRequest(p)'
    BY <1>0, <1>4, <2>1, <2>5 DEF AtRequest, AllReady, Asked, Quiet, Here, Heard, Silent
  <2>7. ProtocolOK'
    BY <1>0, <1>2, <2>1, <2>6 DEF ProtocolOK
  <2> QED
    BY <1>0, <1>2, <2>1, <2>2, <2>4, <2>5, <2>7 DEF Types
<1> QED
  BY <1>5, <1>6

\* Every process has acknowledged the end of the requests when the experiment starts.
LEMMA EndRequestsOkStep == ASSUME Types, ProtocolOK, EndRequestsOk PROVE Types' /\ ProtocolOK'
<1>0. /\ pc = "end" /\ CanRead /\ Read /\ ahead = <<>> /\ cur \in Procs /\ TypeOK
      /\ UNCHANGED <<frontendVars, order, delays, received, resultVars, proc>>
      /\ \A p \in Procs : AtEndRequests(p)
  BY DEF EndRequestsOk, AwaitsOk, ProtocolOK, Types
<1>1. Asked(cur, {<<"endrequests">>})
  BY <1>0, CasesAssumption DEF AtEndRequests, Procs
<1>2. /\ Line.kind = "OK" /\ ahead' = <<>>
      /\ up' \in [Procs -> Seq(Messages)] /\ up'[cur] = <<>>
      /\ \A p \in Procs : p # cur => up'[p] = up[p]
      /\ Here(cur) /\ Heard(cur)
  BY <1>0, <1>1, TakesOk
<1>3. CASE cur = NumProcs
  <2>1. AllReady
    <3>1. ASSUME NEW p \in Procs, p # cur PROVE Quiet(p)
      BY <1>0, <1>3, <3>1, CasesAssumption DEF AtEndRequests, Procs
    <3> QED
      BY <1>2, <3>1 DEF AllReady, Quiet, Silent
  <2>2. RunTo("runtoend", "evaluate") /\ UNCHANGED <<todo, requestVars>>
    BY <1>2, <1>3 DEF EndRequestsOk
  <2>3. /\ down' \in [Procs -> Seq(Commands)] /\ state' = [p \in Procs |-> "working"]
        /\ pc' = "pass" /\ cur' \in 1 .. NumProcs + 1 /\ executing' = FALSE /\ then' = "evaluate"
        /\ ProtocolOK'
    BY <1>0, <1>2, <2>1, <2>2, RunToStep
  <2>4. TypeOK'
    BY <1>0, <2>2, <2>3 DEF TypeOK, frontendVars, requestVars, resultVars
  <2> QED
    BY <1>0, <1>2, <2>3, <2>4 DEF Types
<1>4. CASE cur # NumProcs
  <2>1. cur' = cur + 1 /\ UNCHANGED <<pc, then, executing, todo, state, requestVars, down>>
    BY <1>2, <1>4 DEF EndRequestsOk
  <2>2. cur + 1 \in Procs /\ cur + 1 \in 1 .. NumProcs + 1
    BY <1>0, <1>4, CasesAssumption DEF Procs
  <2>3. TypeOK'
    BY <1>0, <2>1, <2>2 DEF TypeOK, frontendVars, requestVars, resultVars
  <2>4. ASSUME NEW p \in Procs PROVE AtEndRequests(p)'
    <3>0. AtEndRequests(p) /\ cur \in Int /\ p \in Int
      BY <1>0 DEF Procs
    <3>1. CASE p = cur
      BY <1>0, <1>2, <2>1, <3>1, <3>0 DEF AtEndRequests, Quiet, Here, Heard, Silent
    <3>2. CASE p < cur
      BY <1>0, <1>2, <2>1, <3>0, <3>2 DEF AtEndRequests, Quiet, Here, Heard, Silent
    <3>3. CASE p > cur
      BY <1>0, <1>2, <2>1, <3>0, <3>3 DEF AtEndRequests, Asked, Here, Heard, Silent, Said, Message, frontendVars
    <3> QED
      BY <3>0, <3>1, <3>2, <3>3
  <2>5. ProtocolOK'
    BY <1>0, <1>2, <2>1, <2>4 DEF ProtocolOK
  <2> QED
    BY <1>0, <1>2, <2>1, <2>2, <2>3, <2>5 DEF Types
<1> QED
  BY <1>3, <1>4

\* A process is left when its verdict is read or its connection is closed.
LEMMA PassReadsStep == ASSUME Types, ProtocolOK, PassReads PROVE Types' /\ ProtocolOK'
<1>0. /\ pc = "pass" /\ cur \in Procs /\ cur \in 1 .. NumProcs /\ ahead = <<>> /\ TypeOK
      /\ executing = FALSE /\ state[cur] = "working" /\ Stopping(cur)
      /\ cur' = NextWorking(state', cur + 1)
      /\ UNCHANGED <<frontendVars, order, pc, then, delays, todo, received, requestVars, resultVars, down, proc>>
      /\ \A p \in Procs : InPass(p)
  <2>1. pc = "pass" /\ cur \in Procs
    BY DEF PassReads
  <2>2. /\ ahead = <<>> /\ ~executing /\ state[cur] = "working"
        /\ \A p \in Procs : InPass(p)
    BY <2>1 DEF ProtocolOK
  <2>3. TypeOK /\ cur \in 1 .. NumProcs /\ cur \in Int
    BY <2>1 DEF Types, Procs
  <2>4. executing = FALSE
    BY <2>2, <2>3 DEF TypeOK
  <2>5. Stopping(cur)
    BY <2>1, <2>2, <2>3 DEF InPass
  <2> QED
    BY <2>1, <2>2, <2>3, <2>4, <2>5 DEF PassReads
<1>1. /\ ahead' = <<>> /\ up' \in [Procs -> Seq(Messages)]
      /\ \A p \in Procs : p # cur => up'[p] = up[p]
      /\ \A p \in Procs : p = cur => Quiet(p)'
      /\ executing' = FALSE
      /\ state' \in [Procs -> {"working", "suspended", "atend"}]
      /\ \A p \in Procs : p # cur => state'[p] = state[p]
  <2>0. state \in [Procs -> {"working", "suspended", "atend"}]
    BY <1>0 DEF TypeOK
  <2>1. CASE /\ CanRead /\ Read
             /\ executing' = (executing \/ KeepsRunning(Line.kind))
             /\ state' = [state EXCEPT ![cur] = IF Line.kind = "SUSPENDED" THEN "suspended"
                                                ELSE IF Line.kind = "SUSPENDEDATEND" THEN "atend" ELSE @]
    <3>1. PICK kind \in {"SUSPENDED", "SUSPENDEDATEND"} :
             up[cur] = <<Message(cur, kind, {})>> /\ Here(cur) /\ Heard(cur)
      BY <1>0, <2>1 DEF Stopping, Silent, Said, CanRead
    <3>2. /\ Line.kind = kind /\ ahead' = <<>>
          /\ up' \in [Procs -> Seq(Messages)] /\ up'[cur] = <<>>
          /\ \A p \in Procs : p # cur => up'[p] = up[p]
      BY <1>0, <2>1, <3>1, TakesOnly DEF Message
    <3>3. ASSUME NEW p \in Procs, p = cur PROVE Quiet(p)'
      BY <1>0, <3>1, <3>2, <3>3 DEF Quiet, Here, Heard, Silent
    <3>4. ~KeepsRunning(Line.kind)
      BY <3>2 DEF KeepsRunning
    <3>5. executing' = FALSE
      BY <1>0, <2>1, <3>4, Zenon
    <3> QED
      BY <1>0, <2>0, <2>1, <3>2, <3>3, <3>5
  <2>2. CASE Eof /\ UNCHANGED <<executing, state, ahead, up>>
    <3>1. Here(cur) /\ Heard(cur) /\ Silent(cur)
      BY <1>0, <2>2 DEF Eof, CanRead, Stopping, Here, Heard, Silent
    <3>2. ASSUME NEW p \in Procs, p = cur PROVE Quiet(p)'
      BY <1>0, <2>2, <3>1, <3>2 DEF Quiet, Here, Heard, Silent
    <3> QED
      BY <1>0, <2>0, <2>2, <3>2 DEF Types
  <2> QED
    BY <2>1, <2>2 DEF PassReads
<1>2. /\ cur' \in cur + 1 .. NumProcs + 1
      /\ cur' \in Procs => state'[cur'] = "working"
      /\ \A q \in cur + 1 .. NumProcs : q < cur' => state'[q] # "working"
  <2>1. cur + 1 \in 1 .. NumProcs + 1
    BY <1>0, CasesAssumption
  <2> QED
    BY <1>0, <2>1, NextWorkingFacts
<1>3. TypeOK'
  <2>1. cur' \in 1 .. NumProcs + 1
    BY <1>0, <1>2, CasesAssumption
  <2> QED
    BY <1>0, <1>1, <2>1 DEF TypeOK, frontendVars, requestVars, resultVars
<1>4. ASSUME NEW p \in Procs PROVE InPass(p)'
  <2>0. InPass(p) /\ p \in 1 .. NumProcs /\ cur' \in Int /\ NumProcs \in Nat
    BY <1>0, <1>2, CasesAssumption DEF Procs
  <2>1. CASE p = cur
    <3>1. ~(p >= cur')
      BY <1>0, <1>2, <2>0, <2>1
    <3>2. Quiet(p)'
      BY <1>1, <2>1
    <3> QED
      BY <3>1, <3>2 DEF InPass
  <2>2. CASE p # cur
    <3>1. (p >= cur' /\ state'[p] = "working") <=> (p >= cur /\ state[p] = "working")
      BY <1>0, <1>1, <1>2, <2>0, <2>2
    <3>2. (Stopping(p)' <=> Stopping(p)) /\ (Quiet(p)' <=> Quiet(p))
      BY <1>0, <1>1, <2>2 DEF Stopping, Quiet, Here, Heard, Silent, Said, Message, frontendVars
    <3> QED
      BY <2>0, <3>1, <3>2 DEF InPass
  <2> QED
    BY <2>1, <2>2
<1>5. ProtocolOK'
  BY <1>0, <1>1, <1>2, <1>4 DEF ProtocolOK
<1> QED
  BY <1>0, <1>1, <1>3, <1>5 DEF Types

\* Without trace data no process is found running.
LEMMA NoPassAgain == ASSUME ProtocolOK PROVE ~PassAgain
BY DEF ProtocolOK, PassAgain

\* The line read is the next buffer of the process, and the others are still on the way.
LEMMA TakesBuffer ==
    ASSUME Types, cur \in Procs, received < 5, Sending(cur), CanRead, Read
    PROVE  /\ Line.kind = Buffers[received + 1] /\ Here(cur) /\ Heard(cur)
           /\ Len(ahead') + Len(up'[cur]) = 4 - received
           /\ \A i \in 1 .. Len(ahead') : /\ ahead'[i].from = cur /\ ahead'[i].run = runs
                                          /\ ahead'[i].kind = Buffers[received + 1 + i]
           /\ \A i \in 1 .. Len(up'[cur]) :
                 /\ up'[cur][i].from = cur /\ up'[cur][i].run = runs
                 /\ up'[cur][i].kind = Buffers[received + 1 + Len(ahead') + i]
<1> DEFINE u == up[cur]
<1>0. /\ ahead \in Seq(Messages) /\ u \in Seq(Messages) /\ received \in Nat
      /\ Len(ahead) \in Nat /\ Len(u) \in Nat
  BY DEF Types, TypeOK
<1>1. /\ Here(cur) /\ Heard(cur)
      /\ Len(ahead) + Len(u) = 5 - received
      /\ \A i \in 1 .. Len(ahead) : /\ ahead[i].from = cur /\ ahead[i].run = runs
                                    /\ ahead[i].kind = Buffers[received + i]
      /\ \A i \in 1 .. Len(u) : /\ u[i].from = cur /\ u[i].run = runs
                                /\ u[i].kind = Buffers[received + Len(ahead) + i]
  BY DEF Sending, CanRead, Silent
<1>2. CASE ahead # <<>>
  <2>1. ahead' = Tail(ahead) /\ up' = up /\ Line = ahead[1]
    BY <1>0, <1>2, ReadFacts DEF Line
  <2>2. /\ Len(ahead') = Len(ahead) - 1 /\ Len(ahead) >= 1
        /\ \A i \in 1 .. Len(ahead') : ahead'[i] = ahead[i + 1]
    BY <1>0, <1>2, <2>1, HeadTailProperties
  <2>3. Line.kind = Buffers[received + 1]
    BY <1>0, <1>1, <2>1, <2>2
  <2>4. ASSUME NEW i \in 1 .. Len(ahead')
        PROVE  /\ ahead'[i].from = cur /\ ahead'[i].run = runs
               /\ ahead'[i].kind = Buffers[received + 1 + i]
    <3>1. i + 1 \in 1 .. Len(ahead) /\ received + (i + 1) = received + 1 + i
      BY <1>0, <2>2
    <3> QED
      BY <1>1, <2>2, <3>1
  <2>5. ASSUME NEW i \in 1 .. Len(up'[cur])
        PROVE  /\ up'[cur][i].from = cur /\ up'[cur][i].run = runs
               /\ up'[cur][i].kind = Buffers[received + 1 + Len(ahead') + i]
    <3>0. i \in 1 .. Len(u) /\ i \in Int
      BY <1>0, <2>1
    <3>1. received + 1 + Len(ahead') + i = received + Len(ahead) + i
      BY <1>0, <2>2, <3>0
    <3> QED
      BY <1>1, <2>1, <3>0, <3>1
  <2>6. Len(ahead') + Len(up'[cur]) = 4 - received
    <3>1. up'[cur] = u
      BY <2>1
    <3> HIDE DEF u
    <3> QED
      BY <1>0, <1>1, <2>2, <3>1
  <2> QED
    BY <1>1, <2>3, <2>4, <2>5, <2>6
<1>3. CASE ahead = <<>>
  <2>1. PICK k \in 1 .. Len(u) : ahead' = SubSeq(u, 2, k) /\ up'[cur] = SubSeq(u, k + 1, Len(u))
    BY <1>0, <1>3, ReadFacts
  <2>2. k \in Int /\ k >= 1 /\ k <= Len(u) /\ (\A i \in 1 .. Len(u) : u[i] \in Messages) /\ Len(ahead) = 0
    BY <1>0, <1>3, <2>1, ElementOfSeq
  <2> HIDE DEF u
  <2>3. /\ Len(ahead') = k - 1
        /\ \A i \in 1 .. k - 1 : ahead'[i] = u[i + 1]
    <3>1. \A i \in 2 .. k : u[i] \in Messages
      BY <1>0, <2>2
    <3>2. /\ Len(SubSeq(u, 2, k)) = IF 2 <= k THEN k - 2 + 1 ELSE 0
          /\ \A i \in 1 .. k - 2 + 1 : SubSeq(u, 2, k)[i] = u[2 + i - 1]
      BY <2>2, <3>1, SubSeqProperties
    <3> QED
      BY <2>1, <2>2, <3>2
  <2>4. /\ Len(up'[cur]) = Len(u) - k
        /\ \A i \in 1 .. Len(u) - k : up'[cur][i] = u[k + i]
    <3>1. \A i \in k + 1 .. Len(u) : u[i] \in Messages
      BY <1>0, <2>2
    <3>2. /\ Len(SubSeq(u, k + 1, Len(u))) = IF k + 1 <= Len(u) THEN Len(u) - (k + 1) + 1 ELSE 0
          /\ \A i \in 1 .. Len(u) - (k + 1) + 1 : SubSeq(u, k + 1, Len(u))[i] = u[k + 1 + i - 1]
      BY <1>0, <2>2, <3>1, SubSeqProperties
    <3> QED
      BY <1>0, <2>1, <2>2, <3>2
  <2>5. Line.kind = Buffers[received + 1]
    <3>1. Line = u[1]
      BY <1>3 DEF Line, u
    <3> QED
      BY <1>0, <1>1, <2>2, <3>1
  <2>6. ASSUME NEW i \in 1 .. Len(ahead')
        PROVE  /\ ahead'[i].from = cur /\ ahead'[i].run = runs
               /\ ahead'[i].kind = Buffers[received + 1 + i]
    <3>0. i \in 1 .. k - 1 /\ i \in Int
      BY <2>2, <2>3
    <3>1. i + 1 \in 1 .. Len(u)
      BY <1>0, <2>2, <3>0
    <3>2. received + Len(ahead) + (i + 1) = received + 1 + i
      BY <1>0, <2>2, <3>0
    <3>3. ahead'[i] = u[i + 1]
      BY <2>3, <3>0
    <3> QED
      BY <1>1, <3>1, <3>2, <3>3
  <2>7. ASSUME NEW i \in 1 .. Len(up'[cur])
        PROVE  /\ up'[cur][i].from = cur /\ up'[cur][i].run = runs
               /\ up'[cur][i].kind = Buffers[received + 1 + Len(ahead') + i]
    <3>0. i \in 1 .. Len(u) - k /\ i \in Int
      BY <1>0, <2>2, <2>4
    <3>1. k + i \in 1 .. Len(u) /\ up'[cur][i] = u[k + i]
      BY <1>0, <2>2, <2>4, <3>0
    <3>2. received + Len(ahead) + (k + i) = received + 1 + Len(ahead') + i
      BY <1>0, <2>2, <2>3, <3>0
    <3> QED
      BY <1>1, <3>1, <3>2
  <2> QED
    BY <1>0, <1>1, <2>2, <2>3, <2>4, <2>5, <2>6, <2>7
<1> QED
  BY <1>2, <1>3

\* The next buffer of the same process, the first of the next one, or the last of all.
LEMMA ReceiveBufferStep == ASSUME Types, ProtocolOK, ReceiveBuffer PROVE Types' /\ ProtocolOK'
<1>0. /\ pc = "buffer" /\ CanRead /\ Read /\ cur \in Procs /\ cur \in 1 .. NumProcs /\ TypeOK
      /\ received \in Nat /\ received < 5 /\ Sending(cur)
      /\ proc \in [Procs -> ProcessStates] /\ down \in [Procs -> Seq(Commands)]
      /\ UNCHANGED <<frontendVars, order, then, executing, delays, todo, state, requestVars, gathered, results, proc>>
      /\ \A p \in Procs : p # cur => Quiet(p)
  <2>1. pc = "buffer" /\ CanRead /\ Read
    BY DEF ReceiveBuffer
  <2> QED
    <3>1. /\ cur \in Procs /\ TypeOK /\ received < 5
          /\ proc \in [Procs -> ProcessStates] /\ down \in [Procs -> Seq(Commands)]
      BY <2>1 DEF Types
    <3>2. \A p \in Procs : AtBuffer(p)
      BY <2>1 DEF ProtocolOK
    <3>3. received \in Nat /\ cur \in 1 .. NumProcs
      BY <3>1 DEF TypeOK, Procs
    <3>4. UNCHANGED <<frontendVars, order, then, executing, delays, todo, state, requestVars, gathered, results, proc>>
      BY DEF ReceiveBuffer
    <3> QED
      BY <2>1, <3>1, <3>2, <3>3, <3>4 DEF AtBuffer
<1>1. /\ Line.kind = Buffers[received + 1] /\ Here(cur) /\ Heard(cur)
      /\ Len(ahead') + Len(up'[cur]) = 4 - received
      /\ \A i \in 1 .. Len(ahead') : /\ ahead'[i].from = cur /\ ahead'[i].run = runs
                                     /\ ahead'[i].kind = Buffers[received + 1 + i]
      /\ \A i \in 1 .. Len(up'[cur]) :
            /\ up'[cur][i].from = cur /\ up'[cur][i].run = runs
            /\ up'[cur][i].kind = Buffers[received + 1 + Len(ahead') + i]
  BY <1>0, TakesBuffer
<1>2. /\ up' \in [Procs -> Seq(Messages)] /\ ahead' \in Seq(Messages)
      /\ \A p \in Procs : p # cur => up'[p] = up[p]
      /\ Line.data \subseteq Metrics
  BY <1>0, ReadFacts DEF Messages
<1>3. got' \in [Procs -> SUBSET Metrics]
  <2>1. got' = [got EXCEPT ![cur] = @ \cup Line.data] /\ got \in [Procs -> SUBSET Metrics]
    BY <1>0, <1>1 DEF ReceiveBuffer, TypeOK
  <2> QED
    BY <1>0, <1>2, <2>1
<1>4. CASE received + 1 < 5 /\ received' = received + 1 /\ UNCHANGED <<pc, cur, down>>
  <2>1. TypeOK'
    <3>1. received' \in 0 .. 5
      BY <1>0, <1>4
    <3> QED
      BY <1>0, <1>3, <1>4, <3>1 DEF TypeOK, frontendVars, requestVars
  <2>2. ASSUME NEW p \in Procs PROVE AtBuffer(p)'
    <3>1. CASE p # cur
      BY <1>0, <1>2, <1>4, <3>1 DEF AtBuffer, Quiet, Here, Heard, Silent
    <3>2. CASE p = cur
      <4>1. /\ Len(ahead') + Len(up'[p]) = 5 - received'
            /\ \A i \in 1 .. Len(ahead') : /\ ahead'[i].from = p /\ ahead'[i].run = runs'
                                           /\ ahead'[i].kind = Buffers[received' + i]
            /\ \A i \in 1 .. Len(up'[p]) :
                  /\ up'[p][i].from = p /\ up'[p][i].run = runs'
                  /\ up'[p][i].kind = Buffers[received' + Len(ahead') + i]
        BY <1>0, <1>1, <1>4, <3>2 DEF frontendVars
      <4>2. Here(p)' /\ Heard(p)'
        BY <1>0, <1>1, <1>4, <3>2 DEF Here, Heard
      <4>3. Sending(p)'
        BY <4>1, <4>2 DEF Sending
      <4> QED
        BY <1>4, <3>2, <4>3 DEF AtBuffer
    <3> QED
      BY <3>1, <3>2
  <2>3. ProtocolOK'
    BY <1>0, <1>4, <2>2 DEF ProtocolOK
  <2> QED
    BY <1>0, <1>2, <1>4, <2>1, <2>3 DEF Types
<1>5. ASSUME received + 1 = 5
      PROVE  ahead' = <<>> /\ \A p \in Procs : Here(p) /\ Heard(p) /\ up'[p] = <<>>
  <2>1. Len(ahead') = 0 /\ Len(up'[cur]) = 0
    <3>1. up'[cur] \in Seq(Messages) /\ ahead' \in Seq(Messages)
      BY <1>0, <1>2
    <3>2. Len(ahead') \in Nat /\ Len(up'[cur]) \in Nat
      BY <3>1, LenProperties
    <3> QED
      BY <1>0, <1>1, <1>5, <3>2
  <2>2. ahead' = <<>> /\ up'[cur] = <<>>
    BY <1>0, <1>2, <2>1, EmptySeq
  <2> QED
    BY <1>0, <1>1, <1>2, <2>2 DEF Quiet, Silent
<1>6. CASE /\ received + 1 = 5 /\ cur < NumProcs /\ cur' = cur + 1 /\ received' = 0
           /\ down' = Written(down, cur + 1, "getsummarydata") /\ UNCHANGED pc
  <2>1. cur + 1 \in Procs /\ cur + 1 \in 1 .. NumProcs + 1 /\ "getsummarydata" \in Commands
    BY <1>0, <1>6, CasesAssumption DEF Procs, Commands, Words
  <2>2. TypeOK'
    BY <1>0, <1>3, <1>6, <2>1 DEF TypeOK, frontendVars, requestVars
  <2>3. /\ down' \in [Procs -> Seq(Commands)]
        /\ \A p \in Procs : p # cur + 1 => down'[p] = <<>>
        /\ down'[cur + 1] = IF proc[cur + 1].is = "dead" THEN <<>> ELSE <<"getsummarydata">>
    <3>1. \A p \in Procs : down[p] = <<>>
      BY <1>5, <1>6 DEF Heard
    <3>2. ASSUME NEW q \in Procs
          PROVE  /\ Written(down, q, "getsummarydata") \in [Procs -> Seq(Commands)]
                 /\ \A p \in Procs : p # q => Written(down, q, "getsummarydata")[p] = down[p]
                 /\ Written(down, q, "getsummarydata")[q] =
                       IF proc[q].is = "dead" THEN <<>> ELSE <<"getsummarydata">>
      <4>1. down \in [Procs -> Seq(Commands)] /\ "getsummarydata" \in Commands /\ down[q] = <<>>
        BY <1>0, <2>1, <3>1
      <4> QED
        BY <4>1, OneCommand
    <3> QED
      BY <1>6, <2>1, <3>1, <3>2
  <2>4. ASSUME NEW p \in Procs PROVE AtBuffer(p)'
    BY <1>0, <1>5, <1>6, <2>3 DEF AtBuffer, Sending, Quiet, Here, Heard, Silent
  <2>5. ProtocolOK'
    BY <1>0, <1>6, <2>4 DEF ProtocolOK
  <2> QED
    <3>1. pc' = "buffer" /\ cur' \in Procs /\ received' < 5 /\ proc' \in [Procs -> ProcessStates]
      BY <1>0, <1>6, <2>1
    <3> QED
      BY <1>2, <2>2, <2>3, <2>5, <3>1 DEF Types
<1>7. CASE received + 1 = 5 /\ pc' = "results" /\ received' = 5 /\ UNCHANGED <<cur, down>>
  <2>1. TypeOK'
    BY <1>0, <1>3, <1>7 DEF TypeOK, frontendVars, requestVars
  <2>2. ASSUME NEW p \in Procs PROVE Quiet(p)'
    BY <1>0, <1>5, <1>7 DEF Quiet, Here, Heard, Silent
  <2>3. ProtocolOK'
    BY <1>5, <1>7, <2>2 DEF ProtocolOK
  <2> QED
    BY <1>0, <1>2, <1>7, <2>1, <2>3 DEF Types
<1> QED
  BY <1>1, <1>4, <1>6, <1>7 DEF ReceiveBuffer, Further

-----------------------------------------------------------------------------
(* The frontend, and all together.                                         *)

\* The processes of a new run are at rest, and nothing is in their streams.
LEMMA RerunStep == ASSUME Types, ProtocolOK, TheFrontend, Rerun PROVE Types' /\ ProtocolOK'
<1>0. /\ ahead = <<>> /\ TypeOK /\ pc = "idle"
      /\ UNCHANGED <<case, pc, cur, then, executing, delays, todo, received, state, requestVars, resultVars>>
      /\ runs' = runs + 1 /\ runs < MaxRuns /\ order' = "reinit" /\ UNCHANGED <<searches, ahead>>
      /\ down' = [p \in Procs |-> <<>>] /\ up' = [p \in Procs |-> <<>>]
  BY QuietBetween DEF TheFrontend, Rerun, Types
<1>1. TypeOK'
  <2>1. runs' \in 1 .. MaxRuns
    BY <1>0, CasesAssumption DEF TypeOK
  <2> QED
    BY <1>0, <2>1 DEF TypeOK, requestVars, resultVars
<1>2. PICK n \in case.phases : proc' = [p \in Procs |-> FreshProcess(n)]
  BY DEF Rerun
<1>3. n \in Nat
  BY <1>0, CasesAssumption DEF TypeOK
<1>4. FreshProcess(n) \in ProcessStates /\ FreshProcess(n).is = "suspended"
  BY <1>3 DEF FreshProcess, ProcessStates
<1>5. down' \in [Procs -> Seq(Commands)] /\ up' \in [Procs -> Seq(Messages)] /\ proc' \in [Procs -> ProcessStates]
  BY <1>0, <1>2, <1>4
<1>6. ASSUME NEW p \in Procs PROVE Quiet(p)'
  BY <1>0, <1>2, <1>4 DEF Quiet, Here, Heard, Silent
<1>7. ProtocolOK'
  BY <1>0, <1>6 DEF ProtocolOK
<1> QED
  BY <1>0, <1>1, <1>5, <1>7 DEF Types

\* The frontend answers an agent that is between two handlers.
LEMMA AnswerStep == ASSUME Types, ProtocolOK, TheFrontend, Answer PROVE Types' /\ ProtocolOK'
<1>0. /\ ahead = <<>> /\ TypeOK /\ pc = "idle" /\ \A p \in Procs : Quiet(p)
  BY QuietBetween DEF TheFrontend, Types
<1>1. /\ UNCHANGED <<case, pc, cur, then, executing, delays, todo, received, state, requestVars, resultVars>>
      /\ UNCHANGED <<runs, proc, streamVars>>
      /\ order' \in {"startexperiment", "start", "done"}
  BY DEF TheFrontend, Answer
<1>2. searches' \in 1 .. case.searches
  BY <1>0, CasesAssumption DEF Answer, TypeOK
<1>3. TypeOK'
  BY <1>0, <1>1, <1>2 DEF TypeOK, requestVars, resultVars
<1> QED
  BY <1>0, <1>1, <1>3, RestsOn DEF Types, streamVars

\* At the beginning every process is suspended.
LEMMA InitOK == ASSUME Init PROVE Types /\ ProtocolOK
<1>1. PICK n \in case.phases : proc = [p \in Procs |-> FreshProcess(n)]
  BY DEF Init
<1>2. n \in Nat /\ case.searches \in Nat \ {0}
  BY CasesAssumption DEF Init
<1>3. FreshProcess(n) \in ProcessStates /\ FreshProcess(n).is = "suspended"
  BY <1>2 DEF FreshProcess, ProcessStates
<1>4. TypeOK
  <2>1. 1 \in 1 .. MaxRuns /\ 1 \in 1 .. case.searches /\ 1 \in 1 .. NumProcs + 1
    BY <1>2, CasesAssumption
  <2>2. <<>> \in Seq(Metrics \cup {"tuningaction"})
    OBVIOUS
  <2>3. case \in Cases /\ runs \in 1 .. MaxRuns /\ searches \in 1 .. case.searches /\ cur \in 1 .. NumProcs + 1
    BY <2>1, Zenon DEF Init
  <2>4. /\ order = "start" /\ pc = "idle" /\ then = "evaluate"
        /\ delays \in Nat /\ burst \in Nat /\ steps \in Nat /\ results \in Nat /\ received \in 0 .. 5
    BY DEF Init
  <2>5. executing \in BOOLEAN /\ pending \in BOOLEAN /\ tuning \in BOOLEAN /\ gathered \in BOOLEAN
    BY Zenon DEF Init
  <2>6. /\ state \in [Procs -> {"working", "suspended", "atend"}] /\ got \in [Procs -> SUBSET Metrics]
        /\ requests = {} /\ backup = {} /\ todo \in Seq(Metrics \cup {"tuningaction"})
    BY <2>2 DEF Init
  <2> QED
    BY <2>3, <2>4, <2>5, <2>6, Zenon DEF TypeOK
<1>5. Types
  BY <1>1, <1>3, <1>4 DEF Init, Types
<1>6. ASSUME NEW p \in Procs PROVE Quiet(p)
  BY <1>1, <1>3 DEF Init, Quiet, Here, Heard, Silent
<1> QED
  BY <1>5, <1>6 DEF Init, ProtocolOK

\* The invariant is inductive: one step per action.
LEMMA Invariance == ASSUME NoTrace PROVE Spec => [](Types /\ ProtocolOK)
<1>1. Init => Types /\ ProtocolOK
  BY InitOK
<1>2. (Types /\ ProtocolOK) /\ [Next]_vars => (Types /\ ProtocolOK)'
  <2> SUFFICES ASSUME Types, ProtocolOK, [Next]_vars PROVE Types' /\ ProtocolOK'
    OBVIOUS
  <2>1. CASE Agent
    BY <2>1, OnStartStep, OnStartExperimentStep, OnReinitStep, BeginRequestsOkStep, RequestOkStep,
       EndRequestsOkStep, PassReadsStep, NoPassAgain, DelayedStep, RedelayedStep, EvaluateStep,
       AtStartStep, ReceiveBufferStep, ResultsStep, VerdictStep DEF Agent
  <2>2. CASE TheFrontend
    BY <2>2, RerunStep, AnswerStep DEF TheFrontend
  <2>3. CASE \E p \in Procs : Process(p)
    BY <2>3, ProcessStep
  <2>4. CASE UNCHANGED vars
    <3>1. UNCHANGED <<agentVars, ahead, down, up, proc>>
      BY <2>4 DEF vars, streamVars
    <3>2. Types'
      BY <3>1 DEF Types, TypeOK, agentVars, frontendVars, requestVars, resultVars
    <3>3. ProtocolOK'
      BY <3>1 DEF ProtocolOK, agentVars, frontendVars, AtBegin, AtRequest, AtEndRequests, InPass, AtBuffer,
                  Quiet, Asked, Waiting, Stopping, Sending, Here, Heard, Silent, Said, Message
    <3> QED
      BY <3>2, <3>3
  <2> QED
    BY <2>1, <2>2, <2>3, <2>4 DEF Next
<1> QED
  BY <1>1, <1>2, PTL DEF Spec

\* Every variable keeps its type; in particular the agent never leaves the loops over its
\* processes with a connection that does not exist (DataProvider.cc).
THEOREM TypeCorrect == NoTrace => (Spec => []TypeOK)
<1> SUFFICES ASSUME NoTrace PROVE Spec => []TypeOK
  OBVIOUS
<1>1. Types => TypeOK
  BY DEF Types
<1> QED
  BY <1>1, Invariance, PTL

\* wait and still_executing end when the last process has stopped, and no handler sends a
\* command before: also when a process dies while the others run.
THEOREM RunningUndisturbed == NoTrace => (Spec => []NoCommandWhileRunning)
<1> SUFFICES ASSUME NoTrace PROVE Spec => []NoCommandWhileRunning
  OBVIOUS
<1>1. Types /\ ProtocolOK => NoCommandWhileRunning
  <2> SUFFICES ASSUME Types, ProtocolOK, NEW p \in Procs, proc[p].is \in {"runtostart", "runtoend"}
               PROVE  down[p] = <<>>
    BY DEF NoCommandWhileRunning
  <2>1. pc \in {"begin", "request", "end", "pass", "buffer"} \/ Quiet(p)
    BY DEF ProtocolOK
  <2>2. ~Quiet(p) /\ ~Waiting(p) /\ ~Sending(p) /\ \A cs : ~Asked(p, cs)
    BY DEF Quiet, Waiting, Sending, Asked, Here
  <2>3. pc = "pass" /\ Stopping(p)
    <3>1. p < cur \/ p = cur \/ p > cur
      BY CasesAssumption DEF Procs, Types, TypeOK
    <3>2. ~AtBegin(p)
      BY <2>2, <3>1 DEF AtBegin
    <3>3. ~AtRequest(p) /\ ~AtEndRequests(p) /\ ~AtBuffer(p)
      BY <2>2 DEF AtRequest, AtEndRequests, AtBuffer
    <3>4. InPass(p) => Stopping(p)
      BY <2>2 DEF InPass
    <3> QED
      BY <2>1, <2>2, <3>2, <3>3, <3>4 DEF ProtocolOK
  <2> QED
    BY <2>3 DEF Stopping, Here, Heard
<1> QED
  BY <1>1, Invariance, PTL

\* The buffer that all connections share holds lines of the process being read from only, of
\* this run, so that nobody is handed another's answer (socket_my_read).
THEOREM AnswersAreOwn == NoTrace => (Spec => OwnAnswers)
<1> SUFFICES ASSUME NoTrace PROVE Spec => OwnAnswers
  OBVIOUS
<1> DEFINE Own == ahead # <<>> => Head(ahead).from = cur /\ Head(ahead).run = runs
<1>1. Types /\ ProtocolOK => Own
  <2> SUFFICES ASSUME Types, ProtocolOK, ahead # <<>> PROVE Head(ahead).from = cur /\ Head(ahead).run = runs
    OBVIOUS
  <2>1. pc = "buffer" /\ cur \in Procs
    BY DEF ProtocolOK, Types
  <2>2. Sending(cur)
    BY <2>1 DEF ProtocolOK, AtBuffer
  <2>3. 1 \in 1 .. Len(ahead) /\ Head(ahead) = ahead[1]
    BY DEF Types
  <2> QED
    BY <2>2, <2>3 DEF Sending
<1> DEFINE Astray == Strays /\ (case.crash \/ (Head(ahead).from \in case.traced /\ pc = "pass"))
           IsOwn  == Head(ahead).from = cur /\ Head(ahead).run = runs
<1>2. Own => [ahead # <<>> /\ ahead' = Tail(ahead) => IsOwn \/ Astray]_ahead
  OBVIOUS
<1>3. Spec => []Own
  BY <1>1, Invariance, PTL
<1> HIDE DEF Own
<1>4. Spec => [][ahead # <<>> /\ ahead' = Tail(ahead) =>
                    \/ Head(ahead).from = cur /\ Head(ahead).run = runs
                    \/ Strays /\ (case.crash \/ (Head(ahead).from \in case.traced /\ pc = "pass"))]_ahead
  BY <1>2, <1>3, PTL
<1> QED
  BY <1>4 DEF OwnAnswers

-----------------------------------------------------------------------------
(* What is measured.                                                       *)

\* Every metric the strategy wants of p has been received, is still to be requested, or is in M.
Due(p, M) == case.wanted \subseteq got[p] \cup requests \cup M
Count == results + burst >= case.burst
Live  == Count /\ \A p \in Procs : Due(p, {})

Dead(p) == proc[p].is = "dead"

\* The agent will wait for one of the processes for ever.
Doomed == \E q \in Procs : q >= cur /\ Dead(q) /\ Silent(q) /\ (q = cur => ahead = <<>>)

\* What p has still to be asked for.
Unasked(p) == ToSet(IF p < cur \/ (p = cur /\ ~Silent(p)) THEN Tail(todo) ELSE todo)

\* In a pass: p has stopped, which the agent knows or will read, or not yet.
HasStopped(p, s, kind) == state[p] = s \/ Said(p, {kind})
Running(p) == state[p] = "working" /\ Silent(p)

\* A process that got to the end of the experiment has measured what it was asked for.
Measured(p) ==
    /\ HasStopped(p, "suspended", "SUSPENDED") => Due(p, proc[p].measured)
    /\ HasStopped(p, "atend", "SUSPENDEDATEND") /\ ~case.userPhase => Due(p, proc[p].measured)
    /\ Running(p) => /\ Due(p, proc[p].asked)
                     /\ proc[p].is # "runtostart" /\ down[p] \in {<<>>, <<"runtoend">>}

\* The profile is the second buffer.
Received(p) == Due(p, IF p > cur \/ (p = cur /\ received < 2) THEN proc[p].measured ELSE {})

\* Nothing that is wanted gets lost: not between two sets of requests, not in an experiment.
InExperiment ==
    /\ pc \in {"begin", "results"} => Live
    /\ pc = "request" => Count /\ \A p \in Procs : Due(p, proc[p].asked \cup Unasked(p))
    /\ pc = "end" => Count /\ \A p \in Procs : Due(p, proc[p].asked)
    /\ pc = "pass" /\ then = "evaluate" => Count /\ \A p \in Procs : Measured(p)
    /\ pc = "buffer" => Count /\ (Doomed \/ \A p \in Procs : Received(p))
    /\ pc = "verdict" \/ (pc = "pass" /\ then = "tostart") =>
          Live /\ (gathered => requests = {} /\ burst = 0)

\* Nor between two experiments, unless the scenario is sent again.
BetweenExperiments ==
    /\ pc = "idle" /\ order \in {"startexperiment", "reqexperiment"} => Live
    /\ pc = "idle" /\ order \in {"needrestart", "reinit", "ready"} => case.tuning \/ Live
    /\ pc = "idle" /\ order \in {"start", "searchfinished"} /\ case.delay = 0 =>
          case.tuning \/ Live \/ \A p \in Procs : state[p] = "suspended"
    /\ pc = "pass" /\ then = "redelayed" => case.tuning \/ Live
    /\ pc = "pass" /\ then = "delayed" => case.delay > 0

\* A profile on its way is what its process has measured.
Profiles ==
    /\ \A p \in Procs : \A i \in 1 .. Len(up[p]) :
          up[p][i].kind = "FLAT_PROFILE" => up[p][i].data = proc[p].measured
    /\ \A i \in 1 .. Len(ahead) :
          ahead[i].kind = "FLAT_PROFILE" => ahead[i].data = proc[ahead[i].from].measured

\* A process the agent takes for working, although it does not wait for it, has died.
Abandoned ==
    \A p \in Procs : \/ state[p] # "working" \/ Dead(p)
                     \/ pc = "pass" /\ p >= cur
                     \/ pc = "idle" /\ order = "reinit"

\* An application that goes on, or in which each phase is an experiment, ends between two.
Steady == case.userPhase /\ (case.endless \/ (case.iterations = 1 /\ 0 \notin case.phases))

Able(p) == case.endless \/ (proc[p].iterations = 1 /\ proc[p].left >= 1)

Lasting ==
    Steady =>
    /\ \A p \in Procs : case.endless \/ proc[p].iterations = 1
    /\ pc = "verdict" \/ (pc = "idle" /\ order \notin {"needrestart", "reinit", "done"}) =>
          \A p \in Procs : state[p] = "suspended" => Able(p)
    /\ pc = "idle" /\ order = "reinit" => \A p \in Procs : Able(p)
    /\ pc = "begin" => Doomed \/ \A p \in Procs : Able(p)
    /\ pc \in {"request", "end"} => \A p \in Procs : Able(p)
    /\ pc = "pass" /\ then = "evaluate" =>
          \A p \in Procs : ~HasStopped(p, "atend", "SUSPENDEDATEND") /\ (Running(p) => Able(p))
    /\ pc \in {"buffer", "results"} => \A p \in Procs : state[p] # "atend"
    /\ pc = "pass" /\ then # "evaluate" =>
          \A p \in Procs : /\ HasStopped(p, "suspended", "SUSPENDED") => Able(p)
                           /\ Running(p) => /\ proc[p].is # "runtoend"
                                            /\ down[p] \in {<<>>, <<"runtostart">>}

Measuring == InExperiment /\ BetweenExperiments /\ Profiles /\ Abandoned /\ Lasting

\* The assumption: the application does not end in an experiment, unless that is of a
\* scenario, which is sent again.
Whole == \A c \in Cases : \/ c.tuning \/ ~c.userPhase \/ c.endless
                          \/ c.iterations = 1 /\ 0 \notin c.phases

-----------------------------------------------------------------------------
(* The processes measure.                                                  *)

\* A process that dies keeps what it has measured.
LEMMA DieData ==
    ASSUME Types, NEW p \in Procs, Die(p)
    PROVE  /\ proc'[p].is = "dead" /\ down'[p] = <<>> /\ up'[p] = up[p]
           /\ proc'[p].asked = proc[p].asked /\ proc'[p].measured = proc[p].measured
           /\ proc'[p].left = proc[p].left /\ proc'[p].iterations = proc[p].iterations
<1>0. proc \in [Procs -> ProcessStates] /\ proc[p] \in ProcessStates
  BY DEF Types
<1>1. proc'[p] = [proc[p] EXCEPT !.is = "dead"]
  BY <1>0 DEF Die
<1> QED
  BY <1>0, <1>1, DieFacts DEF ProcessStates

\* What a process is asked for adds up; what it has measured stays.
LEMMA ObeyData ==
    ASSUME Types, NEW p \in Procs, Obey(p)
    PROVE  /\ proc'[p].measured = proc[p].measured /\ proc'[p].left = proc[p].left
           /\ proc'[p].iterations \in {proc[p].iterations, case.iterations}
           /\ Head(down[p]) \in Metrics => proc'[p].asked = proc[p].asked \cup {Head(down[p])}
           /\ Head(down[p]) \in Words \ {"beginrequests"} => proc'[p].asked = proc[p].asked
<1> DEFINE c == Head(down[p])
<1>0. proc \in [Procs -> ProcessStates] /\ proc[p] \in ProcessStates
  BY DEF Types
<1>1. \/ c = "setnumiterations" /\ proc' = [proc EXCEPT ![p].iterations = case.iterations]
      \/ c = "beginrequests" /\ proc' = [proc EXCEPT ![p].asked = {}]
      \/ c \in Metrics /\ proc' = [proc EXCEPT ![p].asked = @ \cup {c}]
      \/ c \in {"tuningaction", "endrequests"} /\ proc' = proc
      \/ c \in {"runtostart", "runtoend"} /\ proc' = [proc EXCEPT ![p].is = c]
      \/ c = "getsummarydata" /\ proc' = proc
  BY DEF Obey
<1>2. \A w \in Words : w \notin Metrics
  BY CasesAssumption
<1> HIDE DEF c
<1>3. \/ c = "setnumiterations" /\ proc'[p] = [proc[p] EXCEPT !.iterations = case.iterations]
      \/ c = "beginrequests" /\ proc'[p] = [proc[p] EXCEPT !.asked = {}]
      \/ c \in Metrics /\ proc'[p] = [proc[p] EXCEPT !.asked = @ \cup {c}]
      \/ c \in {"tuningaction", "endrequests"} /\ proc'[p] = proc[p]
      \/ c \in {"runtostart", "runtoend"} /\ proc'[p] = [proc[p] EXCEPT !.is = c]
      \/ c = "getsummarydata" /\ proc'[p] = proc[p]
  BY <1>0, <1>1
<1>4. /\ proc'[p].measured = proc[p].measured /\ proc'[p].left = proc[p].left
      /\ proc'[p].iterations \in {proc[p].iterations, case.iterations}
      /\ c \in Metrics => proc'[p].asked = proc[p].asked \cup {c}
      /\ c \in Words \ {"beginrequests"} => proc'[p].asked = proc[p].asked
  BY <1>0, <1>2, <1>3 DEF ProcessStates, Words
<1> QED
  BY <1>4 DEF c

\* A process that gets to the end of an experiment has measured what it was asked for.
LEMMA StopData ==
    ASSUME Types, NEW p \in Procs, Stop(p)
    PROVE  /\ proc'[p].asked = proc[p].asked /\ proc'[p].iterations = proc[p].iterations
           /\ \/ /\ up'[p] = Append(up[p], Message(p, "SUSPENDED", {}))
                 /\ proc[p].is = "runtoend" => proc'[p].measured = proc[p].asked
                 /\ proc[p].is = "runtostart" => case.endless \/ proc'[p].left >= 1
              \/ /\ up'[p] = Append(up[p], Message(p, "SUSPENDEDATEND", {}))
                 /\ proc[p].is = "runtoend" /\ ~case.userPhase => proc'[p].measured = proc[p].asked
                 /\ proc[p].is = "runtoend" /\ case.userPhase =>
                       ~case.endless /\ proc[p].left < proc[p].iterations
<1> DEFINE q == proc[p]
           need == IF q.is = "runtoend" THEN q.iterations ELSE IF q.at = "start" THEN 2 ELSE 1
           done == IF q.is = "runtoend" THEN need ELSE need - 1
           exits == ~case.userPhase \/ (q.left < need /\ ~case.endless)
           at   == IF exits THEN "exit" ELSE IF q.is = "runtostart" THEN "start" ELSE "outside"
           left == IF exits THEN 0 ELSE IF case.endless THEN q.left ELSE q.left - done
           measured == IF q.is = "runtoend" /\ (exits => ~case.userPhase) THEN q.asked ELSE {}
<1>0. proc \in [Procs -> ProcessStates] /\ q \in ProcessStates /\ q.is \in {"runtostart", "runtoend"}
  BY DEF Types, Stop
<1>1. /\ proc' = [proc EXCEPT ![p] = [q EXCEPT !.is = "suspended", !.at = at, !.left = left,
                                               !.measured = measured]]
      /\ Says(p, IF exits THEN "SUSPENDEDATEND" ELSE "SUSPENDED")
  BY Zenon DEF Stop
<1>2. /\ proc'[p].asked = q.asked /\ proc'[p].iterations = q.iterations
      /\ proc'[p].left = left /\ proc'[p].measured = measured
  <2> HIDE DEF at, left, measured
  <2>1. proc'[p] = [q EXCEPT !.is = "suspended", !.at = at, !.left = left, !.measured = measured]
    BY <1>0, <1>1
  <2> QED
    BY <1>0, <2>1 DEF ProcessStates
<1>3. q.left \in Int /\ q.iterations \in Nat
  BY <1>0 DEF ProcessStates
<1>4. CASE exits
  <2>1. up'[p] = Append(up[p], Message(p, "SUSPENDEDATEND", {}))
    BY <1>1, <1>4, SaysFacts DEF Kinds
  <2> QED
    BY <1>0, <1>2, <1>4, <2>1
<1>5. CASE ~exits
  <2>1. up'[p] = Append(up[p], Message(p, "SUSPENDED", {}))
    BY <1>1, <1>5, SaysFacts DEF Kinds
  <2>2. q.is = "runtostart" => case.endless \/ left >= 1
    BY <1>3, <1>5
  <2> QED
    BY <1>0, <1>2, <1>5, <2>1, <2>2
<1> QED
  BY <1>4, <1>5

\* A process stops only while the agent waits for it to.
LEMMA StopsInPass ==
    ASSUME Types, ProtocolOK, NEW p \in Procs, Stop(p)
    PROVE  /\ pc = "pass" /\ p >= cur /\ state[p] = "working" /\ ahead = <<>>
           /\ Silent(p) /\ Heard(p)
<1>1. ~Here(p)
  BY StopFacts DEF Here
<1>2. pc = "pass"
  <2>1. \A cs : ~Quiet(p) /\ ~Asked(p, cs) /\ ~Waiting(p) /\ ~Sending(p)
    BY <1>1 DEF Quiet, Asked, Waiting, Sending, Here
  <2>2. ~AtRequest(p) /\ ~AtEndRequests(p) /\ ~AtBuffer(p)
    BY <2>1 DEF AtRequest, AtEndRequests, AtBuffer
  <2>3. pc # "begin"
    <3>1. cur \in Int /\ p \in Int
      BY DEF Types, TypeOK, Procs
    <3>2. ~AtBegin(p)
      BY <2>1, <3>1 DEF AtBegin
    <3> QED
      BY <3>2 DEF ProtocolOK
  <2> QED
    BY <2>1, <2>2, <2>3 DEF ProtocolOK
<1>3. InPass(p) /\ ahead = <<>>
  BY <1>2 DEF ProtocolOK
<1>4. p >= cur /\ state[p] = "working" /\ Stopping(p)
  BY <1>1, <1>3 DEF InPass, Quiet
<1> QED
  BY <1>1, <1>2, <1>3, <1>4, StopFacts DEF Stopping, Here

\* What a process is told at each blocking read of the agent.
LEMMA ObeysWhat ==
    ASSUME Types, ProtocolOK, NEW p \in Procs, Obey(p)
    PROVE  \/ pc = "begin"
           \/ pc = "request" /\ p = cur /\ Head(down[p]) = Head(todo) /\ Silent(p)
           \/ pc = "end" /\ Head(down[p]) = "endrequests"
           \/ /\ pc = "pass" /\ p >= cur /\ state[p] = "working" /\ Silent(p)
              /\ Head(down[p]) \in {"runtostart", "runtoend"} /\ down[p] = <<Head(down[p])>>
           \/ pc = "buffer" /\ p = cur /\ Head(down[p]) = "getsummarydata" /\ Silent(p)
<1>1. ~Heard(p) /\ ~Quiet(p) /\ proc[p].is = "suspended"
  BY ObeyFacts DEF Heard, Quiet
<1>2. CASE pc = "request"
  <2>1. AtRequest(p)
    BY <1>2 DEF ProtocolOK
  <2>2. p = cur /\ down[p] = <<Head(todo)>> /\ Silent(p)
    BY <1>1, <2>1 DEF AtRequest, Asked
  <2> QED
    BY <1>2, <2>2
<1>3. CASE pc = "end"
  <2>1. AtEndRequests(p)
    BY <1>3 DEF ProtocolOK
  <2>2. down[p] = <<"endrequests">>
    BY <1>1, <2>1 DEF AtEndRequests, Asked
  <2> QED
    BY <1>3, <2>2
<1>4. CASE pc = "pass"
  <2>1. InPass(p)
    BY <1>4 DEF ProtocolOK
  <2>2. p >= cur /\ state[p] = "working" /\ down[p] \in {<<"runtostart">>, <<"runtoend">>} /\ Silent(p)
    BY <1>1, <2>1 DEF InPass, Stopping
  <2> QED
    BY <1>4, <2>2
<1>5. CASE pc = "buffer"
  <2>1. AtBuffer(p)
    BY <1>5 DEF ProtocolOK
  <2>2. p = cur /\ down[p] = <<"getsummarydata">> /\ Silent(p)
    BY <1>1, <2>1 DEF AtBuffer, Sending
  <2> QED
    BY <1>5, <2>2
<1>6. pc \in {"begin", "request", "end", "pass", "buffer"}
  BY <1>1 DEF ProtocolOK
<1> QED
  BY <1>2, <1>3, <1>4, <1>5, <1>6

\* What the agent knows does not change when a process goes on.
LEMMA AgentRests ==
    ASSUME Types, NEW p \in Procs, Process(p)
    PROVE  /\ UNCHANGED <<case, order, runs, pc, cur, then, todo, received, state, requests, burst, gathered,
                          got, results, ahead>>
           /\ \A q \in Procs : q # p => proc'[q] = proc[q] /\ down'[q] = down[q] /\ up'[q] = up[q]
           /\ Count' = Count /\ Live' = Live
           /\ \A q, M : Due(q, M)' = Due(q, M)
<1>1. /\ UNCHANGED <<case, order, runs, pc, cur, then, todo, received, state, requests, burst, gathered,
                     got, results, ahead>>
      /\ \A q \in Procs : q # p => proc'[q] = proc[q] /\ down'[q] = down[q] /\ up'[q] = up[q]
  BY ProcessFacts DEF agentVars, frontendVars, requestVars, resultVars
<1>2. \A q, M : Due(q, M)' = Due(q, M)
  BY <1>1 DEF Due
<1>3. Count' = Count
  BY <1>1 DEF Count
<1> QED
  BY <1>1, <1>2, <1>3 DEF Live, Due

\* A process that dies has written what it has, and leaves the rest as it is.
LEMMA DieMeasures ==
    ASSUME Types, Measuring, NEW p \in Procs, Process(p), Die(p)
    PROVE  Measuring'
<1>0. /\ UNCHANGED <<case, order, runs, pc, cur, then, todo, received, state, requests, burst, gathered,
                     got, results, ahead, up>>
      /\ Count' = Count /\ Live' = Live /\ \A q, M : Due(q, M)' = Due(q, M)
  BY AgentRests DEF Die
<1>1. ASSUME NEW q \in Procs
      PROVE  /\ proc'[q].asked = proc[q].asked /\ proc'[q].measured = proc[q].measured
             /\ proc'[q].left = proc[q].left /\ proc'[q].iterations = proc[q].iterations
             /\ (proc'[q].is = proc[q].is /\ down'[q] = down[q]) \/ (proc'[q].is = "dead" /\ down'[q] = <<>>)
  BY AgentRests, DieData
<1>2. Doomed => Doomed'
  BY <1>0, <1>1 DEF Doomed, Dead, Silent
<1>3. \A q \in Procs : Able(q)' = Able(q)
  BY <1>0, <1>1 DEF Able
<1>4. \A q, s, kind : HasStopped(q, s, kind)' = HasStopped(q, s, kind)
  BY <1>0 DEF HasStopped, Said, Message
<1>5. \A q \in Procs : Running(q)' = Running(q) /\ Unasked(q)' = Unasked(q)
  BY <1>0 DEF Running, Silent, Unasked
<1>6. InExperiment'
  <2>1. \A q \in Procs : Measured(q) => Measured(q)'
    BY <1>0, <1>1, <1>4, <1>5 DEF Measured
  <2>2. \A q \in Procs : Received(q) => Received(q)'
    BY <1>0, <1>1 DEF Received
  <2>3. \A q \in Procs : Due(q, proc[q].asked \cup Unasked(q)) => Due(q, proc[q].asked \cup Unasked(q))'
    BY <1>0, <1>1, <1>5 DEF Due
  <2>4. \A q \in Procs : Due(q, proc[q].asked) => Due(q, proc[q].asked)'
    BY <1>0, <1>1 DEF Due
  <2> QED
    BY <1>0, <1>2, <2>1, <2>2, <2>3, <2>4 DEF Measuring, InExperiment
<1>7. BetweenExperiments'
  BY <1>0 DEF Measuring, BetweenExperiments
<1>8. Profiles'
  <2>1. \A i \in 1 .. Len(ahead) : ahead[i].from \in Procs
    <3>1. ahead \in Seq(Messages)
      BY DEF Types
    <3>2. \A i \in 1 .. Len(ahead) : ahead[i] \in Messages
      BY <3>1, ElementOfSeq
    <3> QED
      BY <3>2 DEF Messages
  <2> QED
    BY <1>0, <1>1, <2>1 DEF Measuring, Profiles
<1>9. Abandoned'
  BY <1>0, <1>1 DEF Measuring, Abandoned, Dead
<1>10. Lasting'
  BY <1>0, <1>1, <1>2, <1>3, <1>4, <1>5 DEF Measuring, Lasting, Steady
<1> QED
  BY <1>6, <1>7, <1>8, <1>9, <1>10 DEF Measuring

\* What a process was to be asked for and has acknowledged it will measure.
LEMMA ObeyMeasures ==
    ASSUME Types, ProtocolOK, Measuring, NEW p \in Procs, Process(p), Obey(p)
    PROVE  Measuring'
<1>0. /\ UNCHANGED <<case, order, runs, pc, cur, then, todo, received, state, requests, burst, gathered,
                     got, results, ahead>>
      /\ \A q \in Procs : q # p => proc'[q] = proc[q] /\ down'[q] = down[q] /\ up'[q] = up[q]
      /\ Count' = Count /\ Live' = Live /\ \A q, M : Due(q, M)' = Due(q, M)
  BY AgentRests
<1>1. /\ proc'[p].measured = proc[p].measured /\ proc'[p].left = proc[p].left
      /\ proc'[p].iterations \in {proc[p].iterations, case.iterations}
      /\ Head(down[p]) \in Metrics => proc'[p].asked = proc[p].asked \cup {Head(down[p])}
      /\ Head(down[p]) \in Words \ {"beginrequests"} => proc'[p].asked = proc[p].asked
      /\ proc[p].is = "suspended" /\ down[p] # <<>> /\ down'[p] = Tail(down[p])
  BY ObeyData, ObeyFacts
<1>2. pc \in {"begin", "request", "end", "pass", "buffer"}
  BY ObeysWhat
<1>3. Doomed => Doomed'
  BY <1>0, <1>1 DEF Doomed, Dead, Silent
<1>4. Steady => \A q \in Procs : /\ Able(q) => Able(q)'
                                 /\ case.endless \/ proc'[q].iterations = 1
  BY <1>0, <1>1 DEF Measuring, Lasting, Steady, Able
<1>5. ASSUME pc = "pass"
      PROVE  /\ up' = up /\ proc'[p].asked = proc[p].asked /\ down'[p] = <<>>
             /\ down[p] \in {<<>>, <<"runtoend">>} => proc'[p].is = "runtoend"
             /\ down[p] \in {<<>>, <<"runtostart">>} => proc'[p].is = "runtostart"
  <2>1. PICK c \in {"runtostart", "runtoend"} : down[p] = <<c>>
    BY <1>5, ObeysWhat
  <2>2. /\ Head(down[p]) = c /\ Tail(down[p]) = <<>>
        /\ down[p] \in {<<>>, <<"runtoend">>} => c = "runtoend"
        /\ down[p] \in {<<>>, <<"runtostart">>} => c = "runtostart"
    BY <2>1
  <2>3. up'[p] = up[p] /\ proc'[p].is = c
    BY <2>2, ObeyFacts
  <2>4. up' = up
    BY <1>0, <2>3, ProcessFacts DEF Types
  <2>5. c \in Words \ {"beginrequests"}
    BY DEF Words
  <2> QED
    BY <1>1, <2>2, <2>3, <2>4, <2>5
<1>6. ASSUME pc = "pass"
      PROVE  /\ \A q, s, kind : HasStopped(q, s, kind)' = HasStopped(q, s, kind)
             /\ \A q \in Procs : Running(q)' = Running(q)
  BY <1>0, <1>5, <1>6 DEF HasStopped, Running, Silent, Said, Message
<1>7. InExperiment'
  <2>1. CASE pc = "request"
    <3>1. p = cur /\ Head(down[p]) = Head(todo) /\ up[p] = <<>> /\ todo \in Seq(Metrics \cup {"tuningaction"}) /\ todo # <<>>
      BY <2>1, ObeysWhat DEF Silent, Types, TypeOK
    <3>2. Head(todo) \in OkCommands
      BY <3>1 DEF OkCommands
    <3>3. up'[p] = Append(up[p], Message(p, "OK", {}))
      BY <3>1, <3>2, ObeyFacts
    <3>4. up'[p] # <<>>
      BY <3>1, <3>3
    <3>5. \A x \in ToSet(todo) : x = Head(todo) \/ x \in ToSet(Tail(todo))
      <4>1. ASSUME NEW i \in 1 .. Len(todo), i # 1
            PROVE  i - 1 \in 1 .. Len(Tail(todo)) /\ Tail(todo)[i - 1] = todo[i]
        BY <3>1, <4>1
      <4>2. Head(todo) = todo[1] /\ DOMAIN todo = 1 .. Len(todo)
        BY <3>1
      <4>3. DOMAIN Tail(todo) = 1 .. Len(Tail(todo))
        BY <3>1
      <4> QED
        BY <4>1, <4>2, <4>3 DEF ToSet
    <3>6. Unasked(p) = ToSet(todo) /\ Unasked(p)' = ToSet(Tail(todo))
      <4>1. p \in Int
        BY DEF Procs
      <4> QED
        BY <1>0, <3>1, <3>4, <4>1 DEF Unasked, Silent
    <3>7. case.wanted \subseteq Metrics
      BY CasesAssumption DEF Types, TypeOK
    <3>8. Head(todo) \notin Metrics => Head(todo) \in Words \ {"beginrequests"}
      BY <3>1 DEF Words
    <3>9. Due(p, proc[p].asked \cup Unasked(p)) => Due(p, proc[p].asked \cup Unasked(p))'
      BY <1>0, <1>1, <3>1, <3>5, <3>6, <3>7, <3>8 DEF Due
    <3>10. \A q \in Procs : q # p => (Due(q, proc[q].asked \cup Unasked(q)) => Due(q, proc[q].asked \cup Unasked(q))')
      BY <1>0 DEF Due, Unasked, Silent
    <3> QED
      BY <1>0, <2>1, <3>9, <3>10 DEF Measuring, InExperiment
  <2>2. CASE pc = "end"
    <3>1. proc'[p].asked = proc[p].asked
      BY <1>1, <2>2, ObeysWhat DEF Words
    <3>2. \A q \in Procs : Due(q, proc[q].asked) => Due(q, proc[q].asked)'
      BY <1>0, <3>1 DEF Due
    <3> QED
      BY <1>0, <2>2, <3>2 DEF Measuring, InExperiment
  <2>3. CASE pc = "pass"
    <3>1. \A q \in Procs : q # p => (Measured(q) => Measured(q)')
      BY <1>0, <1>6, <2>3 DEF Measured, Due
    <3>2. Measured(p) => Measured(p)'
      BY <1>0, <1>1, <1>5, <1>6, <2>3 DEF Measured, Due
    <3> QED
      BY <1>0, <2>3, <3>1, <3>2 DEF Measuring, InExperiment
  <2>4. CASE pc = "buffer"
    <3>1. \A q \in Procs : Received(q) => Received(q)'
      BY <1>0, <1>1 DEF Received, Due
    <3> QED
      BY <1>0, <1>3, <2>4, <3>1 DEF Measuring, InExperiment
  <2>5. CASE pc = "begin"
    BY <1>0, <2>5 DEF Measuring, InExperiment
  <2> QED
    BY <1>2, <2>1, <2>2, <2>3, <2>4, <2>5
<1>8. BetweenExperiments'
  BY <1>0, <1>2 DEF Measuring, BetweenExperiments
<1>9. Profiles'
  <2>1. \A i \in 1 .. Len(ahead) : ahead[i].from \in Procs
    <3>1. ahead \in Seq(Messages)
      BY DEF Types
    <3>2. \A i \in 1 .. Len(ahead) : ahead[i] \in Messages
      BY <3>1, ElementOfSeq
    <3> QED
      BY <3>2 DEF Messages
  <2>2. \A q \in Procs : proc'[q].measured = proc[q].measured
    BY <1>0, <1>1
  <2>3. up[p] \in Seq(Messages)
    BY DEF Types
  <2>4. ASSUME NEW i \in 1 .. Len(up'[p]), up'[p][i].kind = "FLAT_PROFILE"
        PROVE  up'[p][i].data = proc[p].measured
    <3>1. CASE up'[p] = up[p]
      BY <2>4, <3>1 DEF Measuring, Profiles
    <3>2. CASE up'[p] = Append(up[p], Message(p, "OK", {}))
      <4>1. i \in 1 .. Len(up[p]) /\ up'[p][i] = up[p][i]
        BY <2>3, <2>4, <3>2 DEF Message
      <4> QED
        BY <2>4, <4>1 DEF Measuring, Profiles
    <3>3. CASE pc = "buffer" /\ Head(down[p]) = "getsummarydata" /\ up'[p] = up[p] \o Summary(p)
      <4>1. up[p] = <<>>
        BY <3>3, ObeysWhat DEF Silent
      <4>2. up'[p] = Summary(p)
        BY <3>3, <4>1, SummaryFacts, ConcatEmptySeq
      <4>3. i \in DOMAIN Buffers
        <5>1. DOMAIN Buffers = 1 .. 5
          BY DEF Buffers
        <5>2. Len(up'[p]) = 5
          BY <4>2, SummaryFacts
        <5> QED
          BY <5>1, <5>2
      <4>4. Summary(p)[i] = Message(p, Buffers[i], IF Buffers[i] = "FLAT_PROFILE" THEN proc[p].measured ELSE {})
        BY <4>3 DEF Summary
      <4> QED
        BY <2>4, <4>2, <4>4 DEF Message
    <3>4. Head(down[p]) \in OkCommands \cup {"setnumiterations", "runtostart", "runtoend", "getsummarydata"}
      <4>1. down[p] \in Seq(Commands)
        BY DEF Types
      <4> QED
        BY <1>1, <4>1 DEF Commands, Words, OkCommands
    <3>5. Head(down[p]) = "getsummarydata" => pc = "buffer"
      <4>1. ~("getsummarydata" \in Metrics)
        BY CasesAssumption DEF Words
      <4>2. CASE pc = "begin"
        <5>1. AtBegin(p) /\ p \in Int /\ cur \in Int
          BY <4>2 DEF ProtocolOK, Procs, Types, TypeOK
        <5>2. down[p] \in {<<>>, <<"setnumiterations">>, <<"setnumiterations", "beginrequests">>, <<"beginrequests">>}
          BY <5>1 DEF AtBegin, Quiet, Asked, Waiting, Heard
        <5> QED
          BY <1>1, <5>2
      <4>3. CASE pc = "request"
        <5>1. Head(todo) \in Metrics \cup {"tuningaction"}
          BY <4>3 DEF Types, TypeOK
        <5> QED
          BY <4>1, <4>3, <5>1, ObeysWhat
      <4> QED
        BY <1>2, <4>2, <4>3, ObeysWhat
    <3> QED
      BY <3>1, <3>2, <3>3, <3>4, <3>5, ObeyFacts
  <2> QED
    BY <1>0, <2>1, <2>2, <2>4 DEF Measuring, Profiles
<1>10. Abandoned'
  BY <1>0, <1>1, ObeyFacts DEF Measuring, Abandoned, Dead
<1>11. Lasting'
  <2>1. CASE pc = "pass"
    <3>1. \A q \in Procs : Running(q) => (down[q] \in {<<>>, <<"runtostart">>} /\ proc[q].is # "runtoend"
                                            => down'[q] \in {<<>>, <<"runtostart">>} /\ proc'[q].is # "runtoend")
      BY <1>0, <1>5, <2>1
    <3> QED
      BY <1>0, <1>4, <1>6, <2>1, <3>1 DEF Measuring, Lasting, Steady
  <2>2. CASE pc # "pass"
    BY <1>0, <1>2, <1>3, <1>4, <2>2 DEF Measuring, Lasting, Steady
  <2> QED
    BY <2>1, <2>2
<1> QED
  BY <1>7, <1>8, <1>9, <1>10, <1>11 DEF Measuring

\* A process that stops tells how far it has got.
LEMMA StopMeasures ==
    ASSUME Types, ProtocolOK, Measuring, NEW p \in Procs, Process(p), Stop(p)
    PROVE  Measuring'
<1>0. /\ UNCHANGED <<case, order, runs, pc, cur, then, todo, received, state, requests, burst, gathered,
                     got, results, ahead>>
      /\ \A q \in Procs : q # p => proc'[q] = proc[q] /\ down'[q] = down[q] /\ up'[q] = up[q]
      /\ Count' = Count /\ Live' = Live /\ \A q, M : Due(q, M)' = Due(q, M)
  BY AgentRests
<1>1. /\ pc = "pass" /\ p >= cur /\ state[p] = "working" /\ ahead = <<>> /\ up[p] = <<>>
      /\ Running(p)
  BY StopsInPass DEF Silent, Running
<1>2. /\ proc'[p].asked = proc[p].asked /\ proc'[p].iterations = proc[p].iterations
      /\ proc[p].is \in {"runtostart", "runtoend"} /\ proc'[p].is = "suspended" /\ down'[p] = down[p]
  BY StopData, StopFacts
<1>3. PICK kind \in {"SUSPENDED", "SUSPENDEDATEND"} :
         /\ up'[p] = <<Message(p, kind, {})>>
         /\ kind = "SUSPENDED" =>
               /\ proc[p].is = "runtoend" => proc'[p].measured = proc[p].asked
               /\ proc[p].is = "runtostart" => case.endless \/ proc'[p].left >= 1
         /\ kind = "SUSPENDEDATEND" =>
               /\ proc[p].is = "runtoend" /\ ~case.userPhase => proc'[p].measured = proc[p].asked
               /\ proc[p].is = "runtoend" /\ case.userPhase =>
                     ~case.endless /\ proc[p].left < proc[p].iterations
  <2>1. \A m : Append(up[p], m) = <<m>>
    BY <1>1
  <2> QED
    BY <2>1, StopData
<1>4. \A q \in Procs : q # p => /\ \A s, k : HasStopped(q, s, k)' = HasStopped(q, s, k)
                                /\ Running(q)' = Running(q)
                                /\ Able(q)' = Able(q)
  BY <1>0 DEF HasStopped, Running, Silent, Said, Message, Able
<1>5. /\ ~Running(p)'
      /\ HasStopped(p, "suspended", "SUSPENDED")' => kind = "SUSPENDED"
      /\ HasStopped(p, "atend", "SUSPENDEDATEND")' => kind = "SUSPENDEDATEND"
  BY <1>0, <1>1, <1>3 DEF HasStopped, Running, Silent, Said, Message
<1>6. InExperiment'
  <2>1. CASE then = "evaluate"
    <3>1. Measured(p) /\ \A q \in Procs : Measured(q)
      BY <1>1, <2>1 DEF Measuring, InExperiment
    <3>2. proc[p].is = "runtoend" /\ Due(p, proc[p].asked)
      BY <1>1, <1>2, <3>1 DEF Measured
    <3>3. Measured(p)'
      BY <1>0, <1>2, <1>3, <1>5, <3>2 DEF Measured, Due
    <3>4. \A q \in Procs : q # p => Measured(q)'
      BY <1>0, <1>4, <3>1 DEF Measured, Due
    <3> QED
      BY <1>0, <1>1, <2>1, <3>3, <3>4 DEF Measuring, InExperiment
  <2>2. CASE then # "evaluate"
    BY <1>0, <1>1, <2>2 DEF Measuring, InExperiment
  <2> QED
    BY <2>1, <2>2
<1>7. BetweenExperiments'
  BY <1>0, <1>1 DEF Measuring, BetweenExperiments
<1>8. Profiles'
  <2>1. \A i \in 1 .. Len(up'[p]) : up'[p][i].kind # "FLAT_PROFILE"
    BY <1>3 DEF Message
  <2>2. \A q \in Procs : q # p => \A i \in 1 .. Len(up'[q]) :
           up'[q][i].kind = "FLAT_PROFILE" => up'[q][i].data = proc'[q].measured
    BY <1>0 DEF Measuring, Profiles
  <2>3. Len(ahead') = 0
    BY <1>0, <1>1
  <2> QED
    BY <2>1, <2>2, <2>3 DEF Profiles
<1>9. Abandoned'
  BY <1>0, <1>1 DEF Measuring, Abandoned, Dead
<1>10. Lasting'
  <2> SUFFICES ASSUME Steady PROVE Lasting'
    BY <1>0 DEF Lasting, Steady
  <2>1. /\ \A q \in Procs : case.endless \/ proc'[q].iterations = 1
        /\ \A q \in Procs : case.endless \/ proc[q].iterations = 1
    BY <1>0, <1>2 DEF Measuring, Lasting
  <2>2. CASE then = "evaluate"
    <3>1. /\ Able(p)
          /\ \A q \in Procs : ~HasStopped(q, "atend", "SUSPENDEDATEND") /\ (Running(q) => Able(q))
      BY <1>1, <2>2 DEF Measuring, Lasting
    <3>2. proc[p].is = "runtoend"
      BY <1>1, <1>2, <2>2 DEF Measuring, InExperiment, Measured
    <3>3. proc[p].left \in Int
      BY DEF Types, ProcessStates
    <3>4. kind # "SUSPENDEDATEND"
      BY <1>3, <3>1, <3>2, <3>3 DEF Able, Steady
    <3> QED
      BY <1>0, <1>1, <1>4, <1>5, <2>1, <2>2, <3>1, <3>4 DEF Lasting
  <2>3. CASE then # "evaluate"
    <3>1. \A q \in Procs : /\ HasStopped(q, "suspended", "SUSPENDED") => Able(q)
                           /\ Running(q) => proc[q].is # "runtoend" /\ down[q] \in {<<>>, <<"runtostart">>}
      BY <1>1, <2>3 DEF Measuring, Lasting
    <3>2. kind = "SUSPENDED" => Able(p)'
      BY <1>0, <1>1, <1>2, <1>3, <2>1, <3>1 DEF Able
    <3> QED
      BY <1>0, <1>1, <1>4, <1>5, <2>1, <2>3, <3>1, <3>2 DEF Lasting
  <2> QED
    BY <2>2, <2>3
<1> QED
  BY <1>6, <1>7, <1>8, <1>9, <1>10 DEF Measuring

\* Whatever a process does, nothing wanted gets lost.
LEMMA ProcessMeasures ==
    ASSUME NoTrace, Types, ProtocolOK, Measuring, NEW p \in Procs, Process(p)
    PROVE  Measuring'
BY NothingElse, DieMeasures, ObeyMeasures, StopMeasures

-----------------------------------------------------------------------------
(* The agent asks for measurements and receives them.                      *)

\* Between its blocking reads the agent takes none for working that is not dead.
LEMMA AtRest ==
    ASSUME Types, ProtocolOK, Measuring,
           \/ pc \notin {"begin", "request", "end", "pass", "buffer"} /\ ~(pc = "idle" /\ order = "reinit")
           \/ \E t : PassOver(t)
    PROVE  /\ ahead = <<>> /\ \A p \in Procs : Quiet(p)
           /\ \A p \in Procs : state[p] = "working" => Dead(p)
<1>1. CASE pc \notin {"begin", "request", "end", "pass", "buffer"} /\ ~(pc = "idle" /\ order = "reinit")
  BY <1>1, QuietBetween DEF Measuring, Abandoned
<1>2. CASE \E t : PassOver(t)
  <2>1. PICK t : PassOver(t)
    BY <1>2
  <2>2. \A p \in Procs : ~(p >= cur)
    BY <2>1, CasesAssumption DEF PassOver, Procs, Types, TypeOK
  <2> QED
    BY <2>1, <2>2, PassOverMeansQuiet DEF Measuring, Abandoned
<1> QED
  BY <1>1, <1>2

\* What a strategy wants depends on what it has asked for and received.
LEMMA LiveRests ==
    ASSUME UNCHANGED <<case, requestVars, resultVars>>
    PROVE  /\ Count' = Count /\ Live' = Live /\ \A q, M : Due(q, M)' = Due(q, M)
<1>1. UNCHANGED <<case, requests, burst, got, results>>
  BY DEF requestVars, resultVars
<1>2. \A q, M : Due(q, M)' = Due(q, M)
  BY <1>1 DEF Due
<1>3. Count' = Count
  BY <1>1 DEF Count
<1> QED
  BY <1>1, <1>2, <1>3 DEF Live, Due

\* addMeasurementRequest asks for all that is wanted.
LEMMA AddRequestsMeasures ==
    ASSUME Types, AddRequests, UNCHANGED case
    PROVE  Live'
<1>1. burst' = (IF case.burst > 0 THEN case.burst ELSE burst) /\ results' = 0 /\ requests' = requests \cup case.wanted
  BY DEF AddRequests
<1>2. case.burst \in Nat /\ burst \in Nat
  BY CasesAssumption DEF Types, TypeOK
<1> QED
  BY <1>1, <1>2 DEF Live, Count, Due

\* Nothing is on its way.
LEMMA NoProfiles ==
    ASSUME \A p \in Procs : up'[p] = <<>>, ahead' = <<>>
    PROVE  Profiles'
BY DEF Profiles

\* The agent begins to transfer the requests when no process is at its end.
LEMMA TransferMeasures ==
    ASSUME Types, ProtocolOK, Measuring, ahead = <<>>, \A p \in Procs : Quiet(p),
           \A p \in Procs : state[p] = "working" => Dead(p),
           Steady => \A p \in Procs : state[p] = "suspended" => Able(p),
           ~NeedRestart, Transfer, Live', UNCHANGED <<case, ahead, up, proc, state>>
    PROVE  Measuring'
<1>1. pc' = "begin" /\ cur' = 1
  BY DEF Transfer
<1>2. \A p \in Procs : up'[p] = <<>>
  BY DEF Quiet, Silent
<1>3. InExperiment' /\ BetweenExperiments'
  BY <1>1 DEF InExperiment, BetweenExperiments
<1>4. Profiles'
  BY <1>2, NoProfiles
<1>5. Abandoned'
  BY DEF Abandoned, Dead
<1>6. Steady => Doomed' \/ \A p \in Procs : Able(p)'
  <2>1. CASE \E p \in Procs : state[p] = "working"
    <3>1. PICK p \in Procs : state[p] = "working"
      BY <2>1
    <3>2. Dead(p)' /\ Silent(p)' /\ p >= cur'
      BY <1>1, <1>2, <3>1 DEF Dead, Silent, Procs
    <3> QED
      BY <3>2 DEF Doomed
  <2>2. CASE \A p \in Procs : state[p] # "working"
    <3>1. \A p \in Procs : state[p] = "suspended"
      BY <2>2 DEF NeedRestart, Types, TypeOK
    <3> QED
      BY <3>1 DEF Able
  <2> QED
    BY <2>1, <2>2
<1>7. Lasting'
  BY <1>1, <1>6 DEF Measuring, Lasting, Steady
<1> QED
  BY <1>3, <1>4, <1>5, <1>7 DEF Measuring

\* Every process is in the pass that RunTo begins.
LEMMA RunsAll ==
    ASSUME Types, NEW c, NEW t, RunTo(c, t)
    PROVE  /\ down' = ToAll(down, c) /\ state' = [p \in Procs |-> "working"] /\ pc' = "pass" /\ then' = t
           /\ \A p \in Procs : p >= cur'
<1>1. /\ down' = ToAll(down, c) /\ state' = [p \in Procs |-> "working"] /\ pc' = "pass" /\ then' = t
      /\ cur' = NextWorking(state', 1)
  BY DEF RunTo, StartPass
<1>2. cur' \in 1 .. NumProcs + 1 /\ \A q \in 1 .. NumProcs : q < cur' => state'[q] # "working"
  BY <1>1, NextWorkingFacts, CasesAssumption
<1>3. ASSUME NEW p \in Procs PROVE p >= cur'
  <2>1. p \in 1 .. NumProcs /\ state'[p] = "working" /\ NumProcs \in Nat
    BY <1>1, CasesAssumption DEF Procs
  <2> QED
    BY <1>2, <2>1
<1> QED
  BY <1>1, <1>3

\* The agent lets the processes run to the start of a phase.
LEMMA RunToStartMeasures ==
    ASSUME Types, Measuring, ahead = <<>>, \A p \in Procs : Quiet(p),
           NEW t, t # "evaluate", RunTo("runtostart", t), UNCHANGED <<case, ahead, up, proc>>
    PROVE  /\ pc' = "pass" /\ then' = t
           /\ Profiles' /\ Abandoned' /\ Lasting'
<1>1. /\ down' = ToAll(down, "runtostart") /\ state' = [p \in Procs |-> "working"] /\ pc' = "pass" /\ then' = t
      /\ \A p \in Procs : p >= cur'
  BY RunsAll
<1>2. \A p \in Procs : up'[p] = <<>> /\ Here(p) /\ down[p] = <<>>
  BY DEF Quiet, Silent, Heard
<1>3. \A p \in Procs : down'[p] \in {<<>>, <<"runtostart">>}
  <2>1. down \in [Procs -> Seq(Commands)] /\ "runtostart" \in Commands
    BY DEF Types, Commands, Words
  <2> QED
    BY <1>1, <1>2, <2>1, FirstCommand
<1>4. \A p \in Procs : ~HasStopped(p, "suspended", "SUSPENDED")'
  BY <1>1, <1>2 DEF HasStopped, Said
<1>5. Lasting'
  BY <1>1, <1>2, <1>3, <1>4 DEF Measuring, Lasting, Steady, Here
<1> QED
  BY <1>1, <1>2, <1>5, NoProfiles DEF Abandoned

\* It tells the frontend, and its processes stay where they are.
LEMMA TellMeasures ==
    ASSUME Measuring, ahead = <<>>, \A p \in Procs : Quiet(p),
           \A p \in Procs : state[p] = "working" => Dead(p),
           pc' \in {"idle", "aborted"},
           pc' = "idle" => order' \in {"needrestart", "searchfinished", "reqexperiment", "ready"},
           Steady /\ pc' = "idle" /\ order' # "needrestart" => \A p \in Procs : state[p] = "suspended" => Able(p),
           UNCHANGED <<case, ahead, up, proc, state>>
    PROVE  InExperiment' /\ Profiles' /\ Abandoned' /\ Lasting'
<1>1. InExperiment'
  BY DEF InExperiment
<1>2. Profiles'
  BY NoProfiles DEF Quiet, Silent
<1>3. Abandoned'
  BY DEF Abandoned, Dead
<1>4. Lasting'
  <2>1. \A p \in Procs : Able(p)' = Able(p)
    BY DEF Able
  <2> QED
    BY <2>1 DEF Measuring, Lasting, Steady
<1> QED
  BY <1>1, <1>2, <1>3, <1>4

\* A strategy starts anew, except where a process is at its end.
LEMMA StartSearchMeasures ==
    ASSUME Types, ProtocolOK, Measuring, ahead = <<>>, \A p \in Procs : Quiet(p),
           \A p \in Procs : state[p] = "working" => Dead(p),
           Steady => \A p \in Procs : state[p] = "suspended" => Able(p),
           case.delay = 0 => case.tuning \/ Live \/ \A p \in Procs : state[p] = "suspended",
           StartSearch,
           UNCHANGED <<frontendVars, then, executing, delays, state, todo, received, ahead, up, proc>>
    PROVE  Measuring'
<1>0. case.delay \in Nat /\ UNCHANGED case
  BY CasesAssumption DEF Types, TypeOK, frontendVars
<1>1. CASE NeedRestart
  <2>1. /\ order' = (IF case.delay > 0 THEN "searchfinished" ELSE "needrestart") /\ pc' = "idle"
        /\ UNCHANGED <<requestVars, resultVars>>
    BY <1>1 DEF StartSearch, Tell
  <2>2. Live' = Live
    BY <1>0, <2>1, LiveRests
  <2>3. ~(\A p \in Procs : state[p] = "suspended")
    BY <1>1 DEF NeedRestart
  <2>4. BetweenExperiments'
    BY <1>0, <2>1, <2>2, <2>3 DEF BetweenExperiments
  <2> QED
    BY <1>0, <2>1, <2>4, TellMeasures DEF Measuring
<1>2. CASE ~NeedRestart /\ Refused
  <2>1. pc' = "aborted"
    BY <1>2 DEF StartSearch, Abort
  <2>2. BetweenExperiments'
    BY <2>1 DEF BetweenExperiments
  <2> QED
    BY <1>0, <2>1, <2>2, TellMeasures DEF Measuring
<1>3. CASE ~NeedRestart /\ ~Refused
  <2>1. AddRequests /\ Transfer
    BY <1>3 DEF StartSearch
  <2> QED
    BY <1>0, <1>3, <2>1, AddRequestsMeasures, TransferMeasures
<1> QED
  BY <1>1, <1>2, <1>3

\* A phase is skipped, and nothing is measured in it.
LEMMA SkipPhaseMeasures ==
    ASSUME Types, Measuring, ahead = <<>>, \A p \in Procs : Quiet(p),
           NEW t \in {"delayed", "redelayed"}, NEW n, SkipPhase(t, n),
           t = "delayed" => case.delay > 0,
           t = "redelayed" => case.tuning \/ Live,
           UNCHANGED <<case, requestVars, resultVars, ahead, up, proc>>
    PROVE  Measuring'
<1>1. RunTo("runtostart", t)
  BY DEF SkipPhase
<1>2. pc' = "pass" /\ then' = t /\ Profiles' /\ Abandoned' /\ Lasting'
  BY <1>1, RunToStartMeasures
<1>3. Live' = Live
  BY LiveRests
<1>4. InExperiment' /\ BetweenExperiments'
  BY <1>2, <1>3 DEF InExperiment, BetweenExperiments
<1> QED
  BY <1>2, <1>4 DEF Measuring

\* "start": the strategy, or the delay phases before it.
LEMMA OnStartMeasures == ASSUME Types, ProtocolOK, Measuring, OnStart PROVE Measuring'
<1>0. /\ ahead = <<>> /\ \A p \in Procs : Quiet(p)
      /\ \A p \in Procs : state[p] = "working" => Dead(p)
      /\ pc = "idle" /\ order = "start" /\ UNCHANGED <<frontendVars, todo, received, ahead, up, proc>>
  BY AtRest DEF OnStart
<1>1. CASE case.delay > 0
  <2>1. SkipPhase("delayed", case.delay - 1) /\ UNCHANGED <<order, requestVars, resultVars>>
    BY <1>1 DEF OnStart
  <2> QED
    BY <1>0, <1>1, <2>1, SkipPhaseMeasures DEF frontendVars
<1>2. CASE ~(case.delay > 0)
  <2>1. StartSearch /\ UNCHANGED <<then, executing, delays, state>>
    BY <1>2 DEF OnStart
  <2>2. case.delay = 0 => case.tuning \/ Live \/ \A p \in Procs : state[p] = "suspended"
    BY <1>0 DEF Measuring, BetweenExperiments
  <2>3. Steady => \A p \in Procs : state[p] = "suspended" => Able(p)
    BY <1>0 DEF Measuring, Lasting
  <2> QED
    BY <1>0, <2>1, <2>2, <2>3, StartSearchMeasures
<1> QED
  BY <1>1, <1>2

\* After a delay phase the strategy starts, where no process is at its end.
LEMMA DelayedMeasures == ASSUME Types, ProtocolOK, Measuring, Delayed PROVE Measuring'
<1>0. /\ ahead = <<>> /\ \A p \in Procs : Quiet(p)
      /\ \A p \in Procs : state[p] = "working" => Dead(p)
      /\ pc = "pass" /\ then = "delayed" /\ UNCHANGED <<frontendVars, todo, received, ahead, up, proc>>
  BY AtRest DEF Delayed, PassOver
<1>1. case.delay > 0
  BY <1>0 DEF Measuring, BetweenExperiments
<1>2. CASE delays > 0
  <2>1. SkipPhase("delayed", delays - 1) /\ UNCHANGED <<order, requestVars, resultVars>>
    BY <1>2 DEF Delayed
  <2> QED
    BY <1>0, <1>1, <2>1, SkipPhaseMeasures DEF frontendVars
<1>3. CASE ~(delays > 0)
  <2>1. StartSearch /\ UNCHANGED <<then, executing, delays, state>>
    BY <1>3 DEF Delayed
  <2>2. Steady => \A p \in Procs : state[p] = "suspended" => Able(p)
    BY <1>0 DEF Measuring, Lasting, HasStopped
  <2> QED
    BY <1>0, <1>1, <2>1, <2>2, StartSearchMeasures
<1> QED
  BY <1>2, <1>3

\* "startexperiment": the requests left are transferred.
LEMMA OnStartExperimentMeasures == ASSUME Types, ProtocolOK, Measuring, OnStartExperiment PROVE Measuring'
<1>0. /\ ahead = <<>> /\ \A p \in Procs : Quiet(p)
      /\ \A p \in Procs : state[p] = "working" => Dead(p)
      /\ pc = "idle" /\ order = "startexperiment"
      /\ UNCHANGED <<case, then, state, requestVars, resultVars, ahead, up, proc>>
  BY AtRest DEF OnStartExperiment, frontendVars
<1>1. Live /\ Live' = Live
  BY <1>0, LiveRests DEF Measuring, BetweenExperiments
<1>2. Steady => \A p \in Procs : state[p] = "suspended" => Able(p)
  BY <1>0 DEF Measuring, Lasting
<1>3. CASE NeedRestart
  <2>1. order' = "needrestart" /\ pc' = "idle"
    BY <1>3 DEF OnStartExperiment, Tell
  <2>2. BetweenExperiments'
    BY <1>1, <2>1 DEF BetweenExperiments
  <2> QED
    BY <1>0, <2>1, <2>2, TellMeasures DEF Measuring
<1>4. CASE ~NeedRestart
  BY <1>0, <1>1, <1>2, <1>4, TransferMeasures DEF OnStartExperiment
<1> QED
  BY <1>3, <1>4

\* After a restart the processes of the new run go through the delay phases.
LEMMA OnReinitMeasures == ASSUME Types, ProtocolOK, Measuring, OnReinit PROVE Measuring'
<1>0. /\ ahead = <<>> /\ \A p \in Procs : Quiet(p)
      /\ pc = "idle" /\ order = "reinit"
      /\ UNCHANGED <<case, requestVars, resultVars, ahead, up, proc>>
  BY QuietBetween DEF OnReinit, frontendVars
<1>1. case.tuning \/ Live
  BY <1>0 DEF Measuring, BetweenExperiments
<1>2. CASE case.delay > 0
  BY <1>0, <1>1, <1>2, SkipPhaseMeasures DEF OnReinit
<1>3. CASE ~(case.delay > 0)
  <2>1. order' = "ready" /\ pc' = "idle" /\ state' = [p \in Procs |-> "suspended"]
    BY <1>3 DEF OnReinit, Tell
  <2>2. Live' = Live
    BY <1>0, LiveRests
  <2>3. InExperiment' /\ BetweenExperiments'
    BY <1>0, <1>1, <2>1, <2>2 DEF InExperiment, BetweenExperiments
  <2>4. Profiles'
    BY <1>0, NoProfiles DEF Quiet, Silent
  <2>5. Abandoned'
    BY <2>1 DEF Abandoned
  <2>6. Lasting'
    <3>1. \A p \in Procs : Able(p)' = Able(p)
      BY <1>0 DEF Able
    <3> QED
      BY <1>0, <2>1, <3>1 DEF Measuring, Lasting, Steady
  <2> QED
    BY <2>3, <2>4, <2>5, <2>6 DEF Measuring
<1> QED
  BY <1>2, <1>3

\* After the last of these, the experiment is repeated, or the scenario sent again.
LEMMA RedelayedMeasures == ASSUME Types, ProtocolOK, Measuring, Redelayed PROVE Measuring'
<1>0. /\ ahead = <<>> /\ \A p \in Procs : Quiet(p)
      /\ \A p \in Procs : state[p] = "working" => Dead(p)
      /\ pc = "pass" /\ then = "redelayed" /\ UNCHANGED <<case, requestVars, resultVars, ahead, up, proc>>
  BY AtRest DEF Redelayed, PassOver, frontendVars
<1>1. case.tuning \/ Live
  BY <1>0 DEF Measuring, BetweenExperiments
<1>2. CASE delays > 0
  BY <1>0, <1>1, <1>2, SkipPhaseMeasures DEF Redelayed
<1>3. CASE ~(delays > 0)
  <2>1. order' = "ready" /\ pc' = "idle" /\ UNCHANGED state
    BY <1>3 DEF Redelayed, Tell
  <2>2. Live' = Live
    BY <1>0, LiveRests
  <2>3. BetweenExperiments'
    BY <1>0, <1>1, <2>1, <2>2 DEF BetweenExperiments
  <2>4. Steady => \A p \in Procs : state[p] = "suspended" => Able(p)
    BY <1>0 DEF Measuring, Lasting, HasStopped
  <2> QED
    BY <1>0, <2>1, <2>3, <2>4, TellMeasures DEF Measuring
<1> QED
  BY <1>2, <1>3

\* The results of an experiment are complete when the last process has given them.
LEMMA ResultsMeasures == ASSUME Types, ProtocolOK, Measuring, Results PROVE Measuring'
<1>0. /\ ahead = <<>> /\ \A p \in Procs : Quiet(p)
      /\ \A p \in Procs : state[p] = "working" => Dead(p)
      /\ pc = "results" /\ UNCHANGED <<case, got, ahead, up, proc>>
  BY AtRest DEF Results, frontendVars
<1>1. Live
  BY <1>0 DEF Measuring, InExperiment
<1>2. Live' /\ (gathered' => requests' = {} /\ burst' = 0)
  <2>1. /\ burst' = Counted(burst) /\ results' = results + 1
        /\ gathered' = (requests = {} /\ burst' = 0)
        /\ requests' = IF requests = {} /\ burst' > 0 THEN backup ELSE requests
    BY Zenon DEF Results
  <2>2. burst \in Nat /\ results \in Nat /\ case.burst \in Nat
    BY CasesAssumption DEF Types, TypeOK
  <2>3. burst' \in Nat /\ burst' + 1 >= burst
    BY <2>1, <2>2 DEF Counted
  <2>4. Count'
    BY <1>0, <1>1, <2>1, <2>2, <2>3 DEF Live, Count
  <2>5. \A p \in Procs : Due(p, {})'
    BY <1>0, <1>1, <2>1 DEF Live, Due
  <2>6. gathered' => requests' = {} /\ burst' = 0
    <3> SUFFICES ASSUME gathered' PROVE requests' = {} /\ burst' = 0
      OBVIOUS
    <3>1. requests = {} /\ burst' = 0
      BY <2>1, Zenon
    <3>2. ~(burst' > 0)
      BY <3>1
    <3> QED
      BY <2>1, <3>1, <3>2, Zenon
  <2> QED
    BY <2>4, <2>5, <2>6 DEF Live
<1>3. CASE NeedRestart
  <2>1. pc' = "verdict" /\ UNCHANGED state
    BY <1>3 DEF Results
  <2>2. InExperiment' /\ BetweenExperiments'
    BY <1>2, <2>1 DEF InExperiment, BetweenExperiments
  <2>3. Profiles'
    BY <1>0, NoProfiles DEF Quiet, Silent
  <2>4. Abandoned'
    BY <1>0, <2>1 DEF Abandoned, Dead
  <2>5. ~Steady
    BY <1>0, <1>3 DEF Measuring, Lasting, NeedRestart
  <2>6. Lasting'
    BY <1>0, <2>5 DEF Lasting, Steady
  <2> QED
    BY <2>2, <2>3, <2>4, <2>6 DEF Measuring
<1>4. CASE ~NeedRestart
  <2>1. RunTo("runtostart", "tostart")
    BY <1>4 DEF Results
  <2>2. pc' = "pass" /\ then' = "tostart" /\ Profiles' /\ Abandoned' /\ Lasting'
    BY <1>0, <2>1, RunToStartMeasures
  <2>3. InExperiment' /\ BetweenExperiments'
    BY <1>2, <2>2 DEF InExperiment, BetweenExperiments
  <2> QED
    BY <2>2, <2>3 DEF Measuring
<1> QED
  BY <1>3, <1>4

\* At the start of the next phase the results are evaluated.
LEMMA AtStartMeasures == ASSUME Types, ProtocolOK, Measuring, AtStart PROVE Measuring'
<1>0. /\ ahead = <<>> /\ \A p \in Procs : Quiet(p)
      /\ \A p \in Procs : state[p] = "working" => Dead(p)
      /\ pc = "pass" /\ then = "tostart" /\ pc' = "verdict"
      /\ UNCHANGED <<case, state, requestVars, resultVars, ahead, up, proc>>
  BY AtRest DEF AtStart, PassOver, frontendVars, streamVars
<1>1. Live' = Live /\ UNCHANGED <<requests, burst, gathered>>
  BY <1>0, LiveRests DEF requestVars, resultVars
<1>2. InExperiment' /\ BetweenExperiments'
  BY <1>0, <1>1 DEF Measuring, InExperiment, BetweenExperiments
<1>3. Profiles'
  BY <1>0, NoProfiles DEF Quiet, Silent
<1>4. Abandoned'
  BY <1>0 DEF Abandoned, Dead
<1>5. Lasting'
  <2>1. \A p \in Procs : Able(p)' = Able(p)
    BY <1>0 DEF Able
  <2> QED
    BY <1>0, <2>1 DEF Measuring, Lasting, Steady, HasStopped
<1> QED
  BY <1>2, <1>3, <1>4, <1>5 DEF Measuring

\* The next step of the strategy asks for all it wants; the results before count no more.
LEMMA VerdictMeasures == ASSUME Types, ProtocolOK, Measuring, Verdict PROVE Measuring'
<1>0. /\ ahead = <<>> /\ \A p \in Procs : Quiet(p)
      /\ \A p \in Procs : state[p] = "working" => Dead(p)
      /\ pc = "verdict" /\ UNCHANGED <<case, state, ahead, up, proc>>
  BY AtRest DEF Verdict, frontendVars, streamVars
<1>1. Live /\ (Steady => \A p \in Procs : state[p] = "suspended" => Able(p))
  BY <1>0 DEF Measuring, InExperiment, Lasting
<1>2. /\ pc' = "aborted" \/ (pc' = "idle" /\ order' \in {"needrestart", "searchfinished", "reqexperiment"})
      /\ UNCHANGED <<requestVars, resultVars>> \/ AddRequests
  BY DEF Verdict, AppropriateRequest, Tell, Abort
<1>3. Live'
  BY <1>0, <1>1, <1>2, LiveRests, AddRequestsMeasures
<1>4. BetweenExperiments'
  BY <1>2, <1>3 DEF BetweenExperiments
<1> QED
  BY <1>0, <1>1, <1>2, <1>4, TellMeasures DEF Measuring

\* The requests of a set are all in the order chosen for them.
LEMMA SetToSeqCovers ==
    ASSUME NEW S, IsFiniteSet(S)
    PROVE  S \subseteq ToSet(SetToSeq(S))
<1> DEFINE n == Cardinality(S)
           f == SetToSeq(S)
<1>1. PICK g \in [1 .. n -> S] : IsInjective(g)
  <2>1. n \in Nat /\ \E g : g \in Bijection(1 .. n, S)
    BY FS_CardinalityType DEF ExistsBijection
  <2> QED
    BY <2>1 DEF Bijection, Injection, IsInjective
<1>2. f \in [1 .. n -> S] /\ IsInjective(f) /\ n \in Nat
  BY <1>1, FS_CardinalityType DEF SetToSeq
<1> HIDE DEF f
<1>3. f \in Injection(1 .. n, S)
  BY <1>2 DEF Injection, IsInjective
<1>4. Cardinality(1 .. n) = n
  BY <1>2, FS_Interval
<1>5. f \in Surjection(1 .. n, S)
  BY <1>3, <1>4, FS_Injection
<1>6. \A x \in S : \E i \in DOMAIN f : f[i] = x
  BY <1>2, <1>5 DEF Surjection
<1> QED
  BY <1>6 DEF ToSet, f

\* The agent takes the OK of one process, and nothing else.
LEMMA TheOk ==
    ASSUME Types, ProtocolOK, Measuring, NEW at \in {"begin", "request", "end"}, AwaitsOk(at),
           UNCHANGED proc
    PROVE  /\ Line.kind = "OK" /\ ahead = <<>> /\ ahead' = <<>> /\ pc = at /\ cur \in Procs /\ cur \in Int
           /\ up[cur] # <<>> /\ up'[cur] = <<>> /\ \A p \in Procs : p # cur => up'[p] = up[p]
           /\ Here(cur) /\ Heard(cur)
           /\ Profiles' /\ \A p \in Procs : state[p] = "working" => Dead(p)
<1>0. /\ pc = at /\ CanRead /\ Read /\ ahead = <<>> /\ cur \in Procs /\ cur \in Int
      /\ \A p \in Procs : state[p] = "working" => Dead(p)
  BY DEF AwaitsOk, ProtocolOK, Types, TypeOK, Measuring, Abandoned
<1>1. PICK cs : Asked(cur, cs)
  BY <1>0 DEF ProtocolOK, AtBegin, AtRequest, AtEndRequests
<1>2. /\ Line.kind = "OK" /\ ahead' = <<>> /\ up'[cur] = <<>>
      /\ \A p \in Procs : p # cur => up'[p] = up[p]
      /\ Here(cur) /\ Heard(cur)
  BY <1>0, <1>1, TakesOk
<1>3. Profiles'
  BY <1>2 DEF Measuring, Profiles
<1> QED
  BY <1>0, <1>2, <1>3 DEF CanRead

\* What is not asked for yet is asked of every process.
LEMMA SendNextMeasures ==
    ASSUME Types, Measuring, \A p \in Procs : up'[p] = <<>>, Profiles',
           \A p \in Procs : state[p] = "working" => Dead(p),
           Steady => \A p \in Procs : Able(p),
           NEW list, SendNext(list), UNCHANGED <<case, state, proc, got>>, Count',
           \A p \in Procs : case.wanted \subseteq got[p] \cup requests' \cup proc[p].asked \cup ToSet(list)
    PROVE  Measuring'
<1>1. /\ todo' = list /\ cur' = 1 /\ pc' \in {"request", "end"}
      /\ pc' = "end" => list = <<>>
  BY DEF SendNext
<1>2. \A p \in Procs : Unasked(p)' = ToSet(list)
  BY <1>1 DEF Unasked, Silent, Procs
<1>3. ToSet(<<>>) = {}
  BY DEF ToSet
<1>4. \A p \in Procs : Due(p, proc[p].asked \cup Unasked(p))'
  BY <1>2 DEF Due
<1>5. pc' = "end" => \A p \in Procs : Due(p, proc[p].asked)'
  BY <1>1, <1>3 DEF Due
<1>6. InExperiment' /\ BetweenExperiments'
  BY <1>1, <1>4, <1>5 DEF InExperiment, BetweenExperiments
<1>7. Abandoned'
  BY DEF Abandoned, Dead
<1>8. Lasting'
  BY <1>1 DEF Measuring, Lasting, Steady, Able
<1> QED
  BY <1>6, <1>7, <1>8 DEF Measuring

\* formRequestSet leaves what it does not choose.
LEMMA BeginRequestsOkMeasures == ASSUME Types, ProtocolOK, Measuring, BeginRequestsOk PROVE Measuring'
<1>0. AwaitsOk("begin") /\ UNCHANGED <<case, got, results, proc>>
  BY DEF BeginRequestsOk, frontendVars, resultVars
<1>1. /\ Line.kind = "OK" /\ ahead = <<>> /\ ahead' = <<>> /\ pc = "begin" /\ cur \in Procs /\ cur \in Int
      /\ up[cur] # <<>> /\ up'[cur] = <<>> /\ \A p \in Procs : p # cur => up'[p] = up[p]
      /\ Profiles' /\ \A p \in Procs : state[p] = "working" => Dead(p)
  BY <1>0, TheOk
<1>2. Live /\ (Steady => Doomed \/ \A p \in Procs : Able(p))
  BY <1>1 DEF Measuring, InExperiment, Lasting
<1>3. CASE cur = NumProcs
  <2>1. SendRequests
    BY <1>1, <1>3 DEF BeginRequestsOk
  <2>2. PICK chosen \in RequestSets :
           /\ requests' = Unsubmitted(chosen)
           /\ SendNext((IF tuning THEN <<"tuningaction">> ELSE <<>>) \o SetToSeq(chosen))
    BY <2>1 DEF SendRequests
  <2> DEFINE list == (IF tuning THEN <<"tuningaction">> ELSE <<>>) \o SetToSeq(chosen)
  <2>3. chosen \subseteq ToSet(list)
    <3>1. IsFiniteSet(chosen)
      <4>1. chosen \subseteq requests /\ requests \subseteq Metrics
        BY DEF RequestSets, InSet, Types, TypeOK
      <4> QED
        BY <4>1, CasesAssumption, FS_Subset
    <3>2. SetToSeq(chosen) \in Seq(chosen) /\ chosen \subseteq ToSet(SetToSeq(chosen))
      BY <3>1, SetToSeqType, SetToSeqCovers
    <3>3. ASSUME NEW s \in Seq({"tuningaction"}), NEW t \in Seq(chosen), NEW x \in ToSet(t) PROVE x \in ToSet(s \o t)
      <4>1. PICK i \in 1 .. Len(t) : x = t[i]
        BY DEF ToSet
      <4>2. s \o t \in Seq({"tuningaction"} \cup chosen)
        OBVIOUS
      <4>3. Len(s) + i \in 1 .. Len(s \o t) /\ (s \o t)[Len(s) + i] = t[i]
        OBVIOUS
      <4>4. Len(s) + i \in DOMAIN (s \o t)
        BY <4>2, <4>3, LenProperties
      <4> QED
        BY <4>1, <4>3, <4>4 DEF ToSet
    <3>4. (IF tuning THEN <<"tuningaction">> ELSE <<>>) \in Seq({"tuningaction"})
      <4>1. <<"tuningaction">> \in Seq({"tuningaction"})
        OBVIOUS
      <4>2. <<>> \in Seq({"tuningaction"})
        OBVIOUS
      <4> QED
        BY <4>1, <4>2, Zenon
    <3> QED
      BY <3>2, <3>3, <3>4
  <2> HIDE DEF list
  <2>4. \A p \in Procs : up'[p] = <<>>
    <3>1. \A p \in Procs : p < cur => Quiet(p)
      BY <1>1 DEF ProtocolOK, AtBegin
    <3>2. \A p \in Procs : p # cur => p < cur
      BY <1>3, CasesAssumption DEF Procs
    <3> QED
      BY <1>1, <3>1, <3>2 DEF Quiet, Silent
  <2>5. ~Doomed
    BY <1>1, <1>3, CasesAssumption DEF Doomed, Silent, Procs
  <2>6. UNCHANGED <<burst, state>>
    BY <2>1 DEF SendRequests
  <2>7. Count'
    BY <1>0, <1>2, <2>6 DEF Live, Count
  <2>8. \A p \in Procs : case.wanted \subseteq got[p] \cup requests' \cup proc[p].asked \cup ToSet(list)
    BY <1>2, <2>2, <2>3 DEF Live, Due, Unsubmitted
  <2>9. SendNext(list)
    BY <2>2 DEF list
  <2> QED
    BY <1>0, <1>1, <1>2, <2>4, <2>5, <2>6, <2>7, <2>8, <2>9, SendNextMeasures
<1>4. CASE cur # NumProcs
  <2>1. cur' = cur + 1 /\ UNCHANGED <<pc, then, todo, state, requestVars>>
    BY <1>1, <1>4 DEF BeginRequestsOk
  <2>2. Live'
    BY <1>0, <1>2, <2>1 DEF Live, Count, Due, requestVars
  <2>3. Doomed => Doomed'
    <3> SUFFICES ASSUME NEW q \in Procs, q >= cur, Dead(q), Silent(q), q = cur => ahead = <<>>
                 PROVE  Doomed'
      BY DEF Doomed
    <3>1. q # cur /\ q \in Int
      BY <1>1 DEF Silent, Procs
    <3>2. q >= cur' /\ Dead(q)' /\ Silent(q)'
      BY <1>0, <1>1, <2>1, <3>1 DEF Dead, Silent
    <3> QED
      BY <1>1, <3>2 DEF Doomed
  <2>4. InExperiment' /\ BetweenExperiments'
    BY <1>1, <2>1, <2>2 DEF InExperiment, BetweenExperiments
  <2>5. Abandoned'
    BY <1>0, <1>1, <2>1 DEF Abandoned, Dead
  <2>6. Lasting'
    BY <1>0, <1>1, <1>2, <2>1, <2>3 DEF Measuring, Lasting, Steady, Able
  <2> QED
    BY <1>1, <2>4, <2>5, <2>6 DEF Measuring
<1> QED
  BY <1>3, <1>4

\* A process that has acknowledged a request keeps it to the end of the experiment.
LEMMA RequestOkMeasures == ASSUME Types, ProtocolOK, Measuring, RequestOk PROVE Measuring'
<1>0. AwaitsOk("request") /\ UNCHANGED <<case, got, results, proc>>
  BY DEF RequestOk, frontendVars, resultVars
<1>1. /\ Line.kind = "OK" /\ ahead = <<>> /\ ahead' = <<>> /\ pc = "request" /\ cur \in Procs /\ cur \in Int
      /\ up[cur] # <<>> /\ up'[cur] = <<>> /\ \A p \in Procs : p # cur => up'[p] = up[p]
      /\ Profiles' /\ \A p \in Procs : state[p] = "working" => Dead(p)
  BY <1>0, TheOk
<1>2. /\ Count /\ \A p \in Procs : Due(p, proc[p].asked \cup Unasked(p))
      /\ Steady => \A p \in Procs : Able(p)
  BY <1>1 DEF Measuring, InExperiment, Lasting
<1>3. \A p \in Procs : p # cur => up[p] = <<>>
  BY <1>1 DEF ProtocolOK, AtRequest, Quiet, Silent
<1>4. \A p \in Procs : up'[p] = <<>>
  BY <1>1, <1>3
<1>5. CASE cur = NumProcs
  <2>1. SendNext(Tail(todo)) /\ UNCHANGED <<state, requestVars>>
    BY <1>1, <1>5 DEF RequestOk
  <2>2. \A p \in Procs : Unasked(p) = ToSet(Tail(todo))
    BY <1>1, <1>5, CasesAssumption DEF Unasked, Silent, Procs
  <2>3. Count' /\ \A p \in Procs : case.wanted \subseteq got[p] \cup requests' \cup proc[p].asked \cup ToSet(Tail(todo))
    BY <1>0, <1>2, <2>1, <2>2 DEF Count, Due, requestVars
  <2> DEFINE list == Tail(todo)
  <2>4. SendNext(list) /\ \A p \in Procs : case.wanted \subseteq got[p] \cup requests' \cup proc[p].asked \cup ToSet(list)
    BY <2>1, <2>3
  <2> HIDE DEF list
  <2> QED
    BY <1>0, <1>1, <1>2, <1>4, <2>1, <2>3, <2>4, SendNextMeasures
<1>6. CASE cur # NumProcs
  <2>1. cur' = cur + 1 /\ UNCHANGED <<pc, then, todo, state, requestVars>>
    BY <1>1, <1>6 DEF RequestOk
  <2>2. ASSUME NEW p \in Procs PROVE Unasked(p)' = Unasked(p)
    <3>1. p \in Int
      BY DEF Procs
    <3>2. (p < cur' \/ (p = cur' /\ ~Silent(p)')) <=> (p < cur \/ (p = cur /\ ~Silent(p)))
      BY <1>1, <1>4, <2>1, <3>1 DEF Silent
    <3> QED
      BY <2>1, <3>2 DEF Unasked
  <2>3. Count' /\ \A p \in Procs : Due(p, proc[p].asked \cup Unasked(p))'
    BY <1>0, <1>2, <2>1, <2>2 DEF Count, Due, requestVars
  <2>4. InExperiment' /\ BetweenExperiments'
    BY <1>1, <2>1, <2>3 DEF InExperiment, BetweenExperiments
  <2>5. Abandoned'
    BY <1>0, <1>1, <2>1 DEF Abandoned, Dead
  <2>6. Lasting'
    BY <1>0, <1>1, <1>2, <2>1 DEF Measuring, Lasting, Steady, Able
  <2> QED
    BY <1>1, <2>4, <2>5, <2>6 DEF Measuring
<1> QED
  BY <1>5, <1>6

\* The experiment starts when every process has been asked for its part.
LEMMA EndRequestsOkMeasures == ASSUME Types, ProtocolOK, Measuring, EndRequestsOk PROVE Measuring'
<1>0. AwaitsOk("end") /\ UNCHANGED <<case, got, results, proc>>
  BY DEF EndRequestsOk, frontendVars, resultVars
<1>1. /\ Line.kind = "OK" /\ ahead = <<>> /\ ahead' = <<>> /\ pc = "end" /\ cur \in Procs /\ cur \in Int
      /\ up[cur] # <<>> /\ up'[cur] = <<>> /\ \A p \in Procs : p # cur => up'[p] = up[p]
      /\ Here(cur) /\ Heard(cur)
      /\ Profiles' /\ \A p \in Procs : state[p] = "working" => Dead(p)
  BY <1>0, TheOk
<1>2. /\ Count /\ \A p \in Procs : Due(p, proc[p].asked)
      /\ Steady => \A p \in Procs : Able(p)
  BY <1>1 DEF Measuring, InExperiment, Lasting
<1>3. UNCHANGED requestVars
  BY <1>1 DEF EndRequestsOk
<1>4. Count' /\ \A p \in Procs : Due(p, proc[p].asked)'
  BY <1>0, <1>2, <1>3 DEF Count, Due, requestVars
<1>5. CASE cur = NumProcs
  <2>1. RunTo("runtoend", "evaluate")
    BY <1>1, <1>5 DEF EndRequestsOk
  <2>2. /\ down' = ToAll(down, "runtoend") /\ state' = [p \in Procs |-> "working"] /\ pc' = "pass"
        /\ then' = "evaluate" /\ \A p \in Procs : p >= cur'
    BY <2>1, RunsAll
  <2>3. \A p \in Procs : up'[p] = <<>> /\ Here(p) /\ down[p] = <<>>
    <3>1. \A p \in Procs : p # cur => Quiet(p)
      BY <1>1, <1>5, CasesAssumption DEF ProtocolOK, AtEndRequests, Procs
    <3> QED
      BY <1>1, <3>1 DEF Quiet, Silent, Heard
  <2>4. \A p \in Procs : down'[p] \in {<<>>, <<"runtoend">>}
    <3>1. down \in [Procs -> Seq(Commands)] /\ "runtoend" \in Commands
      BY DEF Types, Commands, Words
    <3> QED
      BY <2>2, <2>3, <3>1, FirstCommand
  <2>5. \A p \in Procs : ~HasStopped(p, "suspended", "SUSPENDED")' /\ ~HasStopped(p, "atend", "SUSPENDEDATEND")'
    BY <2>2, <2>3 DEF HasStopped, Said
  <2>6. \A p \in Procs : Measured(p)'
    BY <1>0, <1>4, <2>3, <2>4, <2>5 DEF Measured, Here
  <2>7. InExperiment' /\ BetweenExperiments'
    BY <1>4, <2>2, <2>6 DEF InExperiment, BetweenExperiments
  <2>8. Abandoned'
    BY <2>2 DEF Abandoned
  <2>9. Lasting'
    BY <1>0, <1>2, <2>2, <2>5 DEF Measuring, Lasting, Steady, Able
  <2> QED
    BY <1>1, <2>7, <2>8, <2>9 DEF Measuring
<1>6. CASE cur # NumProcs
  <2>1. cur' = cur + 1 /\ UNCHANGED <<pc, then, state>>
    BY <1>1, <1>6 DEF EndRequestsOk
  <2>2. InExperiment' /\ BetweenExperiments'
    BY <1>1, <1>4, <2>1 DEF InExperiment, BetweenExperiments
  <2>3. Abandoned'
    BY <1>0, <1>1, <2>1 DEF Abandoned, Dead
  <2>4. Lasting'
    BY <1>0, <1>1, <1>2, <2>1 DEF Measuring, Lasting, Steady, Able
  <2> QED
    BY <1>1, <2>2, <2>3, <2>4 DEF Measuring
<1> QED
  BY <1>5, <1>6

\* The agent takes a process for what it has said.
LEMMA PassReadsMeasures == ASSUME Types, ProtocolOK, Measuring, PassReads PROVE Measuring'
<1>0. /\ pc = "pass" /\ cur \in Procs /\ cur \in Int /\ ahead = <<>> /\ state[cur] = "working" /\ Stopping(cur)
      /\ state \in [Procs -> {"working", "suspended", "atend"}]
      /\ cur' = NextWorking(state', cur + 1)
      /\ UNCHANGED <<case, runs, order, pc, then, requestVars, resultVars, down, proc>>
  <2>1. pc = "pass" /\ cur \in Procs /\ cur \in Int
    BY DEF PassReads, Procs
  <2>2. InPass(cur) /\ ahead = <<>> /\ state[cur] = "working"
    BY <2>1 DEF ProtocolOK
  <2> QED
    BY <2>1, <2>2 DEF InPass, PassReads, Types, TypeOK, frontendVars
<1>1. /\ ahead' = <<>> /\ up'[cur] \in {up[cur], <<>>}
      /\ \A p \in Procs : p # cur => up'[p] = up[p] /\ state'[p] = state[p]
      /\ state'[cur] = "working" => Dead(cur) /\ up' = up
      /\ state'[cur] # "working" => up'[cur] = <<>>
      /\ state'[cur] = "suspended" => Said(cur, {"SUSPENDED"})
      /\ state'[cur] = "atend" => Said(cur, {"SUSPENDEDATEND"})
  <2>1. CASE /\ CanRead /\ Read
             /\ state' = [state EXCEPT ![cur] = IF Line.kind = "SUSPENDED" THEN "suspended"
                                                ELSE IF Line.kind = "SUSPENDEDATEND" THEN "atend" ELSE @]
    <3>1. PICK kind \in {"SUSPENDED", "SUSPENDEDATEND"} : up[cur] = <<Message(cur, kind, {})>>
      BY <1>0, <2>1 DEF Stopping, Silent, Said, CanRead
    <3>2. /\ Line.kind = kind /\ ahead' = <<>> /\ up'[cur] = <<>>
          /\ \A p \in Procs : p # cur => up'[p] = up[p]
      BY <1>0, <2>1, <3>1, TakesOnly DEF Message
    <3> QED
      BY <1>0, <2>1, <3>1, <3>2 DEF Said
  <2>2. CASE Eof /\ UNCHANGED <<state, ahead, up>>
    BY <1>0, <2>2 DEF Eof, Dead
  <2> QED
    BY <2>1, <2>2 DEF PassReads
<1>2. \A q \in cur + 1 .. NumProcs : q < cur' => state'[q] # "working"
  <2>1. cur + 1 \in 1 .. NumProcs + 1
    BY <1>0, CasesAssumption DEF Procs
  <2> QED
    BY <1>0, <2>1, NextWorkingFacts
<1>3. ASSUME NEW p \in Procs
      PROVE  /\ HasStopped(p, "suspended", "SUSPENDED")' => HasStopped(p, "suspended", "SUSPENDED")
             /\ HasStopped(p, "atend", "SUSPENDEDATEND")' => HasStopped(p, "atend", "SUSPENDEDATEND")
             /\ Running(p)' => Running(p)
  <2>1. CASE p = cur
    BY <1>0, <1>1, <2>1 DEF HasStopped, Running, Silent, Said, Message
  <2>2. CASE p # cur
    BY <1>0, <1>1, <2>2 DEF HasStopped, Running, Silent, Said, Message
  <2> QED
    BY <2>1, <2>2
<1>4. Live' = Live /\ Count' = Count /\ \A q, M : Due(q, M)' = Due(q, M)
  BY <1>0, LiveRests
<1>5. UNCHANGED <<requests, burst, gathered>>
  BY <1>0 DEF requestVars, resultVars
<1>6. InExperiment' /\ BetweenExperiments'
  <2>1. \A p \in Procs : Measured(p) => Measured(p)'
    BY <1>0, <1>3, <1>4 DEF Measured, Due
  <2> QED
    BY <1>0, <1>4, <1>5, <2>1 DEF Measuring, InExperiment, BetweenExperiments
<1>7. Profiles'
  BY <1>0, <1>1 DEF Measuring, Profiles
<1>8. Abandoned'
  <2> SUFFICES ASSUME NEW p \in Procs, state'[p] = "working", ~Dead(p)' PROVE p >= cur'
    BY <1>0 DEF Abandoned
  <2>1. p # cur /\ state[p] = "working" /\ ~Dead(p)
    BY <1>0, <1>1 DEF Dead
  <2>2. p >= cur
    BY <1>0, <2>1 DEF Measuring, Abandoned
  <2>3. p \in cur + 1 .. NumProcs
    BY <1>0, <2>1, <2>2, CasesAssumption DEF Procs
  <2>4. cur' \in Int
    <3>1. cur + 1 \in 1 .. NumProcs + 1
      BY <1>0, CasesAssumption DEF Procs
    <3> QED
      BY <1>0, <3>1, NextWorkingFacts
  <2> QED
    BY <1>2, <2>3, <2>4
<1>9. Lasting'
  BY <1>0, <1>3 DEF Measuring, Lasting, Steady, Able
<1> QED
  BY <1>6, <1>7, <1>8, <1>9 DEF Measuring

\* An experiment that the application cut short is evaluated only if it is repeated.
LEMMA EvaluateMeasures == ASSUME Whole, Types, ProtocolOK, Measuring, Evaluate PROVE Measuring'
<1>0. /\ ahead = <<>> /\ \A p \in Procs : Quiet(p)
      /\ \A p \in Procs : state[p] = "working" => Dead(p)
      /\ pc = "pass" /\ then = "evaluate"
      /\ UNCHANGED <<case, then, state, requestVars, resultVars, ahead, up, proc>>
  BY AtRest DEF Evaluate, PassOver, frontendVars
<1>1. /\ Count /\ \A p \in Procs : Measured(p)
      /\ Steady => \A p \in Procs : state[p] # "atend"
  BY <1>0 DEF Measuring, InExperiment, Lasting, HasStopped
<1>2. case.tuning \/ ~case.userPhase \/ Steady
  BY DEF Whole, Steady, Types, TypeOK
<1>3. Live' = Live /\ Count' = Count /\ \A q, M : Due(q, M)' = Due(q, M)
  BY <1>0, LiveRests
<1>4. CASE case.userPhase /\ NeedRestart
  <2>1. order' = "needrestart" /\ pc' = "idle"
    BY <1>4 DEF Evaluate, Tell
  <2>2. case.tuning
    BY <1>1, <1>2, <1>4 DEF NeedRestart
  <2>3. BetweenExperiments'
    BY <1>0, <2>1, <2>2 DEF BetweenExperiments
  <2> QED
    BY <1>0, <2>1, <2>3, TellMeasures DEF Measuring
<1>5. CASE ~(case.userPhase /\ NeedRestart)
  <2>1. pc' = "buffer" /\ cur' = 1 /\ received' = 0
    BY <1>5 DEF Evaluate
  <2>2. Doomed' \/ \A p \in Procs : Received(p)'
    <3>1. CASE \E p \in Procs : state[p] = "working"
      <4>1. PICK p \in Procs : state[p] = "working"
        BY <3>1
      <4>2. Dead(p)' /\ Silent(p)' /\ p >= cur'
        BY <1>0, <2>1, <4>1 DEF Dead, Quiet, Silent, Procs
      <4> QED
        BY <1>0, <4>2 DEF Doomed
    <3>2. CASE \A p \in Procs : state[p] # "working"
      <4>1. ASSUME NEW p \in Procs PROVE Due(p, proc[p].measured)
        <5>1. CASE state[p] = "suspended"
          BY <1>1, <5>1 DEF Measured, HasStopped
        <5>2. CASE state[p] = "atend"
          <6>1. ~case.userPhase
            BY <1>5, <3>2, <5>2 DEF NeedRestart
          <6> QED
            BY <1>1, <5>2, <6>1 DEF Measured, HasStopped
        <5> QED
          BY <3>2, <5>1, <5>2 DEF Types, TypeOK
      <4>2. ASSUME NEW p \in Procs PROVE Received(p)'
        <5>1. p > cur' \/ (p = cur' /\ received' < 2)
          BY <2>1 DEF Procs
        <5>2. Due(p, proc[p].measured)'
          BY <1>0, <1>3, <4>1 DEF Due
        <5> QED
          BY <5>1, <5>2 DEF Received
      <4> QED
        BY <4>2
    <3> QED
      BY <3>1, <3>2
  <2>3. InExperiment' /\ BetweenExperiments'
    BY <1>1, <1>3, <2>1, <2>2 DEF InExperiment, BetweenExperiments
  <2>4. Profiles'
    BY <1>0, NoProfiles DEF Quiet, Silent
  <2>5. Abandoned'
    BY <1>0 DEF Abandoned, Dead
  <2>6. Lasting'
    BY <1>0, <1>1, <2>1 DEF Measuring, Lasting, Steady
  <2> QED
    BY <2>3, <2>4, <2>5, <2>6 DEF Measuring
<1> QED
  BY <1>4, <1>5

\* The profile that is read is what the process has measured, and so are those behind it.
LEMMA ReadsProfiles ==
    ASSUME Types, ProtocolOK, Measuring, pc = "buffer", CanRead, Read, UNCHANGED proc
    PROVE  Profiles' /\ (Line.kind = "FLAT_PROFILE" => Line.data = proc[cur].measured)
<1> DEFINE u == up[cur]
<1>0. /\ cur \in Procs /\ ahead \in Seq(Messages) /\ u \in Seq(Messages) /\ Profiles
      /\ received < 5 /\ Sending(cur)
  BY DEF Types, ProtocolOK, AtBuffer, Measuring
<1>1. /\ up' \in [Procs -> Seq(Messages)] /\ ahead' \in Seq(Messages)
      /\ \A p \in Procs : p # cur => up'[p] = up[p]
      /\ ahead # <<>> => ahead' = Tail(ahead) /\ up' = up
      /\ ahead = <<>> => \E k \in 1 .. Len(u) : ahead' = SubSeq(u, 2, k) /\ up'[cur] = SubSeq(u, k + 1, Len(u))
  BY <1>0, ReadFacts
<1>2. /\ \A i \in 1 .. Len(ahead) : ahead[i].from = cur
      /\ \A i \in 1 .. Len(u) : u[i].from = cur
  BY <1>0 DEF Sending, CanRead, Silent
<1>3. /\ \A i \in 1 .. Len(ahead) : ahead[i].kind = "FLAT_PROFILE" => ahead[i].data = proc[cur].measured
      /\ \A i \in 1 .. Len(u) : u[i].kind = "FLAT_PROFILE" => u[i].data = proc[cur].measured
  BY <1>0, <1>2 DEF Profiles
<1>4. CASE ahead # <<>>
  <2>1. Line = ahead[1] /\ 1 \in 1 .. Len(ahead)
    BY <1>0, <1>4 DEF Line
  <2>2. \A i \in 1 .. Len(ahead') : ahead'[i] = ahead[i + 1] /\ i + 1 \in 1 .. Len(ahead)
    <3>1. \A s \in Seq(Messages) : s # <<>> => /\ Len(Tail(s)) = Len(s) - 1 /\ Len(s) \in Nat
                                             /\ \A i \in 1 .. Len(s) - 1 : Tail(s)[i] = s[i + 1]
      OBVIOUS
    <3>2. ahead' = Tail(ahead) /\ ahead \in Seq(Messages) /\ ahead # <<>>
      BY <1>0, <1>1, <1>4
    <3>3. /\ Len(ahead') = Len(ahead) - 1 /\ Len(ahead) \in Nat
          /\ \A i \in 1 .. Len(ahead) - 1 : ahead'[i] = ahead[i + 1]
      BY <3>1, <3>2, Zenon
    <3> QED
      BY <3>3
  <2>3. Profiles'
    BY <1>0, <1>1, <1>4, <2>2 DEF Profiles
  <2> QED
    BY <1>3, <2>1, <2>3
<1>5. CASE ahead = <<>>
  <2>1. PICK k \in 1 .. Len(u) : ahead' = SubSeq(u, 2, k) /\ up'[cur] = SubSeq(u, k + 1, Len(u))
    BY <1>1, <1>5
  <2>2. Line = u[1] /\ 1 \in 1 .. Len(u)
    BY <1>0, <1>5, <2>1 DEF Line
  <2> HIDE DEF u
  <2>3. Len(u) \in Nat /\ k \in Int /\ k >= 1 /\ k <= Len(u)
    BY <1>0, <2>1
  <2>4. \A i \in 1 .. Len(ahead') : ahead'[i] = u[i + 1] /\ i + 1 \in 1 .. Len(u)
    <3>1. \A i \in 2 .. k : u[i] \in Messages
      BY <1>0, <2>3, ElementOfSeq
    <3>2. /\ Len(SubSeq(u, 2, k)) = IF 2 <= k THEN k - 2 + 1 ELSE 0
          /\ \A i \in 1 .. k - 2 + 1 : SubSeq(u, 2, k)[i] = u[2 + i - 1]
      BY <2>3, <3>1, SubSeqProperties
    <3> QED
      BY <2>1, <2>3, <3>2
  <2>5. \A i \in 1 .. Len(up'[cur]) : up'[cur][i] = u[k + i] /\ k + i \in 1 .. Len(u)
    <3>1. \A i \in k + 1 .. Len(u) : u[i] \in Messages
      BY <1>0, <2>3, ElementOfSeq
    <3>2. /\ Len(SubSeq(u, k + 1, Len(u))) = IF k + 1 <= Len(u) THEN Len(u) - (k + 1) + 1 ELSE 0
          /\ \A i \in 1 .. Len(u) - (k + 1) + 1 : SubSeq(u, k + 1, Len(u))[i] = u[k + 1 + i - 1]
      BY <2>3, <3>1, SubSeqProperties
    <3> QED
      BY <2>1, <2>3, <3>2
  <2>6. \A i \in 1 .. Len(ahead') :
           ahead'[i].kind = "FLAT_PROFILE" => ahead'[i].data = proc'[ahead'[i].from].measured
    BY <1>2, <1>3, <2>4 DEF u
  <2>7. ASSUME NEW p \in Procs
        PROVE  \A i \in 1 .. Len(up'[p]) : up'[p][i].kind = "FLAT_PROFILE" => up'[p][i].data = proc'[p].measured
    <3>1. CASE p = cur
      BY <1>3, <2>5, <3>1 DEF u
    <3>2. CASE p # cur
      BY <1>0, <1>1, <3>2 DEF Profiles
    <3> QED
      BY <3>1, <3>2
  <2>8. Profiles'
    BY <2>6, <2>7 DEF Profiles
  <2> QED
    BY <1>3, <2>2, <2>8 DEF u
<1> QED
  BY <1>4, <1>5

\* What a process has measured is received with its profile.
LEMMA ReceiveBufferMeasures == ASSUME Types, ProtocolOK, Measuring, ReceiveBuffer PROVE Measuring'
<1>0. /\ pc = "buffer" /\ CanRead /\ Read /\ cur \in Procs /\ cur \in Int
      /\ received \in Nat /\ received < 5 /\ Sending(cur)
      /\ UNCHANGED <<case, order, then, state, requestVars, gathered, results, proc>>
      /\ got \in [Procs -> SUBSET Metrics]
  <2>1. pc = "buffer" /\ CanRead /\ Read
    BY DEF ReceiveBuffer
  <2>2. cur \in Procs /\ AtBuffer(cur)
    BY <2>1 DEF Types, ProtocolOK
  <2> QED
    BY <2>1, <2>2 DEF ReceiveBuffer, AtBuffer, Types, TypeOK, frontendVars, Procs
<1>1. /\ Line.kind = Buffers[received + 1]
      /\ Len(ahead') + Len(up'[cur]) = 4 - received
      /\ ahead' \in Seq(Messages) /\ up' \in [Procs -> Seq(Messages)]
      /\ \A p \in Procs : p # cur => up'[p] = up[p]
  BY <1>0, TakesBuffer, ReadFacts
<1>2. Profiles' /\ (received = 1 => Line.data = proc[cur].measured)
  <2>1. received = 1 => Line.kind = "FLAT_PROFILE"
    BY <1>1 DEF Buffers
  <2> QED
    BY <1>0, <2>1, ReadsProfiles
<1>3. /\ got' = [got EXCEPT ![cur] = @ \cup Line.data]
      /\ \/ received + 1 < 5 /\ received' = received + 1 /\ UNCHANGED <<pc, cur>>
         \/ received + 1 = 5 /\ cur < NumProcs /\ cur' = cur + 1 /\ received' = 0 /\ UNCHANGED pc
         \/ received + 1 = 5 /\ cur = NumProcs /\ pc' = "results"
  BY <1>1 DEF ReceiveBuffer, Further
<1>4. UNCHANGED <<requests, burst>> /\ Count' = Count
  BY <1>0 DEF requestVars, Count
<1>5. Count /\ (Doomed \/ \A p \in Procs : Received(p)) /\ (Steady => \A p \in Procs : state[p] # "atend")
  BY <1>0 DEF Measuring, InExperiment, Lasting
<1>6. ASSUME NEW p \in Procs, NEW M, Due(p, M) PROVE Due(p, M)'
  BY <1>0, <1>3, <1>4, <1>6 DEF Due
<1>7. ASSUME NEW p \in Procs, p = cur, received = 1, Due(p, proc[p].measured) PROVE Due(p, {})'
  BY <1>0, <1>2, <1>3, <1>4, <1>7 DEF Due
<1>8. ASSUME NEW q \in Procs, q >= cur, Dead(q), Silent(q), q = cur => ahead = <<>>
      PROVE  q > cur /\ Dead(q)' /\ Silent(q)'
  <2>1. q # cur /\ q \in Int
    BY <1>0, <1>8 DEF CanRead, Silent, Procs
  <2> QED
    BY <1>0, <1>1, <1>8, <2>1 DEF Dead, Silent
<1>9. Abandoned' /\ (pc' \in {"buffer", "results"} => Lasting')
  BY <1>0, <1>3, <1>5 DEF Measuring, Abandoned, Lasting, Steady, Dead
<1>10. CASE received + 1 < 5 /\ received' = received + 1 /\ UNCHANGED <<pc, cur>>
  <2>1. Doomed => Doomed'
    BY <1>0, <1>8, <1>10 DEF Doomed
  <2>2. ASSUME NEW p \in Procs, Received(p) PROVE Received(p)'
    <3>0. p \in Int
      BY DEF Procs
    <3>1. CASE p > cur
      <4>1. Due(p, proc[p].measured)
        BY <2>2, <3>1 DEF Received
      <4> QED
        BY <1>0, <1>6, <1>10, <3>1, <4>1 DEF Received
    <3>2. CASE p < cur
      <4>1. Due(p, {})
        BY <1>0, <2>2, <3>0, <3>2 DEF Received
      <4> QED
        BY <1>0, <1>6, <1>10, <3>0, <3>2, <4>1 DEF Received
    <3>3. CASE p = cur /\ received = 0
      <4>1. Due(p, proc[p].measured)
        BY <2>2, <3>3 DEF Received
      <4>2. Due(p, proc[p].measured)' /\ received' < 2
        BY <1>0, <1>6, <1>10, <3>3, <4>1
      <4> QED
        BY <1>10, <3>3, <4>2 DEF Received
    <3>4. CASE p = cur /\ received = 1
      <4>1. Due(p, proc[p].measured)
        BY <2>2, <3>4 DEF Received
      <4>2. Due(p, {})'
        BY <1>7, <3>4, <4>1
      <4>3. ~(p > cur') /\ ~(received' < 2)
        BY <1>0, <1>10, <3>0, <3>4
      <4> QED
        BY <4>2, <4>3 DEF Received
    <3>5. CASE p = cur /\ received >= 2
      <4>1. Due(p, {})
        BY <1>0, <2>2, <3>5 DEF Received
      <4> QED
        BY <1>0, <1>6, <1>10, <3>5, <4>1 DEF Received
    <3> QED
      BY <1>0, <3>0, <3>1, <3>2, <3>3, <3>4, <3>5
  <2>3. InExperiment' /\ BetweenExperiments'
    BY <1>0, <1>4, <1>5, <1>10, <2>1, <2>2 DEF InExperiment, BetweenExperiments
  <2> QED
    BY <1>0, <1>2, <1>9, <1>10, <2>3 DEF Measuring
<1>11. CASE received + 1 = 5 /\ cur < NumProcs /\ cur' = cur + 1 /\ received' = 0 /\ UNCHANGED pc
  <2>1. ahead' = <<>>
    <3>1. up'[cur] \in Seq(Messages)
      BY <1>0, <1>1
    <3>2. Len(ahead') \in Nat /\ Len(up'[cur]) \in Nat
      BY <1>1, <3>1, LenProperties
    <3>3. Len(ahead') = 0
      BY <1>0, <1>1, <1>11, <3>2
    <3> QED
      BY <1>1, <3>3, EmptySeq
  <2>2. Doomed => Doomed'
    <3> SUFFICES ASSUME NEW q \in Procs, q > cur, Dead(q)', Silent(q)' PROVE Doomed'
      BY <1>8 DEF Doomed
    <3>1. q >= cur'
      BY <1>0, <1>11 DEF Procs
    <3> QED
      BY <2>1, <3>1 DEF Doomed
  <2>3. ASSUME NEW p \in Procs, Received(p) PROVE Received(p)'
    <3>0. p \in Int
      BY DEF Procs
    <3>1. CASE p > cur
      <4>1. Due(p, proc[p].measured)
        BY <2>3, <3>1 DEF Received
      <4>2. Due(p, proc[p].measured)' /\ (p > cur' \/ (p = cur' /\ received' < 2))
        BY <1>0, <1>6, <1>11, <3>0, <3>1, <4>1
      <4> QED
        BY <4>2 DEF Received
    <3>2. CASE ~(p > cur)
      <4>1. Due(p, {})
        BY <1>0, <1>11, <2>3, <3>2 DEF Received
      <4>2. ~(p > cur') /\ ~(p = cur')
        BY <1>0, <1>11, <3>0, <3>2
      <4> QED
        BY <1>6, <4>1, <4>2 DEF Received
    <3> QED
      BY <3>1, <3>2
  <2>4. InExperiment' /\ BetweenExperiments'
    BY <1>0, <1>4, <1>5, <1>11, <2>2, <2>3 DEF InExperiment, BetweenExperiments
  <2> QED
    BY <1>0, <1>2, <1>9, <1>11, <2>4 DEF Measuring
<1>12. CASE received + 1 = 5 /\ cur = NumProcs /\ pc' = "results"
  <2>1. ~Doomed
    BY <1>0, <1>8, <1>12, CasesAssumption DEF Doomed, Procs
  <2>2. ASSUME NEW p \in Procs PROVE Due(p, {})'
    <3>1. Received(p) /\ ~(p > cur) /\ ~(received < 2)
      BY <1>0, <1>5, <1>12, <2>1, CasesAssumption DEF Procs
    <3> QED
      BY <1>6, <3>1 DEF Received
  <2>3. Live'
    BY <1>4, <1>5, <2>2 DEF Live
  <2>4. InExperiment' /\ BetweenExperiments'
    BY <1>12, <2>3 DEF InExperiment, BetweenExperiments
  <2> QED
    BY <1>2, <1>9, <1>12, <2>4 DEF Measuring
<1> QED
  BY <1>3, <1>10, <1>11, <1>12

-----------------------------------------------------------------------------
(* The frontend, and all together, about what is measured.                 *)

\* The processes of a new run have all of it before them.
LEMMA RerunMeasures == ASSUME Types, ProtocolOK, Measuring, TheFrontend, Rerun PROVE Measuring'
<1>0. /\ ahead' = <<>> /\ pc = "idle" /\ order = "needrestart" /\ order' = "reinit"
      /\ UNCHANGED <<case, pc, then, state, requestVars, resultVars>> /\ up' = [p \in Procs |-> <<>>]
  BY QuietBetween DEF TheFrontend, Rerun
<1>1. PICK n \in case.phases : proc' = [p \in Procs |-> FreshProcess(n)]
  BY DEF Rerun
<1>2. Live' = Live
  BY <1>0, LiveRests
<1>3. InExperiment' /\ BetweenExperiments'
  BY <1>0, <1>2 DEF Measuring, InExperiment, BetweenExperiments
<1>4. Profiles' /\ Abandoned'
  BY <1>0, NoProfiles DEF Abandoned
<1>5. Lasting'
  <2>1. n \in Nat
    BY CasesAssumption DEF Types, TypeOK
  <2>2. \A p \in Procs : proc'[p].iterations = 1 /\ proc'[p].left = n
    BY <1>1 DEF FreshProcess
  <2>3. Steady => \A p \in Procs : Able(p)'
    BY <1>0, <2>1, <2>2 DEF Steady, Able
  <2> QED
    BY <1>0, <2>2, <2>3 DEF Lasting, Steady
<1> QED
  BY <1>3, <1>4, <1>5 DEF Measuring

\* The frontend orders another experiment where all that is wanted has been requested, and
\* a search where it will be.
LEMMA AnswerMeasures == ASSUME Types, ProtocolOK, Measuring, TheFrontend, Answer PROVE Measuring'
<1>0. /\ pc = "idle" /\ UNCHANGED <<case, pc, then, state, requestVars, resultVars, ahead, up, proc>>
      /\ ahead = <<>> /\ \A p \in Procs : Quiet(p)
      /\ \/ order = "reqexperiment" /\ order' = "startexperiment"
         \/ order = "ready" /\ order' = (IF case.tuning THEN "start" ELSE "startexperiment")
         \/ order = "searchfinished" /\ order' = "start"
         \/ order \in {"searchfinished", "needrestart"} /\ order' = "done"
  BY QuietBetween DEF TheFrontend, Answer, streamVars
<1>1. Live' = Live
  BY <1>0, LiveRests
<1>2. InExperiment'
  BY <1>0 DEF InExperiment
<1>3. BetweenExperiments'
  BY <1>0, <1>1 DEF Measuring, BetweenExperiments
<1>4. Profiles'
  BY <1>0, NoProfiles DEF Quiet, Silent
<1>5. Abandoned'
  BY <1>0 DEF Measuring, Abandoned, Dead
<1>6. Lasting'
  BY <1>0 DEF Measuring, Lasting, Steady, Able
<1> QED
  BY <1>2, <1>3, <1>4, <1>5, <1>6 DEF Measuring

\* At the beginning nothing is wanted yet.
LEMMA InitMeasures == ASSUME Init PROVE Measuring
<1>1. PICK n \in case.phases : proc = [p \in Procs |-> FreshProcess(n)]
  BY DEF Init
<1>2. /\ n \in Nat /\ pc = "idle" /\ order = "start" /\ state = [p \in Procs |-> "suspended"]
      /\ ahead = <<>> /\ up = [p \in Procs |-> <<>>]
  BY CasesAssumption DEF Init
<1>3. \A p \in Procs : proc[p].iterations = 1 /\ proc[p].left = n
  BY <1>1 DEF FreshProcess
<1>4. InExperiment /\ BetweenExperiments /\ Profiles /\ Abandoned
  BY <1>2 DEF InExperiment, BetweenExperiments, Profiles, Abandoned
<1>5. Lasting
  BY <1>2, <1>3 DEF Lasting, Steady, Able
<1> QED
  BY <1>4, <1>5 DEF Measuring

\* The invariant is inductive: one step per action.
LEMMA MeasuringInvariant == ASSUME NoTrace, Whole PROVE Spec => []Measuring
<1>1. Init => Measuring
  BY InitMeasures
<1>2. (Types /\ ProtocolOK) /\ Measuring /\ [Next]_vars => Measuring'
  <2> SUFFICES ASSUME Types, ProtocolOK, Measuring, [Next]_vars PROVE Measuring'
    OBVIOUS
  <2>1. CASE Agent
    BY <2>1, OnStartMeasures, OnStartExperimentMeasures, OnReinitMeasures, BeginRequestsOkMeasures,
       RequestOkMeasures, EndRequestsOkMeasures, PassReadsMeasures, NoPassAgain, DelayedMeasures,
       RedelayedMeasures, EvaluateMeasures, AtStartMeasures, ReceiveBufferMeasures, ResultsMeasures,
       VerdictMeasures DEF Agent
  <2>2. CASE TheFrontend
    BY <2>2, RerunMeasures, AnswerMeasures DEF TheFrontend
  <2>3. CASE \E p \in Procs : Process(p)
    BY <2>3, ProcessMeasures
  <2>4. CASE UNCHANGED vars
    <3>1. UNCHANGED <<agentVars, ahead, down, up, proc>>
      BY <2>4 DEF vars, streamVars
    <3>2. UNCHANGED <<case, order, runs, pc, cur, then, todo, received, state, requests, burst, gathered, got, results>>
      BY <3>1 DEF agentVars, frontendVars, requestVars, resultVars
    <3>3. \A p \in Procs : /\ Measured(p)' = Measured(p) /\ Received(p)' = Received(p)
                           /\ Unasked(p)' = Unasked(p) /\ Able(p)' = Able(p) /\ Running(p)' = Running(p)
      BY <3>1, <3>2 DEF Measured, Received, Unasked, Able, Running, Due, HasStopped, Said, Silent, Message
    <3>4. Live' = Live /\ Count' = Count /\ Doomed' = Doomed /\ \A q, M : Due(q, M)' = Due(q, M)
      BY <3>1, <3>2 DEF Live, Count, Due, Doomed, Dead, Silent
    <3>5. \A p, s, kind : HasStopped(p, s, kind)' = HasStopped(p, s, kind)
      BY <3>1, <3>2 DEF HasStopped, Said, Message
    <3>6. InExperiment' /\ BetweenExperiments' /\ Profiles' /\ Abandoned'
      BY <3>1, <3>2, <3>3, <3>4 DEF Measuring, InExperiment, BetweenExperiments, Profiles, Abandoned, Dead
    <3>7. Lasting'
      BY <3>1, <3>2, <3>3, <3>4, <3>5 DEF Measuring, Lasting, Steady
    <3> QED
      BY <3>6, <3>7 DEF Measuring
  <2> QED
    BY <2>1, <2>2, <2>3, <2>4 DEF Next
<1> QED
  BY <1>1, <1>2, Invariance, PTL DEF Spec

\* evaluateAndReqNextExperiment is called when every process has been measured for every metric
\* wanted, as often as the burst is long: whatever set a request was put in, however often the
\* application was restarted, and although processes may die (AnalysisAgent.cc, DataProvider.cc).
\* An application that may end in an experiment of run_analysis is excepted: see LostRequests.
THEOREM EvaluatedIsMeasured == NoTrace /\ Whole => (Spec => []EvaluatedMeansMeasured)
<1> SUFFICES ASSUME NoTrace, Whole PROVE Spec => []EvaluatedMeansMeasured
  OBVIOUS
<1>1. Types /\ Measuring => EvaluatedMeansMeasured
  <2> SUFFICES ASSUME Types, Measuring, pc = "verdict", gathered
               PROVE  results >= case.burst /\ \A p \in Procs : case.wanted \subseteq got[p]
    BY DEF EvaluatedMeansMeasured
  <2>1. Live /\ requests = {} /\ burst = 0
    BY DEF Measuring, InExperiment
  <2> QED
    BY <2>1 DEF Live, Count, Due, Types, TypeOK
<1> QED
  BY <1>1, Invariance, MeasuringInvariant, PTL
=============================================================================
