---------------------------- MODULE FrontendProofs ----------------------------
(***************************************************************************)
(* The types of Frontend for every tree of agents, with what the proofs    *)
(* about it say of trees and of streams.  Then the waves: a request of the *)
(* frontend travels down the tree as one, and comes back as one; what a    *)
(* wave is, whatever it asks for, what the agents do to it, and which of   *)
(* the steps of Frontend do what.                                          *)
(*                                                                         *)
(* Then the invariant of Frontend and what follows from it.  At any time   *)
(* at most one wave is out, of a search, of a check or of a call-tree, and *)
(* the frontend is in the event loop that waits for it.                    *)
(***************************************************************************)
EXTENDS Frontend, FiniteSetTheorems, SequenceTheorems, TLAPS

-----------------------------------------------------------------------------
(* The tree.                                                               *)

\* Leaves and inner agents.
LEMMA TreeFacts ==
    /\ AAs \subseteq Agents /\ HLAs \subseteq Agents /\ FE \notin Agents
    /\ \A n \in Agents : n \in HLAs <=> n \notin AAs
    /\ \A n \in Agents : Parent[n] \in HLAs \cup {FE} /\ Parent[n] # n
    /\ \A p : \A n : n \in Children(p) <=> n \in Agents /\ Parent[n] = p
    /\ \A h \in HLAs : Children(h) # {}
    /\ \E c \in Agents : Children(FE) = {c}
<1>1. \A p : \A n : n \in Children(p) <=> n \in Agents /\ Parent[n] = p
  BY DEF Children
<1>2. \A n \in Agents : Parent[n] \in Agents \cup {FE} /\ Parent[n] # n /\ n \in Nat \ {FE}
  BY TreeAssumption
<1>3. \A n \in Agents : Parent[n] \in HLAs \cup {FE}
  BY <1>1, <1>2 DEF HLAs, AAs
<1> QED
  BY <1>1, <1>2, <1>3, FrontendAssumption DEF HLAs, AAs

\* A set of natural numbers that is not empty has a least element.
LEMMA LeastExists ==
    ASSUME NEW S, S \subseteq Nat, S # {}
    PROVE  \E i \in S : \A j \in S : i <= j
<1> DEFINE R == OpToRel(<, Nat)
<1>1. \A i, j \in Nat : j < i => <<j, i>> \in R
  BY Zenon DEF OpToRel
<1>2. IsWellFoundedOn(R, Nat)
  BY NatLessThanWellFounded
<1> HIDE DEF R
<1>3. PICK i \in S : \A j \in S : ~(<<j, i>> \in R)
  BY <1>2, WFMin
<1>4. ASSUME NEW j \in S PROVE i <= j
  <2>1. i \in Nat /\ j \in Nat
    OBVIOUS
  <2>2. ~(j < i)
    BY <1>1, <1>3, <2>1
  <2> QED
    BY <2>1, <2>2
<1> QED
  BY <1>4

\* Of a set of agents that is not empty, one is the topmost.
LEMMA TopmostExists ==
    ASSUME NEW S \in SUBSET Agents, S # {}
    PROVE  \E n \in S : Parent[n] \notin S
<1>1. PICK n \in S : \A m \in S : n <= m
  BY LeastExists, TreeAssumption
<1>2. n \in Nat /\ Parent[n] < n /\ (Parent[n] \in S => n <= Parent[n])
  BY <1>1, TreeAssumption
<1>3. Parent[n] \in Nat
  <2>1. Parent[n] \in Agents \cup {0}
    BY TreeAssumption DEF FE
  <2>2. \A m \in Agents : m \in Nat
    BY TreeAssumption
  <2> QED
    BY <2>1, <2>2
<1>4. Parent[n] \notin S
  BY <1>2, <1>3
<1> QED
  BY <1>4

\* And one has no child in it.
LEMMA BottommostExists ==
    ASSUME NEW S \in SUBSET Agents, S # {}
    PROVE  \E n \in S : \A c \in Children(n) : c \notin S
<1> DEFINE Above(i) == {j \in S : i < j}
           Counts == {Cardinality(Above(i)) : i \in S}
<1>1. \A i \in S : IsFiniteSet(Above(i)) /\ Cardinality(Above(i)) \in Nat
  <2>1. \A i \in S : Above(i) \subseteq Agents
    OBVIOUS
  <2> HIDE DEF Above
  <2> QED
    BY <2>1, TreeAssumption, FS_Subset, FS_CardinalityType
<1>2. Counts \subseteq Nat /\ Counts # {}
  <2> HIDE DEF Above
  <2> QED
    BY <1>1
<1>3. PICK n \in S : \A i \in S : Cardinality(Above(n)) <= Cardinality(Above(i))
  <2>1. PICK k \in Counts : \A j \in Counts : k <= j
    <3> HIDE DEF Counts
    <3> QED
      BY <1>2, LeastExists
  <2> HIDE DEF Above
  <2> QED
    BY <2>1
<1>4. ASSUME NEW c \in S, n < c PROVE FALSE
  <2>1. Above(c) \subseteq Above(n) /\ c \in Above(n) /\ c \notin Above(c)
    <3>1. n \in Nat /\ c \in Nat /\ \A j \in S : j \in Nat
      BY TreeAssumption
    <3>2. \A j \in S : c < j => n < j
      <4> SUFFICES ASSUME NEW j \in S, c < j PROVE n < j
        OBVIOUS
      <4>1. n \in Nat /\ c \in Nat /\ j \in Nat
        BY <3>1
      <4> QED
        BY <1>4, <4>1
    <3>3. ~(c < c)
      BY <3>1
    <3> QED
      BY <1>4, <3>2, <3>3
  <2>2. Above(c) # Above(n)
    BY <2>1
  <2> HIDE DEF Above
  <2>3. /\ Cardinality(Above(c)) <= Cardinality(Above(n))
        /\ Cardinality(Above(c)) = Cardinality(Above(n)) => Above(c) = Above(n)
    BY <1>1, <2>1, FS_Subset
  <2> QED
    BY <1>1, <1>3, <2>2, <2>3
<1> QED
  BY <1>4, TreeAssumption DEF Children

-----------------------------------------------------------------------------
(* Streams.                                                                *)

Has(s, T) == \E i \in DOMAIN s : s[i].type \in T
One(s, T) == \A i, j \in DOMAIN s : s[i].type \in T /\ s[j].type \in T => i = j

\* No message of T comes before one of U.
Behind(s, T, U) == \A i, j \in DOMAIN s : s[i].type \in T /\ s[j].type \in U => j < i

LEMMA ReadFacts ==
    ASSUME NEW S, NEW s \in Seq(S), s # <<>>
    PROVE  /\ Head(s) \in S /\ Tail(s) \in Seq(S)
           /\ \A T : Has(s, T) <=> Head(s).type \in T \/ Has(Tail(s), T)
           /\ \A T : One(s, T) => /\ One(Tail(s), T)
                                  /\ Head(s).type \in T => ~Has(Tail(s), T)
           /\ \A T, U : Behind(s, T, U) => /\ Behind(Tail(s), T, U)
                                           /\ Head(s).type \in T => ~Has(s, U)
<1>1. /\ Head(s) \in S /\ Tail(s) \in Seq(S)
      /\ Len(s) \in Nat \ {0} /\ DOMAIN s = 1..Len(s) /\ Head(s) = s[1]
      /\ DOMAIN Tail(s) = 1..(Len(s) - 1)
      /\ \A i \in 1..(Len(s) - 1) : Tail(s)[i] = s[i + 1]
  OBVIOUS
<1>2. \A i \in DOMAIN s : i = 1 \/ (i - 1 \in DOMAIN Tail(s) /\ Tail(s)[i - 1] = s[i])
  BY <1>1
<1>3. \A i \in DOMAIN Tail(s) : i + 1 \in DOMAIN s /\ Tail(s)[i] = s[i + 1] /\ i + 1 # 1 /\ i \in Nat
  BY <1>1
<1>4. 1 \in DOMAIN s
  BY <1>1
<1>5. ASSUME NEW T PROVE Has(s, T) <=> Head(s).type \in T \/ Has(Tail(s), T)
  BY <1>1, <1>2, <1>3, <1>4 DEF Has
<1>6. ASSUME NEW T, One(s, T)
      PROVE  One(Tail(s), T) /\ (Head(s).type \in T => ~Has(Tail(s), T))
  <2>1. One(Tail(s), T)
    BY <1>3, <1>6 DEF One
  <2>2. ASSUME Head(s).type \in T PROVE ~Has(Tail(s), T)
    BY <1>1, <1>3, <1>4, <1>6, <2>2 DEF One, Has
  <2> QED
    BY <2>1, <2>2
<1>7. ASSUME NEW T, NEW U, Behind(s, T, U)
      PROVE  Behind(Tail(s), T, U) /\ (Head(s).type \in T => ~Has(s, U))
  <2>1. Behind(Tail(s), T, U)
    <3> SUFFICES ASSUME NEW i \in DOMAIN Tail(s), NEW j \in DOMAIN Tail(s),
                        Tail(s)[i].type \in T, Tail(s)[j].type \in U
                 PROVE  j < i
      BY DEF Behind
    <3>1. j + 1 < i + 1
      BY <1>3, <1>7 DEF Behind
    <3> QED
      BY <1>3, <3>1
  <2>2. ASSUME Head(s).type \in T PROVE ~Has(s, U)
    <3> SUFFICES ASSUME NEW j \in DOMAIN s, s[j].type \in U PROVE FALSE
      BY DEF Has
    <3>1. j < 1
      BY <1>1, <1>4, <1>7, <2>2 DEF Behind
    <3> QED
      BY <1>1, <3>1
  <2> QED
    BY <2>1, <2>2
<1> QED
  BY <1>1, <1>5, <1>6, <1>7

LEMMA ConcatFacts ==
    ASSUME NEW S, NEW s \in Seq(S), NEW t \in Seq(S)
    PROVE  /\ s \o t \in Seq(S)
           /\ \A T : Has(s \o t, T) <=> Has(s, T) \/ Has(t, T)
           /\ \A T : (One(s, T) /\ ~Has(t, T)) \/ (One(t, T) /\ ~Has(s, T)) => One(s \o t, T)
           /\ \A T, U : Behind(s, T, U) /\ Behind(t, T, U) /\ (~Has(s, T) \/ ~Has(t, U))
                           => Behind(s \o t, T, U)
<1> DEFINE r == s \o t
<1>1. /\ r \in Seq(S) /\ Len(s) \in Nat /\ Len(t) \in Nat
      /\ DOMAIN s = 1..Len(s) /\ DOMAIN t = 1..Len(t) /\ DOMAIN r = 1..(Len(s) + Len(t))
      /\ \A i \in DOMAIN r : r[i] = IF i <= Len(s) THEN s[i] ELSE t[i - Len(s)]
  BY ConcatProperties
<1>2. \A i \in DOMAIN r : \/ i \in DOMAIN s /\ r[i] = s[i]
                          \/ i - Len(s) \in DOMAIN t /\ r[i] = t[i - Len(s)]
  BY <1>1
<1>3. \A i \in DOMAIN s : i \in DOMAIN r /\ r[i] = s[i] /\ i \in Nat /\ i <= Len(s)
  BY <1>1
<1>4. \A i \in DOMAIN t : i + Len(s) \in DOMAIN r /\ r[i + Len(s)] = t[i]
  <2> SUFFICES ASSUME NEW i \in DOMAIN t PROVE i + Len(s) \in DOMAIN r /\ r[i + Len(s)] = t[i]
    OBVIOUS
  <2>1. i \in Nat /\ i >= 1 /\ i <= Len(t)
    BY <1>1
  <2>2. i + Len(s) \in DOMAIN r /\ ~(i + Len(s) <= Len(s)) /\ (i + Len(s)) - Len(s) = i
    BY <1>1, <2>1
  <2> QED
    BY <1>1, <2>2
<1> HIDE DEF r
<1>5. ASSUME NEW T PROVE Has(r, T) <=> Has(s, T) \/ Has(t, T)
  BY <1>2, <1>3, <1>4 DEF Has
<1>6. ASSUME NEW T, (One(s, T) /\ ~Has(t, T)) \/ (One(t, T) /\ ~Has(s, T)) PROVE One(r, T)
  <2> SUFFICES ASSUME NEW i \in DOMAIN r, NEW j \in DOMAIN r, r[i].type \in T, r[j].type \in T
               PROVE  i = j
    BY DEF One
  <2>1. CASE One(s, T) /\ ~Has(t, T)
    BY <1>2, <2>1 DEF One, Has
  <2>2. CASE One(t, T) /\ ~Has(s, T)
    <3>1. i - Len(s) = j - Len(s)
      BY <1>2, <2>2 DEF One, Has
    <3> QED
      BY <1>1, <3>1
  <2> QED
    BY <1>6, <2>1, <2>2
<1>7. ASSUME NEW T, NEW U, Behind(s, T, U), Behind(t, T, U), ~Has(s, T) \/ ~Has(t, U)
      PROVE  Behind(r, T, U)
  <2> SUFFICES ASSUME NEW i \in DOMAIN r, NEW j \in DOMAIN r, r[i].type \in T, r[j].type \in U
               PROVE  j < i
    BY DEF Behind
  <2>0. i \in Nat /\ j \in Nat /\ Len(s) \in Nat
    BY <1>1
  <2>1. CASE i <= Len(s) /\ j <= Len(s)
    <3>1. i \in DOMAIN s /\ j \in DOMAIN s /\ r[i] = s[i] /\ r[j] = s[j]
      BY <1>1, <2>1
    <3> QED
      BY <1>7, <3>1 DEF Behind
  <2>2. CASE ~(i <= Len(s)) /\ ~(j <= Len(s))
    <3>1. i - Len(s) \in DOMAIN t /\ j - Len(s) \in DOMAIN t /\ r[i] = t[i - Len(s)] /\ r[j] = t[j - Len(s)]
      BY <1>1, <2>2
    <3>2. j - Len(s) < i - Len(s)
      BY <1>7, <3>1 DEF Behind
    <3> QED
      BY <2>0, <3>2
  <2>3. CASE i <= Len(s) /\ ~(j <= Len(s))
    <3>1. i \in DOMAIN s /\ j - Len(s) \in DOMAIN t /\ r[i] = s[i] /\ r[j] = t[j - Len(s)]
      BY <1>1, <2>3
    <3> QED
      BY <1>7, <3>1 DEF Has
  <2>4. CASE ~(i <= Len(s)) /\ j <= Len(s)
    BY <2>0, <2>4
  <2> QED
    BY <2>1, <2>2, <2>3, <2>4
<1> QED
  BY <1>1, <1>5, <1>6, <1>7 DEF r

\* A stream of one message.
LEMMA SingleFacts ==
    ASSUME NEW S, NEW m \in S
    PROVE  /\ <<m>> \in Seq(S)
           /\ \A T : Has(<<m>>, T) <=> m.type \in T
           /\ \A T : One(<<m>>, T)
           /\ \A T, U : T \cap U = {} => Behind(<<m>>, T, U)
<1>1. <<m>> \in Seq(S) /\ DOMAIN <<m>> = {1} /\ <<m>>[1] = m
  OBVIOUS
<1> QED
  BY <1>1 DEF Has, One, Behind

LEMMA EmptyFacts ==
    /\ \A S : <<>> \in Seq(S)
    /\ \A T : ~Has(<<>>, T)
    /\ \A T : One(<<>>, T)
    /\ \A T, U : Behind(<<>>, T, U)
  BY DEF Has, One, Behind

LEMMA AppendFacts ==
    ASSUME NEW S, NEW s \in Seq(S), NEW m \in S
    PROVE  /\ Append(s, m) \in Seq(S)
           /\ \A T : Has(Append(s, m), T) <=> Has(s, T) \/ m.type \in T
           /\ \A T : One(s, T) /\ ~(Has(s, T) /\ m.type \in T) => One(Append(s, m), T)
           /\ \A T, U : T \cap U = {} /\ Behind(s, T, U) /\ ~(Has(s, T) /\ m.type \in U)
                           => Behind(Append(s, m), T, U)
<1>1. Append(s, m) = s \o <<m>>
  OBVIOUS
<1>2. \A T : Has(<<m>>, T) <=> m.type \in T
  BY SingleFacts
<1>3. <<m>> \in Seq(S)
  BY SingleFacts
<1>4. ASSUME NEW T, One(s, T), ~(Has(s, T) /\ m.type \in T) PROVE One(Append(s, m), T)
  <2>1. One(<<m>>, T)
    BY SingleFacts
  <2>2. (One(s, T) /\ ~Has(<<m>>, T)) \/ (One(<<m>>, T) /\ ~Has(s, T))
    BY <1>2, <1>4, <2>1
  <2> QED
    BY <1>1, <1>3, <2>2, ConcatFacts, Zenon
<1>5. ASSUME NEW T, NEW U, T \cap U = {}, Behind(s, T, U), ~(Has(s, T) /\ m.type \in U)
      PROVE  Behind(Append(s, m), T, U)
  <2>1. Behind(<<m>>, T, U)
    BY <1>5, SingleFacts
  <2>2. ~Has(s, T) \/ ~Has(<<m>>, U)
    BY <1>2, <1>5
  <2>3. Behind(s \o <<m>>, T, U)
    BY <1>3, <1>5, <2>1, <2>2, ConcatFacts, Zenon
  <2> QED
    BY <1>1, <2>3, Zenon
<1>6. /\ s \o <<m>> \in Seq(S)
      /\ \A T : Has(s \o <<m>>, T) <=> Has(s, T) \/ Has(<<m>>, T)
  BY <1>3, ConcatFacts
<1> QED
  BY <1>1, <1>2, <1>4, <1>5, <1>6

\* What the ways to write to the streams of several agents leave in each of them.
LEMMA SentDown ==
    ASSUME NEW S, down \in [Agents -> Seq(S)], NEW p, NEW m \in S
    PROVE  /\ SendToChildren(p, m) \in [Agents -> Seq(S)]
           /\ \A n \in Agents : SendToChildren(p, m)[n] =
                                 IF Parent[n] = p THEN Append(down[n], m) ELSE down[n]
<1>1. \A n \in Agents : Append(down[n], m) \in Seq(S)
  BY AppendFacts
<1> QED
  BY <1>1 DEF SendToChildren

LEMMA ForwardedDown ==
    ASSUME NEW S, down \in [Agents -> Seq(S)], NEW h \in Agents, down[h] # <<>>, NEW m \in S
    PROVE  /\ ForwardDown(h, m) \in [Agents -> Seq(S)]
           /\ \A n \in Agents : ForwardDown(h, m)[n] =
                                 IF n = h THEN Tail(down[n])
                                 ELSE IF Parent[n] = h THEN Append(down[n], m) ELSE down[n]
<1>1. \A n \in Agents : Append(down[n], m) \in Seq(S)
  BY AppendFacts
<1>2. Tail(down[h]) \in Seq(S)
  BY ReadFacts
<1>3. \A n \in Agents : ForwardDown(h, m)[n] =
                            IF n = h THEN Tail(down[n])
                            ELSE IF Parent[n] = h THEN Append(down[n], m) ELSE down[n]
  <2>1. \A n \in Agents : Parent[n] # n
    BY TreeFacts
  <2> QED
    BY <2>1 DEF ForwardDown
<1> DEFINE body(n) == CASE n = h         -> Tail(down[n])
                        [] Parent[n] = h -> Append(down[n], m)
                        [] OTHER         -> down[n]
<1>4. ForwardDown(h, m) = [n \in Agents |-> body(n)]
  BY DEF ForwardDown
<1>5. \A n \in Agents : body(n) \in Seq(S)
  BY <1>1, <1>2, TreeFacts
<1> HIDE DEF body
<1>6. ForwardDown(h, m) \in [Agents -> Seq(S)]
  BY <1>4, <1>5
<1> QED
  BY <1>3, <1>6

LEMMA ForwardedUp ==
    ASSUME NEW S, up \in [Agents -> Seq(S)], NEW c \in Agents, NEW h \in Agents, c # h,
           up[c] # <<>>, NEW ms \in Seq(S)
    PROVE  /\ ForwardUp(c, h, ms) \in [Agents -> Seq(S)]
           /\ ForwardUp(c, h, ms)[c] = Tail(up[c])
           /\ ForwardUp(c, h, ms)[h] = up[h] \o ms
           /\ \A n \in Agents \ {c, h} : ForwardUp(c, h, ms)[n] = up[n]
<1>1. up[h] \o ms \in Seq(S)
  BY ConcatFacts
<1>2. Tail(up[c]) \in Seq(S)
  BY ReadFacts
<1> QED
  BY <1>1, <1>2 DEF ForwardUp

-----------------------------------------------------------------------------
(* Types.                                                                  *)

Props    == [aa : AAs, n : Nat, req : Nat]
Requests == [id : 1..nreq, delay : BOOLEAN]

DownTypes == {"startexperiment", "check", "terminate", "quit", "reinit", "serializecalltree"}
DownMsgs  == {Msg(t) : t \in DownTypes} \cup [type : {"start"}, requests : Seq(Requests) \ {<<>>}]

UpTypes == SearchRequests \cup {"heartbeat", "terminated", "calltreesent", "propertiessent"}
UpMsgs  == {Msg(t) : t \in UpTypes} \cup [type : {"foundprop"}, props : SUBSET Props]
                                    \cup [type : {"calltree"}, aa : AAs]

StreamTypes ==
    /\ down \in [Agents -> Seq(DownMsgs)]
    /\ up \in [Agents -> Seq(UpMsgs)]

TreeTypes ==
    /\ info \in [Agents -> AgentInfo]
    /\ alive \in [Agents -> {"starting", "up", "down"}]

AATypes ==
    /\ proc \in [AAs -> ProcState]
    /\ started \in [AAs -> BOOLEAN] /\ delay \in [AAs -> BOOLEAN] /\ newRts \in [AAs -> BOOLEAN]
    /\ exps \in [AAs -> Nat] /\ nprops \in [AAs -> Nat]
    /\ found \in [AAs -> Seq(Props)]

\* Of which run the processes are, and which request an agent is at.
NumberTypes ==
    /\ run \in Nat \ {0} /\ nreq \in Nat \ {0} /\ runs \in Nat
    /\ attached \in [AAs -> 1..run]
    /\ strategy \in [AAs -> 0..nreq] /\ finished \in [AAs -> 0..nreq]
    /\ registry \subseteq AAs \X (1..run)
    /\ buffer \in Seq(Requests)

HLATypes ==
    /\ properties \in [HLAs -> SUBSET Props]
    /\ timer \in [HLAs -> {"off", "STARTUP", "STARTUP_REINIT"}]

FETypes ==
    /\ op \in {"gather", "analysis", "restart", "phase", "again", "search", "none", "final"}
    /\ stage \in {"run", "terminating", "restarted", "calltree"}
    /\ loop \in {"off", "STARTUP", "STARTUP_REINIT", "APPLICATION_TERMINATION", "REQUESTCALLTREE"}
    /\ {ended, timerOn, need_restart, restart_requested, shutdown_allowed, quit_fe, quitting, executed}
          \subseteq BOOLEAN
    /\ metaproperties \subseteq Props
    /\ pools \subseteq [prop : Props, step : Nat]
    /\ trees \subseteq AAs

Types == StreamTypes /\ TreeTypes /\ AATypes /\ NumberTypes /\ HLATypes /\ FETypes

\* Messages.
LEMMA DownMsgFacts ==
    /\ \A t \in DownTypes : Msg(t) \in DownMsgs /\ Msg(t).type = t
    /\ \A q \in Seq(Requests) \ {<<>>} :
          [type |-> "start", requests |-> q] \in DownMsgs /\ [type |-> "start", requests |-> q].type = "start"
    /\ \A m \in DownMsgs : /\ m.type \in DownTypes \cup {"start"}
                           /\ m.type = "start" => m.requests \in Seq(Requests) \ {<<>>}
  BY DEF DownMsgs, DownTypes, Msg

LEMMA UpMsgFacts ==
    /\ \A t \in UpTypes : Msg(t) \in UpMsgs /\ Msg(t).type = t
    /\ \A ps \in SUBSET Props : /\ [type |-> "foundprop", props |-> ps] \in UpMsgs
                                /\ [type |-> "foundprop", props |-> ps].type = "foundprop"
                                /\ [type |-> "foundprop", props |-> ps].props = ps
    /\ \A a \in AAs : /\ [type |-> "calltree", aa |-> a] \in UpMsgs
                      /\ [type |-> "calltree", aa |-> a].type = "calltree"
    /\ \A m \in UpMsgs : /\ m.type \in UpTypes \cup {"foundprop", "calltree"}
                         /\ m.type = "foundprop" => m.props \subseteq Props
                         /\ m.type = "calltree" => m.aa \in AAs
  BY DEF UpMsgs, UpTypes, SearchRequests, Msg

\* The streams keep their types when strategy requests are created.
LEMMA MoreRequests ==
    ASSUME nreq \in Nat, nreq' \in Nat, nreq <= nreq'
    PROVE  /\ Requests \subseteq Requests'
           /\ Seq(Requests) \subseteq Seq(Requests')
           /\ Seq(DownMsgs) \subseteq Seq(DownMsgs')
<1>1. Requests \subseteq Requests'
  BY DEF Requests
<1>2. Seq(Requests) \subseteq Seq(Requests')
  BY <1>1, SeqMonotonic
<1>3. DownMsgs \subseteq DownMsgs'
  BY <1>2 DEF DownMsgs
<1> QED
  BY <1>1, <1>2, <1>3, SeqMonotonic

LEMMA InitTypes == Init => Types
<1> SUFFICES ASSUME Init PROVE Types
  OBVIOUS
<1>1. StreamTypes
  BY EmptyFacts DEF Init, TreeInit, StreamTypes
<1>2. TreeTypes
  <2>1. PICK flags \in [Agents -> BOOLEAN] : info = [n \in Agents |-> InitInfo(flags[n])]
    BY DEF Init, TreeInit
  <2>2. \A b \in BOOLEAN : InitInfo(b) \in AgentInfo
    BY DEF InitInfo, AgentInfo, Status, SearchStatus
  <2> QED
    BY <2>1, <2>2 DEF Init, TreeInit, TreeTypes
<1>3. AATypes /\ HLATypes
  BY EmptyFacts DEF Init, AAInit, HLAInit, AATypes, HLATypes, ProcState
<1>4. NumberTypes
  <2>1. Request(1) \in Requests /\ buffer = <<Request(1)>>
    BY DEF Init, Request, Requests
  <2>2. buffer \in Seq(Requests)
    BY <2>1, SingleFacts
  <2> QED
    BY <2>2 DEF Init, AAInit, NumberTypes
<1>5. FETypes
  BY DEF Init, FETypes
<1> QED
  BY <1>1, <1>2, <1>3, <1>4, <1>5 DEF Types

\* The steps of an analysis agent keep the types.
LEMMA AAStepTypes ==
    ASSUME Types, NEW a \in AAs, AAStep(a), UNCHANGED <<hlaVars, feVars>>
    PROVE  Types'
<1> a \in Agents
  BY TreeFacts
<1>0. /\ Requests' = Requests /\ DownMsgs' = DownMsgs /\ UpMsgs' = UpMsgs
      /\ nreq' = nreq /\ runs' = runs /\ buffer' = buffer
  <2>1. nreq' = nreq /\ runs' = runs /\ buffer' = buffer
    BY DEF feVars, ctlVars
  <2> QED
    BY <2>1 DEF Requests, DownMsgs, UpMsgs
<1>1. ASSUME NEW t \in UpTypes, SendUp(a, t) PROVE up' \in [Agents -> Seq(UpMsgs)]
  <2>1. Append(up[a], Msg(t)) \in Seq(UpMsgs)
    BY AppendFacts, UpMsgFacts DEF Types, StreamTypes
  <2> QED
    BY <1>1, <2>1 DEF SendUp, Types, StreamTypes
<1>2. ASSUME down[a] # <<>>, ReadRequest(a) PROVE down' \in [Agents -> Seq(DownMsgs)]
  <2>1. Tail(down[a]) \in Seq(DownMsgs)
    BY <1>2, ReadFacts DEF Types, StreamTypes
  <2> QED
    BY <1>2, <2>1 DEF ReadRequest, Types, StreamTypes
<1>3. HLATypes' /\ FETypes'
  BY DEF Types, HLATypes, FETypes, hlaVars, feVars, loopVars, ctlVars, decVars
<1>4. SearchRequests \subseteq UpTypes /\ {"heartbeat", "terminated"} \subseteq UpTypes
  BY DEF UpTypes
<1>5. \A s \in ProcState : StopsAt(s) \subseteq ProcState
  BY DEF StopsAt, ProcState
<1>6. RegistryAfterFinish(a) \subseteq registry
  BY DEF RegistryAfterFinish
<1>7. {"suspended", "working", "terminated"} \subseteq ProcState /\ proc[a] \in ProcState
  BY DEF ProcState, Types, AATypes
<1>8. /\ StreamTypes' <=> down' \in [Agents -> Seq(DownMsgs)] /\ up' \in [Agents -> Seq(UpMsgs)]
      /\ NumberTypes' <=>
            /\ run' \in Nat \ {0}
            /\ attached' \in [AAs -> 1..run']
            /\ strategy' \in [AAs -> 0..nreq] /\ finished' \in [AAs -> 0..nreq]
            /\ registry' \subseteq AAs \X (1..run')
  BY <1>0 DEF StreamTypes, NumberTypes, Types
<1> DEFINE T1 == StreamTypes /\ TreeTypes /\ AATypes /\ NumberTypes
<1>9. T1
  BY DEF Types
<1> SUFFICES T1'
  BY <1>3 DEF Types
<1>10. CASE AARun(a)
  BY <1>1, <1>4, <1>8, <1>9, <1>10
  DEF AARun, StreamTypes, TreeTypes, AATypes, NumberTypes, aaVars, appVars
<1>11. CASE alive[a] = "up" /\ AAOnStart(a)
  <2> DEFINE request == Head(Head(down[a]).requests)
  <2>1. request \in Requests
    <3>1. Head(down[a]) \in DownMsgs /\ Head(down[a]).type = "start"
      BY <1>11, ReadFacts DEF AAOnStart, HasRequest, Types, StreamTypes
    <3>2. Head(down[a]).requests \in Seq(Requests) \ {<<>>}
      BY <3>1, DownMsgFacts
    <3> QED
      BY <3>2, ReadFacts
  <2>2. request.id \in 1..nreq /\ request.delay \in BOOLEAN
    BY <2>1 DEF Requests
  <2> HIDE DEF request
  <2>3. /\ strategy' = [strategy EXCEPT ![a] = request.id]
        /\ exps' = [exps EXCEPT ![a] = 0]
        /\ delay' = [delay EXCEPT ![a] = @ \/ request.delay]
        /\ down' \in [Agents -> Seq(DownMsgs)]
        /\ UNCHANGED <<info, alive, attached, found, nprops, newRts, appVars>>
    BY <1>2, <1>11 DEF AAOnStart, HasRequest, request
  <2>4. PICK s \in IF request.delay THEN StopsAt(proc[a]) ELSE {proc[a]} :
          \/ /\ NeedRestart(s)
             /\ proc' = [proc EXCEPT ![a] = s]
             /\ IF request.delay
                THEN SendUp(a, "searchfinished") /\ finished' = [finished EXCEPT ![a] = request.id]
                ELSE SendUp(a, "needrestart") /\ UNCHANGED finished
             /\ UNCHANGED started
          \/ /\ ~NeedRestart(s)
             /\ StartExperiment(a)
             /\ UNCHANGED finished
    BY <1>11 DEF AAOnStart, request
  <2>5. s \in ProcState
    BY <1>5, <1>7
  <2>6. /\ up' \in [Agents -> Seq(UpMsgs)] /\ proc' \in [AAs -> ProcState]
        /\ started' \in [AAs -> BOOLEAN] /\ finished' \in [AAs -> 0..nreq]
    <3>1. CASE NeedRestart(s)
      <4>1. proc' = [proc EXCEPT ![a] = s] /\ started' = started
        BY <2>4, <3>1
      <4>2. CASE request.delay
        <5>1. SendUp(a, "searchfinished") /\ finished' = [finished EXCEPT ![a] = request.id]
          BY <2>4, <3>1, <4>2
        <5> QED
          BY <1>1, <1>4, <1>9, <2>2, <2>5, <4>1, <5>1 DEF AATypes, NumberTypes, SearchRequests
      <4>3. CASE ~request.delay
        <5>1. SendUp(a, "needrestart") /\ finished' = finished
          BY <2>4, <3>1, <4>3
        <5> QED
          BY <1>1, <1>4, <1>9, <2>5, <4>1, <5>1 DEF AATypes, NumberTypes, SearchRequests
      <4> QED
        BY <4>2, <4>3
    <3>2. CASE ~NeedRestart(s)
      <4>1. StartExperiment(a) /\ finished' = finished
        BY <2>4, <3>2
      <4>2. up' = up /\ finished' = finished
        BY <4>1 DEF StartExperiment
      <4>3. proc' = [proc EXCEPT ![a] = "working"] /\ started' = [started EXCEPT ![a] = TRUE]
        BY <4>1 DEF StartExperiment
      <4>4. proc' \in [AAs -> ProcState] /\ started' \in [AAs -> BOOLEAN]
        BY <1>9, <4>3 DEF AATypes, ProcState
      <4> QED
        BY <1>9, <4>2, <4>4 DEF NumberTypes, StreamTypes
    <3> QED
      BY <3>1, <3>2
  <2>7. delay' \in [AAs -> BOOLEAN] /\ strategy' \in [AAs -> 0..nreq] /\ exps' \in [AAs -> Nat]
    BY <1>9, <2>2, <2>3 DEF AATypes, NumberTypes
  <2> QED
    BY <1>8, <1>9, <2>3, <2>6, <2>7 DEF StreamTypes, TreeTypes, AATypes, NumberTypes, appVars
<1>12. CASE alive[a] = "up" /\ AAOnStartExperiment(a)
  <2>1. down' \in [Agents -> Seq(DownMsgs)]
    BY <1>2, <1>12 DEF AAOnStartExperiment, HasRequest
  <2>2. up' \in [Agents -> Seq(UpMsgs)] /\ proc' \in [AAs -> ProcState] /\ started' \in [AAs -> BOOLEAN]
    BY <1>1, <1>4, <1>7, <1>9, <1>12
    DEF AAOnStartExperiment, StartExperiment, StreamTypes, AATypes, SearchRequests
  <2> QED
    BY <1>8, <1>9, <1>12, <2>1, <2>2
    DEF AAOnStartExperiment, StreamTypes, TreeTypes, AATypes, NumberTypes, appVars
<1>13. CASE alive[a] = "up" /\ AAOnTerminate(a)
  <2>1. down' \in [Agents -> Seq(DownMsgs)] /\ up' \in [Agents -> Seq(UpMsgs)]
    BY <1>1, <1>2, <1>4, <1>13 DEF AAOnTerminate, HasRequest
  <2> QED
    BY <1>6, <1>7, <1>8, <1>9, <1>13, <2>1
    DEF AAOnTerminate, StreamTypes, TreeTypes, AATypes, NumberTypes
<1>14. CASE alive[a] = "up" /\ AAOnQuit(a)
  <2>1. down' \in [Agents -> Seq(DownMsgs)] /\ up' \in [Agents -> Seq(UpMsgs)]
    BY <1>2, <1>9, <1>14 DEF AAOnQuit, HasRequest, StreamTypes
  <2> QED
    BY <1>6, <1>7, <1>8, <1>9, <1>14, <2>1
    DEF AAOnQuit, StreamTypes, TreeTypes, AATypes, NumberTypes
<1>15. CASE alive[a] = "up" /\ AAOnCheck(a)
  <2>1. down' \in [Agents -> Seq(DownMsgs)]
    BY <1>2, <1>15 DEF AAOnCheck, HasRequest
  <2> DEFINE ms == [i \in 1..Len(found[a]) |-> [type |-> "foundprop", props |-> {found[a][i]}]]
  <2>2. ms \in Seq(UpMsgs)
    <3>1. found[a] \in Seq(Props) /\ Len(found[a]) \in Nat
      BY <1>9 DEF AATypes
    <3>2. \A i \in 1..Len(found[a]) : {found[a][i]} \in SUBSET Props
      BY <3>1
    <3>3. \A i \in 1..Len(found[a]) : [type |-> "foundprop", props |-> {found[a][i]}] \in UpMsgs
      BY <3>2, UpMsgFacts
    <3>4. ms \in [1..Len(found[a]) -> UpMsgs]
      BY <3>3
    <3> HIDE DEF ms
    <3> QED
      BY <3>1, <3>4, SeqDef
  <2>3. <<Msg("propertiessent")>> \in Seq(UpMsgs)
    BY SingleFacts, UpMsgFacts DEF UpTypes
  <2>4. up' = [up EXCEPT ![a] = @ \o ms \o <<Msg("propertiessent")>>]
    BY <1>15 DEF AAOnCheck
  <2> HIDE DEF ms
  <2>5. up[a] \o ms \in Seq(UpMsgs)
    BY <1>9, <2>2, ConcatFacts DEF StreamTypes
  <2>6. (up[a] \o ms) \o <<Msg("propertiessent")>> \in Seq(UpMsgs)
    BY <2>3, <2>5, ConcatFacts
  <2>7. up' \in [Agents -> Seq(UpMsgs)]
    BY <1>9, <2>4, <2>6 DEF StreamTypes
  <2> QED
    BY <1>8, <1>9, <1>15, <2>1, <2>7, EmptyFacts
    DEF AAOnCheck, StreamTypes, TreeTypes, AATypes, NumberTypes, appVars
<1>16. CASE alive[a] = "up" /\ AAOnSerializeCalltree(a)
  <2>1. down' \in [Agents -> Seq(DownMsgs)]
    BY <1>2, <1>16 DEF AAOnSerializeCalltree, HasRequest
  <2>2. CalltreeMessages(a) \in Seq(UpMsgs)
    <3>1. [type |-> "calltree", aa |-> a] \in UpMsgs /\ Msg("calltreesent") \in UpMsgs
      BY UpMsgFacts DEF UpTypes
    <3>2. <<[type |-> "calltree", aa |-> a]>> \in Seq(UpMsgs) /\ <<Msg("calltreesent")>> \in Seq(UpMsgs)
      BY <3>1, SingleFacts
    <3>3. (IF newRts[a] THEN <<[type |-> "calltree", aa |-> a]>> ELSE <<>>) \in Seq(UpMsgs)
      BY <3>2, EmptyFacts
    <3> QED
      BY <3>2, <3>3, ConcatFacts DEF CalltreeMessages
  <2>3. up[a] \o CalltreeMessages(a) \in Seq(UpMsgs)
    BY <1>9, <2>2, ConcatFacts DEF StreamTypes
  <2>4. up' \in [Agents -> Seq(UpMsgs)]
    BY <1>9, <1>16, <2>3 DEF AAOnSerializeCalltree, StreamTypes
  <2> QED
    BY <1>8, <1>9, <1>16, <2>1, <2>4
    DEF AAOnSerializeCalltree, StreamTypes, TreeTypes, AATypes, NumberTypes, appVars
<1>17. CASE alive[a] = "up" /\ AAOnReinit(a)
  <2>1. down' \in [Agents -> Seq(DownMsgs)] /\ up' \in [Agents -> Seq(UpMsgs)]
    BY <1>1, <1>2, <1>4, <1>17 DEF AAOnReinit, HasRequest
  <2>2. proc' \in [AAs -> ProcState]
    BY <1>5, <1>7, <1>9, <1>17 DEF AAOnReinit, AATypes
  <2>3. run \in 1..run
    BY <1>9 DEF NumberTypes
  <2> QED
    BY <1>6, <1>8, <1>9, <1>17, <2>1, <2>2, <2>3
    DEF AAOnReinit, StreamTypes, TreeTypes, AATypes, NumberTypes
<1>18. CASE AAEvaluate(a)
  <2>0. Property(a) \in Props
    BY <1>9 DEF Property, Props, AATypes, NumberTypes
  <2>1. PICK s \in StopsAt(proc[a]) :
          \/ /\ proc' = [proc EXCEPT ![a] = s]
             /\ SendUp(a, "needrestart")
             /\ UNCHANGED <<exps, found, nprops, finished, newRts>>
          \/ \E next \in StopsAt(s), v \in Verdict(a) :
                  /\ proc' = [proc EXCEPT ![a] = next]
                  /\ exps' = [exps EXCEPT ![a] = @ + 1]
                  /\ newRts' = [newRts EXCEPT ![a] = TRUE]
                  /\ IF v = "incomplete"
                     THEN UNCHANGED <<found, nprops>>
                     ELSE /\ found' = [found EXCEPT ![a] = Append(@, Property(a))]
                          /\ nprops' = [nprops EXCEPT ![a] = @ + 1]
                  /\ SendUp(a, IF v = "finished" THEN "searchfinished"
                               ELSE IF NeedRestart(next) THEN "needrestart" ELSE "reqexperiment")
                  /\ finished' = IF v = "finished" THEN [finished EXCEPT ![a] = strategy[a]] ELSE finished
    BY <1>18 DEF AAEvaluate
  <2>2. s \in ProcState
    BY <1>5, <1>7
  <2>3. /\ up' \in [Agents -> Seq(UpMsgs)] /\ proc' \in [AAs -> ProcState]
        /\ exps' \in [AAs -> Nat] /\ nprops' \in [AAs -> Nat] /\ newRts' \in [AAs -> BOOLEAN]
        /\ found' \in [AAs -> Seq(Props)] /\ finished' \in [AAs -> 0..nreq]
    <3>1. CASE /\ proc' = [proc EXCEPT ![a] = s]
               /\ SendUp(a, "needrestart")
               /\ UNCHANGED <<exps, found, nprops, finished, newRts>>
      BY <1>1, <1>4, <1>9, <2>2, <3>1 DEF AATypes, NumberTypes, SearchRequests
    <3>2. ASSUME NEW next \in StopsAt(s), NEW v \in Verdict(a),
                 proc' = [proc EXCEPT ![a] = next],
                 exps' = [exps EXCEPT ![a] = @ + 1],
                 newRts' = [newRts EXCEPT ![a] = TRUE],
                 IF v = "incomplete"
                 THEN UNCHANGED <<found, nprops>>
                 ELSE /\ found' = [found EXCEPT ![a] = Append(@, Property(a))]
                      /\ nprops' = [nprops EXCEPT ![a] = @ + 1],
                 SendUp(a, IF v = "finished" THEN "searchfinished"
                           ELSE IF NeedRestart(next) THEN "needrestart" ELSE "reqexperiment"),
                 finished' = IF v = "finished" THEN [finished EXCEPT ![a] = strategy[a]] ELSE finished
          PROVE  /\ up' \in [Agents -> Seq(UpMsgs)] /\ proc' \in [AAs -> ProcState]
                 /\ exps' \in [AAs -> Nat] /\ nprops' \in [AAs -> Nat] /\ newRts' \in [AAs -> BOOLEAN]
                 /\ found' \in [AAs -> Seq(Props)] /\ finished' \in [AAs -> 0..nreq]
      <4>1. next \in ProcState
        BY <1>5, <2>2, <3>2
      <4>2. Append(found[a], Property(a)) \in Seq(Props)
        BY <1>9, <2>0, AppendFacts DEF AATypes
      <4>3. found' \in [AAs -> Seq(Props)] /\ nprops' \in [AAs -> Nat]
        <5>1. CASE v = "incomplete"
          BY <1>9, <3>2, <5>1 DEF AATypes
        <5>2. CASE v # "incomplete"
          <6>1. found' = [found EXCEPT ![a] = Append(@, Property(a))] /\ nprops' = [nprops EXCEPT ![a] = @ + 1]
            BY <3>2, <5>2
          <6> QED
            BY <1>9, <4>2, <6>1 DEF AATypes
        <5> QED
          BY <5>1, <5>2
      <4>4. PICK t : /\ t = IF v = "finished" THEN "searchfinished"
                            ELSE IF NeedRestart(next) THEN "needrestart" ELSE "reqexperiment"
                     /\ SendUp(a, t)
        BY <3>2
      <4>5. t \in SearchRequests
        BY <4>4 DEF SearchRequests
      <4>6. up' \in [Agents -> Seq(UpMsgs)]
        BY <1>1, <1>4, <4>4, <4>5
      <4>7. finished' \in [AAs -> 0..nreq]
        BY <1>9, <3>2 DEF NumberTypes
      <4>8. proc' \in [AAs -> ProcState]
        BY <1>9, <3>2, <4>1 DEF AATypes
      <4>9. exps' \in [AAs -> Nat] /\ newRts' \in [AAs -> BOOLEAN]
        BY <1>9, <3>2 DEF AATypes
      <4> QED
        BY <4>3, <4>6, <4>7, <4>8, <4>9
    <3> QED
      BY <2>1, <3>1, <3>2
  <2>4. started' \in [AAs -> BOOLEAN]
    BY <1>9, <1>18 DEF AAEvaluate, AATypes
  <2> QED
    BY <1>8, <1>9, <1>18, <2>3, <2>4
    DEF AAEvaluate, StreamTypes, TreeTypes, AATypes, NumberTypes, appVars
<1> QED
  BY <1>10, <1>11, <1>12, <1>13, <1>14, <1>15, <1>16, <1>17, <1>18 DEF AAStep, AAHandleRequest

\* So do the steps of a high-level agent.
LEMMA HLAStepTypes ==
    ASSUME Types, NEW h \in HLAs, HLAStep(h), UNCHANGED <<aaVars, appVars, feVars>>
    PROVE  Types'
<1> h \in Agents
  BY TreeFacts
<1>0. Requests' = Requests /\ DownMsgs' = DownMsgs /\ UpMsgs' = UpMsgs
  <2>1. nreq' = nreq
    BY DEF feVars, ctlVars
  <2> QED
    BY <2>1 DEF Requests, DownMsgs, UpMsgs
<1>1. AATypes' /\ NumberTypes' /\ FETypes'
  BY <1>0 DEF Types, AATypes, NumberTypes, FETypes, aaVars, appVars, feVars, loopVars, ctlVars, decVars
<1> DEFINE D(d) == d \in [Agents -> Seq(DownMsgs)]
           U(u) == u \in [Agents -> Seq(UpMsgs)]
           I == info \in [Agents -> AgentInfo]
           A == alive \in [Agents -> {"starting", "up", "down"}]
<1>2. D(down) /\ U(up) /\ I /\ A /\ HLATypes
  BY DEF Types, StreamTypes, TreeTypes
<1> SUFFICES D(down') /\ U(up') /\ I' /\ A' /\ HLATypes'
  BY <1>0, <1>1 DEF Types, StreamTypes, TreeTypes
<1>3. ASSUME NEW t \in DownTypes, down[h] # <<>> PROVE ForwardDown(h, Msg(t)) \in [Agents -> Seq(DownMsgs)]
  BY <1>2, <1>3, DownMsgFacts, ForwardedDown
<1>4. ASSUME NEW c \in Agents, Parent[c] = h, up[c] # <<>>, NEW ms \in Seq(UpMsgs)
      PROVE  ForwardUp(c, h, ms) \in [Agents -> Seq(UpMsgs)]
  <2>1. c # h
    BY <1>4, TreeFacts
  <2> QED
    BY <1>2, <1>4, <2>1, ForwardedUp
<1>5. ASSUME NEW t \in UpTypes PROVE <<Msg(t)>> \in Seq(UpMsgs)
  BY <1>5, UpMsgFacts, SingleFacts
<1>6. /\ "properties_sent" \in {"properties_sent", "appl_terminated", "calltree_sent"}
      /\ \A f \in {"properties_sent", "appl_terminated", "calltree_sent"} :
            SetAll(h, f, FALSE) \in [Agents -> AgentInfo]
      /\ SetAll(h, "status_reinit", "INITIAL") \in [Agents -> AgentInfo]
      /\ SetAll(h, "search_status", "UNDEFINED") \in [Agents -> AgentInfo]
  <2>1. ASSUME NEW f \in {"properties_sent", "appl_terminated", "calltree_sent"}
        PROVE  SetAll(h, f, FALSE) \in [Agents -> AgentInfo]
    <3>1. f = "properties_sent" \/ f = "appl_terminated" \/ f = "calltree_sent"
      OBVIOUS
    <3>2. CASE f = "properties_sent"
      BY <1>2, <3>2 DEF SetAll, AgentInfo
    <3>3. CASE f = "appl_terminated"
      BY <1>2, <3>3 DEF SetAll, AgentInfo
    <3>4. CASE f = "calltree_sent"
      BY <1>2, <3>4 DEF SetAll, AgentInfo
    <3> QED
      BY <3>1, <3>2, <3>3, <3>4
  <2>2. SetAll(h, "status_reinit", "INITIAL") \in [Agents -> AgentInfo]
    BY <1>2 DEF SetAll, AgentInfo, Status
  <2>3. SetAll(h, "search_status", "UNDEFINED") \in [Agents -> AgentInfo]
    BY <1>2 DEF SetAll, AgentInfo, SearchStatus
  <2> QED
    BY <2>1, <2>2, <2>3
<1>7. ASSUME NEW c \in Agents
      PROVE  /\ [info EXCEPT ![c].properties_sent = TRUE] \in [Agents -> AgentInfo]
             /\ [info EXCEPT ![c].appl_terminated = TRUE] \in [Agents -> AgentInfo]
             /\ [info EXCEPT ![c].calltree_sent = TRUE] \in [Agents -> AgentInfo]
             /\ \A v \in SearchStatus : [info EXCEPT ![c].search_status = v] \in [Agents -> AgentInfo]
             /\ [info EXCEPT ![c] = IF @.status = "INITIAL"
                                     THEN [@ EXCEPT !.status = "STARTED"]
                                     ELSE [@ EXCEPT !.status_reinit = "STARTED"]] \in [Agents -> AgentInfo]
  <2>0. info[c] \in AgentInfo
    BY <1>2
  <2>1. /\ [info[c] EXCEPT !.properties_sent = TRUE] \in AgentInfo
        /\ [info[c] EXCEPT !.appl_terminated = TRUE] \in AgentInfo
        /\ [info[c] EXCEPT !.calltree_sent = TRUE] \in AgentInfo
    BY <2>0 DEF AgentInfo
  <2>2. \A v \in SearchStatus : [info[c] EXCEPT !.search_status = v] \in AgentInfo
    BY <2>0 DEF AgentInfo
  <2>3. /\ [info[c] EXCEPT !.status = "STARTED"] \in AgentInfo
        /\ [info[c] EXCEPT !.status_reinit = "STARTED"] \in AgentInfo
    BY <2>0 DEF AgentInfo, Status
  <2> QED
    BY <1>2, <2>1, <2>2, <2>3
<1>8. <<>> \in Seq(UpMsgs)
  BY EmptyFacts
<1>9. CASE HLARun(h)
  BY <1>2, <1>9 DEF HLARun, HLATypes
<1>10. CASE alive[h] = "up" /\ HLAOnStart(h)
  <2>1. Head(down[h]) \in DownMsgs /\ down[h] # <<>>
    BY <1>2, <1>10, ReadFacts DEF HLAOnStart, HasRequest
  <2>2. D(down')
    BY <1>2, <1>10, <2>1, ForwardedDown DEF HLAOnStart
  <2> QED
    BY <1>2, <1>10, <2>2 DEF HLAOnStart, hlaVars, HLATypes
<1>11. CASE alive[h] = "up" /\ HLAOnCheck(h)
  BY <1>2, <1>3, <1>6, <1>11 DEF HLAOnCheck, HasRequest, DownTypes, hlaVars, HLATypes
<1>12. CASE alive[h] = "up" /\ HLAOnTerminate(h)
  BY <1>2, <1>3, <1>6, <1>12 DEF HLAOnTerminate, HasRequest, DownTypes, hlaVars, HLATypes
<1>13. CASE alive[h] = "up" /\ HLAOnSerializeCalltree(h)
  BY <1>2, <1>3, <1>6, <1>13 DEF HLAOnSerializeCalltree, HasRequest, DownTypes, hlaVars, HLATypes
<1>14. CASE alive[h] = "up" /\ HLAOnReinit(h)
  BY <1>2, <1>3, <1>6, <1>14 DEF HLAOnReinit, HasRequest, DownTypes, HLATypes
<1>15. CASE alive[h] = "up" /\ HLAOnQuit(h)
  BY <1>2, <1>3, <1>15 DEF HLAOnQuit, HasRequest, DownTypes, hlaVars, HLATypes
<1>16. ASSUME NEW c \in Agents, HLAHandleMessage(h, c) PROVE D(down') /\ U(up') /\ I' /\ A' /\ HLATypes'
  <2>0. Parent[c] = h /\ down' = down /\ alive' = alive /\ timer' = timer
    BY <1>16
    DEF HLAHandleMessage, HLAOnHeartbeat, HLAOnFoundProp, HLAOnCalltree, HLAOnCalltreeSent,
        HLAOnSearchRequest, HLAOnTerminated, HLAOnPropertiesSent, hlaVars
  <2> SUFFICES U(up') /\ I' /\ properties' \in [HLAs -> SUBSET Props]
    BY <1>2, <2>0 DEF HLATypes
  <2>1. CASE HLAOnHeartbeat(h, c)
    BY <1>2, <1>4, <1>7, <1>8, <2>0, <2>1 DEF HLAOnHeartbeat, HasMessage, hlaVars, HLATypes
  <2>2. CASE HLAOnFoundProp(h, c)
    <3>1. up[c] # <<>> /\ Head(up[c]).type = "foundprop"
      BY <2>2 DEF HLAOnFoundProp, HasMessage
    <3>2. Head(up[c]) \in UpMsgs
      BY <1>2, <3>1, ReadFacts
    <3>3. Head(up[c]).props \subseteq Props /\ <<Head(up[c])>> \in Seq(UpMsgs)
      BY <3>1, <3>2, UpMsgFacts, SingleFacts
    <3> QED
      <4>0. up' = ForwardUp(c, h, <<Head(up[c])>>) \/ up' = ForwardUp(c, h, <<>>)
        BY <2>2 DEF HLAOnFoundProp
      <4>1. U(up')
        <5>1. /\ ForwardUp(c, h, <<Head(up[c])>>) \in [Agents -> Seq(UpMsgs)]
              /\ ForwardUp(c, h, <<>>) \in [Agents -> Seq(UpMsgs)]
          BY <1>4, <1>8, <2>0, <3>1, <3>3
        <5> QED
          BY <4>0, <5>1
      <4>2. properties' \in [HLAs -> SUBSET Props]
        BY <1>2, <2>2, <3>3 DEF HLAOnFoundProp, HLATypes
      <4> QED
        BY <1>2, <2>2, <4>1, <4>2 DEF HLAOnFoundProp
  <2>3. CASE HLAOnCalltree(h, c)
    <3>1. up[c] # <<>>
      BY <2>3 DEF HLAOnCalltree, HasMessage
    <3>2. <<Head(up[c])>> \in Seq(UpMsgs)
      BY <1>2, <3>1, ReadFacts, SingleFacts
    <3> QED
      BY <1>2, <1>4, <2>0, <2>3, <3>1, <3>2 DEF HLAOnCalltree, hlaVars, HLATypes
  <2>4. CASE HLAOnCalltreeSent(h, c)
    <3>1. <<Msg("calltreesent")>> \in Seq(UpMsgs)
      BY <1>5 DEF UpTypes
    <3>2. up[c] # <<>> /\ info' = [info EXCEPT ![c].calltree_sent = TRUE]
      BY <2>4 DEF HLAOnCalltreeSent, HasMessage
    <3> QED
      <4>1. U(up')
        BY <1>4, <1>8, <2>0, <2>4, <3>1, <3>2 DEF HLAOnCalltreeSent
      <4>2. I'
        BY <1>7, <3>2
      <4>3. properties' = properties
        BY <2>4 DEF HLAOnCalltreeSent, hlaVars
      <4> QED
        BY <1>2, <4>1, <4>2, <4>3 DEF HLATypes
  <2>5. CASE HLAOnSearchRequest(h, c)
    <3> DEFINE now == [info EXCEPT ![c].search_status = StatusOf(Head(up[c]).type)]
    <3>1. up[c] # <<>> /\ now \in [Agents -> AgentInfo]
      <4>1. StatusOf(Head(up[c]).type) \in SearchStatus /\ up[c] # <<>>
        BY <2>5 DEF HLAOnSearchRequest, SearchRequests, SearchStatus, StatusOf
      <4> QED
        BY <1>7, <4>1
    <3>2. /\ up' = IF AllReported(Children(h), now)
                    THEN ForwardUp(c, h, <<Msg(RequestOf(Combined(Children(h), now)))>>)
                    ELSE ForwardUp(c, h, <<>>)
          /\ info' = IF AllReported(Children(h), now) THEN SetAll(h, "search_status", "UNDEFINED") ELSE now
      BY <2>5 DEF HLAOnSearchRequest
    <3> HIDE DEF now
    <3>3. <<Msg(RequestOf(Combined(Children(h), now)))>> \in Seq(UpMsgs)
      <4>1. RequestOf(Combined(Children(h), now)) \in UpTypes
        BY DEF RequestOf, Combined, UpTypes, SearchRequests
      <4> QED
        BY <1>5, <4>1
    <3> QED
      BY <1>2, <1>4, <1>6, <1>8, <2>0, <2>5, <3>1, <3>2, <3>3 DEF HLAOnSearchRequest, hlaVars, HLATypes
  <2>6. CASE HLAOnTerminated(h, c)
    <3>1. <<Msg("terminated")>> \in Seq(UpMsgs)
      BY <1>5 DEF UpTypes
    <3>2. up[c] # <<>> /\ info' = [info EXCEPT ![c].appl_terminated = TRUE]
      BY <2>6 DEF HLAOnTerminated, HasMessage
    <3> QED
      <4>1. U(up')
        BY <1>4, <1>8, <2>0, <2>6, <3>1, <3>2 DEF HLAOnTerminated
      <4>2. I'
        BY <1>7, <3>2
      <4>3. properties' = properties
        BY <2>6 DEF HLAOnTerminated, hlaVars
      <4> QED
        BY <1>2, <4>1, <4>2, <4>3 DEF HLATypes
  <2>7. CASE HLAOnPropertiesSent(h, c)
    <3>1. <<Msg("propertiessent")>> \in Seq(UpMsgs)
      BY <1>5 DEF UpTypes
    <3>2. ClusterProps(h) \o <<Msg("propertiessent")>> \in Seq(UpMsgs)
      <4>1. [type |-> "foundprop", props |-> properties[h]] \in UpMsgs
        BY <1>2, UpMsgFacts DEF HLATypes
      <4>2. <<[type |-> "foundprop", props |-> properties[h]]>> \in Seq(UpMsgs)
        BY <4>1, SingleFacts
      <4>3. ClusterProps(h) \in Seq(UpMsgs)
        BY <1>8, <4>2 DEF ClusterProps
      <4> QED
        BY <3>1, <4>3, ConcatFacts
    <3>3. up[c] # <<>> /\ info' = [info EXCEPT ![c].properties_sent = TRUE]
      BY <2>7 DEF HLAOnPropertiesSent, HasMessage
    <3> QED
      <4>0. \E ms \in Seq(UpMsgs) : up' = ForwardUp(c, h, ms)
        BY <1>8, <2>7, <3>2 DEF HLAOnPropertiesSent
      <4>1. U(up')
        BY <1>4, <2>0, <3>3, <4>0
      <4>2. properties' \in [HLAs -> SUBSET Props]
        <5>1. properties' = [properties EXCEPT ![h] = {}] \/ properties' = properties
          BY <2>7 DEF HLAOnPropertiesSent
        <5> QED
          BY <1>2, <5>1 DEF HLATypes
      <4> QED
        BY <1>7, <3>3, <4>1, <4>2
  <2> QED
    BY <1>16, <2>1, <2>2, <2>3, <2>4, <2>5, <2>6, <2>7 DEF HLAHandleMessage
<1>17. CASE HLAHandleTimeout(h)
  <2>1. Append(up[h], Msg("heartbeat")) \in Seq(UpMsgs)
    BY <1>2, UpMsgFacts, AppendFacts DEF UpTypes
  <2> QED
    BY <1>2, <1>17, <2>1, ZenonT(60) DEF HLAHandleTimeout, HLATypes
<1> QED
  BY <1>9, <1>10, <1>11, <1>12, <1>13, <1>14, <1>15, <1>16, <1>17 DEF HLAStep, HLAHandleRequest

\* And the frontend's: the parts of its handlers,
LEMMA FEInfoTypes ==
    ASSUME NEW i \in [Agents -> AgentInfo]
    PROVE  /\ ForChildren(i, "properties_sent", FALSE) \in [Agents -> AgentInfo]
           /\ ForChildren(i, "appl_terminated", FALSE) \in [Agents -> AgentInfo]
           /\ ForChildren(i, "calltree_sent", FALSE) \in [Agents -> AgentInfo]
           /\ ForChildren(i, "search_status", "UNDEFINED") \in [Agents -> AgentInfo]
  BY DEF ForChildren, AgentInfo, SearchStatus

LEMMA FESentTypes ==
    ASSUME Types, NEW t \in DownTypes
    PROVE  SendToChildren(FE, Msg(t)) \in [Agents -> Seq(DownMsgs)]
  BY DownMsgFacts, SentDown DEF Types, StreamTypes

LEMMA StartTypes ==
    ASSUME Types, NEW i \in [Agents -> AgentInfo], Start(i)
    PROVE  /\ down' \in [Agents -> Seq(DownMsgs)] /\ info' \in [Agents -> AgentInfo]
           /\ buffer' \in Seq(Requests) /\ ended' \in BOOLEAN
<1>1. buffer \in Seq(Requests) /\ down \in [Agents -> Seq(DownMsgs)] /\ ended \in BOOLEAN
  BY DEF Types, NumberTypes, StreamTypes, FETypes
<1>2. CASE buffer = <<>>
  BY <1>1, <1>2 DEF Start
<1>3. CASE buffer # <<>>
  <2>1. [type |-> "start", requests |-> buffer] \in DownMsgs
    BY <1>1, <1>3, DownMsgFacts
  <2>2. SendToChildren(FE, [type |-> "start", requests |-> buffer]) \in [Agents -> Seq(DownMsgs)]
    BY <1>1, <2>1, SentDown
  <2>3. <<>> \in Seq(Requests)
    BY EmptyFacts
  <2> QED
    BY <1>1, <1>3, <2>2, <2>3, FEInfoTypes DEF Start
<1> QED
  BY <1>2, <1>3

LEMMA DecideTypes ==
    ASSUME Types, NEW i \in [Agents -> AgentInfo], DecideContinuation(i)
    PROVE  /\ down' \in [Agents -> Seq(DownMsgs)] /\ info' \in [Agents -> AgentInfo]
           /\ buffer' \in Seq(Requests) /\ ended' \in BOOLEAN
           /\ {need_restart', restart_requested', shutdown_allowed', quit_fe', quitting'} \subseteq BOOLEAN
<1>1. /\ buffer \in Seq(Requests) /\ down \in [Agents -> Seq(DownMsgs)]
      /\ {ended, need_restart, restart_requested, shutdown_allowed, quit_fe, quitting} \subseteq BOOLEAN
  BY DEF Types, NumberTypes, StreamTypes, FETypes
<1>2. \A t \in {"check", "startexperiment", "quit"} : SendToChildren(FE, Msg(t)) \in [Agents -> Seq(DownMsgs)]
  BY FESentTypes DEF DownTypes
<1>3. /\ ForChildren(i, "properties_sent", FALSE) \in [Agents -> AgentInfo]
      /\ ForChildren(ForChildren(i, "properties_sent", FALSE), "search_status", "UNDEFINED")
            \in [Agents -> AgentInfo]
  BY FEInfoTypes
<1>4. shutdown_allowed' = shutdown_allowed
  BY DEF DecideContinuation
<1>5. ASSUME NEW s, Enforce(i, s)
      PROVE  /\ down' \in [Agents -> Seq(DownMsgs)] /\ info' \in [Agents -> AgentInfo]
             /\ buffer' \in Seq(Requests) /\ ended' \in BOOLEAN
             /\ {need_restart', restart_requested', quit_fe', quitting'} \subseteq BOOLEAN
  <2>1. CASE /\ Start(ForChildren(i, "properties_sent", FALSE))
             /\ restart_requested' = FALSE
             /\ UNCHANGED <<need_restart, quit_fe, quitting>>
    BY <1>1, <1>3, <2>1, StartTypes
  <2>2. CASE /\ info' = ForChildren(ForChildren(i, "properties_sent", FALSE), "search_status", "UNDEFINED")
             /\ down' = SendToChildren(FE, Msg("startexperiment"))
             /\ restart_requested' = FALSE
             /\ UNCHANGED <<buffer, ended, need_restart, quit_fe, quitting>>
    BY <1>1, <1>2, <1>3, <2>2
  <2>3. CASE /\ info' = ForChildren(i, "properties_sent", FALSE)
             /\ Quit
             /\ restart_requested' = FALSE
             /\ UNCHANGED <<buffer, ended, need_restart>>
    BY <1>1, <1>2, <1>3, <2>3 DEF Quit
  <2>4. CASE /\ info' = [n \in Agents |->
                           IF Parent[n] = FE
                           THEN [i[n] EXCEPT !.properties_sent = FALSE, !.appl_terminated = FALSE,
                                             !.search_status = "UNDEFINED", !.status_reinit = "INITIAL"]
                           ELSE i[n]]
             /\ need_restart' = TRUE
             /\ restart_requested' = TRUE
             /\ ended' = TRUE
             /\ UNCHANGED <<down, buffer, quit_fe, quitting>>
    <3>1. info' \in [Agents -> AgentInfo]
      BY <2>4, ZenonT(60) DEF AgentInfo, SearchStatus, Status
    <3> QED
      BY <1>1, <2>4, <3>1
  <2> QED
    BY <1>5, <2>1, <2>2, <2>3, <2>4 DEF Enforce
<1>6. CASE UNCHANGED <<down, buffer, ended, need_restart, quit_fe, quitting>>
           /\ info' = i /\ restart_requested' = FALSE
  BY <1>1, <1>4, <1>6
<1>7. CASE /\ info' = i
           /\ down' = SendToChildren(FE, Msg("check"))
           /\ restart_requested' = FALSE
           /\ UNCHANGED <<buffer, ended, need_restart, quit_fe, quitting>>
  BY <1>1, <1>2, <1>4, <1>7
<1>8. CASE \E s : Enforce(i, s)
  BY <1>1, <1>4, <1>5, <1>8
<1> QED
  BY <1>6, <1>7, <1>8 DEF DecideContinuation

\* its handlers,
LEMMA FEMessageTypes ==
    ASSUME Types, NEW c \in Agents, FEHandleMessage(c)
    PROVE  Types'
<1>0. /\ UNCHANGED <<alive, aaVars, appVars, hlaVars, loop, timerOn, ctlVars>>
      /\ Parent[c] = FE /\ ReadMessage(c)
  BY DEF FEHandleMessage
<1>1. Requests' = Requests /\ DownMsgs' = DownMsgs /\ UpMsgs' = UpMsgs
  BY <1>0 DEF ctlVars, Requests, DownMsgs, UpMsgs
<1>2. up[c] # <<>> /\ Head(up[c]) \in UpMsgs
  <2>1. up[c] # <<>>
    BY DEF FEHandleMessage, FEOnHeartbeat, FEOnFoundProp, FEOnCalltree, FEOnSearchRequest,
           FEOnPropertiesSent, FEOnTerminated, FEOnCalltreeSent, HasMessage
  <2> QED
    BY <2>1, ReadFacts DEF Types, StreamTypes
<1>3. up' \in [Agents -> Seq(UpMsgs)]
  <2>1. Tail(up[c]) \in Seq(UpMsgs)
    BY <1>2, ReadFacts DEF Types, StreamTypes
  <2> QED
    BY <1>0, <2>1 DEF ReadMessage, Types, StreamTypes
<1>4. AATypes' /\ HLATypes'
  BY <1>0 DEF Types, AATypes, HLATypes, aaVars, hlaVars
<1> DEFINE decs == {need_restart, restart_requested, shutdown_allowed, quit_fe, quitting}
<1>5. /\ info \in [Agents -> AgentInfo] /\ ended \in BOOLEAN /\ decs \subseteq BOOLEAN
      /\ down \in [Agents -> Seq(DownMsgs)] /\ buffer \in Seq(Requests)
      /\ metaproperties \subseteq Props /\ trees \subseteq AAs
  BY DEF Types, TreeTypes, StreamTypes, NumberTypes, FETypes
<1>6. ASSUME /\ down' \in [Agents -> Seq(DownMsgs)] /\ info' \in [Agents -> AgentInfo]
             /\ buffer' \in Seq(Requests) /\ ended' \in BOOLEAN
             /\ {need_restart', restart_requested', shutdown_allowed', quit_fe', quitting'} \subseteq BOOLEAN
             /\ metaproperties' \subseteq Props /\ trees' \subseteq AAs
      PROVE  Types'
  <2>1. StreamTypes' /\ TreeTypes'
    BY <1>0, <1>1, <1>3, <1>6 DEF StreamTypes, TreeTypes, Types
  <2>2. NumberTypes'
    BY <1>0, <1>1, <1>6 DEF NumberTypes, Types, aaVars, appVars, ctlVars
  <2>3. FETypes'
    BY <1>0, <1>6 DEF FETypes, Types, ctlVars
  <2> QED
    BY <1>4, <2>1, <2>2, <2>3 DEF Types
<1>7. /\ [info EXCEPT ![c].properties_sent = TRUE] \in [Agents -> AgentInfo]
      /\ [info EXCEPT ![c].appl_terminated = TRUE] \in [Agents -> AgentInfo]
      /\ [info EXCEPT ![c].calltree_sent = TRUE] \in [Agents -> AgentInfo]
      /\ \A v \in SearchStatus : [info EXCEPT ![c].search_status = v] \in [Agents -> AgentInfo]
      /\ [info EXCEPT ![c] = IF @.status = "INITIAL"
                              THEN [@ EXCEPT !.status = "STARTED", !.properties_sent = FALSE]
                              ELSE [@ EXCEPT !.status_reinit = "STARTED", !.properties_sent = FALSE]]
            \in [Agents -> AgentInfo]
  <2>0. info[c] \in AgentInfo
    BY <1>5
  <2>1. /\ [info[c] EXCEPT !.properties_sent = TRUE] \in AgentInfo
        /\ [info[c] EXCEPT !.appl_terminated = TRUE] \in AgentInfo
        /\ [info[c] EXCEPT !.calltree_sent = TRUE] \in AgentInfo
    BY <2>0 DEF AgentInfo
  <2>2. \A v \in SearchStatus : [info[c] EXCEPT !.search_status = v] \in AgentInfo
    BY <2>0 DEF AgentInfo
  <2>3. /\ [info[c] EXCEPT !.status = "STARTED", !.properties_sent = FALSE] \in AgentInfo
        /\ [info[c] EXCEPT !.status_reinit = "STARTED", !.properties_sent = FALSE] \in AgentInfo
    BY <2>0 DEF AgentInfo, Status
  <2> QED
    BY <1>5, <2>1, <2>2, <2>3
<1>8. CASE FEOnHeartbeat(c)
  BY <1>5, <1>6, <1>7, <1>8 DEF FEOnHeartbeat, decVars
<1>9. CASE FEOnFoundProp(c)
  <2>1. Head(up[c]).props \subseteq Props
    BY <1>2, <1>9, UpMsgFacts DEF FEOnFoundProp, HasMessage
  <2> QED
    BY <1>5, <1>6, <1>9, <2>1 DEF FEOnFoundProp, decVars
<1>10. CASE FEOnCalltree(c)
  <2>1. Head(up[c]).aa \in AAs
    BY <1>2, <1>10, UpMsgFacts DEF FEOnCalltree, HasMessage
  <2> QED
    BY <1>5, <1>6, <1>10, <2>1 DEF FEOnCalltree, decVars
<1>11. CASE FEOnSearchRequest(c)
  <2>1. StatusOf(Head(up[c]).type) \in SearchStatus
    BY <1>11 DEF FEOnSearchRequest, SearchRequests, SearchStatus, StatusOf
  <2>2. PICK i \in [Agents -> AgentInfo] : DecideContinuation(i)
    BY <1>7, <1>11, <2>1 DEF FEOnSearchRequest
  <2> QED
    BY <1>5, <1>6, <1>11, <2>2, DecideTypes DEF FEOnSearchRequest
<1>12. CASE FEOnPropertiesSent(c)
  <2>1. PICK i \in [Agents -> AgentInfo] :
          DecideContinuation(i) \/ (info' = i /\ UNCHANGED <<down, ended, decVars, buffer>>)
    BY <1>7, <1>12 DEF FEOnPropertiesSent
  <2>2. CASE DecideContinuation(i)
    BY <1>5, <1>6, <1>12, <2>2, DecideTypes DEF FEOnPropertiesSent
  <2>3. CASE info' = i /\ UNCHANGED <<down, ended, decVars, buffer>>
    BY <1>5, <1>6, <1>12, <2>3 DEF FEOnPropertiesSent, decVars
  <2> QED
    BY <2>1, <2>2, <2>3
<1>13. CASE FEOnTerminated(c)
  BY <1>5, <1>6, <1>7, <1>13 DEF FEOnTerminated, decVars
<1>14. CASE FEOnCalltreeSent(c)
  <2>1. info' \in [Agents -> AgentInfo] /\ ended' \in BOOLEAN
    <3>1. ForChildren(info, "calltree_sent", FALSE) \in [Agents -> AgentInfo]
      BY <1>5, FEInfoTypes
    <3> QED
      BY <1>5, <1>7, <1>14, <3>1 DEF FEOnCalltreeSent
  <2> QED
    BY <1>5, <1>6, <1>14, <2>1 DEF FEOnCalltreeSent, decVars
<1> QED
  BY <1>8, <1>9, <1>10, <1>11, <1>12, <1>13, <1>14 DEF FEHandleMessage

\* and what it does without a message.
LEMMA FEOwnTypes ==
    ASSUME Types,
           \/ FEHandleStep \/ FETimeout \/ FEQuitFinished
           \/ FERestart \/ FERerun \/ FEResults \/ FECalltreeDone \/ FEPhaseAgain
           \/ FERestartDone \/ FESearchEnded
           \/ FEBegin("analysis") \/ FEBegin("phase") \/ FEConsiderRestart
           \/ FEFinalize
    PROVE  Types'
<1>1. /\ UNCHANGED <<up, alive, aaVars, hlaVars>>
  BY DEF FEHandleStep, FETimeout, FEQuitFinished, FERestart, FERerun, FEResults, FECalltreeDone,
         FEPhaseAgain, FERestartDone, FESearchEnded, FEBegin, FEConsiderRestart, FEFinalize, treeVars
<1>2. UpMsgs' = UpMsgs /\ AATypes' /\ HLATypes'
  BY <1>1 DEF Types, AATypes, HLATypes, aaVars, hlaVars, UpMsgs
<1>3. /\ down \in [Agents -> Seq(DownMsgs)] /\ info \in [Agents -> AgentInfo]
      /\ buffer \in Seq(Requests) /\ run \in Nat \ {0} /\ nreq \in Nat \ {0} /\ runs \in Nat
      /\ attached \in [AAs -> 1..run]
      /\ strategy \in [AAs -> 0..nreq] /\ finished \in [AAs -> 0..nreq]
      /\ registry \subseteq AAs \X (1..run)
      /\ metaproperties \subseteq Props /\ pools \subseteq [prop : Props, step : Nat] /\ trees \subseteq AAs
      /\ op \in {"gather", "analysis", "restart", "phase", "again", "search", "none", "final"}
      /\ stage \in {"run", "terminating", "restarted", "calltree"}
      /\ loop \in {"off", "STARTUP", "STARTUP_REINIT", "APPLICATION_TERMINATION", "REQUESTCALLTREE"}
      /\ {ended, timerOn, need_restart, restart_requested, shutdown_allowed, quit_fe, quitting, executed}
            \subseteq BOOLEAN
  BY DEF Types, StreamTypes, TreeTypes, NumberTypes, FETypes
<1>4. ASSUME nreq' = nreq, run' = run, registry' \subseteq registry,
             down' \in [Agents -> Seq(DownMsgs)], info' \in [Agents -> AgentInfo],
             buffer' \in Seq(Requests), runs' \in Nat,
             FETypes'
      PROVE  Types'
  <2>1. Requests' = Requests /\ DownMsgs' = DownMsgs
    BY <1>4 DEF Requests, DownMsgs
  <2>2. StreamTypes' /\ TreeTypes'
    BY <1>1, <1>2, <1>4, <2>1 DEF Types, StreamTypes, TreeTypes
  <2>3. NumberTypes'
    BY <1>1, <1>3, <1>4, <2>1 DEF NumberTypes, aaVars
  <2> QED
    BY <1>2, <1>4, <2>2, <2>3 DEF Types
<1>5. ASSUME PushRequest, UNCHANGED <<down, info, run, registry, runs>>, FETypes'
      PROVE  Types'
  <2>1. nreq' = nreq + 1 /\ buffer' = Append(buffer, Request(nreq + 1))
    BY <1>5 DEF PushRequest
  <2>2. nreq' \in Nat \ {0} /\ nreq <= nreq' /\ 0..nreq \subseteq 0..nreq'
    BY <1>3, <2>1
  <2>3. Request(nreq + 1) \in Requests'
    BY <1>3, <2>1, FrontendAssumption DEF Request, Requests
  <2>4. /\ buffer \in Seq(Requests') /\ down \in [Agents -> Seq(DownMsgs')]
    BY <1>3, <2>2, MoreRequests
  <2>5. buffer' \in Seq(Requests')
    BY <2>1, <2>3, <2>4, AppendFacts
  <2>6. StreamTypes' /\ TreeTypes'
    BY <1>1, <1>2, <1>5, <2>4 DEF Types, StreamTypes, TreeTypes
  <2>7. NumberTypes'
    <3>1. strategy' \in [AAs -> 0..nreq'] /\ finished' \in [AAs -> 0..nreq']
      BY <1>1, <1>3, <2>2 DEF aaVars
    <3> QED
      BY <1>1, <1>3, <1>5, <2>2, <2>5, <3>1 DEF NumberTypes, aaVars
  <2> QED
    BY <1>2, <1>5, <2>6, <2>7 DEF Types
<1>6. ASSUME NEW t \in DownTypes PROVE SendToChildren(FE, Msg(t)) \in [Agents -> Seq(DownMsgs)]
  BY <1>6, FESentTypes
<1>7. /\ ForChildren(info, "appl_terminated", FALSE) \in [Agents -> AgentInfo]
      /\ ForChildren(info, "calltree_sent", FALSE) \in [Agents -> AgentInfo]
      /\ ForChildren(ForChildren(info, "search_status", "UNDEFINED"), "properties_sent", FALSE)
            \in [Agents -> AgentInfo]
  BY <1>3, FEInfoTypes
<1>8. {"terminate", "reinit", "quit", "startexperiment", "serializecalltree"} \subseteq DownTypes
  BY DEF DownTypes
<1>9. CASE FEHandleStep
  <2>0. /\ timerOn' = FALSE
        /\ UNCHANGED <<appVars, loop, ctlVars, decVars, metaproperties, trees>>
    BY <1>9 DEF FEHandleStep
  <2> SUFFICES /\ down' \in [Agents -> Seq(DownMsgs)] /\ info' \in [Agents -> AgentInfo]
               /\ buffer' \in Seq(Requests) /\ ended' \in BOOLEAN
    BY <1>3, <1>4, <2>0 DEF appVars, ctlVars, decVars, FETypes
  <2>1. CASE StepStartup
    BY <1>3, <2>1, StartTypes DEF StepStartup
  <2>2. CASE StepStartupReinit
    BY <1>3, <1>6, <1>7, <1>8, <2>2 DEF StepStartupReinit
  <2>3. CASE StepApplicationTermination
    BY <1>3, <2>3 DEF StepApplicationTermination
  <2>4. CASE StepRequestCalltree
    BY <1>3, <1>6, <1>7, <1>8, <2>4 DEF StepRequestCalltree
  <2> QED
    BY <1>9, <2>1, <2>2, <2>3, <2>4 DEF FEHandleStep
<1>10. CASE FETimeout
  BY <1>3, <1>4, <1>6, <1>8, <1>10 DEF FETimeout, Quit, appVars, ctlVars, loopVars, FETypes
<1>11. CASE FEQuitFinished
  BY <1>3, <1>4, <1>11 DEF FEQuitFinished, treeVars, ctlVars, FETypes
<1>12. CASE FERestart
  BY <1>3, <1>4, <1>6, <1>7, <1>8, <1>12 DEF FERestart, BeginRestart, EnterLoop, appVars, decVars, FETypes
<1>13. CASE FERerun
  <2>1. /\ nreq' = nreq /\ run' = run + 1 /\ registry' = registry \cup {<<a, run + 1>> : a \in AAs}
        /\ down' \in [Agents -> Seq(DownMsgs)] /\ info' = info /\ runs' = runs
    BY <1>6, <1>8, <1>13 DEF FERerun
  <2>2. buffer' \in Seq(Requests)
    <3>1. Request(nreq) \in Requests
      BY <1>3, FrontendAssumption DEF Request, Requests
    <3>2. Append(buffer, Request(nreq)) \in Seq(Requests)
      BY <1>3, <3>1, AppendFacts
    <3> QED
      BY <1>3, <1>13, <3>2 DEF FERerun
  <2>3. FETypes'
    BY <1>3, <1>13 DEF FERerun, EnterLoop, FETypes
  <2>4. Requests' = Requests /\ DownMsgs' = DownMsgs
    BY <2>1 DEF Requests, DownMsgs
  <2>5. StreamTypes' /\ TreeTypes'
    BY <1>1, <1>2, <2>1, <2>4, <1>3 DEF Types, StreamTypes, TreeTypes
  <2>6. 1..run \subseteq 1..run' /\ run' \in Nat \ {0} /\ run + 1 \in 1..run'
    BY <1>3, <2>1
  <2>7. registry' \subseteq AAs \X (1..run')
    <3>1. registry \subseteq AAs \X (1..run')
      BY <1>3, <2>6
    <3>2. {<<a, run + 1>> : a \in AAs} \subseteq AAs \X (1..run')
      BY <2>6
    <3> QED
      BY <2>1, <3>1, <3>2
  <2>8. attached' \in [AAs -> 1..run']
    BY <1>1, <1>3, <2>6 DEF aaVars
  <2>9. NumberTypes'
    BY <1>1, <1>3, <2>1, <2>2, <2>4, <2>6, <2>7, <2>8 DEF NumberTypes, aaVars
  <2> QED
    BY <1>2, <2>3, <2>5, <2>9 DEF Types
<1>14. CASE FEResults
  <2>1. Filed \subseteq [prop : Props, step : Nat]
    BY <1>3 DEF Filed
  <2>2. FETypes'
    BY <1>3, <1>14, <2>1 DEF FEResults, EnterLoop, Finished, decVars, FETypes
  <2> QED
    BY <1>3, <1>4, <1>14, <2>2 DEF FEResults, treeVars, appVars
<1>15. CASE FECalltreeDone
  BY <1>3, <1>4, <1>15 DEF FECalltreeDone, Finished, treeVars, appVars, decVars, FETypes
<1>16. CASE FEPhaseAgain
  BY <1>3, <1>4, <1>16 DEF FEPhaseAgain, EnterLoop, treeVars, appVars, decVars, FETypes
<1>17. CASE FERestartDone
  <2>1. FETypes'
    BY <1>3, <1>17 DEF FERestartDone, EnterLoop, FETypes, decVars
  <2> QED
    BY <1>5, <1>17, <2>1 DEF FERestartDone, treeVars, appVars
<1>18. CASE FESearchEnded
  <2> DEFINE k == IF stage = "run" THEN 1 ELSE runs + 1
  <2>1. k \in Nat /\ runs' = k
    BY <1>3, <1>18 DEF FESearchEnded
  <2>2. /\ UNCHANGED <<appVars, nreq, executed, pools, need_restart, restart_requested, quit_fe, quitting,
                       buffer, metaproperties, trees>>
    BY <1>18 DEF FESearchEnded
  <2>3. \/ shutdown_allowed' = (k = MaxAnalysisRuns - 1) /\ BeginRestart /\ UNCHANGED op
        \/ Finished("none") /\ UNCHANGED <<down, info, shutdown_allowed>>
    BY <1>18 DEF FESearchEnded
  <2> HIDE DEF k
  <2>4. CASE shutdown_allowed' = (k = MaxAnalysisRuns - 1) /\ BeginRestart /\ UNCHANGED op
    BY <1>3, <1>4, <1>6, <1>7, <1>8, <2>1, <2>2, <2>4 DEF BeginRestart, EnterLoop, appVars, FETypes
  <2>5. CASE Finished("none") /\ UNCHANGED <<down, info, shutdown_allowed>>
    BY <1>3, <1>4, <2>1, <2>2, <2>5 DEF Finished, appVars, FETypes
  <2> QED
    BY <2>3, <2>4, <2>5
<1>19. CASE FEBegin("analysis") \/ FEBegin("phase")
  <2>1. FETypes'
    BY <1>3, <1>19 DEF FEBegin, EnterLoop, FETypes, decVars
  <2> QED
    BY <1>5, <1>19, <2>1 DEF FEBegin, treeVars, appVars
<1>20. CASE FEConsiderRestart
  BY <1>3, <1>4, <1>6, <1>7, <1>8, <1>20 DEF FEConsiderRestart, BeginRestart, EnterLoop, appVars, FETypes
<1>21. CASE FEFinalize
  BY <1>3, <1>4, <1>6, <1>8, <1>21 DEF FEFinalize, Quit, appVars, loopVars, FETypes
<1> QED
  BY <1>9, <1>10, <1>11, <1>12, <1>13, <1>14, <1>15, <1>16, <1>17, <1>18, <1>19, <1>20, <1>21

LEMMA StepTypes == Types /\ [Next]_vars => Types'
<1> SUFFICES ASSUME Types, [Next]_vars PROVE Types'
  OBVIOUS
<1>1. CASE FEStep
  BY <1>1, FEMessageTypes, FEOwnTypes DEF FEStep
<1>2. CASE \E n \in Agents : AgentStep(n)
  BY <1>2, AAStepTypes, HLAStepTypes DEF AgentStep
<1>3. CASE UNCHANGED vars
  BY <1>3 DEF vars, treeVars, aaVars, appVars, hlaVars, feVars, loopVars, ctlVars, decVars, Types, StreamTypes,
              TreeTypes, AATypes, NumberTypes, HLATypes, FETypes, DownMsgs, UpMsgs, Requests
<1> QED
  BY <1>1, <1>2, <1>3 DEF Next

\* Whatever the tree of agents and the bounds, streams hold only messages a
\* handler reads, a strategy request an agent works on was created by the
\* frontend, and an agent is attached to a run that rerunApplication started.
THEOREM TypesCorrect == Spec => []Types
<1>1. Init => Types
  BY InitTypes
<1>2. Types /\ [Next]_vars => Types'
  BY StepTypes
<1> QED
  BY <1>1, <1>2, PTL DEF Spec

\* The type invariant the runs check follows: the AgentInfo records of
\* frontend and agents, the states of their event loops, and the numbers of
\* requests and runs.
THEOREM TypeCorrect == Spec => []TypeOK
<1>1. Types => TypeOK
  <2> SUFFICES ASSUME Types PROVE TypeOK
    OBVIOUS
  <2>1. \A a \in AAs : /\ attached[a] \in 1..run
                        /\ {strategy[a], finished[a]} \subseteq 0..nreq
                        /\ exps[a] \in Nat
    BY DEF Types, NumberTypes, AATypes
  <2> QED
    BY <2>1 DEF Types, TreeTypes, AATypes, NumberTypes, HLATypes, FETypes, TypeOK
<1> QED
  BY <1>1, TypesCorrect, PTL

-----------------------------------------------------------------------------
(* The streams of all agents.                                              *)

\* The agents with a message of a type of T in their stream.
In(s, T)         == {n \in Agents : Has(s[n], T)}
Single(s, T)     == \A n \in Agents : One(s[n], T)
Ordered(s, T, U) == \A n \in Agents : Behind(s[n], T, U)

\* One agent's stream is read.
Read(s, r, n) ==
    /\ \A T : In(r, T) \subseteq In(s, T) /\ In(s, T) \subseteq In(r, T) \cup {n}
    /\ \A T : Head(s[n]).type \in T => n \in In(s, T)
    /\ \A T : Head(s[n]).type \notin T => In(r, T) = In(s, T)
    /\ \A T : Head(s[n]).type \in T /\ Single(s, T) => In(r, T) = In(s, T) \ {n}
    /\ \A T : Single(s, T) => Single(r, T)
    /\ \A T, U : Ordered(s, T, U) => Ordered(r, T, U)
    /\ \A T, U : Ordered(s, T, U) /\ Head(s[n]).type \in T => n \notin In(s, U)

LEMMA ReadAt ==
    ASSUME NEW S, NEW s \in [Agents -> Seq(S)], NEW n \in Agents, s[n] # <<>>,
           NEW r, r[n] = Tail(s[n]), \A k \in Agents : k # n => r[k] = s[k]
    PROVE  Read(s, r, n)
<1>1. /\ r[n] = Tail(s[n]) /\ \A k \in Agents : k # n => r[k] = s[k]
  OBVIOUS
<1>2. /\ \A T : Has(s[n], T) <=> Head(s[n]).type \in T \/ Has(r[n], T)
      /\ \A T : One(s[n], T) => /\ One(r[n], T)
                                /\ Head(s[n]).type \in T => ~Has(r[n], T)
      /\ \A T, U : Behind(s[n], T, U) => /\ Behind(r[n], T, U)
                                         /\ Head(s[n]).type \in T => ~Has(s[n], U)
  BY <1>1, ReadFacts
<1>3. \A T : In(r, T) \subseteq In(s, T) /\ In(s, T) \subseteq In(r, T) \cup {n}
  BY <1>1, <1>2 DEF In
<1>4. \A T : Head(s[n]).type \in T => n \in In(s, T)
  BY <1>2 DEF In
<1>5. \A T : Head(s[n]).type \notin T => In(r, T) = In(s, T)
  BY <1>1, <1>2 DEF In
<1>6. \A T : Head(s[n]).type \in T /\ Single(s, T) => In(r, T) = In(s, T) \ {n}
  BY <1>1, <1>2 DEF In, Single
<1>7. \A T : Single(s, T) => Single(r, T)
  BY <1>1, <1>2 DEF Single
<1>8. \A T, U : Ordered(s, T, U) => Ordered(r, T, U)
  BY <1>1, <1>2 DEF Ordered
<1>9. \A T, U : Ordered(s, T, U) /\ Head(s[n]).type \in T => n \notin In(s, U)
  BY <1>2 DEF Ordered, In
<1> QED
  BY <1>3, <1>4, <1>5, <1>6, <1>7, <1>8, <1>9 DEF Read

\* Messages are written to one agent's stream.
Extended(s, r, n, ms) ==
    /\ \A T : In(r, T) = In(s, T) \cup (IF Has(ms, T) THEN {n} ELSE {})
    /\ \A T : Single(s, T) /\ One(ms, T) /\ (Has(ms, T) => n \notin In(s, T)) => Single(r, T)
    /\ \A T, U : /\ Ordered(s, T, U) /\ Behind(ms, T, U)
                 /\ Has(ms, U) => n \notin In(s, T)
                 => Ordered(r, T, U)

LEMMA ExtendAt ==
    ASSUME NEW S, NEW s \in [Agents -> Seq(S)], NEW n \in Agents, NEW ms \in Seq(S),
           NEW r, r[n] = s[n] \o ms, \A k \in Agents : k # n => r[k] = s[k]
    PROVE  Extended(s, r, n, ms)
<1>1. /\ r[n] = s[n] \o ms /\ \A k \in Agents : k # n => r[k] = s[k]
  OBVIOUS
<1>2. /\ \A T : Has(r[n], T) <=> Has(s[n], T) \/ Has(ms, T)
      /\ \A T : (One(s[n], T) /\ ~Has(ms, T)) \/ (One(ms, T) /\ ~Has(s[n], T)) => One(r[n], T)
      /\ \A T, U : Behind(s[n], T, U) /\ Behind(ms, T, U) /\ (~Has(s[n], T) \/ ~Has(ms, U))
                           => Behind(r[n], T, U)
  BY <1>1, ConcatFacts
<1>3. \A T : In(r, T) = In(s, T) \cup (IF Has(ms, T) THEN {n} ELSE {})
  BY <1>1, <1>2 DEF In
<1>4. \A T : Single(s, T) /\ One(ms, T) /\ (Has(ms, T) => n \notin In(s, T)) => Single(r, T)
  BY <1>1, <1>2 DEF In, Single
<1>5. \A T, U : /\ Ordered(s, T, U) /\ Behind(ms, T, U)
                /\ Has(ms, U) => n \notin In(s, T)
                => Ordered(r, T, U)
  BY <1>1, <1>2 DEF In, Ordered
<1> QED
  BY <1>3, <1>4, <1>5 DEF Extended

\* A message is written to the streams of all children of p.
Sent(s, r, p, m) ==
    /\ \A T : In(r, T) = In(s, T) \cup (IF m.type \in T THEN Children(p) ELSE {})
    /\ \A T : Single(s, T) /\ (m.type \in T => Children(p) \cap In(s, T) = {}) => Single(r, T)
    /\ \A T, U : /\ Ordered(s, T, U) /\ T \cap U = {}
                 /\ m.type \in U => Children(p) \cap In(s, T) = {}
                 => Ordered(r, T, U)

LEMMA SendTo ==
    ASSUME NEW S, NEW s \in [Agents -> Seq(S)], NEW p, NEW m \in S,
           NEW r \in [Agents -> Seq(S)],
           \A n \in Agents : r[n] = IF Parent[n] = p THEN Append(s[n], m) ELSE s[n]
    PROVE  Sent(s, r, p, m)
<1>1. /\ \A n \in Children(p) : r[n] = Append(s[n], m)
      /\ \A n \in Agents : n \notin Children(p) => r[n] = s[n]
      /\ Children(p) \subseteq Agents
  BY DEF Children
<1>2. ASSUME NEW n \in Children(p)
      PROVE  /\ \A T : Has(r[n], T) <=> Has(s[n], T) \/ m.type \in T
             /\ \A T : One(s[n], T) /\ ~(Has(s[n], T) /\ m.type \in T) => One(r[n], T)
             /\ \A T, U : T \cap U = {} /\ Behind(s[n], T, U) /\ ~(Has(s[n], T) /\ m.type \in U)
                            => Behind(r[n], T, U)
  <2>1. s[n] \in Seq(S) /\ r[n] = Append(s[n], m)
    BY <1>1
  <2> QED
    BY <2>1, AppendFacts
<1>3. \A T : In(r, T) = In(s, T) \cup (IF m.type \in T THEN Children(p) ELSE {})
  BY <1>1, <1>2 DEF In
<1>4. \A T : Single(s, T) /\ (m.type \in T => Children(p) \cap In(s, T) = {}) => Single(r, T)
  BY <1>1, <1>2 DEF In, Single
<1>5. \A T, U : /\ Ordered(s, T, U) /\ T \cap U = {}
                /\ m.type \in U => Children(p) \cap In(s, T) = {}
                => Ordered(r, T, U)
  BY <1>1, <1>2 DEF In, Ordered
<1> QED
  BY <1>3, <1>4, <1>5 DEF Sent

\* A high-level agent reads its stream and writes to those of its children.
PassedDown(s, r, h, m) ==
    /\ \A T : m.type \notin T => In(r, T) = In(s, T)
    /\ \A T : m.type \in T => /\ h \in In(s, T)
                              /\ In(r, T) \subseteq In(s, T) \cup Children(h)
                              /\ (In(s, T) \ {h}) \cup Children(h) \subseteq In(r, T)
    /\ \A T : m.type \in T /\ Single(s, T) => In(r, T) = (In(s, T) \ {h}) \cup Children(h)
    /\ \A T : Single(s, T) /\ (m.type \in T => Children(h) \cap In(s, T) = {}) => Single(r, T)
    /\ \A T, U : /\ Ordered(s, T, U) /\ T \cap U = {}
                 /\ m.type \in U => Children(h) \cap In(s, T) = {}
                 => Ordered(r, T, U)
    /\ \A T, U : Ordered(s, T, U) /\ m.type \in T => h \notin In(s, U)

LEMMA PassDown ==
    ASSUME NEW S, NEW s \in [Agents -> Seq(S)], NEW h \in Agents, s[h] # <<>>,
           NEW m \in S, m.type = Head(s[h]).type, NEW r \in [Agents -> Seq(S)],
           \A n \in Agents : r[n] = IF n = h THEN Tail(s[n])
                                    ELSE IF Parent[n] = h THEN Append(s[n], m) ELSE s[n]
    PROVE  PassedDown(s, r, h, m)
<1> DEFINE q == [s EXCEPT ![h] = Tail(@)]
<1>1. q \in [Agents -> Seq(S)] /\ q[h] = Tail(s[h]) /\ \A k \in Agents : k # h => q[k] = s[k]
  <2>1. Tail(s[h]) \in Seq(S)
    BY ReadFacts
  <2> QED
    BY <2>1
<1>2. \A n \in Agents : r[n] = IF Parent[n] = h THEN Append(q[n], m) ELSE q[n]
  <2>1. Parent[h] # h
    BY TreeFacts
  <2> QED
    BY <1>1, <2>1
<1> HIDE DEF q
<1>3. /\ \A T : In(q, T) \subseteq In(s, T) /\ In(s, T) \subseteq In(q, T) \cup {h}
      /\ \A T : Head(s[h]).type \in T => h \in In(s, T)
      /\ \A T : Head(s[h]).type \notin T => In(q, T) = In(s, T)
      /\ \A T : Head(s[h]).type \in T /\ Single(s, T) => In(q, T) = In(s, T) \ {h}
      /\ \A T : Single(s, T) => Single(q, T)
      /\ \A T, U : Ordered(s, T, U) => Ordered(q, T, U)
      /\ \A T, U : Ordered(s, T, U) /\ Head(s[h]).type \in T => h \notin In(s, U)
  <2>1. Read(s, q, h)
    BY <1>1, ReadAt
  <2> QED
    BY <2>1 DEF Read
<1>4. /\ \A T : In(r, T) = In(q, T) \cup (IF m.type \in T THEN Children(h) ELSE {})
      /\ \A T : Single(q, T) /\ (m.type \in T => Children(h) \cap In(q, T) = {}) => Single(r, T)
      /\ \A T, U : /\ Ordered(q, T, U) /\ T \cap U = {}
                   /\ m.type \in U => Children(h) \cap In(q, T) = {}
                   => Ordered(r, T, U)
  <2>1. Sent(q, r, h, m)
    BY <1>1, <1>2, SendTo
  <2> QED
    BY <2>1 DEF Sent
<1>5. ASSUME NEW T, m.type \notin T PROVE In(r, T) = In(s, T)
  <2>1. In(q, T) = In(s, T)
    BY <1>3, <1>5
  <2>2. In(r, T) = In(q, T) \cup {}
    BY <1>4, <1>5
  <2> QED
    BY <2>1, <2>2
<1>6. ASSUME NEW T, m.type \in T
      PROVE  /\ h \in In(s, T)
             /\ In(r, T) \subseteq In(s, T) \cup Children(h)
             /\ (In(s, T) \ {h}) \cup Children(h) \subseteq In(r, T)
             /\ Single(s, T) => In(r, T) = (In(s, T) \ {h}) \cup Children(h)
  <2>1. In(r, T) = In(q, T) \cup Children(h)
    BY <1>4, <1>6
  <2>2. /\ In(q, T) \subseteq In(s, T) /\ In(s, T) \subseteq In(q, T) \cup {h} /\ h \in In(s, T)
        /\ Single(s, T) => In(q, T) = In(s, T) \ {h}
    BY <1>3, <1>6
  <2> QED
    BY <2>1, <2>2
<1>7. ASSUME NEW T, Single(s, T), m.type \in T => Children(h) \cap In(s, T) = {}
      PROVE  Single(r, T)
  <2>1. Single(q, T) /\ In(q, T) \subseteq In(s, T)
    BY <1>3, <1>7
  <2>2. m.type \in T => Children(h) \cap In(q, T) = {}
    BY <1>7, <2>1
  <2> QED
    BY <1>4, <2>1, <2>2
<1>8. ASSUME NEW T, NEW U, Ordered(s, T, U), T \cap U = {}, m.type \in U => Children(h) \cap In(s, T) = {}
      PROVE  Ordered(r, T, U)
  <2>1. Ordered(q, T, U) /\ In(q, T) \subseteq In(s, T)
    BY <1>3, <1>8
  <2>2. m.type \in U => Children(h) \cap In(q, T) = {}
    BY <1>8, <2>1
  <2> QED
    BY <1>4, <1>8, <2>1, <2>2
<1>9. \A T, U : Ordered(s, T, U) /\ m.type \in T => h \notin In(s, U)
  BY <1>3
<1> QED
  BY <1>5, <1>6, <1>7, <1>8, <1>9 DEF PassedDown

\* A high-level agent reads a child's stream and writes to its own.
PassedUp(s, r, c, h, ms) ==
    /\ \A T : In(r, T) \subseteq In(s, T) \cup (IF Has(ms, T) THEN {h} ELSE {})
    /\ \A T : Head(s[c]).type \notin T
                 => In(r, T) = In(s, T) \cup (IF Has(ms, T) THEN {h} ELSE {})
    /\ \A T : Head(s[c]).type \in T => c \in In(s, T)
    /\ \A T : Head(s[c]).type \in T /\ Single(s, T)
                 => In(r, T) = (In(s, T) \ {c}) \cup (IF Has(ms, T) THEN {h} ELSE {})
    /\ \A T : Single(s, T) /\ One(ms, T) /\ (Has(ms, T) => h \notin In(s, T)) => Single(r, T)
    /\ \A T, U : /\ Ordered(s, T, U) /\ Behind(ms, T, U)
                 /\ Has(ms, U) => h \notin In(s, T)
                 => Ordered(r, T, U)
    /\ \A T, U : Ordered(s, T, U) /\ Head(s[c]).type \in T => c \notin In(s, U)

LEMMA PassUp ==
    ASSUME NEW S, NEW s \in [Agents -> Seq(S)], NEW c \in Agents, NEW h \in Agents, c # h,
           s[c] # <<>>, NEW ms \in Seq(S),
           NEW r, r[c] = Tail(s[c]), r[h] = s[h] \o ms, \A n \in Agents \ {c, h} : r[n] = s[n]
    PROVE  PassedUp(s, r, c, h, ms)
<1> DEFINE q == [s EXCEPT ![c] = Tail(@)]
<1>1. q \in [Agents -> Seq(S)] /\ q[c] = Tail(s[c]) /\ \A k \in Agents : k # c => q[k] = s[k]
  <2>1. Tail(s[c]) \in Seq(S)
    BY ReadFacts
  <2> QED
    BY <2>1
<1>2. r[h] = q[h] \o ms /\ \A k \in Agents : k # h => r[k] = q[k]
  BY <1>1
<1> HIDE DEF q
<1>3. /\ \A T : In(q, T) \subseteq In(s, T) /\ In(s, T) \subseteq In(q, T) \cup {c}
      /\ \A T : Head(s[c]).type \in T => c \in In(s, T)
      /\ \A T : Head(s[c]).type \notin T => In(q, T) = In(s, T)
      /\ \A T : Head(s[c]).type \in T /\ Single(s, T) => In(q, T) = In(s, T) \ {c}
      /\ \A T : Single(s, T) => Single(q, T)
      /\ \A T, U : Ordered(s, T, U) => Ordered(q, T, U)
      /\ \A T, U : Ordered(s, T, U) /\ Head(s[c]).type \in T => c \notin In(s, U)
  <2>1. Read(s, q, c)
    BY <1>1, ReadAt
  <2> QED
    BY <2>1 DEF Read
<1>4. /\ \A T : In(r, T) = In(q, T) \cup (IF Has(ms, T) THEN {h} ELSE {})
      /\ \A T : Single(q, T) /\ One(ms, T) /\ (Has(ms, T) => h \notin In(q, T)) => Single(r, T)
      /\ \A T, U : /\ Ordered(q, T, U) /\ Behind(ms, T, U)
                   /\ Has(ms, U) => h \notin In(q, T)
                   => Ordered(r, T, U)
  <2>1. Extended(q, r, h, ms)
    BY <1>1, <1>2, ExtendAt
  <2> QED
    BY <2>1 DEF Extended
<1>5. ASSUME NEW T
      PROVE  /\ In(r, T) \subseteq In(s, T) \cup (IF Has(ms, T) THEN {h} ELSE {})
             /\ Head(s[c]).type \notin T
                   => In(r, T) = In(s, T) \cup (IF Has(ms, T) THEN {h} ELSE {})
             /\ Head(s[c]).type \in T => c \in In(s, T)
             /\ Head(s[c]).type \in T /\ Single(s, T)
                   => In(r, T) = (In(s, T) \ {c}) \cup (IF Has(ms, T) THEN {h} ELSE {})
  <2>1. In(r, T) = In(q, T) \cup (IF Has(ms, T) THEN {h} ELSE {})
    BY <1>4
  <2>2. /\ In(q, T) \subseteq In(s, T)
        /\ Head(s[c]).type \in T => c \in In(s, T)
        /\ Head(s[c]).type \notin T => In(q, T) = In(s, T)
        /\ Head(s[c]).type \in T /\ Single(s, T) => In(q, T) = In(s, T) \ {c}
    BY <1>3
  <2> QED
    BY <2>1, <2>2
<1>6. ASSUME NEW T, Single(s, T), One(ms, T), Has(ms, T) => h \notin In(s, T)
      PROVE  Single(r, T)
  <2>1. Single(q, T) /\ (h \in In(q, T) => h \in In(s, T))
    BY <1>3, <1>6
  <2> QED
    BY <1>4, <1>6, <2>1
<1>7. ASSUME NEW T, NEW U, Ordered(s, T, U), Behind(ms, T, U), Has(ms, U) => h \notin In(s, T)
      PROVE  Ordered(r, T, U)
  <2>1. Ordered(q, T, U) /\ (h \in In(q, T) => h \in In(s, T))
    BY <1>3, <1>7
  <2> QED
    BY <1>4, <1>7, <2>1
<1>8. \A T, U : Ordered(s, T, U) /\ Head(s[c]).type \in T => c \notin In(s, U)
  BY <1>3
<1> QED
  BY <1>5, <1>6, <1>7, <1>8 DEF PassedUp

-----------------------------------------------------------------------------
(* Waves.                                                                  *)

\* One wave in the tree: asked are the agents that have the request in their
\* stream, busy those that work on it (a high-level agent: that wait for their
\* children), answered those with the answer in their stream, and noted those
\* whose answer the parent has noted.  A high-level agent that waits does so for
\* every child that is not noted, and under one that does not wait nothing is
\* going on.
Wave(asked, busy, answered, noted) ==
    /\ asked \cap busy = {} /\ asked \cap answered = {} /\ busy \cap answered = {}
    /\ \A h \in HLAs :
          IF h \in busy
          THEN /\ \E m \in Children(h) : m \notin noted
               /\ \A m \in Children(h) : m \in (asked \cup busy \cup answered) <=> m \notin noted
          ELSE \A m \in Children(h) : m \notin (asked \cup busy \cup answered \cup noted)

\* A wave that does not reach the frontend's child is nowhere.
LEMMA WaveOver ==
    ASSUME NEW Q \in SUBSET Agents, NEW B \in SUBSET Agents, NEW A \in SUBSET Agents, NEW G,
           Wave(Q, B, A, G), \A c \in Children(FE) : c \notin Q \cup B \cup A
    PROVE  /\ Q = {} /\ B = {} /\ A = {}
           /\ \A n \in Agents : Parent[n] # FE => n \notin G
<1> DEFINE S == Q \cup B \cup A
<1>1. S = {}
  <2> SUFFICES ASSUME S # {} PROVE FALSE
    OBVIOUS
  <2>1. PICK n \in S : Parent[n] \notin S
    <3>1. S \in SUBSET Agents
      OBVIOUS
    <3> HIDE DEF S
    <3> QED
      BY <3>1, TopmostExists
  <2>2. n \in Agents /\ Parent[n] \in HLAs /\ n \in Children(Parent[n])
    BY TreeFacts
  <2> QED
    BY <2>1, <2>2 DEF Wave
<1>2. \A n \in Agents : Parent[n] # FE => n \notin G
  <2> SUFFICES ASSUME NEW n \in Agents, Parent[n] # FE PROVE n \notin G
    OBVIOUS
  <2>1. Parent[n] \in HLAs /\ n \in Children(Parent[n])
    BY TreeFacts
  <2> QED
    BY <1>1, <2>1 DEF Wave
<1> QED
  BY <1>1, <1>2

\* The frontend sends a request when no wave is out.
LEMMA WaveSent ==
    ASSUME NEW G, \A n \in Agents : Parent[n] # FE => n \notin G
    PROVE  Wave(Children(FE), {}, {}, G)
<1>1. \A h \in HLAs : \A m \in Children(h) : m \notin Children(FE) /\ m \notin G
  <2> SUFFICES ASSUME NEW h \in HLAs, NEW m \in Children(h) PROVE m \notin Children(FE) /\ m \notin G
    OBVIOUS
  <2>1. m \in Agents /\ Parent[m] = h /\ h # FE
    BY TreeFacts
  <2> QED
    BY <2>1 DEF Children
<1> QED
  BY <1>1 DEF Wave

LEMMA NoWave ==
    ASSUME NEW G, \A n \in Agents : Parent[n] # FE => n \notin G
    PROVE  Wave({}, {}, {}, G)
<1>1. \A h \in HLAs : \A m \in Children(h) : m \notin G
  <2> SUFFICES ASSUME NEW h \in HLAs, NEW m \in Children(h) PROVE m \notin G
    OBVIOUS
  <2>1. m \in Agents /\ Parent[m] = h /\ h # FE
    BY TreeFacts
  <2> QED
    BY <2>1
<1> QED
  BY <1>1 DEF Wave

\* A high-level agent passes it on.
LEMMA WaveForwarded ==
    ASSUME NEW Q \in SUBSET Agents, NEW B \in SUBSET Agents, NEW A \in SUBSET Agents, NEW G,
           Wave(Q, B, A, G), NEW h \in HLAs, h \in Q
    PROVE  /\ Wave((Q \ {h}) \cup Children(h), B \cup {h}, A, G)
           /\ Children(h) \cap Q = {} /\ Children(h) \cap G = {}
<1>1. h \notin B /\ h \notin A
  BY DEF Wave
<1>2. \A m \in Children(h) : m \notin (Q \cup B \cup A \cup G) /\ m # h
  BY <1>1, TreeFacts DEF Wave
<1>3. \E m \in Children(h) : m \notin G
  BY <1>2, TreeFacts
<1>4. \A k \in HLAs : k # h => Children(k) \cap Children(h) = {}
  BY DEF Children
<1> DEFINE Q2 == (Q \ {h}) \cup Children(h)
           B2 == B \cup {h}
<1>5. Q2 \cap B2 = {} /\ Q2 \cap A = {} /\ B2 \cap A = {}
  BY <1>1, <1>2 DEF Wave
<1>6. ASSUME NEW k \in HLAs
      PROVE  IF k \in B2
             THEN /\ \E m \in Children(k) : m \notin G
                  /\ \A m \in Children(k) : m \in (Q2 \cup B2 \cup A) <=> m \notin G
             ELSE \A m \in Children(k) : m \notin (Q2 \cup B2 \cup A \cup G)
  <2>1. CASE k = h
    BY <1>2, <1>3, <2>1
  <2>2. CASE k # h
    <3>1. \A m \in Children(k) : m \notin Children(h)
      BY <1>4, <2>2
    <3>2. \A m \in Children(k) : m \in (Q2 \cup B2 \cup A) <=> m \in (Q \cup B \cup A)
      BY <3>1
    <3>3. k \in B2 <=> k \in B
      BY <2>2
    <3> HIDE DEF Q2, B2
    <3> QED
      BY <3>2, <3>3 DEF Wave
  <2> QED
    BY <2>1, <2>2
<1>7. Wave(Q2, B2, A, G)
  <2> HIDE DEF Q2, B2
  <2> QED
    BY <1>5, <1>6 DEF Wave
<1> QED
  BY <1>2, <1>7

\* An analysis agent starts to work on it, answers, or does both in one step.
LEMMA WaveAtLeaf ==
    ASSUME NEW Q \in SUBSET Agents, NEW B \in SUBSET Agents, NEW A \in SUBSET Agents, NEW G,
           Wave(Q, B, A, G), NEW a \in AAs
    PROVE  /\ a \in Q => /\ a \notin A /\ a \notin B
                         /\ Wave(Q \ {a}, B \cup {a}, A, G)
                         /\ Wave(Q \ {a}, B, A \cup {a}, G)
           /\ a \in B => /\ a \notin A /\ a \notin Q
                         /\ Wave(Q, B \ {a}, A \cup {a}, G)
<1>1. a \notin HLAs
  BY TreeFacts
<1> QED
  BY <1>1 DEF Wave

\* A high-level agent reads the answer of a child: it waits for others,
\* or that was the last and it answers itself.
Last(noted, h, c) == \A m \in Children(h) : m \in noted \cup {c}

AnswerNoted(Q, B, A, G, h, c) ==
    /\ h \in B /\ c \notin G /\ h \notin A /\ h \notin Q
    /\ ~Last(G, h, c) => Wave(Q, B, A \ {c}, G \cup {c})
    /\ Last(G, h, c) => Wave(Q, B \ {h}, (A \ {c}) \cup {h}, G \ Children(h))

LEMMA WaveNoted ==
    ASSUME NEW Q \in SUBSET Agents, NEW B \in SUBSET Agents, NEW A \in SUBSET Agents, NEW G,
           Wave(Q, B, A, G), NEW h \in HLAs, NEW c \in Children(h), c \in A
    PROVE  AnswerNoted(Q, B, A, G, h, c)
<1>1. h \in B
  BY DEF Wave
<1>2. c \notin G /\ h \notin A /\ h \notin Q /\ c \notin Q /\ c \notin B /\ h \in Agents
  BY <1>1, TreeFacts DEF Wave
<1>3. \A k \in HLAs : k # h => Children(k) \cap Children(h) = {}
  BY DEF Children
<1>4. ASSUME \E m \in Children(h) : m \notin G \cup {c} PROVE Wave(Q, B, A \ {c}, G \cup {c})
  <2>1. ASSUME NEW k \in HLAs
        PROVE  IF k \in B
               THEN /\ \E m \in Children(k) : m \notin G \cup {c}
                    /\ \A m \in Children(k) : m \in (Q \cup B \cup (A \ {c})) <=> m \notin G \cup {c}
               ELSE \A m \in Children(k) : m \notin (Q \cup B \cup (A \ {c}) \cup (G \cup {c}))
    <3>1. CASE k = h
      <4>1. \A m \in Children(h) : m \in (Q \cup B \cup A) <=> m \notin G
        BY <1>1 DEF Wave
      <4>2. \A m \in Children(h) : m \in (Q \cup B \cup (A \ {c})) <=> m \notin G \cup {c}
        BY <1>2, <4>1
      <4> QED
        BY <1>1, <1>4, <3>1, <4>2
    <3>2. CASE k # h
      <4>1. \A m \in Children(k) : m # c
        BY <1>3, <3>2
      <4> QED
        BY <4>1 DEF Wave
    <3> QED
      BY <3>1, <3>2
  <2> QED
    BY <2>1 DEF Wave
<1>5. ASSUME \A m \in Children(h) : m \in G \cup {c}
      PROVE  Wave(Q, B \ {h}, (A \ {c}) \cup {h}, G \ Children(h))
  <2> DEFINE B2 == B \ {h}
             A2 == (A \ {c}) \cup {h}
             G2 == G \ Children(h)
  <2>1. Q \cap B2 = {} /\ Q \cap A2 = {} /\ B2 \cap A2 = {}
    BY <1>2 DEF Wave
  <2>2. ASSUME NEW k \in HLAs
        PROVE  IF k \in B2
               THEN /\ \E m \in Children(k) : m \notin G2
                    /\ \A m \in Children(k) : m \in (Q \cup B2 \cup A2) <=> m \notin G2
               ELSE \A m \in Children(k) : m \notin (Q \cup B2 \cup A2 \cup G2)
    <3>1. CASE k = h
      <4>1. \A m \in Children(h) : m \in (Q \cup B \cup A) <=> m \notin G
        BY <1>1 DEF Wave
      <4>2. \A m \in Children(h) : m # h
        BY TreeFacts
      <4>3. \A m \in Children(h) : m \notin (Q \cup B2 \cup A2 \cup G2)
        BY <1>2, <1>5, <4>1, <4>2
      <4> QED
        BY <3>1, <4>3
    <3>2. CASE k # h
      <4>1. \A m \in Children(k) : m # c /\ m \notin Children(h)
        BY <1>3, <3>2
      <4>2. \A m \in Children(k) : (m \in Q \cup B2 \cup A2 <=> m \in Q \cup B \cup A) /\ (m \in G2 <=> m \in G)
        BY <1>1, <4>1
      <4>3. k \in B2 <=> k \in B
        BY <3>2
      <4> HIDE DEF B2, A2, G2
      <4> QED
        BY <4>2, <4>3 DEF Wave
    <3> QED
      BY <3>1, <3>2
  <2> HIDE DEF B2, A2, G2
  <2>3. Wave(Q, B2, A2, G2)
    BY <2>1, <2>2 DEF Wave
  <2> QED
    BY <2>3 DEF B2, A2, G2
<1> QED
  BY <1>1, <1>2, <1>4, <1>5 DEF AnswerNoted, Last

\* The frontend reads the answer of its child: the wave is over.
LEMMA WaveAtTop ==
    ASSUME NEW Q \in SUBSET Agents, NEW B \in SUBSET Agents, NEW A \in SUBSET Agents, NEW G,
           Wave(Q, B, A, G), NEW c \in Children(FE), c \in A
    PROVE  /\ Q = {} /\ B = {} /\ A = {c}
           /\ \A n \in Agents : Parent[n] # FE => n \notin G
           /\ Wave({}, {}, {}, G)
<1>1. Children(FE) = {c}
  BY TreeFacts
<1>2. Wave(Q, B, A \ {c}, G)
  <2>1. \A h \in HLAs : c \notin Children(h)
    <3>1. Parent[c] = FE /\ FE \notin HLAs
      BY TreeFacts
    <3> QED
      BY <3>1 DEF Children
  <2>2. \A h \in HLAs : \A m \in Children(h) : m \in A \ {c} <=> m \in A
    BY <2>1
  <2> QED
    BY <2>2 DEF Wave
<1>3. c \notin Q /\ c \notin B
  BY DEF Wave
<1>4. /\ Q = {} /\ B = {} /\ A \ {c} = {}
      /\ \A n \in Agents : Parent[n] # FE => n \notin G
  BY <1>1, <1>2, <1>3, WaveOver
<1> QED
  BY <1>2, <1>4

-----------------------------------------------------------------------------
(* The kinds of steps.                                                     *)

Searches == {"start", "startexperiment"}
Controls == {"terminate", "reinit", "quit"}
Answers  == SearchRequests \cup {"propertiessent", "foundprop", "calltreesent"}

\* What an agent writes in one step, by the answers in it.
Silent(ms)      == ms \in Seq(UpMsgs) /\ ~Has(ms, Answers)
SearchReply(ms) == /\ ms \in Seq(UpMsgs)
                   /\ Has(ms, SearchRequests) /\ One(ms, SearchRequests)
                   /\ ~Has(ms, Answers \ SearchRequests)
CheckReply(ms)  == /\ ms \in Seq(UpMsgs)
                   /\ Has(ms, {"propertiessent"}) /\ One(ms, {"propertiessent"})
                   /\ Behind(ms, {"propertiessent"}, {"foundprop"})
                   /\ ~Has(ms, Answers \ {"propertiessent", "foundprop"})
TreeReply(ms)   == /\ ms \in Seq(UpMsgs)
                   /\ Has(ms, {"calltreesent"}) /\ One(ms, {"calltreesent"})
                   /\ ~Has(ms, Answers \ {"calltreesent"})
FoundOnly(ms)   == ms \in Seq(UpMsgs) /\ ~Has(ms, Answers \ {"foundprop"})

LEMMA HasFacts ==
    /\ \A s, T, U : Has(s, T) /\ T \subseteq U => Has(s, U)
    /\ \A s, T : ~Has(s, T) => One(s, T) /\ \A U : Behind(s, T, U)
    /\ \A s, T, U : ~Has(s, U) => Behind(s, T, U)
  BY DEF Has, One, Behind

\* An agent reads a request of a type of T from its stream.
ReadsDown(n, T) == down[n] # <<>> /\ Head(down[n]).type \in T /\ Read(down, down', n)

AAPlain(a, ms) ==
    /\ Silent(ms)
    /\ UNCHANGED <<started, found>>
    /\ \/ down' = down /\ attached' = attached
       \/ ReadsDown(a, {"terminate", "quit"}) /\ attached' = attached
       \/ ReadsDown(a, {"reinit"}) /\ attached' = [attached EXCEPT ![a] = run]

AAStarts(a, ms) ==
    /\ ReadsDown(a, Searches)
    /\ UNCHANGED <<found, attached>>
    /\ \/ ms = <<>> /\ started' = [started EXCEPT ![a] = TRUE]
       \/ SearchReply(ms) /\ started' = started

AAEvaluates(a, ms) ==
    /\ down' = down
    /\ started[a] /\ started' = [started EXCEPT ![a] = FALSE]
    /\ SearchReply(ms)
    /\ attached' = attached
    /\ \A b \in AAs : b # a => found'[b] = found[b]

AAChecks(a, ms) ==
    /\ ReadsDown(a, {"check"})
    /\ UNCHANGED <<started, attached>>
    /\ found' = [found EXCEPT ![a] = <<>>]
    /\ CheckReply(ms)

AASerializes(a, ms) ==
    /\ ReadsDown(a, {"serializecalltree"})
    /\ UNCHANGED <<started, found, attached>>
    /\ TreeReply(ms)

LEMMA AAKinds ==
    ASSUME Types, NEW a \in AAs, AAStep(a)
    PROVE  \E ms \in Seq(UpMsgs) :
              /\ Extended(up, up', a, ms)
              /\ info' = info /\ run' = run
              /\ \/ AAPlain(a, ms) \/ AAStarts(a, ms) \/ AAEvaluates(a, ms)
                 \/ AAChecks(a, ms) \/ AASerializes(a, ms)
<1> a \in Agents
  BY TreeFacts
<1>0. /\ down \in [Agents -> Seq(DownMsgs)] /\ up \in [Agents -> Seq(UpMsgs)]
      /\ found \in [AAs -> Seq(Props)]
  BY DEF Types, StreamTypes, AATypes
<1>1. ASSUME NEW ms \in Seq(UpMsgs), up' = [up EXCEPT ![a] = @ \o ms] PROVE Extended(up, up', a, ms)
  <2>1. up'[a] = up[a] \o ms /\ \A k \in Agents : k # a => up'[k] = up[k]
    BY <1>0, <1>1
  <2> QED
    BY <1>0, <2>1, ExtendAt
<1>2. ASSUME NEW T, down[a] # <<>>, Head(down[a]).type \in T, ReadRequest(a) PROVE ReadsDown(a, T)
  <2>1. down'[a] = Tail(down[a]) /\ \A k \in Agents : k # a => down'[k] = down[k]
    BY <1>0, <1>2 DEF ReadRequest
  <2>2. Read(down, down', a)
    BY <1>0, <1>2, <2>1, ReadAt
  <2> QED
    BY <1>2, <2>2 DEF ReadsDown
<1>3. ASSUME NEW t \in UpTypes
      PROVE  /\ <<Msg(t)>> \in Seq(UpMsgs)
             /\ SendUp(a, t) => Extended(up, up', a, <<Msg(t)>>)
             /\ t \notin Answers => Silent(<<Msg(t)>>)
             /\ t \in SearchRequests => SearchReply(<<Msg(t)>>)
  <2>1. Msg(t) \in UpMsgs /\ Msg(t).type = t
    BY UpMsgFacts
  <2>2. /\ <<Msg(t)>> \in Seq(UpMsgs)
        /\ \A T : Has(<<Msg(t)>>, T) <=> t \in T
        /\ \A T : One(<<Msg(t)>>, T)
    BY <2>1, SingleFacts
  <2>3. SendUp(a, t) => up' = [up EXCEPT ![a] = @ \o <<Msg(t)>>]
    <3>1. Append(up[a], Msg(t)) = up[a] \o <<Msg(t)>>
      BY <1>0, <2>1
    <3> QED
      BY <3>1 DEF SendUp
  <2>4. SendUp(a, t) => Extended(up, up', a, <<Msg(t)>>)
    BY <1>1, <2>2, <2>3
  <2>5. t \notin Answers => Silent(<<Msg(t)>>)
    BY <2>2 DEF Silent
  <2>6. t \in SearchRequests => SearchReply(<<Msg(t)>>)
    BY <2>2 DEF SearchReply
  <2> QED
    BY <2>2, <2>4, <2>5, <2>6
<1>4. {"heartbeat", "terminated"} \subseteq UpTypes \ Answers /\ SearchRequests \subseteq UpTypes
  BY DEF UpTypes, Answers, SearchRequests
<1>5. /\ <<>> \in Seq(UpMsgs) /\ Silent(<<>>)
      /\ up' = up => Extended(up, up', a, <<>>)
  <2>1. <<>> \in Seq(UpMsgs) /\ Silent(<<>>)
    BY EmptyFacts DEF Silent
  <2>2. ASSUME up' = up PROVE up' = [up EXCEPT ![a] = @ \o <<>>]
    <3>1. up[a] \o <<>> = up[a]
      BY <1>0
    <3> QED
      BY <1>0, <2>2, <3>1
  <2> QED
    BY <1>1, <2>1, <2>2
<1>6. CASE AARun(a)
  <2>1. info' = info /\ run' = run /\ down' = down /\ UNCHANGED <<started, found, attached>>
    BY <1>6 DEF AARun, aaVars, appVars
  <2>2. AAPlain(a, <<Msg("heartbeat")>>)
    BY <1>3, <1>4, <2>1 DEF AAPlain
  <2> QED
    BY <1>3, <1>4, <1>6, <2>1, <2>2 DEF AARun
<1>7. CASE AAOnStart(a)
  <2>1. info' = info /\ run' = run /\ UNCHANGED <<found, attached>> /\ ReadsDown(a, Searches)
    BY <1>2, <1>7 DEF AAOnStart, appVars, HasRequest, Searches
  <2>2. \/ \E t \in SearchRequests : SendUp(a, t) /\ started' = started
        \/ StartExperiment(a)
    BY <1>7 DEF AAOnStart, SearchRequests
  <2>3. CASE StartExperiment(a)
    <3>1. up' = up /\ AAStarts(a, <<>>)
      BY <2>1, <2>3 DEF StartExperiment, AAStarts
    <3> QED
      BY <1>5, <2>1, <3>1
  <2>4. ASSUME NEW t \in SearchRequests, SendUp(a, t), started' = started
        PROVE  AAStarts(a, <<Msg(t)>>) /\ Extended(up, up', a, <<Msg(t)>>) /\ <<Msg(t)>> \in Seq(UpMsgs)
    BY <1>3, <1>4, <2>1, <2>4 DEF AAStarts
  <2> QED
    BY <2>1, <2>2, <2>3, <2>4
<1>8. CASE AAOnStartExperiment(a)
  <2>1. info' = info /\ run' = run /\ UNCHANGED <<found, attached>> /\ ReadsDown(a, Searches)
    BY <1>2, <1>8 DEF AAOnStartExperiment, appVars, HasRequest, Searches
  <2>2. \/ SendUp(a, "needrestart") /\ started' = started
        \/ StartExperiment(a)
    BY <1>8 DEF AAOnStartExperiment
  <2>3. CASE StartExperiment(a)
    <3>1. up' = up /\ AAStarts(a, <<>>)
      BY <2>1, <2>3 DEF StartExperiment, AAStarts
    <3> QED
      BY <1>5, <2>1, <3>1
  <2>4. CASE SendUp(a, "needrestart") /\ started' = started
    <3>0. "needrestart" \in SearchRequests
      BY DEF SearchRequests
    <3>1. /\ AAStarts(a, <<Msg("needrestart")>>) /\ Extended(up, up', a, <<Msg("needrestart")>>)
          /\ <<Msg("needrestart")>> \in Seq(UpMsgs)
      BY <1>3, <1>4, <2>1, <2>4, <3>0 DEF AAStarts
    <3> QED
      BY <2>1, <3>1
  <2> QED
    BY <2>2, <2>3, <2>4
<1>9. CASE AAOnTerminate(a)
  <2>1. info' = info /\ run' = run /\ UNCHANGED <<started, found, attached>>
        /\ ReadsDown(a, {"terminate", "quit"})
    BY <1>2, <1>9 DEF AAOnTerminate, HasRequest
  <2>2. AAPlain(a, <<Msg("terminated")>>)
    BY <1>3, <1>4, <2>1 DEF AAPlain
  <2> QED
    BY <1>3, <1>4, <1>9, <2>1, <2>2 DEF AAOnTerminate
<1>10. CASE AAOnQuit(a)
  <2>1. info' = info /\ run' = run /\ UNCHANGED <<started, found, attached>> /\ up' = up
        /\ ReadsDown(a, {"terminate", "quit"})
    BY <1>2, <1>10 DEF AAOnQuit, HasRequest
  <2>2. AAPlain(a, <<>>)
    BY <1>5, <2>1 DEF AAPlain
  <2> QED
    BY <1>5, <2>1, <2>2
<1>11. CASE AAOnReinit(a)
  <2>1. info' = info /\ run' = run /\ UNCHANGED <<started, found>> /\ attached' = [attached EXCEPT ![a] = run]
        /\ ReadsDown(a, {"reinit"})
    BY <1>2, <1>11 DEF AAOnReinit, HasRequest
  <2>2. AAPlain(a, <<Msg("heartbeat")>>)
    BY <1>3, <1>4, <2>1 DEF AAPlain
  <2> QED
    BY <1>3, <1>4, <1>11, <2>1, <2>2 DEF AAOnReinit
<1>12. CASE AAOnCheck(a)
  <2> DEFINE fp == [i \in 1..Len(found[a]) |-> [type |-> "foundprop", props |-> {found[a][i]}]]
             ps == <<Msg("propertiessent")>>
  <2>1. info' = info /\ run' = run /\ UNCHANGED <<started, attached>> /\ found' = [found EXCEPT ![a] = <<>>]
        /\ ReadsDown(a, {"check"})
    BY <1>2, <1>12 DEF AAOnCheck, HasRequest, appVars
  <2>2. fp \in Seq(UpMsgs) /\ \A T : Has(fp, T) => "foundprop" \in T
    <3>1. found[a] \in Seq(Props) /\ Len(found[a]) \in Nat
      BY <1>0
    <3>2. \A i \in 1..Len(found[a]) : {found[a][i]} \in SUBSET Props
      BY <3>1
    <3>3. \A i \in 1..Len(found[a]) : [type |-> "foundprop", props |-> {found[a][i]}] \in UpMsgs
      BY <3>2, UpMsgFacts
    <3>4. fp \in [1..Len(found[a]) -> UpMsgs]
      BY <3>3
    <3>5. \A i \in 1..Len(found[a]) : fp[i].type = "foundprop"
      OBVIOUS
    <3> HIDE DEF fp
    <3>6. fp \in Seq(UpMsgs)
      BY <3>1, <3>4, SeqDef
    <3>7. \A T : Has(fp, T) => "foundprop" \in T
      BY <3>4, <3>5 DEF Has
    <3> QED
      BY <3>6, <3>7
  <2>3. /\ ps \in Seq(UpMsgs) /\ \A T : Has(ps, T) <=> "propertiessent" \in T
        /\ \A T : One(ps, T)
        /\ \A T, U : T \cap U = {} => Behind(ps, T, U)
    <3>1. Msg("propertiessent") \in UpMsgs /\ Msg("propertiessent").type = "propertiessent"
      BY UpMsgFacts DEF UpTypes
    <3> QED
      BY <3>1, SingleFacts
  <2>4. up' = [up EXCEPT ![a] = (@ \o fp) \o ps]
    BY <1>12 DEF AAOnCheck
  <2> HIDE DEF fp, ps
  <2>5. up' = [up EXCEPT ![a] = @ \o (fp \o ps)]
    <3>1. up[a] \in Seq(UpMsgs) /\ fp \in Seq(UpMsgs) /\ ps \in Seq(UpMsgs)
      BY <1>0, <2>2, <2>3
    <3>2. \A s, t, u \in Seq(UpMsgs) : (s \o t) \o u = s \o (t \o u)
      BY ConcatAssociative
    <3>3. (up[a] \o fp) \o ps = up[a] \o (fp \o ps)
      BY <3>1, <3>2
    <3> QED
      BY <1>0, <2>4, <3>3
  <2>6. fp \o ps \in Seq(UpMsgs) /\ Extended(up, up', a, fp \o ps)
    BY <1>1, <2>2, <2>3, <2>5, ConcatFacts
  <2>7. CheckReply(fp \o ps)
    <3>1. /\ \A T : Has(fp \o ps, T) <=> Has(fp, T) \/ Has(ps, T)
          /\ \A T : (One(fp, T) /\ ~Has(ps, T)) \/ (One(ps, T) /\ ~Has(fp, T)) => One(fp \o ps, T)
          /\ \A T, U : Behind(fp, T, U) /\ Behind(ps, T, U) /\ (~Has(fp, T) \/ ~Has(ps, U))
                           => Behind(fp \o ps, T, U)
      BY <2>2, <2>3, ConcatFacts
    <3>2. Has(fp \o ps, {"propertiessent"}) /\ One(fp \o ps, {"propertiessent"})
      BY <2>2, <2>3, <3>1
    <3>3. Behind(fp \o ps, {"propertiessent"}, {"foundprop"})
      <4>1. ~Has(fp, {"propertiessent"})
        BY <2>2
      <4>2. Behind(fp, {"propertiessent"}, {"foundprop"}) /\ Behind(ps, {"propertiessent"}, {"foundprop"})
        BY <2>3, <4>1, HasFacts
      <4> QED
        BY <3>1, <4>1, <4>2
    <3>4. ~Has(fp \o ps, Answers \ {"propertiessent", "foundprop"})
      BY <2>2, <2>3, <3>1
    <3> QED
      BY <2>6, <3>2, <3>3, <3>4 DEF CheckReply
  <2>8. AAChecks(a, fp \o ps)
    BY <2>1, <2>7 DEF AAChecks
  <2> QED
    BY <2>1, <2>6, <2>8
<1>13. CASE AAOnSerializeCalltree(a)
  <2>1. info' = info /\ run' = run /\ UNCHANGED <<started, found, attached>> /\ ReadsDown(a, {"serializecalltree"})
    BY <1>2, <1>13 DEF AAOnSerializeCalltree, HasRequest, appVars
  <2> DEFINE ct == IF newRts[a] THEN <<[type |-> "calltree", aa |-> a]>> ELSE <<>>
             cs == <<Msg("calltreesent")>>
  <2>2. ct \in Seq(UpMsgs) /\ \A T : Has(ct, T) => "calltree" \in T
    BY UpMsgFacts, SingleFacts, EmptyFacts
  <2>3. cs \in Seq(UpMsgs) /\ (\A T : Has(cs, T) <=> "calltreesent" \in T) /\ (\A T : One(cs, T))
    <3>1. Msg("calltreesent") \in UpMsgs /\ Msg("calltreesent").type = "calltreesent"
      BY UpMsgFacts DEF UpTypes
    <3> QED
      BY <3>1, SingleFacts
  <2>4. up' = [up EXCEPT ![a] = @ \o (ct \o cs)]
    BY <1>13 DEF AAOnSerializeCalltree, CalltreeMessages
  <2> HIDE DEF ct, cs
  <2>5. /\ ct \o cs \in Seq(UpMsgs)
        /\ \A T : Has(ct \o cs, T) <=> Has(ct, T) \/ Has(cs, T)
        /\ \A T : (One(ct, T) /\ ~Has(cs, T)) \/ (One(cs, T) /\ ~Has(ct, T)) => One(ct \o cs, T)
    BY <2>2, <2>3, ConcatFacts
  <2>6. Extended(up, up', a, ct \o cs)
    BY <1>1, <2>4, <2>5
  <2>7. TreeReply(ct \o cs)
    <3>1. ~Has(ct, {"calltreesent"}) /\ "calltree" \notin Answers
      BY <2>2 DEF Answers, SearchRequests
    <3> QED
      BY <2>2, <2>3, <2>5, <3>1 DEF TreeReply
  <2>8. AASerializes(a, ct \o cs)
    BY <2>1, <2>7 DEF AASerializes
  <2> QED
    BY <2>1, <2>5, <2>6, <2>8
<1>14. CASE AAEvaluate(a)
  <2>1. /\ info' = info /\ run' = run /\ attached' = attached /\ down' = down
        /\ started[a] /\ started' = [started EXCEPT ![a] = FALSE]
    BY <1>14 DEF AAEvaluate, appVars
  <2>2. \A b \in AAs : b # a => found'[b] = found[b]
    BY <1>0, <1>14 DEF AAEvaluate
  <2>3. PICK t \in SearchRequests : SendUp(a, t)
    BY <1>14 DEF AAEvaluate, SearchRequests
  <2>4. AAEvaluates(a, <<Msg(t)>>) /\ Extended(up, up', a, <<Msg(t)>>) /\ <<Msg(t)>> \in Seq(UpMsgs)
    BY <1>3, <1>4, <2>1, <2>2, <2>3 DEF AAEvaluates
  <2> QED
    BY <2>1, <2>4
<1> QED
  BY <1>6, <1>7, <1>8, <1>9, <1>10, <1>11, <1>12, <1>13, <1>14 DEF AAStep, AAHandleRequest

\* What a parent has noted of the search and of the properties stays.
SameSearchNotes == \A n \in Agents : info'[n].search_status = info[n].search_status
SameCheckNotes  == \A n \in Agents : info'[n].properties_sent = info[n].properties_sent

\* A high-level agent passes a request of a type of T to its children.
PassesDown(h, T) ==
    /\ down[h] # <<>> /\ Head(down[h]).type \in T
    /\ \E m \in DownMsgs : m.type = Head(down[h]).type /\ PassedDown(down, down', h, m)
    /\ up' = up /\ properties' = properties

HLAPlain(h) ==
    /\ down' = down /\ properties' = properties /\ SameSearchNotes /\ SameCheckNotes
    /\ \/ up' = up
       \/ \E ms \in Seq(UpMsgs) : Silent(ms) /\ Extended(up, up', h, ms)
       \/ \E c \in Children(h), ms \in Seq(UpMsgs) :
             Head(up[c]).type \notin Answers /\ Silent(ms) /\ PassedUp(up, up', c, h, ms)

HLAPasses(h, T) == PassesDown(h, T) /\ SameSearchNotes /\ SameCheckNotes

HLAPassesCheck(h) ==
    /\ PassesDown(h, {"check"})
    /\ SameSearchNotes
    /\ \A n \in Agents : info'[n].properties_sent = (Parent[n] # h /\ info[n].properties_sent)

\* It reads the answer of its child c and writes ms.
HLANotesSearch(h, c, ms) ==
    /\ Head(up[c]).type \in SearchRequests
    /\ down' = down /\ properties' = properties /\ SameCheckNotes
    /\ \/ /\ \E m \in Children(h) : m # c /\ info[m].search_status = "UNDEFINED"
          /\ ms = <<>>
          /\ \A n \in Agents : IF n = c THEN info'[n].search_status # "UNDEFINED"
                               ELSE info'[n].search_status = info[n].search_status
       \/ /\ \A m \in Children(h) : m # c => info[m].search_status # "UNDEFINED"
          /\ SearchReply(ms)
          /\ \A n \in Agents : info'[n].search_status = IF Parent[n] = h THEN "UNDEFINED"
                                                        ELSE info[n].search_status

HLANotesCheck(h, c, ms) ==
    /\ Head(up[c]).type = "propertiessent"
    /\ down' = down /\ SameSearchNotes
    /\ \A n \in Agents : info'[n].properties_sent = (n = c \/ info[n].properties_sent)
    /\ \/ /\ \E m \in Children(h) : m # c /\ ~info[m].properties_sent
          /\ ms = <<>>
          /\ properties' = properties
       \/ /\ \A m \in Children(h) : m # c => info[m].properties_sent
          /\ CheckReply(ms)
          /\ properties' = [properties EXCEPT ![h] = {}]

HLANotesFound(h, c, ms) ==
    /\ Head(up[c]).type = "foundprop"
    /\ down' = down /\ SameSearchNotes /\ SameCheckNotes
    /\ FoundOnly(ms)
    /\ \A k \in HLAs : k # h => properties'[k] = properties[k]

HLANotesTree(h, c, ms) ==
    /\ Head(up[c]).type = "calltreesent"
    /\ down' = down /\ properties' = properties /\ SameSearchNotes /\ SameCheckNotes
    /\ ms = <<>> \/ TreeReply(ms)
    /\ Before(c) = {} => TreeReply(ms)

LEMMA HLAKinds ==
    ASSUME Types, NEW h \in HLAs, HLAStep(h)
    PROVE  \/ HLAPlain(h)
           \/ HLAPasses(h, Searches) \/ HLAPasses(h, Controls) \/ HLAPasses(h, {"serializecalltree"})
           \/ HLAPassesCheck(h)
           \/ \E c \in Children(h), ms \in Seq(UpMsgs) :
                 /\ up[c] # <<>> /\ PassedUp(up, up', c, h, ms)
                 /\ \/ HLANotesSearch(h, c, ms) \/ HLANotesCheck(h, c, ms)
                    \/ HLANotesFound(h, c, ms) \/ HLANotesTree(h, c, ms)
<1> h \in Agents
  BY TreeFacts
<1>0. /\ down \in [Agents -> Seq(DownMsgs)] /\ up \in [Agents -> Seq(UpMsgs)]
      /\ info \in [Agents -> AgentInfo] /\ properties \in [HLAs -> SUBSET Props]
  BY DEF Types, StreamTypes, TreeTypes, HLATypes
<1>1. ASSUME NEW m \in DownMsgs, down[h] # <<>>, m.type = Head(down[h]).type, down' = ForwardDown(h, m)
      PROVE  PassedDown(down, down', h, m)
  <2>1. /\ down' \in [Agents -> Seq(DownMsgs)]
        /\ \A n \in Agents : down'[n] =
                                 IF n = h THEN Tail(down[n])
                                 ELSE IF Parent[n] = h THEN Append(down[n], m) ELSE down[n]
    BY <1>0, <1>1, ForwardedDown
  <2> QED
    BY <1>0, <1>1, <2>1, PassDown
<1>2. ASSUME NEW t \in DownTypes, HasRequest(h, t), down' = ForwardDown(h, Msg(t)),
             up' = up, properties' = properties
      PROVE  \A T : t \in T => PassesDown(h, T)
  <2>1. Msg(t) \in DownMsgs /\ Msg(t).type = t
    BY DownMsgFacts
  <2>2. PassedDown(down, down', h, Msg(t))
    BY <1>1, <1>2, <2>1 DEF HasRequest
  <2> QED
    BY <1>2, <2>1, <2>2 DEF PassesDown, HasRequest
<1>3. ASSUME NEW c \in Children(h), up[c] # <<>>, NEW ms \in Seq(UpMsgs), up' = ForwardUp(c, h, ms)
      PROVE  PassedUp(up, up', c, h, ms)
  <2>1. c \in Agents /\ c # h
    BY TreeFacts
  <2>2. /\ up'[c] = Tail(up[c]) /\ up'[h] = up[h] \o ms
        /\ \A n \in Agents \ {c, h} : up'[n] = up[n]
    <3>1. up' = [up EXCEPT ![c] = Tail(@), ![h] = @ \o ms]
      BY <1>3 DEF ForwardUp
    <3> QED
      BY <1>0, <2>1, <3>1
  <2> QED
    BY <1>0, <1>3, <2>1, <2>2, PassUp
<1>4. ASSUME NEW t \in UpTypes
      PROVE  /\ <<Msg(t)>> \in Seq(UpMsgs)
             /\ \A T : Has(<<Msg(t)>>, T) <=> t \in T
             /\ \A T : One(<<Msg(t)>>, T)
             /\ \A T, U : T \cap U = {} => Behind(<<Msg(t)>>, T, U)
             /\ t \notin Answers => Silent(<<Msg(t)>>)
  <2>1. Msg(t) \in UpMsgs /\ Msg(t).type = t
    BY UpMsgFacts
  <2>2. /\ <<Msg(t)>> \in Seq(UpMsgs)
        /\ \A T : Has(<<Msg(t)>>, T) <=> t \in T
        /\ \A T : One(<<Msg(t)>>, T)
        /\ \A T, U : T \cap U = {} => Behind(<<Msg(t)>>, T, U)
    BY <2>1, SingleFacts
  <2>3. t \notin Answers => Silent(<<Msg(t)>>)
    BY <2>2 DEF Silent
  <2> QED
    BY <2>2, <2>3
<1>5. <<>> \in Seq(UpMsgs) /\ Silent(<<>>)
  BY EmptyFacts DEF Silent
<1>6. \A n \in Agents : n \in Children(h) <=> Parent[n] = h
  BY TreeFacts
<1>7. ASSUME NEW f, NEW v, info' = SetAll(h, f, v), f \in {"appl_terminated", "calltree_sent", "status_reinit"}
      PROVE  SameSearchNotes /\ SameCheckNotes
  BY <1>0, <1>7 DEF SetAll, AgentInfo, SameSearchNotes, SameCheckNotes
<1>8. info' = info => SameSearchNotes /\ SameCheckNotes
  BY DEF SameSearchNotes, SameCheckNotes
<1>9. CASE HLARun(h)
  BY <1>8, <1>9 DEF HLARun, HLAPlain
<1>10. CASE HLAHandleTimeout(h)
  <2>1. down' = down /\ info' = info /\ properties' = properties
    BY <1>10 DEF HLAHandleTimeout
  <2>2. up' = up \/ Extended(up, up', h, <<Msg("heartbeat")>>)
    <3>1. CASE up' = [up EXCEPT ![h] = Append(@, Msg("heartbeat"))]
      <4>1. Append(up[h], Msg("heartbeat")) = up[h] \o <<Msg("heartbeat")>>
        BY <1>0, UpMsgFacts DEF UpTypes
      <4>2. up'[h] = up[h] \o <<Msg("heartbeat")>> /\ \A k \in Agents : k # h => up'[k] = up[k]
        BY <1>0, <3>1, <4>1
      <4>3. <<Msg("heartbeat")>> \in Seq(UpMsgs)
        BY <1>4 DEF UpTypes
      <4> QED
        BY <1>0, <4>2, <4>3, ExtendAt
    <3> QED
      BY <1>10, <3>1 DEF HLAHandleTimeout
  <2>3. "heartbeat" \in UpTypes /\ "heartbeat" \notin Answers
    BY DEF UpTypes, Answers, SearchRequests
  <2>4. <<Msg("heartbeat")>> \in Seq(UpMsgs) /\ Silent(<<Msg("heartbeat")>>)
    BY <1>4, <2>3
  <2> QED
    BY <1>8, <2>1, <2>2, <2>4 DEF HLAPlain
<1>11. CASE HLAOnStart(h)
  <2>1. /\ down[h] # <<>> /\ Head(down[h]).type \in Searches /\ Head(down[h]) \in DownMsgs
        /\ down' = ForwardDown(h, Head(down[h])) /\ up' = up /\ info' = info /\ properties' = properties
    BY <1>0, <1>11, ReadFacts DEF HLAOnStart, HasRequest, Searches, hlaVars
  <2>2. PassesDown(h, Searches)
    BY <1>1, <2>1 DEF PassesDown
  <2> QED
    BY <1>8, <2>1, <2>2 DEF HLAPasses
<1>12. CASE HLAOnCheck(h)
  <2>1. PassesDown(h, {"check"})
    BY <1>2, <1>12 DEF HLAOnCheck, hlaVars, DownTypes
  <2>2. info' = SetAll(h, "properties_sent", FALSE)
    BY <1>12 DEF HLAOnCheck
  <2>3. \A n \in Agents : /\ info'[n].search_status = info[n].search_status
                          /\ info'[n].properties_sent = (Parent[n] # h /\ info[n].properties_sent)
    BY <1>0, <2>2 DEF SetAll, AgentInfo
  <2> QED
    BY <2>1, <2>3 DEF HLAPassesCheck, SameSearchNotes
<1>13. CASE HLAOnTerminate(h)
  BY <1>2, <1>7, <1>13 DEF HLAOnTerminate, hlaVars, DownTypes, HLAPasses, Controls
<1>14. CASE HLAOnSerializeCalltree(h)
  BY <1>2, <1>7, <1>14 DEF HLAOnSerializeCalltree, hlaVars, DownTypes, HLAPasses
<1>15. CASE HLAOnReinit(h)
  BY <1>2, <1>7, <1>15 DEF HLAOnReinit, DownTypes, HLAPasses, Controls
<1>16. CASE HLAOnQuit(h)
  BY <1>2, <1>8, <1>16 DEF HLAOnQuit, hlaVars, DownTypes, HLAPasses, Controls
<1>17. ASSUME NEW c \in Agents, HLAHandleMessage(h, c)
       PROVE  \/ HLAPlain(h)
              \/ /\ c \in Children(h) /\ up[c] # <<>>
                 /\ \E ms \in Seq(UpMsgs) :
                       /\ PassedUp(up, up', c, h, ms)
                       /\ \/ HLANotesSearch(h, c, ms) \/ HLANotesCheck(h, c, ms)
                          \/ HLANotesFound(h, c, ms) \/ HLANotesTree(h, c, ms)
  <2>0. c \in Children(h) /\ down' = down /\ up[c] # <<>> /\ Head(up[c]) \in UpMsgs
    <3>1. Parent[c] = h /\ down' = down /\ up[c] # <<>>
      BY <1>17
      DEF HLAHandleMessage, HLAOnHeartbeat, HLAOnFoundProp, HLAOnCalltree, HLAOnCalltreeSent,
          HLAOnSearchRequest, HLAOnTerminated, HLAOnPropertiesSent, HasMessage
    <3> QED
      BY <1>0, <1>6, <3>1, ReadFacts
  <2>1. {"heartbeat", "calltree", "terminated"} \cap Answers = {}
    BY DEF Answers, SearchRequests
  <2>2. CASE HLAOnHeartbeat(h, c)
    <3>1. /\ Head(up[c]).type = "heartbeat" /\ up' = ForwardUp(c, h, <<>>) /\ properties' = properties
          /\ info' = [info EXCEPT ![c] = IF @.status = "INITIAL"
                                         THEN [@ EXCEPT !.status = "STARTED"]
                                         ELSE [@ EXCEPT !.status_reinit = "STARTED"]]
      BY <2>2 DEF HLAOnHeartbeat, HasMessage, hlaVars
    <3>2. SameSearchNotes /\ SameCheckNotes
      BY <1>0, <3>1 DEF SameSearchNotes, SameCheckNotes, AgentInfo
    <3>3. PassedUp(up, up', c, h, <<>>)
      BY <1>3, <1>5, <2>0, <3>1
    <3> QED
      BY <1>5, <2>0, <2>1, <3>1, <3>2, <3>3 DEF HLAPlain
  <2>3. CASE HLAOnCalltree(h, c)
    <3>1. /\ Head(up[c]).type = "calltree" /\ up' = ForwardUp(c, h, <<Head(up[c])>>)
          /\ properties' = properties /\ info' = info
      BY <2>3 DEF HLAOnCalltree, HasMessage, hlaVars
    <3>2. Silent(<<Head(up[c])>>) /\ <<Head(up[c])>> \in Seq(UpMsgs)
      BY <2>0, <2>1, <3>1, SingleFacts DEF Silent
    <3>3. PassedUp(up, up', c, h, <<Head(up[c])>>)
      BY <1>3, <2>0, <3>1, <3>2
    <3> QED
      BY <1>8, <2>0, <2>1, <3>1, <3>2, <3>3 DEF HLAPlain
  <2>4. CASE HLAOnTerminated(h, c)
    <3>1. /\ Head(up[c]).type = "terminated" /\ properties' = properties
          /\ info' = [info EXCEPT ![c].appl_terminated = TRUE]
          /\ \/ up' = ForwardUp(c, h, <<>>)
             \/ up' = ForwardUp(c, h, <<Msg("terminated")>>)
      BY <2>4 DEF HLAOnTerminated, HasMessage, hlaVars
    <3>2. SameSearchNotes /\ SameCheckNotes
      BY <1>0, <3>1 DEF SameSearchNotes, SameCheckNotes, AgentInfo
    <3>3. PICK ms \in Seq(UpMsgs) : up' = ForwardUp(c, h, ms) /\ Silent(ms)
      BY <1>4, <1>5, <2>1, <3>1 DEF UpTypes
    <3>4. PassedUp(up, up', c, h, ms)
      BY <1>3, <2>0, <3>3
    <3> QED
      BY <2>0, <2>1, <3>1, <3>2, <3>3, <3>4 DEF HLAPlain
  <2>5. CASE HLAOnFoundProp(h, c)
    <3>1. /\ Head(up[c]).type = "foundprop" /\ info' = info
          /\ \/ up' = ForwardUp(c, h, <<>>)
             \/ up' = ForwardUp(c, h, <<Head(up[c])>>)
      BY <2>5 DEF HLAOnFoundProp, HasMessage
    <3>2. \A k \in HLAs : k # h => properties'[k] = properties[k]
      BY <1>0, <2>5 DEF HLAOnFoundProp
    <3>3. FoundOnly(<<>>) /\ FoundOnly(<<Head(up[c])>>) /\ <<Head(up[c])>> \in Seq(UpMsgs)
      BY <1>5, <2>0, <3>1, SingleFacts, EmptyFacts DEF FoundOnly
    <3>4. PICK ms \in Seq(UpMsgs) : up' = ForwardUp(c, h, ms) /\ FoundOnly(ms)
      BY <1>5, <3>1, <3>3
    <3>5. PassedUp(up, up', c, h, ms)
      BY <1>3, <2>0, <3>4
    <3>6. HLANotesFound(h, c, ms)
      BY <1>8, <2>0, <3>1, <3>2, <3>4 DEF HLANotesFound
    <3> QED
      BY <2>0, <3>5, <3>6
  <2>6. CASE HLAOnCalltreeSent(h, c)
    <3>1. /\ Head(up[c]).type = "calltreesent" /\ properties' = properties
          /\ info' = [info EXCEPT ![c].calltree_sent = TRUE]
          /\ \/ up' = ForwardUp(c, h, <<>>) /\ Before(c) # {}
             \/ up' = ForwardUp(c, h, <<Msg("calltreesent")>>)
      BY <2>6 DEF HLAOnCalltreeSent, HasMessage, hlaVars
    <3>2. SameSearchNotes /\ SameCheckNotes
      BY <1>0, <3>1 DEF SameSearchNotes, SameCheckNotes, AgentInfo
    <3>3. TreeReply(<<Msg("calltreesent")>>) /\ <<Msg("calltreesent")>> \in Seq(UpMsgs)
      BY <1>4 DEF TreeReply, UpTypes
    <3>4. PICK ms \in Seq(UpMsgs) : /\ up' = ForwardUp(c, h, ms)
                                    /\ ms = <<>> \/ TreeReply(ms)
                                    /\ Before(c) = {} => TreeReply(ms)
      BY <1>5, <3>1, <3>3
    <3>5. PassedUp(up, up', c, h, ms)
      BY <1>3, <2>0, <3>4
    <3>6. HLANotesTree(h, c, ms)
      BY <2>0, <3>1, <3>2, <3>4 DEF HLANotesTree
    <3> QED
      BY <2>0, <3>5, <3>6
  <2>7. CASE HLAOnSearchRequest(h, c)
    <3> DEFINE now == [info EXCEPT ![c].search_status = StatusOf(Head(up[c]).type)]
    <3>1. /\ Head(up[c]).type \in SearchRequests /\ properties' = properties
          /\ \/ /\ AllReported(Children(h), now)
                /\ up' = ForwardUp(c, h, <<Msg(RequestOf(Combined(Children(h), now)))>>)
                /\ info' = SetAll(h, "search_status", "UNDEFINED")
             \/ /\ ~AllReported(Children(h), now)
                /\ up' = ForwardUp(c, h, <<>>)
                /\ info' = now
      BY <2>7 DEF HLAOnSearchRequest, hlaVars
    <3>2. /\ now[c].search_status # "UNDEFINED" /\ now[c].properties_sent = info[c].properties_sent
          /\ \A n \in Agents : n # c => now[n] = info[n]
      <4>1. StatusOf(Head(up[c]).type) # "UNDEFINED"
        BY <3>1 DEF SearchRequests, StatusOf
      <4> QED
        BY <1>0, <2>0, <4>1 DEF AgentInfo
    <3>3. AllReported(Children(h), now) <=> \A m \in Children(h) : m # c => info[m].search_status # "UNDEFINED"
      <4>1. Children(h) \subseteq Agents
        BY DEF Children
      <4> HIDE DEF now
      <4> QED
        BY <3>2, <4>1 DEF AllReported
    <3> HIDE DEF now
    <3>4. CASE AllReported(Children(h), now)
      <4> DEFINE t == RequestOf(Combined(Children(h), now))
      <4>1. t \in SearchRequests /\ t \in UpTypes
        BY DEF RequestOf, Combined, UpTypes, SearchRequests
      <4> HIDE DEF t
      <4>2. SearchReply(<<Msg(t)>>) /\ <<Msg(t)>> \in Seq(UpMsgs)
        BY <1>4, <4>1 DEF SearchReply
      <4>3. PassedUp(up, up', c, h, <<Msg(t)>>)
        BY <1>3, <2>0, <3>1, <3>4, <4>2 DEF t
      <4>4. /\ SameCheckNotes
            /\ \A n \in Agents : info'[n].search_status = IF Parent[n] = h THEN "UNDEFINED"
                                                          ELSE info[n].search_status
        BY <1>0, <3>1, <3>4 DEF SetAll, SameCheckNotes, AgentInfo
      <4>5. HLANotesSearch(h, c, <<Msg(t)>>)
        BY <2>0, <3>1, <3>3, <3>4, <4>2, <4>4 DEF HLANotesSearch
      <4> QED
        BY <2>0, <4>2, <4>3, <4>5
    <3>5. CASE ~AllReported(Children(h), now)
      <4>1. PassedUp(up, up', c, h, <<>>)
        BY <1>3, <1>5, <2>0, <3>1, <3>5
      <4>2. /\ SameCheckNotes
            /\ \A n \in Agents : IF n = c THEN info'[n].search_status # "UNDEFINED"
                                 ELSE info'[n].search_status = info[n].search_status
        BY <2>0, <3>1, <3>2, <3>5 DEF SameCheckNotes
      <4>3. HLANotesSearch(h, c, <<>>)
        BY <2>0, <3>1, <3>3, <3>5, <4>2 DEF HLANotesSearch
      <4> QED
        BY <1>5, <2>0, <4>1, <4>3
    <3> QED
      BY <3>4, <3>5
  <2>8. CASE HLAOnPropertiesSent(h, c)
    <3>1. Head(up[c]).type = "propertiessent" /\ info' = [info EXCEPT ![c].properties_sent = TRUE]
      BY <2>8 DEF HLAOnPropertiesSent, HasMessage
    <3>2. \A n \in Agents : /\ info'[n].search_status = info[n].search_status
                            /\ info'[n].properties_sent = (n = c \/ info[n].properties_sent)
      BY <1>0, <3>1 DEF AgentInfo
    <3>3. (\A n \in Children(h) : info'[n].properties_sent)
            <=> \A m \in Children(h) : m # c => info[m].properties_sent
      <4>1. Children(h) \subseteq Agents
        BY DEF Children
      <4> QED
        BY <3>2, <4>1
    <3>4. CASE \A n \in Children(h) : info'[n].properties_sent
      <4> DEFINE ms == ClusterProps(h) \o <<Msg("propertiessent")>>
      <4>1. /\ <<Msg("propertiessent")>> \in Seq(UpMsgs)
            /\ \A T : Has(<<Msg("propertiessent")>>, T) <=> "propertiessent" \in T
            /\ \A T : One(<<Msg("propertiessent")>>, T)
            /\ \A T, U : T \cap U = {} => Behind(<<Msg("propertiessent")>>, T, U)
        BY <1>4 DEF UpTypes
      <4>2. ClusterProps(h) \in Seq(UpMsgs) /\ \A T : Has(ClusterProps(h), T) => "foundprop" \in T
        <5>1. /\ [type |-> "foundprop", props |-> properties[h]] \in UpMsgs
              /\ [type |-> "foundprop", props |-> properties[h]].type = "foundprop"
          BY <1>0, UpMsgFacts
        <5> QED
          BY <5>1, SingleFacts, EmptyFacts DEF ClusterProps
      <4>3. /\ ms \in Seq(UpMsgs)
            /\ \A T : Has(ms, T) <=> Has(ClusterProps(h), T) \/ Has(<<Msg("propertiessent")>>, T)
            /\ \A T : (One(ClusterProps(h), T) /\ ~Has(<<Msg("propertiessent")>>, T))
                        \/ (One(<<Msg("propertiessent")>>, T) /\ ~Has(ClusterProps(h), T)) => One(ms, T)
            /\ \A T, U : Behind(ClusterProps(h), T, U) /\ Behind(<<Msg("propertiessent")>>, T, U)
                           /\ (~Has(ClusterProps(h), T) \/ ~Has(<<Msg("propertiessent")>>, U))
                           => Behind(ms, T, U)
        BY <4>1, <4>2, ConcatFacts
      <4> HIDE DEF ms
      <4>4. CheckReply(ms)
        <5>1. ~Has(ClusterProps(h), {"propertiessent"})
          BY <4>2
        <5>2. Has(ms, {"propertiessent"}) /\ One(ms, {"propertiessent"})
          BY <4>1, <4>3, <5>1
        <5>3. Behind(ms, {"propertiessent"}, {"foundprop"})
          <6>1. Behind(ClusterProps(h), {"propertiessent"}, {"foundprop"})
            BY <5>1, HasFacts
          <6>2. Behind(<<Msg("propertiessent")>>, {"propertiessent"}, {"foundprop"})
            BY <4>1
          <6> QED
            BY <4>3, <5>1, <6>1, <6>2
        <5>4. ~Has(ms, Answers \ {"propertiessent", "foundprop"})
          BY <4>1, <4>2, <4>3
        <5> QED
          BY <4>3, <5>2, <5>3, <5>4 DEF CheckReply
      <4>5. up' = ForwardUp(c, h, ms) /\ properties' = [properties EXCEPT ![h] = {}]
        BY <2>8, <3>4 DEF HLAOnPropertiesSent, ms
      <4>6. PassedUp(up, up', c, h, ms)
        BY <1>3, <2>0, <4>3, <4>5
      <4>7. HLANotesCheck(h, c, ms)
        BY <2>0, <3>1, <3>2, <3>3, <3>4, <4>4, <4>5 DEF HLANotesCheck, SameSearchNotes
      <4> QED
        BY <2>0, <4>3, <4>6, <4>7
    <3>5. CASE ~\A n \in Children(h) : info'[n].properties_sent
      <4>1. up' = ForwardUp(c, h, <<>>) /\ properties' = properties
        BY <2>8, <3>5 DEF HLAOnPropertiesSent
      <4>2. PassedUp(up, up', c, h, <<>>)
        BY <1>3, <1>5, <2>0, <4>1
      <4>3. HLANotesCheck(h, c, <<>>)
        BY <2>0, <3>1, <3>2, <3>3, <3>5, <4>1 DEF HLANotesCheck, SameSearchNotes
      <4> QED
        BY <1>5, <2>0, <4>2, <4>3
    <3> QED
      BY <3>4, <3>5
  <2> QED
    BY <1>17, <2>2, <2>3, <2>4, <2>5, <2>6, <2>7, <2>8 DEF HLAHandleMessage
<1> QED
  BY <1>9, <1>10, <1>11, <1>12, <1>13, <1>14, <1>15, <1>16, <1>17 DEF HLAStep, HLAHandleRequest

\* The event loop waits for a search that it has asked for; for a call-tree.
Waiting     == loop \in {"STARTUP", "STARTUP_REINIT"} /\ ~ended /\ ~timerOn /\ ~quitting
TreeAwaited == loop = "REQUESTCALLTREE" /\ ~ended /\ ~timerOn /\ ~quitting

\* Between two operations there is no event loop, and call-trees are only
\* gathered with support for them.
Control ==
    /\ op \in {"none", "again", "final"} => loop = "off" /\ stage = "run"
    /\ ~Rts => loop # "REQUESTCALLTREE" /\ stage # "calltree"

FESends(T) == \E m : m.type \in T /\ Sent(down, down', FE, m)

\* What the frontend leaves alone.
SameBelow ==
    /\ UNCHANGED <<started, found, attached, properties>>
    /\ \A n \in Agents : Parent[n] # FE => /\ info'[n].search_status = info[n].search_status
                                           /\ info'[n].properties_sent = info[n].properties_sent

\* Neither before nor after it waits for agents.
FEQuiet ==
    /\ up' = up
    /\ ~Waiting /\ ~TreeAwaited /\ ~Waiting' /\ ~TreeAwaited'
    /\ \/ down' = down /\ run' = run
       \/ FESends({"terminate", "quit"}) /\ run' = run
       \/ FERerun /\ FESends({"reinit"})

\* It begins to wait.
FEAsksSearch ==
    /\ up' = up /\ run' = run
    /\ ~Waiting /\ ~TreeAwaited /\ Waiting' /\ ~TreeAwaited'
    /\ FESends(Searches)
    /\ \A c \in Children(FE) : ~info'[c].properties_sent

FEAsksTree ==
    /\ up' = up /\ run' = run
    /\ ~Waiting /\ ~TreeAwaited /\ ~Waiting' /\ TreeAwaited'
    /\ FESends({"serializecalltree"})

\* It reads a message of child c.
FEReadsPlain(c) ==
    /\ Head(up[c]).type \notin Answers \ {"foundprop"}
    /\ down' = down
    /\ Waiting' <=> Waiting
    /\ TreeAwaited' <=> TreeAwaited
    /\ \A n \in Children(FE) : info'[n].properties_sent => info[n].properties_sent

FEReadsSearch(c) ==
    /\ Head(up[c]).type \in SearchRequests
    /\ ~info[c].properties_sent =>
          /\ FESends({"check"})
          /\ Waiting' <=> Waiting
          /\ TreeAwaited' <=> TreeAwaited

FEReadsCheck(c) ==
    /\ Head(up[c]).type = "propertiessent"
    /\ \/ down' = down
       \/ FESends({"quit"})
       \/ /\ FESends(Searches)
          /\ Waiting' <=> Waiting
          /\ \A n \in Children(FE) : ~info'[n].properties_sent

FEReadsTree(c) ==
    /\ Head(up[c]).type = "calltreesent"
    /\ down' = down

LEMMA FESent ==
    ASSUME Types, NEW m \in DownMsgs, down' = SendToChildren(FE, m)
    PROVE  \A T : m.type \in T => FESends(T)
<1>1. /\ down' \in [Agents -> Seq(DownMsgs)]
      /\ \A n \in Agents : down'[n] = IF Parent[n] = FE THEN Append(down[n], m) ELSE down[n]
  <2>1. down \in [Agents -> Seq(DownMsgs)]
    BY DEF Types, StreamTypes
  <2>2. /\ SendToChildren(FE, m) \in [Agents -> Seq(DownMsgs)]
        /\ \A n \in Agents : SendToChildren(FE, m)[n] = IF Parent[n] = FE THEN Append(down[n], m) ELSE down[n]
    BY <2>1, SentDown
  <2> QED
    BY <2>2
<1>2. Sent(down, down', FE, m)
  BY <1>1, SendTo DEF Types, StreamTypes
<1> QED
  BY <1>2 DEF FESends

LEMMA FESentType ==
    ASSUME Types, NEW t \in DownTypes, down' = SendToChildren(FE, Msg(t))
    PROVE  \A T : t \in T => FESends(T)
<1>1. Msg(t) \in DownMsgs /\ Msg(t).type = t
  BY DownMsgFacts
<1> QED
  BY <1>1, FESent

LEMMA FEStarted ==
    ASSUME Types, NEW i \in [Agents -> AgentInfo], Start(i)
    PROVE  /\ \A n \in Agents : Parent[n] # FE => info'[n] = i[n]
           /\ \/ down' = down /\ ended'
              \/ /\ FESends(Searches) /\ ended' = ended
                 /\ \A n \in Children(FE) : info'[n].properties_sent = FALSE
<1>1. CASE buffer = <<>>
  BY <1>1 DEF Start
<1>2. CASE buffer # <<>>
  <2>1. /\ [type |-> "start", requests |-> buffer] \in DownMsgs
        /\ [type |-> "start", requests |-> buffer].type \in Searches
    <3>1. buffer \in Seq(Requests) \ {<<>>}
      BY <1>2 DEF Types, NumberTypes
    <3> QED
      BY <3>1, DownMsgFacts DEF Searches
  <2>2. /\ down' = SendToChildren(FE, [type |-> "start", requests |-> buffer])
        /\ info' = ForChildren(i, "properties_sent", FALSE) /\ ended' = ended
    BY <1>2 DEF Start
  <2>3. FESends(Searches)
    BY <2>1, <2>2, FESent
  <2>4. \A n \in Agents : Parent[n] # FE => info'[n] = i[n]
    BY <2>2 DEF ForChildren
  <2>5. \A n \in Children(FE) : info'[n].properties_sent = FALSE
    BY <2>2 DEF ForChildren, AgentInfo, Children
  <2> QED
    BY <2>2, <2>3, <2>4, <2>5
<1> QED
  BY <1>1, <1>2

\* What the frontend does without a message.
LEMMA FEOwnKinds ==
    ASSUME Types, Control,
           \/ FEHandleStep \/ FETimeout \/ FEQuitFinished
           \/ FERestart \/ FERerun \/ FEResults \/ FECalltreeDone \/ FEPhaseAgain
           \/ FERestartDone \/ FESearchEnded
           \/ FEBegin("analysis") \/ FEBegin("phase") \/ FEConsiderRestart
           \/ FEFinalize
    PROVE  SameBelow /\ (FEQuiet \/ FEAsksSearch \/ FEAsksTree)
<1>0. info \in [Agents -> AgentInfo]
  BY DEF Types, TreeTypes
<1>1. \A t \in DownTypes : down' = SendToChildren(FE, Msg(t)) => \A T : t \in T => FESends(T)
  BY FESentType
<1>2. {"terminate", "reinit", "quit", "startexperiment", "serializecalltree"} \subseteq DownTypes
  BY DEF DownTypes
<1>3. ASSUME UNCHANGED <<started, found, attached, properties>>,
             \A n \in Agents : Parent[n] # FE => info'[n] = info[n]
      PROVE  SameBelow
  BY <1>3 DEF SameBelow
<1>4. ASSUME NEW i, NEW f, NEW v, NEW n \in Agents, Parent[n] # FE PROVE ForChildren(i, f, v)[n] = i[n]
  BY <1>4 DEF ForChildren
<1>5. CASE FEHandleStep
  <2>1. /\ timerOn /\ ~timerOn' /\ ~ended /\ ~quitting /\ quitting' = quitting /\ loop' = loop /\ up' = up /\ run' = run
        /\ UNCHANGED <<started, found, attached, properties>>
    BY <1>5 DEF FEHandleStep, InLoop, aaVars, appVars, hlaVars, decVars
  <2>2. ~Waiting /\ ~TreeAwaited
    BY <2>1 DEF Waiting, TreeAwaited
  <2>3. CASE StepStartup
    <3>1. Start(info) /\ loop = "STARTUP"
      BY <2>3 DEF StepStartup
    <3>2. /\ \A n \in Agents : Parent[n] # FE => info'[n] = info[n]
          /\ \/ down' = down /\ ended'
             \/ /\ FESends(Searches) /\ ended' = ended
                /\ \A n \in Children(FE) : info'[n].properties_sent = FALSE
      BY <1>0, <3>1, FEStarted
    <3>3. SameBelow
      BY <1>3, <2>1, <3>2
    <3>4. CASE down' = down /\ ended'
      BY <2>1, <2>2, <3>1, <3>3, <3>4 DEF FEQuiet, Waiting, TreeAwaited
    <3>5. CASE /\ FESends(Searches) /\ ended' = ended
               /\ \A n \in Children(FE) : info'[n].properties_sent = FALSE
      <4>1. Waiting' /\ ~TreeAwaited'
        BY <2>1, <3>1, <3>5 DEF Waiting, TreeAwaited
      <4> QED
        BY <2>1, <2>2, <3>3, <3>5, <4>1 DEF FEAsksSearch
    <3> QED
      BY <3>2, <3>4, <3>5
  <2>4. CASE StepStartupReinit
    <3>1. /\ loop = "STARTUP_REINIT" /\ ended' = ended /\ down' = SendToChildren(FE, Msg("startexperiment"))
          /\ info' = ForChildren(ForChildren(info, "search_status", "UNDEFINED"), "properties_sent", FALSE)
      BY <2>4 DEF StepStartupReinit
    <3>2. FESends(Searches)
      BY <1>1, <1>2, <3>1 DEF Searches
    <3>3. \A n \in Agents : Parent[n] # FE => info'[n] = info[n]
      BY <3>1 DEF ForChildren
    <3>4. \A n \in Children(FE) : ~info'[n].properties_sent
      BY <1>0, <3>1 DEF ForChildren, Children, AgentInfo
    <3>5. Waiting' /\ ~TreeAwaited'
      BY <2>1, <3>1 DEF Waiting, TreeAwaited
    <3> QED
      BY <1>3, <2>1, <2>2, <3>2, <3>3, <3>4, <3>5 DEF FEAsksSearch
  <2>5. CASE StepApplicationTermination
    <3>1. down' = down /\ info' = info /\ ended'
      BY <2>5 DEF StepApplicationTermination
    <3> QED
      BY <1>3, <2>1, <2>2, <3>1 DEF FEQuiet, Waiting, TreeAwaited
  <2>6. CASE StepRequestCalltree
    <3>1. /\ loop = "REQUESTCALLTREE" /\ ended' = ended /\ down' = SendToChildren(FE, Msg("serializecalltree"))
          /\ info' = ForChildren(info, "calltree_sent", FALSE)
      BY <2>6 DEF StepRequestCalltree
    <3>2. FESends({"serializecalltree"})
      BY <1>1, <1>2, <3>1
    <3>3. \A n \in Agents : Parent[n] # FE => info'[n] = info[n]
      BY <3>1 DEF ForChildren
    <3>4. ~Waiting' /\ TreeAwaited'
      BY <2>1, <3>1 DEF Waiting, TreeAwaited
    <3> QED
      BY <1>3, <2>1, <2>2, <3>2, <3>3, <3>4 DEF FEAsksTree
  <2> QED
    BY <1>5, <2>3, <2>4, <2>5, <2>6 DEF FEHandleStep
<1>6. CASE FETimeout
  <2>1. /\ timerOn /\ timerOn' = timerOn /\ info' = info /\ up' = up /\ run' = run
        /\ UNCHANGED <<started, found, attached, properties>> /\ down' = SendToChildren(FE, Msg("quit"))
    BY <1>6 DEF FETimeout, loopVars, aaVars, appVars, hlaVars, Quit
  <2>2. FESends({"terminate", "quit"})
    BY <1>1, <1>2, <2>1
  <2> QED
    BY <1>3, <2>1, <2>2 DEF FEQuiet, Waiting, TreeAwaited
<1>7. CASE FEQuitFinished
  <2>1. /\ quitting /\ ended' /\ info' = info /\ up' = up /\ down' = down /\ run' = run
        /\ UNCHANGED <<started, found, attached, properties>>
    BY <1>7 DEF FEQuitFinished, treeVars, aaVars, hlaVars
  <2> QED
    BY <1>3, <2>1 DEF FEQuiet, Waiting, TreeAwaited
<1>8. ASSUME up' = up, ended \/ loop = "off", timerOn' \/ loop' = "off", SameBelow,
             \/ down' = down /\ run' = run
             \/ down' = SendToChildren(FE, Msg("terminate")) /\ run' = run
             \/ down' = SendToChildren(FE, Msg("quit")) /\ run' = run
             \/ FERerun /\ down' = SendToChildren(FE, Msg("reinit"))
      PROVE  FEQuiet
  <2>1. ~Waiting /\ ~TreeAwaited /\ ~Waiting' /\ ~TreeAwaited'
    BY <1>8 DEF Waiting, TreeAwaited
  <2>2. \/ down' = down /\ run' = run
        \/ FESends({"terminate", "quit"}) /\ run' = run
        \/ FERerun /\ FESends({"reinit"})
    BY <1>1, <1>2, <1>8
  <2> QED
    BY <1>8, <2>1, <2>2 DEF FEQuiet
<1>9. ASSUME BeginRestart
      PROVE  /\ down' = SendToChildren(FE, Msg("terminate")) /\ timerOn'
             /\ \A n \in Agents : Parent[n] # FE => info'[n] = info[n]
  <2>1. info' = ForChildren(info, "appl_terminated", FALSE) /\ down' = SendToChildren(FE, Msg("terminate")) /\ timerOn'
    BY <1>9 DEF BeginRestart, EnterLoop
  <2> QED
    BY <2>1 DEF ForChildren
<1>10. CASE FERestart
  <2>1. BeginRestart /\ ended /\ up' = up /\ run' = run /\ UNCHANGED <<started, found, attached, properties>>
    BY <1>10 DEF FERestart, LoopEnded, aaVars, appVars, hlaVars
  <2> QED
    BY <1>3, <1>8, <1>9, <2>1
<1>11. CASE FERerun
  <2>1. /\ ended /\ up' = up /\ info' = info /\ down' = SendToChildren(FE, Msg("reinit")) /\ timerOn'
        /\ UNCHANGED <<started, found, attached, properties>>
    BY <1>11 DEF FERerun, LoopEnded, aaVars, hlaVars, EnterLoop
  <2> QED
    BY <1>3, <1>8, <1>11, <2>1
<1>12. CASE FEResults
  <2>1. /\ ended /\ up' = up /\ info' = info /\ down' = down /\ run' = run
        /\ UNCHANGED <<started, found, attached, properties>> /\ (timerOn' \/ loop' = "off")
    BY <1>12 DEF FEResults, LoopEnded, treeVars, aaVars, appVars, hlaVars, EnterLoop, Finished
  <2> QED
    BY <1>3, <1>8, <2>1
<1>13. CASE FECalltreeDone
  <2>1. /\ ended /\ up' = up /\ info' = info /\ down' = down /\ run' = run
        /\ UNCHANGED <<started, found, attached, properties>> /\ loop' = "off"
    BY <1>13 DEF FECalltreeDone, LoopEnded, treeVars, aaVars, appVars, hlaVars, Finished
  <2> QED
    BY <1>3, <1>8, <2>1
<1>14. CASE FEPhaseAgain
  <2>1. /\ loop = "off" /\ up' = up /\ info' = info /\ down' = down /\ run' = run
        /\ UNCHANGED <<started, found, attached, properties>> /\ timerOn'
    BY <1>14 DEF FEPhaseAgain, Control, treeVars, aaVars, appVars, hlaVars, EnterLoop
  <2> QED
    BY <1>3, <1>8, <2>1
<1>15. CASE FERestartDone
  <2>1. /\ ended /\ up' = up /\ info' = info /\ down' = down /\ run' = run
        /\ UNCHANGED <<started, found, attached, properties>> /\ timerOn'
    BY <1>15 DEF FERestartDone, LoopEnded, treeVars, aaVars, appVars, hlaVars, EnterLoop
  <2> QED
    BY <1>3, <1>8, <2>1
<1>16. CASE FESearchEnded
  <2>1. /\ ended /\ up' = up /\ run' = run /\ UNCHANGED <<started, found, attached, properties>>
        /\ BeginRestart \/ (Finished("none") /\ UNCHANGED <<down, info>>)
    BY <1>16 DEF FESearchEnded, LoopEnded, aaVars, appVars, hlaVars
  <2>2. CASE BeginRestart
    BY <1>3, <1>8, <1>9, <2>1, <2>2
  <2>3. CASE Finished("none") /\ UNCHANGED <<down, info>>
    BY <1>3, <1>8, <2>1, <2>3 DEF Finished
  <2> QED
    BY <2>1, <2>2, <2>3
<1>17. CASE FEBegin("analysis") \/ FEBegin("phase")
  <2>1. /\ loop = "off" /\ up' = up /\ info' = info /\ down' = down /\ run' = run
        /\ UNCHANGED <<started, found, attached, properties>> /\ timerOn'
    BY <1>17 DEF FEBegin, Control, treeVars, aaVars, appVars, hlaVars, EnterLoop
  <2> QED
    BY <1>3, <1>8, <2>1
<1>18. CASE FEConsiderRestart
  <2>1. /\ BeginRestart /\ loop = "off" /\ up' = up /\ run' = run
        /\ UNCHANGED <<started, found, attached, properties>>
    BY <1>18 DEF FEConsiderRestart, Control, aaVars, appVars, hlaVars
  <2> QED
    BY <1>3, <1>8, <1>9, <2>1
<1>19. CASE FEFinalize
  <2>1. /\ loop = "off" /\ loop' = loop /\ up' = up /\ info' = info /\ run' = run
        /\ UNCHANGED <<started, found, attached, properties>> /\ down' = SendToChildren(FE, Msg("quit"))
    BY <1>19 DEF FEFinalize, Control, loopVars, aaVars, appVars, hlaVars, Quit
  <2> QED
    BY <1>3, <1>8, <2>1
<1> QED
  BY <1>5, <1>6, <1>7, <1>10, <1>11, <1>12, <1>13, <1>14, <1>15, <1>16, <1>17, <1>18, <1>19

\* What it does with a message of its child.
LEMMA FEMessageKinds ==
    ASSUME Types, NEW c \in Agents, FEHandleMessage(c)
    PROVE  /\ c \in Children(FE) /\ up[c] # <<>> /\ Read(up, up', c) /\ SameBelow /\ run' = run
           /\ FEReadsPlain(c) \/ FEReadsSearch(c) \/ FEReadsCheck(c) \/ FEReadsTree(c)
<1>0. info \in [Agents -> AgentInfo] /\ up \in [Agents -> Seq(UpMsgs)]
  BY DEF Types, TreeTypes, StreamTypes
<1>1. /\ UNCHANGED <<started, found, attached, properties, loop, timerOn, run>>
      /\ c \in Children(FE) /\ ReadMessage(c)
  BY DEF FEHandleMessage, aaVars, appVars, hlaVars, Children
<1>2. Children(FE) = {c} /\ \A n \in Agents : n \in Children(FE) <=> Parent[n] = FE
  BY <1>1, TreeFacts
<1>3. up[c] # <<>>
  BY DEF FEHandleMessage, FEOnHeartbeat, FEOnFoundProp, FEOnCalltree, FEOnSearchRequest,
         FEOnPropertiesSent, FEOnTerminated, FEOnCalltreeSent, HasMessage
<1>4. Read(up, up', c)
  <2>1. up'[c] = Tail(up[c]) /\ \A k \in Agents : k # c => up'[k] = up[k]
    BY <1>0, <1>1 DEF ReadMessage
  <2> QED
    BY <1>0, <1>3, <2>1, ReadAt
<1> SUFFICES /\ \A n \in Agents : Parent[n] # FE => /\ info'[n].search_status = info[n].search_status
                                                    /\ info'[n].properties_sent = info[n].properties_sent
             /\ FEReadsPlain(c) \/ FEReadsSearch(c) \/ FEReadsCheck(c) \/ FEReadsTree(c)
  BY <1>1, <1>3, <1>4 DEF SameBelow
<1>5. ASSUME ended' = ended, quitting' = quitting PROVE (Waiting' <=> Waiting) /\ (TreeAwaited' <=> TreeAwaited)
  BY <1>1, <1>5 DEF Waiting, TreeAwaited
<1>6. {"heartbeat", "calltree", "terminated", "foundprop"} \cap (Answers \ {"foundprop"}) = {}
  BY DEF Answers, SearchRequests
<1>7. CASE FEOnHeartbeat(c)
  <2>1. /\ Head(up[c]).type = "heartbeat" /\ down' = down /\ ended' = ended /\ quitting' = quitting
        /\ info' = [info EXCEPT ![c] = IF @.status = "INITIAL"
                                   THEN [@ EXCEPT !.status = "STARTED", !.properties_sent = FALSE]
                                   ELSE [@ EXCEPT !.status_reinit = "STARTED", !.properties_sent = FALSE]]
    BY <1>7 DEF FEOnHeartbeat, HasMessage, decVars
  <2>2. info'[c].properties_sent = FALSE /\ \A n \in Agents : n # c => info'[n] = info[n]
    BY <1>0, <2>1 DEF AgentInfo
  <2> QED
    BY <1>2, <1>5, <1>6, <2>1, <2>2 DEF FEReadsPlain
<1>8. CASE FEOnFoundProp(c)
  BY <1>5, <1>6, <1>8 DEF FEOnFoundProp, FEReadsPlain, HasMessage, decVars
<1>9. CASE FEOnCalltree(c)
  BY <1>5, <1>6, <1>9 DEF FEOnCalltree, FEReadsPlain, HasMessage, decVars
<1>10. CASE FEOnTerminated(c)
  <2>1. /\ Head(up[c]).type = "terminated" /\ down' = down /\ ended' = ended /\ quitting' = quitting
        /\ info' = [info EXCEPT ![c].appl_terminated = TRUE]
    BY <1>10 DEF FEOnTerminated, HasMessage, decVars
  <2>2. info'[c].properties_sent = info[c].properties_sent /\ \A n \in Agents : n # c => info'[n] = info[n]
    BY <1>0, <2>1 DEF AgentInfo
  <2> QED
    BY <1>2, <1>5, <1>6, <2>1, <2>2 DEF FEReadsPlain
<1>11. CASE FEOnCalltreeSent(c)
  <2>1. /\ Head(up[c]).type = "calltreesent" /\ down' = down
        /\ \/ info' = ForChildren(info, "calltree_sent", FALSE)
           \/ info' = [info EXCEPT ![c].calltree_sent = TRUE]
    BY <1>11 DEF FEOnCalltreeSent, HasMessage
  <2>2. \A n \in Agents : Parent[n] # FE => info'[n] = info[n]
    BY <1>0, <1>2, <2>1 DEF ForChildren
  <2> QED
    BY <2>1, <2>2 DEF FEReadsTree
<1>12. ASSUME NEW i \in [Agents -> AgentInfo], DecideContinuation(i), \A n \in Agents : n # c => i[n] = info[n]
       PROVE  /\ \A n \in Agents : Parent[n] # FE => info'[n] = info[n]
              /\ i[c].properties_sent =>
                    \/ down' = down
                    \/ FESends({"quit"})
                    \/ /\ FESends(Searches)
                       /\ Waiting' <=> Waiting
                       /\ \A n \in Children(FE) : ~info'[n].properties_sent
              /\ ~i[c].properties_sent /\ i[c].search_status # "UNDEFINED"
                    => /\ down' = SendToChildren(FE, Msg("check"))
                       /\ ended' = ended /\ quitting' = quitting
  <2>0. \A n \in Agents : Parent[n] # FE => i[n] = info[n]
    BY <1>2, <1>12
  <2>1. (AllReported(Children(FE), i) <=> i[c].search_status # "UNDEFINED")
        /\ ((\A n \in Children(FE) : i[n].properties_sent) <=> i[c].properties_sent)
    BY <1>2 DEF AllReported
  <2>2. CASE ~AllReported(Children(FE), i)
    <3>1. info' = i /\ down' = down
      BY <1>12, <2>2 DEF DecideContinuation
    <3> QED
      BY <2>0, <2>1, <2>2, <3>1
  <2>3. CASE AllReported(Children(FE), i) /\ ~i[c].properties_sent
    <3>1. /\ info' = i /\ down' = SendToChildren(FE, Msg("check")) /\ ended' = ended /\ quitting' = quitting
      BY <1>12, <2>1, <2>3 DEF DecideContinuation
    <3> QED
      BY <2>0, <2>3, <3>1
  <2>4. CASE AllReported(Children(FE), i) /\ i[c].properties_sent
    <3>1. PICK s : Enforce(i, s)
      BY <1>12, <2>1, <2>4 DEF DecideContinuation
    <3>2. CASE /\ Start(ForChildren(i, "properties_sent", FALSE))
               /\ UNCHANGED <<need_restart, quit_fe, quitting>>
      <4> DEFINE j == ForChildren(i, "properties_sent", FALSE)
      <4>1. j \in [Agents -> AgentInfo]
        BY FEInfoTypes
      <4>2. \A n \in Agents : Parent[n] # FE => j[n] = i[n]
        BY DEF ForChildren
      <4> HIDE DEF j
      <4>3. /\ \A n \in Agents : Parent[n] # FE => info'[n] = j[n]
            /\ \/ down' = down /\ ended'
               \/ /\ FESends(Searches) /\ ended' = ended
                  /\ \A n \in Children(FE) : info'[n].properties_sent = FALSE
        BY <3>2, <4>1, FEStarted DEF j
      <4>4. ended' = ended => (Waiting' <=> Waiting)
        BY <1>5, <3>2
      <4>5. \A n \in Agents : Parent[n] # FE => info'[n] = info[n]
        BY <2>0, <4>2, <4>3
      <4> QED
        BY <2>4, <4>3, <4>4, <4>5
    <3>3. CASE /\ info' = ForChildren(ForChildren(i, "properties_sent", FALSE), "search_status", "UNDEFINED")
               /\ down' = SendToChildren(FE, Msg("startexperiment"))
               /\ UNCHANGED <<buffer, ended, need_restart, quit_fe, quitting>>
      <4>1. FESends(Searches)
        BY <3>3, FESentType DEF DownTypes, Searches
      <4>2. Waiting' <=> Waiting
        BY <1>5, <3>3
      <4>3. \A n \in Children(FE) : ~info'[n].properties_sent
        BY <1>2, <3>3 DEF ForChildren, AgentInfo
      <4>4. \A n \in Agents : Parent[n] # FE => info'[n] = info[n]
        BY <2>0, <3>3 DEF ForChildren
      <4> QED
        BY <2>4, <4>1, <4>2, <4>3, <4>4
    <3>4. CASE /\ info' = ForChildren(i, "properties_sent", FALSE)
               /\ Quit
      <4>1. FESends({"quit"})
        BY <3>4, FESentType DEF DownTypes, Quit
      <4>2. \A n \in Agents : Parent[n] # FE => info'[n] = info[n]
        BY <2>0, <3>4 DEF ForChildren
      <4> QED
        BY <2>4, <4>1, <4>2
    <3>5. CASE /\ info' = [n \in Agents |->
                             IF Parent[n] = FE
                             THEN [i[n] EXCEPT !.properties_sent = FALSE, !.appl_terminated = FALSE,
                                               !.search_status = "UNDEFINED", !.status_reinit = "INITIAL"]
                             ELSE i[n]]
               /\ UNCHANGED <<down, buffer, quit_fe, quitting>>
      <4>1. \A n \in Agents : Parent[n] # FE => info'[n] = info[n]
        BY <2>0, <3>5
      <4> QED
        BY <2>4, <3>5, <4>1
    <3> QED
      BY <3>1, <3>2, <3>3, <3>4, <3>5 DEF Enforce
  <2> QED
    BY <2>2, <2>3, <2>4
<1>13. CASE FEOnSearchRequest(c)
  <2> DEFINE i == [info EXCEPT ![c].search_status = StatusOf(Head(up[c]).type)]
  <2>1. Head(up[c]).type \in SearchRequests /\ DecideContinuation(i)
    BY <1>13 DEF FEOnSearchRequest
  <2>2. /\ i \in [Agents -> AgentInfo] /\ i[c].search_status # "UNDEFINED"
        /\ i[c].properties_sent = info[c].properties_sent
        /\ \A n \in Agents : n # c => i[n] = info[n]
    <3>1. StatusOf(Head(up[c]).type) \in SearchStatus \ {"UNDEFINED"}
      BY <2>1 DEF SearchRequests, StatusOf, SearchStatus
    <3> QED
      BY <1>0, <3>1 DEF AgentInfo
  <2> HIDE DEF i
  <2>3. /\ \A n \in Agents : Parent[n] # FE => info'[n] = info[n]
        /\ ~info[c].properties_sent => /\ down' = SendToChildren(FE, Msg("check"))
                                       /\ ended' = ended /\ quitting' = quitting
    BY <1>12, <2>1, <2>2
  <2>4. ~info[c].properties_sent => FESends({"check"}) /\ (Waiting' <=> Waiting) /\ (TreeAwaited' <=> TreeAwaited)
    BY <1>5, <2>3, FESentType DEF DownTypes
  <2> QED
    BY <2>1, <2>3, <2>4 DEF FEReadsSearch
<1>14. CASE FEOnPropertiesSent(c)
  <2> DEFINE i == [info EXCEPT ![c].properties_sent = TRUE]
  <2>1. /\ Head(up[c]).type = "propertiessent"
        /\ DecideContinuation(i) \/ (info' = i /\ down' = down)
    BY <1>14 DEF FEOnPropertiesSent, HasMessage
  <2>2. /\ i \in [Agents -> AgentInfo] /\ i[c].properties_sent
        /\ \A n \in Agents : n # c => i[n] = info[n]
    BY <1>0 DEF AgentInfo
  <2> HIDE DEF i
  <2>3. CASE DecideContinuation(i)
    <3>1. /\ \A n \in Agents : Parent[n] # FE => info'[n] = info[n]
          /\ \/ down' = down
             \/ FESends({"quit"})
             \/ /\ FESends(Searches)
                /\ Waiting' <=> Waiting
                /\ \A n \in Children(FE) : ~info'[n].properties_sent
      BY <1>12, <2>2, <2>3
    <3> QED
      BY <2>1, <3>1 DEF FEReadsCheck
  <2>4. CASE info' = i /\ down' = down
    <3>1. \A n \in Agents : Parent[n] # FE => info'[n] = info[n]
      BY <1>2, <2>2, <2>4
    <3> QED
      BY <2>1, <2>4, <3>1 DEF FEReadsCheck
  <2> QED
    BY <2>1, <2>3, <2>4
<1> QED
  BY <1>7, <1>8, <1>9, <1>10, <1>11, <1>13, <1>14 DEF FEHandleMessage

-----------------------------------------------------------------------------
(* What a step does to the agents with a message of a type of T in their   *)
(* stream, s before and r after it.                                        *)

Stays(s, r, T) == In(r, T) = In(s, T) /\ (Single(s, T) => Single(r, T))

\* n reads it; h passes it to its children.
Taken(s, r, n, T) ==
    /\ n \in In(s, T)
    /\ Single(s, T) => In(r, T) = In(s, T) \ {n} /\ Single(r, T)

Spread(s, r, h, T) ==
    /\ h \in In(s, T)
    /\ Single(s, T) => /\ In(r, T) = (In(s, T) \ {h}) \cup Children(h)
                       /\ Children(h) \cap In(s, T) = {} => Single(r, T)

\* n writes it; h reads it from its child c and writes it.
Gained(s, r, n, T) ==
    /\ In(r, T) = In(s, T) \cup {n}
    /\ Single(s, T) /\ n \notin In(s, T) => Single(r, T)

Moved(s, r, c, h, T) ==
    /\ c \in In(s, T)
    /\ Single(s, T) => /\ In(r, T) = (In(s, T) \ {c}) \cup {h}
                       /\ h \notin In(s, T) => Single(r, T)

LEMMA DownStays ==
    ASSUME down' = down, NEW U
    PROVE  Stays(down, down', U)
  BY DEF Stays

LEMMA DownTaken ==
    ASSUME NEW n \in Agents, NEW T, ReadsDown(n, T)
    PROVE  /\ Taken(down, down', n, T)
           /\ \A U : T \cap U = {} => Stays(down, down', U)
<1>1. Read(down, down', n) /\ Head(down[n]).type \in T
  BY DEF ReadsDown
<1>2. Taken(down, down', n, T)
  BY <1>1 DEF Read, Taken
<1>3. ASSUME NEW U, T \cap U = {} PROVE Stays(down, down', U)
  <2>1. Head(down[n]).type \notin U
    BY <1>1, <1>3
  <2> QED
    BY <1>1, <2>1 DEF Read, Stays
<1> QED
  BY <1>2, <1>3

LEMMA DownSpread ==
    ASSUME NEW h \in Agents, NEW T, PassesDown(h, T)
    PROVE  /\ Spread(down, down', h, T)
           /\ \A U : T \cap U = {} => Stays(down, down', U)
           /\ up' = up /\ properties' = properties
<1>1. PICK m \in DownMsgs : m.type \in T /\ PassedDown(down, down', h, m)
  BY DEF PassesDown
<1>2. Spread(down, down', h, T)
  BY <1>1 DEF PassedDown, Spread
<1>3. ASSUME NEW U, T \cap U = {} PROVE Stays(down, down', U)
  <2>1. m.type \notin U
    BY <1>1, <1>3
  <2> QED
    BY <1>1, <2>1 DEF PassedDown, Stays
<1>4. up' = up /\ properties' = properties
  BY DEF PassesDown
<1> QED
  BY <1>2, <1>3, <1>4

LEMMA UpStays ==
    ASSUME up' = up, NEW U
    PROVE  Stays(up, up', U)
  BY DEF Stays

LEMMA UpWritten ==
    ASSUME NEW n \in Agents, NEW ms, Extended(up, up', n, ms)
    PROVE  /\ \A U : ~Has(ms, U) => Stays(up, up', U)
           /\ \A U : Has(ms, U) /\ One(ms, U) => Gained(up, up', n, U)
<1>1. ASSUME NEW U, ~Has(ms, U) PROVE Stays(up, up', U)
  <2>1. One(ms, U)
    BY <1>1, HasFacts
  <2>2. In(up', U) = In(up, U) \cup {}
    BY <1>1 DEF Extended
  <2>3. Single(up, U) => Single(up', U)
    BY <1>1, <2>1 DEF Extended
  <2> QED
    BY <2>2, <2>3 DEF Stays
<1>2. ASSUME NEW U, Has(ms, U), One(ms, U) PROVE Gained(up, up', n, U)
  BY <1>2 DEF Extended, Gained
<1> QED
  BY <1>1, <1>2

LEMMA UpNoted ==
    ASSUME NEW h \in Agents, NEW c \in Agents, NEW ms, PassedUp(up, up', c, h, ms)
    PROVE  /\ \A U : ~Has(ms, U) /\ Head(up[c]).type \notin U => Stays(up, up', U)
           /\ \A U : ~Has(ms, U) /\ Head(up[c]).type \in U => Taken(up, up', c, U)
           /\ \A U : Has(ms, U) /\ One(ms, U) /\ Head(up[c]).type \in U => Moved(up, up', c, h, U)
<1>1. ASSUME NEW U, ~Has(ms, U), Head(up[c]).type \notin U PROVE Stays(up, up', U)
  <2>1. One(ms, U)
    BY <1>1, HasFacts
  <2>2. In(up', U) = In(up, U) \cup {}
    BY <1>1 DEF PassedUp
  <2>3. Single(up, U) => Single(up', U)
    BY <1>1, <2>1 DEF PassedUp
  <2> QED
    BY <2>2, <2>3 DEF Stays
<1>2. ASSUME NEW U, ~Has(ms, U), Head(up[c]).type \in U PROVE Taken(up, up', c, U)
  <2>1. One(ms, U)
    BY <1>2, HasFacts
  <2>2. Single(up, U) => In(up', U) = (In(up, U) \ {c}) \cup {}
    BY <1>2 DEF PassedUp
  <2>3. Single(up, U) => Single(up', U)
    BY <1>2, <2>1 DEF PassedUp
  <2>4. c \in In(up, U)
    BY <1>2 DEF PassedUp
  <2> QED
    BY <2>2, <2>3, <2>4 DEF Taken
<1>3. ASSUME NEW U, Has(ms, U), One(ms, U), Head(up[c]).type \in U PROVE Moved(up, up', c, h, U)
  BY <1>3 DEF PassedUp, Moved
<1> QED
  BY <1>1, <1>2, <1>3

LEMMA UpRead ==
    ASSUME NEW c \in Agents, Read(up, up', c)
    PROVE  /\ \A U : Head(up[c]).type \notin U => Stays(up, up', U)
           /\ \A U : Head(up[c]).type \in U => Taken(up, up', c, U)
  BY DEF Read, Stays, Taken

-----------------------------------------------------------------------------
(* The waves.                                                              *)

AskedSearch == In(down, Searches)
ToldSearch  == In(up, SearchRequests)
AskedCheck  == In(down, {"check"})
ToldCheck   == In(up, {"propertiessent"})
AskedTree   == In(down, {"serializecalltree"})
ToldTree    == In(up, {"calltreesent"})

\* The agents whose high-level agent has noted their report, or, while it waits
\* for its children, their properties.
Reported     == {n \in Agents : Parent[n] # FE /\ info[n].search_status # "UNDEFINED"}
Delivered(C) == {n \in Agents : Parent[n] \in C /\ info[n].properties_sent}

Out(asked, busy, answered) == \E c \in Children(FE) : c \in asked \cup busy \cup answered

SearchOut(B) == Out(AskedSearch, B, ToldSearch)
CheckOut(C)  == Out(AskedCheck, C, ToldCheck)
TreeOut(T)   == Out(AskedTree, T, ToldTree)

SearchWave(B) ==
    /\ Wave(AskedSearch, B, ToldSearch, Reported)
    /\ Single(down, Searches) /\ Single(up, SearchRequests)
    /\ \A a \in AAs : a \in B <=> started[a]

\* Properties are on their way only from agents that are being checked.
CheckWave(C) ==
    /\ Wave(AskedCheck, C, ToldCheck, Delivered(C))
    /\ Single(down, {"check"}) /\ Single(up, {"propertiessent"})
    /\ Ordered(up, {"propertiessent"}, {"foundprop"})
    /\ In(up, {"foundprop"}) \subseteq C \cup ToldCheck
    /\ \A h \in HLAs : properties[h] # {} => h \in C

TreeWave(T) ==
    /\ Wave(AskedTree, T, ToldTree, {})
    /\ Single(down, {"serializecalltree"}) /\ Single(up, {"calltreesent"})

\* What an agent's step does to the wave of a search.
SearchStill ==
    /\ Stays(down, down', Searches) /\ Stays(up, up', SearchRequests)
    /\ started' = started /\ SameSearchNotes

SearchAtLeaf(a) ==
    /\ SameSearchNotes
    /\ \/ /\ Taken(down, down', a, Searches) /\ Stays(up, up', SearchRequests)
          /\ started' = [started EXCEPT ![a] = TRUE]
       \/ /\ Taken(down, down', a, Searches) /\ Gained(up, up', a, SearchRequests)
          /\ started' = started
       \/ /\ Stays(down, down', Searches) /\ Gained(up, up', a, SearchRequests)
          /\ started[a] /\ started' = [started EXCEPT ![a] = FALSE]

SearchSpreads(h) ==
    /\ Spread(down, down', h, Searches) /\ Stays(up, up', SearchRequests)
    /\ started' = started /\ SameSearchNotes

SearchNoted(h, c) ==
    /\ Stays(down, down', Searches) /\ started' = started
    /\ \/ /\ \E m \in Children(h) : m # c /\ info[m].search_status = "UNDEFINED"
          /\ Taken(up, up', c, SearchRequests)
          /\ \A n \in Agents : IF n = c THEN info'[n].search_status # "UNDEFINED"
                               ELSE info'[n].search_status = info[n].search_status
       \/ /\ \A m \in Children(h) : m # c => info[m].search_status # "UNDEFINED"
          /\ Moved(up, up', c, h, SearchRequests)
          /\ \A n \in Agents : info'[n].search_status = IF Parent[n] = h THEN "UNDEFINED"
                                                        ELSE info[n].search_status

LEMMA SearchMoved ==
    ASSUME Types, NEW B \in SUBSET Agents, SearchWave(B),
           \/ SearchStill
           \/ \E a \in AAs : SearchAtLeaf(a)
           \/ \E h \in HLAs : SearchSpreads(h) \/ \E c \in Children(h) : SearchNoted(h, c)
    PROVE  \E B2 \in SUBSET Agents : SearchWave(B2)' /\ (SearchOut(B2)' <=> SearchOut(B))
<1>0. /\ AAs \subseteq Agents /\ HLAs \subseteq Agents /\ AAs \cap HLAs = {} /\ FE \notin Agents
      /\ \A n \in Agents : Parent[n] # n /\ \A h : n \in Children(h) <=> Parent[n] = h
      /\ started \in [AAs -> BOOLEAN]
  BY TreeFacts DEF Types, AATypes
<1> DEFINE Q == AskedSearch
           A == ToldSearch
           G == Reported
<1>1. /\ Q \in SUBSET Agents /\ A \in SUBSET Agents
      /\ Wave(Q, B, A, G) /\ Single(down, Searches) /\ Single(up, SearchRequests)
      /\ \A a \in AAs : a \in B <=> started[a]
  BY DEF SearchWave, AskedSearch, ToldSearch, In
<1>2. SameSearchNotes => Reported' = G
  BY DEF SameSearchNotes, Reported
<1>3. ASSUME Stays(down, down', Searches) PROVE AskedSearch' = Q /\ Single(down', Searches)
  BY <1>1, <1>3 DEF Stays, AskedSearch
<1>4. ASSUME Stays(up, up', SearchRequests) PROVE ToldSearch' = A /\ Single(up', SearchRequests)
  BY <1>1, <1>4 DEF Stays, ToldSearch
<1>5. ASSUME NEW a \in Agents, Taken(down, down', a, Searches)
      PROVE  a \in Q /\ AskedSearch' = Q \ {a} /\ Single(down', Searches)
  BY <1>1, <1>5 DEF Taken, AskedSearch
<1>6. ASSUME NEW a \in Agents, Gained(up, up', a, SearchRequests), a \notin A
      PROVE  ToldSearch' = A \cup {a} /\ Single(up', SearchRequests)
  BY <1>1, <1>6 DEF Gained, ToldSearch
<1>7. CASE SearchStill
  <2>1. /\ AskedSearch' = Q /\ ToldSearch' = A /\ Reported' = G /\ started' = started
        /\ Single(down', Searches) /\ Single(up', SearchRequests)
    BY <1>2, <1>3, <1>4, <1>7 DEF SearchStill
  <2> HIDE DEF Q, A, G
  <2>2. SearchWave(B)'
    BY <1>1, <2>1 DEF SearchWave
  <2>3. SearchOut(B)' <=> SearchOut(B)
    BY <2>1 DEF SearchOut, Out, Q, A
  <2> QED
    BY <2>2, <2>3
<1>8. ASSUME NEW a \in AAs, SearchAtLeaf(a)
      PROVE  \E B2 \in SUBSET Agents : SearchWave(B2)' /\ (SearchOut(B2)' <=> SearchOut(B))
  <2>1. a \in Agents /\ Reported' = G
    BY <1>0, <1>2, <1>8 DEF SearchAtLeaf
  <2> HIDE DEF Q, A, G
  <2>2. /\ a \in Q => /\ a \notin A /\ a \notin B
                      /\ Wave(Q \ {a}, B \cup {a}, A, G)
                      /\ Wave(Q \ {a}, B, A \cup {a}, G)
        /\ a \in B => /\ a \notin A /\ a \notin Q
                      /\ Wave(Q, B \ {a}, A \cup {a}, G)
    BY <1>1, WaveAtLeaf
  <2>3. ASSUME NEW B2 \in SUBSET Agents, Wave(AskedSearch', B2, ToldSearch', G),
               Single(down', Searches), Single(up', SearchRequests),
               \A b \in AAs : b \in B2 <=> started'[b],
               AskedSearch' \cup B2 \cup ToldSearch' = Q \cup B \cup A
        PROVE  SearchWave(B2)' /\ (SearchOut(B2)' <=> SearchOut(B))
    <3>1. SearchWave(B2)'
      BY <2>1, <2>3 DEF SearchWave
    <3>2. SearchOut(B2)' <=> SearchOut(B)
      BY <2>3 DEF SearchOut, Out, Q, A
    <3> QED
      BY <3>1, <3>2
  <2>4. CASE /\ Taken(down, down', a, Searches) /\ Stays(up, up', SearchRequests)
             /\ started' = [started EXCEPT ![a] = TRUE]
    <3>1. a \in Q /\ AskedSearch' = Q \ {a} /\ Single(down', Searches)
      BY <1>5, <2>1, <2>4
    <3>2. ToldSearch' = A /\ Single(up', SearchRequests)
      BY <1>4, <2>4
    <3>3. \A b \in AAs : b \in B \cup {a} <=> started'[b]
      BY <1>0, <1>1, <2>4
    <3>4. Wave(AskedSearch', B \cup {a}, ToldSearch', G) /\ B \cup {a} \in SUBSET Agents
      BY <2>1, <2>2, <3>1, <3>2
    <3>5. AskedSearch' \cup (B \cup {a}) \cup ToldSearch' = Q \cup B \cup A
      BY <3>1, <3>2
    <3> QED
      BY <2>3, <3>1, <3>2, <3>3, <3>4, <3>5
  <2>5. CASE /\ Taken(down, down', a, Searches) /\ Gained(up, up', a, SearchRequests)
             /\ started' = started
    <3>1. a \in Q /\ AskedSearch' = Q \ {a} /\ Single(down', Searches)
      BY <1>5, <2>1, <2>5
    <3>2. ToldSearch' = A \cup {a} /\ Single(up', SearchRequests)
      BY <1>6, <2>1, <2>2, <2>5, <3>1
    <3>3. \A b \in AAs : b \in B <=> started'[b]
      BY <1>1, <2>5
    <3>4. Wave(AskedSearch', B, ToldSearch', G)
      BY <2>2, <3>1, <3>2
    <3>5. AskedSearch' \cup B \cup ToldSearch' = Q \cup B \cup A
      BY <3>1, <3>2
    <3> QED
      BY <2>3, <3>1, <3>2, <3>3, <3>4, <3>5
  <2>6. CASE /\ Stays(down, down', Searches) /\ Gained(up, up', a, SearchRequests)
             /\ started[a] /\ started' = [started EXCEPT ![a] = FALSE]
    <3>1. a \in B /\ AskedSearch' = Q /\ Single(down', Searches)
      BY <1>1, <1>3, <2>6
    <3>2. ToldSearch' = A \cup {a} /\ Single(up', SearchRequests)
      BY <1>6, <2>1, <2>2, <2>6, <3>1
    <3>3. \A b \in AAs : b \in B \ {a} <=> started'[b]
      BY <1>0, <1>1, <2>6
    <3>4. Wave(AskedSearch', B \ {a}, ToldSearch', G) /\ B \ {a} \in SUBSET Agents
      BY <2>2, <3>1, <3>2
    <3>5. AskedSearch' \cup (B \ {a}) \cup ToldSearch' = Q \cup B \cup A
      BY <3>1, <3>2
    <3> QED
      BY <2>3, <3>1, <3>2, <3>3, <3>4, <3>5
  <2> QED
    BY <1>8, <2>4, <2>5, <2>6 DEF SearchAtLeaf
<1>9. ASSUME NEW h \in HLAs, SearchSpreads(h)
      PROVE  \E B2 \in SUBSET Agents : SearchWave(B2)' /\ (SearchOut(B2)' <=> SearchOut(B))
  <2>1. h \in Agents /\ h \notin AAs /\ Reported' = G /\ started' = started /\ h \in Q
    BY <1>0, <1>2, <1>9 DEF SearchSpreads, Spread, AskedSearch
  <2>2. /\ Wave((Q \ {h}) \cup Children(h), B \cup {h}, A, G)
        /\ Children(h) \cap Q = {} /\ Children(h) \cap G = {}
    <3> HIDE DEF Q, A, G
    <3> QED
      BY <1>1, <2>1, WaveForwarded
  <2>3. AskedSearch' = (Q \ {h}) \cup Children(h) /\ Single(down', Searches)
    BY <1>1, <1>9, <2>2 DEF SearchSpreads, Spread, AskedSearch
  <2>4. ToldSearch' = A /\ Single(up', SearchRequests)
    BY <1>4, <1>9 DEF SearchSpreads
  <2> HIDE DEF Q, A, G
  <2>5. SearchWave(B \cup {h})'
    BY <1>1, <2>1, <2>2, <2>3, <2>4 DEF SearchWave
  <2>6. SearchOut(B \cup {h})' <=> SearchOut(B)
    <3>1. \A c \in Children(FE) : c \notin Children(h)
      BY <1>0, <2>1 DEF Children
    <3>2. \A c \in Children(FE) : c \in AskedSearch' \cup (B \cup {h}) \cup ToldSearch' <=> c \in Q \cup B \cup A
      BY <2>1, <2>3, <2>4, <3>1
    <3> QED
      BY <3>2 DEF SearchOut, Out, Q, A
  <2> QED
    BY <1>1, <2>1, <2>5, <2>6
<1>10. ASSUME NEW h \in HLAs, NEW c \in Children(h), SearchNoted(h, c)
       PROVE  \E B2 \in SUBSET Agents : SearchWave(B2)' /\ (SearchOut(B2)' <=> SearchOut(B))
  <2>1. /\ h \in Agents /\ c \in Agents /\ h \notin AAs /\ started' = started /\ c \in A
        /\ AskedSearch' = Q /\ Single(down', Searches) /\ Parent[c] = h /\ h # FE
    BY <1>0, <1>3, <1>10 DEF SearchNoted, Taken, Moved, ToldSearch, Children
  <2>2. /\ h \in B /\ c \notin G /\ h \notin A /\ h \notin Q
        /\ ~Last(G, h, c) => Wave(Q, B, A \ {c}, G \cup {c})
        /\ Last(G, h, c) => Wave(Q, B \ {h}, (A \ {c}) \cup {h}, G \ Children(h))
    <3>1. /\ Q \in SUBSET Agents /\ A \in SUBSET Agents /\ c \in A
          /\ Wave(Q, B, A, G)
      BY <1>1, <2>1
    <3> HIDE DEF Q, A, G
    <3>2. AnswerNoted(Q, B, A, G, h, c)
      BY <3>1, WaveNoted
    <3> QED
      BY <3>2 DEF AnswerNoted
  <2>3. \A m \in Children(h) : m \in G <=> info[m].search_status # "UNDEFINED"
    BY <2>1 DEF Reported, Children
  <2>4. \A d \in Children(FE) : d # c
    BY <2>1 DEF Children
  <2>5. CASE /\ \E m \in Children(h) : m # c /\ info[m].search_status = "UNDEFINED"
             /\ Taken(up, up', c, SearchRequests)
             /\ \A n \in Agents : IF n = c THEN info'[n].search_status # "UNDEFINED"
                                  ELSE info'[n].search_status = info[n].search_status
    <3>1. ToldSearch' = A \ {c} /\ Single(up', SearchRequests)
      BY <1>1, <2>5 DEF Taken, ToldSearch
    <3>2. Reported' = G \cup {c}
      BY <2>1, <2>5 DEF Reported
    <3>3. ~Last(G, h, c)
      BY <2>3, <2>5 DEF Last
    <3> HIDE DEF Q, A, G
    <3>4. SearchWave(B)'
      BY <1>1, <2>1, <2>2, <3>1, <3>2, <3>3 DEF SearchWave
    <3>5. SearchOut(B)' <=> SearchOut(B)
      BY <2>1, <2>4, <3>1 DEF SearchOut, Out, Q, A
    <3> QED
      BY <3>4, <3>5
  <2>6. CASE /\ \A m \in Children(h) : m # c => info[m].search_status # "UNDEFINED"
             /\ Moved(up, up', c, h, SearchRequests)
             /\ \A n \in Agents : info'[n].search_status = IF Parent[n] = h THEN "UNDEFINED"
                                                           ELSE info[n].search_status
    <3>1. ToldSearch' = (A \ {c}) \cup {h} /\ Single(up', SearchRequests)
      BY <1>1, <2>2, <2>6 DEF Moved, ToldSearch
    <3>2. Reported' = G \ Children(h)
      BY <2>1, <2>6 DEF Reported, Children
    <3>3. Last(G, h, c)
      BY <2>3, <2>6 DEF Last
    <3> HIDE DEF Q, A, G
    <3>4. SearchWave(B \ {h})'
      BY <1>1, <2>1, <2>2, <3>1, <3>2, <3>3 DEF SearchWave
    <3>5. SearchOut(B \ {h})' <=> SearchOut(B)
      <4>1. \A d \in Children(FE) : d \in AskedSearch' \cup (B \ {h}) \cup ToldSearch' <=> d \in Q \cup B \cup A
        BY <2>1, <2>2, <2>4, <3>1
      <4> QED
        BY <4>1 DEF SearchOut, Out, Q, A
    <3> QED
      BY <1>1, <3>4, <3>5
  <2> QED
    BY <1>10, <2>5, <2>6 DEF SearchNoted
<1> QED
  BY <1>7, <1>8, <1>9, <1>10

\* What an agent's step does to the wave of a check.
PropsOrdered == Ordered(up, {"propertiessent"}, {"foundprop"})

CheckStill ==
    /\ Stays(down, down', {"check"}) /\ Stays(up, up', {"propertiessent"})
    /\ Stays(up, up', {"foundprop"}) /\ (PropsOrdered => PropsOrdered')
    /\ properties' = properties /\ SameCheckNotes

CheckAtLeaf(a) ==
    /\ Taken(down, down', a, {"check"}) /\ Gained(up, up', a, {"propertiessent"})
    /\ In(up', {"foundprop"}) \subseteq In(up, {"foundprop"}) \cup {a}
    /\ PropsOrdered /\ a \notin ToldCheck => PropsOrdered'
    /\ properties' = properties /\ SameCheckNotes

CheckSpreads(h) ==
    /\ Spread(down, down', h, {"check"}) /\ up' = up
    /\ properties' = properties
    /\ \A n \in Agents : info'[n].properties_sent = (Parent[n] # h /\ info[n].properties_sent)

CheckNoted(h, c) ==
    /\ Stays(down, down', {"check"})
    /\ \A n \in Agents : info'[n].properties_sent = (n = c \/ info[n].properties_sent)
    /\ In(up', {"foundprop"}) \subseteq In(up, {"foundprop"}) \cup {h}
    /\ PropsOrdered => c \notin In(up, {"foundprop"})
    /\ PropsOrdered /\ h \notin ToldCheck => PropsOrdered'
    /\ \/ /\ \E m \in Children(h) : m # c /\ ~info[m].properties_sent
          /\ Taken(up, up', c, {"propertiessent"})
          /\ properties' = properties
       \/ /\ \A m \in Children(h) : m # c => info[m].properties_sent
          /\ Moved(up, up', c, h, {"propertiessent"})
          /\ properties' = [properties EXCEPT ![h] = {}]

FoundNoted(h, c) ==
    /\ Stays(down, down', {"check"}) /\ Stays(up, up', {"propertiessent"})
    /\ c \in In(up, {"foundprop"})
    /\ In(up', {"foundprop"}) \subseteq In(up, {"foundprop"}) \cup {h}
    /\ PropsOrdered /\ h \notin ToldCheck => PropsOrdered'
    /\ \A k \in HLAs : k # h => properties'[k] = properties[k]
    /\ SameCheckNotes

LEMMA CheckMoved ==
    ASSUME Types, NEW C \in SUBSET Agents, CheckWave(C),
           \/ CheckStill
           \/ \E a \in AAs : CheckAtLeaf(a)
           \/ \E h \in HLAs : \/ CheckSpreads(h)
                              \/ \E c \in Children(h) : CheckNoted(h, c) \/ FoundNoted(h, c)
    PROVE  \E C2 \in SUBSET Agents : CheckWave(C2)' /\ (CheckOut(C2)' <=> CheckOut(C))
<1>0. /\ AAs \subseteq Agents /\ HLAs \subseteq Agents /\ AAs \cap HLAs = {} /\ FE \notin Agents
      /\ \A n \in Agents : Parent[n] # n /\ \A h : n \in Children(h) <=> Parent[n] = h
      /\ info \in [Agents -> AgentInfo] /\ properties \in [HLAs -> SUBSET Props]
  BY TreeFacts DEF Types, TreeTypes, HLATypes
<1> DEFINE Q == AskedCheck
           A == ToldCheck
           G == Delivered(C)
           F == In(up, {"foundprop"})
<1>1. /\ Q \in SUBSET Agents /\ A \in SUBSET Agents /\ F \in SUBSET Agents
      /\ Wave(Q, C, A, G) /\ Single(down, {"check"}) /\ Single(up, {"propertiessent"})
      /\ PropsOrdered /\ F \subseteq C \cup A
      /\ \A h \in HLAs : properties[h] # {} => h \in C
  BY DEF CheckWave, AskedCheck, ToldCheck, In, PropsOrdered
<1>2. ASSUME Stays(down, down', {"check"}) PROVE AskedCheck' = Q /\ Single(down', {"check"})
  BY <1>1, <1>2 DEF Stays, AskedCheck
<1>3. ASSUME Stays(up, up', {"propertiessent"}) PROVE ToldCheck' = A /\ Single(up', {"propertiessent"})
  BY <1>1, <1>3 DEF Stays, ToldCheck
<1>4. ASSUME NEW C2 \in SUBSET Agents, Wave(AskedCheck', C2, ToldCheck', Delivered(C2)'),
             Single(down', {"check"}), Single(up', {"propertiessent"}), PropsOrdered',
             In(up', {"foundprop"}) \subseteq C2 \cup ToldCheck',
             \A h \in HLAs : properties'[h] # {} => h \in C2,
             \A d \in Children(FE) : d \in AskedCheck' \cup C2 \cup ToldCheck' <=> d \in Q \cup C \cup A
      PROVE  CheckWave(C2)' /\ (CheckOut(C2)' <=> CheckOut(C))
  <2>1. CheckWave(C2)'
    BY <1>4 DEF CheckWave, PropsOrdered
  <2>2. CheckOut(C2)' <=> CheckOut(C)
    BY <1>4 DEF CheckOut, Out, Q, A
  <2> QED
    BY <2>1, <2>2
<1>5. SameCheckNotes => Delivered(C)' = G
  BY <1>0 DEF SameCheckNotes, Delivered
<1>6. CASE CheckStill
  <2>1. /\ AskedCheck' = Q /\ ToldCheck' = A /\ Delivered(C)' = G /\ properties' = properties
        /\ Single(down', {"check"}) /\ Single(up', {"propertiessent"}) /\ PropsOrdered'
        /\ In(up', {"foundprop"}) = F
    BY <1>1, <1>2, <1>3, <1>5, <1>6 DEF CheckStill, Stays
  <2> HIDE DEF Q, A, G, F
  <2> QED
    BY <1>1, <1>4, <2>1
<1>7. ASSUME NEW a \in AAs, CheckAtLeaf(a)
      PROVE  \E C2 \in SUBSET Agents : CheckWave(C2)' /\ (CheckOut(C2)' <=> CheckOut(C))
  <2>1. a \in Agents /\ a \in Q /\ Delivered(C)' = G /\ properties' = properties
    BY <1>0, <1>5, <1>7 DEF CheckAtLeaf, Taken, AskedCheck
  <2>2. a \notin A /\ Wave(Q \ {a}, C, A \cup {a}, G)
    <3> HIDE DEF Q, A, G
    <3>1. /\ a \in Q => /\ a \notin A /\ a \notin C
                        /\ Wave(Q \ {a}, C \cup {a}, A, G)
                        /\ Wave(Q \ {a}, C, A \cup {a}, G)
          /\ a \in C => /\ a \notin A /\ a \notin Q
                        /\ Wave(Q, C \ {a}, A \cup {a}, G)
      BY <1>1, WaveAtLeaf
    <3> QED
      BY <2>1, <3>1
  <2>3. AskedCheck' = Q \ {a} /\ Single(down', {"check"})
    BY <1>1, <1>7 DEF CheckAtLeaf, Taken, AskedCheck
  <2>4. ToldCheck' = A \cup {a} /\ Single(up', {"propertiessent"})
    BY <1>1, <1>7, <2>2 DEF CheckAtLeaf, Gained, ToldCheck
  <2>5. PropsOrdered' /\ In(up', {"foundprop"}) \subseteq F \cup {a}
    BY <1>1, <1>7, <2>2 DEF CheckAtLeaf
  <2> HIDE DEF Q, A, G, F
  <2>6. In(up', {"foundprop"}) \subseteq C \cup ToldCheck'
    BY <1>1, <2>4, <2>5
  <2>7. AskedCheck' \cup C \cup ToldCheck' = Q \cup C \cup A
    BY <2>1, <2>3, <2>4
  <2> QED
    BY <1>1, <1>4, <2>1, <2>2, <2>3, <2>4, <2>5, <2>6, <2>7
<1>8. ASSUME NEW h \in HLAs, CheckSpreads(h)
      PROVE  \E C2 \in SUBSET Agents : CheckWave(C2)' /\ (CheckOut(C2)' <=> CheckOut(C))
  <2>1. h \in Agents /\ h \in Q /\ properties' = properties /\ up' = up
    BY <1>0, <1>8 DEF CheckSpreads, Spread, AskedCheck
  <2>2. /\ Wave((Q \ {h}) \cup Children(h), C \cup {h}, A, G)
        /\ Children(h) \cap Q = {} /\ Children(h) \cap G = {}
    <3> HIDE DEF Q, A, G
    <3> QED
      BY <1>1, <2>1, WaveForwarded
  <2>3. AskedCheck' = (Q \ {h}) \cup Children(h) /\ Single(down', {"check"})
    BY <1>1, <1>8, <2>2 DEF CheckSpreads, Spread, AskedCheck
  <2>4. ToldCheck' = A /\ Single(up', {"propertiessent"}) /\ PropsOrdered' /\ In(up', {"foundprop"}) = F
    BY <1>1, <2>1 DEF ToldCheck, PropsOrdered
  <2>5. h \notin C
    BY <1>1, <2>1 DEF Wave
  <2>6. Delivered(C \cup {h})' = G
    <3>1. \A n \in Agents : info'[n].properties_sent = (Parent[n] # h /\ info[n].properties_sent)
      BY <1>8 DEF CheckSpreads
    <3>2. \A n \in Agents : /\ Parent[n] = h => ~info'[n].properties_sent
                            /\ Parent[n] # h => info'[n].properties_sent = info[n].properties_sent
      BY <1>0, <3>1 DEF AgentInfo
    <3>3. \A n \in Agents : Parent[n] \in C \cup {h} /\ info'[n].properties_sent
                              <=> Parent[n] \in C /\ info[n].properties_sent
      BY <2>5, <3>2
    <3> QED
      BY <3>3 DEF Delivered
  <2> HIDE DEF Q, A, G, F
  <2>7. \A d \in Children(FE) : d \in AskedCheck' \cup (C \cup {h}) \cup ToldCheck' <=> d \in Q \cup C \cup A
    <3>1. \A d \in Children(FE) : d \notin Children(h)
      BY <1>0, <2>1 DEF Children
    <3> QED
      BY <2>1, <2>3, <2>4, <3>1
  <2>8. C \cup {h} \in SUBSET Agents /\ In(up', {"foundprop"}) \subseteq (C \cup {h}) \cup ToldCheck'
    BY <1>1, <2>1, <2>4
  <2>9. \A k \in HLAs : properties'[k] # {} => k \in C \cup {h}
    BY <1>1, <2>1
  <2> QED
    BY <1>4, <2>2, <2>3, <2>4, <2>6, <2>7, <2>8, <2>9
<1>9. ASSUME NEW h \in HLAs, NEW c \in Children(h), CheckNoted(h, c)
      PROVE  \E C2 \in SUBSET Agents : CheckWave(C2)' /\ (CheckOut(C2)' <=> CheckOut(C))
  <2>1. /\ h \in Agents /\ c \in Agents /\ c \in A /\ AskedCheck' = Q /\ Single(down', {"check"})
        /\ Parent[c] = h /\ h # FE /\ c # h
    BY <1>0, <1>2, <1>9 DEF CheckNoted, Taken, Moved, ToldCheck, Children
  <2>2. AnswerNoted(Q, C, A, G, h, c)
    <3> HIDE DEF Q, A, G
    <3> QED
      BY <1>1, <2>1, WaveNoted
  <2>3. h \in C /\ c \notin C /\ h \notin A
    BY <1>1, <2>1, <2>2 DEF AnswerNoted, Wave
  <2>4. \A m \in Children(h) : m \in G <=> info[m].properties_sent
    BY <2>1, <2>3 DEF Delivered, Children
  <2>5. PropsOrdered' /\ In(up', {"foundprop"}) \subseteq (F \cup {h}) /\ c \notin F
    BY <1>1, <1>9, <2>3 DEF CheckNoted
  <2>6. \A n \in Agents : info'[n].properties_sent = (n = c \/ info[n].properties_sent)
    BY <1>9 DEF CheckNoted
  <2>7. \A d \in Children(FE) : d # c
    BY <2>1 DEF Children
  <2>8. CASE /\ \E m \in Children(h) : m # c /\ ~info[m].properties_sent
             /\ Taken(up, up', c, {"propertiessent"})
             /\ properties' = properties
    <3>1. ToldCheck' = A \ {c} /\ Single(up', {"propertiessent"})
      BY <1>1, <2>8 DEF Taken, ToldCheck
    <3>2. Delivered(C)' = G \cup {c}
      BY <2>1, <2>3, <2>6 DEF Delivered
    <3>3. ~Last(G, h, c)
      BY <2>4, <2>8 DEF Last
    <3> HIDE DEF Q, A, G, F
    <3>4. Wave(AskedCheck', C, ToldCheck', Delivered(C)')
      BY <2>1, <2>2, <3>1, <3>2, <3>3 DEF AnswerNoted
    <3>5. In(up', {"foundprop"}) \subseteq C \cup ToldCheck'
      BY <1>1, <2>3, <2>5, <3>1
    <3>6. \A d \in Children(FE) : d \in AskedCheck' \cup C \cup ToldCheck' <=> d \in Q \cup C \cup A
      BY <2>1, <2>7, <3>1
    <3>7. \A k \in HLAs : properties'[k] # {} => k \in C
      BY <1>1, <2>8
    <3> QED
      BY <1>4, <2>1, <2>5, <3>1, <3>4, <3>5, <3>6, <3>7
  <2>9. CASE /\ \A m \in Children(h) : m # c => info[m].properties_sent
             /\ Moved(up, up', c, h, {"propertiessent"})
             /\ properties' = [properties EXCEPT ![h] = {}]
    <3>1. ToldCheck' = (A \ {c}) \cup {h} /\ Single(up', {"propertiessent"})
      BY <1>1, <2>3, <2>9 DEF Moved, ToldCheck
    <3>2. Delivered(C \ {h})' = G \ Children(h)
      BY <1>0, <2>1, <2>6 DEF Delivered
    <3>3. Last(G, h, c)
      BY <2>4, <2>9 DEF Last
    <3> HIDE DEF Q, A, G, F
    <3>4. Wave(AskedCheck', C \ {h}, ToldCheck', Delivered(C \ {h})')
      BY <2>1, <2>2, <3>1, <3>2, <3>3 DEF AnswerNoted
    <3>5. In(up', {"foundprop"}) \subseteq (C \ {h}) \cup ToldCheck' /\ C \ {h} \in SUBSET Agents
      BY <1>1, <2>3, <2>5, <3>1
    <3>6. \A d \in Children(FE) : d \in AskedCheck' \cup (C \ {h}) \cup ToldCheck' <=> d \in Q \cup C \cup A
      BY <2>1, <2>3, <2>7, <3>1
    <3>7. \A k \in HLAs : properties'[k] # {} => k \in C \ {h}
      BY <1>0, <1>1, <2>9
    <3> QED
      BY <1>4, <2>1, <2>5, <3>1, <3>4, <3>5, <3>6, <3>7
  <2> QED
    BY <1>9, <2>8, <2>9 DEF CheckNoted
<1>10. ASSUME NEW h \in HLAs, NEW c \in Children(h), FoundNoted(h, c)
       PROVE  \E C2 \in SUBSET Agents : CheckWave(C2)' /\ (CheckOut(C2)' <=> CheckOut(C))
  <2>1. /\ AskedCheck' = Q /\ Single(down', {"check"}) /\ ToldCheck' = A /\ Single(up', {"propertiessent"})
        /\ Delivered(C)' = G /\ c \in F /\ In(up', {"foundprop"}) \subseteq F \cup {h}
        /\ \A k \in HLAs : k # h => properties'[k] = properties[k]
    BY <1>2, <1>3, <1>5, <1>10 DEF FoundNoted
  <2>2. h \in C /\ h \notin A
    BY <1>1, <2>1 DEF Wave
  <2>3. PropsOrdered'
    BY <1>1, <1>10, <2>2 DEF FoundNoted
  <2> HIDE DEF Q, A, G, F
  <2>4. In(up', {"foundprop"}) \subseteq C \cup ToldCheck'
    BY <1>1, <2>1, <2>2
  <2>5. \A k \in HLAs : properties'[k] # {} => k \in C
    BY <1>1, <2>1, <2>2
  <2> QED
    BY <1>1, <1>4, <2>1, <2>3, <2>4, <2>5
<1> QED
  BY <1>6, <1>7, <1>8, <1>9, <1>10

\* What an agent's step does to the wave of a call-tree.
TreeStill == Stays(down, down', {"serializecalltree"}) /\ Stays(up, up', {"calltreesent"})

TreeAtLeaf(a) == Taken(down, down', a, {"serializecalltree"}) /\ Gained(up, up', a, {"calltreesent"})

TreeSpreads(h) == Spread(down, down', h, {"serializecalltree"}) /\ Stays(up, up', {"calltreesent"})

TreeNoted(h, c) ==
    /\ Stays(down, down', {"serializecalltree"})
    /\ c \in ToldTree
    /\ Before(c) = {} => Moved(up, up', c, h, {"calltreesent"})

\* No agent has two children: each is the first, and the answer of one is the
\* answer of all.
Chain == \A m, n \in Agents : Parent[m] = Parent[n] => m = n

LEMMA TreeMoved ==
    ASSUME Types, NEW T \in SUBSET Agents, TreeWave(T), Chain \/ ~TreeOut(T),
           \/ TreeStill
           \/ \E a \in AAs : TreeAtLeaf(a)
           \/ \E h \in HLAs : TreeSpreads(h) \/ \E c \in Children(h) : TreeNoted(h, c)
    PROVE  \E T2 \in SUBSET Agents : TreeWave(T2)' /\ (TreeOut(T2)' <=> TreeOut(T))
<1>0. /\ AAs \subseteq Agents /\ HLAs \subseteq Agents /\ AAs \cap HLAs = {} /\ FE \notin Agents
      /\ \A n \in Agents : Parent[n] # n /\ \A h : n \in Children(h) <=> Parent[n] = h
  BY TreeFacts
<1> DEFINE Q == AskedTree
           A == ToldTree
<1>1. /\ Q \in SUBSET Agents /\ A \in SUBSET Agents
      /\ Wave(Q, T, A, {}) /\ Single(down, {"serializecalltree"}) /\ Single(up, {"calltreesent"})
  BY DEF TreeWave, AskedTree, ToldTree, In
<1>2. ASSUME Stays(down, down', {"serializecalltree"})
      PROVE  AskedTree' = Q /\ Single(down', {"serializecalltree"})
  BY <1>1, <1>2 DEF Stays, AskedTree
<1>3. ASSUME Stays(up, up', {"calltreesent"}) PROVE ToldTree' = A /\ Single(up', {"calltreesent"})
  BY <1>1, <1>3 DEF Stays, ToldTree
<1>4. ASSUME NEW T2 \in SUBSET Agents, Wave(AskedTree', T2, ToldTree', {}),
             Single(down', {"serializecalltree"}), Single(up', {"calltreesent"}),
             \A d \in Children(FE) : d \in AskedTree' \cup T2 \cup ToldTree' <=> d \in Q \cup T \cup A
      PROVE  TreeWave(T2)' /\ (TreeOut(T2)' <=> TreeOut(T))
  <2>1. TreeWave(T2)'
    BY <1>4 DEF TreeWave
  <2>2. TreeOut(T2)' <=> TreeOut(T)
    BY <1>4 DEF TreeOut, Out, Q, A
  <2> QED
    BY <2>1, <2>2
<1>5. CASE TreeStill
  <2>1. /\ AskedTree' = Q /\ ToldTree' = A
        /\ Single(down', {"serializecalltree"}) /\ Single(up', {"calltreesent"})
    BY <1>2, <1>3, <1>5 DEF TreeStill
  <2> HIDE DEF Q, A
  <2> QED
    BY <1>1, <1>4, <2>1
<1>6. ASSUME NEW n \in Agents, n \in Q \cup A PROVE Chain
  <2> SUFFICES ASSUME ~TreeOut(T) PROVE FALSE
    OBVIOUS
  <2>1. \A c \in Children(FE) : c \notin Q \cup T \cup A
    BY DEF TreeOut, Out
  <2> HIDE DEF Q, A
  <2>2. Q = {} /\ A = {}
    BY <1>1, <2>1, WaveOver
  <2> QED
    BY <1>6, <2>2
<1>7. ASSUME NEW a \in AAs, TreeAtLeaf(a)
      PROVE  \E T2 \in SUBSET Agents : TreeWave(T2)' /\ (TreeOut(T2)' <=> TreeOut(T))
  <2>1. a \in Agents /\ a \in Q
    BY <1>0, <1>7 DEF TreeAtLeaf, Taken, AskedTree
  <2>2. a \notin A /\ Wave(Q \ {a}, T, A \cup {a}, {})
    <3> HIDE DEF Q, A
    <3>1. /\ a \in Q => /\ a \notin A /\ a \notin T
                        /\ Wave(Q \ {a}, T \cup {a}, A, {})
                        /\ Wave(Q \ {a}, T, A \cup {a}, {})
          /\ a \in T => /\ a \notin A /\ a \notin Q
                        /\ Wave(Q, T \ {a}, A \cup {a}, {})
      BY <1>1, WaveAtLeaf
    <3> QED
      BY <2>1, <3>1
  <2>3. AskedTree' = Q \ {a} /\ Single(down', {"serializecalltree"})
    BY <1>1, <1>7 DEF TreeAtLeaf, Taken, AskedTree
  <2>4. ToldTree' = A \cup {a} /\ Single(up', {"calltreesent"})
    BY <1>1, <1>7, <2>2 DEF TreeAtLeaf, Gained, ToldTree
  <2> HIDE DEF Q, A
  <2>5. AskedTree' \cup T \cup ToldTree' = Q \cup T \cup A
    BY <2>1, <2>3, <2>4
  <2> QED
    BY <1>1, <1>4, <2>2, <2>3, <2>4, <2>5
<1>8. ASSUME NEW h \in HLAs, TreeSpreads(h)
      PROVE  \E T2 \in SUBSET Agents : TreeWave(T2)' /\ (TreeOut(T2)' <=> TreeOut(T))
  <2>1. h \in Agents /\ h \in Q
    BY <1>0, <1>8 DEF TreeSpreads, Spread, AskedTree
  <2>2. Wave((Q \ {h}) \cup Children(h), T \cup {h}, A, {}) /\ Children(h) \cap Q = {}
    <3> DEFINE G == {}
    <3>1. Wave(Q, T, A, G)
      BY <1>1
    <3> HIDE DEF Q, A, G
    <3>2. /\ Wave((Q \ {h}) \cup Children(h), T \cup {h}, A, G)
          /\ Children(h) \cap Q = {} /\ Children(h) \cap G = {}
      BY <1>1, <2>1, <3>1, WaveForwarded
    <3> QED
      BY <3>2 DEF G
  <2>3. AskedTree' = (Q \ {h}) \cup Children(h) /\ Single(down', {"serializecalltree"})
    BY <1>1, <1>8, <2>2 DEF TreeSpreads, Spread, AskedTree
  <2>4. ToldTree' = A /\ Single(up', {"calltreesent"})
    BY <1>3, <1>8 DEF TreeSpreads
  <2> HIDE DEF Q, A
  <2>5. \A d \in Children(FE) : d \in AskedTree' \cup (T \cup {h}) \cup ToldTree' <=> d \in Q \cup T \cup A
    <3>1. \A d \in Children(FE) : d \notin Children(h)
      BY <1>0, <2>1 DEF Children
    <3> QED
      BY <2>1, <2>3, <2>4, <3>1
  <2>6. T \cup {h} \in SUBSET Agents
    BY <1>1, <2>1
  <2> QED
    BY <1>4, <2>2, <2>3, <2>4, <2>5, <2>6
<1>9. ASSUME NEW h \in HLAs, NEW c \in Children(h), TreeNoted(h, c)
      PROVE  \E T2 \in SUBSET Agents : TreeWave(T2)' /\ (TreeOut(T2)' <=> TreeOut(T))
  <2>1. /\ h \in Agents /\ c \in Agents /\ c \in A /\ AskedTree' = Q /\ Single(down', {"serializecalltree"})
        /\ Parent[c] = h /\ h # FE
    BY <1>0, <1>2, <1>9 DEF TreeNoted, Children
  <2>2. Children(h) = {c} /\ Before(c) = {}
    <3>1. Chain
      BY <1>6, <2>1
    <3>2. \A m \in Children(h) : m = c
      BY <2>1, <3>1 DEF Chain, Children
    <3>3. Before(c) = {}
      <4>1. ~(c < c)
        <5>1. c \in Nat
          BY <2>1, TreeAssumption
        <5> QED
          BY <5>1
      <4>2. Children(Parent[c]) = Children(h)
        BY <2>1
      <4> QED
        BY <3>2, <4>1, <4>2 DEF Before
    <3> QED
      BY <3>2, <3>3
  <2>3. AnswerNoted(Q, T, A, {}, h, c)
    <3>1. c \in A /\ c \in Children(h)
      BY <2>1
    <3> HIDE DEF Q, A
    <3> QED
      BY <1>1, <3>1, WaveNoted
  <2>4. Last({}, h, c)
    BY <2>2 DEF Last
  <2>5. h \in T /\ h \notin A /\ h \notin Q /\ Wave(Q, T \ {h}, (A \ {c}) \cup {h}, {})
    <3>1. {} \ Children(h) = {}
      OBVIOUS
    <3> QED
      BY <2>3, <2>4, <3>1 DEF AnswerNoted
  <2>6. ToldTree' = (A \ {c}) \cup {h} /\ Single(up', {"calltreesent"})
    BY <1>1, <1>9, <2>2, <2>5 DEF TreeNoted, Moved, ToldTree
  <2> HIDE DEF Q, A
  <2>7. \A d \in Children(FE) : d \in AskedTree' \cup (T \ {h}) \cup ToldTree' <=> d \in Q \cup T \cup A
    <3>1. \A d \in Children(FE) : d # c
      BY <2>1 DEF Children
    <3> QED
      BY <2>1, <2>5, <2>6, <3>1
  <2>8. T \ {h} \in SUBSET Agents
    OBVIOUS
  <2> QED
    BY <1>4, <2>1, <2>5, <2>6, <2>7, <2>8
<1> QED
  BY <1>5, <1>7, <1>8, <1>9

LEMMA AnswerFacts ==
    /\ SearchRequests \subseteq Answers \ {"propertiessent", "foundprop", "calltreesent"}
    /\ {"propertiessent", "foundprop", "calltreesent"} \subseteq Answers \ SearchRequests
  BY DEF Answers, SearchRequests

LEMMA NothingWritten ==
    ASSUME NEW ms, ~Has(ms, {"foundprop"}), NEW n \in Agents, Extended(up, up', n, ms)
    PROVE  PropsOrdered => PropsOrdered'
<1>1. Behind(ms, {"propertiessent"}, {"foundprop"})
  BY HasFacts
<1> QED
  BY <1>1 DEF Extended, PropsOrdered

LEMMA AAMoves ==
    ASSUME Types, NEW a \in AAs, AAStep(a), properties' = properties
    PROVE  /\ SearchStill \/ SearchAtLeaf(a)
           /\ CheckStill \/ CheckAtLeaf(a)
           /\ TreeStill \/ TreeAtLeaf(a)
<1>1. PICK ms \in Seq(UpMsgs) :
         /\ Extended(up, up', a, ms)
         /\ info' = info /\ run' = run
         /\ \/ AAPlain(a, ms) \/ AAStarts(a, ms) \/ AAEvaluates(a, ms)
            \/ AAChecks(a, ms) \/ AASerializes(a, ms)
  BY AAKinds
<1>2. a \in Agents /\ SameSearchNotes /\ SameCheckNotes
  BY <1>1, TreeFacts DEF SameSearchNotes, SameCheckNotes
<1>3. /\ \A U : ~Has(ms, U) => Stays(up, up', U)
      /\ \A U : Has(ms, U) /\ One(ms, U) => Gained(up, up', a, U)
      /\ ~Has(ms, {"foundprop"}) => (PropsOrdered => PropsOrdered')
  BY <1>1, <1>2, UpWritten, NothingWritten
<1>4. ASSUME NEW T, ReadsDown(a, T)
      PROVE  /\ Taken(down, down', a, T)
             /\ \A U : T \cap U = {} => Stays(down, down', U)
  BY <1>2, <1>4, DownTaken
<1>5. ASSUME NEW T, ~Has(ms, T) PROVE \A U : U \subseteq T => ~Has(ms, U)
  BY <1>5, HasFacts
<1>6. SearchRequests \subseteq Answers \ {"propertiessent", "foundprop", "calltreesent"}
      /\ {"propertiessent", "foundprop", "calltreesent"} \subseteq Answers \ SearchRequests
  BY AnswerFacts
<1>7. /\ ~Has(ms, {"propertiessent"}) /\ ~Has(ms, {"foundprop"}) /\ Stays(down, down', {"check"}) => CheckStill
      /\ ~Has(ms, {"calltreesent"}) /\ Stays(down, down', {"serializecalltree"}) => TreeStill
      /\ ~Has(ms, SearchRequests) /\ Stays(down, down', Searches) /\ started' = started => SearchStill
  BY <1>2, <1>3 DEF CheckStill, TreeStill, SearchStill
<1>8. CASE AAPlain(a, ms)
  <2>1. ~Has(ms, {"propertiessent"}) /\ ~Has(ms, {"foundprop"}) /\ ~Has(ms, {"calltreesent"}) /\ ~Has(ms, SearchRequests)
    BY <1>5, <1>6, <1>8 DEF AAPlain, Silent
  <2>2. \A U : U \subseteq Searches \cup {"check", "serializecalltree"} => Stays(down, down', U)
    <3>1. CASE down' = down
      BY <3>1, DownStays
    <3>2. CASE ReadsDown(a, {"terminate", "quit"})
      <4>1. \A U : U \subseteq Searches \cup {"check", "serializecalltree"} => {"terminate", "quit"} \cap U = {}
        BY DEF Searches
      <4> QED
        BY <1>4, <3>2, <4>1
    <3>3. CASE ReadsDown(a, {"reinit"})
      <4>1. \A U : U \subseteq Searches \cup {"check", "serializecalltree"} => {"reinit"} \cap U = {}
        BY DEF Searches
      <4> QED
        BY <1>4, <3>3, <4>1
    <3> QED
      BY <1>8, <3>1, <3>2, <3>3 DEF AAPlain
  <2>3. started' = started
    BY <1>8 DEF AAPlain
  <2> QED
    BY <1>7, <2>1, <2>2, <2>3
<1>9. CASE AAStarts(a, ms)
  <2>1. /\ Taken(down, down', a, Searches) /\ Stays(down, down', {"check"})
        /\ Stays(down, down', {"serializecalltree"})
    <3>1. Searches \cap {"check"} = {} /\ Searches \cap {"serializecalltree"} = {}
      BY DEF Searches
    <3> QED
      BY <1>4, <1>9, <3>1 DEF AAStarts
  <2>2. ~Has(ms, {"propertiessent"}) /\ ~Has(ms, {"foundprop"}) /\ ~Has(ms, {"calltreesent"})
    <3>1. ms = <<>> \/ SearchReply(ms)
      BY <1>9 DEF AAStarts
    <3> QED
      BY <1>5, <1>6, <3>1, EmptyFacts DEF SearchReply
  <2>3. SearchAtLeaf(a)
    <3>1. CASE ms = <<>> /\ started' = [started EXCEPT ![a] = TRUE]
      <4>1. Stays(up, up', SearchRequests)
        BY <1>3, <3>1, EmptyFacts
      <4> QED
        BY <1>2, <2>1, <3>1, <4>1 DEF SearchAtLeaf
    <3>2. CASE SearchReply(ms) /\ started' = started
      <4>1. Gained(up, up', a, SearchRequests)
        BY <1>3, <3>2 DEF SearchReply
      <4> QED
        BY <1>2, <2>1, <3>2, <4>1 DEF SearchAtLeaf
    <3> QED
      BY <1>9, <3>1, <3>2 DEF AAStarts
  <2> QED
    BY <1>7, <2>1, <2>2, <2>3
<1>10. CASE AAEvaluates(a, ms)
  <2>1. down' = down /\ started[a] /\ started' = [started EXCEPT ![a] = FALSE] /\ SearchReply(ms)
    BY <1>10 DEF AAEvaluates
  <2>2. \A U : Stays(down, down', U)
    BY <2>1, DownStays
  <2>3. ~Has(ms, {"propertiessent"}) /\ ~Has(ms, {"foundprop"}) /\ ~Has(ms, {"calltreesent"})
    BY <1>5, <1>6, <2>1 DEF SearchReply
  <2>4. Gained(up, up', a, SearchRequests)
    BY <1>3, <2>1 DEF SearchReply
  <2>5. SearchAtLeaf(a)
    BY <1>2, <2>1, <2>2, <2>4 DEF SearchAtLeaf
  <2> QED
    BY <1>7, <2>2, <2>3, <2>5
<1>11. CASE AAChecks(a, ms)
  <2>1. /\ Taken(down, down', a, {"check"}) /\ Stays(down, down', Searches)
        /\ Stays(down, down', {"serializecalltree"})
    <3>1. {"check"} \cap Searches = {} /\ {"check"} \cap {"serializecalltree"} = {}
      BY DEF Searches
    <3> QED
      BY <1>4, <1>11, <3>1 DEF AAChecks
  <2>2. CheckReply(ms) /\ started' = started
    BY <1>11 DEF AAChecks
  <2>3. ~Has(ms, SearchRequests) /\ ~Has(ms, {"calltreesent"})
    <3>1. SearchRequests \subseteq Answers \ {"propertiessent", "foundprop"}
          /\ {"calltreesent"} \subseteq Answers \ {"propertiessent", "foundprop"}
      BY <1>6
    <3> QED
      BY <1>5, <2>2, <3>1 DEF CheckReply
  <2>4. Gained(up, up', a, {"propertiessent"})
    BY <1>3, <2>2 DEF CheckReply
  <2>5. In(up', {"foundprop"}) \subseteq In(up, {"foundprop"}) \cup {a}
    BY <1>1 DEF Extended
  <2>6. PropsOrdered /\ a \notin ToldCheck => PropsOrdered'
    BY <1>1, <2>2 DEF Extended, CheckReply, PropsOrdered, ToldCheck
  <2>7. CheckAtLeaf(a)
    BY <1>2, <2>1, <2>4, <2>5, <2>6 DEF CheckAtLeaf
  <2> QED
    BY <1>7, <2>1, <2>2, <2>3, <2>7
<1>12. CASE AASerializes(a, ms)
  <2>1. /\ Taken(down, down', a, {"serializecalltree"}) /\ Stays(down, down', Searches)
        /\ Stays(down, down', {"check"})
    <3>1. {"serializecalltree"} \cap Searches = {} /\ {"serializecalltree"} \cap {"check"} = {}
      BY DEF Searches
    <3> QED
      BY <1>4, <1>12, <3>1 DEF AASerializes
  <2>2. TreeReply(ms) /\ started' = started
    BY <1>12 DEF AASerializes
  <2>3. ~Has(ms, SearchRequests) /\ ~Has(ms, {"propertiessent"}) /\ ~Has(ms, {"foundprop"})
    <3>1. SearchRequests \subseteq Answers \ {"calltreesent"}
          /\ {"propertiessent"} \subseteq Answers \ {"calltreesent"}
          /\ {"foundprop"} \subseteq Answers \ {"calltreesent"}
      BY <1>6
    <3> QED
      BY <1>5, <2>2, <3>1 DEF TreeReply
  <2>4. TreeAtLeaf(a)
    BY <1>3, <2>1, <2>2 DEF TreeReply, TreeAtLeaf
  <2> QED
    BY <1>7, <2>1, <2>2, <2>3, <2>4
<1> QED
  BY <1>1, <1>8, <1>9, <1>10, <1>11, <1>12

LEMMA HLAMoves ==
    ASSUME Types, NEW h \in HLAs, HLAStep(h), started' = started
    PROVE  /\ SearchStill \/ SearchSpreads(h) \/ \E c \in Children(h) : SearchNoted(h, c)
           /\ CheckStill \/ CheckSpreads(h) \/ \E c \in Children(h) : CheckNoted(h, c) \/ FoundNoted(h, c)
           /\ TreeStill \/ TreeSpreads(h) \/ \E c \in Children(h) : TreeNoted(h, c)
<1>0. h \in Agents /\ \A c \in Children(h) : c \in Agents /\ c # h
  BY TreeFacts
<1>1. /\ down' = down => \A U : Stays(down, down', U)
      /\ up' = up => (\A U : Stays(up, up', U)) /\ (PropsOrdered => PropsOrdered')
  BY DownStays, UpStays DEF PropsOrdered
<1>2. ASSUME NEW T, PassesDown(h, T)
      PROVE  /\ Spread(down, down', h, T)
             /\ \A U : T \cap U = {} => Stays(down, down', U)
             /\ up' = up /\ properties' = properties
  BY <1>0, <1>2, DownSpread
<1>3. ASSUME NEW T, NEW ms, ~Has(ms, T) PROVE \A U : U \subseteq T => ~Has(ms, U)
  BY <1>3, HasFacts
<1>4. /\ Searches \cap Controls = {} /\ Controls \cap {"check"} = {} /\ Controls \cap {"serializecalltree"} = {}
      /\ Controls \cap Searches = {} /\ Searches \cap {"check"} = {} /\ Searches \cap {"serializecalltree"} = {}
      /\ {"check"} \cap Searches = {} /\ {"check"} \cap {"serializecalltree"} = {}
      /\ {"serializecalltree"} \cap Searches = {} /\ {"serializecalltree"} \cap {"check"} = {}
  BY DEF Searches, Controls
<1>5. /\ SearchRequests \subseteq Answers \ {"propertiessent", "foundprop", "calltreesent"}
      /\ {"propertiessent", "foundprop", "calltreesent"} \subseteq Answers \ SearchRequests
  BY AnswerFacts
<1>6. CASE HLAPlain(h)
  <2>1. /\ \A U : Stays(down, down', U)
        /\ properties' = properties /\ SameSearchNotes /\ SameCheckNotes
    BY <1>1, <1>6 DEF HLAPlain
  <2>2. (\A U : U \subseteq Answers => Stays(up, up', U)) /\ (PropsOrdered => PropsOrdered')
    <3>1. CASE up' = up
      BY <1>1, <3>1
    <3>2. ASSUME NEW ms \in Seq(UpMsgs), Silent(ms), Extended(up, up', h, ms)
          PROVE  (\A U : U \subseteq Answers => Stays(up, up', U)) /\ (PropsOrdered => PropsOrdered')
      <4>1. \A U : U \subseteq Answers => ~Has(ms, U)
        BY <1>3, <3>2 DEF Silent
      <4>2. PropsOrdered => PropsOrdered'
        BY <1>0, <1>5, <3>2, <4>1, NothingWritten
      <4> QED
        BY <1>0, <3>2, <4>1, <4>2, UpWritten
    <3>3. ASSUME NEW c \in Children(h), NEW ms \in Seq(UpMsgs),
                 Head(up[c]).type \notin Answers, Silent(ms), PassedUp(up, up', c, h, ms)
          PROVE  (\A U : U \subseteq Answers => Stays(up, up', U)) /\ (PropsOrdered => PropsOrdered')
      <4>1. \A U : U \subseteq Answers => ~Has(ms, U) /\ Head(up[c]).type \notin U
        BY <1>3, <3>3 DEF Silent
      <4>2. \A U : ~Has(ms, U) /\ Head(up[c]).type \notin U => Stays(up, up', U)
        BY <1>0, <3>3, UpNoted
      <4>3. PropsOrdered => PropsOrdered'
        <5>1. ~Has(ms, {"foundprop"})
          BY <1>5, <4>1
        <5>2. Behind(ms, {"propertiessent"}, {"foundprop"})
          BY <5>1, HasFacts
        <5> QED
          BY <3>3, <5>1, <5>2 DEF PassedUp, PropsOrdered
      <4> QED
        BY <4>1, <4>2, <4>3
    <3> QED
      BY <1>6, <3>1, <3>2, <3>3 DEF HLAPlain
  <2>3. Stays(up, up', SearchRequests) /\ Stays(up, up', {"propertiessent"}) /\ Stays(up, up', {"foundprop"})
        /\ Stays(up, up', {"calltreesent"})
    BY <1>5, <2>2
  <2> QED
    BY <2>1, <2>2, <2>3 DEF SearchStill, CheckStill, TreeStill
<1>7. CASE HLAPasses(h, Searches)
  <2>1. PassesDown(h, Searches) /\ SameSearchNotes /\ SameCheckNotes
    BY <1>7 DEF HLAPasses
  <2> QED
    BY <1>1, <1>2, <1>4, <2>1 DEF SearchSpreads, CheckStill, TreeStill
<1>8. CASE HLAPasses(h, Controls)
  <2>1. PassesDown(h, Controls) /\ SameSearchNotes /\ SameCheckNotes
    BY <1>8 DEF HLAPasses
  <2> QED
    BY <1>1, <1>2, <1>4, <2>1 DEF SearchStill, CheckStill, TreeStill
<1>9. CASE HLAPasses(h, {"serializecalltree"})
  <2>1. PassesDown(h, {"serializecalltree"}) /\ SameSearchNotes /\ SameCheckNotes
    BY <1>9 DEF HLAPasses
  <2> QED
    BY <1>1, <1>2, <1>4, <2>1 DEF SearchStill, CheckStill, TreeSpreads
<1>10. CASE HLAPassesCheck(h)
  <2>1. /\ PassesDown(h, {"check"}) /\ SameSearchNotes
        /\ \A n \in Agents : info'[n].properties_sent = (Parent[n] # h /\ info[n].properties_sent)
    BY <1>10 DEF HLAPassesCheck
  <2> QED
    BY <1>1, <1>2, <1>4, <2>1 DEF SearchStill, CheckSpreads, TreeStill
<1>11. ASSUME NEW c \in Children(h), NEW ms \in Seq(UpMsgs),
              up[c] # <<>>, PassedUp(up, up', c, h, ms),
              \/ HLANotesSearch(h, c, ms) \/ HLANotesCheck(h, c, ms)
              \/ HLANotesFound(h, c, ms) \/ HLANotesTree(h, c, ms)
       PROVE  /\ SearchStill \/ SearchSpreads(h) \/ \E d \in Children(h) : SearchNoted(h, d)
              /\ CheckStill \/ CheckSpreads(h) \/ \E d \in Children(h) : CheckNoted(h, d) \/ FoundNoted(h, d)
              /\ TreeStill \/ TreeSpreads(h) \/ \E d \in Children(h) : TreeNoted(h, d)
  <2>1. /\ \A U : ~Has(ms, U) /\ Head(up[c]).type \notin U => Stays(up, up', U)
        /\ \A U : ~Has(ms, U) /\ Head(up[c]).type \in U => Taken(up, up', c, U)
        /\ \A U : Has(ms, U) /\ One(ms, U) /\ Head(up[c]).type \in U => Moved(up, up', c, h, U)
    BY <1>0, <1>11, UpNoted
  <2>2. ~Has(ms, {"foundprop"}) \/ ~Has(ms, {"propertiessent"}) => (PropsOrdered /\ h \notin ToldCheck => PropsOrdered')
    <3>1. ASSUME ~Has(ms, {"foundprop"}) \/ ~Has(ms, {"propertiessent"})
          PROVE  Behind(ms, {"propertiessent"}, {"foundprop"})
      BY <3>1, HasFacts
    <3> QED
      BY <1>11, <3>1 DEF PassedUp, PropsOrdered, ToldCheck
  <2>3. ~Has(ms, {"foundprop"}) => (PropsOrdered => PropsOrdered')
    <3>1. ASSUME ~Has(ms, {"foundprop"})
          PROVE  Behind(ms, {"propertiessent"}, {"foundprop"})
      BY <3>1, HasFacts
    <3> QED
      BY <1>11, <3>1 DEF PassedUp, PropsOrdered
  <2>4. \A U : Stays(down, down', U)
    BY <1>1, <1>11 DEF HLANotesSearch, HLANotesCheck, HLANotesFound, HLANotesTree
  <2>5. ms = <<>> => \A U : ~Has(ms, U)
    BY EmptyFacts
  <2>6. CASE HLANotesSearch(h, c, ms)
    <3>1. Head(up[c]).type \in SearchRequests /\ properties' = properties /\ SameCheckNotes
      BY <2>6 DEF HLANotesSearch
    <3>2. ~Has(ms, {"propertiessent"}) /\ ~Has(ms, {"foundprop"}) /\ ~Has(ms, {"calltreesent"})
      <4>1. ms = <<>> \/ SearchReply(ms)
        BY <2>6 DEF HLANotesSearch
      <4> QED
        BY <1>3, <1>5, <2>5, <4>1 DEF SearchReply
    <3>3. Head(up[c]).type \notin {"propertiessent"} /\ Head(up[c]).type \notin {"foundprop"}
          /\ Head(up[c]).type \notin {"calltreesent"}
      BY <1>5, <3>1
    <3>4. SearchNoted(h, c)
      <4>1. ms = <<>> => Taken(up, up', c, SearchRequests)
        BY <2>1, <2>5, <3>1
      <4>2. SearchReply(ms) => Moved(up, up', c, h, SearchRequests)
        BY <2>1, <3>1 DEF SearchReply
      <4> QED
        BY <2>4, <2>6, <4>1, <4>2 DEF HLANotesSearch, SearchNoted
    <3>5. CheckStill
      BY <2>1, <2>3, <2>4, <3>1, <3>2, <3>3 DEF CheckStill
    <3>6. TreeStill
      BY <2>1, <2>4, <3>2, <3>3 DEF TreeStill
    <3> QED
      BY <3>4, <3>5, <3>6
  <2>7. CASE HLANotesCheck(h, c, ms)
    <3>1. Head(up[c]).type = "propertiessent" /\ SameSearchNotes
      BY <2>7 DEF HLANotesCheck
    <3>2. ~Has(ms, SearchRequests) /\ ~Has(ms, {"calltreesent"})
      <4>1. ms = <<>> \/ CheckReply(ms)
        BY <2>7 DEF HLANotesCheck
      <4>2. SearchRequests \subseteq Answers \ {"propertiessent", "foundprop"}
            /\ {"calltreesent"} \subseteq Answers \ {"propertiessent", "foundprop"}
        BY <1>5
      <4> QED
        BY <1>3, <2>5, <4>1, <4>2 DEF CheckReply
    <3>3. Head(up[c]).type \notin SearchRequests /\ Head(up[c]).type \notin {"calltreesent"}
      BY <3>1 DEF SearchRequests
    <3>4. CheckNoted(h, c)
      <4>1. ms = <<>> => Taken(up, up', c, {"propertiessent"})
        BY <2>1, <2>5, <3>1
      <4>2. CheckReply(ms) => Moved(up, up', c, h, {"propertiessent"})
        BY <2>1, <3>1 DEF CheckReply
      <4>3. In(up', {"foundprop"}) \subseteq In(up, {"foundprop"}) \cup {h}
        BY <1>11 DEF PassedUp
      <4>4. PropsOrdered => c \notin In(up, {"foundprop"})
        BY <1>11, <3>1 DEF PassedUp, PropsOrdered
      <4>5. PropsOrdered /\ h \notin ToldCheck => PropsOrdered'
        <5>1. ms = <<>> \/ CheckReply(ms)
          BY <2>7 DEF HLANotesCheck
        <5>2. CheckReply(ms) => (PropsOrdered /\ h \notin ToldCheck => PropsOrdered')
          BY <1>11 DEF CheckReply, PassedUp, PropsOrdered, ToldCheck
        <5> QED
          BY <2>2, <2>5, <5>1, <5>2
      <4> QED
        BY <2>4, <2>7, <4>1, <4>2, <4>3, <4>4, <4>5 DEF HLANotesCheck, CheckNoted
    <3>5. SearchStill
      BY <2>1, <2>4, <3>1, <3>2, <3>3 DEF SearchStill
    <3>6. TreeStill
      BY <2>1, <2>4, <3>2, <3>3 DEF TreeStill
    <3> QED
      BY <3>4, <3>5, <3>6
  <2>8. CASE HLANotesFound(h, c, ms)
    <3>1. /\ Head(up[c]).type = "foundprop" /\ SameSearchNotes /\ SameCheckNotes /\ FoundOnly(ms)
          /\ \A k \in HLAs : k # h => properties'[k] = properties[k]
      BY <2>8 DEF HLANotesFound
    <3>2. ~Has(ms, SearchRequests) /\ ~Has(ms, {"calltreesent"}) /\ ~Has(ms, {"propertiessent"})
      <4>1. SearchRequests \subseteq Answers \ {"foundprop"} /\ {"calltreesent"} \subseteq Answers \ {"foundprop"}
            /\ {"propertiessent"} \subseteq Answers \ {"foundprop"}
        BY <1>5
      <4> QED
        BY <1>3, <3>1, <4>1 DEF FoundOnly
    <3>3. Head(up[c]).type \notin SearchRequests /\ Head(up[c]).type \notin {"calltreesent"}
          /\ Head(up[c]).type \notin {"propertiessent"}
      BY <3>1 DEF SearchRequests
    <3>4. FoundNoted(h, c)
      <4>1. In(up', {"foundprop"}) \subseteq In(up, {"foundprop"}) \cup {h} /\ c \in In(up, {"foundprop"})
        BY <1>11, <3>1 DEF PassedUp
      <4> QED
        BY <2>1, <2>2, <2>4, <3>1, <3>2, <3>3, <4>1 DEF FoundNoted
    <3>5. SearchStill
      BY <2>1, <2>4, <3>1, <3>2, <3>3 DEF SearchStill
    <3>6. TreeStill
      BY <2>1, <2>4, <3>2, <3>3 DEF TreeStill
    <3> QED
      BY <3>4, <3>5, <3>6
  <2>9. CASE HLANotesTree(h, c, ms)
    <3>1. /\ Head(up[c]).type = "calltreesent" /\ SameSearchNotes /\ SameCheckNotes
          /\ properties' = properties
      BY <2>9 DEF HLANotesTree
    <3>2. ~Has(ms, SearchRequests) /\ ~Has(ms, {"foundprop"}) /\ ~Has(ms, {"propertiessent"})
      <4>1. SearchRequests \subseteq Answers \ {"calltreesent"} /\ {"foundprop"} \subseteq Answers \ {"calltreesent"}
            /\ {"propertiessent"} \subseteq Answers \ {"calltreesent"}
        BY <1>5
      <4>2. ms = <<>> \/ TreeReply(ms)
        BY <2>9 DEF HLANotesTree
      <4> QED
        BY <1>3, <2>5, <4>1, <4>2 DEF TreeReply
    <3>3. Head(up[c]).type \notin SearchRequests /\ Head(up[c]).type \notin {"foundprop"}
          /\ Head(up[c]).type \notin {"propertiessent"}
      BY <3>1 DEF SearchRequests
    <3>4. TreeNoted(h, c)
      <4>1. c \in ToldTree
        BY <1>11, <3>1 DEF PassedUp, ToldTree
      <4>2. Before(c) = {} => Moved(up, up', c, h, {"calltreesent"})
        BY <2>1, <2>9, <3>1 DEF HLANotesTree, TreeReply
      <4> QED
        BY <2>4, <4>1, <4>2 DEF TreeNoted
    <3>5. SearchStill
      BY <2>1, <2>4, <3>1, <3>2, <3>3 DEF SearchStill
    <3>6. CheckStill
      BY <2>1, <2>3, <2>4, <3>1, <3>2, <3>3 DEF CheckStill
    <3> QED
      BY <3>4, <3>5, <3>6
  <2> QED
    BY <1>11, <2>6, <2>7, <2>8, <2>9
<1> QED
  BY <1>6, <1>7, <1>8, <1>9, <1>10, <1>11, HLAKinds

-----------------------------------------------------------------------------
(* Requests that have not arrived everywhere.                              *)

\* L are the agents that are still to read a request the agents of S have in
\* their streams: they have it, or an agent above them has.
Told(S, L) == \A n \in Agents : n \in L <=> n \in S \/ Parent[n] \in L

LEMMA ToldAll ==
    ASSUME NEW S, Children(FE) \subseteq S
    PROVE  Told(S, Agents)
<1>1. \A n \in Agents : Parent[n] \in Agents \/ n \in Children(FE)
  BY TreeFacts
<1> QED
  BY <1>1 DEF Told

LEMMA ToldNone ==
    ASSUME NEW L \in SUBSET Agents, Told({}, L)
    PROVE  L = {}
<1> SUFFICES ASSUME L # {} PROVE FALSE
  OBVIOUS
<1>1. PICK n \in L : Parent[n] \notin L
  BY TopmostExists
<1> QED
  BY <1>1 DEF Told

\* n at most is no longer among them.
Fewer(L, L2, n) == L2 \subseteq L /\ L \ {n} \subseteq L2

\* n has read the request, and passed it to its children.
LEMMA ToldOn ==
    ASSUME NEW S \in SUBSET Agents, NEW S2 \in SUBSET Agents, NEW L \in SUBSET Agents, Told(S, L),
           NEW n \in Agents, n \in S,
           S2 \subseteq S \cup Children(n), (S \ {n}) \cup Children(n) \subseteq S2
    PROVE  \E L2 \in SUBSET Agents : Told(S2, L2) /\ Fewer(L, L2, n)
<1>1. n \in L /\ Parent[n] # n /\ \A k \in Agents : k \in Children(n) <=> Parent[k] = n
  BY TreeFacts DEF Told
<1>2. CASE n \in S2 \/ Parent[n] \in L
  <2>1. Told(S2, L)
    BY <1>1, <1>2 DEF Told
  <2> QED
    BY <2>1 DEF Fewer
<1>3. CASE n \notin S2 /\ Parent[n] \notin L
  <2>1. Told(S2, L \ {n})
    BY <1>1, <1>3 DEF Told
  <2> QED
    BY <2>1 DEF Fewer
<1> QED
  BY <1>2, <1>3

\* n has handled a request of type t: read it, and passed it on if it has children.
Handled(n, t) ==
    /\ \A U : t \notin U => In(down', U) = In(down, U)
    /\ \A U : t \in U => /\ n \in In(down, U)
                         /\ In(down', U) \subseteq In(down, U) \cup Children(n)
                         /\ (In(down, U) \ {n}) \cup Children(n) \subseteq In(down', U)
    /\ \A T, U : /\ Ordered(down, T, U) /\ T \cap U = {}
                 /\ t \in U => Children(n) \cap In(down, T) = {}
                 => Ordered(down', T, U)
    /\ \A T, U : Ordered(down, T, U) /\ t \in T => n \notin In(down, U)

LEMMA AAHandled ==
    ASSUME NEW a \in AAs, NEW T, ReadsDown(a, T)
    PROVE  \E t \in T : Handled(a, t)
<1> DEFINE t == Head(down[a]).type
<1>1. t \in T /\ Read(down, down', a)
  BY DEF ReadsDown
<1>2. Children(a) = {}
  BY DEF AAs
<1>3. Handled(a, t)
  <2>1. \A U : t \notin U => In(down', U) = In(down, U)
    BY <1>1 DEF Read
  <2>2. \A U : t \in U => /\ a \in In(down, U)
                          /\ In(down', U) \subseteq In(down, U) \cup Children(a)
                          /\ (In(down, U) \ {a}) \cup Children(a) \subseteq In(down', U)
    BY <1>1, <1>2 DEF Read
  <2>3. \A U, V : Ordered(down, U, V) => Ordered(down', U, V)
    BY <1>1 DEF Read
  <2>4. \A U, V : Ordered(down, U, V) /\ t \in U => a \notin In(down, V)
    BY <1>1 DEF Read
  <2> HIDE DEF t
  <2> QED
    BY <2>1, <2>2, <2>3, <2>4 DEF Handled
<1> QED
  BY <1>1, <1>3

LEMMA HLAHandled ==
    ASSUME NEW h \in HLAs, NEW T, PassesDown(h, T)
    PROVE  \E t \in T : Handled(h, t)
<1>1. PICK m \in DownMsgs : m.type \in T /\ PassedDown(down, down', h, m)
  BY DEF PassesDown
<1> DEFINE t == m.type
<1>2. Handled(h, t)
  <2>1. \A U : t \notin U => In(down', U) = In(down, U)
    BY <1>1 DEF PassedDown
  <2>2. \A U : t \in U => /\ h \in In(down, U)
                          /\ In(down', U) \subseteq In(down, U) \cup Children(h)
                          /\ (In(down, U) \ {h}) \cup Children(h) \subseteq In(down', U)
    BY <1>1 DEF PassedDown
  <2>3. \A U, V : /\ Ordered(down, U, V) /\ U \cap V = {}
                  /\ t \in V => Children(h) \cap In(down, U) = {}
                  => Ordered(down', U, V)
    BY <1>1 DEF PassedDown
  <2>4. \A U, V : Ordered(down, U, V) /\ t \in U => h \notin In(down, V)
    BY <1>1 DEF PassedDown
  <2> HIDE DEF t
  <2> QED
    BY <2>1, <2>2, <2>3, <2>4 DEF Handled
<1> QED
  BY <1>1, <1>2

\* The agents of L are still to be terminated, re-initialised or to quit, those
\* of R to be re-initialised.  No search gets past such a request, none goes on
\* below it, and only with one to come does an agent stay with an old run.
Late(L, R) ==
    /\ Told(In(down, Controls), L) /\ Told(In(down, {"reinit"}), R)
    /\ Ordered(down, Searches, Controls)
    /\ \A n \in Agents : Parent[n] \in L => n \notin AskedSearch
    /\ \A a \in AAs : a \in L => ~started[a]
    /\ \A a \in AAs : attached[a] # run => a \in R

LEMMA LateMoved ==
    ASSUME Types, NEW n \in Agents, NEW L \in SUBSET Agents, NEW R \in SUBSET Agents, Late(L, R), run' = run,
           \/ /\ down' = down
              /\ \A a \in AAs : (started'[a] => started[a]) /\ attached'[a] = attached[a]
           \/ \E t : /\ Handled(n, t)
                     /\ \A a \in AAs : started'[a] => started[a] \/ (a = n /\ t \in Searches)
                     /\ \A a \in AAs : attached'[a] # run => attached[a] # run
                     /\ t = "reinit" /\ n \in AAs => attached'[n] = run
    PROVE  \E L2, R2 \in SUBSET Agents : Late(L2, R2)'
<1>0. AAs \subseteq Agents /\ \A k \in Agents : k \in Children(n) <=> Parent[k] = n
  BY TreeFacts
<1> DEFINE S == In(down, Controls)
           I == In(down, {"reinit"})
<1>1. S \in SUBSET Agents /\ I \in SUBSET Agents /\ In(down', Controls) \in SUBSET Agents
      /\ In(down', {"reinit"}) \in SUBSET Agents
  BY DEF In
<1>2. CASE /\ down' = down
           /\ \A a \in AAs : (started'[a] => started[a]) /\ attached'[a] = attached[a]
  <2>1. Late(L, R)'
    BY <1>2 DEF Late, AskedSearch
  <2> QED
    BY <2>1
<1>3. ASSUME NEW t, Handled(n, t),
             \A a \in AAs : started'[a] => started[a] \/ (a = n /\ t \in Searches),
             \A a \in AAs : attached'[a] # run => attached[a] # run,
             t = "reinit" /\ n \in AAs => attached'[n] = run
      PROVE  \E L2, R2 \in SUBSET Agents : Late(L2, R2)'
  <2>1. PICK L2 \in SUBSET Agents : Told(In(down', Controls), L2) /\ L2 \subseteq L
    <3>1. CASE t \in Controls
      <4>1. /\ n \in S /\ In(down', Controls) \subseteq S \cup Children(n)
            /\ (S \ {n}) \cup Children(n) \subseteq In(down', Controls)
        BY <1>3, <3>1 DEF Handled
      <4>2. Told(S, L)
        BY DEF Late
      <4> HIDE DEF S
      <4> QED
        BY <1>1, <4>1, <4>2, ToldOn DEF Fewer
    <3>2. CASE t \notin Controls
      <4>1. In(down', Controls) = S
        BY <1>3, <3>2 DEF Handled
      <4> QED
        BY <4>1 DEF Late
    <3> QED
      BY <3>1, <3>2
  <2>2. PICK R2 \in SUBSET Agents : /\ Told(In(down', {"reinit"}), R2)
                                    /\ R \ {n} \subseteq R2 /\ (t # "reinit" => R2 = R)
    <3>1. CASE t = "reinit"
      <4>1. /\ n \in I /\ In(down', {"reinit"}) \subseteq I \cup Children(n)
            /\ (I \ {n}) \cup Children(n) \subseteq In(down', {"reinit"})
        BY <1>3, <3>1 DEF Handled
      <4>2. Told(I, R)
        BY DEF Late
      <4> HIDE DEF I
      <4>3. PICK R2 \in SUBSET Agents : Told(In(down', {"reinit"}), R2) /\ Fewer(R, R2, n)
        BY <1>1, <4>1, <4>2, ToldOn
      <4> QED
        BY <3>1, <4>3 DEF Fewer
    <3>2. CASE t # "reinit"
      <4>1. In(down', {"reinit"}) = I
        BY <1>3, <3>2 DEF Handled
      <4> QED
        BY <4>1 DEF Late
    <3> QED
      BY <3>1, <3>2
  <2>3. t \in Searches => n \notin L
    <3> SUFFICES ASSUME t \in Searches PROVE n \notin L
      OBVIOUS
    <3>1. n \in AskedSearch /\ n \notin S
      BY <1>3 DEF Handled, Late, AskedSearch
    <3> QED
      BY <3>1 DEF Late, Told
  <2>4. t \in Controls => n \in L
    <3> SUFFICES ASSUME t \in Controls PROVE n \in L
      OBVIOUS
    <3>1. n \in S
      BY <1>3 DEF Handled
    <3> QED
      BY <3>1 DEF Late, Told
  <2>5. Ordered(down', Searches, Controls)
    <3>1. t \in Controls => Children(n) \cap AskedSearch = {}
      BY <1>0, <2>4 DEF Late, AskedSearch, In
    <3>2. Searches \cap Controls = {}
      BY DEF Searches, Controls
    <3> QED
      BY <1>3, <3>1, <3>2 DEF Handled, Late, AskedSearch
  <2>6. \A k \in Agents : Parent[k] \in L2 => k \notin AskedSearch'
    <3>1. CASE t \in Searches
      <4>1. In(down', Searches) \subseteq AskedSearch \cup Children(n)
        BY <1>3, <3>1 DEF Handled, AskedSearch
      <4> QED
        BY <1>0, <2>1, <2>3, <3>1, <4>1 DEF Late, AskedSearch
    <3>2. CASE t \notin Searches
      <4>1. In(down', Searches) = AskedSearch
        BY <1>3, <3>2 DEF Handled, AskedSearch
      <4> QED
        BY <2>1, <4>1 DEF Late, AskedSearch
    <3> QED
      BY <3>1, <3>2
  <2>7. \A a \in AAs : a \in L2 => ~started'[a]
    BY <1>3, <2>1, <2>3 DEF Late
  <2>8. \A a \in AAs : attached'[a] # run => a \in R2
    BY <1>3, <2>2 DEF Late
  <2>9. Late(L2, R2)'
    BY <2>1, <2>2, <2>5, <2>6, <2>7, <2>8 DEF Late
  <2> QED
    BY <2>9
<1> QED
  BY <1>2, <1>3

\* The agents of K are still to be asked for their properties: while a search is
\* out any may have some, after it only they.
Undelivered(B, K) ==
    /\ Told(AskedCheck, K)
    /\ \A a \in AAs : found[a] # <<>> => SearchOut(B) \/ a \in K

LEMMA UndeliveredMoved ==
    ASSUME Types, NEW n \in Agents, NEW K \in SUBSET Agents, NEW B, NEW B2,
           Undelivered(B, K), SearchOut(B2)' <=> SearchOut(B),
           \/ down' = down /\ (SearchOut(B) \/ found' = found)
           \/ \E t : /\ Handled(n, t)
                     /\ \A a \in AAs : found'[a] # <<>> => found[a] # <<>>
                     /\ t = "check" /\ n \in AAs => found'[n] = <<>>
    PROVE  \E K2 \in SUBSET Agents : Undelivered(B2, K2)'
<1>1. AskedCheck \in SUBSET Agents /\ AskedCheck' \in SUBSET Agents
  BY DEF AskedCheck, In
<1>2. CASE down' = down /\ (SearchOut(B) \/ found' = found)
  <2>1. AskedCheck' = AskedCheck
    BY <1>2 DEF AskedCheck
  <2>2. Undelivered(B2, K)'
    BY <1>2, <2>1 DEF Undelivered
  <2> QED
    BY <2>2
<1>3. ASSUME NEW t, Handled(n, t),
             \A a \in AAs : found'[a] # <<>> => found[a] # <<>>,
             t = "check" /\ n \in AAs => found'[n] = <<>>
      PROVE  \E K2 \in SUBSET Agents : Undelivered(B2, K2)'
  <2>1. PICK K2 \in SUBSET Agents : Told(AskedCheck', K2) /\ K \ {n} \subseteq K2 /\ (t # "check" => K2 = K)
    <3>1. CASE t = "check"
      <4>1. /\ n \in AskedCheck /\ AskedCheck' \subseteq AskedCheck \cup Children(n)
            /\ (AskedCheck \ {n}) \cup Children(n) \subseteq AskedCheck'
        BY <1>3, <3>1 DEF Handled, AskedCheck
      <4>2. Told(AskedCheck, K)
        BY DEF Undelivered
      <4>3. PICK K2 \in SUBSET Agents : Told(AskedCheck', K2) /\ Fewer(K, K2, n)
        BY <1>1, <4>1, <4>2, ToldOn
      <4> QED
        BY <3>1, <4>3 DEF Fewer
    <3>2. CASE t # "check"
      <4>1. AskedCheck' = AskedCheck
        BY <1>3, <3>2 DEF Handled, AskedCheck
      <4> QED
        BY <4>1 DEF Undelivered
    <3> QED
      BY <3>1, <3>2
  <2>2. \A a \in AAs : found'[a] # <<>> => SearchOut(B2)' \/ a \in K2
    BY <1>3, <2>1 DEF Undelivered
  <2>3. Undelivered(B2, K2)'
    BY <2>1, <2>2 DEF Undelivered
  <2> QED
    BY <2>3
<1> QED
  BY <1>2, <1>3

-----------------------------------------------------------------------------
(* The invariant: the waves, and which of them the frontend waits for.     *)

\* A search is out only while the frontend waits for it, and no check is before
\* it has been answered.  The frontend waits for a call-tree that is out.
Phases(B, C, T) ==
    /\ SearchOut(B) => /\ Waiting /\ ~CheckOut(C)
                       /\ \A c \in Children(FE) : ~info[c].properties_sent
    /\ CheckOut(C) => Waiting
    /\ TreeOut(T) => TreeAwaited

Going(B, C, T) == SearchWave(B) /\ CheckWave(C) /\ TreeWave(T) /\ Phases(B, C, T)

Inv ==
    /\ Types /\ Control
    /\ \E B, C, T \in SUBSET Agents : /\ Going(B, C, T)
                                      /\ \E K \in SUBSET Agents : Undelivered(B, K)
    /\ \E L, R \in SUBSET Agents : Late(L, R)

\* A wave that is not out is nowhere.
LEMMA SearchOver ==
    ASSUME NEW B \in SUBSET Agents, SearchWave(B), ~SearchOut(B)
    PROVE  /\ AskedSearch = {} /\ B = {} /\ ToldSearch = {}
           /\ \A n \in Agents : Parent[n] # FE => n \notin Reported
           /\ \A a \in AAs : ~started[a]
<1> DEFINE Q == AskedSearch
           A == ToldSearch
           G == Reported
<1>1. Q \in SUBSET Agents /\ A \in SUBSET Agents /\ Wave(Q, B, A, G) /\ \A c \in Children(FE) : c \notin Q \cup B \cup A
  BY DEF SearchWave, SearchOut, Out, AskedSearch, ToldSearch, In
<1> HIDE DEF Q, A, G
<1>2. Q = {} /\ B = {} /\ A = {} /\ \A n \in Agents : Parent[n] # FE => n \notin G
  BY <1>1, WaveOver
<1>3. \A a \in AAs : ~started[a]
  BY <1>2 DEF SearchWave
<1> QED
  BY <1>2, <1>3 DEF Q, A, G

LEMMA CheckOver ==
    ASSUME NEW C \in SUBSET Agents, CheckWave(C), ~CheckOut(C)
    PROVE  /\ AskedCheck = {} /\ C = {} /\ ToldCheck = {}
           /\ In(up, {"foundprop"}) = {}
           /\ \A h \in HLAs : properties[h] = {}
<1> DEFINE Q == AskedCheck
           A == ToldCheck
           G == Delivered(C)
<1>1. Q \in SUBSET Agents /\ A \in SUBSET Agents /\ Wave(Q, C, A, G) /\ \A c \in Children(FE) : c \notin Q \cup C \cup A
  BY DEF CheckWave, CheckOut, Out, AskedCheck, ToldCheck, In
<1> HIDE DEF Q, A, G
<1>2. Q = {} /\ C = {} /\ A = {}
  BY <1>1, WaveOver
<1>3. In(up, {"foundprop"}) = {} /\ \A h \in HLAs : properties[h] = {}
  BY <1>2 DEF CheckWave, A
<1> QED
  BY <1>2, <1>3 DEF Q, A

LEMMA TreeOver ==
    ASSUME NEW T \in SUBSET Agents, TreeWave(T), ~TreeOut(T)
    PROVE  AskedTree = {} /\ T = {} /\ ToldTree = {}
<1> DEFINE Q == AskedTree
           A == ToldTree
           G == {}
<1>1. Q \in SUBSET Agents /\ A \in SUBSET Agents /\ Wave(Q, T, A, G) /\ \A c \in Children(FE) : c \notin Q \cup T \cup A
  BY DEF TreeWave, TreeOut, Out, AskedTree, ToldTree, In
<1> HIDE DEF Q, A, G
<1>2. Q = {} /\ T = {} /\ A = {}
  BY <1>1, WaveOver
<1> QED
  BY <1>2 DEF Q, A

-----------------------------------------------------------------------------
(* The steps of the agents.                                                *)

\* An agent reads no request, or the next one in its stream.
AgentActs(n) ==
    \/ /\ down' = down
       /\ \A a \in AAs : (started'[a] => started[a]) /\ attached'[a] = attached[a]
       /\ found' = found \/ (n \in AAs /\ started[n])
    \/ \E t : /\ Handled(n, t)
              /\ \A a \in AAs : started'[a] => started[a] \/ (a = n /\ t \in Searches)
              /\ \A a \in AAs : attached'[a] # run => attached[a] # run
              /\ t = "reinit" /\ n \in AAs => attached'[n] = run
              /\ \A a \in AAs : found'[a] # <<>> => found[a] # <<>>
              /\ t = "check" /\ n \in AAs => found'[n] = <<>>

LEMMA AAActs ==
    ASSUME Types, NEW a \in AAs, AAStep(a)
    PROVE  run' = run /\ AgentActs(a)
<1>0. /\ started \in [AAs -> BOOLEAN] /\ found \in [AAs -> Seq(Props)]
      /\ DOMAIN attached = AAs
  BY DEF Types, AATypes, NumberTypes
<1>1. PICK ms \in Seq(UpMsgs) :
         /\ Extended(up, up', a, ms)
         /\ info' = info /\ run' = run
         /\ \/ AAPlain(a, ms) \/ AAStarts(a, ms) \/ AAEvaluates(a, ms)
            \/ AAChecks(a, ms) \/ AASerializes(a, ms)
  BY AAKinds
<1>2. ASSUME NEW T, ReadsDown(a, T) PROVE \E t \in T : Handled(a, t)
  BY <1>2, AAHandled
<1>3. CASE AAPlain(a, ms)
  <2>1. started' = started /\ found' = found
    BY <1>3 DEF AAPlain
  <2>2. CASE down' = down /\ attached' = attached
    BY <1>1, <2>1, <2>2 DEF AgentActs
  <2>3. CASE ReadsDown(a, {"terminate", "quit"}) /\ attached' = attached
    <3>1. PICK t \in {"terminate", "quit"} : Handled(a, t)
      BY <1>2, <2>3
    <3> QED
      BY <1>1, <2>1, <2>3, <3>1 DEF AgentActs
  <2>4. CASE ReadsDown(a, {"reinit"}) /\ attached' = [attached EXCEPT ![a] = run]
    <3>1. Handled(a, "reinit")
      BY <1>2, <2>4
    <3> QED
      BY <1>0, <1>1, <2>1, <2>4, <3>1 DEF AgentActs
  <2> QED
    BY <1>3, <2>2, <2>3, <2>4 DEF AAPlain
<1>4. CASE AAStarts(a, ms)
  <2>1. PICK t \in Searches : Handled(a, t)
    BY <1>2, <1>4 DEF AAStarts
  <2>2. t # "reinit" /\ t # "check"
    BY DEF Searches
  <2>3. \A b \in AAs : started'[b] => started[b] \/ b = a
    BY <1>0, <1>4 DEF AAStarts
  <2> QED
    BY <1>1, <1>4, <2>1, <2>2, <2>3 DEF AAStarts, AgentActs
<1>5. CASE AAEvaluates(a, ms)
  <2>1. \A b \in AAs : started'[b] => started[b]
    BY <1>0, <1>5 DEF AAEvaluates
  <2> QED
    BY <1>1, <1>5, <2>1 DEF AAEvaluates, AgentActs
<1>6. CASE AAChecks(a, ms)
  <2>1. Handled(a, "check")
    BY <1>2, <1>6 DEF AAChecks
  <2>2. found'[a] = <<>> /\ \A b \in AAs : found'[b] # <<>> => found[b] # <<>>
    BY <1>0, <1>6 DEF AAChecks
  <2> QED
    BY <1>1, <1>6, <2>1, <2>2 DEF AAChecks, AgentActs
<1>7. CASE AASerializes(a, ms)
  <2>1. Handled(a, "serializecalltree")
    BY <1>2, <1>7 DEF AASerializes
  <2> QED
    BY <1>1, <1>7, <2>1 DEF AASerializes, AgentActs
<1> QED
  BY <1>1, <1>3, <1>4, <1>5, <1>6, <1>7

LEMMA HLAActs ==
    ASSUME Types, NEW h \in HLAs, HLAStep(h), UNCHANGED <<aaVars, appVars>>
    PROVE  run' = run /\ AgentActs(h)
<1>1. run' = run /\ UNCHANGED <<started, attached, found>> /\ h \notin AAs
  BY TreeFacts DEF aaVars, appVars
<1>2. ASSUME down' = down PROVE AgentActs(h)
  BY <1>1, <1>2 DEF AgentActs
<1>3. ASSUME NEW T, PassesDown(h, T) PROVE AgentActs(h)
  <2>1. PICK t \in T : Handled(h, t)
    BY <1>3, HLAHandled
  <2> QED
    BY <1>1, <2>1 DEF AgentActs
<1>4. \/ HLAPlain(h)
      \/ HLAPasses(h, Searches) \/ HLAPasses(h, Controls) \/ HLAPasses(h, {"serializecalltree"})
      \/ HLAPassesCheck(h)
      \/ \E c \in Children(h), ms \in Seq(UpMsgs) :
            /\ up[c] # <<>> /\ PassedUp(up, up', c, h, ms)
            /\ \/ HLANotesSearch(h, c, ms) \/ HLANotesCheck(h, c, ms)
               \/ HLANotesFound(h, c, ms) \/ HLANotesTree(h, c, ms)
  BY HLAKinds
<1> QED
  BY <1>1, <1>2, <1>3, <1>4
     DEF HLAPlain, HLAPasses, HLAPassesCheck, HLANotesSearch, HLANotesCheck, HLANotesFound, HLANotesTree

\* The notes of the frontend are its own.
LEMMA TopNotes ==
    ASSUME Types,
           \/ CheckStill
           \/ \E a \in AAs : CheckAtLeaf(a)
           \/ \E h \in HLAs : \/ CheckSpreads(h)
                              \/ \E c \in Children(h) : CheckNoted(h, c) \/ FoundNoted(h, c)
    PROVE  \A c \in Children(FE) : info'[c].properties_sent => info[c].properties_sent
<1> SUFFICES ASSUME NEW c \in Children(FE), info'[c].properties_sent PROVE info[c].properties_sent
  OBVIOUS
<1>0. /\ c \in Agents /\ Parent[c] = FE /\ \A h \in HLAs : h # FE
      /\ \A h \in HLAs : c \notin Children(h)
  <2>1. /\ c \in Agents /\ Parent[c] = FE /\ \A h \in HLAs : h # FE
    BY TreeFacts
  <2> QED
    BY <2>1, TreeFacts
<1>1. info[c].properties_sent \in BOOLEAN
  BY <1>0 DEF Types, TreeTypes, AgentInfo
<1>2. SameCheckNotes => info[c].properties_sent
  BY <1>0 DEF SameCheckNotes
<1>3. ASSUME NEW h \in HLAs, CheckSpreads(h) PROVE info[c].properties_sent
  BY <1>0, <1>1, <1>3 DEF CheckSpreads
<1>4. ASSUME NEW h \in HLAs, NEW d \in Children(h), CheckNoted(h, d) PROVE info[c].properties_sent
  BY <1>0, <1>1, <1>4 DEF CheckNoted
<1> QED
  BY <1>2, <1>3, <1>4 DEF CheckStill, CheckAtLeaf, FoundNoted

LEMMA AgentKeeps ==
    ASSUME Inv, NEW n \in Agents, AgentStep(n), Types', ~Rts \/ Chain
    PROVE  Inv'
<1>1. PICK B \in SUBSET Agents, C \in SUBSET Agents, T \in SUBSET Agents, K \in SUBSET Agents :
         Going(B, C, T) /\ Undelivered(B, K)
  BY DEF Inv
<1>2. PICK L \in SUBSET Agents, R \in SUBSET Agents : Late(L, R)
  BY DEF Inv
<1>3. Types /\ Control
  BY DEF Inv
<1>4. SearchWave(B) /\ CheckWave(C) /\ TreeWave(T) /\ Phases(B, C, T)
  BY <1>1 DEF Going
<1>5. feVars' = feVars
  BY DEF AgentStep
<1>6. Control' /\ (Waiting' <=> Waiting) /\ (TreeAwaited' <=> TreeAwaited)
  BY <1>3, <1>5 DEF feVars, loopVars, ctlVars, decVars, Control, Waiting, TreeAwaited
<1>7. Chain \/ ~TreeOut(T)
  BY <1>3, <1>4 DEF Control, Phases, TreeAwaited
<1>8. run' = run /\ AgentActs(n)
  <2>1. CASE n \in AAs /\ AAStep(n)
    BY <1>3, <2>1, AAActs
  <2>2. CASE n \in HLAs /\ HLAStep(n) /\ UNCHANGED <<aaVars, appVars>>
    BY <1>3, <2>2, HLAActs
  <2> QED
    BY <2>1, <2>2 DEF AgentStep
<1>9. /\ \/ SearchStill
         \/ \E a \in AAs : SearchAtLeaf(a)
         \/ \E h \in HLAs : SearchSpreads(h) \/ \E c \in Children(h) : SearchNoted(h, c)
      /\ \/ CheckStill
         \/ \E a \in AAs : CheckAtLeaf(a)
         \/ \E h \in HLAs : \/ CheckSpreads(h)
                            \/ \E c \in Children(h) : CheckNoted(h, c) \/ FoundNoted(h, c)
      /\ \/ TreeStill
         \/ \E a \in AAs : TreeAtLeaf(a)
         \/ \E h \in HLAs : TreeSpreads(h) \/ \E c \in Children(h) : TreeNoted(h, c)
  <2>1. CASE n \in AAs /\ AAStep(n) /\ UNCHANGED hlaVars
    <3>1. properties' = properties
      BY <2>1 DEF hlaVars
    <3> QED
      BY <1>3, <2>1, <3>1, AAMoves
  <2>2. CASE n \in HLAs /\ HLAStep(n) /\ UNCHANGED aaVars
    <3>1. started' = started
      BY <2>2 DEF aaVars
    <3> QED
      BY <1>3, <2>2, <3>1, HLAMoves
  <2> QED
    BY <2>1, <2>2 DEF AgentStep
<1>10. PICK B2 \in SUBSET Agents : SearchWave(B2)' /\ (SearchOut(B2)' <=> SearchOut(B))
  BY <1>3, <1>4, <1>9, SearchMoved
<1>11. PICK C2 \in SUBSET Agents : CheckWave(C2)' /\ (CheckOut(C2)' <=> CheckOut(C))
  BY <1>3, <1>4, <1>9, CheckMoved
<1>12. PICK T2 \in SUBSET Agents : TreeWave(T2)' /\ (TreeOut(T2)' <=> TreeOut(T))
  BY <1>3, <1>4, <1>7, <1>9, TreeMoved
<1>13. Going(B2, C2, T2)'
  <2>1. \A c \in Children(FE) : info'[c].properties_sent => info[c].properties_sent
    BY <1>3, <1>9, TopNotes
  <2>2. Phases(B2, C2, T2)'
    BY <1>4, <1>6, <1>10, <1>11, <1>12, <2>1 DEF Phases
  <2> QED
    BY <1>10, <1>11, <1>12, <2>2 DEF Going
<1>14. \E K2 \in SUBSET Agents : Undelivered(B2, K2)'
  <2>1. n \in AAs /\ started[n] => SearchOut(B)
    BY <1>4, SearchOver
  <2>2. \/ down' = down /\ (SearchOut(B) \/ found' = found)
        \/ \E t : /\ Handled(n, t)
                  /\ \A a \in AAs : found'[a] # <<>> => found[a] # <<>>
                  /\ t = "check" /\ n \in AAs => found'[n] = <<>>
    BY <1>8, <2>1 DEF AgentActs
  <2> QED
    BY <1>1, <1>3, <1>10, <2>2, UndeliveredMoved
<1>15. \E L2, R2 \in SUBSET Agents : Late(L2, R2)'
  <2>1. \/ /\ down' = down
           /\ \A a \in AAs : (started'[a] => started[a]) /\ attached'[a] = attached[a]
        \/ \E t : /\ Handled(n, t)
                  /\ \A a \in AAs : started'[a] => started[a] \/ (a = n /\ t \in Searches)
                  /\ \A a \in AAs : attached'[a] # run => attached[a] # run
                  /\ t = "reinit" /\ n \in AAs => attached'[n] = run
    BY <1>8 DEF AgentActs
  <2> QED
    BY <1>2, <1>3, <1>8, <2>1, LateMoved
<1> QED
  BY <1>6, <1>13, <1>14, <1>15 DEF Inv

-----------------------------------------------------------------------------
(* The steps of the frontend.                                              *)

\* It writes a request to its child.
LEMMA FEWrites ==
    ASSUME NEW T, FESends(T)
    PROVE  /\ \A U : T \cap U = {} => Stays(down, down', U)
           /\ \A U : T \subseteq U => /\ In(down', U) = In(down, U) \cup Children(FE)
                                      /\ Single(down, U) /\ In(down, U) = {} => Single(down', U)
           /\ \A U : In(down', U) \subseteq In(down, U) \cup Children(FE)
           /\ \A U, V : /\ Ordered(down, U, V) /\ U \cap V = {} /\ (T \cap V = {} \/ In(down, U) = {})
                        => Ordered(down', U, V)
<1>1. PICK m : m.type \in T /\ Sent(down, down', FE, m)
  BY DEF FESends
<1>2. ASSUME NEW U, T \cap U = {} PROVE Stays(down, down', U)
  <2>1. m.type \notin U
    BY <1>1, <1>2
  <2>2. In(down', U) = In(down, U) \cup {}
    BY <1>1, <2>1 DEF Sent
  <2> QED
    BY <1>1, <2>1, <2>2 DEF Sent, Stays
<1>3. ASSUME NEW U, T \subseteq U
      PROVE  /\ In(down', U) = In(down, U) \cup Children(FE)
             /\ Single(down, U) /\ In(down, U) = {} => Single(down', U)
  BY <1>1, <1>3 DEF Sent
<1>4. ASSUME NEW U PROVE In(down', U) \subseteq In(down, U) \cup Children(FE)
  BY <1>1 DEF Sent
<1>5. ASSUME NEW U, NEW V, Ordered(down, U, V), U \cap V = {}, T \cap V = {} \/ In(down, U) = {}
      PROVE  Ordered(down', U, V)
  BY <1>1, <1>5 DEF Sent
<1> QED
  BY <1>2, <1>3, <1>4, <1>5

\* Of the notes of a high-level agent it changes none.
LEMMA NotesKept ==
    ASSUME SameBelow
    PROVE  /\ Reported' = Reported
           /\ \A C \in SUBSET Agents : Delivered(C)' = Delivered(C)
<1>1. FE \notin Agents
  BY TreeFacts
<1> QED
  BY <1>1 DEF SameBelow, Reported, Delivered

LEMMA SearchKept ==
    ASSUME NEW B \in SUBSET Agents, SearchWave(B), SameBelow,
           Stays(down, down', Searches), Stays(up, up', SearchRequests)
    PROVE  SearchWave(B)' /\ (SearchOut(B)' <=> SearchOut(B))
<1>1. AskedSearch' = AskedSearch /\ ToldSearch' = ToldSearch /\ Reported' = Reported /\ started' = started
  BY NotesKept DEF Stays, AskedSearch, ToldSearch, SameBelow
<1>2. Single(down', Searches) /\ Single(up', SearchRequests)
  BY DEF Stays, SearchWave
<1> QED
  BY <1>1, <1>2 DEF SearchWave, SearchOut, Out

LEMMA CheckKept ==
    ASSUME NEW C \in SUBSET Agents, CheckWave(C), SameBelow,
           Stays(down, down', {"check"}), Stays(up, up', {"propertiessent"}),
           In(up', {"foundprop"}) \subseteq In(up, {"foundprop"}), PropsOrdered => PropsOrdered'
    PROVE  CheckWave(C)' /\ (CheckOut(C)' <=> CheckOut(C))
<1>1. /\ AskedCheck' = AskedCheck /\ ToldCheck' = ToldCheck /\ Delivered(C)' = Delivered(C)
      /\ properties' = properties
  BY NotesKept DEF Stays, AskedCheck, ToldCheck, SameBelow
<1>2. Single(down', {"check"}) /\ Single(up', {"propertiessent"}) /\ PropsOrdered'
  BY DEF Stays, CheckWave, PropsOrdered
<1> QED
  BY <1>1, <1>2 DEF CheckWave, CheckOut, Out, PropsOrdered

LEMMA TreeKept ==
    ASSUME NEW T \in SUBSET Agents, TreeWave(T),
           Stays(down, down', {"serializecalltree"}), Stays(up, up', {"calltreesent"})
    PROVE  TreeWave(T)' /\ (TreeOut(T)' <=> TreeOut(T))
<1>1. AskedTree' = AskedTree /\ ToldTree' = ToldTree
  BY DEF Stays, AskedTree, ToldTree
<1>2. Single(down', {"serializecalltree"}) /\ Single(up', {"calltreesent"})
  BY DEF Stays, TreeWave
<1> QED
  BY <1>1, <1>2 DEF TreeWave, TreeOut, Out

\* It sends a request when the wave of its kind is over.
LEMMA SearchSent ==
    ASSUME NEW B \in SUBSET Agents, SearchWave(B), ~SearchOut(B), SameBelow,
           FESends(Searches), Stays(up, up', SearchRequests)
    PROVE  SearchWave({})'
<1>1. /\ AskedSearch = {} /\ ToldSearch = {} /\ \A a \in AAs : ~started[a]
      /\ \A n \in Agents : Parent[n] # FE => n \notin Reported
  BY SearchOver
<1>2. AskedSearch' = Children(FE) /\ Single(down', Searches)
  BY <1>1, FEWrites DEF SearchWave, AskedSearch
<1>3. ToldSearch' = {} /\ Single(up', SearchRequests)
  BY <1>1 DEF Stays, SearchWave, ToldSearch
<1>4. Reported' = Reported /\ \A a \in AAs : ~started'[a]
  BY <1>1, NotesKept DEF SameBelow
<1>5. Wave(AskedSearch', {}, ToldSearch', Reported')
  <2> DEFINE G == Reported
  <2> HIDE DEF G
  <2>1. \A n \in Agents : Parent[n] # FE => n \notin G
    BY <1>1 DEF G
  <2>2. Wave(Children(FE), {}, {}, G)
    BY <2>1, WaveSent
  <2> QED
    BY <1>2, <1>3, <1>4, <2>2 DEF G
<1> QED
  BY <1>2, <1>3, <1>4, <1>5 DEF SearchWave

LEMMA CheckSent ==
    ASSUME NEW C \in SUBSET Agents, CheckWave(C), ~CheckOut(C), SameBelow,
           FESends({"check"}), Stays(up, up', {"propertiessent"}),
           In(up', {"foundprop"}) \subseteq In(up, {"foundprop"}), PropsOrdered => PropsOrdered'
    PROVE  CheckWave({})'
<1>1. /\ AskedCheck = {} /\ ToldCheck = {} /\ In(up, {"foundprop"}) = {}
      /\ \A h \in HLAs : properties[h] = {}
  BY CheckOver
<1>2. AskedCheck' = Children(FE) /\ Single(down', {"check"})
  BY <1>1, FEWrites DEF CheckWave, AskedCheck
<1>3. ToldCheck' = {} /\ Single(up', {"propertiessent"}) /\ PropsOrdered'
  BY <1>1 DEF Stays, CheckWave, ToldCheck, PropsOrdered
<1>4. Delivered({})' = {} /\ \A h \in HLAs : properties'[h] = {}
  BY <1>1 DEF SameBelow, Delivered
<1>5. Wave(AskedCheck', {}, ToldCheck', Delivered({})')
  <2> DEFINE G == {}
  <2>1. \A n \in Agents : Parent[n] # FE => n \notin G
    OBVIOUS
  <2> HIDE DEF G
  <2>2. Wave(Children(FE), {}, {}, G)
    BY <2>1, WaveSent
  <2> QED
    BY <1>2, <1>3, <1>4, <2>2 DEF G
<1>6. In(up', {"foundprop"}) = {}
  BY <1>1
<1> QED
  BY <1>2, <1>3, <1>4, <1>5, <1>6 DEF CheckWave, PropsOrdered

LEMMA TreeSent ==
    ASSUME NEW T \in SUBSET Agents, TreeWave(T), ~TreeOut(T),
           FESends({"serializecalltree"}), Stays(up, up', {"calltreesent"})
    PROVE  TreeWave({})'
<1>1. AskedTree = {} /\ ToldTree = {}
  BY TreeOver
<1>2. AskedTree' = Children(FE) /\ Single(down', {"serializecalltree"})
  BY <1>1, FEWrites DEF TreeWave, AskedTree
<1>3. ToldTree' = {} /\ Single(up', {"calltreesent"})
  BY <1>1 DEF Stays, TreeWave, ToldTree
<1>4. Wave(AskedTree', {}, ToldTree', {})
  <2> DEFINE G == {}
  <2>1. \A n \in Agents : Parent[n] # FE => n \notin G
    OBVIOUS
  <2> HIDE DEF G
  <2>2. Wave(Children(FE), {}, {}, G)
    BY <2>1, WaveSent
  <2> QED
    BY <1>2, <1>3, <2>2 DEF G
<1> QED
  BY <1>2, <1>3, <1>4 DEF TreeWave

\* It reads the answer of its child: the wave is over.
LEMMA SearchAnswered ==
    ASSUME NEW B \in SUBSET Agents, SearchWave(B), SameBelow, NEW c \in Children(FE),
           Stays(down, down', Searches), Taken(up, up', c, SearchRequests)
    PROVE  SearchWave({})' /\ ~SearchOut({})'
<1> DEFINE Q == AskedSearch
           A == ToldSearch
           G == Reported
<1>1. Q \in SUBSET Agents /\ A \in SUBSET Agents /\ Wave(Q, B, A, G) /\ c \in A
  BY DEF SearchWave, AskedSearch, ToldSearch, In, Taken
<1>2. /\ Q = {} /\ B = {} /\ A = {c} /\ Wave({}, {}, {}, G)
  <2> HIDE DEF Q, A, G
  <2>1. /\ Q = {} /\ B = {} /\ A = {c}
        /\ \A n \in Agents : Parent[n] # FE => n \notin G
        /\ Wave({}, {}, {}, G)
    BY <1>1, WaveAtTop
  <2> QED
    BY <2>1
<1>3. AskedSearch' = {} /\ Single(down', Searches) /\ Reported' = G /\ started' = started
  BY <1>2, NotesKept DEF Stays, SearchWave, AskedSearch, SameBelow
<1>4. ToldSearch' = {} /\ Single(up', SearchRequests)
  BY <1>2 DEF Taken, SearchWave, ToldSearch
<1> HIDE DEF G
<1>5. SearchWave({})'
  BY <1>2, <1>3, <1>4 DEF SearchWave
<1> QED
  BY <1>3, <1>4, <1>5 DEF SearchOut, Out

LEMMA CheckAnswered ==
    ASSUME NEW C \in SUBSET Agents, CheckWave(C), SameBelow, NEW c \in Children(FE),
           Stays(down, down', {"check"}), Taken(up, up', c, {"propertiessent"}),
           In(up', {"foundprop"}) \subseteq In(up, {"foundprop"}), PropsOrdered => PropsOrdered',
           PropsOrdered => c \notin In(up, {"foundprop"})
    PROVE  CheckWave({})' /\ ~CheckOut({})'
<1> DEFINE Q == AskedCheck
           A == ToldCheck
           G == Delivered(C)
<1>1. Q \in SUBSET Agents /\ A \in SUBSET Agents /\ Wave(Q, C, A, G) /\ c \in A
  BY DEF CheckWave, AskedCheck, ToldCheck, In, Taken
<1>2. /\ Q = {} /\ C = {} /\ A = {c}
  <2> HIDE DEF Q, A, G
  <2>1. /\ Q = {} /\ C = {} /\ A = {c}
        /\ \A n \in Agents : Parent[n] # FE => n \notin G
        /\ Wave({}, {}, {}, G)
    BY <1>1, WaveAtTop
  <2> QED
    BY <2>1
<1>3. AskedCheck' = {} /\ Single(down', {"check"}) /\ Delivered({})' = {} /\ properties' = properties
  BY <1>2 DEF Stays, CheckWave, AskedCheck, SameBelow, Delivered
<1>4. ToldCheck' = {} /\ Single(up', {"propertiessent"}) /\ PropsOrdered'
  BY <1>2 DEF Taken, CheckWave, ToldCheck, PropsOrdered
<1>5. In(up', {"foundprop"}) = {} /\ \A h \in HLAs : properties'[h] = {}
  BY <1>2, <1>3 DEF CheckWave, PropsOrdered
<1>6. Wave({}, {}, {}, {})
  <2> DEFINE H == {}
  <2>1. \A n \in Agents : Parent[n] # FE => n \notin H
    OBVIOUS
  <2> HIDE DEF H
  <2>2. Wave({}, {}, {}, H)
    BY <2>1, NoWave
  <2> QED
    BY <2>2 DEF H
<1>7. CheckWave({})'
  BY <1>3, <1>4, <1>5, <1>6 DEF CheckWave, PropsOrdered
<1> QED
  BY <1>3, <1>4, <1>7 DEF CheckOut, Out

LEMMA TreeAnswered ==
    ASSUME NEW T \in SUBSET Agents, TreeWave(T), NEW c \in Children(FE),
           Stays(down, down', {"serializecalltree"}), Taken(up, up', c, {"calltreesent"})
    PROVE  TreeWave({})' /\ ~TreeOut({})'
<1> DEFINE Q == AskedTree
           A == ToldTree
           G == {}
<1>1. Q \in SUBSET Agents /\ A \in SUBSET Agents /\ Wave(Q, T, A, G) /\ c \in A
  BY DEF TreeWave, AskedTree, ToldTree, In, Taken
<1>2. /\ Q = {} /\ T = {} /\ A = {c} /\ Wave({}, {}, {}, G)
  <2> HIDE DEF Q, A, G
  <2>1. /\ Q = {} /\ T = {} /\ A = {c}
        /\ \A n \in Agents : Parent[n] # FE => n \notin G
        /\ Wave({}, {}, {}, G)
    BY <1>1, WaveAtTop
  <2> QED
    BY <2>1
<1>3. AskedTree' = {} /\ Single(down', {"serializecalltree"})
  BY <1>2 DEF Stays, TreeWave, AskedTree
<1>4. ToldTree' = {} /\ Single(up', {"calltreesent"})
  BY <1>2 DEF Taken, TreeWave, ToldTree
<1>5. TreeWave({})'
  BY <1>2, <1>3, <1>4 DEF TreeWave
<1> QED
  BY <1>3, <1>4, <1>5 DEF TreeOut, Out

\* What is still to come, when it writes no such request.
LEMMA LateKept ==
    ASSUME NEW L \in SUBSET Agents, NEW R \in SUBSET Agents, Late(L, R), SameBelow, run' = run,
           down' = down \/ \E T : FESends(T) /\ T \cap Controls = {}
    PROVE  Late(L, R)'
<1>1. UNCHANGED <<started, attached>>
  BY DEF SameBelow
<1>2. CASE down' = down
  BY <1>1, <1>2 DEF Late, AskedSearch
<1>3. ASSUME NEW T, FESends(T), T \cap Controls = {} PROVE Late(L, R)'
  <2>1. Stays(down, down', Controls) /\ Stays(down, down', {"reinit"})
    <3>1. T \cap {"reinit"} = {}
      BY <1>3 DEF Controls
    <3> QED
      BY <1>3, <3>1, FEWrites
  <2>2. Ordered(down', Searches, Controls)
    <3>1. Searches \cap Controls = {}
      BY DEF Searches, Controls
    <3> QED
      BY <1>3, <3>1, FEWrites DEF Late
  <2>3. \A n \in Agents : Parent[n] \in L => n \notin AskedSearch'
    <3>1. AskedSearch' \subseteq AskedSearch \cup Children(FE)
      BY <1>3, FEWrites DEF AskedSearch
    <3>2. \A n \in Agents : Parent[n] \in L => n \notin Children(FE)
      BY TreeFacts
    <3> QED
      BY <3>1, <3>2 DEF Late
  <2>4. In(down', Controls) = In(down, Controls) /\ In(down', {"reinit"}) = In(down, {"reinit"})
    BY <2>1 DEF Stays
  <2> QED
    BY <1>1, <2>2, <2>3, <2>4 DEF Late
<1> QED
  BY <1>2, <1>3

\* When it does, no search is out.
LEMMA LateSent ==
    ASSUME NEW L \in SUBSET Agents, NEW R \in SUBSET Agents, Late(L, R), SameBelow,
           AskedSearch = {}, \A a \in AAs : ~started[a],
           \/ FESends({"terminate", "quit"}) /\ run' = run
           \/ FESends({"quit"}) /\ run' = run
           \/ FESends({"reinit"})
    PROVE  \E L2, R2 \in SUBSET Agents : Late(L2, R2)'
<1>1. UNCHANGED <<started, attached>> /\ AAs \subseteq Agents
  BY TreeFacts DEF SameBelow
<1>2. ASSUME NEW T, T \subseteq Controls, FESends(T)
      PROVE  /\ Told(In(down', Controls), Agents)
             /\ Ordered(down', Searches, Controls)
             /\ AskedSearch' = {}
  <2>1. Children(FE) \subseteq In(down', Controls)
    BY <1>2, FEWrites
  <2>2. Told(In(down', Controls), Agents)
    BY <2>1, ToldAll
  <2>3. Ordered(down', Searches, Controls) /\ AskedSearch' = {}
    <3>1. Searches \cap Controls = {} /\ T \cap Searches = {}
      BY <1>2 DEF Searches, Controls
    <3>2. In(down, Searches) = {} /\ Ordered(down, Searches, Controls)
      BY DEF AskedSearch, Late
    <3>3. Stays(down, down', Searches)
      BY <1>2, <3>1, FEWrites
    <3>4. Ordered(down', Searches, Controls)
      BY <1>2, <3>1, <3>2, FEWrites
    <3> QED
      BY <3>2, <3>3, <3>4 DEF Stays, AskedSearch
  <2> QED
    BY <2>2, <2>3
<1>3. ASSUME NEW T, T \subseteq {"terminate", "quit"}, FESends(T), run' = run
      PROVE  Late(Agents, R)'
  <2>1. In(down', {"reinit"}) = In(down, {"reinit"})
    <3>1. T \cap {"reinit"} = {}
      BY <1>3
    <3> QED
      BY <1>3, <3>1, FEWrites DEF Stays
  <2>2. T \subseteq Controls
    BY <1>3 DEF Controls
  <2>3. Told(In(down', Controls), Agents) /\ Ordered(down', Searches, Controls) /\ AskedSearch' = {}
    BY <1>2, <1>3, <2>2
  <2> QED
    BY <1>1, <1>3, <2>1, <2>3 DEF Late
<1>4. ASSUME FESends({"reinit"}) PROVE Late(Agents, Agents)'
  <2>1. Told(In(down', {"reinit"}), Agents)
    <3>1. Children(FE) \subseteq In(down', {"reinit"})
      BY <1>4, FEWrites
    <3> QED
      BY <3>1, ToldAll
  <2>2. {"reinit"} \subseteq Controls
    BY DEF Controls
  <2>3. Told(In(down', Controls), Agents) /\ Ordered(down', Searches, Controls) /\ AskedSearch' = {}
    BY <1>2, <1>4, <2>2
  <2> QED
    BY <1>1, <2>1, <2>3 DEF Late
<1>5. {"terminate", "quit"} \subseteq {"terminate", "quit"} /\ {"quit"} \subseteq {"terminate", "quit"}
  OBVIOUS
<1> QED
  BY <1>3, <1>4, <1>5

LEMMA UndeliveredKept ==
    ASSUME NEW K \in SUBSET Agents, NEW B, NEW B2, Undelivered(B, K), SameBelow,
           Stays(down, down', {"check"}), SearchOut(B) => SearchOut(B2)'
    PROVE  Undelivered(B2, K)'
<1>1. AskedCheck' = AskedCheck /\ found' = found
  BY DEF Stays, AskedCheck, SameBelow
<1> QED
  BY <1>1 DEF Undelivered

LEMMA UndeliveredSent ==
    ASSUME NEW B2, FESends({"check"})
    PROVE  Undelivered(B2, Agents)'
<1>1. Children(FE) \subseteq AskedCheck' /\ AAs \subseteq Agents
  BY FEWrites, TreeFacts DEF AskedCheck
<1> QED
  BY <1>1, ToldAll DEF Undelivered

\* No event loop runs between two operations.
LEMMA ControlKept ==
    ASSUME Types, Control, FEStep
    PROVE  Control'
<1>1. ASSUME loop' = loop, op' = op, stage' = stage PROVE Control'
  BY <1>1 DEF Control
<1>2. CASE \E c \in Agents : FEHandleMessage(c)
  BY <1>1, <1>2 DEF FEHandleMessage, ctlVars
<1>3. CASE FEHandleStep
  BY <1>1, <1>3 DEF FEHandleStep, ctlVars
<1>4. CASE FETimeout
  BY <1>1, <1>4 DEF FETimeout, loopVars, ctlVars
<1>5. CASE FEQuitFinished
  BY <1>1, <1>5 DEF FEQuitFinished, ctlVars
<1>6. CASE FERestart
  BY <1>6 DEF FERestart, BeginRestart, EnterLoop, Control
<1>7. CASE FERerun
  BY <1>7 DEF FERerun, EnterLoop, Control
<1>8. CASE FEResults
  BY <1>8 DEF FEResults, EnterLoop, Finished, Control
<1>9. CASE FECalltreeDone
  BY <1>9 DEF FECalltreeDone, Finished, Control
<1>10. CASE FEPhaseAgain
  BY <1>10 DEF FEPhaseAgain, EnterLoop, Control
<1>11. CASE FERestartDone
  BY <1>11 DEF FERestartDone, EnterLoop, Control
<1>12. CASE FESearchEnded
  BY <1>12 DEF FESearchEnded, BeginRestart, EnterLoop, Finished, Control
<1>13. CASE FEBegin("analysis") \/ FEBegin("phase")
  BY <1>13 DEF FEBegin, EnterLoop, Control
<1>14. CASE FEConsiderRestart
  BY <1>14 DEF FEConsiderRestart, BeginRestart, EnterLoop, Control
<1>15. CASE FEFinalize
  BY <1>15 DEF FEFinalize, loopVars, Control
<1> QED
  BY <1>2, <1>3, <1>4, <1>5, <1>6, <1>7, <1>8, <1>9, <1>10, <1>11, <1>12, <1>13, <1>14, <1>15 DEF FEStep

\* What it does without a message, while no wave is out.
LEMMA FEOwnKeeps ==
    ASSUME Inv, Types', Control',
           \/ FEHandleStep \/ FETimeout \/ FEQuitFinished
           \/ FERestart \/ FERerun \/ FEResults \/ FECalltreeDone \/ FEPhaseAgain
           \/ FERestartDone \/ FESearchEnded
           \/ FEBegin("analysis") \/ FEBegin("phase") \/ FEConsiderRestart
           \/ FEFinalize
    PROVE  Inv'
<1>1. PICK B \in SUBSET Agents, C \in SUBSET Agents, T \in SUBSET Agents, K \in SUBSET Agents :
         Going(B, C, T) /\ Undelivered(B, K)
  BY DEF Inv
<1>2. PICK L \in SUBSET Agents, R \in SUBSET Agents : Late(L, R)
  BY DEF Inv
<1>3. SearchWave(B) /\ CheckWave(C) /\ TreeWave(T) /\ Phases(B, C, T)
  BY <1>1 DEF Going
<1>4. SameBelow /\ (FEQuiet \/ FEAsksSearch \/ FEAsksTree)
  BY FEOwnKinds DEF Inv
<1>5. up' = up /\ ~Waiting /\ ~TreeAwaited
  BY <1>4 DEF FEQuiet, FEAsksSearch, FEAsksTree
<1>6. ~SearchOut(B) /\ ~CheckOut(C) /\ ~TreeOut(T)
  BY <1>3, <1>5 DEF Phases
<1>7. AskedSearch = {} /\ \A a \in AAs : ~started[a]
  BY <1>3, <1>6, SearchOver
<1>8. /\ \A U : Stays(up, up', U)
      /\ In(up', {"foundprop"}) \subseteq In(up, {"foundprop"}) /\ (PropsOrdered => PropsOrdered')
  BY <1>5, UpStays DEF PropsOrdered
<1>9. Stays(down, down', Searches) => SearchWave(B)' /\ ~SearchOut(B)'
  BY <1>3, <1>4, <1>6, <1>8, SearchKept
<1>10. Stays(down, down', {"check"}) =>
          /\ CheckWave(C)' /\ ~CheckOut(C)'
          /\ \A B2 : \E K2 \in SUBSET Agents : Undelivered(B2, K2)'
  <2>1. Stays(down, down', {"check"}) => CheckWave(C)' /\ ~CheckOut(C)'
    BY <1>3, <1>4, <1>6, <1>8, CheckKept
  <2>2. ASSUME Stays(down, down', {"check"}), NEW B2 PROVE Undelivered(B2, K)'
    BY <1>1, <1>4, <1>6, <2>2, UndeliveredKept
  <2> QED
    BY <2>1, <2>2
<1>11. Stays(down, down', {"serializecalltree"}) => TreeWave(T)' /\ ~TreeOut(T)'
  BY <1>3, <1>6, <1>8, TreeKept
<1>12. ASSUME NEW S, FESends(S) PROVE \A U : S \cap U = {} => Stays(down, down', U)
  BY <1>12, FEWrites
<1>13. CASE FEQuiet
  <2>1. Stays(down, down', Searches) /\ Stays(down, down', {"check"}) /\ Stays(down, down', {"serializecalltree"})
    <3>1. CASE down' = down
      BY <3>1, DownStays
    <3>2. CASE FESends({"terminate", "quit"})
      BY <1>12, <3>2 DEF Searches
    <3>3. CASE FESends({"reinit"})
      BY <1>12, <3>3 DEF Searches
    <3> QED
      BY <1>13, <3>1, <3>2, <3>3 DEF FEQuiet
  <2>2. Going(B, C, T)'
    BY <1>9, <1>10, <1>11, <2>1 DEF Going, Phases
  <2>3. \E L2, R2 \in SUBSET Agents : Late(L2, R2)'
    <3>1. CASE down' = down /\ run' = run
      <4>1. Late(L, R)'
        BY <1>2, <1>4, <3>1, LateKept
      <4> QED
        BY <4>1
    <3>2. CASE (FESends({"terminate", "quit"}) /\ run' = run) \/ FESends({"reinit"})
      BY <1>2, <1>4, <1>7, <3>2, LateSent
    <3> QED
      BY <1>13, <3>1, <3>2 DEF FEQuiet
  <2>4. \E K2 \in SUBSET Agents : Undelivered(B, K2)'
    BY <1>10, <2>1
  <2> QED
    BY <2>2, <2>3, <2>4 DEF Inv
<1>14. CASE FEAsksSearch
  <2>1. /\ FESends(Searches) /\ run' = run /\ Waiting'
        /\ \A c \in Children(FE) : ~info'[c].properties_sent
    BY <1>14 DEF FEAsksSearch
  <2>2. Stays(down, down', {"check"}) /\ Stays(down, down', {"serializecalltree"}) /\ Searches \cap Controls = {}
    BY <1>12, <2>1 DEF Searches, Controls
  <2>3. SearchWave({})'
    BY <1>3, <1>4, <1>6, <1>8, <2>1, SearchSent
  <2>4. Going({}, C, T)'
    BY <1>10, <1>11, <2>1, <2>2, <2>3 DEF Going, Phases
  <2>5. Late(L, R)'
    BY <1>2, <1>4, <2>1, <2>2, LateKept
  <2>6. \E K2 \in SUBSET Agents : Undelivered({}, K2)'
    BY <1>10, <2>2
  <2>7. {} \in SUBSET Agents
    OBVIOUS
  <2> QED
    BY <2>4, <2>5, <2>6, <2>7 DEF Inv
<1>15. CASE FEAsksTree
  <2>1. FESends({"serializecalltree"}) /\ run' = run /\ TreeAwaited'
    BY <1>15 DEF FEAsksTree
  <2>2. Stays(down, down', {"check"}) /\ Stays(down, down', Searches) /\ {"serializecalltree"} \cap Controls = {}
    BY <1>12, <2>1 DEF Searches, Controls
  <2>3. TreeWave({})'
    BY <1>3, <1>6, <1>8, <2>1, TreeSent
  <2>4. Going(B, C, {})'
    BY <1>9, <1>10, <2>1, <2>2, <2>3 DEF Going, Phases
  <2>5. Late(L, R)'
    BY <1>2, <1>4, <2>1, <2>2, LateKept
  <2>6. \E K2 \in SUBSET Agents : Undelivered(B, K2)'
    BY <1>10, <2>2
  <2>7. {} \in SUBSET Agents
    OBVIOUS
  <2> QED
    BY <2>4, <2>5, <2>6, <2>7 DEF Inv
<1> QED
  BY <1>4, <1>13, <1>14, <1>15

\* It reads a message of its child.
LEMMA FEMessageKeeps ==
    ASSUME Inv, Types', Control', NEW c \in Agents, FEHandleMessage(c)
    PROVE  Inv'
<1>1. PICK B \in SUBSET Agents, C \in SUBSET Agents, T \in SUBSET Agents, K \in SUBSET Agents :
         Going(B, C, T) /\ Undelivered(B, K)
  BY DEF Inv
<1>2. PICK L \in SUBSET Agents, R \in SUBSET Agents : Late(L, R)
  BY DEF Inv
<1>3. SearchWave(B) /\ CheckWave(C) /\ TreeWave(T) /\ Phases(B, C, T)
  BY <1>1 DEF Going
<1>4. /\ c \in Children(FE) /\ up[c] # <<>> /\ Read(up, up', c) /\ SameBelow /\ run' = run
      /\ FEReadsPlain(c) \/ FEReadsSearch(c) \/ FEReadsCheck(c) \/ FEReadsTree(c)
  BY FEMessageKinds DEF Inv
<1>5. /\ \A U : Head(up[c]).type \notin U => Stays(up, up', U)
      /\ \A U : Head(up[c]).type \in U => Taken(up, up', c, U)
  BY <1>4, UpRead
<1>6. /\ In(up', {"foundprop"}) \subseteq In(up, {"foundprop"}) /\ (PropsOrdered => PropsOrdered')
      /\ PropsOrdered /\ Head(up[c]).type = "propertiessent" => c \notin In(up, {"foundprop"})
  BY <1>4 DEF Read, PropsOrdered
<1>7. /\ down' = down => \A U : Stays(down, down', U)
      /\ \A S : FESends(S) => \A U : S \cap U = {} => Stays(down, down', U)
  BY DownStays, FEWrites
<1>8. Stays(down, down', Searches) /\ Head(up[c]).type \notin SearchRequests
        => SearchWave(B)' /\ (SearchOut(B)' <=> SearchOut(B))
  BY <1>3, <1>4, <1>5, SearchKept
<1>9. Stays(down, down', {"check"}) /\ Head(up[c]).type # "propertiessent"
        => CheckWave(C)' /\ (CheckOut(C)' <=> CheckOut(C))
  <2> SUFFICES ASSUME Stays(down, down', {"check"}), Head(up[c]).type \notin {"propertiessent"}
               PROVE  CheckWave(C)' /\ (CheckOut(C)' <=> CheckOut(C))
    OBVIOUS
  <2> QED
    BY <1>3, <1>4, <1>5, <1>6, CheckKept
<1>10. Stays(down, down', {"serializecalltree"}) /\ Head(up[c]).type # "calltreesent"
        => TreeWave(T)' /\ (TreeOut(T)' <=> TreeOut(T))
  <2> SUFFICES ASSUME Stays(down, down', {"serializecalltree"}), Head(up[c]).type \notin {"calltreesent"}
               PROVE  TreeWave(T)' /\ (TreeOut(T)' <=> TreeOut(T))
    OBVIOUS
  <2> QED
    BY <1>3, <1>5, TreeKept
<1>11. {} \in SUBSET Agents
  OBVIOUS
<1>12. CASE FEReadsPlain(c)
  <2>1. /\ Head(up[c]).type \notin Answers \ {"foundprop"} /\ down' = down
        /\ (Waiting' <=> Waiting) /\ (TreeAwaited' <=> TreeAwaited)
        /\ \A n \in Children(FE) : info'[n].properties_sent => info[n].properties_sent
    BY <1>12 DEF FEReadsPlain
  <2>2. /\ Head(up[c]).type \notin SearchRequests /\ Head(up[c]).type # "propertiessent"
        /\ Head(up[c]).type # "calltreesent"
    BY <2>1, AnswerFacts
  <2>3. Going(B, C, T)'
    BY <1>3, <1>7, <1>8, <1>9, <1>10, <2>1, <2>2 DEF Going, Phases
  <2>4. Late(L, R)'
    BY <1>2, <1>4, <2>1, LateKept
  <2>5. Undelivered(B, K)'
    BY <1>1, <1>4, <1>7, <1>8, <2>1, <2>2, UndeliveredKept
  <2> QED
    BY <2>3, <2>4, <2>5 DEF Inv
<1>13. CASE FEReadsSearch(c)
  <2>1. /\ Head(up[c]).type \in SearchRequests
        /\ Head(up[c]).type # "propertiessent" /\ Head(up[c]).type # "calltreesent"
    BY <1>13, AnswerFacts DEF FEReadsSearch
  <2>2. SearchOut(B)
    BY <1>4, <1>5, <2>1 DEF Taken, ToldSearch, SearchOut, Out
  <2>3. Waiting /\ ~CheckOut(C) /\ ~info[c].properties_sent
    BY <1>3, <1>4, <2>2 DEF Phases
  <2>4. FESends({"check"}) /\ (Waiting' <=> Waiting) /\ (TreeAwaited' <=> TreeAwaited)
    BY <1>13, <2>3 DEF FEReadsSearch
  <2>5. Stays(down, down', Searches) /\ Stays(down, down', {"serializecalltree"}) /\ {"check"} \cap Controls = {}
    BY <1>7, <2>4 DEF Searches, Controls
  <2>6. SearchWave({})' /\ ~SearchOut({})'
    BY <1>3, <1>4, <1>5, <2>1, <2>5, SearchAnswered
  <2>7. CheckWave({})'
    <3>1. Stays(up, up', {"propertiessent"})
      BY <1>5, <2>1
    <3> QED
      BY <1>3, <1>4, <1>6, <2>3, <2>4, <3>1, CheckSent
  <2>8. Going({}, {}, T)'
    BY <1>3, <1>10, <2>1, <2>3, <2>4, <2>5, <2>6, <2>7 DEF Going, Phases
  <2>9. Late(L, R)'
    BY <1>2, <1>4, <2>4, <2>5, LateKept
  <2>10. Undelivered({}, Agents)'
    BY <2>4, UndeliveredSent
  <2> QED
    BY <1>11, <2>8, <2>9, <2>10 DEF Inv
<1>14. CASE FEReadsCheck(c)
  <2>1. /\ Head(up[c]).type = "propertiessent"
        /\ Head(up[c]).type \notin SearchRequests /\ Head(up[c]).type # "calltreesent"
    BY <1>14, AnswerFacts DEF FEReadsCheck
  <2>2. CheckOut(C)
    BY <1>4, <1>5, <2>1 DEF Taken, ToldCheck, CheckOut, Out
  <2>3. Waiting /\ ~SearchOut(B) /\ ~TreeOut(T)
    BY <1>3, <2>2 DEF Phases, Waiting, TreeAwaited
  <2>4. AskedSearch = {} /\ \A a \in AAs : ~started[a]
    BY <1>3, <2>3, SearchOver
  <2>5. Stays(down, down', {"check"}) => CheckWave({})' /\ ~CheckOut({})'
    BY <1>3, <1>4, <1>5, <1>6, <2>1, CheckAnswered
  <2>6. CASE \/ down' = down
             \/ FESends({"quit"})
    <3>1. Stays(down, down', Searches) /\ Stays(down, down', {"check"}) /\ Stays(down, down', {"serializecalltree"})
      BY <1>7, <2>6 DEF Searches
    <3>2. Going(B, {}, T)'
      BY <1>8, <1>10, <2>1, <2>3, <2>5, <3>1 DEF Going, Phases
    <3>3. \E L2, R2 \in SUBSET Agents : Late(L2, R2)'
      <4>1. CASE down' = down
        <5>1. Late(L, R)'
          BY <1>2, <1>4, <4>1, LateKept
        <5> QED
          BY <5>1
      <4>2. CASE FESends({"quit"})
        BY <1>2, <1>4, <2>4, <4>2, LateSent
      <4> QED
        BY <2>6, <4>1, <4>2
    <3>4. Undelivered(B, K)'
      BY <1>1, <1>4, <2>3, <3>1, UndeliveredKept
    <3> QED
      BY <1>11, <3>2, <3>3, <3>4 DEF Inv
  <2>7. CASE /\ FESends(Searches)
             /\ Waiting' <=> Waiting
             /\ \A n \in Children(FE) : ~info'[n].properties_sent
    <3>1. Stays(down, down', {"check"}) /\ Stays(down, down', {"serializecalltree"}) /\ Searches \cap Controls = {}
      BY <1>7, <2>7 DEF Searches, Controls
    <3>2. SearchWave({})'
      <4>1. Stays(up, up', SearchRequests)
        BY <1>5, <2>1
      <4> QED
        BY <1>3, <1>4, <2>3, <2>7, <4>1, SearchSent
    <3>3. Going({}, {}, T)'
      BY <1>10, <2>1, <2>3, <2>5, <2>7, <3>1, <3>2 DEF Going, Phases
    <3>4. Late(L, R)'
      BY <1>2, <1>4, <2>7, <3>1, LateKept
    <3>5. Undelivered({}, K)'
      BY <1>1, <1>4, <2>3, <3>1, UndeliveredKept
    <3> QED
      BY <1>11, <3>3, <3>4, <3>5 DEF Inv
  <2> QED
    BY <1>14, <2>6, <2>7 DEF FEReadsCheck
<1>15. CASE FEReadsTree(c)
  <2>1. /\ Head(up[c]).type = "calltreesent" /\ down' = down
        /\ Head(up[c]).type \notin SearchRequests /\ Head(up[c]).type # "propertiessent"
    BY <1>15, AnswerFacts DEF FEReadsTree
  <2>2. TreeOut(T)
    BY <1>4, <1>5, <2>1 DEF Taken, ToldTree, TreeOut, Out
  <2>3. ~SearchOut(B) /\ ~CheckOut(C)
    BY <1>3, <2>2 DEF Phases, Waiting, TreeAwaited
  <2>4. \A U : Stays(down, down', U)
    BY <1>7, <2>1
  <2>5. TreeWave({})' /\ ~TreeOut({})'
    BY <1>3, <1>4, <1>5, <2>1, <2>4, TreeAnswered
  <2>6. Going(B, C, {})'
    BY <1>8, <1>9, <2>1, <2>3, <2>4, <2>5 DEF Going, Phases
  <2>7. Late(L, R)'
    BY <1>2, <1>4, <2>1, LateKept
  <2>8. Undelivered(B, K)'
    BY <1>1, <1>4, <2>3, <2>4, UndeliveredKept
  <2> QED
    BY <1>11, <2>6, <2>7, <2>8 DEF Inv
<1> QED
  BY <1>4, <1>12, <1>13, <1>14, <1>15

-----------------------------------------------------------------------------
(* The theorems.                                                           *)

\* Either no call-trees are gathered, or no agent has two children: with more,
\* the first calltreesent to arrive is passed on before the others have come.
NoRace == ~Rts \/ Chain

LEMMA InitInv == Init => Inv
<1> SUFFICES ASSUME Init PROVE Inv
  OBVIOUS
<1>1. Types
  BY InitTypes
<1>2. Control
  BY DEF Init, Control
<1>3. PICK flags \in [Agents -> BOOLEAN] : info = [n \in Agents |-> InitInfo(flags[n])]
  BY DEF Init, TreeInit
<1>4. \A U : In(down, U) = {} /\ In(up, U) = {} /\ Single(down, U) /\ Single(up, U)
  <2>1. \A n \in Agents : down[n] = <<>> /\ up[n] = <<>>
    BY DEF Init, TreeInit
  <2> QED
    BY <2>1, EmptyFacts DEF In, Single, One
<1>5. \A U, V : Ordered(down, U, V) /\ Ordered(up, U, V)
  <2>1. \A n \in Agents : down[n] = <<>> /\ up[n] = <<>>
    BY DEF Init, TreeInit
  <2> QED
    BY <2>1, EmptyFacts DEF Ordered, Behind
<1>6. \A G : (\A n \in Agents : Parent[n] # FE => n \notin G) => Wave({}, {}, {}, G)
  BY NoWave
<1>7. SearchWave({}) /\ ~SearchOut({})
  <2>1. Wave({}, {}, {}, Reported)
    <3>1. \A n \in Agents : n \notin Reported
      BY <1>3 DEF Reported, InitInfo
    <3> QED
      BY <1>6, <3>1
  <2>2. \A a \in AAs : ~started[a]
    BY DEF Init, AAInit
  <2>3. AskedSearch = {} /\ ToldSearch = {}
    BY <1>4 DEF AskedSearch, ToldSearch
  <2> QED
    BY <1>4, <2>1, <2>2, <2>3 DEF SearchWave, SearchOut, Out
<1>8. CheckWave({}) /\ ~CheckOut({})
  <2>1. Delivered({}) = {} /\ AskedCheck = {} /\ ToldCheck = {}
    BY <1>4 DEF Delivered, AskedCheck, ToldCheck
  <2>2. Wave({}, {}, {}, {})
    <3> DEFINE G == {}
    <3>1. \A n \in Agents : Parent[n] # FE => n \notin G
      OBVIOUS
    <3> HIDE DEF G
    <3>2. Wave({}, {}, {}, G)
      BY <1>6, <3>1
    <3> QED
      BY <3>2 DEF G
  <2>3. \A h \in HLAs : properties[h] = {}
    BY DEF Init, HLAInit
  <2> QED
    BY <1>4, <1>5, <2>1, <2>2, <2>3 DEF CheckWave, CheckOut, Out
<1>9. TreeWave({}) /\ ~TreeOut({})
  <2>1. AskedTree = {} /\ ToldTree = {}
    BY <1>4 DEF AskedTree, ToldTree
  <2>2. Wave({}, {}, {}, {})
    <3> DEFINE G == {}
    <3>1. \A n \in Agents : Parent[n] # FE => n \notin G
      OBVIOUS
    <3> HIDE DEF G
    <3>2. Wave({}, {}, {}, G)
      BY <1>6, <3>1
    <3> QED
      BY <3>2 DEF G
  <2> QED
    BY <1>4, <2>1, <2>2 DEF TreeWave, TreeOut, Out
<1>10. Going({}, {}, {})
  BY <1>7, <1>8, <1>9 DEF Going, Phases
<1>11. Undelivered({}, {})
  <2>1. AskedCheck = {} /\ \A a \in AAs : found[a] = <<>>
    BY <1>4 DEF Init, AAInit, AskedCheck
  <2> QED
    BY <2>1 DEF Undelivered, Told
<1>12. Late({}, {})
  <2>1. \A a \in AAs : attached[a] = run /\ ~started[a]
    BY DEF Init, AAInit
  <2>2. Told({}, {})
    BY DEF Told
  <2> QED
    BY <1>4, <1>5, <2>1, <2>2 DEF Late, AskedSearch
<1>13. {} \in SUBSET Agents
  OBVIOUS
<1> QED
  BY <1>1, <1>2, <1>10, <1>11, <1>12, <1>13 DEF Inv

LEMMA StepInv == Inv /\ NoRace /\ [Next]_vars => Inv'
<1> SUFFICES ASSUME Inv, NoRace, [Next]_vars PROVE Inv'
  OBVIOUS
<1>1. Types' /\ Types /\ Control
  BY StepTypes DEF Inv
<1>2. CASE FEStep
  <2>1. Control'
    BY <1>1, <1>2, ControlKept
  <2> QED
    BY <1>1, <1>2, <2>1, FEOwnKeeps, FEMessageKeeps DEF FEStep
<1>3. CASE \E n \in Agents : AgentStep(n)
  BY <1>1, <1>3, AgentKeeps DEF NoRace
<1>4. CASE UNCHANGED vars
  <2>1. /\ UNCHANGED <<down, up, info, started, attached, found, run, properties>>
        /\ UNCHANGED <<op, stage, loop, ended, timerOn, quitting>>
    BY <1>4 DEF vars, treeVars, aaVars, appVars, hlaVars, feVars, loopVars, ctlVars, decVars
  <2>2. \A B \in SUBSET Agents : SearchWave(B) => SearchWave(B)' /\ (SearchOut(B)' <=> SearchOut(B))
    BY <2>1 DEF SearchWave, SearchOut, Out, AskedSearch, ToldSearch, Reported
  <2>3. \A C \in SUBSET Agents : CheckWave(C) => CheckWave(C)' /\ (CheckOut(C)' <=> CheckOut(C))
    BY <2>1 DEF CheckWave, CheckOut, Out, AskedCheck, ToldCheck, Delivered
  <2>4. \A T \in SUBSET Agents : TreeWave(T) => TreeWave(T)' /\ (TreeOut(T)' <=> TreeOut(T))
    BY <2>1 DEF TreeWave, TreeOut, Out, AskedTree, ToldTree
  <2>5. \A L, R \in SUBSET Agents : Late(L, R) => Late(L, R)'
    BY <2>1 DEF Late, AskedSearch
  <2>6. \A B, K \in SUBSET Agents : Undelivered(B, K) => Undelivered(B, K)'
    BY <2>1 DEF Undelivered, AskedCheck, SearchOut, Out, AskedSearch, ToldSearch
  <2>7. Control' /\ (Waiting' <=> Waiting) /\ (TreeAwaited' <=> TreeAwaited)
    BY <1>1, <2>1 DEF Control, Waiting, TreeAwaited
  <2>8. \A B, C, T \in SUBSET Agents : Going(B, C, T) => Going(B, C, T)'
    BY <2>1, <2>2, <2>3, <2>4, <2>7 DEF Going, Phases
  <2> QED
    BY <1>1, <2>5, <2>6, <2>7, <2>8 DEF Inv
<1> QED
  BY <1>2, <1>3, <1>4 DEF Next

\* At most one wave of requests and answers is in the tree, and while it is the
\* frontend is in the event loop that waits for it; no request to search gets
\* past one to terminate, to re-initialise or to quit.
THEOREM WavesCorrect == NoRace /\ Spec => []Inv
<1>1. Init => Inv
  BY InitInv
<1>2. Inv /\ NoRace /\ [Next]_vars => Inv'
  BY StepInv
<1>3. CASE NoRace
  <2>1. Inv /\ [Next]_vars => Inv'
    BY <1>2, <1>3
  <2> QED
    BY <1>1, <2>1, PTL DEF Spec
<1> QED
  BY <1>3

\* While the frontend does not wait for a search nothing of one is left anywhere.
LEMMA NothingGoing ==
    ASSUME Inv, ~Waiting
    PROVE  /\ \A a \in AAs : ~started[a]
           /\ \A n \in Agents : \A i \in DOMAIN down[n] : down[n][i].type \notin WorkRequests
           /\ \A n \in Agents : \A i \in DOMAIN up[n] : up[n][i].type \notin Reports
           /\ Travelling = {}
<1>1. PICK B \in SUBSET Agents, C \in SUBSET Agents, T \in SUBSET Agents, K \in SUBSET Agents :
         Going(B, C, T) /\ Undelivered(B, K)
  BY DEF Inv
<1>2. SearchWave(B) /\ CheckWave(C) /\ ~SearchOut(B) /\ ~CheckOut(C)
  BY <1>1 DEF Going, Phases
<1>3. /\ In(down, Searches) = {} /\ In(up, SearchRequests) = {}
      /\ \A a \in AAs : ~started[a]
  BY <1>2, SearchOver DEF AskedSearch, ToldSearch
<1>4. /\ AskedCheck = {} /\ In(down, {"check"}) = {} /\ In(up, {"propertiessent"}) = {} /\ In(up, {"foundprop"}) = {}
      /\ \A h \in HLAs : properties[h] = {}
  BY <1>2, CheckOver DEF AskedCheck, ToldCheck
<1>5. \A n \in Agents : \A i \in DOMAIN down[n] : down[n][i].type \notin WorkRequests
  BY <1>3, <1>4 DEF In, Has, Searches, WorkRequests
<1>6. \A n \in Agents : \A i \in DOMAIN up[n] : up[n][i].type \notin Reports
  BY <1>3, <1>4 DEF In, Has, Reports
<1>7. \A a \in AAs : found[a] = <<>>
  <2>1. Told({}, K)
    BY <1>1, <1>4 DEF Undelivered
  <2>2. K = {}
    BY <2>1, ToldNone
  <2> QED
    BY <1>1, <1>2, <2>2 DEF Undelivered
<1>8. Travelling = {}
  <2>1. \A n \in Agents : PropsIn(up[n]) = {}
    <3>1. \A n \in Agents : {j \in DOMAIN up[n] : up[n][j].type = "foundprop"} = {}
      BY <1>4 DEF In, Has
    <3> QED
      BY <3>1 DEF PropsIn
  <2>2. \A a \in AAs : {found[a][i] : i \in DOMAIN found[a]} = {}
    <3>1. \A a \in AAs : DOMAIN found[a] = {}
      BY <1>7, EmptyFacts
    <3> QED
      BY <3>1
  <2> QED
    BY <1>4, <2>1, <2>2 DEF Travelling
<1> QED
  BY <1>3, <1>5, <1>6, <1>8

\* A round is over, as run_analysis and run_phase_experiments expect when their
\* event loop returns: no experiment, request or report of it is left anywhere,
\* and no property stays behind in an agent.
THEOREM RoundsAreOver == NoRace /\ Spec => []RoundOver
<1>1. Inv => RoundOver
  BY NothingGoing DEF RoundOver, LoopEnded, Waiting
<1> QED
  BY <1>1, WavesCorrect, PTL

-----------------------------------------------------------------------------
(* The runs of the application.                                            *)

\* Processes with an experiment are on their way through the phase region.
Running == \A a \in AAs : started[a] => proc[a] = "working"

\* An agent asked to begin an experiment, or to let go of its processes, has none.
LEMMA NoneStarted ==
    ASSUME Inv, NEW a \in AAs, NEW t \in Searches \cup Controls, HasRequest(a, t)
    PROVE  ~started[a]
<1>1. PICK B \in SUBSET Agents : SearchWave(B)
  BY DEF Inv, Going
<1>2. PICK L \in SUBSET Agents, R \in SUBSET Agents : Late(L, R)
  BY DEF Inv
<1>3. a \in Agents /\ Has(down[a], {t})
  <2>1. a \in Agents /\ down[a] \in Seq(DownMsgs) /\ down[a] # <<>> /\ Head(down[a]).type \in {t}
    BY TreeFacts DEF Inv, Types, StreamTypes, HasRequest
  <2> QED
    BY <2>1, ReadFacts
<1>4. CASE t \in Searches
  <2>1. a \in AskedSearch
    BY <1>3, <1>4, HasFacts DEF AskedSearch, In
  <2> QED
    BY <1>1, <2>1 DEF SearchWave, Wave
<1>5. CASE t \in Controls
  <2>1. a \in In(down, Controls)
    BY <1>3, <1>5, HasFacts DEF In
  <2> QED
    BY <1>2, <1>3, <2>1 DEF Late, Told
<1> QED
  BY <1>4, <1>5

LEMMA RunningMoved ==
    ASSUME Inv, Running, NEW a \in AAs, AAStep(a)
    PROVE  Running'
<1>0. proc \in [AAs -> ProcState] /\ started \in [AAs -> BOOLEAN]
  BY DEF Inv, Types, AATypes
<1>1. \A t \in Searches \cup Controls : HasRequest(a, t) => ~started[a]
  BY NoneStarted
<1>2. ASSUME proc' = proc, started' = started PROVE Running'
  BY <1>2 DEF Running
<1>3. ASSUME NEW s, proc' = [proc EXCEPT ![a] = s], started' = started, ~started[a] PROVE Running'
  BY <1>0, <1>3 DEF Running
<1>4. ASSUME StartExperiment(a) PROVE Running'
  BY <1>0, <1>4 DEF Running, StartExperiment
<1>5. ASSUME NEW s, proc' = [proc EXCEPT ![a] = s], started' = [started EXCEPT ![a] = FALSE] PROVE Running'
  BY <1>0, <1>5 DEF Running
<1>6. CASE AARun(a)
  BY <1>2, <1>6 DEF AARun, aaVars
<1>7. CASE AAOnStart(a)
  <2>1. ~started[a]
    BY <1>1, <1>7 DEF AAOnStart, Searches
  <2> QED
    BY <1>3, <1>4, <1>7, <2>1 DEF AAOnStart
<1>8. CASE AAOnStartExperiment(a)
  BY <1>2, <1>4, <1>8 DEF AAOnStartExperiment
<1>9. CASE AAOnTerminate(a)
  <2>1. ~started[a]
    BY <1>1, <1>9 DEF AAOnTerminate, Controls
  <2> QED
    BY <1>3, <1>9, <2>1 DEF AAOnTerminate
<1>10. CASE AAOnQuit(a)
  <2>1. ~started[a]
    BY <1>1, <1>10 DEF AAOnQuit, Controls
  <2> QED
    BY <1>3, <1>10, <2>1 DEF AAOnQuit
<1>11. CASE AAOnCheck(a) \/ AAOnSerializeCalltree(a)
  BY <1>2, <1>11 DEF AAOnCheck, AAOnSerializeCalltree
<1>12. CASE AAOnReinit(a)
  <2>1. ~started[a]
    BY <1>1, <1>12 DEF AAOnReinit, Controls
  <2> QED
    BY <1>3, <1>12, <2>1 DEF AAOnReinit
<1>13. CASE AAEvaluate(a)
  <2>1. /\ started' = [started EXCEPT ![a] = FALSE]
        /\ \E s : proc' = [proc EXCEPT ![a] = s]
    BY <1>13 DEF AAEvaluate
  <2> QED
    BY <1>5, <2>1
<1> QED
  BY <1>6, <1>7, <1>8, <1>9, <1>10, <1>11, <1>12, <1>13 DEF AAStep, AAHandleRequest

\* What the steps of the frontend leave to the agents.
LEMMA FELeaves ==
    ASSUME FEStep
    PROVE  UNCHANGED aaVars
<1>1. CASE \E c \in Agents : FEHandleMessage(c)
  BY <1>1 DEF FEHandleMessage
<1> QED
  BY <1>1 DEF FEStep, FEHandleStep, FETimeout, FEQuitFinished, FERestart, FERerun, FEResults, FECalltreeDone,
              FEPhaseAgain, FERestartDone, FESearchEnded, FEBegin, FEConsiderRestart, FEFinalize

LEMMA RunningStep == Inv /\ Running /\ [Next]_vars => Running'
<1> SUFFICES ASSUME Inv, Running, [Next]_vars PROVE Running'
  OBVIOUS
<1>1. ASSUME UNCHANGED aaVars PROVE Running'
  BY <1>1 DEF Running, aaVars
<1>2. CASE FEStep
  BY <1>1, <1>2, FELeaves
<1>3. ASSUME NEW n \in Agents, AgentStep(n) PROVE Running'
  BY <1>1, <1>3, RunningMoved DEF AgentStep
<1>4. CASE UNCHANGED vars
  BY <1>1, <1>4 DEF vars
<1> QED
  BY <1>2, <1>3, <1>4 DEF Next

\* An agent that is not to let go of its processes has those of the current run.
LEMMA OnCurrentRun ==
    ASSUME Inv, NEW a \in AAs, started[a]
    PROVE  attached[a] = run
<1>1. PICK L \in SUBSET Agents, R \in SUBSET Agents : Late(L, R)
  BY DEF Inv
<1>2. a \in Agents /\ a \notin L
  BY <1>1, TreeFacts DEF Late
<1> DEFINE S == {n \in R : n \notin L}
<1>3. S = {}
  <2> SUFFICES ASSUME S # {} PROVE FALSE
    OBVIOUS
  <2>1. PICK n \in S : Parent[n] \notin S
    <3>1. S \in SUBSET Agents
      OBVIOUS
    <3> HIDE DEF S
    <3> QED
      BY <3>1, TopmostExists
  <2>2. n \in In(down, {"reinit"}) \/ Parent[n] \in L
    BY <1>1, <2>1 DEF Late, Told
  <2>3. In(down, {"reinit"}) \subseteq In(down, Controls)
    BY HasFacts DEF In, Controls
  <2> QED
    BY <1>1, <2>1, <2>2, <2>3 DEF Late, Told
<1> QED
  BY <1>1, <1>2, <1>3 DEF Late

\* An agent has an experiment running only on processes of the current run of
\* the application: none begins before the agent has read the "reinit" of
\* rerunApplication, though the frontend sends the next phase right behind it.
THEOREM ExperimentsAreOnCurrentRun == NoRace /\ Spec => []ExperimentsOnCurrentRun
<1>1. Init => Inv /\ Running
  BY InitInv DEF Init, AAInit, Running
<1>2. Inv /\ Running /\ NoRace /\ [Next]_vars => (Inv /\ Running)'
  BY StepInv, RunningStep
<1>3. Inv /\ Running => ExperimentsOnCurrentRun
  BY OnCurrentRun DEF Running, ExperimentsOnCurrentRun
<1>4. CASE NoRace
  <2>1. Inv /\ Running /\ [Next]_vars => (Inv /\ Running)'
    BY <1>2, <1>4
  <2> QED
    BY <1>1, <1>3, <2>1, PTL DEF Spec
<1> QED
  BY <1>4

-----------------------------------------------------------------------------
(* The restart of the application.                                         *)

\* Who may ask for a restart, and that none who does has begun to quit.
Modes ==
    /\ Tuning => op # "search" /\ ~shutdown_allowed /\ (quit_fe => op = "final")
    /\ ~Tuning => op \in {"search", "none", "final"}

Terminating ==
    /\ quitting => quit_fe
    /\ stage = "terminating" => /\ ~quit_fe /\ loop = "APPLICATION_TERMINATION"
                                /\ ended => registry = {}

\* Until the frontend quits, and may clean the registry, processes that have not
\* terminated are registered, and those an agent has not yet connected to are.
Registered ==
    ~quit_fe => \A a \in AAs : /\ proc[a] # "terminated" => <<a, attached[a]>> \in registry
                               /\ attached[a] # run => <<a, run>> \in registry

\* The agents of R are still to be re-initialised, once, and of the analysis
\* agents these are the ones with an old run.
Reattach(R) ==
    /\ Told(In(down, {"reinit"}), R) /\ Single(down, {"reinit"})
    /\ \A n \in In(down, {"reinit"}) : Parent[n] \notin R
    /\ \A a \in AAs : a \in R <=> attached[a] # run

Restarting == Modes /\ Terminating /\ Registered /\ \E R \in SUBSET Agents : Reattach(R)

LEMMA ReattachMoved ==
    ASSUME Types, NEW n \in Agents, NEW R \in SUBSET Agents, Reattach(R), run' = run,
           \/ Stays(down, down', {"reinit"}) /\ attached' = attached
           \/ n \in AAs /\ Taken(down, down', n, {"reinit"}) /\ attached' = [attached EXCEPT ![n] = run]
           \/ n \in HLAs /\ Spread(down, down', n, {"reinit"}) /\ attached' = attached
    PROVE  \E R2 \in SUBSET Agents : Reattach(R2)'
<1> DEFINE I == In(down, {"reinit"})
           J == In(down', {"reinit"})
<1>0. /\ AAs \subseteq Agents /\ \A a \in AAs : a \notin HLAs
      /\ \A k \in Agents : Parent[k] # k /\ \A h : k \in Children(h) <=> Parent[k] = h
      /\ \A h : Children(h) \subseteq Agents
      /\ \A a \in AAs : Children(a) = {}
      /\ DOMAIN attached = AAs
  BY TreeFacts DEF Types, NumberTypes, AAs
<1>1. /\ Told(I, R) /\ Single(down, {"reinit"}) /\ I \subseteq R
      /\ \A k \in I : Parent[k] \notin R
      /\ \A a \in AAs : a \in R <=> attached[a] # run
  <2>1. Told(I, R) /\ I \subseteq Agents
    BY DEF Reattach, In
  <2>2. I \subseteq R
    BY <2>1 DEF Told
  <2> QED
    BY <2>1, <2>2 DEF Reattach
<1>2. \A R2 \in SUBSET Agents :
         /\ Told(J, R2) /\ Single(down', {"reinit"})
         /\ \A k \in J : Parent[k] \notin R2
         /\ \A a \in AAs : a \in R2 <=> attached'[a] # run
         => Reattach(R2)'
  BY DEF Reattach
<1>3. R \ {n} \in SUBSET Agents
  OBVIOUS
<1>4. CASE Stays(down, down', {"reinit"}) /\ attached' = attached
  <2>1. J = I /\ Single(down', {"reinit"})
    BY <1>1, <1>4 DEF Stays
  <2> HIDE DEF I, J
  <2> QED
    BY <1>1, <1>2, <1>4, <2>1
<1>5. CASE n \in AAs /\ Taken(down, down', n, {"reinit"}) /\ attached' = [attached EXCEPT ![n] = run]
  <2>1. n \in I /\ J = I \ {n} /\ Single(down', {"reinit"})
    BY <1>1, <1>5 DEF Taken
  <2> HIDE DEF I, J
  <2>2. Told(J, R \ {n})
    BY <1>0, <1>1, <1>5, <2>1 DEF Told
  <2>3. \A a \in AAs : a \in R \ {n} <=> attached'[a] # run
    BY <1>0, <1>1, <1>5
  <2> QED
    BY <1>1, <1>2, <1>3, <2>1, <2>2, <2>3
<1>6. CASE n \in HLAs /\ Spread(down, down', n, {"reinit"}) /\ attached' = attached
  <2>1. /\ n \in I /\ J = (I \ {n}) \cup Children(n)
        /\ Children(n) \cap I = {} => Single(down', {"reinit"})
    BY <1>1, <1>6 DEF Spread
  <2> HIDE DEF I, J
  <2>2. Children(n) \cap I = {}
    BY <1>0, <1>1, <2>1
  <2>3. Told(J, R \ {n})
    <3> SUFFICES ASSUME NEW k \in Agents PROVE k \in R \ {n} <=> k \in J \/ Parent[k] \in R \ {n}
      BY DEF Told
    <3>1. k \in R <=> k \in I \/ Parent[k] \in R
      BY <1>1 DEF Told
    <3>2. CASE k = n
      BY <1>0, <1>1, <2>1, <3>2
    <3>3. CASE k # n /\ Parent[k] = n
      BY <1>0, <1>1, <2>1, <3>1, <3>3
    <3>4. CASE k # n /\ Parent[k] # n
      BY <1>0, <2>1, <3>1, <3>4
    <3> QED
      BY <3>2, <3>3, <3>4
  <2>4. \A k \in J : Parent[k] \notin R \ {n}
    BY <1>0, <1>1, <2>1
  <2>5. \A a \in AAs : a \in R \ {n} <=> attached'[a] # run
    BY <1>0, <1>1, <1>6
  <2> QED
    BY <1>2, <1>3, <2>1, <2>2, <2>3, <2>4, <2>5
<1> QED
  BY <1>4, <1>5, <1>6

LEMMA AAReattaches ==
    ASSUME Types, NEW a \in AAs, AAStep(a)
    PROVE  /\ run' = run
           /\ \/ Stays(down, down', {"reinit"}) /\ attached' = attached
              \/ Taken(down, down', a, {"reinit"}) /\ attached' = [attached EXCEPT ![a] = run]
<1> a \in Agents
  BY TreeFacts
<1>1. PICK ms \in Seq(UpMsgs) :
         /\ Extended(up, up', a, ms)
         /\ info' = info /\ run' = run
         /\ \/ AAPlain(a, ms) \/ AAStarts(a, ms) \/ AAEvaluates(a, ms)
            \/ AAChecks(a, ms) \/ AASerializes(a, ms)
  BY AAKinds
<1>2. ASSUME NEW T, ReadsDown(a, T), T \cap {"reinit"} = {} PROVE Stays(down, down', {"reinit"})
  BY <1>2, DownTaken
<1>3. ReadsDown(a, {"reinit"}) => Taken(down, down', a, {"reinit"})
  BY DownTaken
<1>4. down' = down => Stays(down, down', {"reinit"})
  BY DownStays
<1>5. Searches \cap {"reinit"} = {}
  BY DEF Searches
<1> QED
  BY <1>1, <1>2, <1>3, <1>4, <1>5 DEF AAPlain, AAStarts, AAEvaluates, AAChecks, AASerializes

LEMMA HLAReattaches ==
    ASSUME Types, NEW h \in HLAs, HLAStep(h)
    PROVE  Stays(down, down', {"reinit"}) \/ Spread(down, down', h, {"reinit"})
<1> h \in Agents
  BY TreeFacts
<1>1. ASSUME NEW T, PassesDown(h, T), T \cap {"reinit"} = {} PROVE Stays(down, down', {"reinit"})
  BY <1>1, DownSpread
<1>2. down' = down => Stays(down, down', {"reinit"})
  BY DownStays
<1>3. ASSUME PassesDown(h, Controls)
      PROVE  Stays(down, down', {"reinit"}) \/ Spread(down, down', h, {"reinit"})
  <2>1. CASE Head(down[h]).type = "reinit"
    <3>1. PassesDown(h, {"reinit"})
      BY <1>3, <2>1 DEF PassesDown
    <3> QED
      BY <3>1, DownSpread
  <2>2. CASE Head(down[h]).type # "reinit"
    <3>1. PassesDown(h, Controls \ {"reinit"})
      BY <1>3, <2>2 DEF PassesDown
    <3> QED
      BY <1>1, <3>1
  <2> QED
    BY <2>1, <2>2
<1>4. \/ HLAPlain(h)
      \/ HLAPasses(h, Searches) \/ HLAPasses(h, Controls) \/ HLAPasses(h, {"serializecalltree"})
      \/ HLAPassesCheck(h)
      \/ \E c \in Children(h), ms \in Seq(UpMsgs) :
            /\ up[c] # <<>> /\ PassedUp(up, up', c, h, ms)
            /\ \/ HLANotesSearch(h, c, ms) \/ HLANotesCheck(h, c, ms)
               \/ HLANotesFound(h, c, ms) \/ HLANotesTree(h, c, ms)
  BY HLAKinds
<1>5. Searches \cap {"reinit"} = {}
  BY DEF Searches
<1> QED
  BY <1>1, <1>2, <1>3, <1>4, <1>5
     DEF HLAPlain, HLAPasses, HLAPassesCheck, HLANotesSearch, HLANotesCheck, HLANotesFound, HLANotesTree

\* An agent that is told to re-initialise has an old run.
LEMMA ReinitIsDue ==
    ASSUME Types, NEW R \in SUBSET Agents, Reattach(R), NEW a \in AAs, HasRequest(a, "reinit")
    PROVE  attached[a] # run
<1>1. a \in In(down, {"reinit"})
  <2>1. a \in Agents /\ down[a] \in Seq(DownMsgs) /\ down[a] # <<>> /\ Head(down[a]).type \in {"reinit"}
    BY TreeFacts DEF Types, StreamTypes, HasRequest
  <2> QED
    BY <2>1, ReadFacts DEF In
<1>2. a \in R
  BY <1>1, TreeFacts DEF Reattach, Told
<1> QED
  BY <1>2 DEF Reattach

LEMMA RegisteredMoved ==
    ASSUME Types, Registered, NEW R \in SUBSET Agents, Reattach(R), NEW a \in AAs, AAStep(a), quit_fe' = quit_fe
    PROVE  Registered'
<1>0. proc \in [AAs -> ProcState] /\ DOMAIN attached = AAs
  BY DEF Types, AATypes, NumberTypes
<1>1. ASSUME run' = run, registry' \in {registry, RegistryAfterFinish(a)},
             \A b \in AAs : b # a => proc'[b] = proc[b] /\ attached'[b] = attached[b],
             \/ registry' = registry /\ attached'[a] = attached[a] /\ (proc[a] = "terminated" => proc'[a] = "terminated")
             \/ attached'[a] = attached[a] /\ proc'[a] = "terminated"
             \/ attached'[a] = run /\ attached[a] # run
      PROVE  Registered'
  <2> SUFFICES ASSUME ~quit_fe, NEW b \in AAs
               PROVE  /\ proc'[b] # "terminated" => <<b, attached'[b]>> \in registry'
                      /\ attached'[b] # run => <<b, run>> \in registry'
    BY <1>1 DEF Registered
  <2>1. /\ proc[b] # "terminated" => <<b, attached[b]>> \in registry
        /\ attached[b] # run => <<b, run>> \in registry
    BY DEF Registered
  <2>2. registry' = registry \/ registry' = registry \ {<<a, attached[a]>>}
    BY <1>1 DEF RegistryAfterFinish
  <2>3. CASE b # a
    BY <1>1, <2>1, <2>2, <2>3
  <2>4. CASE b = a /\ registry' = registry /\ attached'[a] = attached[a]
                   /\ (proc[a] = "terminated" => proc'[a] = "terminated")
    BY <2>1, <2>4
  <2>5. CASE b = a /\ attached'[a] = attached[a] /\ proc'[a] = "terminated"
    BY <2>1, <2>2, <2>5
  <2>6. CASE b = a /\ attached'[a] = run /\ attached[a] # run
    BY <2>1, <2>2, <2>6
  <2> QED
    BY <1>1, <2>3, <2>4, <2>5, <2>6
<1>2. ASSUME run' = run, registry' = registry, attached' = attached,
             \/ proc' = proc
             \/ \E s \in ProcState : proc' = [proc EXCEPT ![a] = s] /\ (proc[a] = "terminated" => s = "terminated")
      PROVE  Registered'
  <2>1. /\ \A b \in AAs : b # a => proc'[b] = proc[b]
        /\ proc[a] = "terminated" => proc'[a] = "terminated"
    BY <1>0, <1>2
  <2> QED
    BY <1>1, <1>2, <2>1
<1>3. /\ \A s \in ProcState : StopsAt(s) \subseteq ProcState
      /\ StopsAt("terminated") = {"terminated"}
      /\ "working" \in ProcState /\ proc[a] \in ProcState
  BY <1>0 DEF StopsAt, ProcState
<1>4. CASE AARun(a)
  BY <1>2, <1>4 DEF AARun, aaVars, appVars
<1>5. CASE AAOnStart(a)
  <2>1. PICK s \in ProcState : /\ proc[a] = "terminated" => s = "terminated"
                               /\ \/ proc' = [proc EXCEPT ![a] = s]
                                  \/ ~NeedRestart(s) /\ proc' = [proc EXCEPT ![a] = "working"]
    BY <1>3, <1>5 DEF AAOnStart, StartExperiment
  <2>2. run' = run /\ registry' = registry /\ attached' = attached
    BY <1>5 DEF AAOnStart, appVars
  <2> QED
    BY <1>2, <1>3, <2>1, <2>2 DEF NeedRestart
<1>6. CASE AAOnStartExperiment(a)
  <2>1. /\ run' = run /\ registry' = registry /\ attached' = attached
        /\ \/ proc' = proc
           \/ ~NeedRestart(proc[a]) /\ proc' = [proc EXCEPT ![a] = "working"]
    BY <1>6 DEF AAOnStartExperiment, StartExperiment, appVars
  <2> QED
    BY <1>2, <1>3, <2>1 DEF NeedRestart
<1>7. CASE AAOnTerminate(a) \/ AAOnQuit(a)
  <2>1. /\ run' = run /\ registry' = RegistryAfterFinish(a) /\ attached' = attached
        /\ proc' = [proc EXCEPT ![a] = "terminated"]
    BY <1>7 DEF AAOnTerminate, AAOnQuit
  <2> QED
    BY <1>0, <1>1, <2>1
<1>8. CASE AAOnCheck(a) \/ AAOnSerializeCalltree(a)
  BY <1>2, <1>8 DEF AAOnCheck, AAOnSerializeCalltree, appVars
<1>9. CASE AAOnReinit(a)
  <2>1. /\ run' = run /\ registry' = RegistryAfterFinish(a) /\ attached' = [attached EXCEPT ![a] = run]
        /\ \E s : proc' = [proc EXCEPT ![a] = s]
    BY <1>9 DEF AAOnReinit
  <2>2. attached[a] # run
    BY <1>9, ReinitIsDue DEF AAOnReinit
  <2> QED
    BY <1>0, <1>1, <2>1, <2>2
<1>10. CASE AAEvaluate(a)
  <2>1. run' = run /\ registry' = registry /\ attached' = attached
    BY <1>10 DEF AAEvaluate, appVars
  <2>2. PICK s \in StopsAt(proc[a]) :
           \/ proc' = [proc EXCEPT ![a] = s]
           \/ s # "terminated" /\ \E next \in StopsAt(s) : proc' = [proc EXCEPT ![a] = next]
    BY <1>10 DEF AAEvaluate
  <2>3. s \in ProcState /\ (proc[a] = "terminated" => s = "terminated")
    BY <1>3, <2>2
  <2>4. \E r \in ProcState : proc' = [proc EXCEPT ![a] = r] /\ (proc[a] = "terminated" => r = "terminated")
    BY <1>3, <2>2, <2>3
  <2> QED
    BY <1>2, <2>1, <2>4
<1> QED
  BY <1>4, <1>5, <1>6, <1>7, <1>8, <1>9, <1>10 DEF AAStep, AAHandleRequest

\* What the frontend does with the streams: only rerunApplication re-initialises.
LEMMA FEOwnSends ==
    ASSUME Inv,
           \/ FEHandleStep \/ FETimeout \/ FEQuitFinished
           \/ FERestart \/ FEResults \/ FECalltreeDone \/ FEPhaseAgain
           \/ FERestartDone \/ FESearchEnded
           \/ FEBegin("analysis") \/ FEBegin("phase") \/ FEConsiderRestart
           \/ FEFinalize,
           run' = run
    PROVE  Stays(down, down', {"reinit"})
<1>0. ~FERerun
  BY DEF FERerun, Inv, Types, NumberTypes
<1>1. FEQuiet \/ FEAsksSearch \/ FEAsksTree
  BY FEOwnKinds DEF Inv
<1>2. ASSUME NEW T, FESends(T), T \cap {"reinit"} = {} PROVE Stays(down, down', {"reinit"})
  BY <1>2, FEWrites
<1>3. down' = down => Stays(down, down', {"reinit"})
  BY DownStays
<1>4. Searches \cap {"reinit"} = {} /\ {"terminate", "quit"} \cap {"reinit"} = {}
      /\ {"serializecalltree"} \cap {"reinit"} = {}
  BY DEF Searches
<1> QED
  BY <1>0, <1>1, <1>2, <1>3, <1>4 DEF FEQuiet, FEAsksSearch, FEAsksTree

\* A message neither ends the wait for the application nor begins to quit, unless
\* this is the last permitted run.
LEMMA DecideQuits ==
    ASSUME NEW i, DecideContinuation(i)
    PROVE  /\ shutdown_allowed' = shutdown_allowed
           /\ \/ UNCHANGED <<quit_fe, quitting>>
              \/ shutdown_allowed /\ quit_fe' /\ quitting'
<1>1. ASSUME NEW s, Enforce(i, s)
      PROVE  \/ UNCHANGED <<quit_fe, quitting>>
             \/ shutdown_allowed /\ quit_fe' /\ quitting'
  BY <1>1 DEF Enforce, Quit
<1>2. shutdown_allowed' = shutdown_allowed
  BY DEF DecideContinuation
<1>3. UNCHANGED <<quit_fe, quitting>> \/ \E s : Enforce(i, s)
  BY DEF DecideContinuation
<1> QED
  BY <1>1, <1>2, <1>3

LEMMA FEMessageQuits ==
    ASSUME Inv, NEW c \in Agents, FEHandleMessage(c)
    PROVE  /\ UNCHANGED <<op, stage, loop, shutdown_allowed, registry>>
           /\ UNCHANGED <<ended, quit_fe, quitting>> \/ loop # "APPLICATION_TERMINATION"
           /\ UNCHANGED <<quit_fe, quitting>> \/ (shutdown_allowed /\ quit_fe' /\ quitting')
           /\ Stays(down, down', {"reinit"})
<1>1. PICK B \in SUBSET Agents, C \in SUBSET Agents, T \in SUBSET Agents : Going(B, C, T)
  BY DEF Inv
<1>2. Phases(B, C, T)
  BY <1>1 DEF Going
<1>3. /\ c \in Children(FE) /\ up[c] # <<>> /\ Read(up, up', c)
      /\ FEReadsPlain(c) \/ FEReadsSearch(c) \/ FEReadsCheck(c) \/ FEReadsTree(c)
  BY FEMessageKinds DEF Inv
<1>4. UNCHANGED <<op, stage, loop, registry>>
  BY DEF FEHandleMessage, ctlVars, appVars
<1>5. \A U : Head(up[c]).type \in U => c \in In(up, U)
  BY <1>3 DEF Read
<1>6. Head(up[c]).type \in SearchRequests => SearchOut(B)
  BY <1>3, <1>5 DEF SearchOut, Out, ToldSearch
<1>7. Head(up[c]).type = "propertiessent" => CheckOut(C)
  BY <1>3, <1>5 DEF CheckOut, Out, ToldCheck
<1>8. Head(up[c]).type = "calltreesent" => TreeOut(T)
  BY <1>3, <1>5 DEF TreeOut, Out, ToldTree
<1>9. Head(up[c]).type \in SearchRequests \cup {"propertiessent", "calltreesent"} => loop # "APPLICATION_TERMINATION"
  BY <1>2, <1>6, <1>7, <1>8 DEF Phases, Waiting, TreeAwaited
<1>10. /\ shutdown_allowed' = shutdown_allowed
       /\ UNCHANGED <<ended, quit_fe, quitting>> \/ loop # "APPLICATION_TERMINATION"
       /\ UNCHANGED <<quit_fe, quitting>> \/ (shutdown_allowed /\ quit_fe' /\ quitting')
  <2>1. CASE FEOnHeartbeat(c) \/ FEOnFoundProp(c) \/ FEOnCalltree(c) \/ FEOnTerminated(c)
    BY <2>1 DEF FEOnHeartbeat, FEOnFoundProp, FEOnCalltree, FEOnTerminated, decVars
  <2>2. CASE FEOnSearchRequest(c)
    BY <1>9, <2>2, DecideQuits DEF FEOnSearchRequest
  <2>3. CASE FEOnPropertiesSent(c)
    BY <1>9, <2>3, DecideQuits DEF FEOnPropertiesSent, HasMessage, decVars
  <2>4. CASE FEOnCalltreeSent(c)
    BY <1>9, <2>4 DEF FEOnCalltreeSent, HasMessage, decVars
  <2> QED
    BY <2>1, <2>2, <2>3, <2>4 DEF FEHandleMessage
<1>11. Stays(down, down', {"reinit"})
  <2>1. ASSUME NEW S, FESends(S), S \cap {"reinit"} = {} PROVE Stays(down, down', {"reinit"})
    BY <2>1, FEWrites
  <2>2. down' = down => Stays(down, down', {"reinit"})
    BY DownStays
  <2>3. Searches \cap {"reinit"} = {} /\ {"check"} \cap {"reinit"} = {} /\ {"quit"} \cap {"reinit"} = {}
    BY DEF Searches
  <2>4. FEReadsSearch(c) => FESends({"check"})
    BY <1>2, <1>3, <1>6 DEF FEReadsSearch, Phases
  <2> QED
    BY <1>3, <2>1, <2>2, <2>3, <2>4 DEF FEReadsPlain, FEReadsCheck, FEReadsTree
<1> QED
  BY <1>4, <1>10, <1>11

LEMMA ModesKept ==
    ASSUME Inv, Modes, Terminating, ~TimeOuts, FEStep
    PROVE  Modes' /\ Terminating'
<1>0. /\ Control /\ Types
      /\ Tuning => op # "search" /\ ~shutdown_allowed /\ (quit_fe => op = "final")
      /\ ~Tuning => op \in {"search", "none", "final"}
  BY DEF Inv, Modes
<1>1. ASSUME UNCHANGED <<op, shutdown_allowed, quit_fe>> PROVE Modes'
  BY <1>1 DEF Modes
<1>2. CASE \E c \in Agents : FEHandleMessage(c)
  <2>1. /\ UNCHANGED <<op, stage, loop, shutdown_allowed, registry>>
        /\ UNCHANGED <<ended, quit_fe, quitting>> \/ loop # "APPLICATION_TERMINATION"
        /\ UNCHANGED <<quit_fe, quitting>> \/ (shutdown_allowed /\ quit_fe' /\ quitting')
    BY <1>2, FEMessageQuits
  <2> QED
    BY <1>0, <2>1 DEF Modes, Terminating
<1>3. CASE FEHandleStep
  <2>1. UNCHANGED <<op, stage, loop, registry, shutdown_allowed, quit_fe, quitting>>
    BY <1>3 DEF FEHandleStep, ctlVars, decVars, appVars
  <2>2. loop = "APPLICATION_TERMINATION" => registry = {}
    BY <1>3 DEF FEHandleStep, StepStartup, StepStartupReinit, StepApplicationTermination, StepRequestCalltree
  <2> QED
    BY <1>1, <2>1, <2>2 DEF Terminating
<1>4. CASE FETimeout
  BY <1>4 DEF FETimeout
<1>5. CASE FEQuitFinished
  <2>1. quitting /\ UNCHANGED <<op, stage, loop, shutdown_allowed, quit_fe>> /\ quitting' = FALSE
    BY <1>5 DEF FEQuitFinished, ctlVars
  <2> QED
    BY <1>1, <2>1 DEF Terminating
<1>6. ASSUME BeginRestart, UNCHANGED <<quit_fe, quitting>>, ~quit_fe PROVE Terminating'
  BY <1>6 DEF Terminating, BeginRestart, EnterLoop
<1>7. ASSUME stage' # "terminating", UNCHANGED <<quit_fe, quitting>> PROVE Terminating'
  BY <1>7 DEF Terminating
<1>8. CASE FERestart
  <2>1. /\ op \in {"gather", "analysis", "phase"} /\ BeginRestart
        /\ UNCHANGED <<op, shutdown_allowed, quit_fe, quitting>>
    BY <1>8 DEF FERestart, decVars
  <2> QED
    BY <1>0, <1>1, <1>6, <2>1
<1>9. CASE FERerun
  BY <1>1, <1>7, <1>9 DEF FERerun
<1>10. CASE FEResults
  <2>1. /\ op \in {"gather", "analysis", "phase"} /\ stage' \in {"calltree", "run"}
        /\ UNCHANGED <<shutdown_allowed, quit_fe, quitting>> /\ op' \in {op, "again", "none"}
    BY <1>10 DEF FEResults, Finished, decVars
  <2> QED
    BY <1>0, <1>7, <2>1 DEF Modes
<1>11. CASE FECalltreeDone
  <2>1. /\ stage = "calltree" /\ stage' = "run" /\ op' = IF op = "phase" /\ ~executed THEN "again" ELSE "none"
        /\ UNCHANGED <<shutdown_allowed, quit_fe, quitting>>
    BY <1>11 DEF FECalltreeDone, Finished, decVars
  <2> QED
    BY <1>0, <1>7, <2>1 DEF Modes, Control
<1>12. CASE FEPhaseAgain
  <2>1. op = "again" /\ op' = "phase" /\ UNCHANGED <<stage, shutdown_allowed, quit_fe, quitting>>
    BY <1>12 DEF FEPhaseAgain, decVars
  <2> QED
    BY <1>0, <1>7, <2>1 DEF Modes, Control
<1>13. CASE FERestartDone
  <2>1. op = "restart" /\ op' = "phase" /\ stage' = "run" /\ UNCHANGED <<shutdown_allowed, quit_fe, quitting>>
    BY <1>13 DEF FERestartDone, decVars
  <2> QED
    BY <1>0, <1>7, <2>1 DEF Modes
<1>14. CASE FESearchEnded
  <2>1. /\ op = "search" /\ op' \in {"search", "none"} /\ UNCHANGED <<quit_fe, quitting>>
        /\ (BeginRestart /\ ~quit_fe) \/ Finished("none")
    BY <1>14 DEF FESearchEnded, Finished
  <2>2. Finished("none") => stage' # "terminating"
    BY DEF Finished
  <2> QED
    BY <1>0, <1>6, <1>7, <2>1, <2>2 DEF Modes
<1>15. CASE FEBegin("analysis") \/ FEBegin("phase")
  <2>1. Tuning /\ op = "none" /\ op' \in {"analysis", "phase"} /\ UNCHANGED <<stage, shutdown_allowed, quit_fe, quitting>>
    BY <1>15 DEF FEBegin, decVars
  <2> QED
    BY <1>0, <1>7, <2>1 DEF Modes, Control
<1>16. CASE FEConsiderRestart
  <2>1. Tuning /\ op = "none" /\ op' = "restart" /\ BeginRestart /\ UNCHANGED <<shutdown_allowed, quit_fe, quitting>>
    BY <1>16 DEF FEConsiderRestart
  <2> QED
    BY <1>0, <1>6, <2>1 DEF Modes
<1>17. CASE FEFinalize
  <2>1. op = "none" /\ op' = "final" /\ quit_fe' /\ UNCHANGED <<stage, shutdown_allowed>>
    BY <1>17 DEF FEFinalize, Quit
  <2> QED
    BY <1>0, <2>1 DEF Modes, Terminating, Control
<1> QED
  BY <1>2, <1>3, <1>4, <1>5, <1>8, <1>9, <1>10, <1>11, <1>12, <1>13, <1>14, <1>15, <1>16, <1>17 DEF FEStep

\* When the application is started again all of it has been terminated.
LEMMA RerunWhenDown ==
    ASSUME Inv, Restarting, FERerun
    PROVE  /\ registry = {} /\ \A a \in AAs : proc[a] = "terminated" /\ attached[a] = run /\ ~started[a]
           /\ Reattach({})
<1>1. ~quit_fe /\ registry = {}
  BY DEF FERerun, LoopEnded, Restarting, Terminating
<1>2. \A a \in AAs : proc[a] = "terminated" /\ attached[a] = run
  BY <1>1 DEF Restarting, Registered
<1>3. \A a \in AAs : ~started[a]
  <2>1. PICK B \in SUBSET Agents, C \in SUBSET Agents, T \in SUBSET Agents : Going(B, C, T)
    BY DEF Inv
  <2>2. SearchWave(B) /\ ~SearchOut(B)
    BY <2>1 DEF Going, Phases, Waiting, FERerun, LoopEnded
  <2> QED
    BY <2>2, SearchOver
<1>4. PICK R \in SUBSET Agents : Reattach(R)
  BY DEF Restarting
<1>5. R = {}
  <2> SUFFICES ASSUME R # {} PROVE FALSE
    OBVIOUS
  <2>1. PICK n \in R : \A c \in Children(n) : c \notin R
    BY BottommostExists
  <2>2. n \in AAs
    BY <1>4, <2>1, TreeFacts DEF Reattach, Told
  <2> QED
    BY <1>2, <1>4, <2>1, <2>2 DEF Reattach
<1> QED
  BY <1>1, <1>2, <1>3, <1>4, <1>5

LEMMA FERestarting ==
    ASSUME Inv, Restarting, ~TimeOuts, FEStep
    PROVE  Restarting'
<1>1. Modes' /\ Terminating'
  BY ModesKept DEF Restarting
<1>2. UNCHANGED <<proc, attached>>
  BY FELeaves DEF aaVars
<1>3. run \in Nat \ {0} /\ \A a \in AAs : attached[a] \in 1..run
  BY DEF Inv, Types, NumberTypes
<1>4. PICK R \in SUBSET Agents : Reattach(R)
  BY DEF Restarting
<1>5. CASE FERerun
  <2>1. Reattach({}) /\ \A a \in AAs : proc[a] = "terminated" /\ attached[a] = run
    BY <1>5, RerunWhenDown
  <2>2. run' = run + 1 /\ registry' = registry \cup {<<a, run + 1>> : a \in AAs}
    BY <1>5 DEF FERerun
  <2>3. Registered'
    BY <1>2, <2>1, <2>2 DEF Registered
  <2>4. FESends({"reinit"})
    <3>1. "reinit" \in DownTypes /\ down' = SendToChildren(FE, Msg("reinit"))
      BY <1>5 DEF FERerun, DownTypes
    <3> QED
      BY <3>1, FESentType DEF Inv
  <2>5. Reattach(Agents)'
    <3>1. In(down, {"reinit"}) = {} /\ Single(down, {"reinit"})
      BY <2>1 DEF Reattach, Told, In
    <3>2. In(down', {"reinit"}) = Children(FE) /\ Single(down', {"reinit"})
      BY <2>4, <3>1, FEWrites
    <3>3. Told(In(down', {"reinit"}), Agents)
      BY <3>2, ToldAll
    <3>4. \A n \in Children(FE) : Parent[n] \notin Agents
      BY TreeFacts
    <3>5. \A a \in AAs : a \in Agents /\ attached[a] # run + 1
      BY <1>3, TreeFacts
    <3> QED
      BY <1>2, <2>2, <3>2, <3>3, <3>4, <3>5 DEF Reattach
  <2> QED
    BY <1>1, <2>3, <2>5 DEF Restarting
<1>6. CASE ~FERerun
  <2>1. run' = run
    BY <1>6 DEF FEStep, FEHandleMessage, FEHandleStep, FETimeout, FEQuitFinished, FERestart, FEResults, FECalltreeDone,
              FEPhaseAgain, FERestartDone, FESearchEnded, FEBegin, FEConsiderRestart, FEFinalize, appVars
  <2>2. (registry' = registry \/ quit_fe) /\ (quit_fe => quit_fe')
    <3>1. ASSUME NEW c \in Agents, FEHandleMessage(c) PROVE registry' = registry /\ (quit_fe => quit_fe')
      BY <3>1, FEMessageQuits
    <3>2. FEQuitFinished => quit_fe /\ quit_fe'
      BY DEF FEQuitFinished, Restarting, Terminating
    <3>3. FETimeout \/ FEFinalize => registry' = registry /\ quit_fe'
      BY DEF FETimeout, FEFinalize, Quit, appVars
    <3>4. FEHandleStep \/ FERestart \/ FEResults \/ FECalltreeDone \/ FEPhaseAgain \/ FERestartDone
             => registry' = registry /\ quit_fe' = quit_fe
      BY DEF FEHandleStep, FERestart, FEResults, FECalltreeDone, FEPhaseAgain, FERestartDone, appVars, decVars
    <3>5. FESearchEnded \/ FEBegin("analysis") \/ FEBegin("phase") \/ FEConsiderRestart
             => registry' = registry /\ quit_fe' = quit_fe
      BY DEF FESearchEnded, FEBegin, FEConsiderRestart, appVars, decVars
    <3> QED
      BY <1>6, <3>1, <3>2, <3>3, <3>4, <3>5 DEF FEStep
  <2>3. Registered'
    BY <1>2, <2>1, <2>2 DEF Restarting, Registered
  <2>4. Stays(down, down', {"reinit"})
    BY <1>6, <2>1, FEOwnSends, FEMessageQuits DEF FEStep
  <2>5. Reattach(R)'
    BY <1>2, <1>4, <2>1, <2>4 DEF Reattach, Stays
  <2> QED
    BY <1>1, <2>3, <2>5 DEF Restarting
<1> QED
  BY <1>5, <1>6

LEMMA AgentRestarting ==
    ASSUME Inv, Restarting, NEW n \in Agents, AgentStep(n)
    PROVE  Restarting'
<1>1. PICK R \in SUBSET Agents : Reattach(R)
  BY DEF Restarting
<1>2. Types /\ Modes /\ Terminating /\ Registered
  BY DEF Inv, Restarting
<1>3. feVars' = feVars
  BY DEF AgentStep
<1>4. UNCHANGED <<op, stage, loop, ended, quit_fe, quitting, shutdown_allowed>>
  BY <1>3 DEF feVars, loopVars, ctlVars, decVars
<1>5. CASE n \in AAs /\ AAStep(n)
  <2>1. Registered'
    BY <1>1, <1>2, <1>4, <1>5, RegisteredMoved
  <2>2. \E R2 \in SUBSET Agents : Reattach(R2)'
    BY <1>1, <1>2, <1>5, AAReattaches, ReattachMoved
  <2>3. registry' \subseteq registry
    BY <1>5 DEF AAStep, AARun, AAHandleRequest, AAOnStart, AAOnStartExperiment, AAOnTerminate, AAOnQuit, AAOnCheck,
                AAOnSerializeCalltree, AAOnReinit, AAEvaluate, RegistryAfterFinish, appVars
  <2> QED
    BY <1>2, <1>4, <2>1, <2>2, <2>3 DEF Restarting, Modes, Terminating
<1>6. CASE n \in HLAs /\ HLAStep(n) /\ UNCHANGED <<aaVars, appVars>>
  <2>1. UNCHANGED <<proc, attached, run, registry>>
    BY <1>6 DEF aaVars, appVars
  <2>2. \E R2 \in SUBSET Agents : Reattach(R2)'
    BY <1>1, <1>2, <1>6, <2>1, HLAReattaches, ReattachMoved
  <2> QED
    BY <1>2, <1>4, <2>1, <2>2 DEF Restarting, Modes, Terminating, Registered
<1> QED
  BY <1>5, <1>6 DEF AgentStep

LEMMA InitRestarting == Init => Restarting
<1> SUFFICES ASSUME Init PROVE Restarting
  OBVIOUS
<1>1. Modes /\ Terminating /\ Registered
  BY DEF Init, AAInit, Modes, Terminating, Registered
<1>2. Reattach({})
  <2>1. \A n \in Agents : down[n] = <<>>
    BY DEF Init, TreeInit
  <2>2. In(down, {"reinit"}) = {} /\ Single(down, {"reinit"})
    BY <2>1, EmptyFacts DEF In, Single
  <2>3. \A a \in AAs : attached[a] = run
    BY DEF Init, AAInit
  <2> QED
    BY <2>2, <2>3 DEF Reattach, Told
<1> QED
  BY <1>1, <1>2 DEF Restarting

LEMMA StepRestarting == Inv /\ Restarting /\ ~TimeOuts /\ [Next]_vars => Restarting'
<1> SUFFICES ASSUME Inv, Restarting, ~TimeOuts, [Next]_vars PROVE Restarting'
  OBVIOUS
<1>1. CASE UNCHANGED vars
  <2>1. /\ UNCHANGED <<down, proc, attached, run, registry>>
        /\ UNCHANGED <<op, stage, loop, ended, quit_fe, quitting, shutdown_allowed>>
    BY <1>1 DEF vars, treeVars, aaVars, appVars, feVars, loopVars, ctlVars, decVars
  <2> QED
    BY <2>1 DEF Restarting, Modes, Terminating, Registered, Reattach
<1> QED
  BY <1>1, FERestarting, AgentRestarting DEF Next

\* The application is started again only once all its processes have come down
\* and have left the registry, and no agent evaluates them any more: as long as
\* no wait is given up, restart_sequence waits for what it asked for.
THEOREM RestartsAreClean == NoRace /\ ~TimeOuts /\ Spec => RestartOnlyWhenDown
<1>1. Init => Inv /\ Restarting
  BY InitInv, InitRestarting
<1>2. Inv /\ Restarting /\ NoRace /\ ~TimeOuts /\ [Next]_vars => (Inv /\ Restarting)'
  BY StepInv, StepRestarting
<1>3. /\ Inv /\ Restarting /\ [Next]_vars
      => (run' # run => registry = {} /\ \A a \in AAs : proc[a] = "terminated" /\ ~started[a])
  <2> SUFFICES ASSUME Inv, Restarting, [Next]_vars, run' # run
               PROVE  registry = {} /\ \A a \in AAs : proc[a] = "terminated" /\ ~started[a]
    OBVIOUS
  <2>1. ASSUME NEW n \in Agents, AgentStep(n) PROVE run' = run
    <3>1. CASE n \in AAs /\ AAStep(n)
      BY <3>1, AAReattaches DEF Inv
    <3> QED
      BY <2>1, <3>1 DEF AgentStep, appVars
  <2>2. FERerun
    BY <2>1 DEF Next, vars, FEStep, FEHandleMessage, FEHandleStep, FETimeout, FEQuitFinished, FERestart, FEResults,
              FECalltreeDone, FEPhaseAgain, FERestartDone, FESearchEnded, FEBegin, FEConsiderRestart, FEFinalize, appVars
  <2> QED
    BY <2>2, RerunWhenDown
<1>4. CASE NoRace /\ ~TimeOuts
  <2>1. Inv /\ Restarting /\ [Next]_vars => (Inv /\ Restarting)'
    BY <1>2, <1>4
  <2> QED
    BY <1>1, <1>3, <2>1, PTL DEF Spec, RestartOnlyWhenDown
<1> QED
  BY <1>4
=============================================================================
