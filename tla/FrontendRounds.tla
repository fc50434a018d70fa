---------------------------- MODULE FrontendRounds ----------------------------
(***************************************************************************)
(* What becomes of the properties the agents of Frontend find: none of     *)
(* them is lost or doubled; why the frontend restarts the application;     *)
(* what has become of a request when the frontend counts it as done; and   *)
(* that with all this tuning implements SearchRounds.                      *)
(***************************************************************************)
EXTENDS FrontendProofs, FunctionTheorems

-----------------------------------------------------------------------------
(* The properties in a stream.                                             *)

\* None of them is in two messages.
Once(s) ==
    \A i, j \in DOMAIN s : s[i].type = "foundprop" /\ s[j].type = "foundprop" /\ i # j
                             => s[i].props \cap s[j].props = {}

LEMMA PropsAre ==
    ASSUME NEW s
    PROVE  \A p : p \in PropsIn(s) <=> \E i \in DOMAIN s : s[i].type = "foundprop" /\ p \in s[i].props
  BY DEF PropsIn

LEMMA PropsRead ==
    ASSUME NEW S, NEW s \in Seq(S), s # <<>>
    PROVE  /\ Head(s).type = "foundprop" => PropsIn(s) = Head(s).props \cup PropsIn(Tail(s))
           /\ Head(s).type # "foundprop" => PropsIn(s) = PropsIn(Tail(s))
           /\ Once(s) => /\ Once(Tail(s))
                         /\ Head(s).type = "foundprop" => Head(s).props \cap PropsIn(Tail(s)) = {}
<1>1. /\ Len(s) \in Nat \ {0} /\ DOMAIN s = 1..Len(s) /\ Head(s) = s[1]
      /\ DOMAIN Tail(s) = 1..(Len(s) - 1)
      /\ \A i \in 1..(Len(s) - 1) : Tail(s)[i] = s[i + 1]
  OBVIOUS
<1>2. \A i \in DOMAIN s : i = 1 \/ (i - 1 \in DOMAIN Tail(s) /\ Tail(s)[i - 1] = s[i])
  BY <1>1
<1>3. \A i \in DOMAIN Tail(s) : i + 1 \in DOMAIN s /\ Tail(s)[i] = s[i + 1] /\ i + 1 # 1 /\ i \in Nat
  BY <1>1
<1>4. 1 \in DOMAIN s
  BY <1>1
<1> DEFINE t == Tail(s)
<1>5. \A p : p \in PropsIn(s) <=> (Head(s).type = "foundprop" /\ p \in Head(s).props) \/ p \in PropsIn(t)
  <2>1. \A p : p \in PropsIn(t) <=> \E i \in DOMAIN t : t[i].type = "foundprop" /\ p \in t[i].props
    BY PropsAre
  <2>2. \A p : p \in PropsIn(s) <=> \E i \in DOMAIN s : s[i].type = "foundprop" /\ p \in s[i].props
    BY PropsAre
  <2> QED
    BY <1>1, <1>2, <1>3, <1>4, <2>1, <2>2
<1>6. ASSUME Once(s) PROVE Once(t)
  <2> SUFFICES ASSUME NEW i \in DOMAIN t, NEW j \in DOMAIN t,
                      t[i].type = "foundprop", t[j].type = "foundprop", i # j
               PROVE  t[i].props \cap t[j].props = {}
    BY DEF Once
  <2>1. /\ i + 1 \in DOMAIN s /\ j + 1 \in DOMAIN s /\ i + 1 # j + 1
        /\ t[i] = s[i + 1] /\ t[j] = s[j + 1]
    BY <1>3
  <2> QED
    BY <1>6, <2>1 DEF Once
<1>7. ASSUME Once(s), Head(s).type = "foundprop" PROVE Head(s).props \cap PropsIn(t) = {}
  <2> SUFFICES ASSUME NEW p \in PropsIn(t) PROVE p \notin Head(s).props
    OBVIOUS
  <2>1. PICK i \in DOMAIN t : t[i].type = "foundprop" /\ p \in t[i].props
    BY PropsAre
  <2>2. i + 1 \in DOMAIN s /\ i + 1 # 1 /\ t[i] = s[i + 1]
    BY <1>3
  <2> QED
    BY <1>1, <1>4, <1>7, <2>1, <2>2 DEF Once
<1> QED
  BY <1>5, <1>6, <1>7

LEMMA PropsWritten ==
    ASSUME NEW S, NEW s \in Seq(S), NEW t \in Seq(S)
    PROVE  /\ PropsIn(s \o t) = PropsIn(s) \cup PropsIn(t)
           /\ Once(s) /\ Once(t) /\ PropsIn(s) \cap PropsIn(t) = {} => Once(s \o t)
<1> DEFINE r == s \o t
<1>1. /\ r \in Seq(S) /\ Len(s) \in Nat /\ Len(t) \in Nat
      /\ DOMAIN s = 1..Len(s) /\ DOMAIN t = 1..Len(t) /\ DOMAIN r = 1..(Len(s) + Len(t))
      /\ \A i \in DOMAIN r : r[i] = IF i <= Len(s) THEN s[i] ELSE t[i - Len(s)]
  BY ConcatProperties
<1>2. \A i \in DOMAIN r : \/ i \in DOMAIN s /\ r[i] = s[i]
                          \/ i - Len(s) \in DOMAIN t /\ r[i] = t[i - Len(s)]
  BY <1>1
<1>3. \A i \in DOMAIN s : i \in DOMAIN r /\ r[i] = s[i]
  BY <1>1
<1>4. \A i \in DOMAIN t : i + Len(s) \in DOMAIN r /\ r[i + Len(s)] = t[i]
  <2> SUFFICES ASSUME NEW i \in DOMAIN t PROVE i + Len(s) \in DOMAIN r /\ r[i + Len(s)] = t[i]
    OBVIOUS
  <2>1. i \in Nat /\ i >= 1 /\ i <= Len(t)
    BY <1>1
  <2>2. i + Len(s) \in DOMAIN r /\ ~(i + Len(s) <= Len(s)) /\ (i + Len(s)) - Len(s) = i
    BY <1>1, <2>1
  <2> QED
    BY <1>1, <2>2
<1>5. \A i, j \in DOMAIN r : i - Len(s) = j - Len(s) => i = j
  BY <1>1
<1> HIDE DEF r
<1>6. \A p : p \in PropsIn(r) <=> p \in PropsIn(s) \/ p \in PropsIn(t)
  <2>1. \A p : p \in PropsIn(s) <=> \E i \in DOMAIN s : s[i].type = "foundprop" /\ p \in s[i].props
    BY PropsAre
  <2>2. \A p : p \in PropsIn(t) <=> \E i \in DOMAIN t : t[i].type = "foundprop" /\ p \in t[i].props
    BY PropsAre
  <2>3. \A p : p \in PropsIn(r) <=> \E i \in DOMAIN r : r[i].type = "foundprop" /\ p \in r[i].props
    BY PropsAre
  <2> QED
    BY <1>2, <1>3, <1>4, <2>1, <2>2, <2>3
<1>7. ASSUME Once(s), Once(t), PropsIn(s) \cap PropsIn(t) = {} PROVE Once(r)
  <2> SUFFICES ASSUME NEW i \in DOMAIN r, NEW j \in DOMAIN r, NEW p,
                      r[i].type = "foundprop", r[j].type = "foundprop", i # j,
                      p \in r[i].props, p \in r[j].props
               PROVE  FALSE
    BY DEF Once
  <2>1. ASSUME NEW k \in DOMAIN s, s[k].type = "foundprop", p \in s[k].props PROVE p \in PropsIn(s)
    BY <2>1, PropsAre
  <2>2. ASSUME NEW k \in DOMAIN t, t[k].type = "foundprop", p \in t[k].props PROVE p \in PropsIn(t)
    BY <2>2, PropsAre
  <2>3. CASE i \in DOMAIN s /\ r[i] = s[i]
    <3>1. p \notin PropsIn(t)
      BY <1>7, <2>1, <2>3
    <3>2. j \in DOMAIN s /\ r[j] = s[j]
      BY <1>2, <2>2, <3>1
    <3> QED
      BY <1>7, <2>3, <3>2 DEF Once
  <2>4. CASE i - Len(s) \in DOMAIN t /\ r[i] = t[i - Len(s)]
    <3>1. p \notin PropsIn(s)
      BY <1>7, <2>2, <2>4
    <3>2. j - Len(s) \in DOMAIN t /\ r[j] = t[j - Len(s)]
      BY <1>2, <2>1, <3>1
    <3>3. i - Len(s) # j - Len(s)
      BY <1>5
    <3> QED
      BY <1>7, <2>4, <3>2, <3>3 DEF Once
  <2> QED
    BY <1>2, <2>3, <2>4
<1> QED
  BY <1>6, <1>7 DEF r

\* Messages without properties, and one with some.
LEMMA PropsOf ==
    /\ \A s : ~Has(s, {"foundprop"}) => PropsIn(s) = {} /\ Once(s)
    /\ \A m : m.type = "foundprop" => PropsIn(<<m>>) = m.props /\ Once(<<m>>)
<1>1. ASSUME NEW s, ~Has(s, {"foundprop"}) PROVE PropsIn(s) = {} /\ Once(s)
  BY <1>1, PropsAre DEF Has, Once
<1>2. ASSUME NEW m, m.type = "foundprop" PROVE PropsIn(<<m>>) = m.props /\ Once(<<m>>)
  <2>1. DOMAIN <<m>> = {1} /\ <<m>>[1] = m
    OBVIOUS
  <2>2. \A p : p \in PropsIn(<<m>>) <=> p \in m.props
    BY <1>2, <2>1, PropsAre
  <2>3. Once(<<m>>)
    BY <2>1 DEF Once
  <2> QED
    BY <2>2, <2>3
<1> QED
  BY <1>1, <1>2

-----------------------------------------------------------------------------
(* Where the properties are.                                               *)

\* What an agent keeps, and with that what it has in its stream.
Own(n) == IF n \in AAs THEN {found[n][i] : i \in DOMAIN found[n]} ELSE properties[n]
At(n)  == PropsIn(up[n]) \cup Own(n)

\* It has no property twice.
Tidy(n) ==
    /\ Once(up[n])
    /\ PropsIn(up[n]) \cap Own(n) = {}
    /\ n \in AAs => \A i, j \in DOMAIN found[n] : found[n][i] = found[n][j] => i = j

\* No two agents have the same.
Apart ==
    /\ \A n \in Agents : Tidy(n)
    /\ \A m, n \in Agents : m # n => At(m) \cap At(n) = {}

LEMMA TravellingAt == \A p : p \in Travelling <=> \E n \in Agents : p \in At(n)
<1>1. \A n \in Agents : n \in HLAs <=> n \notin AAs
  BY TreeFacts
<1>2. AAs \subseteq Agents /\ HLAs \subseteq Agents
  BY TreeFacts
<1> DEFINE Moving == {PropsIn(up[n]) : n \in Agents}
           Found == {{found[a][i] : i \in DOMAIN found[a]} : a \in AAs}
           Clustered == {properties[h] : h \in HLAs}
<1>3. Travelling = UNION (Moving \cup Found \cup Clustered)
  BY DEF Travelling
<1>4. /\ \A p : p \in UNION Moving <=> \E n \in Agents : p \in PropsIn(up[n])
      /\ \A p : p \in UNION Found <=> \E a \in AAs : p \in {found[a][i] : i \in DOMAIN found[a]}
      /\ \A p : p \in UNION Clustered <=> \E h \in HLAs : p \in properties[h]
  OBVIOUS
<1> HIDE DEF Moving, Found, Clustered
<1>5. \A p : p \in Travelling <=> (p \in UNION Moving \/ p \in UNION Found \/ p \in UNION Clustered)
  BY <1>3
<1>6. ASSUME NEW p, NEW n \in Agents
      PROVE  p \in At(n) <=> \/ p \in PropsIn(up[n])
                             \/ n \in AAs /\ p \in {found[n][i] : i \in DOMAIN found[n]}
                             \/ n \in HLAs /\ p \in properties[n]
  BY <1>1 DEF At, Own
<1>7. ASSUME NEW p, p \in Travelling PROVE \E n \in Agents : p \in At(n)
  BY <1>2, <1>4, <1>5, <1>6, <1>7
<1>8. ASSUME NEW n \in Agents, NEW p \in At(n) PROVE p \in Travelling
  BY <1>4, <1>5, <1>6
<1> QED
  BY <1>7, <1>8

\* An agent of which nothing changes.
Idle(n) ==
    /\ up'[n] = up[n]
    /\ n \in AAs => found'[n] = found[n]
    /\ n \in HLAs => properties'[n] = properties[n]

LEMMA IdleKeeps ==
    ASSUME NEW n \in Agents, Idle(n)
    PROVE  Own(n)' = Own(n) /\ At(n)' = At(n) /\ (Tidy(n) => Tidy(n)')
<1>1. n \in HLAs <=> n \notin AAs
  BY TreeFacts
<1>2. Own(n)' = Own(n)
  <2>1. CASE n \in AAs
    <3>1. found'[n] = found[n]
      BY <2>1 DEF Idle
    <3>2. {found'[n][i] : i \in DOMAIN found'[n]} = {found[n][i] : i \in DOMAIN found[n]}
      BY <3>1
    <3> QED
      BY <2>1, <3>2 DEF Own
  <2>2. CASE n \notin AAs
    BY <1>1, <2>2 DEF Own, Idle
  <2> QED
    BY <2>1, <2>2
<1>3. PropsIn(up[n])' = PropsIn(up[n]) /\ (Once(up[n]) => Once(up[n])')
  <2>1. up'[n] = up[n]
    BY DEF Idle
  <2>2. PropsIn(up'[n]) = PropsIn(up[n]) /\ (Once(up[n]) => Once(up'[n]))
    BY <2>1
  <2> QED
    BY <2>2
<1>4. At(n)' = At(n)
  BY <1>2, <1>3 DEF At
<1>5. ASSUME Tidy(n) PROVE Tidy(n)'
  <2>1. n \in AAs => \A i, j \in DOMAIN found'[n] : found'[n][i] = found'[n][j] => i = j
    BY <1>5 DEF Tidy, Idle
  <2> QED
    BY <1>2, <1>3, <1>5, <2>1 DEF Tidy
<1> QED
  BY <1>2, <1>4, <1>5

\* It writes messages without properties.
LEMMA SilentKeeps ==
    ASSUME NEW n \in Agents, up[n] \in Seq(UpMsgs), NEW ms \in Seq(UpMsgs), ~Has(ms, {"foundprop"}),
           up'[n] = up[n] \o ms, Tidy(n)
    PROVE  /\ PropsIn(up'[n]) = PropsIn(up[n])
           /\ Own(n)' = Own(n) => At(n)' = At(n)
           /\ Own(n)' = Own(n) /\ (n \in AAs => found'[n] = found[n]) => Tidy(n)'
           /\ Once(up'[n])
<1>1. PropsIn(ms) = {} /\ Once(ms)
  BY PropsOf
<1>2. PropsIn(up'[n]) = PropsIn(up[n]) \cup PropsIn(ms)
  BY PropsWritten
<1>3. Once(up'[n])
  BY <1>1, PropsWritten DEF Tidy
<1> QED
  BY <1>1, <1>2, <1>3 DEF At, Tidy

\* What an analysis agent writes has properties in it only when it is checked, and
\* it finds one only with an experiment.
Finds(a) ==
    /\ started[a]
    /\ found' = [found EXCEPT ![a] = Append(@, Property(a))]
    /\ nprops' = [nprops EXCEPT ![a] = @ + 1]

LEMMA AAWrites ==
    ASSUME Types, NEW a \in AAs, AAStep(a)
    PROVE  \/ AAOnCheck(a)
           \/ \E ms \in Seq(UpMsgs) :
                 /\ ~Has(ms, {"foundprop"})
                 /\ up' = [up EXCEPT ![a] = @ \o ms]
                 /\ (found' = found /\ nprops' = nprops) \/ Finds(a)
<1> a \in Agents
  BY TreeFacts
<1>0. up \in [Agents -> Seq(UpMsgs)]
  BY DEF Types, StreamTypes
<1> DEFINE Quiet(ms) == /\ ~Has(ms, {"foundprop"})
                        /\ up' = [up EXCEPT ![a] = @ \o ms]
<1>1. ASSUME NEW t \in UpTypes, SendUp(a, t)
      PROVE  <<Msg(t)>> \in Seq(UpMsgs) /\ Quiet(<<Msg(t)>>)
  <2>1. Msg(t) \in UpMsgs /\ Msg(t).type = t /\ t # "foundprop"
    BY UpMsgFacts DEF UpTypes, SearchRequests
  <2>2. <<Msg(t)>> \in Seq(UpMsgs) /\ ~Has(<<Msg(t)>>, {"foundprop"})
    BY <2>1, SingleFacts
  <2>3. Append(up[a], Msg(t)) = up[a] \o <<Msg(t)>>
    BY <1>0, <2>1
  <2> QED
    BY <1>1, <2>2, <2>3 DEF SendUp
<1>2. ASSUME up' = up PROVE <<>> \in Seq(UpMsgs) /\ Quiet(<<>>)
  <2>1. up[a] \o <<>> = up[a]
    BY <1>0
  <2> QED
    BY <1>0, <1>2, <2>1, EmptyFacts
<1>3. SearchRequests \cup {"heartbeat", "terminated"} \subseteq UpTypes
  BY DEF UpTypes
<1>4. CASE AARun(a) \/ AAOnTerminate(a) \/ AAOnReinit(a)
  <2>1. found' = found /\ nprops' = nprops
    BY <1>4 DEF AARun, AAOnTerminate, AAOnReinit, aaVars
  <2>2. PICK t \in UpTypes : SendUp(a, t)
    BY <1>3, <1>4 DEF AARun, AAOnTerminate, AAOnReinit
  <2> QED
    BY <1>1, <2>1, <2>2
<1>5. CASE AAOnQuit(a)
  BY <1>2, <1>5 DEF AAOnQuit
<1>6. CASE AAOnStart(a) \/ AAOnStartExperiment(a)
  <2>1. found' = found /\ nprops' = nprops
    BY <1>6 DEF AAOnStart, AAOnStartExperiment
  <2>2. \/ \E t \in UpTypes : SendUp(a, t)
        \/ up' = up
    BY <1>3, <1>6 DEF AAOnStart, AAOnStartExperiment, StartExperiment, SearchRequests
  <2> QED
    BY <1>1, <1>2, <2>1, <2>2
<1>7. CASE AAOnSerializeCalltree(a)
  <2> DEFINE ct == IF newRts[a] THEN <<[type |-> "calltree", aa |-> a]>> ELSE <<>>
             cs == <<Msg("calltreesent")>>
  <2>1. found' = found /\ nprops' = nprops /\ up' = [up EXCEPT ![a] = @ \o (ct \o cs)]
    BY <1>7 DEF AAOnSerializeCalltree, CalltreeMessages
  <2>2. ct \in Seq(UpMsgs) /\ ~Has(ct, {"foundprop"})
    BY UpMsgFacts, SingleFacts, EmptyFacts
  <2>3. cs \in Seq(UpMsgs) /\ ~Has(cs, {"foundprop"})
    <3>1. Msg("calltreesent") \in UpMsgs /\ Msg("calltreesent").type = "calltreesent"
      BY UpMsgFacts DEF UpTypes
    <3> QED
      BY <3>1, SingleFacts
  <2> HIDE DEF ct, cs
  <2>4. ct \o cs \in Seq(UpMsgs) /\ ~Has(ct \o cs, {"foundprop"})
    BY <2>2, <2>3, ConcatFacts
  <2> QED
    BY <2>1, <2>4
<1>8. CASE AAEvaluate(a)
  <2>1. PICK t \in UpTypes : SendUp(a, t)
    BY <1>3, <1>8 DEF AAEvaluate, SearchRequests
  <2>2. started[a] /\ ((found' = found /\ nprops' = nprops) \/ Finds(a))
    BY <1>8 DEF AAEvaluate, Finds
  <2> QED
    BY <1>1, <2>1, <2>2
<1> QED
  BY <1>4, <1>5, <1>6, <1>7, <1>8 DEF AAStep, AAHandleRequest

\* The properties stay where they are, or X goes from c to h.
LEMMA StayApart ==
    ASSUME Apart, \A n \in Agents : Tidy(n)' /\ At(n)' = At(n)
    PROVE  Apart' /\ Travelling' = Travelling
<1>1. Apart'
  BY DEF Apart
<1>2. (\A p : p \in Travelling <=> \E n \in Agents : p \in At(n))'
  BY TravellingAt, PTL
<1>3. Travelling' = Travelling
  BY <1>2, TravellingAt
<1> QED
  BY <1>1, <1>3

LEMMA MoveApart ==
    ASSUME Apart, NEW c \in Agents, NEW h \in Agents, c # h, NEW X \in SUBSET At(c),
           Tidy(c)', Tidy(h)', At(c)' = At(c) \ X, At(h)' = At(h) \cup X,
           \A n \in Agents \ {c, h} : Tidy(n)' /\ At(n)' = At(n)
    PROVE  Apart' /\ Travelling' = Travelling
<1>1. \A m, n \in Agents : m # n => At(m) \cap At(n) = {}
  BY DEF Apart
<1>2. \A n \in Agents : At(n)' = IF n = c THEN At(c) \ X ELSE IF n = h THEN At(h) \cup X ELSE At(n)
  OBVIOUS
<1>3. \A m, n \in Agents : m # n => At(m)' \cap At(n)' = {}
  BY <1>1, <1>2
<1>4. Apart'
  BY <1>3 DEF Apart
<1>5. (\A p : p \in Travelling <=> \E n \in Agents : p \in At(n))'
  BY TravellingAt, PTL
<1>6. \A p : (\E n \in Agents : p \in At(n)') <=> \E n \in Agents : p \in At(n)
  BY <1>2
<1>7. Travelling' = Travelling
  BY <1>5, <1>6, TravellingAt
<1> QED
  BY <1>4, <1>7

\* What a step of an analysis agent does to the properties.
LEMMA AAProps ==
    ASSUME Types, Apart, NEW a \in AAs, AAStep(a), UNCHANGED hlaVars
    PROVE  \/ Apart' /\ Travelling' = Travelling /\ nprops' = nprops
           \/ /\ Finds(a)
              /\ Property(a) \notin Travelling
                    => Apart' /\ Travelling' = Travelling \cup {Property(a)}
<1> a \in Agents /\ a \notin HLAs
  BY TreeFacts
<1>0. /\ up \in [Agents -> Seq(UpMsgs)] /\ found \in [AAs -> Seq(Props)] /\ nprops \in [AAs -> Nat]
      /\ properties' = properties
  BY DEF Types, StreamTypes, AATypes, hlaVars
<1>1. ASSUME NEW u, NEW f, up' = [up EXCEPT ![a] = u], found' = [found EXCEPT ![a] = f]
      PROVE  /\ \A n \in Agents \ {a} : At(n)' = At(n) /\ Tidy(n)'
             /\ up'[a] = u /\ found'[a] = f
  <2>1. up'[a] = u /\ found'[a] = f
    BY <1>0, <1>1
  <2>2. ASSUME NEW n \in Agents \ {a} PROVE At(n)' = At(n) /\ Tidy(n)'
    <3>1. Idle(n)
      BY <1>0, <1>1 DEF Idle
    <3> QED
      BY <3>1, IdleKeeps DEF Apart
  <2> QED
    BY <2>1, <2>2
<1>2. Tidy(a) /\ Own(a) = {found[a][i] : i \in DOMAIN found[a]}
  BY DEF Apart, Own
<1>3. CASE AAOnCheck(a)
  <2> DEFINE fp == [i \in 1..Len(found[a]) |-> [type |-> "foundprop", props |-> {found[a][i]}]]
             ps == <<Msg("propertiessent")>>
  <2>1. nprops' = nprops /\ found' = [found EXCEPT ![a] = <<>>] /\ up' = [up EXCEPT ![a] = (@ \o fp) \o ps]
    BY <1>3 DEF AAOnCheck
  <2>2. found[a] \in Seq(Props) /\ Len(found[a]) \in Nat /\ DOMAIN found[a] = 1..Len(found[a])
    BY <1>0
  <2>3. fp \in Seq(UpMsgs) /\ DOMAIN fp = DOMAIN found[a]
        /\ \A i \in DOMAIN fp : fp[i].type = "foundprop" /\ fp[i].props = {found[a][i]}
    <3>1. \A i \in 1..Len(found[a]) : {found[a][i]} \in SUBSET Props
      BY <2>2
    <3>2. \A i \in 1..Len(found[a]) : [type |-> "foundprop", props |-> {found[a][i]}] \in UpMsgs
      BY <3>1, UpMsgFacts
    <3>3. fp \in [1..Len(found[a]) -> UpMsgs]
      BY <3>2
    <3> HIDE DEF fp
    <3>4. fp \in Seq(UpMsgs)
      BY <2>2, <3>3, SeqDef
    <3> USE DEF fp
    <3> QED
      BY <2>2, <3>4
  <2>4. ps \in Seq(UpMsgs) /\ ~Has(ps, {"foundprop"})
    <3>1. Msg("propertiessent") \in UpMsgs /\ Msg("propertiessent").type = "propertiessent"
      BY UpMsgFacts DEF UpTypes
    <3> QED
      BY <3>1, SingleFacts
  <2> HIDE DEF fp, ps
  <2>5. PropsIn(fp) = Own(a) /\ Once(fp)
    <3>1. \A p : p \in PropsIn(fp) <=> p \in Own(a)
      BY <1>2, <2>3, PropsAre
    <3>2. Once(fp)
      BY <1>2, <2>3 DEF Once, Tidy
    <3> QED
      BY <3>1, <3>2
  <2>6. /\ up[a] \o fp \in Seq(UpMsgs)
        /\ PropsIn(up[a] \o fp) = PropsIn(up[a]) \cup PropsIn(fp)
        /\ Once(up[a] \o fp)
    BY <1>0, <1>2, <2>3, <2>5, PropsWritten, ConcatFacts DEF Tidy
  <2>7. up'[a] = (up[a] \o fp) \o ps /\ found'[a] = <<>>
        /\ \A n \in Agents \ {a} : At(n)' = At(n) /\ Tidy(n)'
    BY <1>1, <2>1
  <2>8. PropsIn(up'[a]) = At(a) /\ Once(up'[a])
    <3>1. PropsIn(ps) = {} /\ Once(ps)
      BY <2>4, PropsOf
    <3> DEFINE u == up[a] \o fp
    <3>2. u \in Seq(UpMsgs) /\ PropsIn(u) = At(a) /\ Once(u)
      BY <2>5, <2>6 DEF At
    <3>3. up'[a] = u \o ps
      BY <2>7
    <3> HIDE DEF u
    <3>4. PropsIn(u \o ps) = PropsIn(u) \cup PropsIn(ps)
      BY <2>4, <3>2, PropsWritten
    <3>5. Once(u \o ps)
      BY <2>4, <3>1, <3>2, PropsWritten
    <3> QED
      BY <3>1, <3>2, <3>3, <3>4, <3>5
  <2>9. Own(a)' = {} /\ DOMAIN found'[a] = {}
    BY <2>7 DEF Own
  <2>10. At(a)' = At(a) /\ Tidy(a)'
    BY <2>8, <2>9 DEF At, Tidy
  <2> QED
    BY <2>1, <2>7, <2>10, StayApart
<1>4. ASSUME NEW ms \in Seq(UpMsgs), ~Has(ms, {"foundprop"}), up' = [up EXCEPT ![a] = @ \o ms],
             found' = found, nprops' = nprops
      PROVE  Apart' /\ Travelling' = Travelling /\ nprops' = nprops
  <2>1. found' = [found EXCEPT ![a] = found[a]]
    BY <1>0, <1>4
  <2>2. up'[a] = up[a] \o ms /\ \A n \in Agents \ {a} : At(n)' = At(n) /\ Tidy(n)'
    BY <1>1, <1>4, <2>1
  <2>3. Own(a)' = Own(a)
    BY <1>4 DEF Own
  <2>4. At(a)' = At(a) /\ Tidy(a)'
    BY <1>0, <1>2, <1>4, <2>2, <2>3, SilentKeeps
  <2> QED
    BY <1>4, <2>2, <2>4, StayApart
<1>5. ASSUME NEW ms \in Seq(UpMsgs), ~Has(ms, {"foundprop"}), up' = [up EXCEPT ![a] = @ \o ms], Finds(a),
             Property(a) \notin Travelling
      PROVE  Apart' /\ Travelling' = Travelling \cup {Property(a)}
  <2> DEFINE q == Property(a)
             f == found[a]
             g == Append(f, q)
  <2> HIDE DEF q
  <2>0. f \in Seq(Props)
    BY <1>0
  <2>1. up'[a] = up[a] \o ms /\ found'[a] = g /\ \A n \in Agents \ {a} : At(n)' = At(n) /\ Tidy(n)'
    BY <1>1, <1>5 DEF Finds, q
  <2>2. q \notin At(a)
    BY <1>5, TravellingAt DEF q
  <2>3. /\ Len(f) \in Nat /\ DOMAIN f = 1..Len(f) /\ DOMAIN g = 1..(Len(f) + 1)
        /\ \A i \in 1..Len(f) : g[i] = f[i]
        /\ g[Len(f) + 1] = q
    BY <2>0
  <2>4. \A i \in DOMAIN g : i \in DOMAIN f \/ i = Len(f) + 1
    BY <2>3
  <2>5. \A i \in DOMAIN f : f[i] # q
    BY <1>2, <2>2 DEF At
  <2>6. \A i, j \in DOMAIN g : g[i] = g[j] => i = j
    <3>1. \A i, j \in DOMAIN f : f[i] = f[j] => i = j
      BY <1>2 DEF Tidy
    <3> HIDE DEF f, g
    <3> QED
      BY <2>3, <2>4, <2>5, <3>1
  <2>7. {g[i] : i \in DOMAIN g} = {f[i] : i \in DOMAIN f} \cup {q}
    <3> HIDE DEF f, g
    <3>1. \A i \in DOMAIN f : i \in DOMAIN g /\ g[i] = f[i]
      BY <2>3
    <3>2. Len(f) + 1 \in DOMAIN g
      BY <2>3
    <3> QED
      BY <2>3, <2>4, <3>1, <3>2
  <2>8. Own(a)' = Own(a) \cup {q}
    <3>1. Own(a)' = {g[i] : i \in DOMAIN g}
      BY <2>1 DEF Own
    <3> QED
      BY <1>2, <2>7, <3>1
  <2>9. PropsIn(up'[a]) = PropsIn(up[a]) /\ Once(up'[a])
    BY <1>0, <1>2, <1>5, <2>1, SilentKeeps
  <2>10. At(a)' = At(a) \cup {q}
    BY <2>8, <2>9 DEF At
  <2>11. Tidy(a)'
    <3>1. PropsIn(up'[a]) \cap Own(a)' = {}
      BY <1>2, <2>2, <2>8, <2>9 DEF Tidy, At
    <3>2. \A i, j \in DOMAIN found'[a] : found'[a][i] = found'[a][j] => i = j
      BY <2>1, <2>6
    <3> QED
      BY <2>9, <3>1, <3>2 DEF Tidy
  <2>12. \A n \in Agents : q \notin At(n)
    BY <1>5, TravellingAt DEF q
  <2>13. \A n \in Agents : At(n)' = IF n = a THEN At(a) \cup {q} ELSE At(n)
    BY <2>1, <2>10
  <2>14. \A m, n \in Agents : m # n => At(m)' \cap At(n)' = {}
    <3>1. \A m, n \in Agents : m # n => At(m) \cap At(n) = {}
      BY DEF Apart
    <3> QED
      BY <2>12, <2>13, <3>1
  <2>15. Apart'
    BY <2>1, <2>11, <2>14 DEF Apart
  <2>16. (\A p : p \in Travelling <=> \E n \in Agents : p \in At(n))'
    BY TravellingAt, PTL
  <2>17. \A p : (\E n \in Agents : p \in At(n)') <=> (p = q \/ \E n \in Agents : p \in At(n))
    BY <2>13
  <2>18. Travelling' = Travelling \cup {q}
    BY <2>16, <2>17, TravellingAt
  <2> QED
    BY <2>15, <2>18 DEF q
<1>6. CASE \E ms \in Seq(UpMsgs) : /\ ~Has(ms, {"foundprop"})
                                   /\ up' = [up EXCEPT ![a] = @ \o ms]
                                   /\ (found' = found /\ nprops' = nprops) \/ Finds(a)
  BY <1>4, <1>5, <1>6
<1> QED
  BY <1>3, <1>6, AAWrites

-----------------------------------------------------------------------------
(* A high-level agent moves properties from its child to itself or on.     *)

\* h reads a message of its child c, writes ms and keeps Y.
LEMMA NotedProps ==
    ASSUME Types, Apart, NEW h \in HLAs, NEW c \in Children(h), up[c] # <<>>,
           NEW ms \in Seq(UpMsgs), up' = ForwardUp(c, h, ms), found' = found,
           NEW Y, properties' = [properties EXCEPT ![h] = Y],
           NEW X, IF Head(up[c]).type = "foundprop" THEN X = Head(up[c]).props ELSE X = {},
           Once(ms), PropsIn(ms) \cap PropsIn(up[h]) = {}, Y \cap (PropsIn(up[h]) \cup PropsIn(ms)) = {},
           PropsIn(up[h]) \cup PropsIn(ms) \cup Y = At(h) \cup X
    PROVE  Apart' /\ Travelling' = Travelling
<1> /\ h \in Agents /\ h \notin AAs /\ c \in Agents /\ c # h
  BY TreeFacts DEF Children
<1>0. up \in [Agents -> Seq(UpMsgs)] /\ properties \in [HLAs -> SUBSET Props]
  BY DEF Types, StreamTypes, HLATypes
<1>1. /\ up'[c] = Tail(up[c]) /\ up'[h] = up[h] \o ms /\ \A n \in Agents \ {c, h} : up'[n] = up[n]
      /\ properties'[h] = Y /\ \A n \in HLAs : n # h => properties'[n] = properties[n]
  <2>1. /\ ForwardUp(c, h, ms)[c] = Tail(up[c])
        /\ ForwardUp(c, h, ms)[h] = up[h] \o ms
        /\ \A n \in Agents \ {c, h} : ForwardUp(c, h, ms)[n] = up[n]
    BY <1>0 DEF ForwardUp
  <2>2. properties'[h] = Y /\ \A n \in HLAs : n # h => properties'[n] = properties[n]
    BY <1>0
  <2> QED
    BY <2>1, <2>2
<1>2. \A n \in Agents \ {c, h} : Tidy(n)' /\ At(n)' = At(n)
  <2> SUFFICES ASSUME NEW n \in Agents \ {c, h} PROVE Tidy(n)' /\ At(n)' = At(n)
    OBVIOUS
  <2>1. Idle(n)
    BY <1>1 DEF Idle
  <2> QED
    BY <2>1, IdleKeeps DEF Apart
<1>3. /\ Tidy(c) /\ Tidy(h) /\ At(c) \cap At(h) = {}
  BY DEF Apart
<1>4. /\ PropsIn(up[c]) = X \cup PropsIn(up'[c]) /\ X \cap PropsIn(up'[c]) = {}
      /\ Once(up'[c])
  <2> DEFINE s == up[c]
             t == Tail(s)
  <2>1. s \in Seq(UpMsgs) /\ s # <<>> /\ Once(s)
    BY <1>0, <1>3 DEF Tidy
  <2>2. up'[c] = t
    BY <1>1
  <2>3. /\ Head(s).type = "foundprop" => PropsIn(s) = Head(s).props \cup PropsIn(t)
        /\ Head(s).type # "foundprop" => PropsIn(s) = PropsIn(t)
        /\ Once(t)
        /\ Head(s).type = "foundprop" => Head(s).props \cap PropsIn(t) = {}
    <3> HIDE DEF s
    <3> QED
      BY <2>1, PropsRead
  <2> QED
    BY <2>2, <2>3
<1>5. Own(c)' = Own(c)
  <2>1. CASE c \in AAs
    <3>1. {found'[c][i] : i \in DOMAIN found'[c]} = {found[c][i] : i \in DOMAIN found[c]}
      OBVIOUS
    <3> QED
      BY <2>1, <3>1 DEF Own
  <2>2. CASE c \notin AAs
    BY <1>1, <2>2, TreeFacts DEF Own
  <2> QED
    BY <2>1, <2>2
<1>6. At(c)' = At(c) \ X /\ X \in SUBSET At(c)
  <2>1. PropsIn(up[c]) \cap Own(c) = {}
    BY <1>3 DEF Tidy
  <2> QED
    BY <1>4, <1>5, <2>1 DEF At
<1>7. Tidy(c)'
  <2>1. c \in AAs => \A i, j \in DOMAIN found'[c] : found'[c][i] = found'[c][j] => i = j
    BY <1>3 DEF Tidy
  <2>2. PropsIn(up'[c]) \cap Own(c)' = {}
    BY <1>3, <1>4, <1>5 DEF Tidy
  <2> QED
    BY <1>4, <2>1, <2>2 DEF Tidy
<1>8. PropsIn(up'[h]) = PropsIn(up[h]) \cup PropsIn(ms) /\ Once(up'[h])
  BY <1>0, <1>1, <1>3, PropsWritten DEF Tidy
<1>9. Own(h)' = Y
  BY <1>1 DEF Own
<1>10. At(h)' = At(h) \cup X /\ Tidy(h)'
  BY <1>8, <1>9 DEF At, Tidy
<1> QED
  BY <1>2, <1>6, <1>7, <1>10, MoveApart

LEMMA HLAProps ==
    ASSUME Types, Apart, NEW h \in HLAs, HLAStep(h), UNCHANGED aaVars
    PROVE  Apart' /\ Travelling' = Travelling
<1> h \in Agents /\ h \notin AAs
  BY TreeFacts
<1>0. /\ up \in [Agents -> Seq(UpMsgs)] /\ properties \in [HLAs -> SUBSET Props]
      /\ found' = found
  BY DEF Types, StreamTypes, HLATypes, aaVars
<1>1. ASSUME NEW ms \in Seq(UpMsgs), ~Has(ms, {"foundprop"}), up' = [up EXCEPT ![h] = @ \o ms],
             properties' = properties
      PROVE  Apart' /\ Travelling' = Travelling
  <2>1. up'[h] = up[h] \o ms /\ \A n \in Agents \ {h} : up'[n] = up[n]
    BY <1>0, <1>1
  <2>2. ASSUME NEW n \in Agents \ {h} PROVE Tidy(n)' /\ At(n)' = At(n)
    <3>1. Idle(n)
      BY <1>0, <1>1, <2>1 DEF Idle
    <3> QED
      BY <3>1, IdleKeeps DEF Apart
  <2>3. Tidy(h) /\ Own(h)' = Own(h)
    BY <1>1 DEF Apart, Own
  <2>4. Tidy(h)' /\ At(h)' = At(h)
    BY <1>0, <1>1, <2>1, <2>3, SilentKeeps
  <2> QED
    BY <2>2, <2>4, StayApart
<1>2. ASSUME up' = up, properties' = properties PROVE Apart' /\ Travelling' = Travelling
  <2>1. up' = [up EXCEPT ![h] = @ \o <<>>]
    BY <1>0, <1>2
  <2> QED
    BY <1>1, <1>2, <2>1, EmptyFacts
<1>3. CASE HLARun(h) \/ HLAHandleRequest(h)
  BY <1>2, <1>3 DEF HLARun, HLAHandleRequest, HLAOnStart, HLAOnCheck, HLAOnTerminate, HLAOnSerializeCalltree,
                    HLAOnReinit, HLAOnQuit, hlaVars
<1>4. CASE HLAHandleTimeout(h)
  <2>1. Msg("heartbeat") \in UpMsgs /\ Msg("heartbeat").type = "heartbeat"
    BY UpMsgFacts DEF UpTypes
  <2>2. <<Msg("heartbeat")>> \in Seq(UpMsgs) /\ ~Has(<<Msg("heartbeat")>>, {"foundprop"})
    BY <2>1, SingleFacts
  <2>3. Append(up[h], Msg("heartbeat")) = up[h] \o <<Msg("heartbeat")>>
    BY <1>0, <2>1
  <2>4. properties' = properties /\ (up' = up \/ up' = [up EXCEPT ![h] = @ \o <<Msg("heartbeat")>>])
    BY <1>4, <2>3 DEF HLAHandleTimeout
  <2> QED
    BY <1>1, <1>2, <2>2, <2>4
<1>5. ASSUME NEW c \in Agents, HLAHandleMessage(h, c) PROVE Apart' /\ Travelling' = Travelling
  <2>0. c \in Children(h) /\ c # h
    BY <1>5, TreeFacts DEF HLAHandleMessage, Children
  <2>1. ASSUME NEW ms \in Seq(UpMsgs), ~Has(ms, {"foundprop"}), up[c] # <<>>, Head(up[c]).type # "foundprop",
               up' = ForwardUp(c, h, ms), properties' = properties
        PROVE  Apart' /\ Travelling' = Travelling
    <3>1. PropsIn(ms) = {} /\ Once(ms)
      BY <2>1, PropsOf
    <3>2. /\ properties' = [properties EXCEPT ![h] = properties[h]]
          /\ Own(h) = properties[h]
      BY <1>0, <2>1 DEF Own
    <3>3. PropsIn(up[h]) \cap properties[h] = {} /\ At(h) = PropsIn(up[h]) \cup properties[h]
      BY <3>2 DEF Apart, Tidy, At
    <3> DEFINE Y == properties[h]
    <3>4. /\ properties' = [properties EXCEPT ![h] = Y]
          /\ PropsIn(ms) \cap PropsIn(up[h]) = {} /\ Y \cap (PropsIn(up[h]) \cup PropsIn(ms)) = {}
          /\ PropsIn(up[h]) \cup PropsIn(ms) \cup Y = At(h) \cup {}
          /\ IF Head(up[c]).type = "foundprop" THEN {} = Head(up[c]).props ELSE {} = {}
      BY <2>1, <3>1, <3>2, <3>3
    <3> HIDE DEF Y
    <3> QED
      BY <1>0, <2>0, <2>1, <3>1, <3>4, NotedProps
  <2>2. <<>> \in Seq(UpMsgs) /\ ~Has(<<>>, {"foundprop"})
    BY EmptyFacts
  <2>3. \A t \in UpTypes : <<Msg(t)>> \in Seq(UpMsgs) /\ ~Has(<<Msg(t)>>, {"foundprop"})
    <3> SUFFICES ASSUME NEW t \in UpTypes PROVE <<Msg(t)>> \in Seq(UpMsgs) /\ ~Has(<<Msg(t)>>, {"foundprop"})
      OBVIOUS
    <3>1. Msg(t) \in UpMsgs /\ Msg(t).type # "foundprop"
      BY UpMsgFacts DEF UpTypes, SearchRequests
    <3> QED
      BY <3>1, SingleFacts
  <2>4. CASE HLAOnHeartbeat(h, c)
    BY <2>1, <2>2, <2>4 DEF HLAOnHeartbeat, HasMessage, hlaVars
  <2>5. CASE HLAOnCalltree(h, c)
    <3>1. up[c] # <<>> /\ Head(up[c]).type = "calltree" /\ up' = ForwardUp(c, h, <<Head(up[c])>>)
          /\ properties' = properties
      BY <2>5 DEF HLAOnCalltree, HasMessage, hlaVars
    <3>2. Head(up[c]) \in UpMsgs
      BY <1>0, <3>1
    <3>3. <<Head(up[c])>> \in Seq(UpMsgs) /\ ~Has(<<Head(up[c])>>, {"foundprop"})
      BY <3>1, <3>2, SingleFacts
    <3> QED
      BY <2>1, <3>1, <3>3
  <2>6. CASE HLAOnCalltreeSent(h, c)
    BY <2>1, <2>2, <2>3, <2>6 DEF HLAOnCalltreeSent, HasMessage, hlaVars, UpTypes
  <2>7. CASE HLAOnSearchRequest(h, c)
    <3>1. \A cs, i : RequestOf(Combined(cs, i)) \in UpTypes
      BY DEF RequestOf, Combined, UpTypes, SearchRequests
    <3>2. up[c] # <<>> /\ Head(up[c]).type # "foundprop" /\ properties' = properties
      BY <2>7 DEF HLAOnSearchRequest, SearchRequests, hlaVars
    <3>3. \/ up' = ForwardUp(c, h, <<>>)
          \/ \E t \in UpTypes : up' = ForwardUp(c, h, <<Msg(t)>>)
      BY <2>7, <3>1 DEF HLAOnSearchRequest
    <3> QED
      BY <2>1, <2>2, <2>3, <3>2, <3>3
  <2>8. CASE HLAOnTerminated(h, c)
    BY <2>1, <2>2, <2>3, <2>8 DEF HLAOnTerminated, HasMessage, hlaVars, UpTypes
  <2>9. CASE HLAOnFoundProp(h, c)
    <3> DEFINE X == Head(up[c]).props
               ms == IF NoCluster THEN <<Head(up[c])>> ELSE <<>>
               Y == IF NoCluster THEN properties[h] ELSE properties[h] \cup X
    <3>1. /\ up[c] # <<>> /\ Head(up[c]).type = "foundprop" /\ up' = ForwardUp(c, h, ms)
          /\ properties' = [properties EXCEPT ![h] = Y]
      BY <1>0, <2>9 DEF HLAOnFoundProp, HasMessage
    <3>2. Head(up[c]) \in UpMsgs
      BY <1>0, <3>1
    <3>3. ms \in Seq(UpMsgs) /\ Once(ms) /\ PropsIn(ms) = IF NoCluster THEN X ELSE {}
      <4>1. <<Head(up[c])>> \in Seq(UpMsgs) /\ PropsIn(<<Head(up[c])>>) = X /\ Once(<<Head(up[c])>>)
        BY <3>1, <3>2, SingleFacts, PropsOf
      <4>2. PropsIn(<<>>) = {} /\ Once(<<>>)
        BY <2>2, PropsOf
      <4> QED
        BY <2>2, <4>1, <4>2
    <3>4. X \subseteq At(c)
      BY <1>0, <3>1, PropsRead DEF At
    <3>5. Own(h) = properties[h] /\ PropsIn(up[h]) \cap properties[h] = {} /\ X \cap At(h) = {}
      <4>1. At(c) \cap At(h) = {} /\ Tidy(h)
        BY <2>0 DEF Apart
      <4>2. Own(h) = properties[h]
        BY DEF Own
      <4> QED
        BY <3>4, <4>1, <4>2 DEF Tidy
    <3>6. At(h) = PropsIn(up[h]) \cup properties[h]
      BY <3>5 DEF At
    <3>7. /\ PropsIn(ms) \cap PropsIn(up[h]) = {} /\ Y \cap (PropsIn(up[h]) \cup PropsIn(ms)) = {}
          /\ PropsIn(up[h]) \cup PropsIn(ms) \cup Y = At(h) \cup X
      BY <3>3, <3>5, <3>6
    <3>8. IF Head(up[c]).type = "foundprop" THEN X = Head(up[c]).props ELSE X = {}
      BY <3>1
    <3> HIDE DEF X, Y, ms
    <3> QED
      BY <1>0, <2>0, <3>1, <3>3, <3>7, <3>8, NotedProps
  <2>10. CASE HLAOnPropertiesSent(h, c)
    <3>1. up[c] # <<>> /\ Head(up[c]).type # "foundprop"
      BY <2>10 DEF HLAOnPropertiesSent, HasMessage
    <3>2. CASE up' = ForwardUp(c, h, <<>>) /\ properties' = properties
      BY <2>1, <2>2, <3>1, <3>2
    <3>3. CASE /\ up' = ForwardUp(c, h, ClusterProps(h) \o <<Msg("propertiessent")>>)
               /\ properties' = [properties EXCEPT ![h] = {}]
      <4> DEFINE s == ClusterProps(h)
                 t == <<Msg("propertiessent")>>
                 ms == s \o t
      <4>1. s \in Seq(UpMsgs) /\ PropsIn(s) = properties[h] /\ Once(s)
        <5>1. CASE properties[h] = {}
          BY <2>2, <5>1, PropsOf DEF ClusterProps
        <5>2. CASE properties[h] # {}
          <6> DEFINE m == [type |-> "foundprop", props |-> properties[h]]
          <6>1. m \in UpMsgs /\ m.type = "foundprop" /\ m.props = properties[h] /\ s = <<m>>
            BY <1>0, <5>2, UpMsgFacts DEF ClusterProps
          <6> HIDE DEF m
          <6> QED
            BY <6>1, SingleFacts, PropsOf
        <5> QED
          BY <5>1, <5>2
      <4>2. t \in Seq(UpMsgs) /\ PropsIn(t) = {} /\ Once(t)
        BY <2>3, PropsOf DEF UpTypes
      <4>3. up' = ForwardUp(c, h, ms)
        BY <3>3
      <4> HIDE DEF s, t
      <4>4. ms \in Seq(UpMsgs) /\ PropsIn(ms) = PropsIn(s) \cup PropsIn(t) /\ Once(ms)
        <5>0. s \in Seq(UpMsgs) /\ t \in Seq(UpMsgs)
          BY <4>1, <4>2
        <5>1. ms \in Seq(UpMsgs)
          BY <5>0
        <5>2. PropsIn(ms) = PropsIn(s) \cup PropsIn(t)
          BY <4>1, <4>2, <5>0, PropsWritten, ZenonT(60)
        <5>3. Once(ms)
          BY <4>1, <4>2, <5>0, PropsWritten, ZenonT(60)
        <5> QED
          BY <5>1, <5>2, <5>3
      <4> HIDE DEF ms
      <4>5. Own(h) = properties[h] /\ PropsIn(up[h]) \cap properties[h] = {}
        BY DEF Apart, Tidy, Own
      <4> DEFINE Y == {}
                 X == {}
      <4>6. /\ PropsIn(ms) \cap PropsIn(up[h]) = {} /\ Y \cap (PropsIn(up[h]) \cup PropsIn(ms)) = {}
            /\ PropsIn(up[h]) \cup PropsIn(ms) \cup Y = At(h) \cup X
        BY <4>1, <4>2, <4>4, <4>5 DEF At
      <4>7. /\ IF Head(up[c]).type = "foundprop" THEN X = Head(up[c]).props ELSE X = {}
            /\ properties' = [properties EXCEPT ![h] = Y]
        BY <3>1, <3>3
      <4> HIDE DEF X, Y
      <4> QED
        BY <1>0, <2>0, <3>1, <4>3, <4>4, <4>6, <4>7, NotedProps
    <3> QED
      BY <2>10, <3>2, <3>3 DEF HLAOnPropertiesSent
  <2> QED
    BY <1>5, <2>4, <2>5, <2>6, <2>7, <2>8, <2>9, <2>10 DEF HLAHandleMessage
<1> QED
  BY <1>3, <1>4, <1>5 DEF HLAStep

-----------------------------------------------------------------------------
(* What becomes of the properties.                                         *)

FiledProps == {e.prop : e \in pools}
Known == Travelling \cup metaproperties \cup FiledProps

\* The numbers of the properties an agent has found, each in one place.
Counted ==
    /\ \A a \in AAs : {p.n : p \in {q \in Known : q.aa = a}} = 1..nprops[a]
    /\ Travelling \cap (metaproperties \cup FiledProps) = {}

\* A gather has filed its properties when it asks for the call-tree, any other
\* operation has none left then.
FiledWhere ==
    /\ metaproperties \cap FiledProps # {} => op = "gather" /\ stage = "calltree"
    /\ op = "gather" /\ stage = "calltree" => metaproperties \subseteq FiledProps
    /\ stage = "calltree" => loop = "REQUESTCALLTREE"

FiledOnce == \A e, f \in pools : e.prop = f.prop => e = f

Accounted == Apart /\ IsFiniteSet(Known) /\ Counted /\ FiledWhere /\ FiledOnce

LEMMA AccountedFor == Accounted => NothingLostOrDoubled
<1> SUFFICES ASSUME Accounted PROVE NothingLostOrDoubled
  OBVIOUS
<1>1. IsFiniteSet(FiledProps)
  BY FS_Subset DEF Accounted, Known
<1>2. ExistsBijection(pools, FiledProps)
  <2> DEFINE f == [e \in pools |-> e.prop]
  <2>1. f \in [pools -> FiledProps]
    BY DEF FiledProps
  <2>2. \A d, e \in pools : f[d] = f[e] => d = e
    BY DEF Accounted, FiledOnce
  <2>3. \A p \in FiledProps : \E e \in pools : f[e] = p
    BY DEF FiledProps
  <2> HIDE DEF f
  <2>4. f \in Bijection(pools, FiledProps)
    BY <2>1, <2>2, <2>3, Fun_IsBij
  <2> QED
    BY <2>4, Fun_ExistsBij
<1>3. Cardinality(pools) = Cardinality(FiledProps)
  BY <1>1, <1>2, Fun_ExistsBijSymmetric, FS_Bijection
<1> QED
  BY <1>3 DEF NothingLostOrDoubled, Accounted, Counted, FiledWhere, Known, FiledProps

\* The properties known are the same, in other places.
LEMMA SameKnown ==
    ASSUME Counted, nprops' = nprops, Known' = Known,
           (Travelling \cap (metaproperties \cup FiledProps) = {})'
    PROVE  Counted'
  BY DEF Counted

\* There is a new one.
LEMMA NewCounted ==
    ASSUME Types, NEW a \in AAs, \A b \in AAs : {p.n : p \in {q \in Known : q.aa = b}} = 1..nprops[b]
    PROVE  /\ Property(a) \notin Known
           /\ \A k : /\ k = [nprops EXCEPT ![a] = @ + 1]
                     => \A b \in AAs : {p.n : p \in {q \in Known \cup {Property(a)} : q.aa = b}} = 1..k[b]
<1>0. nprops \in [AAs -> Nat]
  BY DEF Types, AATypes
<1> DEFINE x == Property(a)
           k0 == [nprops EXCEPT ![a] = @ + 1]
<1>1. x.aa = a /\ x.n = nprops[a] + 1
  BY DEF Property
<1>2. \A b \in AAs : \A i : i \in 1..nprops[b] <=> \E q \in Known : q.aa = b /\ q.n = i
  <2> SUFFICES ASSUME NEW b \in AAs, NEW i
               PROVE  i \in 1..nprops[b] <=> \E q \in Known : q.aa = b /\ q.n = i
    OBVIOUS
  <2> DEFINE N == {p.n : p \in {q \in Known : q.aa = b}}
  <2>1. i \in N <=> \E q \in Known : q.aa = b /\ q.n = i
    OBVIOUS
  <2>2. N = 1..nprops[b]
    OBVIOUS
  <2> HIDE DEF N
  <2> QED
    BY <2>1, <2>2
<1> HIDE DEF x
<1>3. x \notin Known
  <2>1. nprops[a] \in Nat /\ nprops[a] + 1 \notin 1..nprops[a]
    BY <1>0
  <2> QED
    BY <1>1, <1>2, <2>1
<1>4. ASSUME NEW b \in AAs PROVE {p.n : p \in {q \in Known \cup {x} : q.aa = b}} = 1..k0[b]
  <2> DEFINE M == {p.n : p \in {q \in Known \cup {x} : q.aa = b}}
  <2>1. \A i : i \in M <=> \/ \E q \in Known : q.aa = b /\ q.n = i
                           \/ x.aa = b /\ x.n = i
    OBVIOUS
  <2> HIDE DEF M
  <2>2. \A i : i \in M <=> i \in 1..nprops[b] \/ (a = b /\ i = nprops[a] + 1)
    BY <1>1, <1>2, <2>1
  <2>3. nprops[b] \in Nat /\ k0[b] = IF b = a THEN nprops[b] + 1 ELSE nprops[b]
    BY <1>0
  <2> HIDE DEF k0
  <2>4. \A i : i \in 1..k0[b] <=> i \in 1..nprops[b] \/ (a = b /\ i = nprops[a] + 1)
    BY <2>3
  <2>5. M = 1..k0[b]
    BY <2>2, <2>4
  <2> QED
    BY <2>5 DEF M
<1> QED
  BY <1>3, <1>4 DEF x

\* The agents.
LEMMA AgentAccounts ==
    ASSUME Types, Accounted, NEW n \in Agents, AgentStep(n)
    PROVE  Accounted'
<1>1. UNCHANGED <<op, stage, loop, metaproperties, pools>>
  BY DEF AgentStep, feVars, ctlVars, loopVars
<1>2. FiledProps' = FiledProps
  BY <1>1 DEF FiledProps
<1>3. FiledWhere' /\ FiledOnce'
  BY <1>1, <1>2 DEF Accounted, FiledWhere, FiledOnce
<1>4. ASSUME Apart', Travelling' = Travelling, nprops' = nprops PROVE Accounted'
  <2>1. Known' = Known
    BY <1>1, <1>2, <1>4 DEF Known
  <2>2. Counted'
    BY <1>1, <1>2, <1>4, <2>1 DEF Counted, Accounted
  <2> QED
    BY <1>3, <1>4, <2>1, <2>2 DEF Accounted
<1>5. ASSUME NEW a \in AAs, Finds(a),
             Property(a) \notin Travelling => Apart' /\ Travelling' = Travelling \cup {Property(a)}
      PROVE  Accounted'
  <2> DEFINE x == Property(a)
  <2>1. x \notin Known
    BY NewCounted DEF Accounted, Counted
  <2>2. Apart' /\ Travelling' = Travelling \cup {x}
    BY <1>5, <2>1 DEF Known
  <2>3. \A b \in AAs : {p.n : p \in {q \in Known \cup {x} : q.aa = b}} = 1..nprops'[b]
    <3>1. nprops' = [nprops EXCEPT ![a] = @ + 1]
      BY <1>5 DEF Finds
    <3> QED
      BY <3>1, NewCounted, ZenonT(60) DEF Accounted, Counted
  <2> HIDE DEF x
  <2>4. Known' = Known \cup {x}
    BY <1>1, <1>2, <2>2 DEF Known
  <2>5. IsFiniteSet(Known)'
    BY <2>4, FS_AddElement DEF Accounted
  <2>6. (Travelling \cap (metaproperties \cup FiledProps) = {})'
    BY <1>1, <1>2, <2>1, <2>2 DEF Accounted, Counted, Known
  <2>7. Counted'
    BY <2>3, <2>4, <2>6 DEF Counted
  <2> QED
    BY <1>3, <2>2, <2>5, <2>7 DEF Accounted
<1>6. CASE n \in AAs /\ AAStep(n) /\ UNCHANGED hlaVars
  BY <1>4, <1>5, <1>6, AAProps DEF Accounted
<1>7. CASE n \in HLAs /\ HLAStep(n) /\ UNCHANGED aaVars
  <2>1. nprops' = nprops
    BY <1>7 DEF aaVars
  <2>2. Apart' /\ Travelling' = Travelling
    BY <1>7, HLAProps DEF Accounted
  <2> QED
    BY <1>4, <2>1, <2>2
<1> QED
  BY <1>6, <1>7 DEF AgentStep

\* The frontend takes the properties of one message.
LEMMA TakenProps ==
    ASSUME Types, Apart, NEW c \in Agents, up[c] # <<>>, ReadMessage(c), UNCHANGED <<found, properties>>,
           NEW X, IF Head(up[c]).type = "foundprop" THEN X = Head(up[c]).props ELSE X = {}
    PROVE  Apart' /\ Travelling' = Travelling \ X /\ X \subseteq Travelling
<1>0. up \in [Agents -> Seq(UpMsgs)]
  BY DEF Types, StreamTypes
<1>1. up'[c] = Tail(up[c]) /\ \A n \in Agents \ {c} : up'[n] = up[n]
  BY <1>0 DEF ReadMessage
<1>2. \A n \in Agents \ {c} : Tidy(n)' /\ At(n)' = At(n)
  <2> SUFFICES ASSUME NEW n \in Agents \ {c} PROVE Tidy(n)' /\ At(n)' = At(n)
    OBVIOUS
  <2>1. Idle(n)
    BY <1>1 DEF Idle
  <2> QED
    BY <2>1, IdleKeeps DEF Apart
<1>3. Tidy(c)
  BY DEF Apart
<1>4. /\ PropsIn(up[c]) = X \cup PropsIn(up'[c]) /\ X \cap PropsIn(up'[c]) = {}
      /\ Once(up'[c])
  <2> DEFINE s == up[c]
             t == Tail(s)
  <2>1. s \in Seq(UpMsgs) /\ s # <<>> /\ Once(s)
    BY <1>0, <1>3 DEF Tidy
  <2>2. up'[c] = t
    BY <1>1
  <2>3. /\ Head(s).type = "foundprop" => PropsIn(s) = Head(s).props \cup PropsIn(t)
        /\ Head(s).type # "foundprop" => PropsIn(s) = PropsIn(t)
        /\ Once(t)
        /\ Head(s).type = "foundprop" => Head(s).props \cap PropsIn(t) = {}
    <3> HIDE DEF s
    <3> QED
      BY <2>1, PropsRead
  <2> QED
    BY <2>2, <2>3
<1>5. Own(c)' = Own(c)
  <2>1. CASE c \in AAs
    <3>1. {found'[c][i] : i \in DOMAIN found'[c]} = {found[c][i] : i \in DOMAIN found[c]}
      OBVIOUS
    <3> QED
      BY <2>1, <3>1 DEF Own
  <2>2. CASE c \notin AAs
    BY <2>2 DEF Own
  <2> QED
    BY <2>1, <2>2
<1>6. At(c)' = At(c) \ X /\ X \in SUBSET At(c)
  <2>1. PropsIn(up[c]) \cap Own(c) = {}
    BY <1>3 DEF Tidy
  <2> QED
    BY <1>4, <1>5, <2>1 DEF At
<1>7. Tidy(c)'
  <2>1. c \in AAs => \A i, j \in DOMAIN found'[c] : found'[c][i] = found'[c][j] => i = j
    BY <1>3 DEF Tidy
  <2>2. PropsIn(up'[c]) \cap Own(c)' = {}
    BY <1>3, <1>4, <1>5 DEF Tidy
  <2> QED
    BY <1>4, <2>1, <2>2 DEF Tidy
<1>8. \A m, n \in Agents : m # n => At(m) \cap At(n) = {}
  BY DEF Apart
<1>9. \A n \in Agents : At(n)' = IF n = c THEN At(c) \ X ELSE At(n)
  BY <1>2, <1>6
<1>10. \A m, n \in Agents : m # n => At(m)' \cap At(n)' = {}
  BY <1>8, <1>9
<1>11. Apart'
  BY <1>2, <1>7, <1>10 DEF Apart
<1>12. (\A p : p \in Travelling <=> \E n \in Agents : p \in At(n))'
  BY TravellingAt, PTL
<1>13. \A p : (\E n \in Agents : p \in At(n)') <=> (p \notin X /\ \E n \in Agents : p \in At(n))
  BY <1>6, <1>8, <1>9
<1>14. Travelling' = Travelling \ X
  BY <1>12, <1>13, TravellingAt
<1> QED
  BY <1>6, <1>11, <1>14, TravellingAt

\* Properties reach the frontend in the event loops in which it waits for a search.
LEMMA FoundWhileWaiting ==
    ASSUME Inv, NEW c \in Agents, HasMessage(c, "foundprop")
    PROVE  Waiting
<1>1. c \in In(up, {"foundprop"})
  <2>1. up[c] \in Seq(UpMsgs) /\ up[c] # <<>> /\ Head(up[c]).type \in {"foundprop"}
    BY DEF Inv, Types, StreamTypes, HasMessage
  <2>2. Has(up[c], {"foundprop"})
    BY <2>1, ReadFacts
  <2> QED
    BY <2>2 DEF In
<1>2. PICK B \in SUBSET Agents, C \in SUBSET Agents, T \in SUBSET Agents : Going(B, C, T)
  BY DEF Inv
<1>3. CheckOut(C)
  BY <1>1, <1>2, CheckOver DEF Going
<1> QED
  BY <1>2, <1>3 DEF Going, Phases

LEMMA FEMessageAccounts ==
    ASSUME Inv, Accounted, NEW c \in Agents, FEHandleMessage(c)
    PROVE  Accounted' /\ (Travelling \cup metaproperties)' = Travelling \cup metaproperties
<1>0. Types /\ up[c] # <<>>
  BY FEMessageKinds DEF Inv
<1>1. /\ UNCHANGED <<op, stage, loop, pools, nprops>> /\ UNCHANGED <<found, properties>> /\ ReadMessage(c)
  BY DEF FEHandleMessage, ctlVars, aaVars, hlaVars
<1>2. FiledProps' = FiledProps
  BY <1>1 DEF FiledProps
<1>3. CASE FEOnFoundProp(c)
  <2> DEFINE X == Head(up[c]).props
  <2>1. Head(up[c]).type = "foundprop" /\ metaproperties' = metaproperties \cup X
    BY <1>3 DEF FEOnFoundProp, HasMessage
  <2>2. Apart' /\ Travelling' = Travelling \ X /\ X \subseteq Travelling
    <3>1. IF Head(up[c]).type = "foundprop" THEN X = Head(up[c]).props ELSE X = {}
      BY <2>1
    <3> HIDE DEF X
    <3> QED
      BY <1>0, <1>1, <3>1, TakenProps DEF Accounted
  <2>3. stage # "calltree"
    BY <1>3, FoundWhileWaiting DEF FEOnFoundProp, Accounted, FiledWhere, Waiting
  <2> HIDE DEF X
  <2>4. Known' = Known
    BY <1>2, <2>1, <2>2 DEF Known
  <2>5. Travelling \cap (metaproperties \cup FiledProps) = {} /\ metaproperties \cap FiledProps = {}
    BY <2>3 DEF Accounted, Counted, FiledWhere
  <2>6. Counted'
    <3>1. (Travelling \cap (metaproperties \cup FiledProps) = {})'
      BY <1>2, <2>1, <2>2, <2>5
    <3> QED
      BY <1>1, <2>4, <3>1, SameKnown DEF Accounted
  <2>7. FiledWhere'
    BY <1>1, <1>2, <2>1, <2>2, <2>3, <2>5 DEF FiledWhere
  <2>8. (Travelling \cup metaproperties)' = Travelling \cup metaproperties
    BY <2>1, <2>2
  <2> QED
    BY <1>1, <2>2, <2>4, <2>6, <2>7, <2>8 DEF Accounted, FiledOnce
<1>4. CASE ~FEOnFoundProp(c)
  <2>1. Head(up[c]).type # "foundprop" /\ metaproperties' = metaproperties
    BY <1>4 DEF FEHandleMessage, FEOnHeartbeat, FEOnCalltree, FEOnSearchRequest, FEOnPropertiesSent, FEOnTerminated,
                FEOnCalltreeSent, HasMessage, SearchRequests
  <2>2. Apart' /\ Travelling' = Travelling
    <3> DEFINE X == {}
    <3>1. IF Head(up[c]).type = "foundprop" THEN X = Head(up[c]).props ELSE X = {}
      BY <2>1
    <3> HIDE DEF X
    <3>2. Apart' /\ Travelling' = Travelling \ X
      BY <1>0, <1>1, <3>1, TakenProps DEF Accounted
    <3> QED
      BY <3>2 DEF X
  <2>3. Known' = Known
    BY <1>2, <2>1, <2>2 DEF Known
  <2>4. Counted'
    BY <1>1, <1>2, <2>1, <2>2, <2>3 DEF Counted, Accounted
  <2> QED
    BY <1>1, <1>2, <2>1, <2>2, <2>3, <2>4 DEF Accounted, FiledWhere, FiledOnce
<1> QED
  BY <1>3, <1>4

\* Nothing is read.
LEMMA QuietAccounts ==
    ASSUME Accounted, UNCHANGED <<up, found, properties, nprops>>
    PROVE  /\ Apart' /\ Travelling' = Travelling
           /\ UNCHANGED <<metaproperties, pools>> => (IsFiniteSet(Known) /\ Counted /\ FiledOnce)'
<1>1. Apart' /\ Travelling' = Travelling
  <2>1. \A n \in Agents : Idle(n)
    BY DEF Idle
  <2>2. \A n \in Agents : Tidy(n)' /\ At(n)' = At(n)
    BY <2>1, IdleKeeps DEF Accounted, Apart
  <2> QED
    BY <2>2, StayApart DEF Accounted
<1>2. ASSUME UNCHANGED <<metaproperties, pools>> PROVE (IsFiniteSet(Known) /\ Counted /\ FiledOnce)'
  <2>1. FiledProps' = FiledProps
    BY <1>2 DEF FiledProps
  <2>2. Known' = Known
    BY <1>1, <1>2, <2>1 DEF Known
  <2> QED
    BY <1>1, <1>2, <2>1, <2>2 DEF Accounted, Counted, FiledOnce
<1> QED
  BY <1>1, <1>2

LEMMA FEAccounts ==
    ASSUME Inv, Accounted, FEStep
    PROVE  Accounted'
<1>0. Control
  BY DEF Inv
<1>1. CASE \E c \in Agents : FEHandleMessage(c)
  BY <1>1, FEMessageAccounts
<1>2. ASSUME UNCHANGED <<up, found, properties, nprops, metaproperties, pools>>, FiledWhere' PROVE Accounted'
  BY <1>2, QuietAccounts DEF Accounted
<1>3. ASSUME UNCHANGED <<metaproperties, pools>>, stage # "calltree", stage' # "calltree" PROVE FiledWhere'
  BY <1>3 DEF Accounted, FiledWhere, FiledProps
<1>4. ASSUME UNCHANGED <<metaproperties, pools>>, UNCHANGED <<op, stage, loop>> PROVE FiledWhere'
  BY <1>4 DEF Accounted, FiledWhere, FiledProps
<1>5. CASE FEHandleStep \/ FETimeout \/ FEQuitFinished
  <2>1. UNCHANGED <<up, found, properties, nprops, metaproperties, pools>> /\ UNCHANGED <<op, stage, loop>>
    BY <1>5 DEF FEHandleStep, FETimeout, FEQuitFinished, aaVars, hlaVars, ctlVars, loopVars, treeVars
  <2> QED
    BY <1>2, <1>4, <2>1
<1>6. CASE FERestart \/ FERerun \/ FEPhaseAgain \/ FERestartDone \/ FESearchEnded
  <2>1. UNCHANGED <<up, found, properties, nprops, metaproperties, pools>>
    BY <1>6 DEF FERestart, FERerun, FEPhaseAgain, FERestartDone, FESearchEnded, aaVars, hlaVars, treeVars
  <2>2. stage # "calltree" /\ stage' # "calltree"
    BY <1>0, <1>6 DEF FERestart, FERerun, FEPhaseAgain, FERestartDone, FESearchEnded, BeginRestart, Finished, Control
  <2> QED
    BY <1>2, <1>3, <2>1, <2>2
<1>7. CASE FEBegin("analysis") \/ FEBegin("phase") \/ FEConsiderRestart \/ FEFinalize
  <2>1. UNCHANGED <<up, found, properties, nprops, metaproperties, pools>>
    BY <1>7 DEF FEBegin, FEConsiderRestart, FEFinalize, aaVars, hlaVars, treeVars
  <2>2. stage # "calltree" /\ stage' # "calltree"
    BY <1>0, <1>7 DEF FEBegin, FEConsiderRestart, FEFinalize, BeginRestart, Control
  <2> QED
    BY <1>2, <1>3, <2>1, <2>2
<1>8. CASE FECalltreeDone
  <2>1. UNCHANGED <<up, found, properties, nprops, pools>> /\ stage = "calltree" /\ stage' = "run"
    BY <1>8 DEF FECalltreeDone, Finished, aaVars, hlaVars, treeVars
  <2>2. metaproperties' = IF op = "gather" THEN {} ELSE metaproperties
    BY <1>8 DEF FECalltreeDone
  <2>3. FiledProps' = FiledProps
    BY <2>1 DEF FiledProps
  <2>4. Apart' /\ Travelling' = Travelling
    BY <2>1, QuietAccounts
  <2>5. Known' = Known /\ metaproperties' \subseteq metaproperties
    BY <2>1, <2>2, <2>3, <2>4 DEF Known, Accounted, FiledWhere
  <2>6. Counted'
    BY <2>1, <2>3, <2>4, <2>5 DEF Counted, Accounted
  <2>7. FiledWhere'
    BY <2>1, <2>2, <2>3 DEF Accounted, FiledWhere
  <2> QED
    BY <2>1, <2>4, <2>5, <2>6, <2>7 DEF Accounted, FiledOnce
<1>9. CASE FEResults
  <2>1. UNCHANGED <<up, found, properties, nprops>> /\ stage # "calltree" /\ pools' = pools \cup Filed
    BY <1>9 DEF FEResults, aaVars, hlaVars, treeVars
  <2>2. \/ op = "gather" /\ stage' = "calltree" /\ UNCHANGED <<metaproperties, op>> /\ loop' = "REQUESTCALLTREE"
        \/ metaproperties' = {} /\ (stage' = "calltree" => loop' = "REQUESTCALLTREE" /\ op' # "gather")
    BY <1>9 DEF FEResults, EnterLoop, Finished
  <2>3. FiledProps' = FiledProps \cup metaproperties
    <3>1. \A e \in Filed : e.prop \in metaproperties
      BY DEF Filed
    <3>2. \A p \in metaproperties : [prop |-> p, step |-> nreq] \in Filed /\ [prop |-> p, step |-> nreq].prop = p
      BY DEF Filed
    <3>3. \A p : p \in {e.prop : e \in Filed} <=> p \in metaproperties
      BY <3>1, <3>2
    <3> QED
      BY <2>1, <3>3 DEF FiledProps
  <2>4. Apart' /\ Travelling' = Travelling
    BY <2>1, QuietAccounts
  <2>5. Known' = Known
    BY <2>2, <2>3, <2>4 DEF Known
  <2>6. Counted'
    <3>1. (Travelling \cap (metaproperties \cup FiledProps) = {})'
      BY <2>2, <2>3, <2>4 DEF Accounted, Counted
    <3> QED
      BY <2>1, <2>5, <3>1, SameKnown DEF Accounted
  <2>7. FiledWhere'
    BY <2>2, <2>3 DEF FiledWhere
  <2>8. FiledOnce'
    <3>1. metaproperties \cap FiledProps = {}
      BY <2>1 DEF Accounted, FiledWhere
    <3>2. \A e \in pools : e.prop \notin metaproperties
      BY <3>1 DEF FiledProps
    <3>3. \A e \in Filed : e.prop \in metaproperties /\ e = [prop |-> e.prop, step |-> nreq]
      BY DEF Filed
    <3>4. \A e, f \in pools : e.prop = f.prop => e = f
      BY DEF Accounted, FiledOnce
    <3> QED
      BY <2>1, <3>2, <3>3, <3>4 DEF FiledOnce
  <2> QED
    BY <2>4, <2>5, <2>6, <2>7, <2>8 DEF Accounted
<1> QED
  BY <1>1, <1>5, <1>6, <1>7, <1>8, <1>9 DEF FEStep

LEMMA InitAccounted == Init => Accounted
<1> SUFFICES ASSUME Init PROVE Accounted
  OBVIOUS
<1>1. /\ \A n \in Agents : up[n] = <<>> /\ Own(n) = {}
      /\ \A a \in AAs : DOMAIN found[a] = {}
  BY TreeFacts, EmptyFacts DEF Init, TreeInit, AAInit, HLAInit, Own
<1>2. \A n \in Agents : PropsIn(up[n]) = {} /\ Once(up[n])
  BY <1>1, EmptyFacts, PropsOf
<1>3. Apart
  BY <1>1, <1>2 DEF Apart, Tidy, At
<1>4. Travelling = {}
  BY <1>1, <1>2, TravellingAt DEF At
<1>5. Known = {} /\ FiledProps = {}
  BY <1>4 DEF Init, Known, FiledProps
<1>6. \A a \in AAs : nprops[a] = 0 /\ 1..0 = {}
  BY DEF Init, AAInit
<1>7. Counted
  BY <1>4, <1>5, <1>6 DEF Counted
<1>8. FiledWhere /\ FiledOnce
  BY DEF Init, FiledWhere, FiledOnce
<1> QED
  BY <1>3, <1>5, <1>7, <1>8, FS_EmptySet DEF Accounted

LEMMA StepAccounted == Inv /\ Accounted /\ [Next]_vars => Accounted'
<1> SUFFICES ASSUME Inv, Accounted, [Next]_vars PROVE Accounted'
  OBVIOUS
<1>1. CASE UNCHANGED vars
  <2>1. UNCHANGED <<up, found, properties, nprops, metaproperties, pools, op, stage, loop>>
    BY <1>1 DEF vars, treeVars, aaVars, hlaVars, feVars, loopVars, ctlVars
  <2>2. FiledWhere'
    BY <2>1 DEF Accounted, FiledWhere, FiledProps
  <2> QED
    BY <2>1, <2>2, QuietAccounts DEF Accounted
<1> QED
  BY <1>1, AgentAccounts, FEAccounts DEF Next, Inv

\* Every property an analysis agent ever added to foundProperties is in exactly
\* one place, whatever checks, repeated requests and restarts come in between:
\* with it, in a message, with a high-level agent that clusters, with the
\* frontend, or in a pool, once.
THEOREM NoneLostOrDoubled == NoRace /\ Spec => []NothingLostOrDoubled
<1>1. Init => Inv /\ Accounted
  BY InitInv, InitAccounted
<1>2. Inv /\ Accounted /\ NoRace /\ [Next]_vars => (Inv /\ Accounted)'
  BY StepInv, StepAccounted
<1>3. Accounted => NothingLostOrDoubled
  BY AccountedFor
<1>4. CASE NoRace
  <2>1. Inv /\ Accounted /\ [Next]_vars => (Inv /\ Accounted)'
    BY <1>2, <1>4
  <2> QED
    BY <1>1, <1>3, <2>1, PTL DEF Spec
<1> QED
  BY <1>4

-----------------------------------------------------------------------------
(* Why the application is restarted.                                       *)

\* A request to restart is on its way, or noted where it is still to count.
CheckGoing == AskedCheck \cup ToldCheck # {}

RestartComing ==
    \/ In(up, {"needrestart"}) # {}
    \/ \E n \in Agents : Parent[n] # FE /\ info[n].search_status = "REQRESTART"

RestartAsked ==
    RestartComing \/ (CheckGoing /\ \E c \in Children(FE) : info[c].search_status = "REQRESTART")

\* Then the processes of some agent are at their end, and it is not one of those
\* still to be told to let go of them.
AtEnd ==
    \A L \in SUBSET Agents :
        Told(In(down, Controls), L) /\ RestartAsked => \E a \in AAs \ L : NeedRestart(proc[a])

\* Who is still to be told follows from the streams.
LEMMA ToldOnce ==
    ASSUME NEW S, NEW L \in SUBSET Agents, NEW M \in SUBSET Agents, Told(S, L), Told(S, M)
    PROVE  L = M
<1>1. ASSUME NEW X \in SUBSET Agents, NEW Y \in SUBSET Agents, Told(S, X), Told(S, Y) PROVE X \subseteq Y
  <2>1. SUFFICES ASSUME X \ Y # {} PROVE FALSE
    OBVIOUS
  <2>2. X \ Y \in SUBSET Agents
    OBVIOUS
  <2>3. PICK n \in X \ Y : Parent[n] \notin X \ Y
    BY <2>1, <2>2, TopmostExists
  <2> QED
    BY <1>1, <2>3 DEF Told
<1> QED
  BY <1>1

\* An agent that does not read a control is told no less than before.
LEMMA ToldLess ==
    ASSUME Types, NEW n \in Agents, NEW L \in SUBSET Agents, NEW M \in SUBSET Agents,
           Told(In(down, Controls), L), Told(In(down', Controls), M),
           down' = down \/ \E t : Handled(n, t)
    PROVE  M \subseteq L
<1> DEFINE S == In(down, Controls)
           S2 == In(down', Controls)
<1>1. CASE S2 = S
  BY <1>1, ToldOnce
<1>2. CASE S2 # S
  <2>1. PICK t : Handled(n, t)
    BY <1>2
  <2>2. n \in S /\ S2 \subseteq S \cup Children(n) /\ (S \ {n}) \cup Children(n) \subseteq S2
    BY <1>2, <2>1 DEF Handled
  <2>3. S \in SUBSET Agents /\ S2 \in SUBSET Agents
    BY DEF In
  <2> HIDE DEF S, S2
  <2>4. Told(S, L) /\ Told(S2, M)
    BY DEF S, S2
  <2>5. PICK L2 \in SUBSET Agents : Told(S2, L2) /\ Fewer(L, L2, n)
    BY <2>2, <2>3, <2>4, ToldOn
  <2>6. L2 = M
    BY <2>4, <2>5, ToldOnce
  <2> QED
    BY <2>5, <2>6 DEF Fewer
<1> QED
  BY <1>1, <1>2

\* An analysis agent that begins or evaluates an experiment is not among them.
LEMMA SearcherNotTold ==
    ASSUME Inv, NEW L \in SUBSET Agents, Told(In(down, Controls), L), NEW a \in AAs,
           started[a] \/ \E t \in Searches : HasRequest(a, t)
    PROVE  a \notin L
<1>1. PICK M \in SUBSET Agents, R \in SUBSET Agents : Late(M, R)
  BY DEF Inv
<1>2. L = M
  BY <1>1, ToldOnce DEF Late
<1>3. CASE started[a]
  BY <1>1, <1>2, <1>3 DEF Late
<1>4. ASSUME NEW t \in Searches, HasRequest(a, t) PROVE a \notin L
  <2>1. a \in Agents /\ down[a] \in Seq(DownMsgs) /\ down[a] # <<>> /\ Head(down[a]).type = t
    BY <1>4, TreeFacts DEF Inv, Types, StreamTypes, HasRequest
  <2>2. Has(down[a], Searches)
    BY <2>1, ReadFacts
  <2>3. Behind(down[a], Searches, Controls)
    BY <1>1, <2>1 DEF Late, Ordered
  <2>4. ~Has(down[a], Controls)
    BY <2>1, <2>3, ReadFacts
  <2>5. a \in AskedSearch /\ a \notin In(down, Controls)
    BY <2>1, <2>2, <2>4 DEF AskedSearch, In
  <2>6. Parent[a] \notin M
    BY <1>1, <2>1, <2>5 DEF Late
  <2> QED
    BY <1>1, <1>2, <2>1, <2>5, <2>6 DEF Late, Told
<1> QED
  BY <1>3, <1>4

\* And one that is told to let go of its processes is.
LEMMA ControlledIsTold ==
    ASSUME Types, NEW L \in SUBSET Agents, Told(In(down, Controls), L), NEW a \in AAs, HasRequest(a, "reinit")
    PROVE  a \in L
<1>1. a \in Agents /\ down[a] \in Seq(DownMsgs) /\ down[a] # <<>> /\ Head(down[a]).type = "reinit"
  BY TreeFacts DEF Types, StreamTypes, HasRequest
<1>2. "reinit" \in Controls
  BY DEF Controls
<1>3. Has(down[a], Controls)
  BY <1>1, <1>2, ReadFacts
<1> QED
  BY <1>1, <1>3 DEF Told, In

\* What an analysis agent reports, and that of a search it reports nothing when it
\* answers a check or sends its call-tree.
LEMMA SentUp ==
    ASSUME Types, NEW a \in Agents, NEW t \in UpTypes, SendUp(a, t)
    PROVE  \A T : In(up', T) = In(up, T) \cup (IF t \in T THEN {a} ELSE {})
<1> DEFINE m == Msg(t)
<1>1. m \in UpMsgs /\ m.type = t /\ up \in [Agents -> Seq(UpMsgs)]
  BY UpMsgFacts DEF Types, StreamTypes
<1>2. up' = [up EXCEPT ![a] = Append(@, m)]
  BY DEF SendUp
<1> HIDE DEF m
<1>3. <<m>> \in Seq(UpMsgs) /\ \A T : Has(<<m>>, T) <=> t \in T
  BY <1>1, SingleFacts
<1>4. Append(up[a], m) = up[a] \o <<m>>
  BY <1>1
<1>5. up'[a] = up[a] \o <<m>> /\ \A k \in Agents : k # a => up'[k] = up[k]
  BY <1>1, <1>2, <1>4
<1>6. Extended(up, up', a, <<m>>)
  BY <1>1, <1>3, <1>5, ExtendAt
<1> QED
  BY <1>3, <1>6 DEF Extended

LEMMA SilentOnSearch ==
    ASSUME Types, NEW a \in AAs, AAStep(a), AAOnCheck(a) \/ AAOnSerializeCalltree(a)
    PROVE  \A T \in SUBSET SearchRequests : In(up', T) = In(up, T)
<1>0. down \in [Agents -> Seq(DownMsgs)] /\ a \in Agents
  BY TreeFacts DEF Types, StreamTypes
<1>1. down[a] # <<>> /\ Head(down[a]).type \notin Searches /\ down'[a] = Tail(down[a])
  BY <1>0 DEF AAOnCheck, AAOnSerializeCalltree, HasRequest, Searches, ReadRequest
<1>2. down' # down
  <2>1. Len(Tail(down[a])) # Len(down[a])
    BY <1>0, <1>1
  <2> QED
    BY <1>1, <2>1
<1>3. PICK ms \in Seq(UpMsgs) :
         /\ Extended(up, up', a, ms)
         /\ AAPlain(a, ms) \/ AAStarts(a, ms) \/ AAEvaluates(a, ms) \/ AAChecks(a, ms) \/ AASerializes(a, ms)
  BY AAKinds
<1>4. AAPlain(a, ms) \/ AAChecks(a, ms) \/ AASerializes(a, ms)
  BY <1>1, <1>2, <1>3 DEF AAStarts, AAEvaluates, ReadsDown
<1>5. SearchRequests \subseteq Answers \ {"propertiessent", "foundprop", "calltreesent"}
  BY AnswerFacts
<1>6. \A T \in SUBSET SearchRequests : ~Has(ms, T)
  BY <1>4, <1>5 DEF AAPlain, AAChecks, AASerializes, Silent, CheckReply, TreeReply, Has
<1> QED
  BY <1>3, <1>6 DEF Extended

\* An analysis agent asks for a restart when its processes are at their end, and
\* only the processes started for it leave that state.
LEMMA AAAsks ==
    ASSUME Types, NEW a \in AAs, AAStep(a)
    PROVE  /\ info' = info
           /\ \/ In(up', {"needrestart"}) = In(up, {"needrestart"})
              \/ NeedRestart(proc'[a]) /\ (started[a] \/ \E t \in Searches : HasRequest(a, t))
           /\ \A b \in AAs : NeedRestart(proc[b]) => NeedRestart(proc'[b]) \/ (b = a /\ HasRequest(a, "reinit"))
<1> a \in Agents
  BY TreeFacts
<1>0. /\ up \in [Agents -> Seq(UpMsgs)] /\ down \in [Agents -> Seq(DownMsgs)]
      /\ proc \in [AAs -> ProcState]
  BY DEF Types, StreamTypes, AATypes
<1>1. info' = info
  BY AAKinds
<1>2. ASSUME NEW t \in UpTypes, t # "needrestart", SendUp(a, t)
      PROVE  In(up', {"needrestart"}) = In(up, {"needrestart"})
  BY <1>2, SentUp
<1>3. /\ {"heartbeat", "terminated", "searchfinished", "reqexperiment"} \subseteq UpTypes
      /\ "start" \in Searches /\ "startexperiment" \in Searches
  BY DEF UpTypes, SearchRequests, Searches
<1>4. ASSUME NEW s \in ProcState, NeedRestart(proc[a]) => NeedRestart(s), proc' = [proc EXCEPT ![a] = s]
      PROVE  \A b \in AAs : NeedRestart(proc[b]) => NeedRestart(proc'[b])
  BY <1>0, <1>4
<1>5. CASE AARun(a)
  <2>1. proc' = proc
    BY <1>5 DEF AARun, aaVars
  <2>2. In(up', {"needrestart"}) = In(up, {"needrestart"})
    BY <1>2, <1>3, <1>5 DEF AARun
  <2> QED
    BY <1>1, <2>1, <2>2
<1>6. CASE AAOnTerminate(a)
  <2>1. \A b \in AAs : NeedRestart(proc[b]) => NeedRestart(proc'[b])
    BY <1>4, <1>6 DEF AAOnTerminate, NeedRestart, ProcState
  <2>2. In(up', {"needrestart"}) = In(up, {"needrestart"})
    <3>1. SendUp(a, "terminated") /\ "terminated" \in UpTypes
      BY <1>3, <1>6 DEF AAOnTerminate
    <3> QED
      BY <1>2, <3>1
  <2> QED
    BY <1>1, <2>1, <2>2
<1>7. CASE AAOnQuit(a)
  <2>1. \A b \in AAs : NeedRestart(proc[b]) => NeedRestart(proc'[b])
    BY <1>4, <1>7 DEF AAOnQuit, NeedRestart, ProcState
  <2> QED
    BY <1>1, <1>7, <2>1 DEF AAOnQuit
<1>8. CASE AAOnReinit(a)
  <2>1. \A b \in AAs : b # a => proc'[b] = proc[b]
    BY <1>0, <1>8 DEF AAOnReinit
  <2>2. In(up', {"needrestart"}) = In(up, {"needrestart"})
    BY <1>2, <1>3, <1>8 DEF AAOnReinit
  <2> QED
    BY <1>1, <1>8, <2>1, <2>2 DEF AAOnReinit
<1>9. CASE AAOnCheck(a) \/ AAOnSerializeCalltree(a)
  <2>1. proc' = proc
    BY <1>9 DEF AAOnCheck, AAOnSerializeCalltree
  <2>2. In(up', {"needrestart"}) = In(up, {"needrestart"})
    BY <1>9, SilentOnSearch DEF SearchRequests
  <2> QED
    BY <1>1, <2>1, <2>2
<1>10. CASE AAOnStart(a)
  <2> DEFINE r == Head(Head(down[a]).requests)
  <2>1. PICK s \in IF r.delay THEN StopsAt(proc[a]) ELSE {proc[a]} :
           \/ /\ NeedRestart(s) /\ proc' = [proc EXCEPT ![a] = s]
              /\ SendUp(a, "searchfinished") \/ SendUp(a, "needrestart")
           \/ ~NeedRestart(s) /\ StartExperiment(a)
    BY <1>10 DEF AAOnStart
  <2>2. s \in ProcState /\ (NeedRestart(proc[a]) => NeedRestart(s))
    BY <1>0, <2>1 DEF StopsAt, NeedRestart, ProcState
  <2>3. CASE NeedRestart(s)
    <3>1. proc' = [proc EXCEPT ![a] = s] /\ (SendUp(a, "searchfinished") \/ SendUp(a, "needrestart"))
      BY <2>1, <2>3
    <3>2. NeedRestart(proc'[a]) /\ \A b \in AAs : NeedRestart(proc[b]) => NeedRestart(proc'[b])
      BY <1>0, <1>4, <2>2, <2>3, <3>1
    <3>3. SendUp(a, "searchfinished") => In(up', {"needrestart"}) = In(up, {"needrestart"})
      BY <1>2, <1>3
    <3>4. HasRequest(a, "start")
      BY <1>10 DEF AAOnStart
    <3> QED
      BY <1>1, <1>3, <3>1, <3>2, <3>3, <3>4
  <2>4. CASE ~NeedRestart(s)
    <3>1. up' = up /\ proc' = [proc EXCEPT ![a] = "working"]
      BY <2>1, <2>4 DEF StartExperiment
    <3>2. \A b \in AAs : NeedRestart(proc[b]) => NeedRestart(proc'[b])
      BY <1>4, <2>2, <2>4, <3>1 DEF ProcState
    <3> QED
      BY <1>1, <3>1, <3>2
  <2> QED
    BY <2>3, <2>4
<1>11. CASE AAOnStartExperiment(a)
  <2>1. CASE NeedRestart(proc[a])
    BY <1>1, <1>3, <1>11, <2>1 DEF AAOnStartExperiment
  <2>2. CASE ~NeedRestart(proc[a])
    <3>1. up' = up /\ proc' = [proc EXCEPT ![a] = "working"]
      BY <1>11, <2>2 DEF AAOnStartExperiment, StartExperiment
    <3>2. \A b \in AAs : NeedRestart(proc[b]) => NeedRestart(proc'[b])
      BY <1>4, <2>2, <3>1 DEF ProcState
    <3> QED
      BY <1>1, <3>1, <3>2
  <2> QED
    BY <2>1, <2>2
<1>12. CASE AAEvaluate(a)
  <2>1. PICK s \in StopsAt(proc[a]) :
           \/ /\ NeedRestart(s) /\ proc' = [proc EXCEPT ![a] = s]
           \/ \E next \in StopsAt(s), v \in Verdict(a) :
                 /\ proc' = [proc EXCEPT ![a] = next]
                 /\ SendUp(a, IF v = "finished" THEN "searchfinished"
                              ELSE IF NeedRestart(next) THEN "needrestart" ELSE "reqexperiment")
    BY <1>12 DEF AAEvaluate
  <2>2. s \in ProcState /\ (NeedRestart(proc[a]) => NeedRestart(s))
    BY <1>0, <2>1 DEF StopsAt, NeedRestart, ProcState
  <2>3. started[a]
    BY <1>12 DEF AAEvaluate
  <2>4. CASE NeedRestart(s) /\ proc' = [proc EXCEPT ![a] = s]
    <3>1. NeedRestart(proc'[a]) /\ \A b \in AAs : NeedRestart(proc[b]) => NeedRestart(proc'[b])
      BY <1>0, <1>4, <2>2, <2>4
    <3> QED
      BY <1>1, <2>3, <3>1
  <2>5. ASSUME NEW next \in StopsAt(s), NEW v, proc' = [proc EXCEPT ![a] = next],
               SendUp(a, IF v = "finished" THEN "searchfinished"
                         ELSE IF NeedRestart(next) THEN "needrestart" ELSE "reqexperiment")
        PROVE  /\ \/ In(up', {"needrestart"}) = In(up, {"needrestart"})
                  \/ NeedRestart(proc'[a])
               /\ \A b \in AAs : NeedRestart(proc[b]) => NeedRestart(proc'[b])
    <3>1. next \in ProcState /\ (NeedRestart(proc[a]) => NeedRestart(next))
      BY <2>2, <2>5 DEF StopsAt, NeedRestart, ProcState
    <3>2. \A b \in AAs : NeedRestart(proc[b]) => NeedRestart(proc'[b])
      BY <1>4, <2>5, <3>1
    <3>3. proc'[a] = next
      BY <1>0, <2>5
    <3>4. CASE NeedRestart(next)
      BY <3>2, <3>3, <3>4
    <3>5. CASE ~NeedRestart(next)
      <4>1. SendUp(a, "searchfinished") \/ SendUp(a, "reqexperiment")
        BY <2>5, <3>5
      <4>2. In(up', {"needrestart"}) = In(up, {"needrestart"})
        BY <1>2, <1>3, <4>1
      <4> QED
        BY <3>2, <4>2
    <3> QED
      BY <3>4, <3>5
  <2> QED
    BY <1>1, <2>1, <2>3, <2>4, <2>5
<1> QED
  BY <1>5, <1>6, <1>7, <1>8, <1>9, <1>10, <1>11, <1>12 DEF AAStep, AAHandleRequest

\* A high-level agent reads a report of its child c and notes it, or adds its own.
HLANotes(h, c) ==
    /\ up[c] # <<>> /\ Head(up[c]).type \in SearchRequests
    /\ LET now == [info EXCEPT ![c].search_status = StatusOf(Head(up[c]).type)]
       IN \/ /\ info' = now
             /\ \A T : In(up', T) \subseteq In(up, T)
          \/ /\ AllReported(Children(h), now)
             /\ info' = SetAll(h, "search_status", "UNDEFINED")
             /\ \A T : In(up', T) \subseteq
                          In(up, T) \cup (IF RequestOf(Combined(Children(h), now)) \in T THEN {h} ELSE {})

\* Otherwise it neither notes nor reports anything of a search.
LEMMA HLAReports ==
    ASSUME Types, NEW h \in HLAs, HLAStep(h)
    PROVE  \/ \E c \in Children(h) : HLANotes(h, c)
           \/ SameSearchNotes /\ \A T \in SUBSET SearchRequests : In(up', T) \subseteq In(up, T)
<1> h \in Agents
  BY TreeFacts
<1>0. up \in [Agents -> Seq(UpMsgs)] /\ info \in [Agents -> AgentInfo]
  BY DEF Types, StreamTypes, TreeTypes
<1> DEFINE Still == SameSearchNotes /\ \A T \in SUBSET SearchRequests : In(up', T) \subseteq In(up, T)
<1>2. ASSUME NEW c \in Agents, Parent[c] = h, up[c] # <<>>, NEW ms \in Seq(UpMsgs), up' = ForwardUp(c, h, ms)
      PROVE  \A T : In(up', T) \subseteq In(up, T) \cup (IF Has(ms, T) THEN {h} ELSE {})
  <2>1. c # h
    BY <1>2, TreeFacts
  <2>2. /\ up'[c] = Tail(up[c]) /\ up'[h] = up[h] \o ms
        /\ \A n \in Agents \ {c, h} : up'[n] = up[n]
    BY <1>0, <1>2, <2>1 DEF ForwardUp
  <2>3. PassedUp(up, up', c, h, ms)
    BY <1>0, <1>2, <2>1, <2>2, PassUp
  <2> QED
    BY <2>3 DEF PassedUp
<1> DEFINE NR == SearchRequests
<1>3. ASSUME NEW t \in UpTypes PROVE <<Msg(t)>> \in Seq(UpMsgs) /\ \A T : Has(<<Msg(t)>>, T) <=> t \in T
  <2>1. Msg(t) \in UpMsgs /\ Msg(t).type = t
    BY <1>3, UpMsgFacts
  <2> QED
    BY <2>1, SingleFacts
<1>4. <<>> \in Seq(UpMsgs) /\ \A T : ~Has(<<>>, T)
  BY EmptyFacts
<1>5. /\ {"heartbeat", "terminated", "calltreesent", "propertiessent"} \subseteq UpTypes /\ SearchRequests \subseteq UpTypes
      /\ {"heartbeat", "terminated", "calltreesent", "propertiessent", "foundprop", "calltree"} \cap NR = {}
  BY DEF UpTypes, SearchRequests
<1> HIDE DEF NR
<1>6. CASE HLARun(h)
  BY <1>6 DEF HLARun, SameSearchNotes
<1>7. CASE HLAHandleRequest(h)
  <2>1. up' = up
    BY <1>7
       DEF HLAHandleRequest, HLAOnStart, HLAOnCheck, HLAOnTerminate, HLAOnSerializeCalltree, HLAOnReinit, HLAOnQuit
  <2>2. \/ info' = info
        \/ \E f \in {"properties_sent", "appl_terminated", "calltree_sent"} : info' = SetAll(h, f, FALSE)
        \/ info' = SetAll(h, "status_reinit", "INITIAL")
    BY <1>7 DEF HLAHandleRequest, HLAOnStart, HLAOnCheck, HLAOnTerminate, HLAOnSerializeCalltree, HLAOnReinit, HLAOnQuit
  <2>3. SameSearchNotes
    BY <1>0, <2>2 DEF SameSearchNotes, SetAll, AgentInfo
  <2> QED
    BY <2>1, <2>3
<1>8. CASE HLAHandleTimeout(h)
  <2>1. info' = info
    BY <1>8 DEF HLAHandleTimeout
  <2>2. CASE up' = up
    BY <2>1, <2>2 DEF SameSearchNotes
  <2>3. CASE up' = [up EXCEPT ![h] = Append(@, Msg("heartbeat"))]
    <3> DEFINE m == Msg("heartbeat")
    <3>1. m \in UpMsgs /\ m.type = "heartbeat"
      BY <1>5, UpMsgFacts
    <3>2. up' = [up EXCEPT ![h] = Append(@, m)]
      BY <2>3
    <3> HIDE DEF m
    <3>3. Append(up[h], m) = up[h] \o <<m>>
      BY <1>0, <3>1
    <3>4. up'[h] = up[h] \o <<m>> /\ \A k \in Agents : k # h => up'[k] = up[k]
      BY <1>0, <3>2, <3>3
    <3>5. <<m>> \in Seq(UpMsgs) /\ ~Has(<<m>>, NR)
      BY <1>5, <3>1, SingleFacts
    <3>6. Extended(up, up', h, <<m>>)
      BY <1>0, <3>4, <3>5, ExtendAt
    <3>7. \A T \in SUBSET SearchRequests : In(up', T) = In(up, T)
      BY <3>5, <3>6, HasFacts DEF Extended, NR
    <3> QED
      BY <2>1, <3>7 DEF SameSearchNotes
  <2> QED
    BY <1>8, <2>2, <2>3 DEF HLAHandleTimeout
<1>9. ASSUME NEW c \in Agents, HLAHandleMessage(h, c)
      PROVE  HLANotes(h, c) \/ Still
  <2>0. Parent[c] = h /\ c # h /\ up[c] \in Seq(UpMsgs)
    BY <1>0, <1>9, TreeFacts DEF HLAHandleMessage
  <2>1. ASSUME up[c] # <<>>, NEW ms \in Seq(UpMsgs), ~Has(ms, NR), up' = ForwardUp(c, h, ms), SameSearchNotes
        PROVE  Still
    <3>1. \A T : In(up', T) \subseteq In(up, T) \cup (IF Has(ms, T) THEN {h} ELSE {})
      BY <1>2, <2>0, <2>1
    <3>2. \A T \in SUBSET SearchRequests : ~Has(ms, T)
      BY <2>1, HasFacts DEF NR
    <3> QED
      BY <2>1, <3>1, <3>2
  <2>2. CASE HLAOnHeartbeat(h, c)
    <3>1. SameSearchNotes /\ up[c] # <<>> /\ up' = ForwardUp(c, h, <<>>)
      BY <1>0, <2>2 DEF HLAOnHeartbeat, SameSearchNotes, AgentInfo, HasMessage
    <3> QED
      BY <1>4, <2>1, <3>1
  <2>3. CASE HLAOnFoundProp(h, c) \/ HLAOnCalltree(h, c)
    <3>1. SameSearchNotes /\ up[c] # <<>> /\ Head(up[c]).type \notin NR
          /\ (up' = ForwardUp(c, h, <<>>) \/ up' = ForwardUp(c, h, <<Head(up[c])>>))
      BY <1>5, <2>3 DEF HLAOnFoundProp, HLAOnCalltree, SameSearchNotes, HasMessage
    <3> DEFINE m == Head(up[c])
    <3>2. up' = ForwardUp(c, h, <<>>) \/ up' = ForwardUp(c, h, <<m>>)
      BY <3>1
    <3> HIDE DEF m
    <3>3. m \in UpMsgs /\ m.type \notin NR
      BY <2>0, <3>1, ReadFacts DEF m
    <3>4. <<m>> \in Seq(UpMsgs) /\ ~Has(<<m>>, NR)
      BY <3>3, SingleFacts
    <3> QED
      BY <1>4, <2>1, <3>1, <3>2, <3>4
  <2>4. CASE HLAOnCalltreeSent(h, c)
    <3>1. up[c] # <<>> /\ info' = [info EXCEPT ![c].calltree_sent = TRUE]
          /\ (up' = ForwardUp(c, h, <<>>) \/ up' = ForwardUp(c, h, <<Msg("calltreesent")>>))
      BY <2>4 DEF HLAOnCalltreeSent, HasMessage
    <3>2. SameSearchNotes
      BY <1>0, <3>1 DEF SameSearchNotes, AgentInfo
    <3> QED
      BY <1>3, <1>4, <1>5, <2>1, <3>1, <3>2
  <2>5. CASE HLAOnTerminated(h, c)
    <3>1. up[c] # <<>> /\ info' = [info EXCEPT ![c].appl_terminated = TRUE]
          /\ (up' = ForwardUp(c, h, <<>>) \/ up' = ForwardUp(c, h, <<Msg("terminated")>>))
      BY <2>5 DEF HLAOnTerminated, HasMessage
    <3>2. SameSearchNotes
      BY <1>0, <3>1 DEF SameSearchNotes, AgentInfo
    <3> QED
      BY <1>3, <1>4, <1>5, <2>1, <3>1, <3>2
  <2>6. CASE HLAOnPropertiesSent(h, c)
    <3> DEFINE s == ClusterProps(h)
               t == <<Msg("propertiessent")>>
    <3>1. up[c] # <<>> /\ info' = [info EXCEPT ![c].properties_sent = TRUE]
          /\ (up' = ForwardUp(c, h, <<>>) \/ up' = ForwardUp(c, h, s \o t))
      BY <2>6 DEF HLAOnPropertiesSent, HasMessage
    <3>2. SameSearchNotes
      BY <1>0, <3>1 DEF SameSearchNotes, AgentInfo
    <3>3. s \in Seq(UpMsgs) /\ ~Has(s, NR)
      <4>1. CASE properties[h] = {}
        BY <1>4, <4>1 DEF ClusterProps
      <4>2. CASE properties[h] # {}
        <5> DEFINE m == [type |-> "foundprop", props |-> properties[h]]
        <5>1. properties[h] \in SUBSET Props
          BY DEF Types, HLATypes
        <5>2. m \in UpMsgs /\ m.type = "foundprop" /\ s = <<m>>
          BY <4>2, <5>1, UpMsgFacts DEF ClusterProps
        <5> HIDE DEF m
        <5> QED
          BY <1>5, <5>2, SingleFacts
      <4> QED
        BY <4>1, <4>2
    <3>4. t \in Seq(UpMsgs) /\ ~Has(t, NR)
      BY <1>3, <1>5
    <3> HIDE DEF s, t
    <3>5. s \o t \in Seq(UpMsgs) /\ ~Has(s \o t, NR)
      BY <3>3, <3>4, ConcatFacts
    <3> QED
      BY <1>4, <2>1, <3>1, <3>2, <3>5
  <2>7. CASE HLAOnSearchRequest(h, c)
    <3> DEFINE now == [info EXCEPT ![c].search_status = StatusOf(Head(up[c]).type)]
               r   == RequestOf(Combined(Children(h), now))
    <3>1. /\ up[c] # <<>> /\ Head(up[c]).type \in SearchRequests
          /\ \/ /\ AllReported(Children(h), now)
                /\ up' = ForwardUp(c, h, <<Msg(r)>>)
                /\ info' = SetAll(h, "search_status", "UNDEFINED")
             \/ up' = ForwardUp(c, h, <<>>) /\ info' = now
      BY <2>7 DEF HLAOnSearchRequest
    <3>2. r \in UpTypes
      BY <1>5 DEF RequestOf, Combined, SearchRequests
    <3>3. <<Msg(r)>> \in Seq(UpMsgs) /\ \A T : Has(<<Msg(r)>>, T) <=> r \in T
      BY <1>3, <3>2
    <3> HIDE DEF r, now
    <3>4. up' = ForwardUp(c, h, <<>>) => \A T : In(up', T) \subseteq In(up, T)
      BY <1>2, <1>4, <2>0, <3>1
    <3>5. up' = ForwardUp(c, h, <<Msg(r)>>) =>
             \A T : In(up', T) \subseteq In(up, T) \cup (IF r \in T THEN {h} ELSE {})
      BY <1>2, <2>0, <3>1, <3>3
    <3> QED
      BY <3>1, <3>4, <3>5 DEF HLANotes, now, r
  <2> QED
    BY <1>9, <2>2, <2>3, <2>4, <2>5, <2>6, <2>7 DEF HLAHandleMessage
<1> QED
  BY <1>6, <1>7, <1>8, <1>9, TreeFacts DEF HLAStep, HLAHandleMessage

\* A high-level agent asks for one only when a child did.
LEMMA HLAAsks ==
    ASSUME Types, NEW h \in HLAs, HLAStep(h)
    PROVE  /\ RestartComing' => RestartComing
           /\ \A c \in Children(FE) : info'[c].search_status = info[c].search_status
<1> h \in Agents /\ h # FE /\ \A n \in Agents : Parent[n] = h => Parent[n] # FE /\ n # h
  BY TreeFacts
<1>0. up \in [Agents -> Seq(UpMsgs)] /\ info \in [Agents -> AgentInfo]
  BY DEF Types, StreamTypes, TreeTypes
<1> DEFINE NR == {"needrestart"}
<1>1. NR \subseteq SearchRequests
  BY DEF SearchRequests
<1>2. CASE SameSearchNotes /\ \A T \in SUBSET SearchRequests : In(up', T) \subseteq In(up, T)
  BY <1>1, <1>2, TreeFacts DEF RestartComing, SameSearchNotes
<1>3. ASSUME NEW c \in Children(h), HLANotes(h, c)
      PROVE  /\ RestartComing' => RestartComing
             /\ \A d \in Children(FE) : info'[d].search_status = info[d].search_status
  <2> DEFINE now == [info EXCEPT ![c].search_status = StatusOf(Head(up[c]).type)]
             r   == RequestOf(Combined(Children(h), now))
  <2>0. c \in Agents /\ Parent[c] = h
    BY TreeFacts
  <2>1. /\ up[c] # <<>> /\ Head(up[c]).type \in SearchRequests
        /\ \/ info' = now /\ \A T : In(up', T) \subseteq In(up, T)
           \/ /\ info' = SetAll(h, "search_status", "UNDEFINED")
              /\ \A T : In(up', T) \subseteq In(up, T) \cup (IF r \in T THEN {h} ELSE {})
    BY <1>3 DEF HLANotes
  <2>2. /\ \A n \in Agents : n # c => now[n] = info[n]
        /\ now[c].search_status = "REQRESTART" => Head(up[c]).type = "needrestart"
    <3>1. Head(up[c]).type \in SearchRequests
      BY <2>1
    <3> QED
      BY <1>0, <2>0, <3>1 DEF StatusOf, SearchRequests, AgentInfo
  <2>3. r \in NR => \E n \in Children(h) : now[n].search_status = "REQRESTART"
    BY DEF RequestOf, Combined
  <2> HIDE DEF now, r
  <2>4. \A d \in Children(FE) : info'[d].search_status = info[d].search_status
    <3>1. \A d \in Children(FE) : d \in Agents /\ Parent[d] # h /\ d # c
      BY <2>0, TreeFacts
    <3> QED
      BY <2>1, <2>2, <3>1 DEF SetAll
  <2>5. ASSUME NEW n \in Agents, Parent[n] = h, now[n].search_status = "REQRESTART" PROVE RestartComing
    <3>1. CASE n = c
      <4>1. Head(up[c]).type = "needrestart"
        BY <2>2, <2>5, <3>1
      <4>2. c \in In(up, NR)
        BY <1>0, <2>0, <2>1, <4>1, ReadFacts DEF In
      <4> QED
        BY <4>2 DEF RestartComing
    <3>2. CASE n # c
      BY <2>2, <2>5, <3>2 DEF RestartComing
    <3> QED
      BY <3>1, <3>2
  <2>6. CASE info' = now /\ \A T : In(up', T) \subseteq In(up, T)
    <3>1. In(up', NR) \subseteq In(up, NR)
      BY <2>6
    <3>2. ASSUME NEW n \in Agents, Parent[n] # FE, info'[n].search_status = "REQRESTART" PROVE RestartComing
      <4>1. n # c => info'[n] = info[n]
        BY <2>2, <2>6
      <4> QED
        BY <2>0, <2>5, <2>6, <3>2, <4>1 DEF RestartComing
    <3> QED
      BY <2>4, <3>1, <3>2 DEF RestartComing
  <2>7. CASE /\ info' = SetAll(h, "search_status", "UNDEFINED")
             /\ \A T : In(up', T) \subseteq In(up, T) \cup (IF r \in T THEN {h} ELSE {})
    <3>1. In(up', NR) \subseteq In(up, NR) \/ r \in NR
      BY <2>7
    <3>2. \A n \in Agents : info'[n].search_status = "REQRESTART" => info[n].search_status = "REQRESTART"
      BY <1>0, <2>7 DEF SetAll, AgentInfo
    <3>3. r \in NR => RestartComing
      BY <2>3, <2>5, TreeFacts
    <3> QED
      BY <2>4, <3>1, <3>2, <3>3 DEF RestartComing
  <2> QED
    BY <2>1, <2>6, <2>7
<1> QED
  BY <1>2, <1>3, HLAReports

\* Of a check nothing begins with an agent.
LEMMA CheckGoesOn ==
    ASSUME Types, NEW n \in Agents, AgentStep(n)
    PROVE  CheckGoing' => CheckGoing
<1>1. CheckStill => (CheckGoing' => CheckGoing)
  BY DEF CheckStill, Stays, CheckGoing, AskedCheck, ToldCheck
<1>2. CASE n \in AAs /\ AAStep(n) /\ UNCHANGED hlaVars
  <2>1. properties' = properties
    BY <1>2 DEF hlaVars
  <2>2. CheckStill \/ CheckAtLeaf(n)
    BY <1>2, <2>1, AAMoves
  <2>3. CheckAtLeaf(n) => CheckGoing
    BY DEF CheckAtLeaf, Taken, CheckGoing, AskedCheck
  <2> QED
    BY <1>1, <2>2, <2>3
<1>3. CASE n \in HLAs /\ HLAStep(n) /\ UNCHANGED aaVars
  <2>1. started' = started
    BY <1>3 DEF aaVars
  <2>2. CheckStill \/ CheckSpreads(n) \/ \E c \in Children(n) : CheckNoted(n, c) \/ FoundNoted(n, c)
    BY <1>3, <2>1, HLAMoves
  <2>3. CheckSpreads(n) => CheckGoing
    BY DEF CheckSpreads, Spread, CheckGoing, AskedCheck
  <2>4. ASSUME NEW c \in Children(n), CheckNoted(n, c) PROVE CheckGoing
    BY <2>4 DEF CheckNoted, Taken, Moved, CheckGoing, ToldCheck
  <2>5. ASSUME NEW c \in Children(n), FoundNoted(n, c) PROVE CheckGoing' => CheckGoing
    BY <2>5 DEF FoundNoted, Stays, CheckGoing, AskedCheck, ToldCheck
  <2> QED
    BY <1>1, <2>2, <2>3, <2>4, <2>5
<1> QED
  BY <1>2, <1>3 DEF AgentStep

LEMMA AgentAtEnd ==
    ASSUME Inv, AtEnd, NEW n \in Agents, AgentStep(n)
    PROVE  AtEnd'
<1> Types
  BY DEF Inv
<1>1. PICK L \in SUBSET Agents : Told(In(down, Controls), L)
  BY DEF Inv, Late
<1>2. down' = down \/ \E t : Handled(n, t)
  <2>1. AgentActs(n)
    BY AAActs, HLAActs DEF AgentStep
  <2> QED
    BY <2>1 DEF AgentActs
<1>3. SUFFICES ASSUME NEW M \in SUBSET Agents, Told(In(down', Controls), M), RestartAsked'
               PROVE  \E a \in AAs \ M : NeedRestart(proc'[a])
  BY DEF AtEnd
<1>4. M \subseteq L
  BY <1>1, <1>2, <1>3, ToldLess
<1>5. CheckGoing' => CheckGoing
  BY CheckGoesOn
<1>6. RestartAsked => \E a \in AAs \ L : NeedRestart(proc[a])
  BY <1>1 DEF AtEnd
<1>7. CASE n \in AAs /\ AAStep(n)
  <2>1. /\ info' = info
        /\ \/ In(up', {"needrestart"}) = In(up, {"needrestart"})
           \/ NeedRestart(proc'[n]) /\ (started[n] \/ \E t \in Searches : HasRequest(n, t))
        /\ \A b \in AAs : NeedRestart(proc[b]) => NeedRestart(proc'[b]) \/ (b = n /\ HasRequest(n, "reinit"))
    BY <1>7, AAAsks
  <2>2. CASE In(up', {"needrestart"}) = In(up, {"needrestart"})
    <3>1. RestartAsked
      BY <1>3, <1>5, <2>1, <2>2 DEF RestartAsked, RestartComing
    <3>2. PICK a \in AAs \ L : NeedRestart(proc[a])
      BY <1>6, <3>1
    <3>3. ~(a = n /\ HasRequest(n, "reinit"))
      BY <1>1, <3>2, ControlledIsTold
    <3> QED
      BY <1>4, <2>1, <3>2, <3>3
  <2>3. CASE NeedRestart(proc'[n]) /\ (started[n] \/ \E t \in Searches : HasRequest(n, t))
    <3>1. n \notin L
      BY <1>1, <1>7, <2>3, SearcherNotTold
    <3> QED
      BY <1>4, <1>7, <2>3, <3>1
  <2> QED
    BY <2>1, <2>2, <2>3
<1>8. CASE n \in HLAs /\ HLAStep(n) /\ UNCHANGED aaVars
  <2>1. /\ RestartComing' => RestartComing
        /\ \A c \in Children(FE) : info'[c].search_status = info[c].search_status
    BY <1>8, HLAAsks
  <2>2. proc' = proc
    BY <1>8 DEF aaVars
  <2>3. RestartAsked
    BY <1>3, <1>5, <2>1 DEF RestartAsked
  <2> QED
    BY <1>4, <1>6, <2>2, <2>3
<1> QED
  BY <1>7, <1>8 DEF AgentStep

\* While no search and no check is out nobody asks.
LEMMA NobodyAsks ==
    ASSUME NEW B \in SUBSET Agents, SearchWave(B), ~SearchOut(B), Types
    PROVE  ~RestartComing
<1>1. ToldSearch = {} /\ \A n \in Agents : Parent[n] # FE => n \notin Reported
  BY SearchOver
<1>2. In(up, {"needrestart"}) \subseteq ToldSearch
  BY HasFacts DEF In, ToldSearch, SearchRequests
<1> QED
  BY <1>1, <1>2 DEF RestartComing, Reported

LEMMA NothingChecked == \A D : D \subseteq Agents /\ CheckWave(D) /\ ~CheckOut(D) => ~CheckGoing
<1> SUFFICES ASSUME NEW D \in SUBSET Agents, CheckWave(D), ~CheckOut(D) PROVE ~CheckGoing
  OBVIOUS
<1> QED
  BY CheckOver DEF CheckGoing

\* What the frontend does without a message: it checks nothing.
LEMMA FEOwnChecks ==
    ASSUME Inv,
           \/ FEHandleStep \/ FETimeout \/ FEQuitFinished
           \/ FERestart \/ FERerun \/ FEResults \/ FECalltreeDone \/ FEPhaseAgain
           \/ FERestartDone \/ FESearchEnded
           \/ FEBegin("analysis") \/ FEBegin("phase") \/ FEConsiderRestart
           \/ FEFinalize
    PROVE  /\ up' = up /\ SameBelow /\ ~Waiting
           /\ ~CheckGoing /\ ~CheckGoing'
<1>1. PICK B \in SUBSET Agents, C \in SUBSET Agents, T \in SUBSET Agents : Going(B, C, T)
  BY DEF Inv
<1>2. SameBelow /\ (FEQuiet \/ FEAsksSearch \/ FEAsksTree)
  BY FEOwnKinds DEF Inv
<1>3. up' = up /\ ~Waiting
  BY <1>2 DEF FEQuiet, FEAsksSearch, FEAsksTree
<1>4. CheckWave(C) /\ ~CheckOut(C)
  BY <1>1, <1>3 DEF Going, Phases
<1>5. ~CheckGoing
  BY <1>4, NothingChecked
<1>6. Stays(down, down', {"check"})
  <2>1. down' = down \/ \E S : FESends(S) /\ S \cap {"check"} = {}
    <3>1. /\ {"terminate", "quit"} \cap {"check"} = {} /\ {"reinit"} \cap {"check"} = {}
          /\ Searches \cap {"check"} = {} /\ {"serializecalltree"} \cap {"check"} = {}
      BY DEF Searches
    <3> QED
      BY <1>2, <3>1 DEF FEQuiet, FEAsksSearch, FEAsksTree
  <2> QED
    BY <2>1, DownStays, FEWrites
<1>7. ~CheckGoing'
  BY <1>3, <1>5, <1>6 DEF Stays, CheckGoing, AskedCheck, ToldCheck
<1> QED
  BY <1>2, <1>3, <1>5, <1>7

LEMMA FEOwnAtEnd ==
    ASSUME Inv,
           \/ FEHandleStep \/ FETimeout \/ FEQuitFinished
           \/ FERestart \/ FERerun \/ FEResults \/ FECalltreeDone \/ FEPhaseAgain
           \/ FERestartDone \/ FESearchEnded
           \/ FEBegin("analysis") \/ FEBegin("phase") \/ FEConsiderRestart
           \/ FEFinalize
    PROVE  AtEnd'
<1>1. up' = up /\ SameBelow /\ ~Waiting /\ ~CheckGoing'
  BY FEOwnChecks
<1>2. ~RestartComing
  <2>1. PICK B \in SUBSET Agents, C \in SUBSET Agents, T \in SUBSET Agents : Going(B, C, T)
    BY DEF Inv
  <2>2. SearchWave(B) /\ ~SearchOut(B)
    BY <1>1, <2>1 DEF Going, Phases
  <2> QED
    BY <2>2, NobodyAsks DEF Inv
<1>3. ~RestartComing'
  BY <1>1, <1>2 DEF RestartComing, SameBelow
<1> QED
  BY <1>1, <1>3 DEF AtEnd, RestartAsked

\* What the frontend notes of its child before it has delivered its properties.
LEMMA FENotes ==
    ASSUME Types, NEW c \in Agents, FEHandleMessage(c), Head(up[c]).type # "propertiessent",
           Head(up[c]).type \in SearchRequests => ~info[c].properties_sent
    PROVE  /\ UNCHANGED <<need_restart, quit_fe, quitting, buffer>>
           /\ Head(up[c]).type # "calltreesent" => ended' = ended
           /\ down' = down \/ down' = SendToChildren(FE, Msg("check"))
           /\ IF Head(up[c]).type \in SearchRequests
              THEN info'[c].search_status = StatusOf(Head(up[c]).type)
              ELSE info'[c].search_status = info[c].search_status
<1>0. info \in [Agents -> AgentInfo] /\ Parent[c] = FE /\ c \in Children(FE)
  BY DEF Types, TreeTypes, FEHandleMessage, Children
<1>1. {"heartbeat", "foundprop", "calltree", "terminated", "calltreesent"} \cap SearchRequests = {}
  BY DEF SearchRequests
<1>2. CASE FEOnHeartbeat(c)
  <2>1. info' = [info EXCEPT ![c] = IF @.status = "INITIAL"
                                    THEN [@ EXCEPT !.status = "STARTED", !.properties_sent = FALSE]
                                    ELSE [@ EXCEPT !.status_reinit = "STARTED", !.properties_sent = FALSE]]
    BY <1>2 DEF FEOnHeartbeat
  <2>2. info'[c].search_status = info[c].search_status
    BY <1>0, <2>1 DEF AgentInfo
  <2> QED
    BY <1>1, <1>2, <2>2 DEF FEOnHeartbeat, HasMessage, decVars
<1>3. CASE FEOnFoundProp(c) \/ FEOnCalltree(c)
  BY <1>1, <1>3 DEF FEOnFoundProp, FEOnCalltree, HasMessage, decVars
<1>4. CASE FEOnTerminated(c)
  <2>1. info' = [info EXCEPT ![c].appl_terminated = TRUE]
    BY <1>4 DEF FEOnTerminated
  <2>2. info'[c].search_status = info[c].search_status
    BY <1>0, <2>1 DEF AgentInfo
  <2> QED
    BY <1>1, <1>4, <2>2 DEF FEOnTerminated, HasMessage, decVars
<1>5. CASE FEOnCalltreeSent(c)
  <2>1. \/ info' = ForChildren(info, "calltree_sent", FALSE)
        \/ info' = [info EXCEPT ![c].calltree_sent = TRUE]
    BY <1>5 DEF FEOnCalltreeSent
  <2>2. info'[c].search_status = info[c].search_status
    BY <1>0, <2>1 DEF ForChildren, AgentInfo
  <2> QED
    BY <1>1, <1>5, <2>2 DEF FEOnCalltreeSent, HasMessage, decVars
<1>6. CASE FEOnSearchRequest(c)
  <2> DEFINE i == [info EXCEPT ![c].search_status = StatusOf(Head(up[c]).type)]
  <2>1. DecideContinuation(i) /\ Head(up[c]).type \in SearchRequests
    BY <1>6 DEF FEOnSearchRequest
  <2>2. i[c].properties_sent = FALSE /\ i[c].search_status = StatusOf(Head(up[c]).type)
    BY <1>0, <2>1 DEF AgentInfo, SearchRequests
  <2> HIDE DEF i
  <2>3. /\ info' = i /\ UNCHANGED <<need_restart, quit_fe, quitting, buffer, ended>>
        /\ down' = down \/ down' = SendToChildren(FE, Msg("check"))
    BY <1>0, <2>1, <2>2 DEF DecideContinuation
  <2> QED
    BY <2>1, <2>2, <2>3
<1>7. ~FEOnPropertiesSent(c)
  BY DEF FEOnPropertiesSent, HasMessage
<1> QED
  BY <1>2, <1>3, <1>4, <1>5, <1>6, <1>7 DEF FEHandleMessage

\* A check ends when the child of the frontend has answered it.
LEMMA CheckEnds ==
    ASSUME NEW C \in SUBSET Agents, CheckWave(C), SameBelow, NEW c \in Children(FE), Read(up, up', c),
           Head(up[c]).type = "propertiessent", Stays(down, down', {"check"})
    PROVE  ~CheckGoing'
<1>1. /\ In(up', {"foundprop"}) \subseteq In(up, {"foundprop"}) /\ (PropsOrdered => PropsOrdered')
      /\ PropsOrdered => c \notin In(up, {"foundprop"})
  BY DEF Read, PropsOrdered
<1>2. Taken(up, up', c, {"propertiessent"})
  BY UpRead, TreeFacts
<1>3. CheckWave({})' /\ ~CheckOut({})'
  BY <1>1, <1>2, CheckAnswered
<1>4. (\A D : D \subseteq Agents /\ CheckWave(D) /\ ~CheckOut(D) => ~CheckGoing)'
  BY NothingChecked, PTL
<1> QED
  BY <1>3, <1>4

\* What it does with a message.
LEMMA FEMessageAtEnd ==
    ASSUME Inv, AtEnd, NEW c \in Agents, FEHandleMessage(c)
    PROVE  /\ AtEnd'
           /\ need_restart' /\ ~need_restart /\ ~Autoinst => \E a \in AAs : NeedRestart(proc[a])
<1>1. PICK B \in SUBSET Agents, C \in SUBSET Agents, T \in SUBSET Agents : Going(B, C, T)
  BY DEF Inv
<1>2. SearchWave(B) /\ CheckWave(C) /\ Phases(B, C, T) /\ Types
  BY <1>1 DEF Going, Inv
<1>3. /\ c \in Children(FE) /\ up[c] # <<>> /\ Read(up, up', c) /\ SameBelow
      /\ FEReadsPlain(c) \/ FEReadsSearch(c) \/ FEReadsCheck(c) \/ FEReadsTree(c)
      /\ Children(FE) = {c}
  BY <1>2, FEMessageKinds, TreeFacts
<1>4. proc' = proc
  BY DEF FEHandleMessage, aaVars
<1>5. /\ \A U : Head(up[c]).type \notin U => Stays(up, up', U)
      /\ \A U : Head(up[c]).type \in U => Taken(up, up', c, U)
  BY <1>3, UpRead
<1>6. /\ In(up', {"needrestart"}) \subseteq In(up, {"needrestart"})
      /\ ToldCheck' \subseteq ToldCheck
  BY <1>3 DEF Read, In, ToldCheck
<1>7. RestartComing' => RestartComing
  BY <1>3, <1>6 DEF RestartComing, SameBelow
<1>8. CASE Head(up[c]).type = "propertiessent"
  <2>1. FEReadsCheck(c) /\ c \in ToldCheck /\ CheckOut(C)
    <3>1. "propertiessent" \in Answers \ {"foundprop"} /\ "propertiessent" \notin SearchRequests
      BY AnswerFacts
    <3>2. FEReadsCheck(c)
      BY <1>3, <1>8, <3>1 DEF FEReadsPlain, FEReadsSearch, FEReadsTree
    <3>3. c \in ToldCheck
      BY <1>5, <1>8 DEF Taken, ToldCheck
    <3> QED
      BY <1>3, <3>2, <3>3 DEF CheckOut, Out
  <2>2. ~RestartComing'
    BY <1>2, <1>7, <2>1, NobodyAsks DEF Phases
  <2>3. ~CheckGoing'
    <3>1. Stays(down, down', {"check"})
      <4>1. down' = down \/ \E S : FESends(S) /\ S \cap {"check"} = {}
        <5>1. {"quit"} \cap {"check"} = {} /\ Searches \cap {"check"} = {}
          BY DEF Searches
        <5> QED
          BY <2>1, <5>1 DEF FEReadsCheck
      <4> QED
        BY <4>1, DownStays, FEWrites
    <3> QED
      BY <1>2, <1>3, <1>8, <3>1, CheckEnds
  <2>4. AtEnd'
    BY <2>2, <2>3 DEF AtEnd, RestartAsked
  <2>5. ASSUME need_restart', ~need_restart, ~Autoinst PROVE \E a \in AAs : NeedRestart(proc[a])
    <3> DEFINE i == [info EXCEPT ![c].properties_sent = TRUE]
    <3>1. FEOnPropertiesSent(c)
      BY <1>8 DEF FEHandleMessage, FEOnHeartbeat, FEOnFoundProp, FEOnCalltree, FEOnSearchRequest,
                  FEOnTerminated, FEOnCalltreeSent, HasMessage, SearchRequests
    <3>2. DecideContinuation(i)
      BY <2>5, <3>1 DEF FEOnPropertiesSent, decVars
    <3>3. i[c].search_status = info[c].search_status
      BY <1>2 DEF Types, TreeTypes, AgentInfo
    <3> HIDE DEF i
    <3>4. Reinstrument = {FALSE}
      BY <2>5 DEF Reinstrument
    <3>5. Combined(Children(FE), i) = "REQRESTART"
      <4> DEFINE s == Combined(Children(FE), i)
      <4>1. \/ need_restart' = need_restart
            \/ \E r \in IF s = "REQEXPERIMENT" THEN Reinstrument ELSE {FALSE} :
                  Enforce(i, IF r THEN "REQRESTART" ELSE s)
        BY <3>2 DEF DecideContinuation
      <4> HIDE DEF s
      <4>2. Enforce(i, s)
        BY <2>5, <3>4, <4>1
      <4>3. s = "REQRESTART" \/ need_restart' = need_restart
        BY <4>2, Zenon DEF Enforce
      <4> QED
        BY <2>5, <4>3 DEF s
    <3>6. info[c].search_status = "REQRESTART"
      BY <1>3, <3>3, <3>5 DEF Combined
    <3>7. RestartAsked
      BY <1>3, <2>1, <3>6 DEF RestartAsked, CheckGoing
    <3>8. PICK L \in SUBSET Agents : Told(In(down, Controls), L)
      BY DEF Inv, Late
    <3> QED
      BY <3>7, <3>8 DEF AtEnd
  <2> QED
    BY <2>4, <2>5
<1>9. CASE Head(up[c]).type \in SearchRequests
  <2>1. Head(up[c]).type # "propertiessent" /\ FEReadsSearch(c)
    BY <1>3, <1>9, AnswerFacts DEF FEReadsPlain, FEReadsCheck, FEReadsTree
  <2>2. SearchOut(B)
    BY <1>3, <1>5, <1>9 DEF Taken, ToldSearch, SearchOut, Out
  <2>3. ~CheckOut(C) /\ ~info[c].properties_sent
    BY <1>2, <1>3, <2>2 DEF Phases
  <2>4. Stays(down, down', Controls)
    <3>1. FESends({"check"}) /\ {"check"} \cap Controls = {}
      BY <2>1, <2>3 DEF FEReadsSearch, Controls
    <3> QED
      BY <3>1, FEWrites
  <2>5. need_restart' = need_restart /\ info'[c].search_status = StatusOf(Head(up[c]).type)
    BY <1>2, <1>9, <2>1, <2>3, FENotes
  <2>6. RestartAsked' => RestartAsked
    <3>1. info'[c].search_status = "REQRESTART" => c \in In(up, {"needrestart"})
      <4>1. info'[c].search_status = "REQRESTART" => Head(up[c]).type = "needrestart"
        BY <1>9, <2>5 DEF StatusOf, SearchRequests
      <4> QED
        BY <1>5, <4>1 DEF Taken
    <3> QED
      BY <1>3, <1>7, <3>1 DEF RestartAsked, RestartComing
  <2> QED
    BY <1>4, <2>4, <2>5, <2>6 DEF AtEnd, Stays
<1>10. CASE Head(up[c]).type \notin SearchRequests \cup {"propertiessent"}
  <2>1. down' = down
    BY <1>3, <1>10 DEF FEReadsPlain, FEReadsSearch, FEReadsCheck, FEReadsTree
  <2>2. need_restart' = need_restart /\ info'[c].search_status = info[c].search_status
    BY <1>2, <1>10, FENotes
  <2>3. RestartAsked' => RestartAsked
    BY <1>3, <1>6, <1>7, <2>1, <2>2 DEF RestartAsked, CheckGoing, AskedCheck
  <2> QED
    BY <1>4, <2>1, <2>2, <2>3 DEF AtEnd
<1> QED
  BY <1>8, <1>9, <1>10

LEMMA InitAtEnd == Init => AtEnd
<1> SUFFICES ASSUME Init PROVE ~RestartAsked
  BY DEF AtEnd
<1>1. \A n \in Agents : up[n] = <<>> /\ down[n] = <<>>
  BY DEF Init, TreeInit
<1>2. \A T : In(up, T) = {} /\ In(down, T) = {}
  BY <1>1, EmptyFacts DEF In
<1>3. \A n \in Agents : info[n].search_status = "UNDEFINED"
  BY DEF Init, TreeInit, InitInfo
<1> QED
  BY <1>2, <1>3 DEF RestartAsked, RestartComing, CheckGoing, AskedCheck, ToldCheck

LEMMA StepAtEnd ==
    Inv /\ AtEnd /\ [Next]_vars =>
        /\ AtEnd'
        /\ need_restart' /\ ~need_restart /\ op' # "restart" /\ ~Autoinst
              => \E a \in AAs : NeedRestart(proc[a])
<1> SUFFICES ASSUME Inv, AtEnd, [Next]_vars
             PROVE  /\ AtEnd'
                    /\ need_restart' /\ ~need_restart /\ op' # "restart" /\ ~Autoinst
                          => \E a \in AAs : NeedRestart(proc[a])
  OBVIOUS
<1>1. CASE \E c \in Agents : FEHandleMessage(c)
  BY <1>1, FEMessageAtEnd
<1>2. CASE \/ FEHandleStep \/ FETimeout \/ FEQuitFinished
           \/ FERestart \/ FERerun \/ FEResults \/ FECalltreeDone \/ FEPhaseAgain
           \/ FERestartDone \/ FESearchEnded
           \/ FEBegin("analysis") \/ FEBegin("phase") \/ FEConsiderRestart
           \/ FEFinalize
  <2>1. AtEnd'
    BY <1>2, FEOwnAtEnd
  <2>2. (need_restart' => need_restart) \/ op' = "restart"
    BY <1>2 DEF FEHandleStep, StepStartup, StepStartupReinit, StepApplicationTermination, StepRequestCalltree,
                FETimeout, FEQuitFinished, FERestart, FERerun, FEResults, FECalltreeDone, FEPhaseAgain,
                FERestartDone, FESearchEnded, FEBegin, FEConsiderRestart, FEFinalize, decVars, Start
  <2> QED
    BY <2>1, <2>2
<1>3. ASSUME NEW n \in Agents, AgentStep(n) PROVE AtEnd' /\ need_restart' = need_restart
  BY <1>3, AgentAtEnd DEF AgentStep, feVars, decVars
<1>4. CASE UNCHANGED vars
  <2>1. UNCHANGED <<up, down, info, proc, need_restart>>
    BY <1>4 DEF vars, treeVars, aaVars, feVars, decVars
  <2> QED
    BY <2>1 DEF AtEnd, RestartAsked, RestartComing, CheckGoing, AskedCheck, ToldCheck
<1> QED
  BY <1>1, <1>2, <1>3, <1>4 DEF Next, FEStep

\* Unless the plugin or a new instrumentation calls for it, the frontend decides
\* to restart the application only while the processes of some agent are at their
\* end: the agent that asked for it has not let go of them since, whatever the
\* other agents reported after it.
THEOREM RestartsAreDue == NoRace /\ Spec => RestartOnlyAtEnd
<1>1. Init => Inv /\ AtEnd
  BY InitInv, InitAtEnd
<1>2. Inv /\ AtEnd /\ NoRace /\ [Next]_vars => (Inv /\ AtEnd)'
  BY StepInv, StepAtEnd
<1>3. Inv /\ AtEnd /\ [Next]_vars =>
        [need_restart' /\ ~need_restart /\ op' # "restart" /\ ~Autoinst
           => \E a \in AAs : NeedRestart(proc[a])]_vars
  BY StepAtEnd
<1>4. CASE NoRace
  <2>1. Inv /\ AtEnd /\ [Next]_vars => (Inv /\ AtEnd)'
    BY <1>2, <1>4
  <2> QED
    BY <1>1, <1>3, <2>1, PTL DEF Spec, RestartOnlyAtEnd
<1> QED
  BY <1>4

-----------------------------------------------------------------------------
(* What the end of a request means.                                        *)

Begun == {a \in AAs : strategy[a] = nreq}
Over  == {a \in AAs : finished[a] = nreq}

\* All the analysis agents of E, and below an agent of E, are in X.
Gathered(E, X) == \A n \in E : IF n \in AAs THEN n \in X ELSE Children(n) \subseteq E

\* The agents whose report, of a type of T, is on its way or noted, with a status
\* of V, by a high-level agent; and that it speaks for everyone below.
Reporting(T, V) == In(up, T) \cup {n \in Agents : Parent[n] # FE /\ info[n].search_status \in V}

SpeaksFor(T, V, X) == \E E \in SUBSET Agents : Gathered(E, X) /\ Reporting(T, V) \subseteq E

Current == {m \in DownMsgs : m.type = "start" => Head(m.requests) = Request(nreq)}

\* The agents work on the request that was sent last, and what they report of it
\* is true of every agent below them.
Worked ==
    /\ down \in [Agents -> Seq(Current)]
    /\ In(down, {"startexperiment"}) # {} \/ CheckGoing => AAs \subseteq Begun
    /\ \A a \in AAs : started[a] => a \in Begun
    /\ SpeaksFor(SearchRequests, SearchStatus \ {"UNDEFINED"}, Begun)
    /\ SpeaksFor({"searchfinished"}, {"FINISHED"}, Over)
    /\ CheckGoing /\ (\A c \in Children(FE) : info[c].search_status = "FINISHED") => AAs \subseteq Over

\* A request waits in the buffer only until the agents have started.
Buffered ==
    buffer # <<>> => /\ Len(buffer) = 1 /\ buffer[1] = Request(nreq)
                     /\ loop = "STARTUP" /\ timerOn /\ ~ended /\ ~quitting

\* Neither waiting for the agents nor about to restart the application, with
\* the search of the operation behind it.
Settled ==
    /\ ~Waiting /\ buffer = <<>> /\ ~need_restart
    /\ op \in {"phase", "again"} \/ (op \in {"gather", "analysis"} /\ stage = "run")

Tuned ==
    /\ stage = "calltree" => loop = "REQUESTCALLTREE"
    /\ op = "phase" /\ stage = "calltree" /\ executed => ~need_restart
    /\ ~Waiting /\ buffer = <<>> => AAs \subseteq Begun
    /\ Settled => AAs \subseteq Over

\* How the loop of run_analysis ends: everyone has finished, or a restart is due,
\* or it would be but was the last one permitted.
Searched ==
    \/ AAs \subseteq Over
    \/ need_restart /\ restart_requested /\ ~shutdown_allowed /\ ~quit_fe
    \/ quit_fe /\ shutdown_allowed

Searching ==
    op = "search" =>
        /\ <<stage, loop>> \in {<<"run", "STARTUP">>, <<"terminating", "APPLICATION_TERMINATION">>,
                                <<"restarted", "STARTUP_REINIT">>}
        /\ loop = "STARTUP" /\ timerOn => buffer # <<>>
        /\ stage = "run" => ~shutdown_allowed /\ ~quit_fe
        /\ stage # "run" => runs < MaxAnalysisRuns /\ (shutdown_allowed <=> runs = MaxAnalysisRuns - 1)
        /\ quit_fe => shutdown_allowed
        /\ stage # "terminating" /\ ended /\ ~quitting => Searched

LEMMA GatheredMore ==
    ASSUME NEW E \in SUBSET Agents, NEW X, NEW Y, Gathered(E, X), X \subseteq Y
    PROVE  Gathered(E, Y)
  BY DEF Gathered

\* Whoever speaks for the child of the frontend speaks for all.
LEMMA TopSpeaks ==
    ASSUME NEW E \in SUBSET Agents, NEW X, Gathered(E, X), NEW c \in Children(FE), c \in E
    PROVE  AAs \subseteq X
<1>1. Children(FE) = {c}
  BY TreeFacts
<1>2. Agents \ E = {}
  <2> SUFFICES ASSUME Agents \ E # {} PROVE FALSE
    OBVIOUS
  <2>1. PICK n \in Agents \ E : Parent[n] \notin Agents \ E
    BY TopmostExists
  <2>2. Parent[n] # FE
    BY <1>1, <2>1, TreeFacts
  <2>3. Parent[n] \in E /\ Parent[n] \in HLAs
    BY <2>1, <2>2, TreeFacts
  <2> QED
    BY <2>1, <2>3, TreeFacts DEF Gathered
<1> QED
  BY <1>2, TreeFacts DEF Gathered

\* The pairs of a report and a note that are used.
Pair(T, V) ==
    /\ T \subseteq SearchRequests /\ "UNDEFINED" \notin V
    /\ \A t \in SearchRequests : StatusOf(t) \in V => t \in T
    /\ \A i \in [Agents -> AgentInfo], cs \in SUBSET Agents :
          AllReported(cs, i) /\ RequestOf(Combined(cs, i)) \in T => \A n \in cs : i[n].search_status \in V

LEMMA PairFacts ==
    /\ Pair(SearchRequests, SearchStatus \ {"UNDEFINED"})
    /\ Pair({"searchfinished"}, {"FINISHED"})
<1>1. Pair(SearchRequests, SearchStatus \ {"UNDEFINED"})
  BY DEF Pair, AllReported, AgentInfo
<1>2. Pair({"searchfinished"}, {"FINISHED"})
  <2>1. \A t \in SearchRequests : StatusOf(t) = "FINISHED" => t = "searchfinished"
    BY DEF SearchRequests, StatusOf
  <2>2. ASSUME NEW i \in [Agents -> AgentInfo], NEW cs \in SUBSET Agents,
               AllReported(cs, i), RequestOf(Combined(cs, i)) = "searchfinished", NEW n \in cs
        PROVE  i[n].search_status = "FINISHED"
    <3>1. /\ i[n].search_status \in SearchStatus \ {"UNDEFINED"}
          /\ ~\E m \in cs : i[m].search_status = "REQRESTART"
          /\ ~\E m \in cs : i[m].search_status = "REQEXPERIMENT"
      BY <2>2 DEF RequestOf, Combined, AllReported, AgentInfo
    <3> QED
      BY <3>1 DEF SearchStatus
  <2>3. "searchfinished" \in SearchRequests
    BY DEF SearchRequests
  <2> QED
    BY <2>1, <2>2, <2>3 DEF Pair
<1> QED
  BY <1>1, <1>2

\* A high-level agent speaks for its children.
LEMMA HLASpeaks ==
    ASSUME Types, NEW h \in HLAs, HLAStep(h), NEW T, NEW V, Pair(T, V),
           NEW X, NEW E \in SUBSET Agents, Gathered(E, X), Reporting(T, V) \subseteq E
    PROVE  \E E2 \in SUBSET Agents : Gathered(E2, X) /\ Reporting(T, V)' \subseteq E2
<1> h \in Agents /\ h \notin AAs
  BY TreeFacts
<1>0. /\ up \in [Agents -> Seq(UpMsgs)] /\ info \in [Agents -> AgentInfo]
      /\ T \subseteq SearchRequests /\ "UNDEFINED" \notin V
  BY DEF Types, StreamTypes, TreeTypes, Pair
<1>1. CASE SameSearchNotes /\ \A U \in SUBSET SearchRequests : In(up', U) \subseteq In(up, U)
  <2>1. Reporting(T, V)' \subseteq Reporting(T, V)
    BY <1>0, <1>1 DEF Reporting, SameSearchNotes
  <2> QED
    BY <2>1
<1>2. ASSUME NEW c \in Children(h), HLANotes(h, c)
      PROVE  \E E2 \in SUBSET Agents : Gathered(E2, X) /\ Reporting(T, V)' \subseteq E2
  <2> DEFINE now == [info EXCEPT ![c].search_status = StatusOf(Head(up[c]).type)]
             r   == RequestOf(Combined(Children(h), now))
  <2>0. c \in Agents /\ Parent[c] = h
    BY TreeFacts
  <2>1. /\ up[c] # <<>> /\ Head(up[c]).type \in SearchRequests
        /\ \/ info' = now /\ \A U : In(up', U) \subseteq In(up, U)
           \/ /\ AllReported(Children(h), now)
              /\ info' = SetAll(h, "search_status", "UNDEFINED")
              /\ \A U : In(up', U) \subseteq In(up, U) \cup (IF r \in U THEN {h} ELSE {})
    BY <1>2 DEF HLANotes
  <2>2. /\ \A n \in Agents : n # c => now[n] = info[n]
        /\ now[c].search_status = StatusOf(Head(up[c]).type)
        /\ now \in [Agents -> AgentInfo]
    <3>1. StatusOf(Head(up[c]).type) \in SearchStatus
      BY <2>1 DEF StatusOf, SearchRequests, SearchStatus
    <3>2. now = [info EXCEPT ![c] = [@ EXCEPT !.search_status = StatusOf(Head(up[c]).type)]]
      OBVIOUS
    <3> DEFINE s == StatusOf(Head(up[c]).type)
               i == [info[c] EXCEPT !.search_status = s]
    <3> HIDE DEF s
    <3>3. i \in AgentInfo /\ i.search_status = s
      <4>1. \A x \in AgentInfo, t \in SearchStatus : /\ [x EXCEPT !.search_status = t] \in AgentInfo
                                                     /\ [x EXCEPT !.search_status = t].search_status = t
        BY DEF AgentInfo
      <4>2. info[c] \in AgentInfo /\ s \in SearchStatus
        BY <1>0, <2>0, <3>1 DEF s
      <4> QED
        BY <4>1, <4>2
    <3> HIDE DEF i
    <3>4. now = [info EXCEPT ![c] = i]
      BY <3>2 DEF i, s
    <3> HIDE DEF now
    <3> QED
      BY <1>0, <2>0, <3>3, <3>4 DEF s
  <2>3. AllReported(Children(h), now) /\ r \in T => \A n \in Children(h) : now[n].search_status \in V
    BY <2>2, TreeFacts DEF Pair
  <2> HIDE DEF now, r
  <2>4. now[c].search_status \in V => c \in E
    <3>1. now[c].search_status \in V => Head(up[c]).type \in T
      BY <2>1, <2>2 DEF Pair
    <3>2. Head(up[c]).type \in T => c \in In(up, T)
      BY <1>0, <2>0, <2>1, ReadFacts DEF In
    <3> QED
      BY <3>1, <3>2 DEF Reporting
  <2>5. \A n \in Agents : Parent[n] # FE /\ now[n].search_status \in V => n \in E
    BY <2>2, <2>4 DEF Reporting
  <2>6. CASE info' = now /\ \A U : In(up', U) \subseteq In(up, U)
    <3>1. Reporting(T, V)' \subseteq E
      BY <2>5, <2>6 DEF Reporting
    <3> QED
      BY <3>1
  <2>7. CASE /\ AllReported(Children(h), now)
             /\ info' = SetAll(h, "search_status", "UNDEFINED")
             /\ \A U : In(up', U) \subseteq In(up, U) \cup (IF r \in U THEN {h} ELSE {})
    <3>1. \A n \in Agents : info'[n].search_status \in V => info[n].search_status \in V
      BY <1>0, <2>7 DEF SetAll, AgentInfo
    <3>2. CASE r \notin T
      <4>1. Reporting(T, V)' \subseteq E
        BY <2>7, <3>1, <3>2 DEF Reporting
      <4> QED
        BY <4>1
    <3>3. CASE r \in T
      <4>1. Children(h) \subseteq E
        BY <2>3, <2>5, <2>7, <3>3, TreeFacts
      <4>2. Gathered(E \cup {h}, X)
        BY <4>1 DEF Gathered
      <4>3. Reporting(T, V)' \subseteq E \cup {h}
        BY <2>7, <3>1 DEF Reporting
      <4> QED
        BY <4>2, <4>3
    <3> QED
      BY <3>2, <3>3
  <2> QED
    BY <2>1, <2>6, <2>7
<1> QED
  BY <1>1, <1>2, HLAReports

\* What an analysis agent begins, reports and has finished is the request that was
\* sent last.
LEMMA AAWorks ==
    ASSUME Types, Worked, NEW a \in AAs, AAStep(a), nreq' = nreq
    PROVE  /\ Begun \subseteq Begun' /\ Over \subseteq Over'
           /\ \A b \in AAs : started'[b] => b \in Begun'
           /\ \A n \in In(up', SearchRequests) : n \in In(up, SearchRequests) \/ (n = a /\ a \in Begun')
           /\ \A n \in In(up', {"searchfinished"}) : n \in In(up, {"searchfinished"}) \/ (n = a /\ a \in Over')
<1> a \in Agents
  BY TreeFacts
<1>0. /\ up \in [Agents -> Seq(UpMsgs)] /\ down \in [Agents -> Seq(DownMsgs)]
      /\ strategy \in [AAs -> 0..nreq] /\ finished \in [AAs -> 0..nreq] /\ started \in [AAs -> BOOLEAN]
  BY DEF Types, StreamTypes, AATypes, NumberTypes
<1>1. \A b \in AAs : started[b] => b \in Begun
  BY DEF Worked
<1>2. /\ {"heartbeat", "terminated"} \cap SearchRequests = {} /\ "searchfinished" # "needrestart"
      /\ {"heartbeat", "terminated", "searchfinished", "reqexperiment", "needrestart"} \subseteq UpTypes
      /\ "searchfinished" # "reqexperiment" /\ {"searchfinished"} \subseteq SearchRequests
      /\ "needrestart" \in SearchRequests /\ "reqexperiment" \in SearchRequests
  BY DEF UpTypes, SearchRequests
<1>3. ASSUME NEW t \in UpTypes, SendUp(a, t)
      PROVE  \A T : In(up', T) = In(up, T) \cup (IF t \in T THEN {a} ELSE {})
  BY <1>3, SentUp
<1> DEFINE Same == \A T \in SUBSET SearchRequests : In(up', T) = In(up, T)
<1>4. up' = up => Same
  OBVIOUS
<1>5. SendUp(a, "heartbeat") \/ SendUp(a, "terminated") => Same
  <2>1. ASSUME NEW t \in {"heartbeat", "terminated"}, SendUp(a, t) PROVE Same
    <3>1. \A T : In(up', T) = In(up, T) \cup (IF t \in T THEN {a} ELSE {})
      BY <1>2, <1>3, <2>1
    <3>2. \A T \in SUBSET SearchRequests : t \notin T
      BY <1>2, <2>1
    <3> QED
      BY <3>1, <3>2
  <2> QED
    BY <2>1
<1>6. ASSUME Same, UNCHANGED <<strategy, finished, started>>
      PROVE  /\ Begun \subseteq Begun' /\ Over \subseteq Over'
             /\ \A b \in AAs : started'[b] => b \in Begun'
             /\ \A n \in In(up', SearchRequests) : n \in In(up, SearchRequests)
             /\ \A n \in In(up', {"searchfinished"}) : n \in In(up, {"searchfinished"})
  BY <1>1, <1>2, <1>6 DEF Begun, Over
<1> HIDE DEF Same
<1>7. CASE AARun(a) \/ AAOnTerminate(a) \/ AAOnQuit(a) \/ AAOnReinit(a)
  <2>1. UNCHANGED <<strategy, finished, started>>
    BY <1>7 DEF AARun, AAOnTerminate, AAOnQuit, AAOnReinit, aaVars
  <2>2. up' = up \/ SendUp(a, "heartbeat") \/ SendUp(a, "terminated")
    BY <1>7 DEF AARun, AAOnTerminate, AAOnQuit, AAOnReinit
  <2> QED
    BY <1>4, <1>5, <1>6, <2>1, <2>2
<1>8. CASE AAOnCheck(a) \/ AAOnSerializeCalltree(a)
  <2>1. UNCHANGED <<strategy, finished, started>>
    BY <1>8 DEF AAOnCheck, AAOnSerializeCalltree
  <2>2. Same
    BY <1>8, SilentOnSearch DEF Same
  <2> QED
    BY <1>6, <2>1, <2>2
<1>9. CASE AAOnStart(a)
  <2> DEFINE r == Head(Head(down[a]).requests)
  <2>1. r.id = nreq
    <3>1. down[a] \in Seq(Current) /\ down[a] # <<>> /\ Head(down[a]).type = "start"
      BY <1>9 DEF AAOnStart, HasRequest, Worked
    <3>2. Head(down[a]) \in Current
      BY <3>1, ReadFacts
    <3> QED
      BY <3>1, <3>2 DEF Current, Request
  <2>2. /\ strategy' = [strategy EXCEPT ![a] = nreq]
        /\ \/ SendUp(a, "searchfinished") /\ finished' = [finished EXCEPT ![a] = nreq] /\ started' = started
           \/ SendUp(a, "needrestart") /\ finished' = finished /\ started' = started
           \/ up' = up /\ finished' = finished /\ started' = [started EXCEPT ![a] = TRUE]
    <3> HIDE DEF r
    <3>1. /\ strategy' = [strategy EXCEPT ![a] = r.id]
          /\ \/ SendUp(a, "searchfinished") /\ finished' = [finished EXCEPT ![a] = r.id] /\ started' = started
             \/ SendUp(a, "needrestart") /\ finished' = finished /\ started' = started
             \/ up' = up /\ finished' = finished /\ started' = [started EXCEPT ![a] = TRUE]
      BY <1>9 DEF AAOnStart, StartExperiment, r
    <3> QED
      BY <2>1, <3>1
  <2>3. Begun \subseteq Begun' /\ a \in Begun'
    BY <1>0, <2>2 DEF Begun
  <2>4. Over \subseteq Over'
    BY <1>0, <2>2 DEF Over
  <2>5. \A b \in AAs : started'[b] => b \in Begun'
    BY <1>0, <1>1, <2>2, <2>3
  <2>6. \A n \in In(up', SearchRequests) : n \in In(up, SearchRequests) \/ n = a
    BY <1>2, <1>3, <2>2
  <2>7. \A n \in In(up', {"searchfinished"}) : n \in In(up, {"searchfinished"}) \/ (n = a /\ a \in Over')
    <3>1. CASE SendUp(a, "searchfinished") /\ finished' = [finished EXCEPT ![a] = nreq]
      <4>1. a \in Over'
        BY <1>0, <3>1 DEF Over
      <4> QED
        BY <1>2, <1>3, <3>1, <4>1
    <3>2. CASE SendUp(a, "needrestart")
      BY <1>2, <1>3, <3>2
    <3> QED
      BY <2>2, <3>1, <3>2
  <2> QED
    BY <2>3, <2>4, <2>5, <2>6, <2>7
<1>10. CASE AAOnStartExperiment(a)
  <2>1. a \in Begun
    <3>1. down[a] # <<>> /\ Head(down[a]).type = "startexperiment"
      BY <1>10 DEF AAOnStartExperiment, HasRequest
    <3>2. a \in In(down, {"startexperiment"})
      BY <1>0, <3>1, ReadFacts DEF In
    <3> QED
      BY <3>2 DEF Worked
  <2>2. /\ UNCHANGED <<strategy, finished>>
        /\ \/ SendUp(a, "needrestart") /\ started' = started
           \/ up' = up /\ started' = [started EXCEPT ![a] = TRUE]
    BY <1>10 DEF AAOnStartExperiment, StartExperiment
  <2>3. Begun' = Begun /\ Over' = Over
    BY <2>2 DEF Begun, Over
  <2>4. \A b \in AAs : started'[b] => b \in Begun'
    BY <1>0, <1>1, <2>1, <2>2, <2>3
  <2>5. \A n \in In(up', SearchRequests) : n \in In(up, SearchRequests) \/ n = a
    BY <1>2, <1>3, <2>2
  <2>6. In(up', {"searchfinished"}) = In(up, {"searchfinished"})
    BY <1>2, <1>3, <2>2
  <2> QED
    BY <2>1, <2>3, <2>4, <2>5, <2>6
<1>11. CASE AAEvaluate(a)
  <2>1. a \in Begun
    BY <1>1, <1>11 DEF AAEvaluate
  <2>2. /\ strategy' = strategy /\ started' = [started EXCEPT ![a] = FALSE]
        /\ \/ SendUp(a, "searchfinished") /\ finished' = [finished EXCEPT ![a] = strategy[a]]
           \/ SendUp(a, "needrestart") /\ finished' = finished
           \/ SendUp(a, "reqexperiment") /\ finished' = finished
    BY <1>11 DEF AAEvaluate
  <2>3. Begun' = Begun
    BY <2>2 DEF Begun
  <2>4. Over \subseteq Over'
    BY <1>0, <2>1, <2>2 DEF Over, Begun
  <2>5. \A b \in AAs : started'[b] => b \in Begun'
    BY <1>0, <1>1, <2>2, <2>3
  <2>6. \A n \in In(up', SearchRequests) : n \in In(up, SearchRequests) \/ n = a
    BY <1>2, <1>3, <2>2
  <2>7. \A n \in In(up', {"searchfinished"}) : n \in In(up, {"searchfinished"}) \/ (n = a /\ a \in Over')
    <3>1. CASE SendUp(a, "searchfinished") /\ finished' = [finished EXCEPT ![a] = strategy[a]]
      <4>1. a \in Over'
        BY <1>0, <2>1, <3>1 DEF Over, Begun
      <4> QED
        BY <1>2, <1>3, <3>1, <4>1
    <3>2. CASE SendUp(a, "needrestart")
      BY <1>2, <1>3, <3>2
    <3>3. CASE SendUp(a, "reqexperiment")
      BY <1>2, <1>3, <3>3
    <3> QED
      BY <2>2, <3>1, <3>2, <3>3
  <2> QED
    BY <2>1, <2>3, <2>4, <2>5, <2>6, <2>7
<1> QED
  BY <1>7, <1>8, <1>9, <1>10, <1>11 DEF AAStep, AAHandleRequest

\* The requests that are passed on are as current as those that were sent.
LEMMA AgentCurrent ==
    ASSUME Types, Worked, NEW n \in Agents, AgentStep(n)
    PROVE  down' \in [Agents -> Seq(Current)]
<1>0. down \in [Agents -> Seq(Current)] /\ \A t \in DownTypes : Msg(t) \in Current
  BY DownMsgFacts DEF Worked, Current, DownTypes
<1>1. ASSUME down[n] # <<>>, down' = [down EXCEPT ![n] = Tail(@)] PROVE down' \in [Agents -> Seq(Current)]
  <2>1. Tail(down[n]) \in Seq(Current)
    BY <1>0, <1>1, ReadFacts
  <2> QED
    BY <1>0, <1>1, <2>1
<1>2. CASE n \in AAs /\ AAStep(n)
  <2>1. down' = down \/ (down[n] # <<>> /\ ReadRequest(n))
    <3>1. CASE AAHandleRequest(n)
      <4>1. CASE AAOnStart(n)
        BY <4>1 DEF AAOnStart, HasRequest
      <4>2. CASE AAOnStartExperiment(n) \/ AAOnTerminate(n) \/ AAOnQuit(n)
        BY <4>2 DEF AAOnStartExperiment, AAOnTerminate, AAOnQuit, HasRequest
      <4>3. CASE AAOnCheck(n) \/ AAOnSerializeCalltree(n) \/ AAOnReinit(n)
        BY <4>3 DEF AAOnCheck, AAOnSerializeCalltree, AAOnReinit, HasRequest
      <4> QED
        BY <3>1, <4>1, <4>2, <4>3 DEF AAHandleRequest
    <3> QED
      BY <1>2, <3>1 DEF AAStep, AARun, AAEvaluate
  <2> QED
    BY <1>0, <1>1, <2>1 DEF ReadRequest
<1>3. CASE n \in HLAs /\ HLAStep(n)
  <2>1. \/ down' = down
        \/ down[n] # <<>> /\ down' = ForwardDown(n, Head(down[n]))
        \/ down[n] # <<>> /\ \E t \in DownTypes : down' = ForwardDown(n, Msg(t))
    <3>1. CASE HLAHandleRequest(n)
      <4>1. CASE HLAOnStart(n)
        BY <4>1 DEF HLAOnStart, HasRequest
      <4>2. {"check", "terminate", "serializecalltree", "reinit", "quit"} \subseteq DownTypes
        BY DEF DownTypes
      <4>3. CASE HLAOnCheck(n) \/ HLAOnTerminate(n)
        BY <4>2, <4>3 DEF HLAOnCheck, HLAOnTerminate, HasRequest
      <4>4. CASE HLAOnSerializeCalltree(n) \/ HLAOnReinit(n)
        BY <4>2, <4>4 DEF HLAOnSerializeCalltree, HLAOnReinit, HasRequest
      <4>5. CASE HLAOnQuit(n)
        BY <4>2, <4>5 DEF HLAOnQuit, HasRequest
      <4> QED
        BY <3>1, <4>1, <4>3, <4>4, <4>5 DEF HLAHandleRequest
    <3>2. CASE ~HLAHandleRequest(n)
      BY <1>3, <3>2 DEF HLAStep, HLARun, HLAHandleMessage, HLAHandleTimeout, HLAOnHeartbeat, HLAOnFoundProp,
                        HLAOnCalltree, HLAOnCalltreeSent, HLAOnSearchRequest, HLAOnTerminated, HLAOnPropertiesSent
    <3> QED
      BY <3>1, <3>2
  <2>2. ASSUME down[n] # <<>>, NEW m \in Current, down' = ForwardDown(n, m) PROVE down' \in [Agents -> Seq(Current)]
    BY <1>0, <2>2, ForwardedDown
  <2>3. down[n] # <<>> => Head(down[n]) \in Current
    BY <1>0, ReadFacts
  <2> QED
    BY <1>0, <2>1, <2>2, <2>3
<1> QED
  BY <1>2, <1>3 DEF AgentStep

\* Nobody begins what was not asked for.
LEMMA AgentWorks ==
    ASSUME Types, Worked, NEW n \in Agents, AgentStep(n), nreq' = nreq
    PROVE  Worked' /\ Begun \subseteq Begun' /\ Over \subseteq Over'
<1> DEFINE SR == SearchRequests
           SV == SearchStatus \ {"UNDEFINED"}
           FR == {"searchfinished"}
           FV == {"FINISHED"}
<1>1. down' \in [Agents -> Seq(Current')]
  <2>1. Current' = Current
    BY DEF Current, DownMsgs, Requests
  <2> QED
    BY <2>1, AgentCurrent
<1>2. In(down', {"startexperiment"}) # {} \/ CheckGoing' => AAs \subseteq Begun
  <2>1. CheckGoing' => CheckGoing
    BY CheckGoesOn
  <2>2. down' = down \/ \E t : Handled(n, t)
    <3>1. AgentActs(n)
      BY AAActs, HLAActs DEF AgentStep
    <3> QED
      BY <3>1 DEF AgentActs
  <2>3. In(down', {"startexperiment"}) # {} => In(down, {"startexperiment"}) # {}
    BY <2>2 DEF Handled
  <2> QED
    BY <2>1, <2>3 DEF Worked
<1>3. \A c \in Children(FE) : info'[c].search_status = info[c].search_status
  BY AAAsks, HLAAsks DEF AgentStep
<1>4. PICK E \in SUBSET Agents : Gathered(E, Begun) /\ Reporting(SR, SV) \subseteq E
  BY DEF Worked, SpeaksFor
<1>5. PICK D \in SUBSET Agents : Gathered(D, Over) /\ Reporting(FR, FV) \subseteq D
  BY DEF Worked, SpeaksFor
<1>6. /\ Begun \subseteq Begun' /\ Over \subseteq Over'
      /\ \A a \in AAs : started'[a] => a \in Begun'
      /\ \E E2 \in SUBSET Agents : Gathered(E2, Begun') /\ Reporting(SR, SV)' \subseteq E2
      /\ \E D2 \in SUBSET Agents : Gathered(D2, Over') /\ Reporting(FR, FV)' \subseteq D2
  <2>1. CASE n \in AAs /\ AAStep(n)
    <3>1. /\ Begun \subseteq Begun' /\ Over \subseteq Over'
          /\ \A b \in AAs : started'[b] => b \in Begun'
          /\ \A k \in In(up', SR) : k \in In(up, SR) \/ (k = n /\ n \in Begun')
          /\ \A k \in In(up', FR) : k \in In(up, FR) \/ (k = n /\ n \in Over')
          /\ info' = info
      BY <2>1, AAWorks, AAAsks
    <3>2. ASSUME NEW F \in SUBSET Agents, NEW X, Gathered(F, X), n \in X
          PROVE  Gathered(F \cup {n}, X)
      BY <2>1, <3>2 DEF Gathered
    <3>3. Gathered(E, Begun') /\ Gathered(D, Over')
      BY <1>4, <1>5, <3>1, GatheredMore
    <3>4. \E E2 \in SUBSET Agents : Gathered(E2, Begun') /\ Reporting(SR, SV)' \subseteq E2
      <4>1. CASE n \in Begun'
        <5>1. Gathered(E \cup {n}, Begun') /\ E \cup {n} \in SUBSET Agents
          BY <3>2, <3>3, <4>1
        <5>2. Reporting(SR, SV)' \subseteq E \cup {n}
          BY <1>4, <3>1 DEF Reporting
        <5> QED
          BY <5>1, <5>2
      <4>2. CASE n \notin Begun'
        <5>1. Reporting(SR, SV)' \subseteq E
          BY <1>4, <3>1, <4>2 DEF Reporting
        <5> QED
          BY <3>3, <5>1
      <4> QED
        BY <4>1, <4>2
    <3>5. \E D2 \in SUBSET Agents : Gathered(D2, Over') /\ Reporting(FR, FV)' \subseteq D2
      <4>1. CASE n \in Over'
        <5>1. Gathered(D \cup {n}, Over') /\ D \cup {n} \in SUBSET Agents
          BY <3>2, <3>3, <4>1
        <5>2. Reporting(FR, FV)' \subseteq D \cup {n}
          BY <1>5, <3>1 DEF Reporting
        <5> QED
          BY <5>1, <5>2
      <4>2. CASE n \notin Over'
        <5>1. Reporting(FR, FV)' \subseteq D
          BY <1>5, <3>1, <4>2 DEF Reporting
        <5> QED
          BY <3>3, <5>1
      <4> QED
        BY <4>1, <4>2
    <3> QED
      BY <3>1, <3>4, <3>5
  <2>2. CASE n \in HLAs /\ HLAStep(n) /\ UNCHANGED aaVars
    <3>1. UNCHANGED <<strategy, finished, started>> /\ Begun' = Begun /\ Over' = Over
      BY <2>2 DEF aaVars, Begun, Over
    <3>2. \A a \in AAs : started'[a] => a \in Begun'
      BY <3>1 DEF Worked
    <3>3. \E E2 \in SUBSET Agents : Gathered(E2, Begun) /\ Reporting(SR, SV)' \subseteq E2
      BY <1>4, <2>2, PairFacts, HLASpeaks
    <3>4. \E D2 \in SUBSET Agents : Gathered(D2, Over) /\ Reporting(FR, FV)' \subseteq D2
      BY <1>5, <2>2, PairFacts, HLASpeaks
    <3> QED
      BY <3>1, <3>2, <3>3, <3>4
  <2> QED
    BY <2>1, <2>2 DEF AgentStep
<1>7. CheckGoing' /\ (\A c \in Children(FE) : info'[c].search_status = "FINISHED") => AAs \subseteq Over
  BY <1>3, CheckGoesOn DEF Worked
<1> QED
  BY <1>1, <1>2, <1>6, <1>7 DEF Worked, SpeaksFor

\* While no search and no check is out there is nothing of the last request left.
LEMMA NothingLeft ==
    ASSUME Inv, ~Waiting
    PROVE  /\ AskedSearch = {} /\ ~CheckGoing /\ \A a \in AAs : ~started[a]
           /\ Reporting(SearchRequests, SearchStatus \ {"UNDEFINED"}) = {}
           /\ Reporting({"searchfinished"}, {"FINISHED"}) = {}
<1>1. PICK B \in SUBSET Agents, C \in SUBSET Agents, T \in SUBSET Agents : Going(B, C, T)
  BY DEF Inv
<1>2. SearchWave(B) /\ ~SearchOut(B) /\ CheckWave(C) /\ ~CheckOut(C)
  BY <1>1 DEF Going, Phases
<1>3. /\ AskedSearch = {} /\ ToldSearch = {} /\ \A a \in AAs : ~started[a]
      /\ \A n \in Agents : Parent[n] # FE => n \notin Reported
  BY <1>2, SearchOver
<1>4. ~CheckGoing
  BY <1>2, NothingChecked
<1>5. In(up, {"searchfinished"}) \subseteq ToldSearch
  BY HasFacts DEF In, ToldSearch, SearchRequests
<1>6. Reporting(SearchRequests, SearchStatus \ {"UNDEFINED"}) = {}
  BY <1>3 DEF Reporting, ToldSearch, Reported
<1>7. Reporting({"searchfinished"}, {"FINISHED"}) = {}
  BY <1>3, <1>5 DEF Reporting, Reported
<1> QED
  BY <1>3, <1>4, <1>6, <1>7

\* What the frontend decides when its child has delivered its properties.
LEMMA FEDecides ==
    ASSUME Types, NEW c \in Agents, FEHandleMessage(c), Head(up[c]).type = "propertiessent", buffer = <<>>
    PROVE  /\ buffer' = buffer
           /\ \/ /\ down' = down
                 /\ UNCHANGED <<ended, need_restart, quit_fe, quitting>>
              \/ /\ info[c].search_status = "FINISHED"
                 /\ down' = down /\ ended'
                 /\ UNCHANGED <<need_restart, quit_fe, quitting>>
              \/ /\ down' = SendToChildren(FE, Msg("startexperiment"))
                 /\ UNCHANGED <<ended, need_restart, quit_fe, quitting>>
              \/ /\ shutdown_allowed
                 /\ down' = SendToChildren(FE, Msg("quit")) /\ quit_fe' /\ quitting'
                 /\ UNCHANGED <<ended, need_restart>>
              \/ /\ ~shutdown_allowed
                 /\ down' = down /\ ended' /\ need_restart' /\ restart_requested'
                 /\ UNCHANGED <<quit_fe, quitting>>
<1> DEFINE i == [info EXCEPT ![c].properties_sent = TRUE]
           s == Combined(Children(FE), i)
<1>0. info \in [Agents -> AgentInfo] /\ Children(FE) = {c}
  <2>1. Parent[c] = FE
    BY DEF FEHandleMessage
  <2>2. Children(FE) = {c}
    BY <2>1, TreeFacts
  <2> QED
    BY <2>2 DEF Types, TreeTypes
<1>1. FEOnPropertiesSent(c)
  BY DEF FEHandleMessage, FEOnHeartbeat, FEOnFoundProp, FEOnCalltree, FEOnSearchRequest,
         FEOnTerminated, FEOnCalltreeSent, HasMessage, SearchRequests
<1>2. i[c].search_status = info[c].search_status /\ i[c].properties_sent
  BY <1>0 DEF AgentInfo
<1> HIDE DEF i
<1>3. DecideContinuation(i)
  BY <1>0, <1>1, <1>2 DEF FEOnPropertiesSent, i
<1>4. \/ /\ down' = down
         /\ UNCHANGED <<buffer, ended, need_restart, quit_fe, quitting>>
      \/ /\ AllReported(Children(FE), i)
         /\ \E r \in IF s = "REQEXPERIMENT" THEN Reinstrument ELSE {FALSE} :
               Enforce(i, IF r THEN "REQRESTART" ELSE s)
  BY <1>0, <1>2, <1>3 DEF DecideContinuation
<1>5. AllReported(Children(FE), i) /\ s = "FINISHED" => info[c].search_status = "FINISHED"
  <2>1. info[c].search_status \in SearchStatus
    BY <1>0 DEF AgentInfo
  <2> QED
    BY <1>0, <1>2, <2>1 DEF AllReported, Combined, SearchStatus
<1>6. ASSUME AllReported(Children(FE), i), NEW r,
             Enforce(i, IF r THEN "REQRESTART" ELSE s)
      PROVE  /\ buffer' = buffer
             /\ \/ /\ info[c].search_status = "FINISHED"
                   /\ down' = down /\ ended'
                   /\ UNCHANGED <<need_restart, quit_fe, quitting>>
                \/ /\ down' = SendToChildren(FE, Msg("startexperiment"))
                   /\ UNCHANGED <<ended, need_restart, quit_fe, quitting>>
                \/ /\ shutdown_allowed
                   /\ down' = SendToChildren(FE, Msg("quit")) /\ quit_fe' /\ quitting'
                   /\ UNCHANGED <<ended, need_restart>>
                \/ /\ ~shutdown_allowed
                   /\ down' = down /\ ended' /\ need_restart' /\ restart_requested'
                   /\ UNCHANGED <<quit_fe, quitting>>
  <2> DEFINE t == IF r THEN "REQRESTART" ELSE s
  <2>1. t = "FINISHED" => info[c].search_status = "FINISHED"
    BY <1>5, <1>6
  <2> HIDE DEF t
  <2>2. Enforce(i, t)
    BY <1>6 DEF t
  <2> QED
    BY <2>1, <2>2, Zenon DEF Enforce, Start, Quit
<1> QED
  BY <1>4, <1>6

\* A message changes what the frontend does only as the answer to a search it
\* waits for, except that the call-tree ends its own event loop.
LEMMA FEMessageWorks ==
    ASSUME Inv, Worked, Buffered, NEW c \in Agents, FEHandleMessage(c)
    PROVE  /\ Worked'
           /\ UNCHANGED <<op, stage, loop, timerOn, runs, nreq, executed, shutdown_allowed, buffer>>
           /\ Begun' = Begun /\ Over' = Over
           /\ \/ UNCHANGED <<ended, need_restart, quit_fe, quitting>>
              \/ loop = "REQUESTCALLTREE" /\ UNCHANGED <<need_restart, quit_fe, quitting>>
              \/ /\ Waiting /\ AAs \subseteq Begun
                 /\ \/ AAs \subseteq Over /\ ended' /\ UNCHANGED <<need_restart, quit_fe, quitting>>
                    \/ /\ ~shutdown_allowed /\ ended' /\ need_restart' /\ restart_requested'
                       /\ UNCHANGED <<quit_fe, quitting>>
                    \/ shutdown_allowed /\ quit_fe' /\ quitting' /\ UNCHANGED <<ended, need_restart>>
<1> DEFINE SR == SearchRequests
           SV == SearchStatus \ {"UNDEFINED"}
           FR == {"searchfinished"}
           FV == {"FINISHED"}
<1>1. PICK B \in SUBSET Agents, C \in SUBSET Agents, T \in SUBSET Agents : Going(B, C, T)
  BY DEF Inv
<1>2. SearchWave(B) /\ CheckWave(C) /\ Phases(B, C, T) /\ Types
  BY <1>1 DEF Going, Inv
<1>3. /\ c \in Children(FE) /\ up[c] # <<>> /\ Read(up, up', c) /\ SameBelow
      /\ FEReadsPlain(c) \/ FEReadsSearch(c) \/ FEReadsCheck(c) \/ FEReadsTree(c)
      /\ Children(FE) = {c}
  BY <1>2, FEMessageKinds, TreeFacts
<1>4. /\ UNCHANGED <<op, stage, loop, timerOn, runs, nreq, executed>>
      /\ UNCHANGED <<strategy, finished, started>>
      /\ Begun' = Begun /\ Over' = Over
  BY DEF FEHandleMessage, ctlVars, aaVars, Begun, Over
<1>5. \A U : Head(up[c]).type \in U => c \in In(up, U)
  BY <1>3 DEF Read
<1>6. /\ \A U : In(up', U) \subseteq In(up, U)
      /\ Reporting(SR, SV)' \subseteq Reporting(SR, SV)
      /\ Reporting(FR, FV)' \subseteq Reporting(FR, FV)
  BY <1>3 DEF Read, Reporting, SameBelow
<1>7. PICK E \in SUBSET Agents : Gathered(E, Begun) /\ Reporting(SR, SV) \subseteq E
  BY DEF Worked, SpeaksFor
<1>8. PICK D \in SUBSET Agents : Gathered(D, Over) /\ Reporting(FR, FV) \subseteq D
  BY DEF Worked, SpeaksFor
<1>9. /\ SpeaksFor(SR, SV, Begun)'
      /\ SpeaksFor(FR, FV, Over)'
      /\ \A a \in AAs : started'[a] => a \in Begun'
  BY <1>4, <1>6, <1>7, <1>8 DEF SpeaksFor, Worked
<1>10. Current' = Current
  BY <1>4 DEF Current, DownMsgs, Requests
<1>11. ASSUME NEW t \in {"check", "startexperiment", "quit"}
       PROVE  SendToChildren(FE, Msg(t)) \in [Agents -> Seq(Current)]
  <2>1. t \in DownTypes /\ t # "start"
    BY DEF DownTypes
  <2>2. Msg(t) \in Current
    BY <2>1, DownMsgFacts DEF Current
  <2> QED
    BY <2>2, SentDown DEF Worked
<1>12. shutdown_allowed' = shutdown_allowed
  BY FEMessageQuits
<1>13. CASE Head(up[c]).type = "propertiessent"
  <2>1. c \in ToldCheck /\ CheckOut(C) /\ CheckGoing
    BY <1>3, <1>5, <1>13 DEF ToldCheck, CheckOut, Out, CheckGoing
  <2>2. Waiting /\ buffer = <<>>
    BY <1>2, <2>1 DEF Phases, Waiting, Buffered
  <2>3. AAs \subseteq Begun
    BY <2>1 DEF Worked
  <2>4. info[c].search_status = "FINISHED" => AAs \subseteq Over
    BY <1>3, <2>1 DEF Worked
  <2> DEFINE Decided ==
        \/ /\ down' = down
           /\ UNCHANGED <<ended, need_restart, quit_fe, quitting>>
        \/ /\ info[c].search_status = "FINISHED"
           /\ down' = down /\ ended'
           /\ UNCHANGED <<need_restart, quit_fe, quitting>>
        \/ /\ down' = SendToChildren(FE, Msg("startexperiment"))
           /\ UNCHANGED <<ended, need_restart, quit_fe, quitting>>
        \/ /\ shutdown_allowed
           /\ down' = SendToChildren(FE, Msg("quit")) /\ quit_fe' /\ quitting'
           /\ UNCHANGED <<ended, need_restart>>
        \/ /\ ~shutdown_allowed
           /\ down' = down /\ ended' /\ need_restart' /\ restart_requested'
           /\ UNCHANGED <<quit_fe, quitting>>
  <2>5. buffer' = buffer /\ Decided
    BY <1>2, <1>13, <2>2, FEDecides
  <2>6. down' \in [Agents -> Seq(Current')]
    <3>1. \/ down' = down
          \/ \E t \in {"check", "startexperiment", "quit"} : down' = SendToChildren(FE, Msg(t))
      BY <2>5
    <3> QED
      BY <1>10, <1>11, <3>1 DEF Worked
  <2>7. ~CheckGoing'
    <3>1. CASE down' = down
      <4>1. Stays(down, down', {"check"})
        BY <3>1, DownStays
      <4> QED
        BY <1>2, <1>3, <1>13, <4>1, CheckEnds
    <3>2. CASE down' # down
      <4>1. \E t \in {"startexperiment", "quit"} : down' = SendToChildren(FE, Msg(t))
        BY <2>5, <3>2
      <4>2. FESends({"startexperiment", "quit"})
        BY <1>2, <4>1, FESentType DEF DownTypes
      <4>3. Stays(down, down', {"check"})
        BY <4>2, FEWrites
      <4> QED
        BY <1>2, <1>3, <1>13, <4>3, CheckEnds
    <3> QED
      BY <3>1, <3>2
  <2>8. Worked'
    BY <1>4, <1>9, <2>3, <2>6, <2>7 DEF Worked
  <2> HIDE DEF Decided
  <2>9. \/ UNCHANGED <<ended, need_restart, quit_fe, quitting>>
        \/ /\ Waiting /\ AAs \subseteq Begun
           /\ \/ AAs \subseteq Over /\ ended' /\ UNCHANGED <<need_restart, quit_fe, quitting>>
              \/ /\ ~shutdown_allowed /\ ended' /\ need_restart' /\ restart_requested'
                 /\ UNCHANGED <<quit_fe, quitting>>
              \/ shutdown_allowed /\ quit_fe' /\ quitting' /\ UNCHANGED <<ended, need_restart>>
    BY <2>2, <2>3, <2>4, <2>5, Zenon DEF Decided
  <2> QED
    BY <1>4, <1>12, <2>5, <2>8, <2>9
<1>14. CASE Head(up[c]).type # "propertiessent"
  <2>1. Head(up[c]).type \in SR => SearchOut(B) /\ ~info[c].properties_sent
    <3>1. ASSUME Head(up[c]).type \in SR PROVE SearchOut(B)
      BY <1>3, <1>5, <3>1 DEF ToldSearch, SearchOut, Out
    <3> QED
      BY <1>2, <1>3, <3>1 DEF Phases
  <2>2. /\ UNCHANGED <<need_restart, quit_fe, quitting, buffer>>
        /\ Head(up[c]).type # "calltreesent" => ended' = ended
        /\ down' = down \/ down' = SendToChildren(FE, Msg("check"))
        /\ IF Head(up[c]).type \in SR
           THEN info'[c].search_status = StatusOf(Head(up[c]).type)
           ELSE info'[c].search_status = info[c].search_status
    BY <1>2, <1>14, <2>1, FENotes
  <2>3. Head(up[c]).type = "calltreesent" => loop = "REQUESTCALLTREE"
    <3>1. Head(up[c]).type = "calltreesent" => TreeOut(T)
      BY <1>3, <1>5 DEF ToldTree, TreeOut, Out
    <3> QED
      BY <1>2, <3>1 DEF Phases, TreeAwaited
  <2>4. down' \in [Agents -> Seq(Current')]
    BY <1>10, <1>11, <2>2 DEF Worked
  <2>5. /\ In(down', {"startexperiment"}) = In(down, {"startexperiment"})
        /\ CheckGoing' => CheckGoing \/ Head(up[c]).type \in SR
    <3>1. CASE Head(up[c]).type \in SR
      <4>1. down' = SendToChildren(FE, Msg("check")) => FESends({"check"})
        BY <1>2, FESentType DEF DownTypes
      <4>2. Stays(down, down', {"startexperiment"})
        BY <2>2, <4>1, DownStays, FEWrites
      <4> QED
        BY <3>1, <4>2 DEF Stays
    <3>2. CASE Head(up[c]).type \notin SR
      <4>1. down' = down
        BY <1>3, <1>14, <3>2 DEF FEReadsPlain, FEReadsSearch, FEReadsCheck, FEReadsTree
      <4> QED
        BY <1>6, <3>2, <4>1 DEF CheckGoing, AskedCheck, ToldCheck
    <3> QED
      BY <3>1, <3>2
  <2>6. Head(up[c]).type \in SR => AAs \subseteq Begun
    <3>1. Head(up[c]).type \in SR => c \in E
      BY <1>5, <1>7 DEF Reporting
    <3> QED
      BY <1>3, <1>7, <3>1, TopSpeaks
  <2>7. Head(up[c]).type \in SR /\ info'[c].search_status = "FINISHED" => AAs \subseteq Over
    <3>1. ASSUME Head(up[c]).type \in SR, info'[c].search_status = "FINISHED" PROVE c \in D
      <4>1. Head(up[c]).type \in FR
        BY <2>2, <3>1 DEF StatusOf, SearchRequests
      <4> QED
        BY <1>5, <1>8, <4>1 DEF Reporting
    <3> QED
      BY <1>3, <1>8, <3>1, TopSpeaks
  <2>8. In(down', {"startexperiment"}) # {} \/ CheckGoing' => AAs \subseteq Begun
    BY <2>5, <2>6 DEF Worked
  <2>9. CheckGoing' /\ (\A k \in Children(FE) : info'[k].search_status = "FINISHED") => AAs \subseteq Over
    <3>1. ASSUME Head(up[c]).type \notin SR, CheckGoing', info'[c].search_status = "FINISHED"
          PROVE  AAs \subseteq Over
      BY <1>3, <2>2, <2>5, <3>1 DEF Worked
    <3> QED
      BY <1>3, <2>7, <3>1
  <2>10. Worked'
    BY <1>4, <1>9, <2>4, <2>8, <2>9 DEF Worked
  <2> QED
    BY <1>4, <1>12, <2>2, <2>3, <2>10
<1> QED
  BY <1>13, <1>14

\* What the frontend does without a message.
LEMMA FEOwnWorks ==
    ASSUME Inv, Worked, Buffered, ~Waiting /\ buffer = <<>> => AAs \subseteq Begun,
           \/ FEHandleStep \/ FETimeout \/ FEQuitFinished
           \/ FERestart \/ FERerun \/ FEResults \/ FECalltreeDone \/ FEPhaseAgain
           \/ FERestartDone \/ FESearchEnded
           \/ FEBegin("analysis") \/ FEBegin("phase") \/ FEConsiderRestart
           \/ FEFinalize
    PROVE  Worked'
<1> DEFINE SR == SearchRequests
           SV == SearchStatus \ {"UNDEFINED"}
           FR == {"searchfinished"}
           FV == {"FINISHED"}
<1>1. up' = up /\ SameBelow /\ ~Waiting /\ ~CheckGoing'
  BY FEOwnChecks
<1>2. /\ AskedSearch = {} /\ \A a \in AAs : ~started'[a]
      /\ Reporting(SR, SV)' = {} /\ Reporting(FR, FV)' = {}
  <2>1. /\ AskedSearch = {} /\ \A a \in AAs : ~started[a]
        /\ Reporting(SR, SV) = {} /\ Reporting(FR, FV) = {}
    BY <1>1, NothingLeft
  <2> QED
    BY <1>1, <2>1 DEF SameBelow, Reporting
<1>3. SpeaksFor(SR, SV, Begun)' /\ SpeaksFor(FR, FV, Over)'
  <2>1. \A X : Gathered({}, X)
    BY DEF Gathered
  <2>2. Gathered({}, Begun') /\ Gathered({}, Over')
    BY <2>1
  <2>3. (\E E \in SUBSET Agents : Gathered(E, Begun') /\ Reporting(SR, SV)' \subseteq E)
    BY <1>2, <2>2
  <2>4. (\E E \in SUBSET Agents : Gathered(E, Over') /\ Reporting(FR, FV)' \subseteq E)
    BY <1>2, <2>2
  <2> QED
    BY <2>3, <2>4 DEF SpeaksFor
<1>4. nreq \in Nat /\ nreq' \in Nat /\ nreq <= nreq'
  <2>1. nreq \in Nat
    BY DEF Inv, Types, NumberTypes
  <2>2. nreq' = nreq \/ nreq' = nreq + 1
    BY DEF FEHandleStep, FETimeout, FEQuitFinished, FERestart, FERerun, FEResults, FECalltreeDone, FEPhaseAgain,
           FERestartDone, FESearchEnded, FEBegin, FEConsiderRestart, FEFinalize, ctlVars, PushRequest
  <2> QED
    BY <2>1, <2>2
<1>5. down \in [Agents -> Seq(Current')]
  <2>1. down \in [Agents -> Seq(DownMsgs')]
    BY <1>4, MoreRequests DEF Inv, Types, StreamTypes
  <2>2. ASSUME NEW n \in Agents PROVE down[n] \in Seq(Current')
    <3>1. down[n] \in Seq(DownMsgs')
      BY <2>1
    <3>2. \A i \in DOMAIN down[n] : down[n][i].type # "start"
      BY <1>2 DEF AskedSearch, In, Has, Searches
    <3>3. \A i \in 1..Len(down[n]) : down[n][i] \in Current'
      BY <3>1, <3>2 DEF Current
    <3> QED
      BY <3>1, <3>3
  <2> QED
    BY <2>1, <2>2
<1>6. \A m \in Current' : SendToChildren(FE, m) \in [Agents -> Seq(Current')]
  BY <1>5, SentDown
<1>7. In(down, {"startexperiment"}) = {}
  BY <1>2 DEF AskedSearch, In, Has, Searches
<1>8. CASE down' = down
  BY <1>1, <1>2, <1>3, <1>5, <1>7, <1>8 DEF Worked
<1>9. \A t \in DownTypes : Msg(t) \in Current'
  <2>1. \A t \in DownTypes : Msg(t) \in DownMsgs' /\ Msg(t).type # "start"
    BY DEF DownMsgs, DownTypes, Msg
  <2> QED
    BY <2>1 DEF Current
<1>10. ASSUME NEW t \in DownTypes \ {"startexperiment"}, down' = SendToChildren(FE, Msg(t)) PROVE Worked'
  <2>1. down' \in [Agents -> Seq(Current')]
    BY <1>6, <1>9, <1>10
  <2>2. In(down', {"startexperiment"}) = {}
    <3>1. FESends({t})
      BY <1>10, FESentType DEF Inv
    <3>2. {t} \cap {"startexperiment"} = {}
      BY <1>10
    <3>3. Stays(down, down', {"startexperiment"})
      BY <3>1, <3>2, FEWrites
    <3> QED
      BY <1>7, <3>3 DEF Stays
  <2> QED
    BY <1>1, <1>2, <1>3, <2>1, <2>2 DEF Worked
<1>11. CASE FEHandleStep
  <2>1. /\ UNCHANGED <<nreq, strategy, finished>> /\ timerOn
        /\ StepStartup \/ StepStartupReinit \/ StepApplicationTermination \/ StepRequestCalltree
    BY <1>11 DEF FEHandleStep, ctlVars, aaVars
  <2>2. CASE StepStartup /\ buffer # <<>>
    <3> DEFINE m == [type |-> "start", requests |-> buffer]
    <3>1. m \in Current'
      <4>1. buffer \in Seq(Requests) \ {<<>>} /\ Len(buffer) = 1 /\ buffer[1] = Request(nreq)
        BY <2>2 DEF Inv, Types, NumberTypes, Buffered
      <4>2. Head(buffer) = Request(nreq)
        BY <4>1
      <4>3. Requests' = Requests
        BY <2>1 DEF Requests
      <4>4. m \in DownMsgs'
        BY <4>1, <4>3 DEF DownMsgs
      <4>5. m.requests = buffer
        OBVIOUS
      <4> HIDE DEF m
      <4>6. Head(m.requests) = Request(nreq)'
        BY <2>1, <4>2, <4>5
      <4> QED
        BY <4>4, <4>6 DEF Current
    <3>2. down' = SendToChildren(FE, m)
      BY <2>2 DEF StepStartup, Start
    <3>3. down' \in [Agents -> Seq(Current')]
      BY <1>6, <3>1, <3>2
    <3>4. In(down', {"startexperiment"}) = {}
      <4>1. m \in DownMsgs
        <5>1. buffer \in Seq(Requests) \ {<<>>}
          BY <2>2 DEF Inv, Types, NumberTypes
        <5> QED
          BY <5>1, DownMsgFacts
      <4>2. m.type = "start"
        OBVIOUS
      <4> HIDE DEF m
      <4>3. FESends({"start"})
        BY <3>2, <4>1, <4>2, FESent DEF Inv
      <4>4. Stays(down, down', {"startexperiment"})
        BY <4>3, FEWrites
      <4> QED
        BY <1>7, <4>4 DEF Stays
    <3> QED
      BY <1>1, <1>2, <1>3, <3>3, <3>4 DEF Worked
  <2>3. CASE StepStartup /\ buffer = <<>>
    BY <1>8, <2>3 DEF StepStartup, Start
  <2>4. CASE StepStartupReinit
    <3>1. loop = "STARTUP_REINIT" /\ down' = SendToChildren(FE, Msg("startexperiment"))
      BY <2>4 DEF StepStartupReinit
    <3>2. AAs \subseteq Begun
      BY <1>1, <3>1 DEF Buffered
    <3>3. Begun' = Begun
      BY <2>1 DEF Begun
    <3>4. down' \in [Agents -> Seq(Current')]
      BY <1>6, <1>9, <3>1 DEF DownTypes
    <3> QED
      BY <1>1, <1>2, <1>3, <3>2, <3>3, <3>4 DEF Worked
  <2>5. CASE StepApplicationTermination
    BY <1>8, <2>5 DEF StepApplicationTermination
  <2>6. CASE StepRequestCalltree
    BY <1>10, <2>6 DEF StepRequestCalltree, DownTypes
  <2> QED
    BY <2>1, <2>2, <2>3, <2>4, <2>5, <2>6
<1>12. CASE FETimeout \/ FEFinalize
  BY <1>10, <1>12 DEF FETimeout, FEFinalize, Quit, DownTypes
<1>13. CASE FERestart \/ FEConsiderRestart
  BY <1>10, <1>13 DEF FERestart, FEConsiderRestart, BeginRestart, DownTypes
<1>14. CASE FERerun
  BY <1>10, <1>14 DEF FERerun, DownTypes
<1>15. CASE FESearchEnded
  <2>1. BeginRestart \/ down' = down
    BY <1>15 DEF FESearchEnded
  <2> QED
    BY <1>8, <1>10, <2>1 DEF BeginRestart, DownTypes
<1>16. CASE FEQuitFinished \/ FEResults \/ FECalltreeDone \/ FEPhaseAgain \/ FERestartDone \/ FEBegin("analysis") \/ FEBegin("phase")
  BY <1>8, <1>16 DEF FEQuitFinished, FEResults, FECalltreeDone, FEPhaseAgain, FERestartDone, FEBegin, treeVars
<1> QED
  BY <1>11, <1>12, <1>13, <1>14, <1>15, <1>16

\* An answer ends the search of an operation when all have finished, or with a
\* restart or, at the last run, with the end of the search.
LEMMA FEMessageControls ==
    ASSUME Inv, Modes, Terminating, Worked, Buffered, Tuned, Searching, NEW c \in Agents, FEHandleMessage(c)
    PROVE  Buffered' /\ Tuned' /\ Searching'
<1>1. /\ UNCHANGED <<op, stage, loop, timerOn, runs, nreq, executed, shutdown_allowed, buffer>>
      /\ Begun' = Begun /\ Over' = Over
      /\ \/ UNCHANGED <<ended, need_restart, quit_fe, quitting>>
         \/ loop = "REQUESTCALLTREE" /\ UNCHANGED <<need_restart, quit_fe, quitting>>
         \/ /\ Waiting /\ AAs \subseteq Begun
            /\ \/ AAs \subseteq Over /\ ended' /\ UNCHANGED <<need_restart, quit_fe, quitting>>
               \/ /\ ~shutdown_allowed /\ ended' /\ need_restart' /\ restart_requested'
                  /\ UNCHANGED <<quit_fe, quitting>>
               \/ shutdown_allowed /\ quit_fe' /\ quitting' /\ UNCHANGED <<ended, need_restart>>
  BY FEMessageWorks
<1>2. ~ended /\ ~quitting /\ loop # "off"
  BY DEF FEHandleMessage, InLoop
<1>3. CASE UNCHANGED <<ended, need_restart, quit_fe, quitting>>
  <2>1. Waiting' <=> Waiting
    BY <1>1, <1>3 DEF Waiting
  <2>2. Buffered'
    BY <1>1, <1>3 DEF Buffered
  <2>3. Tuned'
    BY <1>1, <1>3, <2>1 DEF Tuned, Settled
  <2>4. Searching'
    BY <1>1, <1>2, <1>3 DEF Searching
  <2> QED
    BY <2>2, <2>3, <2>4
<1>4. CASE loop = "REQUESTCALLTREE" /\ UNCHANGED <<need_restart, quit_fe, quitting>>
  <2>1. ~Waiting /\ ~Waiting'
    BY <1>1, <1>4 DEF Waiting
  <2>2. Buffered'
    BY <1>1, <1>4 DEF Buffered
  <2>3. Tuned'
    BY <1>1, <1>4, <2>1 DEF Tuned, Settled
  <2>4. Searching'
    BY <1>1, <1>4 DEF Searching
  <2> QED
    BY <2>2, <2>3, <2>4
<1>5. CASE /\ Waiting /\ AAs \subseteq Begun
           /\ \/ AAs \subseteq Over /\ ended' /\ UNCHANGED <<need_restart, quit_fe, quitting>>
              \/ /\ ~shutdown_allowed /\ ended' /\ need_restart' /\ restart_requested'
                 /\ UNCHANGED <<quit_fe, quitting>>
              \/ shutdown_allowed /\ quit_fe' /\ quitting' /\ UNCHANGED <<ended, need_restart>>
  <2>1. buffer' = <<>> /\ buffer = <<>> /\ stage # "calltree"
    BY <1>1, <1>5 DEF Waiting, Buffered, Tuned
  <2>2. shutdown_allowed => op \in {"search", "none", "final"}
    BY DEF Modes
  <2>3. Tuned'
    <3>1. Settled' => AAs \subseteq Over
      BY <1>1, <1>5, <2>2 DEF Settled
    <3> QED
      BY <1>1, <1>5, <2>1, <3>1 DEF Tuned
  <2>4. Searching'
    <3>1. op = "search" => Searching'
      BY <1>1, <1>2, <1>5, <2>1 DEF Searching, Searched, Waiting
    <3> QED
      BY <1>1, <3>1 DEF Searching
  <2> QED
    BY <2>1, <2>3, <2>4 DEF Buffered
<1> QED
  BY <1>1, <1>3, <1>4, <1>5

\* An operation goes on from one event loop to the next.
LEMMA FEOwnControls ==
    ASSUME Inv, ~TimeOuts, Modes, Terminating, Buffered, Tuned, Searching,
           \/ FEHandleStep \/ FETimeout \/ FEQuitFinished
           \/ FERestart \/ FERerun \/ FEResults \/ FECalltreeDone \/ FEPhaseAgain
           \/ FERestartDone \/ FESearchEnded
           \/ FEBegin("analysis") \/ FEBegin("phase") \/ FEConsiderRestart
           \/ FEFinalize
    PROVE  Buffered' /\ Tuned' /\ Searching'
<1>0. /\ Control /\ runs \in Nat /\ ~Waiting /\ UNCHANGED <<strategy, finished>>
      /\ nreq \in Nat
  BY FEOwnChecks, FELeaves DEF Inv, Types, NumberTypes, aaVars, FEStep
<1>1. nreq' = nreq => Begun' = Begun /\ Over' = Over
  BY <1>0 DEF Begun, Over
<1>2. op \in {"none", "again", "final"} => loop = "off" /\ stage = "run" /\ buffer = <<>>
  BY <1>0 DEF Control, Buffered
<1>3. LoopEnded => buffer = <<>> /\ ended /\ ~quitting
  BY DEF LoopEnded, Buffered
<1>4. buffer = <<>> => AAs \subseteq Begun
  BY <1>0 DEF Tuned
<1>5. buffer = <<>> /\ ~need_restart /\ op \in {"phase", "again"} => AAs \subseteq Over
  BY <1>0 DEF Tuned, Settled
<1>6. ASSUME buffer' = buffer, buffer = <<>>, nreq' = nreq, stage' # "calltree", op' # "search",
             ~Settled' \/ AAs \subseteq Over
      PROVE  Buffered' /\ Tuned' /\ Searching'
  BY <1>1, <1>4, <1>6 DEF Buffered, Tuned, Searching
<1>7. ASSUME NEW k \in Nat, buffer = <<>>, buffer' = Append(buffer, Request(k)), nreq' = k, EnterLoop("STARTUP"),
             stage' # "calltree", op' # "search", ~quitting'
      PROVE  Buffered' /\ Tuned' /\ Searching'
  <2>1. Append(<<>>, Request(k)) = <<Request(k)>>
    OBVIOUS
  <2>2. Len(buffer') = 1 /\ buffer'[1] = Request(k) /\ buffer' # <<>>
    BY <1>7, <2>1
  <2>3. Buffered'
    BY <1>7, <2>2 DEF Buffered, EnterLoop, Request
  <2>4. Tuned'
    BY <1>7, <2>2 DEF Tuned, Settled
  <2> QED
    BY <1>7, <2>3, <2>4 DEF Searching
<1>8. CASE FEHandleStep
  <2>1. /\ UNCHANGED <<loop, op, stage, runs, nreq, executed, need_restart, restart_requested, shutdown_allowed,
                       quit_fe, quitting>>
        /\ loop # "off" /\ ~ended /\ ~quitting /\ timerOn /\ timerOn' = FALSE
    BY <1>8 DEF FEHandleStep, InLoop, ctlVars, decVars
  <2>2. CASE buffer # <<>>
    <3>1. loop = "STARTUP"
      BY <2>2 DEF Buffered
    <3>2. buffer' = <<>> /\ ended' = ended
      BY <1>8, <2>2, <3>1
         DEF FEHandleStep, StepStartup, StepStartupReinit, StepApplicationTermination, StepRequestCalltree, Start
    <3>3. Waiting'
      BY <2>1, <3>1, <3>2 DEF Waiting
    <3>4. Tuned'
      BY <2>1, <3>3 DEF Tuned, Settled
    <3>5. Searching'
      BY <2>1, <3>2 DEF Searching
    <3> QED
      BY <3>2, <3>4, <3>5 DEF Buffered
  <2>3. CASE buffer = <<>>
    <3>1. buffer' = <<>>
      BY <1>8, <2>3
         DEF FEHandleStep, StepStartup, StepStartupReinit, StepApplicationTermination, StepRequestCalltree, Start
    <3>2. Settled' => Settled
      BY <1>0, <2>1, <2>3 DEF Settled
    <3>3. Tuned'
      BY <1>1, <1>4, <2>1, <2>3, <3>2 DEF Tuned
    <3>4. op = "search" => loop # "STARTUP"
      BY <2>1, <2>3 DEF Searching
    <3>5. ended' => loop \in {"STARTUP", "APPLICATION_TERMINATION"}
      BY <1>8, <2>1
         DEF FEHandleStep, StepStartup, StepStartupReinit, StepApplicationTermination, StepRequestCalltree
    <3>6. Searching'
      BY <2>1, <3>4, <3>5 DEF Searching
    <3> QED
      BY <3>1, <3>3, <3>6 DEF Buffered
  <2> QED
    BY <2>2, <2>3
<1>9. CASE FETimeout
  BY <1>9 DEF FETimeout
<1>10. CASE FEQuitFinished
  <2>1. /\ UNCHANGED <<loop, timerOn, op, stage, runs, nreq, executed, buffer, need_restart, restart_requested,
                       shutdown_allowed, quit_fe>>
        /\ quitting /\ quitting' = FALSE /\ ended' = TRUE
    BY <1>10 DEF FEQuitFinished, ctlVars
  <2>2. buffer = <<>> /\ quit_fe
    BY <2>1 DEF Buffered, Terminating
  <2>3. ~Waiting' /\ (Settled' => Settled)
    BY <1>0, <2>1 DEF Settled, Waiting
  <2>4. Tuned'
    BY <1>1, <1>4, <2>1, <2>2, <2>3 DEF Tuned
  <2>5. Searching'
    BY <1>1, <2>1, <2>2 DEF Searching, Searched
  <2> QED
    BY <2>1, <2>2, <2>4, <2>5 DEF Buffered
<1>11. CASE FERestart
  <2>1. /\ LoopEnded /\ need_restart /\ need_restart' = need_restart /\ UNCHANGED <<op, nreq, buffer>>
        /\ stage' = "terminating" /\ op # "search"
    BY <1>11 DEF FERestart, BeginRestart, decVars
  <2> QED
    BY <1>3, <1>6, <2>1 DEF Settled
<1>12. CASE FERerun
  <2>1. /\ LoopEnded /\ stage = "terminating" /\ UNCHANGED <<op, nreq, runs, shutdown_allowed, quit_fe, quitting>>
        /\ stage' = "restarted" /\ ended' = FALSE
        /\ buffer' = IF op = "phase" THEN Append(buffer, Request(nreq)) ELSE buffer
        /\ EnterLoop(IF op \in {"phase", "restart"} THEN "STARTUP" ELSE "STARTUP_REINIT")
    BY <1>12 DEF FERerun, EnterLoop
  <2>2. buffer = <<>> /\ ~quitting /\ op # "again"
    BY <1>2, <1>3, <2>1
  <2>3. CASE op = "phase"
    BY <1>0, <1>7, <2>1, <2>2, <2>3
  <2>4. CASE op \notin {"phase", "search"}
    BY <1>6, <2>1, <2>2, <2>4 DEF Settled
  <2>5. CASE op = "search"
    <3>1. loop' = "STARTUP_REINIT" /\ buffer' = <<>>
      BY <2>1, <2>2, <2>5 DEF EnterLoop
    <3>2. Buffered' /\ Tuned'
      BY <1>1, <1>4, <2>1, <2>2, <2>5, <3>1 DEF Buffered, Tuned, Settled
    <3>3. Searching'
      BY <2>1, <2>5, <3>1 DEF Searching
    <3> QED
      BY <3>2, <3>3
  <2> QED
    BY <2>3, <2>4, <2>5
<1>13. CASE FEResults
  <2>1. /\ LoopEnded /\ op \in {"gather", "analysis", "phase"}
        /\ (stage = "run" /\ ~need_restart) \/ stage = "restarted"
        /\ UNCHANGED <<nreq, buffer, need_restart>>
        /\ executed' = IF op = "phase" THEN stage = "run" ELSE executed
        /\ \/ stage' = "calltree" /\ loop' = "REQUESTCALLTREE" /\ op' = op
           \/ stage' = "run" /\ loop' = "off" /\ op' = IF op = "phase" /\ stage # "run" THEN "again" ELSE "none"
    BY <1>13 DEF FEResults, Finished, EnterLoop, decVars
  <2>2. buffer = <<>>
    BY <1>3, <2>1
  <2>3. Settled' => AAs \subseteq Over
    BY <1>5, <2>1, <2>2 DEF Settled
  <2>4. Tuned'
    BY <1>1, <1>4, <2>1, <2>2, <2>3 DEF Tuned
  <2> QED
    BY <2>1, <2>2, <2>4 DEF Buffered, Searching
<1>14. CASE FECalltreeDone
  <2>1. /\ LoopEnded /\ UNCHANGED <<nreq, buffer, need_restart>> /\ stage' = "run"
        /\ op' = IF op = "phase" /\ ~executed THEN "again" ELSE "none"
    BY <1>14 DEF FECalltreeDone, Finished, decVars
  <2>2. buffer = <<>>
    BY <1>3, <2>1
  <2>3. Settled' => AAs \subseteq Over
    BY <1>5, <2>1, <2>2 DEF Settled
  <2> QED
    BY <1>6, <2>1, <2>2, <2>3
<1>15. CASE FEPhaseAgain
  <2>1. op = "again" /\ op' = "phase" /\ UNCHANGED <<nreq, buffer, need_restart, stage>>
    BY <1>15 DEF FEPhaseAgain, decVars
  <2>2. Settled' => AAs \subseteq Over
    BY <1>2, <1>5, <2>1 DEF Settled
  <2> QED
    BY <1>2, <1>6, <2>1, <2>2
<1>16. CASE FERestartDone
  <2>1. /\ LoopEnded /\ nreq' = nreq + 1 /\ buffer' = Append(buffer, Request(nreq + 1)) /\ op' = "phase"
        /\ stage' = "run" /\ EnterLoop("STARTUP") /\ quitting' = quitting
    BY <1>16 DEF FERestartDone, PushRequest, decVars
  <2> QED
    BY <1>0, <1>3, <1>7, <2>1
<1>17. CASE FESearchEnded
  <2> DEFINE k == IF stage = "run" THEN 1 ELSE runs + 1
  <2>1. /\ LoopEnded /\ op = "search" /\ runs' = k /\ UNCHANGED <<nreq, need_restart, quit_fe, quitting, buffer>>
        /\ \/ /\ need_restart /\ k < MaxAnalysisRuns /\ ~quit_fe
              /\ shutdown_allowed' = (k = MaxAnalysisRuns - 1)
              /\ stage' = "terminating" /\ loop' = "APPLICATION_TERMINATION" /\ op' = op
           \/ op' = "none" /\ stage' = "run" /\ loop' = "off"
    BY <1>17 DEF FESearchEnded, Finished, BeginRestart, EnterLoop
  <2>2. buffer = <<>>
    BY <1>3, <2>1
  <2> HIDE DEF k
  <2>3. CASE /\ need_restart /\ k < MaxAnalysisRuns /\ ~quit_fe
             /\ shutdown_allowed' = (k = MaxAnalysisRuns - 1)
             /\ stage' = "terminating" /\ loop' = "APPLICATION_TERMINATION" /\ op' = op
    <3>1. Buffered' /\ Tuned'
      BY <1>1, <1>4, <2>1, <2>2, <2>3 DEF Buffered, Tuned, Settled
    <3>2. Searching'
      BY <2>1, <2>3 DEF Searching
    <3> QED
      BY <3>1, <3>2
  <2>4. CASE op' = "none" /\ stage' = "run" /\ loop' = "off"
    BY <1>6, <2>1, <2>2, <2>4 DEF Settled
  <2> QED
    BY <2>1, <2>3, <2>4
<1>18. CASE FEBegin("analysis") \/ FEBegin("phase")
  <2>1. /\ op = "none" /\ nreq' = nreq + 1 /\ buffer' = Append(buffer, Request(nreq + 1))
        /\ op' \in {"analysis", "phase"} /\ stage' = stage /\ EnterLoop("STARTUP") /\ quitting' = quitting
    BY <1>18 DEF FEBegin, PushRequest, decVars
  <2>2. ~quitting
    <3>1. quitting => quit_fe
      BY DEF Terminating
    <3>2. Tuning
      BY <1>18 DEF FEBegin
    <3> QED
      BY <2>1, <3>1, <3>2 DEF Modes
  <2> QED
    BY <1>0, <1>2, <1>7, <2>1, <2>2
<1>19. CASE FEConsiderRestart
  <2>1. op = "none" /\ op' = "restart" /\ stage' = "terminating" /\ UNCHANGED <<nreq, buffer>>
    BY <1>19 DEF FEConsiderRestart, BeginRestart
  <2> QED
    BY <1>2, <1>6, <2>1 DEF Settled
<1>20. CASE FEFinalize
  <2>1. op = "none" /\ op' = "final" /\ UNCHANGED <<nreq, buffer, stage>>
    BY <1>20 DEF FEFinalize
  <2> QED
    BY <1>2, <1>6, <2>1 DEF Settled
<1> QED
  BY <1>8, <1>9, <1>10, <1>11, <1>12, <1>13, <1>14, <1>15, <1>16, <1>17, <1>18, <1>19, <1>20

-----------------------------------------------------------------------------
(* The end of a phase experiment, and of the search.                       *)

Finishing == Worked /\ Buffered /\ Tuned /\ Searching

LEMMA InitFinishing == Init => Finishing
<1> SUFFICES ASSUME Init PROVE Finishing
  OBVIOUS
<1>1. \A n \in Agents : up[n] = <<>> /\ down[n] = <<>>
  BY DEF Init, TreeInit
<1>2. \A T : In(up, T) = {} /\ In(down, T) = {}
  BY <1>1, EmptyFacts DEF In
<1>3. \A n \in Agents : info[n].search_status = "UNDEFINED"
  BY DEF Init, TreeInit, InitInfo
<1>4. buffer = <<Request(1)>> /\ nreq = 1 /\ loop = "STARTUP" /\ timerOn /\ ~ended /\ ~quitting
  BY DEF Init
<1>5. buffer # <<>> /\ Len(buffer) = 1 /\ buffer[1] = Request(nreq)
  BY <1>4 DEF Request
<1>6. Worked
  <2>1. down \in [Agents -> Seq(Current)]
    <3>1. down = [n \in Agents |-> <<>>]
      BY DEF Init, TreeInit
    <3> QED
      BY <3>1
  <2>2. ~CheckGoing
    BY <1>2 DEF CheckGoing, AskedCheck, ToldCheck
  <2>3. \A a \in AAs : ~started[a]
    BY DEF Init, AAInit
  <2>4. /\ Reporting(SearchRequests, SearchStatus \ {"UNDEFINED"}) = {}
        /\ Reporting({"searchfinished"}, {"FINISHED"}) = {}
    BY <1>2, <1>3 DEF Reporting
  <2>5. \A X : Gathered({}, X)
    BY DEF Gathered
  <2> QED
    BY <1>2, <2>1, <2>2, <2>3, <2>4, <2>5 DEF Worked, SpeaksFor
<1>7. Buffered
  BY <1>4, <1>5 DEF Buffered
<1>8. Tuned
  BY <1>5 DEF Init, Tuned, Settled
<1>9. Searching
  BY <1>5 DEF Init, Searching
<1> QED
  BY <1>6, <1>7, <1>8, <1>9 DEF Finishing

LEMMA StepFinishing == Inv /\ Restarting /\ ~TimeOuts /\ Finishing /\ [Next]_vars => Finishing'
<1> SUFFICES ASSUME Inv, Restarting, ~TimeOuts, Finishing, [Next]_vars PROVE Finishing'
  OBVIOUS
<1>1. /\ Types /\ Modes /\ Terminating
      /\ Worked /\ Buffered /\ Tuned /\ Searching
  BY DEF Inv, Restarting, Finishing
<1>2. CASE \E c \in Agents : FEHandleMessage(c)
  BY <1>1, <1>2, FEMessageWorks, FEMessageControls DEF Finishing
<1>3. CASE \/ FEHandleStep \/ FETimeout \/ FEQuitFinished
           \/ FERestart \/ FERerun \/ FEResults \/ FECalltreeDone \/ FEPhaseAgain
           \/ FERestartDone \/ FESearchEnded
           \/ FEBegin("analysis") \/ FEBegin("phase") \/ FEConsiderRestart
           \/ FEFinalize
  <2>1. ~Waiting /\ buffer = <<>> => AAs \subseteq Begun
    BY <1>1 DEF Tuned
  <2>2. Worked'
    BY <1>1, <1>3, <2>1, FEOwnWorks
  <2>3. Buffered' /\ Tuned' /\ Searching'
    BY <1>1, <1>3, FEOwnControls
  <2> QED
    BY <2>2, <2>3 DEF Finishing
<1>4. ASSUME NEW n \in Agents, AgentStep(n) PROVE Finishing'
  <2>1. /\ UNCHANGED <<op, stage, loop, ended, timerOn, need_restart, restart_requested, shutdown_allowed, quit_fe>>
        /\ UNCHANGED <<quitting, runs, buffer, nreq, executed>>
    BY <1>4 DEF AgentStep, feVars, loopVars, ctlVars, decVars
  <2>2. Worked' /\ Begun \subseteq Begun' /\ Over \subseteq Over'
    BY <1>1, <1>4, <2>1, AgentWorks
  <2>3. Buffered'
    BY <1>1, <2>1 DEF Buffered
  <2>4. Tuned'
    BY <1>1, <2>1, <2>2 DEF Tuned, Settled, Waiting
  <2>5. Searching'
    BY <1>1, <2>1, <2>2 DEF Searching, Searched
  <2> QED
    BY <2>2, <2>3, <2>4, <2>5 DEF Finishing
<1>5. CASE UNCHANGED vars
  <2>1. /\ UNCHANGED <<op, stage, loop, ended, timerOn, need_restart, restart_requested, shutdown_allowed, quit_fe>>
        /\ UNCHANGED <<quitting, runs, buffer, nreq, executed>>
        /\ UNCHANGED <<up, down, info, started, strategy, finished>>
    BY <1>5 DEF vars, feVars, loopVars, ctlVars, decVars, treeVars, aaVars
  <2>2. Begun' = Begun /\ Over' = Over
    BY <2>1 DEF Begun, Over
  <2>3. Worked'
    <3>1. Current' = Current
      BY <2>1 DEF Current, DownMsgs, Requests
    <3>2. CheckGoing' <=> CheckGoing
      BY <2>1 DEF CheckGoing, AskedCheck, ToldCheck
    <3>3. \A T, V : Reporting(T, V)' = Reporting(T, V)
      BY <2>1 DEF Reporting
    <3>4. /\ SpeaksFor(SearchRequests, SearchStatus \ {"UNDEFINED"}, Begun)'
          /\ SpeaksFor({"searchfinished"}, {"FINISHED"}, Over)'
      BY <1>1, <2>2, <3>3 DEF Worked, SpeaksFor
    <3> QED
      BY <1>1, <2>1, <2>2, <3>1, <3>2, <3>4 DEF Worked
  <2>4. Buffered' /\ Tuned'
    BY <1>1, <2>1, <2>2 DEF Buffered, Tuned, Settled, Waiting
  <2>5. Searching'
    BY <1>1, <2>1, <2>2 DEF Searching, Searched
  <2> QED
    BY <2>3, <2>4, <2>5 DEF Finishing
<1> QED
  BY <1>2, <1>3, <1>4, <1>5 DEF Next, FEStep

LEMMA InitEnds == Init => Inv /\ Restarting /\ Finishing
  BY InitInv, InitRestarting, InitFinishing

LEMMA StepEnds ==
    Inv /\ Restarting /\ Finishing /\ NoRace /\ ~TimeOuts /\ [Next]_vars => (Inv /\ Restarting /\ Finishing)'
  BY StepInv, StepRestarting, StepFinishing

\* A phase experiment whose scenarios the frontend counts as executed ends only
\* when every analysis agent has finished its strategy request: an experiment cut
\* short by a restart is not taken for a complete one.
THEOREM ExecutedIsFinished == NoRace /\ ~TimeOuts /\ Spec => ExecutedMeansFinished
<1>1. Inv /\ Finishing /\ [Next]_vars =>
        [op = "phase" /\ op' \notin {"phase", "again"} =>
             executed' /\ \A a \in AAs : finished[a] = nreq]_vars
  <2> SUFFICES ASSUME Inv, Finishing, Next, op = "phase", op' \notin {"phase", "again"}
               PROVE  executed' /\ \A a \in AAs : finished[a] = nreq
    OBVIOUS
  <2>1. LoopEnded /\ executed' /\ ~need_restart
    <3>1. FEResults \/ FECalltreeDone
      BY DEF Next, AgentStep, vars, feVars, FEStep, FEHandleMessage, FEHandleStep, FETimeout, FEQuitFinished, FERestart,
             FERerun, FEPhaseAgain, FERestartDone, FESearchEnded, FEBegin, FEConsiderRestart, FEFinalize, ctlVars
    <3>2. CASE FEResults
      BY <3>2 DEF FEResults, Finished
    <3>3. CASE FECalltreeDone
      BY <3>3 DEF FECalltreeDone, Finished, Finishing, Tuned
    <3> QED
      BY <3>1, <3>2, <3>3
  <2>2. Settled
    BY <2>1 DEF LoopEnded, Finishing, Buffered, Settled, Waiting
  <2> QED
    BY <2>1, <2>2 DEF Finishing, Tuned, Over
<1>2. CASE NoRace /\ ~TimeOuts
  <2>1. Inv /\ Restarting /\ Finishing /\ [Next]_vars => (Inv /\ Restarting /\ Finishing)'
    BY <1>2, StepEnds
  <2> QED
    BY <1>1, <2>1, InitEnds, PTL DEF Spec, ExecutedMeansFinished
<1> QED
  BY <1>2

\* run_analysis, which permits itself more than one run (max_runs is 40), ends
\* when every agent has finished the search, or with the last run permitted.
THEOREM SearchIsFinished ==
    NoRace /\ ~TimeOuts /\ MaxAnalysisRuns > 1 /\ Spec => SearchEndsFinished
<1>1. MaxAnalysisRuns > 1 /\ Inv /\ Finishing /\ [Next]_vars =>
        [op = "search" /\ op' = "none" =>
             \/ \A a \in AAs : finished[a] = nreq
             \/ quit_fe /\ runs' = MaxAnalysisRuns
             \/ quit_fe /\ TimeOuts /\ \A a \in AAs : strategy[a] = 0]_vars
  <2> SUFFICES ASSUME MaxAnalysisRuns > 1, Inv, Finishing, Next, op = "search", op' = "none", ~(AAs \subseteq Over)
               PROVE  quit_fe /\ runs' = MaxAnalysisRuns
    BY Zenon DEF Over
  <2>1. MaxAnalysisRuns \in Nat /\ runs \in Nat
    BY FrontendAssumption DEF Inv, Types, NumberTypes
  <2>2. FESearchEnded
    <3>1. stage # "calltree"
      BY DEF Finishing, Searching
    <3> QED
      BY <3>1 DEF Next, AgentStep, vars, feVars, FEStep, FEHandleMessage, FEHandleStep, FETimeout, FEQuitFinished,
                  FERestart, FERerun, FEResults, FECalltreeDone, FEPhaseAgain, FERestartDone, FEBegin,
                  FEConsiderRestart, FEFinalize, ctlVars
  <2> DEFINE k == IF stage = "run" THEN 1 ELSE runs + 1
  <2>3. /\ ended /\ ~quitting /\ stage \in {"run", "restarted"}
        /\ runs' = k
        /\ ~(need_restart /\ k < MaxAnalysisRuns /\ ~quit_fe /\ restart_requested)
    BY <2>2 DEF FESearchEnded, LoopEnded
  <2>4. /\ Searched
        /\ stage = "run" => ~shutdown_allowed
        /\ stage # "run" => runs < MaxAnalysisRuns /\ (shutdown_allowed <=> runs = MaxAnalysisRuns - 1)
    BY <2>3 DEF Finishing, Searching
  <2>5. ~shutdown_allowed => k < MaxAnalysisRuns
    BY <2>1, <2>3, <2>4
  <2>6. quit_fe /\ shutdown_allowed
    BY <2>3, <2>4, <2>5 DEF Searched
  <2> QED
    BY <2>1, <2>3, <2>4, <2>6
<1>2. CASE NoRace /\ ~TimeOuts /\ MaxAnalysisRuns > 1
  <2>1. Inv /\ Restarting /\ Finishing /\ [Next]_vars => (Inv /\ Restarting /\ Finishing)'
    BY <1>2, StepEnds
  <2>2. Inv /\ Finishing /\ [Next]_vars =>
          [op = "search" /\ op' = "none" =>
               \/ \A a \in AAs : finished[a] = nreq
               \/ quit_fe /\ runs' = MaxAnalysisRuns
               \/ quit_fe /\ TimeOuts /\ \A a \in AAs : strategy[a] = 0]_vars
    BY <1>1, <1>2
  <2> QED
    BY <2>1, <2>2, InitEnds, PTL DEF Spec, SearchEndsFinished
<1> QED
  BY <1>2

-----------------------------------------------------------------------------
(* Tuning implements SearchRounds.                                         *)

\* A restart for the plugin waits for no search: it pushes no request.
Orderly ==
    op = "restart" =>
        \/ stage = "terminating"
        \/ stage = "restarted" /\ loop = "STARTUP" /\ buffer = <<>> /\ (timerOn \/ ended)

\* What the refinement needs to be invariant.
Rounding == Inv /\ Restarting /\ Finishing /\ Accounted /\ Orderly

LEMMA StepOrderly == Inv /\ Restarting /\ Finishing /\ Orderly /\ [Next]_vars => Orderly'
<1> SUFFICES ASSUME Inv, Restarting, Finishing, Orderly, [Next]_vars PROVE Orderly'
  OBVIOUS
<1>0. Worked /\ Buffered /\ Terminating
  BY DEF Finishing, Restarting
<1>1. CASE \E c \in Agents : FEHandleMessage(c)
  <2>1. /\ UNCHANGED <<op, stage, loop, timerOn, buffer>>
        /\ loop # "STARTUP" \/ ended' = ended \/ ended'
    BY <1>0, <1>1, FEMessageWorks DEF Waiting
  <2> QED
    BY <2>1 DEF Orderly
<1>2. CASE FEHandleStep
  <2>1. UNCHANGED <<op, stage, loop>>
    BY <1>2 DEF FEHandleStep, ctlVars
  <2>2. buffer = <<>> /\ loop = "STARTUP" => ended' /\ buffer' = buffer
    BY <1>2 DEF FEHandleStep, StepStartup, StepStartupReinit, StepApplicationTermination, StepRequestCalltree, Start
  <2> QED
    BY <2>1, <2>2 DEF Orderly
<1>3. CASE FETimeout \/ FEQuitFinished
  BY <1>3 DEF Orderly, FETimeout, FEQuitFinished, loopVars, ctlVars
<1>4. CASE FERerun
  <2>1. /\ stage' = "restarted" /\ op' = op /\ LoopEnded
        /\ op = "restart" => buffer' = buffer /\ EnterLoop("STARTUP")
    BY <1>4 DEF FERerun
  <2>2. buffer = <<>>
    BY <1>0, <2>1 DEF Buffered, LoopEnded
  <2> QED
    BY <2>1, <2>2 DEF Orderly, EnterLoop
<1>5. CASE FEConsiderRestart
  BY <1>5 DEF Orderly, FEConsiderRestart, BeginRestart
<1>6. CASE \/ FERestart \/ FEResults \/ FECalltreeDone \/ FEPhaseAgain
           \/ FERestartDone \/ FESearchEnded
           \/ FEBegin("analysis") \/ FEBegin("phase") \/ FEFinalize
  <2>1. op' # "restart"
    BY <1>0, <1>6 DEF FERestart, FEResults, FECalltreeDone, FEPhaseAgain, FERestartDone, FESearchEnded, FEBegin,
                      FEFinalize, Finished, Terminating
  <2> QED
    BY <2>1 DEF Orderly
<1>7. CASE (\E n \in Agents : AgentStep(n)) \/ UNCHANGED vars
  BY <1>7 DEF Orderly, AgentStep, vars, feVars, loopVars, ctlVars
<1> QED
  BY <1>1, <1>2, <1>3, <1>4, <1>5, <1>6, <1>7 DEF Next, FEStep

LEMMA InitRounding == Init => Rounding
  BY InitEnds, InitAccounted DEF Init, Orderly, Rounding

LEMMA StepRounding == Rounding /\ NoRace /\ ~TimeOuts /\ [Next]_vars => Rounding'
  BY StepEnds, StepAccounted, StepOrderly DEF Rounding

\* While the frontend waits for a search, a request is in progress.
LEMMA InProgress ==
    ASSUME Rounding, Tuning, Waiting
    PROVE  Mode # "idle"
<1>1. /\ op \in {"gather", "analysis", "restart", "phase", "again", "search", "none", "final"}
      /\ op \notin {"search", "none", "again", "final"}
  BY DEF Rounding, Inv, Types, FETypes, Restarting, Modes, Control, Waiting
<1>2. stage # "calltree"
  BY DEF Rounding, Finishing, Tuned, Waiting
<1>3. op # "restart"
  BY DEF Rounding, Orderly, Restarting, Terminating, Waiting
<1> QED
  BY <1>1, <1>2, <1>3 DEF Mode

\* A step that leaves the rounds as they are.
LEMMA NoRound ==
    ASSUME UNCHANGED <<Mode, nreq, Busy, finished, run, AnalysisRestarted, Unfiled, pools>>
    PROVE  UNCHANGED Rounds!vars
  BY DEF Rounds!vars

\* What an analysis agent does for the request in progress.
LEMMA AARounds ==
    ASSUME Types, Worked, NEW a \in AAs, AAStep(a)
    PROVE  \/ UNCHANGED <<started, finished, nprops>>
           \/ /\ \E t \in Searches : HasRequest(a, t)
              /\ started' = [started EXCEPT ![a] = TRUE] /\ UNCHANGED <<finished, nprops>>
           \/ /\ \E t \in Searches : HasRequest(a, t)
              /\ HasDelay /\ nreq = 1
              /\ finished' = [finished EXCEPT ![a] = nreq] /\ UNCHANGED <<started, nprops>>
           \/ /\ started[a] /\ started' = [started EXCEPT ![a] = FALSE]
              /\ finished' \in {finished, [finished EXCEPT ![a] = nreq]}
<1> a \in Agents
  BY TreeFacts
<1>1. CASE AARun(a) \/ AAOnTerminate(a) \/ AAOnQuit(a) \/ AAOnCheck(a) \/ AAOnSerializeCalltree(a) \/ AAOnReinit(a)
  BY <1>1 DEF AARun, AAOnTerminate, AAOnQuit, AAOnCheck, AAOnSerializeCalltree, AAOnReinit, aaVars
<1>2. CASE AAOnStart(a)
  <2> DEFINE r == Head(Head(down[a]).requests)
  <2>1. r.id = nreq /\ (r.delay => HasDelay /\ nreq = 1)
    <3>1. down[a] \in Seq(Current) /\ down[a] # <<>> /\ Head(down[a]).type = "start"
      BY <1>2 DEF AAOnStart, HasRequest, Worked
    <3>2. Head(down[a]) \in Current
      BY <3>1, ReadFacts
    <3>3. r = Request(nreq)
      BY <3>1, <3>2 DEF Current
    <3> HIDE DEF r
    <3> QED
      BY <3>3 DEF Request
  <2>2. /\ HasRequest(a, "start") /\ nprops' = nprops
        /\ \/ r.delay /\ finished' = [finished EXCEPT ![a] = r.id] /\ started' = started
           \/ finished' = finished /\ started' = started
           \/ finished' = finished /\ started' = [started EXCEPT ![a] = TRUE]
    BY <1>2 DEF AAOnStart, StartExperiment
  <2> HIDE DEF r
  <2> QED
    BY <2>1, <2>2 DEF Searches
<1>3. CASE AAOnStartExperiment(a)
  BY <1>3 DEF AAOnStartExperiment, StartExperiment, Searches
<1>4. CASE AAEvaluate(a)
  <2>1. strategy[a] = nreq
    BY <1>4 DEF AAEvaluate, Worked, Begun
  <2> QED
    BY <1>4, <2>1 DEF AAEvaluate
<1> QED
  BY <1>1, <1>2, <1>3, <1>4 DEF AAStep, AAHandleRequest

\* The agents work on the request in progress and report what they find.
LEMMA AgentRefines ==
    ASSUME Rounding, Tuning, NEW n \in Agents, AgentStep(n)
    PROVE  [Rounds!Next]_(Rounds!vars)
<1>0. /\ Inv /\ Types /\ Worked /\ Accounted
      /\ started \in [AAs -> BOOLEAN] /\ nprops \in [AAs -> Nat]
  BY DEF Rounding, Inv, Finishing, Types, AATypes
<1>1. /\ UNCHANGED <<Mode, AnalysisRestarted, nreq, pools>>
      /\ metaproperties' = metaproperties /\ FiledProps' = FiledProps
  BY DEF AgentStep, feVars, ctlVars, Mode, AnalysisRestarted, FiledProps
<1>2. run' = run
  BY <1>0, AAActs, HLAActs DEF AgentStep
<1>3. Unfiled = (Travelling \cup metaproperties) \ FiledProps
  BY DEF Unfiled, FiledProps
<1>4. Unfiled' = (Travelling' \cup metaproperties) \ FiledProps
  BY <1>1 DEF Unfiled, FiledProps
<1>5. CASE n \in HLAs /\ HLAStep(n) /\ UNCHANGED aaVars
  <2>1. Busy' = Busy /\ finished' = finished
    BY <1>5 DEF aaVars, Busy
  <2>2. Travelling' = Travelling
    BY <1>0, <1>5, HLAProps DEF Accounted
  <2> QED
    BY <1>1, <1>2, <1>3, <1>4, <2>1, <2>2, NoRound
<1>6. CASE n \in AAs /\ AAStep(n) /\ UNCHANGED hlaVars
  <2>1. \/ Travelling' = Travelling /\ nprops' = nprops
        \/ /\ started[n] /\ nprops' = [nprops EXCEPT ![n] = @ + 1]
           /\ Property(n) \notin Known /\ Travelling' = Travelling \cup {Property(n)}
    <3>1. Property(n) \notin Known
      BY <1>0, <1>6, NewCounted DEF Accounted, Counted
    <3> QED
      BY <1>0, <1>6, <3>1, AAProps DEF Accounted, Known, Finds
  <2>2. nprops' = nprops => Travelling' = Travelling
    <3>1. nprops' = [nprops EXCEPT ![n] = @ + 1] => nprops'[n] # nprops[n]
      BY <1>0, <1>6
    <3> QED
      BY <2>1, <3>1
  <2>3. nprops' = nprops => Unfiled' = Unfiled
    BY <1>3, <1>4, <2>2
  <2>4. CASE UNCHANGED <<started, finished, nprops>>
    <3>1. Busy' = Busy
      BY <2>4 DEF Busy
    <3> QED
      BY <1>1, <1>2, <2>3, <2>4, <3>1, NoRound
  <2>5. ASSUME \E t \in Searches : HasRequest(n, t)
        PROVE  ~started[n] /\ Mode # "idle"
    <3>1. PICK t \in Searches : HasRequest(n, t)
      BY <2>5
    <3>2. ~started[n]
      BY <1>0, <1>6, <3>1, NoneStarted
    <3>3. n \in AskedSearch
      <4>1. down[n] \in Seq(DownMsgs) /\ down[n] # <<>> /\ Head(down[n]).type \in Searches
        BY <1>0, <3>1 DEF Types, StreamTypes, HasRequest
      <4> QED
        BY <4>1, ReadFacts DEF AskedSearch, In
    <3> QED
      BY <1>0, <3>2, <3>3, NothingLeft, InProgress
  <2>6. CASE /\ \E t \in Searches : HasRequest(n, t)
             /\ started' = [started EXCEPT ![n] = TRUE] /\ UNCHANGED <<finished, nprops>>
    <3>1. n \notin Busy /\ Busy' = Busy \cup {n}
      BY <1>0, <1>6, <2>5, <2>6 DEF Busy
    <3>2. Rounds!Work(n)
      BY <1>1, <1>2, <2>3, <2>5, <2>6, <3>1 DEF Rounds!Work
    <3> QED
      BY <1>6, <3>2 DEF Rounds!Next
  <2>7. CASE /\ \E t \in Searches : HasRequest(n, t)
             /\ HasDelay /\ nreq = 1
             /\ finished' = [finished EXCEPT ![n] = nreq] /\ UNCHANGED <<started, nprops>>
    <3>1. n \notin Busy /\ Busy' = Busy
      BY <2>5, <2>7 DEF Busy
    <3>2. Rounds!GiveUp(n)
      BY <1>1, <1>2, <2>3, <2>5, <2>7, <3>1 DEF Rounds!GiveUp
    <3> QED
      BY <1>6, <3>2 DEF Rounds!Next
  <2>8. CASE /\ started[n] /\ started' = [started EXCEPT ![n] = FALSE]
             /\ finished' \in {finished, [finished EXCEPT ![n] = nreq]}
    <3>1. n \in Busy /\ Busy' = Busy \ {n}
      BY <1>0, <1>6, <2>8 DEF Busy
    <3>2. \/ Unfiled' = Unfiled
          \/ Property(n) \notin Known /\ Unfiled' = Unfiled \cup {Property(n)}
      BY <1>3, <1>4, <2>1 DEF Known
    <3>3. Property(n).aa = n /\ Property(n).req = nreq
      <4>1. strategy[n] = nreq
        BY <1>0, <1>6, <2>8 DEF Worked, Begun
      <4> QED
        BY <4>1 DEF Property
    <3>4. Unfiled' \ Unfiled \in {{}, {Property(n)}} /\ Unfiled \subseteq Unfiled'
      BY <3>2
    <3>5. \A p \in Unfiled' \ Unfiled : p.aa = n /\ p.req = nreq /\ p \notin {e.prop : e \in pools}
      BY <3>2, <3>3 DEF Known, FiledProps
    <3>6. \A p, q \in Unfiled' \ Unfiled : p = q
      BY <3>4
    <3>7. Rounds!Report(n)
      BY <1>1, <1>2, <2>8, <3>1, <3>4, <3>5, <3>6 DEF Rounds!Report
    <3> QED
      BY <1>6, <3>7 DEF Rounds!Next
  <2> QED
    BY <1>0, <1>6, <2>4, <2>6, <2>7, <2>8, AARounds
<1> QED
  BY <1>5, <1>6 DEF AgentStep

\* The frontend issues the requests and ends them.
LEMMA FERefines ==
    ASSUME Rounding, Tuning, ~TimeOuts, FEStep
    PROVE  [Rounds!Next]_(Rounds!vars)
<1>0. /\ Inv /\ Accounted /\ Control /\ Restarting /\ Modes /\ Buffered /\ Tuned
      /\ nreq \in Nat /\ op # "search"
  BY DEF Rounding, Inv, Finishing, Restarting, Modes, Types, NumberTypes
<1>1. UNCHANGED <<started, finished, found, nprops>> /\ Busy' = Busy
  BY FELeaves DEF aaVars, Busy
<1>2. Unfiled = (Travelling \cup metaproperties) \ FiledProps
  BY DEF Unfiled, FiledProps
<1>3. Unfiled' = (Travelling' \cup metaproperties') \ FiledProps'
  BY DEF Unfiled, FiledProps
<1>4. pools' = pools => FiledProps' = FiledProps
  BY DEF FiledProps
<1>5. op \in {"none", "again", "final"} => stage = "run"
  BY <1>0 DEF Control
\* Nothing is received, and nothing filed.
<1>6. ASSUME UNCHANGED <<up, properties, metaproperties, pools>>
      PROVE  Unfiled' = Unfiled
  <2>1. Travelling' = Travelling
    BY <1>0, <1>1, <1>6, QuietAccounts
  <2> QED
    BY <1>2, <1>3, <1>4, <1>6, <2>1
<1>7. ASSUME UNCHANGED <<up, properties, metaproperties, pools>>,
             UNCHANGED <<run, nreq>>, UNCHANGED <<Mode, AnalysisRestarted>>
      PROVE  UNCHANGED Rounds!vars
  BY <1>1, <1>6, <1>7, NoRound
<1>8. CASE \E c \in Agents : FEHandleMessage(c)
  <2>1. PICK c \in Agents : FEHandleMessage(c)
    BY <1>8
  <2>2. UNCHANGED <<op, stage, executed, nreq, pools, run>>
    BY <2>1 DEF FEHandleMessage, ctlVars, appVars
  <2>3. Mode' = Mode /\ AnalysisRestarted' = AnalysisRestarted
    BY <2>2 DEF Mode, AnalysisRestarted
  <2>4. (Travelling \cup metaproperties)' = Travelling \cup metaproperties
    BY <1>0, <2>1, FEMessageAccounts
  <2>5. Unfiled' = Unfiled
    BY <1>2, <1>3, <1>4, <2>2, <2>4
  <2> QED
    BY <1>1, <2>2, <2>3, <2>5, NoRound
<1>9. CASE FEHandleStep \/ FETimeout \/ FEQuitFinished
  <2>1. /\ UNCHANGED <<up, properties, metaproperties, pools>>
        /\ UNCHANGED <<run, nreq>> /\ UNCHANGED <<op, stage, executed>>
    BY <1>9 DEF FEHandleStep, FETimeout, FEQuitFinished, ctlVars, hlaVars, appVars, treeVars
  <2>2. UNCHANGED <<Mode, AnalysisRestarted>>
    BY <2>1 DEF Mode, AnalysisRestarted
  <2> QED
    BY <1>7, <2>1, <2>2
<1>10. CASE FERestart \/ FEPhaseAgain \/ FEConsiderRestart \/ FEFinalize
  <2>1. UNCHANGED <<up, properties, metaproperties, pools>> /\ UNCHANGED <<run, nreq>>
    BY <1>10 DEF FERestart, FEPhaseAgain, FEConsiderRestart, FEFinalize, hlaVars, appVars, treeVars
  <2>2. \/ /\ op \in {"gather", "analysis", "phase"} /\ op' = op /\ stage = "run" /\ stage' = "terminating"
        \/ op = "again" /\ op' = "phase" /\ stage' = stage
        \/ op = "none" /\ op' \in {"restart", "final"}
    BY <1>10 DEF FERestart, FEPhaseAgain, FEConsiderRestart, FEFinalize, BeginRestart
  <2>3. UNCHANGED <<Mode, AnalysisRestarted>>
    BY <1>5, <2>2 DEF Mode, AnalysisRestarted
  <2> QED
    BY <1>7, <2>1, <2>3
<1>11. CASE FERerun
  <2>1. /\ UNCHANGED <<up, properties, metaproperties, pools>> /\ UNCHANGED <<op, nreq, executed>>
        /\ run' = run + 1 /\ stage = "terminating" /\ stage' = "restarted"
    BY <1>11 DEF FERerun, hlaVars
  <2>2. Busy = {}
    BY <1>0, <1>11, RerunWhenDown DEF Busy
  <2>3. Mode' = Mode /\ AnalysisRestarted' = (Mode = "analysis")
    BY <1>5, <2>1 DEF Mode, AnalysisRestarted
  <2>4. Rounds!Restart
    BY <1>1, <1>6, <2>1, <2>2, <2>3 DEF Rounds!Restart
  <2> QED
    BY <2>4 DEF Rounds!Next
<1>12. CASE FEBegin("analysis") \/ FEBegin("phase") \/ FERestartDone
  <2>1. UNCHANGED <<up, properties, metaproperties, pools>> /\ run' = run /\ nreq' = nreq + 1
    BY <1>12 DEF FEBegin, FERestartDone, PushRequest, hlaVars, appVars, treeVars
  <2>2. op \in {"none", "restart"} /\ op' \in {"analysis", "phase"} /\ stage' = "run"
    BY <1>5, <1>12 DEF FEBegin, FERestartDone
  <2>3. Mode = "idle" /\ Mode' \in {"analysis", "experiment"} /\ AnalysisRestarted' = AnalysisRestarted
    BY <2>2 DEF Mode, AnalysisRestarted
  <2>4. Rounds!Issue
    BY <1>1, <1>6, <2>1, <2>3 DEF Rounds!Issue
  <2> QED
    BY <2>4 DEF Rounds!Next
<1>13. CASE FECalltreeDone
  <2>1. /\ UNCHANGED <<up, properties, pools>> /\ UNCHANGED <<run, nreq, executed>>
        /\ stage = "calltree" /\ stage' = "run"
        /\ op' = IF op = "phase" /\ ~executed THEN "again" ELSE "none"
        /\ metaproperties' = IF op = "gather" THEN {} ELSE metaproperties
    BY <1>13 DEF FECalltreeDone, Finished, hlaVars, appVars, treeVars
  <2>2. UNCHANGED <<Mode, AnalysisRestarted>>
    BY <1>5, <2>1 DEF Mode, AnalysisRestarted
  <2>3. Travelling' = Travelling
    BY <1>0, <1>1, <2>1, QuietAccounts
  <2>4. Unfiled' = Unfiled
    BY <1>0, <1>2, <1>3, <1>4, <2>1, <2>3 DEF Accounted, FiledWhere
  <2> QED
    BY <1>1, <2>1, <2>2, <2>4, NoRound
<1>14. CASE FEResults
  <2>1. /\ UNCHANGED <<up, properties>> /\ UNCHANGED <<run, nreq>>
        /\ LoopEnded /\ op \in {"gather", "analysis", "phase"}
        /\ (stage = "run" /\ ~need_restart) \/ stage = "restarted"
        /\ pools' = pools \cup Filed
        /\ executed' = IF op = "phase" THEN stage = "run" ELSE executed
        /\ \/ stage' = "calltree" /\ op' = op
           \/ stage' = "run" /\ op' = IF op = "phase" /\ stage # "run" THEN "again" ELSE "none"
        /\ metaproperties' \subseteq metaproperties
    BY <1>14 DEF FEResults, Finished, hlaVars, appVars, treeVars
  <2>2. ~Waiting /\ buffer = <<>>
    BY <1>0, <2>1 DEF LoopEnded, Waiting, Buffered
  <2>3. Travelling = {} /\ Busy = {}
    BY <1>0, <2>2, NothingGoing DEF Busy
  <2>4. Travelling' = {}
    BY <1>0, <1>1, <2>1, <2>3, QuietAccounts
  <2>5. Unfiled = metaproperties
    BY <1>0, <1>2, <2>1, <2>3 DEF Accounted, FiledWhere
  <2>6. Unfiled' = {}
    <3>1. \A p \in metaproperties : [prop |-> p, step |-> nreq] \in pools' /\ [prop |-> p, step |-> nreq].prop = p
      BY <2>1 DEF Filed
    <3>2. metaproperties \subseteq FiledProps'
      BY <3>1 DEF FiledProps
    <3> QED
      BY <1>3, <2>1, <2>4, <3>2
  <2>7. pools' = pools \cup {[prop |-> p, step |-> nreq] : p \in Unfiled}
    BY <2>1, <2>5 DEF Filed
  <2>8. CASE op = "phase" /\ stage = "restarted"
    <3>1. Mode = "experiment" /\ Mode' = Mode /\ AnalysisRestarted' = AnalysisRestarted
      BY <2>1, <2>8 DEF Mode, AnalysisRestarted
    <3>2. Rounds!File
      BY <1>1, <2>1, <2>3, <2>6, <2>7, <3>1 DEF Rounds!File, Rounds!Filing
    <3> QED
      BY <3>2 DEF Rounds!Next
  <2>9. CASE ~(op = "phase" /\ stage = "restarted")
    <3>1. Mode # "idle" /\ Mode' = "idle" /\ AnalysisRestarted' = FALSE
      BY <2>1, <2>9 DEF Mode, AnalysisRestarted
    <3>2. Rounds!Finished \/ (Mode = "analysis" /\ AnalysisRestarted)
      <4>1. CASE stage = "run"
        <5>1. Settled
          BY <2>1, <2>2, <4>1 DEF Settled
        <5> QED
          BY <1>0, <5>1 DEF Tuned, Over, Rounds!Finished
      <4>2. CASE stage # "run"
        BY <2>1, <2>9, <4>2 DEF Mode, AnalysisRestarted
      <4> QED
        BY <4>1, <4>2
    <3>3. Rounds!End
      BY <1>1, <2>1, <2>3, <2>6, <2>7, <3>1, <3>2 DEF Rounds!End, Rounds!Filing
    <3> QED
      BY <3>3 DEF Rounds!Next
  <2> QED
    BY <2>8, <2>9
<1>15. CASE FESearchEnded
  BY <1>0, <1>15 DEF FESearchEnded
<1> QED
  BY <1>8, <1>9, <1>10, <1>11, <1>12, <1>13, <1>14, <1>15 DEF FEStep

\* Whatever the tree, the order of the messages and the restarts: a request is
\* issued when the last one is over, every agent works on it, it ends when all
\* have finished it, or an analysis after a restart, and then all that was found
\* for it is filed, once.
THEOREM RoundsImplemented == NoRace /\ ~TimeOuts /\ Tuning /\ Spec => ImplementsRounds
<1>1. Tuning /\ Init => Rounds!Init
  <2> SUFFICES ASSUME Tuning, Init PROVE Rounds!Init
    OBVIOUS
  <2>1. Mode = "analysis" /\ AnalysisRestarted = FALSE
    BY DEF Init, Mode, AnalysisRestarted
  <2>2. Busy = {} /\ finished = [a \in AAs |-> 0] /\ run = 1
    BY DEF Init, AAInit, Busy
  <2>3. Unfiled = {}
    <3>1. Travelling = {}
      BY InitInv, NothingGoing DEF Init, Waiting
    <3> QED
      BY <3>1 DEF Init, Unfiled
  <2> QED
    BY <2>1, <2>2, <2>3 DEF Init, Rounds!Init
<1>2. Rounding /\ ~TimeOuts /\ Tuning /\ [Next]_vars => [Rounds!Next]_(Rounds!vars)
  <2> SUFFICES ASSUME Rounding, ~TimeOuts, Tuning, [Next]_vars PROVE [Rounds!Next]_(Rounds!vars)
    OBVIOUS
  <2>1. CASE UNCHANGED vars
    <3>1. UNCHANGED <<started, finished, up, found, properties, run, op, stage, executed, nreq, pools, metaproperties>>
      BY <2>1 DEF vars, treeVars, aaVars, appVars, hlaVars, feVars, ctlVars
    <3>2. UNCHANGED <<Mode, Busy, AnalysisRestarted, Unfiled>>
      BY <3>1 DEF Mode, Busy, AnalysisRestarted, Unfiled, Travelling
    <3> QED
      BY <3>1, <3>2, NoRound
  <2> QED
    BY <2>1, AgentRefines, FERefines DEF Next
<1>3. CASE NoRace /\ ~TimeOuts /\ Tuning
  <2>1. Rounding /\ [Next]_vars => Rounding' /\ [Rounds!Next]_(Rounds!vars)
    BY <1>2, <1>3, StepRounding
  <2>2. Init => Rounding /\ Rounds!Init
    BY <1>1, <1>3, InitRounding
  <2> QED
    BY <2>1, <2>2, PTL DEF Spec, ImplementsRounds, Rounds!Spec
<1> QED
  BY <1>3

\* Every property in a pool is there once, under the step of the tuning in which
\* its request was made, although a phase experiment is repeated on a restarted
\* application and its results are taken part by part; and when an operation ends
\* no agent has an experiment running or a property that is left for the next.
THEOREM FiledUnderItsRequest ==
    NoRace /\ ~TimeOuts /\ Tuning /\ Spec =>
        []/\ \A e \in pools : e.step = e.prop.req
          /\ \A e, f \in pools : e.prop = f.prop => e = f
          /\ op = "none" => Busy = {} /\ Unfiled = {}
<1>1. Rounds!Spec => [](Rounds!FiledOnce /\ Rounds!UnderItsRequest /\ Rounds!QuietBetween)
  BY Rounds!FiledRight
<1>2. Rounds!FiledOnce /\ Rounds!UnderItsRequest /\ Rounds!QuietBetween
        => /\ \A e \in pools : e.step = e.prop.req
           /\ \A e, f \in pools : e.prop = f.prop => e = f
           /\ op = "none" => Busy = {} /\ Unfiled = {}
  BY DEF Rounds!FiledOnce, Rounds!UnderItsRequest, Rounds!QuietBetween, Mode
<1> QED
  BY <1>1, <1>2, RoundsImplemented, PTL DEF ImplementsRounds
=============================================================================
