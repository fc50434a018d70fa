--------------------------- MODULE SubstrateProofs ---------------------------
(***************************************************************************)
(* What TuningSubstrate guarantees for any regions, parameters, values and *)
(* depth of nesting, when one thread delivers the region events and the    *)
(* parameters are mapped outside of the phase.                             *)
(***************************************************************************)
EXTENDS TuningSubstrate, SequenceTheorems, FiniteSetTheorems, TLAPS

FrameSet == [region : AllRegions, before : [Params -> Values], height : [Params -> Nat]]

\* Elements of a sequence that grows or shrinks at its end.
LEMMA AppendFacts ==
    ASSUME NEW S, NEW s \in Seq(S), NEW e \in S
    PROVE  /\ Append(s, e) \in Seq(S)
           /\ Len(Append(s, e)) = Len(s) + 1
           /\ \A i \in 1..Len(s) : Append(s, e)[i] = s[i]
           /\ Append(s, e)[Len(s) + 1] = e
  OBVIOUS

LEMMA FrontFacts ==
    ASSUME NEW S, NEW s \in Seq(S), s # <<>>
    PROVE  /\ Front(s) \in Seq(S)
           /\ Len(Front(s)) = Len(s) - 1
           /\ Len(s) \in Nat \ {0}
           /\ \A i \in 1..(Len(s) - 1) : Front(s)[i] = s[i]
           /\ Last(s) \in S
<1>1. Len(s) \in Nat \ {0}
  OBVIOUS
<1>2. Last(s) \in S
  BY <1>1 DEF Last
<1>3. \A i \in 1..(Len(s) - 1) : s[i] \in S
  BY <1>1
<1>4. /\ Front(s) \in Seq(S)
      /\ Len(Front(s)) = IF 1 <= Len(s) - 1 THEN (Len(s) - 1) - 1 + 1 ELSE 0
      /\ \A i \in 1..((Len(s) - 1) - 1 + 1) : Front(s)[i] = s[1 + i - 1]
  BY <1>1, <1>3, SubSeqProperties DEF Front
<1>5. Len(Front(s)) = Len(s) - 1
  <2> DEFINE n == Len(s)
             k == Len(Front(s))
  <2>1. n \in Nat \ {0} /\ k = IF 1 <= n - 1 THEN (n - 1) - 1 + 1 ELSE 0
    BY <1>1, <1>4
  <2> HIDE DEF n, k
  <2>2. k = n - 1
    BY <2>1
  <2> QED
    BY <2>2 DEF n, k
<1>6. ASSUME NEW i \in 1..(Len(s) - 1) PROVE Front(s)[i] = s[i]
  <2>1. i \in 1..((Len(s) - 1) - 1 + 1) /\ 1 + i - 1 = i
    BY <1>1
  <2> QED
    BY <1>4, <2>1
<1> QED
  BY <1>1, <1>2, <1>4, <1>5, <1>6

\* The frame or the value at every index of a sequence.
LEMMA ElementFacts ==
    ASSUME NEW S, NEW s \in Seq(S)
    PROVE  /\ Len(s) \in Nat
           /\ \A i \in 1..Len(s) : s[i] \in S
           /\ s = <<>> <=> Len(s) = 0
  OBVIOUS

\* The initial state and every step keep the declared types: a restored value is one
\* that was pushed, because exit_region pops non-empty stacks only.
LEMMA InitType == Init => TypeOK
<1> SUFFICES ASSUME Init PROVE TypeOK
  OBVIOUS
<1>1. calls \in [Threads -> Seq(FrameSet)]
  BY DEF Init
<1>2. stack \in [Params -> Seq(Values)]
  BY DEF Init
<1>3. table \in [AllRegions -> [Params -> Values \cup {NoAction}]]
  BY DEF Init
<1> QED
  BY <1>1, <1>2, <1>3 DEF Init, TypeOK, FrameSet

LEMMA StepType == TypeOK /\ [Next]_vars => TypeOK'
<1> SUFFICES ASSUME TypeOK, [Next]_vars PROVE TypeOK'
  OBVIOUS
<1>1. ASSUME NEW p \in Params, NEW flag \in BOOLEAN, MapParameter(p, flag) PROVE TypeOK'
  <2>1. stack' \in [Params -> Seq(Values)]
    BY <1>1 DEF TypeOK, MapParameter
  <2>2. setting[p] \in Values
    BY DEF TypeOK
  <2> QED
    BY <1>1, <2>1, <2>2 DEF TypeOK, MapParameter
<1>2. ASSUME NEW r \in AllRegions, NEW p \in Params, NEW v \in Values, AddTuningAction(r, p, v)
      PROVE  TypeOK'
  BY <1>2 DEF TypeOK, AddTuningAction, paramVars
<1>3. ASSUME NEW t \in Threads, NEW r \in AllRegions, EnterRegion(t, r) PROVE TypeOK'
  <2>1. Frame(r) \in FrameSet
    BY DEF TypeOK, Frame, FrameSet
  <2>2. calls' \in [Threads -> Seq(FrameSet)]
    <3>1. calls \in [Threads -> Seq(FrameSet)]
      BY DEF TypeOK, FrameSet
    <3>2. Append(calls[t], Frame(r)) \in Seq(FrameSet)
      BY <2>1, <3>1
    <3> QED
      BY <1>3, <3>1, <3>2 DEF EnterRegion
  <2>3. \A p \in Tuned(r) : table[r][p] \in Values
    BY DEF TypeOK, Tuned
  <2>4. setting' \in [Params -> Values]
    BY <1>3, <2>3 DEF TypeOK, EnterRegion
  <2>5. stack' \in [Params -> Seq(Values)]
    BY <1>3 DEF TypeOK, EnterRegion
  <2> QED
    BY <1>3, <2>2, <2>4, <2>5 DEF TypeOK, EnterRegion, paramVars, FrameSet
<1>4. ASSUME NEW t \in Threads, ExitRegion(t) PROVE TypeOK'
  <2> DEFINE r == Last(calls[t]).region
  <2>1. CASE \E p \in Restored(r) : stack[p] = <<>>
    BY <1>4, <2>1 DEF TypeOK, ExitRegion, paramVars
  <2>2. CASE \A p \in Restored(r) : stack[p] # <<>>
    <3>1. PopAll(r) /\ calls' = [calls EXCEPT ![t] = Front(@)] /\ ~failed'
      BY <1>4, <2>2 DEF ExitRegion
    <3>2. Front(calls[t]) \in Seq(FrameSet)
      BY <1>4, FrontFacts DEF TypeOK, ExitRegion, MayExit, FrameSet
    <3>3. \A p \in Restored(r) : Last(stack[p]) \in Values /\ Front(stack[p]) \in Seq(Values)
      BY <2>2, FrontFacts DEF TypeOK, Restored, Tuned
    <3> QED
      BY <1>4, <3>1, <3>2, <3>3 DEF TypeOK, ExitRegion, PopAll, paramVars, FrameSet
  <2> QED
    BY <2>1, <2>2
<1>5. CASE UNCHANGED vars
  BY <1>5 DEF TypeOK, vars, paramVars
<1> QED
  BY <1>1, <1>2, <1>3, <1>4, <1>5 DEF Next

\* Every state of the specification has the declared types, for any number of threads
\* and mappings anywhere.
THEOREM TypeCorrect == Spec => []TypeOK
  BY InitType, StepType, PTL DEF Spec

-----------------------------------------------------------------------------
\* Frame f saved the value of p.
Saves(f, p) == table[f.region][p] # NoAction

\* The height of p's stack, and what is known of p's value, once frame f is on top.
Above(f, p) == f.height[p] + (IF Saves(f, p) THEN 1 ELSE 0)
Kept(f, p, v) == ~Saves(f, p) => v = f.before[p]

\* The frames of the master and the stack of a restored parameter fit together: each
\* frame that saved a value still finds it at the height it was pushed at, the frames
\* stand on each other without gaps, and the value of p below all of them is its own.
Found(c, p) == \A i \in 1..Len(c) :
    /\ Above(c[i], p) <= Len(stack[p])
    /\ Saves(c[i], p) => stack[p][c[i].height[p] + 1] = c[i].before[p]

Ordered(c, p) == \A i, j \in 1..Len(c) : i < j => Above(c[i], p) <= c[j].height[p]

Adjacent(c, p) == \A i \in 1..(Len(c) - 1) :
    /\ c[i + 1].height[p] = Above(c[i], p)
    /\ Kept(c[i], p, c[i + 1].before[p])

OnTop(c, p) == Len(c) > 0 => /\ Len(stack[p]) = Above(c[Len(c)], p)
                             /\ Kept(c[Len(c)], p, setting[p])

AtBottom(c, p) == baseline[p] = IF Len(c) > 0 THEN c[1].before[p] ELSE setting[p]

FramesFit(c, p) == Found(c, p) /\ Ordered(c, p) /\ Adjacent(c, p) /\ OnTop(c, p) /\ AtBottom(c, p)

SubstrateInv ==
    /\ TypeOK
    /\ ~failed
    /\ \A p \in Params : mapped[p] /\ restore[p] => FramesFit(calls[Master], p)

\* Entering a region keeps the frames fitting: the new frame stands on the stack as
\* it is, and the value is pushed at the height the frame remembers.
LEMMA EnterFits ==
    ASSUME TypeOK, NEW r \in AllRegions, NEW p \in Params, mapped[p], restore[p],
           Master \in Threads, FramesFit(calls[Master], p), EnterRegion(Master, r)
    PROVE  FramesFit(calls[Master], p)'
<1> DEFINE c == calls[Master]
           d == calls'[Master]
           f == Frame(r)
           n == Len(c)
           h == Len(stack[p])
<1>1. c \in Seq(FrameSet) /\ f \in FrameSet /\ stack[p] \in Seq(Values) /\ setting[p] \in Values
  <2>1. c \in Seq(FrameSet) /\ stack[p] \in Seq(Values) /\ setting[p] \in Values
    BY DEF TypeOK, FrameSet
  <2>2. f \in FrameSet
    BY DEF TypeOK, FrameSet, Frame
  <2> QED
    BY <2>1, <2>2
<1>2. d = Append(c, f) /\ table' = table /\ baseline' = baseline
  BY DEF EnterRegion, TypeOK, paramVars
<1>3. /\ n \in Nat
      /\ Len(d) = n + 1
      /\ \A i \in 1..n : d[i] = c[i]
      /\ d[n + 1] = f
      /\ \A i \in 1..n : c[i].height[p] \in Nat
  <2>1. \A i \in 1..n : c[i] \in FrameSet
    BY <1>1
  <2>2. \A e \in FrameSet : e.height[p] \in Nat
    BY DEF FrameSet
  <2> QED
    BY <1>1, <1>2, <2>1, <2>2, AppendFacts
<1>4. f.region = r /\ f.before[p] = setting[p] /\ f.height[p] = h /\ h \in Nat
  BY <1>1 DEF Frame
<1>5. /\ \A i \in 1..h : stack'[p][i] = stack[p][i]
      /\ Len(stack'[p]) = Above(f, p)
      /\ Saves(f, p) => stack'[p][h + 1] = f.before[p]
      /\ Kept(f, p, setting'[p])
  <2>1. CASE table[r][p] # NoAction
    <3>1. stack'[p] = Append(stack[p], setting[p])
      BY <2>1 DEF EnterRegion, Restored, Tuned, TypeOK
    <3> QED
      BY <1>1, <1>4, <2>1, <3>1, AppendFacts DEF Above, Saves, Kept
  <2>2. CASE table[r][p] = NoAction
    <3>1. stack'[p] = stack[p] /\ setting'[p] = setting[p]
      BY <2>2 DEF EnterRegion, Restored, Tuned, TypeOK
    <3> QED
      BY <1>1, <1>4, <2>2, <3>1 DEF Above, Saves, Kept
  <2> QED
    BY <2>1, <2>2
<1>6. \A i \in 1..n : Above(c[i], p) \in Nat /\ Above(c[i], p) <= h
  BY <1>3 DEF FramesFit, Found, Above
<1>7. Above(f, p) \in Nat /\ h <= Above(f, p)
  <2> HIDE DEF f, h
  <2> QED
    BY <1>4 DEF Above
<1>8. (Found(calls[Master], p))'
  <2> SUFFICES ASSUME NEW i \in 1..(n + 1)
               PROVE  /\ Above(d[i], p) <= Len(stack'[p])
                      /\ Saves(d[i], p) => stack'[p][d[i].height[p] + 1] = d[i].before[p]
    BY <1>2, <1>3 DEF Found, Above, Saves
  <2>1. CASE i = n + 1
    <3>1. d[i] = f /\ Above(f, p) <= Len(stack'[p])
      BY <1>3, <1>5, <1>7, <2>1
    <3> QED
      BY <1>4, <1>5, <3>1
  <2>2. CASE i \in 1..n
    <3>1. d[i] = c[i] /\ Above(c[i], p) <= Len(stack'[p])
      BY <1>3, <1>4, <1>5, <1>6, <1>7, <2>2
    <3>2. Saves(c[i], p) => c[i].height[p] + 1 \in 1..h
      BY <1>3, <1>4, <1>6, <2>2 DEF Above
    <3> QED
      BY <1>5, <2>2, <3>1, <3>2 DEF FramesFit, Found
  <2> QED
    BY <1>3, <2>1, <2>2
<1>9. (Ordered(calls[Master], p))'
  <2> SUFFICES ASSUME NEW i \in 1..(n + 1), NEW j \in 1..(n + 1), i < j
               PROVE  Above(d[i], p) <= d[j].height[p]
    BY <1>2, <1>3 DEF Ordered, Above, Saves
  <2>1. i \in 1..n /\ d[i] = c[i]
    BY <1>3
  <2>2. CASE j = n + 1
    BY <1>3, <1>4, <1>6, <2>1, <2>2
  <2>3. CASE j \in 1..n
    BY <1>3, <2>1, <2>3 DEF FramesFit, Ordered
  <2> QED
    BY <1>3, <2>2, <2>3
<1>10. (Adjacent(calls[Master], p))'
  <2> SUFFICES ASSUME NEW i \in 1..n
               PROVE  /\ d[i + 1].height[p] = Above(d[i], p)
                      /\ Kept(d[i], p, d[i + 1].before[p])
    BY <1>2, <1>3 DEF Adjacent, Above, Saves, Kept
  <2>1. CASE i = n
    BY <1>3, <1>4, <2>1 DEF FramesFit, OnTop
  <2>2. CASE i \in 1..(n - 1)
    <3>1. d[i] = c[i] /\ d[i + 1] = c[i + 1]
      BY <1>3, <2>2
    <3> QED
      BY <2>2, <3>1 DEF FramesFit, Adjacent
  <2> QED
    BY <1>3, <2>1, <2>2
<1>11. (OnTop(calls[Master], p))'
  BY <1>2, <1>3, <1>5 DEF OnTop, Above, Saves, Kept
<1>12. (AtBottom(calls[Master], p))'
  <2>1. CASE n = 0
    BY <1>2, <1>3, <1>4, <2>1 DEF FramesFit, AtBottom
  <2>2. CASE n > 0
    BY <1>2, <1>3, <1>4, <2>2 DEF FramesFit, AtBottom
  <2> QED
    BY <1>3, <2>1, <2>2
<1> QED
  BY <1>8, <1>9, <1>10, <1>11, <1>12 DEF FramesFit

\* Leaving a region finds the value the frame saved, sets it, and keeps the frames
\* below fitting.
LEMMA ExitFits ==
    ASSUME TypeOK, NEW p \in Params, mapped[p], restore[p], Master \in Threads,
           FramesFit(calls[Master], p), calls[Master] # <<>>,
           table' = table, baseline' = baseline,
           calls'[Master] = Front(calls[Master]),
           PopAll(Last(calls[Master]).region)
    PROVE  FramesFit(calls[Master], p)'
<1> DEFINE c == calls[Master]
           d == calls'[Master]
           n == Len(c)
           f == c[n]
           h == f.height[p]
<1>1. c \in Seq(FrameSet) /\ stack[p] \in Seq(Values)
  BY DEF TypeOK, FrameSet
<1>2. /\ n \in Nat \ {0}
      /\ Len(d) = n - 1
      /\ \A i \in 1..(n - 1) : d[i] = c[i]
  <2>1. /\ Len(Front(c)) = Len(c) - 1
        /\ Len(c) \in Nat \ {0}
        /\ \A i \in 1..(Len(c) - 1) : Front(c)[i] = c[i]
    BY <1>1, FrontFacts
  <2>2. d = Front(c)
    OBVIOUS
  <2> QED
    BY <2>1, <2>2
<1>3. \A i \in 1..n : c[i].height[p] \in Nat
  <2>1. \A i \in 1..n : c[i] \in FrameSet
    BY <1>1
  <2>2. \A e \in FrameSet : e.height[p] \in Nat
    BY DEF FrameSet
  <2> QED
    BY <2>1, <2>2
<1>4. h \in Nat
  BY <1>2, <1>3
<1>5. /\ Len(stack'[p]) = h
      /\ \A i \in 1..h : stack'[p][i] = stack[p][i]
      /\ setting'[p] = f.before[p]
  <2>1. Len(stack[p]) = Above(f, p) /\ Kept(f, p, setting[p])
    BY <1>2 DEF FramesFit, OnTop
  <2>2. Last(c) = f
    BY DEF Last
  <2>3. CASE Saves(f, p)
    <3>1. Len(stack[p]) = h + 1
      BY <2>1, <2>3 DEF Above
    <3>2. stack[p] # <<>> /\ Last(stack[p]) = stack[p][h + 1]
      BY <1>1, <1>4, <3>1 DEF Last
    <3>3. p \in Restored(f.region)
      BY <2>3 DEF Saves, Restored, Tuned
    <3>4. stack'[p] = Front(stack[p]) /\ setting'[p] = Last(stack[p])
      BY <2>2, <3>3 DEF PopAll
    <3>5. stack[p][h + 1] = f.before[p]
      BY <1>2, <2>3 DEF FramesFit, Found
    <3>6. /\ Len(Front(stack[p])) = Len(stack[p]) - 1
          /\ \A i \in 1..(Len(stack[p]) - 1) : Front(stack[p])[i] = stack[p][i]
      BY <1>1, <3>2, FrontFacts
    <3>7. Len(stack[p]) - 1 = h
      BY <1>4, <3>1
    <3> QED
      BY <3>2, <3>4, <3>5, <3>6, <3>7
  <2>4. CASE ~Saves(f, p)
    <3>1. p \notin Restored(f.region)
      BY <2>4 DEF Saves, Restored, Tuned
    <3>2. stack'[p] = stack[p] /\ setting'[p] = setting[p]
      BY <2>2, <3>1 DEF PopAll
    <3> QED
      BY <1>4, <2>1, <2>4, <3>2 DEF Above, Kept
  <2> QED
    BY <2>3, <2>4
<1>6. \A i \in 1..(n - 1) : Above(c[i], p) \in Nat /\ Above(c[i], p) <= h
  BY <1>2, <1>3 DEF FramesFit, Ordered, Above
<1>7. (Found(calls[Master], p))'
  <2> SUFFICES ASSUME NEW i \in 1..(n - 1)
               PROVE  /\ Above(d[i], p) <= Len(stack'[p])
                      /\ Saves(d[i], p) => stack'[p][d[i].height[p] + 1] = d[i].before[p]
    BY <1>2 DEF Found, Above, Saves
  <2>1. d[i] = c[i] /\ Above(c[i], p) <= Len(stack'[p])
    BY <1>2, <1>5, <1>6
  <2>2. Saves(c[i], p) => c[i].height[p] + 1 \in 1..h
    BY <1>2, <1>3, <1>4, <1>6 DEF Above
  <2>3. Saves(c[i], p) => stack[p][c[i].height[p] + 1] = c[i].before[p]
    BY <1>2 DEF FramesFit, Found
  <2> QED
    BY <1>5, <2>1, <2>2, <2>3
<1>8. (Ordered(calls[Master], p))'
  <2> SUFFICES ASSUME NEW i \in 1..(n - 1), NEW j \in 1..(n - 1), i < j
               PROVE  Above(d[i], p) <= d[j].height[p]
    BY <1>2 DEF Ordered, Above, Saves
  <2> QED
    BY <1>2 DEF FramesFit, Ordered
<1>9. (Adjacent(calls[Master], p))'
  <2> SUFFICES ASSUME NEW i \in 1..(n - 1 - 1)
               PROVE  /\ d[i + 1].height[p] = Above(d[i], p)
                      /\ Kept(d[i], p, d[i + 1].before[p])
    BY <1>2 DEF Adjacent, Above, Saves, Kept
  <2>1. d[i] = c[i] /\ d[i + 1] = c[i + 1] /\ i \in 1..(n - 1)
    BY <1>2
  <2> QED
    BY <2>1 DEF FramesFit, Adjacent
<1>10. (OnTop(calls[Master], p))'
  <2> SUFFICES ASSUME n - 1 > 0
               PROVE  /\ Len(stack'[p]) = Above(d[n - 1], p)
                      /\ Kept(d[n - 1], p, setting'[p])
    BY <1>2 DEF OnTop, Above, Saves, Kept
  <2>1. d[n - 1] = c[n - 1] /\ n - 1 \in 1..(n - 1) /\ (n - 1) + 1 = n
    BY <1>2
  <2>2. h = Above(c[n - 1], p) /\ Kept(c[n - 1], p, f.before[p])
    BY <2>1 DEF FramesFit, Adjacent
  <2> QED
    BY <1>5, <2>1, <2>2
<1>11. (AtBottom(calls[Master], p))'
  <2>1. baseline[p] = c[1].before[p]
    BY <1>2 DEF FramesFit, AtBottom
  <2>2. CASE n = 1
    <3>1. Len(d) = 0 /\ setting'[p] = c[1].before[p]
      BY <1>2, <1>5, <2>2
    <3> QED
      BY <2>1, <3>1 DEF AtBottom
  <2>3. CASE n - 1 > 0
    <3>1. Len(d) > 0 /\ d[1] = c[1]
      BY <1>2, <2>3
    <3> QED
      BY <2>1, <3>1 DEF AtBottom
  <2>4. n = 1 \/ n - 1 > 0
    <3>1. n \in Nat \ {0}
      BY <1>2
    <3> HIDE DEF n
    <3> QED
      BY <3>1
  <2> QED
    BY <2>2, <2>3, <2>4
<1> QED
  BY <1>7, <1>8, <1>9, <1>10, <1>11 DEF FramesFit

\* The top frame of a restored parameter that saved a value finds it on top of a stack
\* that is not empty.
LEMMA TopFrame ==
    ASSUME TypeOK, Master \in Threads, calls[Master] # <<>>,
           NEW p \in Restored(Last(calls[Master]).region), FramesFit(calls[Master], p)
    PROVE  stack[p] # <<>> /\ Last(stack[p]) = Last(calls[Master]).before[p]
<1> DEFINE c == calls[Master]
           n == Len(c)
           f == c[n]
           h == f.height[p]
<1>1. p \in Params /\ Saves(f, p)
  BY DEF Restored, Tuned, Saves, Last
<1>2. c \in Seq(FrameSet) /\ stack[p] \in Seq(Values)
  BY <1>1 DEF TypeOK, FrameSet
<1>3. n \in Nat \ {0} /\ f \in FrameSet
  BY <1>2, FrontFacts DEF Last
<1>4. h \in Nat
  BY <1>1, <1>3 DEF FrameSet
<1>5. Len(stack[p]) = h + 1
  BY <1>1, <1>3 DEF FramesFit, OnTop, Above
<1>6. stack[p][h + 1] = f.before[p]
  BY <1>1, <1>3 DEF FramesFit, Found
<1> QED
  BY <1>2, <1>4, <1>5, <1>6 DEF Last

\* The inductive invariant: SubstrateInv holds in every state.  A single thread leaves
\* its regions in the reverse order of entering them, and actions and mappings change
\* only while no frame exists.
LEMMA SubstrateInvariant ==
    ASSUME Threads = {Master}, MapInside = FALSE
    PROVE  Spec => []SubstrateInv
<1>1. Init => SubstrateInv
  <2> SUFFICES ASSUME Init, TypeOK, NEW p \in Params PROVE FramesFit(calls[Master], p)
    BY InitType DEF SubstrateInv, Init
  <2>1. Len(calls[Master]) = 0 /\ baseline = setting
    BY DEF Init
  <2> QED
    BY <2>1 DEF FramesFit, Found, Ordered, Adjacent, OnTop, AtBottom
<1>2. SubstrateInv /\ [Next]_vars => SubstrateInv'
  <2> SUFFICES ASSUME SubstrateInv, [Next]_vars PROVE SubstrateInv'
    OBVIOUS
  <2> USE DEF SubstrateInv
  <2>0. TypeOK'
    BY StepType
  <2>1. ASSUME NEW q \in Params, NEW flag \in BOOLEAN, MapParameter(q, flag) PROVE SubstrateInv'
    <3>1. calls[Master] = <<>> /\ calls' = calls /\ setting' = setting /\ failed' = failed
      BY <2>1 DEF MapParameter, Suspendable
    <3>2. ASSUME NEW p \in Params, mapped'[p], restore'[p] PROVE baseline'[p] = setting[p]
      <4>1. CASE p = q
        BY <2>1, <4>1 DEF MapParameter, TypeOK
      <4>2. CASE p # q
        <5>1. mapped[p] /\ restore[p] /\ baseline'[p] = baseline[p]
          BY <2>1, <3>2, <4>2 DEF MapParameter, TypeOK
        <5> QED
          BY <3>1, <5>1 DEF FramesFit, AtBottom
      <4> QED
        BY <4>1, <4>2
    <3>3. Len(calls'[Master]) = 0
      BY <3>1
    <3>4. ASSUME NEW p \in Params, mapped'[p], restore'[p] PROVE FramesFit(calls[Master], p)'
      BY <3>1, <3>2, <3>3, <3>4 DEF FramesFit, Found, Ordered, Adjacent, OnTop, AtBottom
    <3> QED
      BY <2>0, <3>1, <3>4
  <2>2. ASSUME NEW r \in AllRegions, NEW q \in Params, NEW v \in Values, AddTuningAction(r, q, v)
        PROVE  SubstrateInv'
    <3>1. /\ calls[Master] = <<>>
          /\ UNCHANGED <<calls, setting, failed, mapped, restore, baseline>>
      BY <2>2 DEF AddTuningAction, Suspendable, paramVars
    <3>2. Len(calls'[Master]) = 0
      BY <3>1
    <3>3. ASSUME NEW p \in Params, mapped'[p], restore'[p] PROVE FramesFit(calls[Master], p)'
      <4>1. baseline[p] = setting[p]
        BY <3>1, <3>3 DEF FramesFit, AtBottom
      <4> QED
        BY <3>1, <3>2, <4>1 DEF FramesFit, Found, Ordered, Adjacent, OnTop, AtBottom
    <3> QED
      BY <2>0, <3>1, <3>3
  <2>3. ASSUME NEW t \in Threads, NEW r \in AllRegions, EnterRegion(t, r) PROVE SubstrateInv'
    <3>1. EnterRegion(Master, r) /\ Master \in Threads
      BY <2>3
    <3>2. UNCHANGED <<mapped, restore, failed>>
      BY <3>1 DEF EnterRegion, paramVars
    <3>3. ASSUME NEW p \in Params, mapped'[p], restore'[p] PROVE FramesFit(calls[Master], p)'
      BY <3>1, <3>2, <3>3, EnterFits
    <3> QED
      BY <2>0, <3>2, <3>3
  <2>4. ASSUME NEW t \in Threads, ExitRegion(t) PROVE SubstrateInv'
    <3> DEFINE r == Last(calls[Master]).region
    <3>1. ExitRegion(Master) /\ Master \in Threads
      BY <2>4
    <3>2. calls[Master] # <<>> /\ UNCHANGED <<table, mapped, restore, baseline>>
      BY <3>1 DEF ExitRegion, MayExit, paramVars
    <3>3. \A p \in Restored(r) : stack[p] # <<>>
      BY <3>1, <3>2, TopFrame DEF Restored, Tuned
    <3>4. PopAll(r) /\ calls' = [calls EXCEPT ![Master] = Front(@)] /\ ~failed'
      BY <3>1, <3>3 DEF ExitRegion
    <3>5. calls'[Master] = Front(calls[Master])
      BY <3>1, <3>4 DEF TypeOK
    <3>6. ASSUME NEW p \in Params, mapped'[p], restore'[p] PROVE FramesFit(calls[Master], p)'
      BY <3>1, <3>2, <3>4, <3>5, <3>6, ExitFits
    <3> QED
      BY <2>0, <3>2, <3>4, <3>6
  <2>5. CASE UNCHANGED vars
    BY <2>0, <2>5 DEF vars, paramVars, FramesFit, Found, Ordered, Adjacent, OnTop, AtBottom,
                      Above, Saves, Kept
  <2> QED
    BY <2>1, <2>2, <2>3, <2>4, <2>5 DEF Next
<1> QED
  BY <1>1, <1>2, PTL DEF Spec

\* With one thread and mappings outside of the phase, popFromStack never finds an empty
\* stack, whatever the nesting, the recursion and the actions requested in between.
THEOREM NoStackUnderflow ==
    ASSUME Threads = {Master}, MapInside = FALSE
    PROVE  Spec => []NoUnderflow
<1>1. SubstrateInv => NoUnderflow
  BY DEF SubstrateInv, NoUnderflow
<1> QED
  BY <1>1, SubstrateInvariant, PTL

\* Under the same conditions no value of a scenario survives the phase it was set in.
THEOREM ScenariosDoNotLeak ==
    ASSUME Threads = {Master}, MapInside = FALSE
    PROVE  Spec => []ResetBetweenPhases
<1>1. SubstrateInv => ResetBetweenPhases
  <2> SUFFICES ASSUME SubstrateInv, Suspendable, NEW p \in Params, mapped[p], restore[p]
               PROVE  setting[p] = baseline[p]
    BY DEF ResetBetweenPhases
  <2>1. Len(calls[Master]) = 0
    BY DEF Suspendable
  <2> QED
    BY <2>1 DEF SubstrateInv, FramesFit, AtBottom
<1> QED
  BY <1>1, SubstrateInvariant, PTL

\* Under the same conditions exit_region gives each restored parameter the value it had
\* when that call of the region was entered.
THEOREM ExitRestores ==
    ASSUME Threads = {Master}, MapInside = FALSE
    PROVE  Spec => RestoredOnExit
<1> DEFINE Step == \A t \in Threads : Len(calls'[t]) < Len(calls[t]) =>
                      LET f == Last(calls[t])
                      IN \A p \in Restored(f.region) : setting'[p] = f.before[p]
<1>1. SubstrateInv /\ [Next]_vars => [Step]_vars
  <2> SUFFICES ASSUME SubstrateInv, Next, Len(calls'[Master]) < Len(calls[Master]),
                      NEW p \in Restored(Last(calls[Master]).region)
               PROVE  setting'[p] = Last(calls[Master]).before[p]
    OBVIOUS
  <2> USE DEF SubstrateInv
  <2>1. calls[Master] \in Seq(FrameSet) /\ Master \in Threads
    BY DEF TypeOK, FrameSet
  <2>2. ASSUME NEW r \in AllRegions, EnterRegion(Master, r) PROVE FALSE
    <3>1. calls'[Master] = Append(calls[Master], Frame(r)) /\ Frame(r) \in FrameSet
      <4>1. Frame(r) \in FrameSet
        BY DEF TypeOK, Frame, FrameSet
      <4> QED
        BY <2>1, <2>2, <4>1 DEF EnterRegion, TypeOK
    <3>2. Len(calls'[Master]) = Len(calls[Master]) + 1 /\ Len(calls[Master]) \in Nat
      BY <2>1, <3>1, AppendFacts, ElementFacts
    <3> QED
      BY <3>2
  <2>3. calls' # calls
    BY <2>1, ElementFacts
  <2>4. ExitRegion(Master)
    BY <2>2, <2>3 DEF Next, MapParameter, AddTuningAction
  <2>5. calls[Master] # <<>> /\ FramesFit(calls[Master], p) /\ p \in Params
    BY <2>4 DEF ExitRegion, MayExit, Restored, Tuned
  <2>6. stack[p] # <<>> /\ Last(stack[p]) = Last(calls[Master]).before[p]
    BY <2>1, <2>5, TopFrame
  <2>7. PopAll(Last(calls[Master]).region)
    BY <2>3, <2>4 DEF ExitRegion
  <2> QED
    BY <2>5, <2>6, <2>7 DEF PopAll
<1>2. Spec => [][Step]_vars
  BY <1>1, SubstrateInvariant, PTL DEF Spec
<1> QED
  BY <1>2 DEF RestoredOnExit

\* The heights the frames of the master remember, and the height of every stack, are
\* bounded by the number of the frames below; a parameter that is not restored has
\* no saved value.
HeightsOK ==
    /\ \A p \in Params : ~(mapped[p] /\ restore[p]) => stack[p] = <<>>
    /\ \A p \in Params : Len(stack[p]) <= Len(calls[Master])
    /\ \A p \in Params : \A i \in 1..Len(calls[Master]) : calls[Master][i].height[p] <= i - 1

\* The regions one thread is in, counted.
LEMMA PairsWithOne ==
    ASSUME NEW x, NEW n \in Nat
    PROVE  Cardinality({x} \X (1..n)) = n
<1>1. IsFiniteSet({x}) /\ Cardinality({x}) = 1
  BY FS_Singleton
<1>2. IsFiniteSet(1..n) /\ Cardinality(1..n) = n
  BY FS_Interval
<1>3. Cardinality({x} \X (1..n)) = Cardinality({x}) * Cardinality(1..n)
  BY <1>1, <1>2, FS_Product, Zenon
<1> QED
  BY <1>1, <1>2, <1>3

\* The regions being executed are those of the only thread.
LEMMA RegionsOfMaster ==
    ASSUME TypeOK, Threads = {Master}
    PROVE  Cardinality(UNION {{t} \X (1..Len(calls[t])) : t \in Threads}) = Len(calls[Master])
<1>1. Len(calls[Master]) \in Nat
  BY DEF TypeOK
<1>2. UNION {{t} \X (1..Len(calls[t])) : t \in Threads} = {Master} \X (1..Len(calls[Master]))
  BY Zenon
<1> QED
  BY <1>1, <1>2, PairsWithOne, Zenon

\* The bounds hold under the conditions of the other theorems, which the fit of the frames gives.
LEMMA HeightsInvariant ==
    ASSUME Threads = {Master}, MapInside = FALSE
    PROVE  Spec => []HeightsOK
<1>1. Init => HeightsOK
  BY SubstrateAssumption DEF Init, HeightsOK
<1>2. SubstrateInv /\ HeightsOK /\ [Next]_vars => HeightsOK'
  <2> SUFFICES ASSUME SubstrateInv, HeightsOK, [Next]_vars PROVE HeightsOK'
    OBVIOUS
  <2> DEFINE c == calls[Master]
  <2>0. /\ TypeOK /\ ~failed
        /\ c \in Seq(FrameSet) /\ Len(c) \in Nat
        /\ \A p \in Params : stack[p] \in Seq(Values) /\ Len(stack[p]) \in Nat
        /\ Master \in Threads
    BY SubstrateAssumption, ElementFacts DEF SubstrateInv, TypeOK, FrameSet
  <2>1. ASSUME NEW q \in Params, NEW flag \in BOOLEAN, MapParameter(q, flag) PROVE HeightsOK'
    <3>1. calls' = calls /\ c = <<>> /\ Len(c) = 0
      BY <2>0, <2>1, ElementFacts DEF MapParameter, Suspendable
    <3>2. \A p \in Params : Len(stack[p]) = 0
      BY <2>0, <3>1 DEF HeightsOK
    <3>3. \A p \in Params : stack[p] = <<>>
      BY <2>0, <3>2, ElementFacts
    <3>4. \A p \in Params : stack'[p] = <<>>
      BY <2>0, <2>1, <3>3 DEF MapParameter, TypeOK
    <3> QED
      BY <3>1, <3>4 DEF HeightsOK
  <2>2. ASSUME NEW r \in AllRegions, NEW q \in Params, NEW v \in Values, AddTuningAction(r, q, v)
        PROVE  HeightsOK'
    BY <2>2 DEF AddTuningAction, paramVars, HeightsOK
  <2>3. ASSUME NEW t \in Threads, NEW r \in AllRegions, EnterRegion(t, r) PROVE HeightsOK'
    <3>0. t = Master
      OBVIOUS
    <3>1. Frame(r) \in FrameSet
      BY <2>0 DEF TypeOK, Frame, FrameSet
    <3>2. calls'[Master] = Append(c, Frame(r)) /\ UNCHANGED <<mapped, restore>>
      BY <2>0, <2>3, <3>0 DEF EnterRegion, TypeOK, paramVars
    <3>3. /\ Len(calls'[Master]) = Len(c) + 1
          /\ \A i \in 1..Len(c) : calls'[Master][i] = c[i]
          /\ calls'[Master][Len(c) + 1] = Frame(r)
      BY <2>0, <3>1, <3>2, AppendFacts
    <3>4. ASSUME NEW p \in Params
          PROVE  /\ ~(mapped'[p] /\ restore'[p]) => stack'[p] = <<>>
                 /\ Len(stack'[p]) <= Len(c) + 1
      <4>1. CASE p \in Restored(r)
        <5>1. stack'[p] = Append(stack[p], setting[p]) /\ setting[p] \in Values
          BY <2>0, <2>3, <4>1 DEF EnterRegion, TypeOK
        <5>2. Len(stack'[p]) = Len(stack[p]) + 1
          BY <2>0, <5>1, AppendFacts
        <5>3. mapped[p] /\ restore[p]
          BY <4>1 DEF Restored, Tuned
        <5> QED
          BY <2>0, <3>2, <5>2, <5>3 DEF HeightsOK
      <4>2. CASE p \notin Restored(r)
        <5>1. stack'[p] = stack[p]
          BY <2>3, <4>2 DEF EnterRegion
        <5> QED
          BY <2>0, <3>2, <5>1 DEF HeightsOK
      <4> QED
        BY <4>1, <4>2
    <3>5. ASSUME NEW p \in Params, NEW i \in 1..Len(calls'[Master])
          PROVE  calls'[Master][i].height[p] <= i - 1
      <4>1. CASE i \in 1..Len(c)
        BY <3>3, <4>1 DEF HeightsOK
      <4>2. CASE i = Len(c) + 1
        <5>1. calls'[Master][i].height[p] = Len(stack[p])
          BY <3>3, <4>2 DEF Frame
        <5> QED
          BY <2>0, <4>2, <5>1 DEF HeightsOK
      <4> QED
        BY <2>0, <3>3, <4>1, <4>2
    <3> QED
      BY <3>3, <3>4, <3>5 DEF HeightsOK
  <2>4. ASSUME NEW t \in Threads, ExitRegion(t) PROVE HeightsOK'
    <3> DEFINE r == Last(c).region
    <3>0. t = Master /\ c # <<>> /\ UNCHANGED <<table, mapped, restore>>
      BY <2>4 DEF ExitRegion, MayExit, paramVars
    <3>1. \A p \in Restored(r) : stack[p] # <<>>
      BY <2>0, <3>0, TopFrame DEF SubstrateInv, Restored, Tuned
    <3>2. PopAll(r) /\ calls'[Master] = Front(c)
      BY <2>0, <2>4, <3>0, <3>1 DEF ExitRegion, TypeOK
    <3>3. /\ Len(calls'[Master]) = Len(c) - 1 /\ Len(c) \in Nat \ {0}
          /\ \A i \in 1..(Len(c) - 1) : calls'[Master][i] = c[i]
          /\ Last(c) = c[Len(c)] /\ Last(c) \in FrameSet
      BY <2>0, <3>0, <3>2, FrontFacts DEF Last
    <3>4. ASSUME NEW p \in Params
          PROVE  /\ ~(mapped'[p] /\ restore'[p]) => stack'[p] = <<>>
                 /\ Len(stack'[p]) <= Len(c) - 1
      <4>1. CASE p \in Restored(r)
        <5>1. stack'[p] = Front(stack[p])
          BY <3>2, <4>1 DEF PopAll
        <5>2. Len(stack'[p]) = Len(stack[p]) - 1
          BY <2>0, <3>1, <4>1, <5>1, FrontFacts
        <5>3. mapped[p] /\ restore[p]
          BY <4>1 DEF Restored, Tuned
        <5> QED
          BY <2>0, <3>0, <5>2, <5>3 DEF HeightsOK
      <4>2. CASE p \notin Restored(r) /\ mapped[p] /\ restore[p]
        <5>1. stack'[p] = stack[p]
          BY <3>2, <4>2 DEF PopAll
        <5>2. ~Saves(Last(c), p)
          BY <4>2 DEF Saves, Restored, Tuned
        <5>3. Len(stack[p]) = c[Len(c)].height[p] + 0
          BY <3>3, <4>2, <5>2 DEF SubstrateInv, FramesFit, OnTop, Above
        <5>4. c[Len(c)].height[p] <= Len(c) - 1 /\ c[Len(c)].height[p] \in Nat
          BY <3>3 DEF HeightsOK, FrameSet
        <5> QED
          BY <3>0, <4>2, <5>1, <5>3, <5>4
      <4>3. CASE p \notin Restored(r) /\ ~(mapped[p] /\ restore[p])
        <5>1. stack'[p] = <<>>
          BY <3>2, <4>3 DEF PopAll, HeightsOK
        <5> QED
          BY <3>3, <5>1
      <4> QED
        BY <4>1, <4>2, <4>3
    <3>5. ASSUME NEW p \in Params, NEW i \in 1..Len(calls'[Master])
          PROVE  calls'[Master][i].height[p] <= i - 1
      <4>1. i \in 1..(Len(c) - 1) /\ i \in 1..Len(c)
        BY <3>3
      <4> QED
        BY <3>3, <4>1 DEF HeightsOK
    <3> QED
      BY <3>3, <3>4, <3>5 DEF HeightsOK
  <2>5. CASE UNCHANGED vars
    BY <2>5 DEF vars, paramVars, HeightsOK
  <2> QED
    BY <2>1, <2>2, <2>3, <2>4, <2>5 DEF Next
<1> QED
  BY <1>1, <1>2, SubstrateInvariant, PTL DEF Spec

\* Under the same conditions a restore stack never holds more values than there are
\* regions being executed: push2Stack does not grow it from one phase to the next.
THEOREM StacksStaySmall ==
    ASSUME Threads = {Master}, MapInside = FALSE
    PROVE  Spec => []StackBounded
<1>1. TypeOK /\ HeightsOK => StackBounded
  BY RegionsOfMaster DEF HeightsOK, StackBounded
<1> QED
  BY <1>1, HeightsInvariant, TypeCorrect, PTL
=============================================================================
