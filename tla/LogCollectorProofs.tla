--------------------------- MODULE LogCollectorProofs ---------------------------
(****************************************************************************)
(* Two facts about LogCollector for any number of users, services and       *)
(* background threads: its types, and that the known indices never move     *)
(* past an entry nobody has.  The second holds however many collections run *)
(* at once, as long as nobody calls clear() meanwhile.                      *)
(****************************************************************************)
EXTENDS LogCollector, SequenceTheorems, TLAPS

TypeInv == TypeOK /\ ReadsLines

USE UsersAssumption, ServicesAssumption, CollectorBoundAssumption, FiltersAssumption

----------------------------------------------------------------------------
(* Types                                                                    *)

LEMMA EntryType ==
  ASSUME TypeInv, NEW s \in Services, NEW i \in Nat, i < Len(lines[s])
  PROVE  Entry(s, i) \in Entries
<1>1. lines[s] \in Seq(Layers) /\ Len(lines[s]) \in Nat /\ Len(lines[s]) <= MaxLines
  BY DEF TypeInv, TypeOK, CollectorTypes
<1>2. i + 1 \in 1..Len(lines[s]) /\ i \in 0..MaxLines
  BY <1>1
<1>3. lines[s][i + 1] \in Layers
  BY <1>1, <1>2, ElementOfSeq
<1> QED
  BY <1>2, <1>3 DEF Entry, Entries

LEMMA InitTypes == Init => TypeInv
<1> SUFFICES ASSUME Init PROVE TypeInv
  OBVIOUS
<1>1. CollectorTypes /\ \A s \in Services : Len(lines[s]) <= MaxLines /\ indices[s] <= Len(lines[s])
  <2>1. << >> \in Seq(Layers) /\ Len(<< >>) = 0 /\ << >> \in Seq(Entries)
    BY EmptySeq
  <2>2. \A s \in Services : lines[s] = << >> /\ indices[s] = 0
    BY DEF Init
  <2>3. \A s \in Services : Len(lines[s]) <= MaxLines /\ indices[s] <= Len(lines[s])
    BY <2>1, <2>2
  <2>4. CollectorTypes
    <3>1. /\ lines = [s \in Services |-> << >>] /\ logs = << >>
          /\ indices = [s \in Services |-> 0]
          /\ stop = FALSE /\ thread = 0 /\ spawned = 0
      BY DEF Init
    <3>2. 0 \in 0..MaxLines /\ 0 \in 0..MaxLoops
      OBVIOUS
    <3> QED
      BY <2>1, <3>1, <3>2 DEF CollectorTypes
  <2> QED
    BY <2>3, <2>4
<1>2. PassTypes
  <2>1. << >> \in Seq(Entries)
    BY EmptySeq
  <2> QED
    BY <2>1 DEF Init, PassTypes, Labels
<1>3. ReadsLines
  BY DEF Init, ReadsLines
<1> QED
  BY <1>1, <1>2, <1>3 DEF TypeInv, TypeOK

LEMMA WriteTypes ==
  ASSUME TypeInv, NEW s \in Services, NEW l \in Layers, Write(s, l)
  PROVE  TypeInv'
<1> USE DEF Write, collectorVars, passVars
<1>1. lines[s] \in Seq(Layers) /\ Len(lines[s]) \in Nat
  BY DEF TypeInv, TypeOK, CollectorTypes
<1>2. Append(lines[s], l) \in Seq(Layers) /\ Len(Append(lines[s], l)) = Len(lines[s]) + 1
  BY <1>1, AppendProperties
<1>3. CollectorTypes'
  BY <1>2 DEF TypeInv, TypeOK, CollectorTypes
<1>4. \A r \in Services : /\ Len(lines[r]) \in Nat /\ Len(lines'[r]) \in Nat
                          /\ Len(lines[r]) <= Len(lines'[r])
                          /\ Len(lines'[r]) <= MaxLines
  BY <1>1, <1>2 DEF TypeInv, TypeOK, CollectorTypes
<1>5. TypeOK'
  BY <1>3, <1>4 DEF TypeInv, TypeOK, PassTypes, CollectorTypes
<1>6. ReadsLines'
  BY <1>4 DEF TypeInv, TypeOK, PassTypes, ReadsLines
<1> QED
  BY <1>5, <1>6 DEF TypeInv

LEMMA PassStepTypes ==
  ASSUME TypeInv, NEW t \in Threads, Pass(t)
  PROVE  TypeInv'
<1> USE DEF Goto, collectorVars, passVars
<1>1. ASSUME NEW s \in Services, Ask(t, s) PROVE TypeInv'
  BY <1>1 DEF Ask, TypeInv, TypeOK, CollectorTypes, PassTypes, ReadsLines, Labels
<1>2. CASE Answered(t)
  <2>1. service[t] \in Services
    BY DEF TypeInv, TypeOK, PassTypes
  <2>2. Len(lines[service[t]]) \in 0..MaxLines
    BY <2>1 DEF TypeInv, TypeOK, CollectorTypes
  <2> QED
    BY <1>2, <2>1, <2>2 DEF Answered, TypeInv, TypeOK, CollectorTypes, PassTypes, ReadsLines, Labels
<1>3. CASE Leave(t)
  BY <1>3 DEF Leave, TypeInv, TypeOK, CollectorTypes, PassTypes, ReadsLines, Labels
<1>4. CASE TakeEntry(t)
  <2>1. /\ service[t] \in Services /\ at[t] \in Nat /\ end[t] \in Nat
        /\ Len(lines[service[t]]) \in Nat /\ new[t] \in Seq(Entries)
    BY DEF TypeInv, TypeOK, PassTypes, CollectorTypes
  <2>2. at[t] < end[t] /\ end[t] <= Len(lines[service[t]]) /\ end[t] <= MaxLines
    BY <1>4 DEF TakeEntry, TypeInv, TypeOK, PassTypes, ReadsLines
  <2>9. at[t] + 1 \in 0..MaxLines
    BY <2>1, <2>2
  <2>3. Entry(service[t], at[t]) \in Entries
    BY <2>1, <2>2, EntryType
  <2>4. Append(new[t], Entry(service[t], at[t])) \in Seq(Entries)
    BY <2>1, <2>3, AppendProperties
  <2>5. new' \in [Threads -> Seq(Entries)]
    BY <1>4, <2>1, <2>4 DEF TakeEntry, TypeInv, TypeOK, PassTypes
  <2>6. pc' \in [Threads -> Labels] /\ at' \in [Threads -> 0..MaxLines]
    <3>1. pc \in [Threads -> Labels] /\ at \in [Threads -> 0..MaxLines]
      BY DEF TypeInv, TypeOK, PassTypes
    <3>2. \/ pc' = [pc EXCEPT ![t] = "advancing"] /\ at' = at
          \/ pc' = pc /\ at' = [at EXCEPT ![t] = @ + 1]
      BY <1>4 DEF TakeEntry
    <3> QED
      BY <3>1, <3>2, <2>9 DEF Labels
  <2>7. TypeOK'
    BY <1>4, <2>5, <2>6 DEF TakeEntry, TypeInv, TypeOK, PassTypes, CollectorTypes
  <2>8. ReadsLines'
    BY <1>4, <2>2 DEF TakeEntry, TypeInv, TypeOK, PassTypes, ReadsLines
  <2> QED
    BY <2>7, <2>8 DEF TypeInv
<1>5. CASE Advance(t)
  <2>1. /\ service[t] \in Services /\ at[t] \in Nat /\ end[t] \in Nat
        /\ Len(lines[service[t]]) \in Nat /\ end[t] <= MaxLines
    BY DEF TypeInv, TypeOK, PassTypes, CollectorTypes
  <2>2. at[t] < end[t] /\ end[t] <= Len(lines[service[t]])
    BY <1>5 DEF Advance, TypeInv, ReadsLines
  <2>3. at[t] + 1 \in 0..MaxLines /\ at[t] + 1 <= Len(lines[service[t]])
    BY <2>1, <2>2
  <2> QED
    BY <1>5, <2>1, <2>2, <2>3
    DEF Advance, TypeInv, TypeOK, CollectorTypes, PassTypes, ReadsLines, Labels
<1>6. CASE Store(t)
  <2>1. logs \o new[t] \in Seq(Entries) /\ << >> \in Seq(Entries)
    BY ConcatProperties, EmptySeq DEF TypeInv, TypeOK, CollectorTypes, PassTypes
  <2> QED
    BY <1>6, <2>1 DEF Store, TypeInv, TypeOK, CollectorTypes, PassTypes, ReadsLines, Labels
<1> QED
  BY <1>1, <1>2, <1>3, <1>4, <1>5, <1>6 DEF Pass, Failed, ParseFails, AnswerRead

LEMMA LoopTypes ==
  ASSUME TypeInv, NEW l \in Loops, LoopTest(l) \/ LoopWakes(l)
  PROVE  TypeInv'
<1> USE DEF Goto, collectorVars, passVars, Threads
<1>1. CASE LoopTest(l)
  BY <1>1 DEF LoopTest, StartPass, TypeInv, TypeOK, CollectorTypes, PassTypes, ReadsLines, Labels
<1>2. CASE LoopWakes(l)
  BY <1>2 DEF LoopWakes, TypeInv, TypeOK, CollectorTypes, PassTypes, ReadsLines, Labels
<1> QED
  BY <1>1, <1>2

LEMMA MethodTypes ==
  ASSUME TypeInv, NEW u \in Users, Method(u) \/ Call(u)
  PROVE  TypeInv'
<1> USE DEF Goto, collectorVars, passVars, Threads
<1>1. CASE ClearStopEvent(u)
  BY <1>1 DEF ClearStopEvent, TypeInv, TypeOK, CollectorTypes, PassTypes, ReadsLines, Labels
<1>2. CASE Spawn(u)
  <2>1. spawned' \in Loops /\ spawned' \in 0..MaxLoops
    BY <1>2 DEF Spawn, Loops, TypeInv, TypeOK, CollectorTypes
  <2>2. pc' \in [Threads -> Labels]
    BY <1>2, <2>1 DEF Spawn, TypeInv, TypeOK, PassTypes, Labels
  <2>3. ReadsLines'
    BY <1>2, <2>1 DEF Spawn, TypeInv, TypeOK, PassTypes, ReadsLines
  <2> QED
    BY <1>2, <2>1, <2>2, <2>3 DEF Spawn, TypeInv, TypeOK, CollectorTypes, PassTypes
<1>3. CASE Join(u)
  BY <1>3 DEF Join, TypeInv, TypeOK, CollectorTypes, PassTypes, ReadsLines, Labels
<1>4. ASSUME NEW services \in SUBSET Services, NEW layers \in Filters,
             CollectOnce(u, services, layers)
      PROVE  TypeInv'
  BY <1>4
  DEF CollectOnce, StartPass, TypeInv, TypeOK, CollectorTypes, PassTypes, ReadsLines, Labels
<1>5. CASE StartContinuous(u)
  BY <1>5 DEF StartContinuous, TypeInv, TypeOK, CollectorTypes, PassTypes, ReadsLines, Labels
<1>6. CASE StopContinuous(u)
  BY <1>6 DEF StopContinuous, TypeInv, TypeOK, CollectorTypes, PassTypes, ReadsLines, Labels
<1>7. CASE Clear(u)
  <2>1. << >> \in Seq(Entries)
    BY EmptySeq
  <2>2. \A s \in Services : Len(lines[s]) \in Nat
    BY DEF TypeInv, TypeOK, CollectorTypes
  <2> QED
    BY <1>7, <2>1, <2>2 DEF Clear, TypeInv, TypeOK, CollectorTypes, PassTypes, ReadsLines, Labels
<1> QED
  BY <1>1, <1>2, <1>3, <1>4, <1>5, <1>6, <1>7 DEF Method, Call

LEMMA NextTypes == TypeInv /\ [Next]_vars => TypeInv'
<1> SUFFICES ASSUME TypeInv, [Next]_vars PROVE TypeInv'
  OBVIOUS
<1>1. CASE UNCHANGED vars
  BY <1>1 DEF vars, collectorVars, passVars, TypeInv, TypeOK, CollectorTypes, PassTypes, ReadsLines
<1> QED
  BY <1>1, WriteTypes, PassStepTypes, LoopTypes, MethodTypes DEF Next

\* Every value the collector and its threads hold is of its type, no index is past
\* the lines it counts, and what a thread reads is in the log of the service.
THEOREM CollectorTypeCorrect == Spec => []TypeOK
<1>1. TypeInv => TypeOK
  BY DEF TypeInv
<1> QED
  BY <1>1, InitTypes, NextTypes, PTL DEF Spec

----------------------------------------------------------------------------
(* Nothing is skipped                                                       *)

\* Before(t) matters while t is in the answer of a service.
Inside(t) == pc[t] \in {"asking", "reading", "advancing"}

NobodyClears == \A u \in Users : ~Clear(u)

\* What the logs and the threads hold, they hold after any step but clear().
LEMMA HeldStays ==
  ASSUME TypeInv, [Next]_vars, NobodyClears,
         NEW e \in Entries,
         Holds(logs, e) \/ \E t \in Threads : Holds(new[t], e)
  PROVE  (Holds(logs, e) \/ \E t \in Threads : Holds(new[t], e))'
<1>1. CASE UNCHANGED <<logs, new>>
  BY <1>1 DEF Holds
<1>2. ASSUME NEW t \in Threads, TakeEntry(t)
      PROVE  (Holds(logs, e) \/ \E u \in Threads : Holds(new[u], e))'
  <2>1. new[t] \in Seq(Entries)
    BY DEF TypeInv, TypeOK, PassTypes
  <2> DEFINE f == Entry(service[t], at[t])
  <2>2. Holds(new[t], e) => Holds(Append(new[t], f), e)
    <3>1. ASSUME NEW k \in DOMAIN new[t], new[t][k] = e
          PROVE  k \in DOMAIN Append(new[t], f) /\ Append(new[t], f)[k] = e
      <4> HIDE DEF f
      <4> QED
        BY <2>1, <3>1
    <3> QED
      BY <3>1 DEF Holds
  <2>3. /\ logs' = logs
        /\ new' = [new EXCEPT ![t] = Append(@, f)] \/ new' = new
    <3>1. new \in [Threads -> Seq(Entries)]
      BY DEF TypeInv, TypeOK, PassTypes
    <3>2. new' = [new EXCEPT ![t] = IF f.layer \in wanted[t] THEN Append(@, f) ELSE @]
      BY <1>2 DEF TakeEntry
    <3>3. new = [new EXCEPT ![t] = @]
      BY <3>1
    <3>4. logs' = logs
      BY <1>2 DEF TakeEntry, collectorVars
    <3> QED
      BY <3>2, <3>3, <3>4
  <2>4. Holds(logs, e) => Holds(logs, e)'
    BY <2>3 DEF Holds
  <2>5. \A u \in Threads : Holds(new[u], e) => Holds(new'[u], e)
    BY <2>2, <2>3 DEF TypeInv, TypeOK, PassTypes
  <2> QED
    BY <2>4, <2>5 DEF Holds
<1>3. ASSUME NEW t \in Threads, Store(t)
      PROVE  (Holds(logs, e) \/ \E u \in Threads : Holds(new[u], e))'
  <2>1. logs \in Seq(Entries) /\ new[t] \in Seq(Entries)
    BY DEF TypeInv, TypeOK, PassTypes, CollectorTypes
  <2>2. Holds(logs, e) => Holds(logs \o new[t], e)
    <3>1. ASSUME NEW k \in DOMAIN logs, logs[k] = e
          PROVE  k \in DOMAIN (logs \o new[t]) /\ (logs \o new[t])[k] = e
      BY <2>1, <3>1
    <3> QED
      BY <3>1 DEF Holds
  <2>3. Holds(new[t], e) => Holds(logs \o new[t], e)
    <3>1. ASSUME NEW k \in DOMAIN new[t], new[t][k] = e
          PROVE  /\ Len(logs) + k \in DOMAIN (logs \o new[t])
                 /\ (logs \o new[t])[Len(logs) + k] = e
      BY <2>1, <3>1
    <3> QED
      BY <3>1 DEF Holds
  <2>4. logs' = logs \o new[t] /\ \A u \in Threads \ {t} : new'[u] = new[u]
    BY <1>3 DEF Store, TypeInv, TypeOK, PassTypes
  <2> QED
    BY <2>2, <2>3, <2>4 DEF Holds
<1>4. CASE \E t \in Threads : Pass(t)
  BY <1>1, <1>2, <1>3, <1>4
  DEF Pass, Ask, Answered, Failed, ParseFails, AnswerRead, Leave, Advance, collectorVars
<1>5. CASE \E l \in Loops : LoopTest(l) \/ LoopWakes(l)
  BY <1>1, <1>5 DEF LoopTest, LoopWakes, StartPass, collectorVars, passVars
<1>6. CASE \E u \in Users : Method(u) \/ Call(u)
  BY <1>1, <1>6
  DEF Method, Call, ClearStopEvent, Spawn, Join, CollectOnce, StartPass, StartContinuous,
      StopContinuous, NobodyClears, collectorVars, passVars
<1>7. CASE UNCHANGED vars \/ \E s \in Services, l \in Layers : Write(s, l)
  BY <1>1, <1>7 DEF Write, vars, collectorVars, passVars
<1> QED
  BY <1>4, <1>5, <1>6, <1>7 DEF Next

\* The lines there are never change.
LEMMA LinesStay ==
  ASSUME TypeInv, [Next]_vars, NEW s \in Services, NEW i \in Nat, i < Len(lines[s])
  PROVE  lines'[s][i + 1] = lines[s][i + 1]
<1>1. CASE UNCHANGED lines
  BY <1>1
<1>2. ASSUME NEW r \in Services, NEW l \in Layers, Write(r, l)
      PROVE  lines'[s][i + 1] = lines[s][i + 1]
  <2>1. lines[s] \in Seq(Layers)
    BY DEF TypeInv, TypeOK, CollectorTypes
  <2>2. lines'[s] \in {lines[s], Append(lines[s], l)}
    BY <1>2 DEF Write, TypeInv, TypeOK, CollectorTypes
  <2> QED
    BY <2>1, <2>2, AppendProperties
<1>3. CASE \E t \in Threads : Pass(t)
  BY <1>1, <1>3
  DEF Pass, Ask, Answered, TakeEntry, Failed, ParseFails, AnswerRead, Leave, Advance, Store
<1>4. CASE \E l \in Loops : LoopTest(l) \/ LoopWakes(l)
  BY <1>1, <1>4 DEF LoopTest, LoopWakes, StartPass
<1>5. CASE \E u \in Users : Method(u) \/ Call(u)
  BY <1>1, <1>5
  DEF Method, Call, ClearStopEvent, Spawn, Join, CollectOnce, StartPass, StartContinuous,
      StopContinuous, Clear
<1> QED
  BY <1>1, <1>2, <1>3, <1>4, <1>5 DEF Next, vars

LEMMA KeptStays ==
  ASSUME TypeInv, [Next]_vars, NobodyClears,
         NEW s \in Services, NEW i \in Nat, i < Len(lines[s]), Kept(s, i)
  PROVE  Kept(s, i)'
<1>1. Entry(s, i)' = Entry(s, i) /\ lines'[s][i + 1] = lines[s][i + 1]
  BY LinesStay DEF Entry
<1>2. Entry(s, i) \in Entries
  BY EntryType
<1>3. CASE Holds(logs, Entry(s, i)) \/ \E t \in Threads : Holds(new[t], Entry(s, i))
  <2> DEFINE e == Entry(s, i)
  <2>1. (Holds(logs, e) \/ \E t \in Threads : Holds(new[t], e))'
         <=> Holds(logs', e') \/ \E t \in Threads : Holds(new'[t], e')
    BY DEF Holds
  <2>2. PICK f \in Entries : f = e
    BY <1>2
  <2>3. Holds(logs, f) \/ \E t \in Threads : Holds(new[t], f)
    BY <1>3, <2>2
  <2>4. Holds(logs', f) \/ \E t \in Threads : Holds(new'[t], f)
    BY <2>3, HeldStays DEF Holds
  <2> QED
    BY <1>1, <2>2, <2>4 DEF Kept, WantedByAll, Holds
<1>4. CASE ~WantedByAll(s, i)
  BY <1>1, <1>4 DEF Kept, WantedByAll
<1> QED
  BY <1>3, <1>4 DEF Kept

NSInv == TypeInv /\ NothingSkippedInv

LEMMA InitSkipsNothing == Init => NothingSkippedInv
<1> SUFFICES ASSUME Init PROVE NothingSkippedInv
  OBVIOUS
<1>1. \A s \in Services : 0..(indices[s] - 1) = {}
  BY DEF Init
<1>2. NothingSkipped
  BY <1>1 DEF NothingSkipped
<1>3. \A t \in Threads : pc[t] \in {"idle", "unborn"} /\ wanted[t] = Layers
  BY DEF Init
<1> QED
  BY <1>2, <1>3 DEF NothingSkippedInv

LEMMA IndicesStay ==
  ASSUME NSInv, [Next]_vars, NobodyClears,
         NEW s \in Services, indices'[s] = indices[s]
  PROVE  \A i \in 0..(indices'[s] - 1) : Kept(s, i)'
<1> SUFFICES ASSUME NEW i \in 0..(indices'[s] - 1) PROVE Kept(s, i)'
  OBVIOUS
<1>1. /\ indices[s] \in Nat /\ Len(lines[s]) \in Nat
      /\ indices[s] <= Len(lines[s])
  BY DEF NSInv, TypeInv, TypeOK, CollectorTypes
<1>2. i \in Nat /\ i < Len(lines[s]) /\ i \in 0..(indices[s] - 1)
  BY <1>1
<1>3. Kept(s, i)
  BY <1>2 DEF NSInv, NothingSkippedInv, NothingSkipped
<1> QED
  BY <1>2, <1>3, KeptStays DEF NSInv

\* What a thread has dealt with stays dealt with.
LEMMA BeforeStays ==
  ASSUME NSInv, [Next]_vars, NobodyClears,
         NEW u \in Threads, Inside(u), service'[u] = service[u],
         NEW i \in 0..(Before(u) - 1)
  PROVE  Kept(service[u], i)'
<1>1. Kept(service[u], i)
  BY DEF NSInv, NothingSkippedInv, Inside
<1>2. /\ service[u] \in Services /\ at[u] \in Nat /\ end[u] \in Nat
      /\ Len(lines[service[u]]) \in Nat
  BY DEF NSInv, TypeInv, TypeOK, PassTypes, CollectorTypes
<1>3. Before(u) <= Len(lines[service[u]]) /\ Before(u) \in Nat
  BY <1>2 DEF Before, Inside, NSInv, TypeInv, ReadsLines
<1>4. i \in Nat /\ i < Len(lines[service[u]])
  BY <1>3
<1>5. PICK s \in Services : s = service[u]
  BY <1>2
<1>6. Kept(s, i)'
  BY <1>1, <1>4, <1>5, KeptStays DEF NSInv
<1> QED
  BY <1>5, <1>6 DEF Kept, WantedByAll, Entry

Stays(u) == Inside(u)' => Inside(u) /\ service'[u] = service[u] /\ Before(u)' = Before(u)

\* A step that moves no index, and no thread within an answer.
LEMMA NothingMoves ==
  ASSUME NSInv, [Next]_vars, NobodyClears,
         UNCHANGED indices, \A u \in Threads : Stays(u),
         \A u \in Threads : wanted'[u] \in Filters \cup {Layers}
  PROVE  NothingSkippedInv'
<1>1. NothingSkipped'
  BY IndicesStay DEF NothingSkipped
<1>2. ASSUME NEW u \in Threads, Inside(u)', NEW i \in 0..(Before(u) - 1)'
      PROVE  Kept(service[u], i)'
  <2>1. Inside(u) /\ service'[u] = service[u] /\ i \in 0..(Before(u) - 1)
    BY <1>2 DEF Stays
  <2> QED
    BY <2>1, BeforeStays
<1> QED
  BY <1>1, <1>2 DEF NothingSkippedInv, Inside

LEMMA AskSkipsNothing ==
  ASSUME NSInv, NobodyClears, NEW t \in Threads, NEW s \in Services, Ask(t, s)
  PROVE  NothingSkippedInv'
<1> USE DEF Ask, Goto, collectorVars
<1>1. [Next]_vars
  BY DEF Next, Pass
<1>2. \A r \in Services : \A i \in 0..(indices'[r] - 1) : Kept(r, i)'
  BY <1>1, IndicesStay
<1>3. \A u \in Threads \ {t} : Stays(u)
  BY DEF Stays, Inside, Before, NSInv, TypeInv, TypeOK, PassTypes
<1>4. service'[t] = s /\ Before(t)' = indices'[s]
  BY DEF Before, NSInv, TypeInv, TypeOK, PassTypes
<1>5. \A i \in 0..(Before(t)' - 1) : Kept(s, i)'
  BY <1>2, <1>4
<1>6. ASSUME NEW u \in Threads, Inside(u)', NEW i \in 0..(Before(u) - 1)'
      PROVE  Kept(service[u], i)'
  <2>1. CASE u = t
    BY <1>4, <1>5, <1>6, <2>1 DEF Kept, WantedByAll, Entry
  <2>2. CASE u # t
    <3>1. Inside(u) /\ service'[u] = service[u] /\ i \in 0..(Before(u) - 1)
      BY <1>3, <1>6, <2>2 DEF Stays
    <3> QED
      BY <1>1, <3>1, BeforeStays
  <2> QED
    BY <2>1, <2>2
<1>7. \A u \in Threads : wanted'[u] \in Filters \cup {Layers}
  BY DEF NSInv, NothingSkippedInv
<1> QED
  BY <1>2, <1>6, <1>7 DEF NothingSkippedInv, NothingSkipped, Inside

LEMMA TakeEntrySkipsNothing ==
  ASSUME NSInv, NobodyClears, NEW t \in Threads, TakeEntry(t)
  PROVE  NothingSkippedInv'
<1> USE DEF TakeEntry, Goto, collectorVars
<1>1. [Next]_vars
  BY DEF Next, Pass
<1>2. NothingSkipped'
  BY <1>1, IndicesStay DEF NothingSkipped
<1>3. \A u \in Threads \ {t} : Stays(u)
  BY DEF Stays, Inside, Before, NSInv, TypeInv, TypeOK, PassTypes
<1>4. /\ service'[t] = service[t] /\ Inside(t) /\ at[t] \in Nat /\ end[t] \in Nat
      /\ Before(t) = at[t] /\ Before(t)' = at[t] + 1
  BY DEF Before, Inside, NSInv, TypeInv, TypeOK, PassTypes
<1>5. ASSUME NEW r \in Services, r = service[t], NEW j \in Nat, j = at[t]
      PROVE  Kept(r, j)'
  <2> DEFINE e == Entry(r, j)
  <2>1. /\ new[t] \in Seq(Entries) /\ Len(lines[r]) \in Nat
        /\ wanted[t] \in Filters \cup {Layers}
    BY DEF NSInv, TypeInv, TypeOK, PassTypes, CollectorTypes, NothingSkippedInv
  <2>2. j < Len(lines[r])
    BY <1>4, <1>5, <2>1 DEF NSInv, TypeInv, ReadsLines
  <2>3. e \in Entries /\ e.layer = lines[r][j + 1] /\ e.layer \in Layers
    BY <2>2, EntryType DEF NSInv, Entry, Entries
  <2>4. new'[t] = IF e.layer \in wanted[t] THEN Append(new[t], e) ELSE new[t]
    BY <1>5 DEF NSInv, TypeInv, TypeOK, PassTypes
  <2>5. e' = e /\ lines' = lines
    BY DEF Entry
  <2>6. CASE e.layer \in wanted[t]
    <3>1. new'[t] = Append(new[t], e)
      BY <2>4, <2>6
    <3>2. /\ Len(new[t]) + 1 \in DOMAIN Append(new[t], e)
          /\ Append(new[t], e)[Len(new[t]) + 1] = e
      <4> HIDE DEF e
      <4> QED
        BY <2>1, <2>3, AppendProperties
    <3>3. Holds(new'[t], e')
      BY <2>5, <3>1, <3>2 DEF Holds
    <3> QED
      BY <3>3 DEF Kept, WantedByAll, Holds
  <2>7. CASE e.layer \notin wanted[t]
    <3>1. ~ \A f \in Filters : lines'[r][j + 1] \in f
      BY <2>1, <2>3, <2>5, <2>7
    <3> QED
      BY <3>1 DEF Kept, WantedByAll
  <2> QED
    BY <2>6, <2>7
<1>6. ASSUME NEW u \in Threads, Inside(u)', NEW i \in 0..(Before(u) - 1)'
      PROVE  Kept(service[u], i)'
  <2>1. CASE u = t
    <3>1. i \in Nat /\ (i = at[t] \/ i \in 0..(Before(t) - 1))
      BY <1>4, <1>6, <2>1
    <3>2. PICK r \in Services : r = service[t] /\ r = service'[t]
      BY <1>4 DEF NSInv, TypeInv, TypeOK, PassTypes
    <3>3. CASE i = at[t]
      <4>1. Kept(r, i)'
        BY <1>5, <3>1, <3>2, <3>3
      <4> QED
        BY <2>1, <3>2, <4>1 DEF Kept, WantedByAll, Entry
    <3>4. CASE i \in 0..(Before(t) - 1)
      BY <1>1, <1>4, <2>1, <3>4, BeforeStays
    <3> QED
      BY <3>1, <3>3, <3>4
  <2>2. CASE u # t
    <3>1. Inside(u) /\ service'[u] = service[u] /\ i \in 0..(Before(u) - 1)
      BY <1>3, <1>6, <2>2 DEF Stays
    <3> QED
      BY <1>1, <3>1, BeforeStays
  <2> QED
    BY <2>1, <2>2
<1>7. \A u \in Threads : wanted'[u] \in Filters \cup {Layers}
  BY DEF NSInv, NothingSkippedInv
<1> QED
  BY <1>2, <1>6, <1>7 DEF NothingSkippedInv, Inside

LEMMA AdvanceSkipsNothing ==
  ASSUME NSInv, NobodyClears, NEW t \in Threads, Advance(t)
  PROVE  NothingSkippedInv'
<1> USE DEF Advance, Goto
<1>1. [Next]_vars
  BY DEF Next, Pass
<1>2. /\ Inside(t) /\ service'[t] = service[t] /\ service[t] \in Services
      /\ at[t] \in Nat /\ Before(t) = at[t] + 1
  BY DEF Before, Inside, NSInv, TypeInv, TypeOK, PassTypes
<1>3. \A u \in Threads : Stays(u)
  BY DEF Stays, Inside, Before, NSInv, TypeInv, TypeOK, PassTypes
<1>4. ASSUME NEW s \in Services, NEW i \in 0..(indices'[s] - 1)
      PROVE  Kept(s, i)'
  <2>1. CASE s = service[t]
    <3>1. indices'[s] = Before(t)
      BY <1>2, <2>1 DEF NSInv, TypeInv, TypeOK, CollectorTypes
    <3>2. Kept(service[t], i)'
      BY <1>1, <1>2, <3>1, BeforeStays
    <3> QED
      BY <1>2, <2>1, <3>2 DEF Kept, WantedByAll, Entry
  <2>2. CASE s # service[t]
    <3>1. indices'[s] = indices[s]
      BY <2>2 DEF NSInv, TypeInv, TypeOK, CollectorTypes
    <3> QED
      BY <1>1, <3>1, IndicesStay
  <2> QED
    BY <2>1, <2>2
<1>5. ASSUME NEW u \in Threads, Inside(u)', NEW i \in 0..(Before(u) - 1)'
      PROVE  Kept(service[u], i)'
  <2>1. Inside(u) /\ service'[u] = service[u] /\ i \in 0..(Before(u) - 1)
    BY <1>3, <1>5 DEF Stays
  <2> QED
    BY <1>1, <2>1, BeforeStays
<1>6. \A u \in Threads : wanted'[u] \in Filters \cup {Layers}
  BY DEF NSInv, NothingSkippedInv
<1> QED
  BY <1>4, <1>5, <1>6 DEF NothingSkippedInv, NothingSkipped, Inside

\* The other steps move no index.
LEMMA PassSkipsNothing ==
  ASSUME NSInv, NobodyClears, NEW t \in Threads, Pass(t)
  PROVE  NothingSkippedInv'
<1>1. [Next]_vars
  BY DEF Next
<1>2. CASE Answered(t)
  <2>1. \A u \in Threads : Stays(u)
    BY <1>2 DEF Answered, Goto, Stays, Inside, Before, NSInv, TypeInv, TypeOK, PassTypes
  <2> QED
    BY <1>1, <1>2, <2>1, NothingMoves DEF Answered, collectorVars, NSInv, NothingSkippedInv
<1>3. CASE Leave(t)
  <2>1. \A u \in Threads : Stays(u)
    BY <1>3 DEF Leave, Goto, Stays, Inside, Before, NSInv, TypeInv, TypeOK, PassTypes
  <2> QED
    BY <1>1, <1>3, <2>1, NothingMoves DEF Leave, collectorVars, NSInv, NothingSkippedInv
<1>4. CASE Store(t)
  <2>1. \A u \in Threads : Stays(u)
    BY <1>4 DEF Store, Goto, Stays, Inside, Before, NSInv, TypeInv, TypeOK, PassTypes
  <2>2. \A u \in Threads : wanted'[u] \in Filters \cup {Layers}
    BY <1>4 DEF Store, NSInv, NothingSkippedInv, TypeInv, TypeOK, PassTypes
  <2> QED
    BY <1>1, <1>4, <2>1, <2>2, NothingMoves DEF Store
<1> QED
  BY <1>2, <1>3, <1>4, AskSkipsNothing, TakeEntrySkipsNothing, AdvanceSkipsNothing
  DEF Pass, Failed, ParseFails, AnswerRead

LEMMA StartPassSkipsNothing ==
  ASSUME NSInv, [Next]_vars, NobodyClears, NEW t \in Threads,
         NEW services, NEW layers \in Filters \cup {Layers},
         StartPass(t, services, layers)
  PROVE  NothingSkippedInv'
<1>1. \A u \in Threads : Stays(u)
  BY DEF StartPass, Goto, Stays, Inside, Before, NSInv, TypeInv, TypeOK, PassTypes
<1>2. \A u \in Threads : wanted'[u] \in Filters \cup {Layers}
  BY DEF StartPass, NSInv, NothingSkippedInv, TypeInv, TypeOK, PassTypes
<1> QED
  BY <1>1, <1>2, NothingMoves DEF StartPass, collectorVars

\* clear() sets every index back to 0, and no thread is inside an answer.
LEMMA ClearSkipsNothing ==
  ASSUME NSInv, \A t \in Threads : ~InPass(t), NEW u \in Users, Clear(u)
  PROVE  NothingSkippedInv'
<1>1. \A s \in Services : indices'[s] = 0 /\ 0..(indices'[s] - 1) = {}
  BY DEF Clear
<1>2. NothingSkipped'
  BY <1>1 DEF NothingSkipped
<1>3. \A t \in Threads : pc'[t] \notin {"asking", "reading", "advancing"}
  BY DEF Clear, InPass
<1>4. \A t \in Threads : wanted'[t] \in Filters \cup {Layers}
  BY DEF Clear, passVars, NSInv, NothingSkippedInv
<1> QED
  BY <1>2, <1>3, <1>4 DEF NothingSkippedInv

LEMMA OthersSkipNothing ==
  ASSUME NSInv, [Next]_vars, NobodyClears
  PROVE  NothingSkippedInv'
<1>1. CASE UNCHANGED <<indices, pc, service, at, wanted>>
  <2>1. \A u \in Threads : Stays(u)
    BY <1>1 DEF Stays, Inside, Before
  <2> QED
    BY <1>1, <2>1, NothingMoves DEF NSInv, NothingSkippedInv
<1>2. ASSUME NEW l \in Loops, LoopTest(l) \/ LoopWakes(l)
      PROVE  NothingSkippedInv'
  <2>1. l \in Threads
    BY DEF Threads
  <2>2. CASE UNCHANGED <<lines, collectorVars, passVars>> /\ \E label \in {"ended", "testing"} : Goto(l, label)
    <3>1. \A u \in Threads : Stays(u)
      BY <2>1, <2>2 DEF Goto, passVars, Stays, Inside, Before, NSInv, TypeInv, TypeOK, PassTypes
    <3> QED
      BY <2>2, <3>1, NothingMoves DEF collectorVars, passVars, NSInv, NothingSkippedInv
  <2>3. CASE StartPass(l, Services, Layers)
    BY <2>1, <2>3, StartPassSkipsNothing
  <2> QED
    BY <1>2, <2>2, <2>3 DEF LoopTest, LoopWakes
<1>3. ASSUME NEW u \in Users, Method(u) \/ Call(u)
      PROVE  NothingSkippedInv'
  <2>1. u \in Threads
    BY DEF Threads
  <2>2. CASE /\ UNCHANGED <<indices, passVars>>
             /\ \/ \E label \in {"clearing", "spawning", "joining", "idle"} : Goto(u, label)
                \/ Spawn(u)
    <3>1. \A t \in Threads : pc'[t] = pc[t] \/ ~Inside(t)'
      BY <2>1, <2>2 DEF Goto, Spawn, Inside, NSInv, TypeInv, TypeOK, PassTypes
    <3>2. \A t \in Threads : Stays(t)
      BY <2>2, <3>1 DEF passVars, Stays, Inside, Before
    <3> QED
      BY <2>2, <3>2, NothingMoves DEF passVars, NSInv, NothingSkippedInv
  <2>3. ASSUME NEW services \in SUBSET Services, NEW layers \in Filters,
               CollectOnce(u, services, layers)
        PROVE  NothingSkippedInv'
    BY <2>1, <2>3, StartPassSkipsNothing DEF CollectOnce
  <2> QED
    BY <1>3, <2>2, <2>3
    DEF Method, Call, ClearStopEvent, Spawn, Join, StartContinuous, StopContinuous, NobodyClears,
        collectorVars
<1>4. ASSUME NEW s \in Services, NEW l \in Layers, Write(s, l)
      PROVE  NothingSkippedInv'
  BY <1>1, <1>4 DEF Write, collectorVars, passVars
<1>5. CASE UNCHANGED vars
  BY <1>1, <1>5 DEF vars, collectorVars, passVars
<1> QED
  BY <1>2, <1>3, <1>4, <1>5, PassSkipsNothing DEF Next

LEMMA NextSkipsNothing ==
  ASSUME NSInv, [Next]_vars, "clear" \notin Ops \/ QuietClear
  PROVE  NothingSkippedInv'
<1>1. ASSUME NEW u \in Users, Clear(u)
      PROVE  NothingSkippedInv'
  <2>1. \A t \in Threads : ~InPass(t)
    BY <1>1 DEF Clear
  <2> QED
    BY <1>1, <2>1, ClearSkipsNothing
<1> QED
  BY <1>1, OthersSkipNothing DEF NobodyClears

\* The inductive invariant of collect_once(): what is before a known index, or
\* before the entry a thread is at, is in the logs or in the hands of a thread.
THEOREM NothingSkippedAlways ==
  ASSUME "clear" \notin Ops \/ QuietClear
  PROVE  Spec => []NothingSkippedInv
<1>1. Init => NSInv
  BY InitTypes, InitSkipsNothing DEF NSInv
<1>2. NSInv /\ [Next]_vars => NSInv'
  BY NextTypes, NextSkipsNothing DEF NSInv
<1>3. NSInv => NothingSkippedInv
  BY DEF NSInv
<1> QED
  BY <1>1, <1>2, <1>3, PTL DEF Spec

\* However many threads collect at once, and whatever fails, the known index of a
\* service never moves past an entry that is not in the logs or about to be.
THEOREM NothingSkippedCorrect ==
  ASSUME "clear" \notin Ops \/ QuietClear
  PROVE  Spec => []NothingSkipped
<1>1. NothingSkippedInv => NothingSkipped
  BY DEF NothingSkippedInv
<1> QED
  BY <1>1, NothingSkippedAlways, PTL
=============================================================================
