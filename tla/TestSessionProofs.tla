--------------------------- MODULE TestSessionProofs ---------------------------
(****************************************************************************)
(* Test sessions. Who runs when (SessionInv), and with it what can still    *)
(* change when a session is over (ExportFinal), whatever the join finds.    *)
(* As long as no thread has outlived its join, one thread at a time         *)
(* collects: what is in order (OrderInv), what is exported (FinalInv), and  *)
(* that nothing is missing (CompleteInv), each resting on the one before.   *)
(****************************************************************************)
EXTENDS TestSession, LogCollectorProofs

USE UsersAssumption, ServicesAssumption, CollectorBoundAssumption, FiltersAssumption,
    TesterAssumption

----------------------------------------------------------------------------
(* Sessions take the collector's steps; and who runs when.                  *)

LEMMA SessionStepIsStep == [SessionNext]_allVars => [Next]_vars
<1>1. Tester \in Users /\ Tester \in Threads
  BY DEF Threads
<1>2. ByHand \/ LastCollect => [Next]_vars
  BY <1>1 DEF ByHand, LastCollect, Next, Call
<1>3. Enter \/ Exit => [Next]_vars
  BY <1>1 DEF Enter, Exit, Next, Call
<1>4. Collecting => [Next]_vars
  BY <1>1 DEF Collecting, Next
<1>5. Export \/ SessionsOver \/ UNCHANGED allVars => [Next]_vars
  BY DEF Export, SessionsOver, allVars
<1> QED
  BY <1>2, <1>3, <1>4, <1>5 DEF SessionNext

\* A background thread that runs is the one that the collector knows, or has outlived
\* its join; the tester collects only when the collector knows none; and from the end
\* of a session to the next one the stop event is set.
SessionControl ==
    /\ \A l \in Loops : Running(l) => l = thread \/ l \in outlived
    /\ phase \in {"stopped", "collecting", "closed"} => stop
    /\ phase \in {"new", "collecting"} => thread = 0 /\ (AtRest \/ InPass(Tester))
    /\ phase = "closed" => thread = 0 /\ AtRest
    /\ phase = "open" => \/ pc[Tester] \in {"clearing", "spawning"} /\ thread = 0
                         \/ AtRest /\ thread # 0
    /\ phase = "stopped" => \/ pc[Tester] = "joining" /\ thread # 0
                            \/ AtRest /\ thread = 0

\* Of the session's own variables.
SessionTypes ==
    /\ phase \in Phases
    /\ covered \in [Services -> 0..MaxLines]
    /\ exported \in Seq(Entries)
    /\ outlived \subseteq Loops

SessionInv == TypeInv /\ SessionTypes /\ SessionControl

LEMMA InitSession == SessionInit => SessionInv
<1> SUFFICES ASSUME SessionInit PROVE SessionInv
  OBVIOUS
<1>1. TypeInv /\ Init
  BY InitTypes DEF SessionInit
<1>2. SessionTypes /\ outlived = {}
  BY EmptySeq DEF SessionInit, SessionTypes, Phases, NoLines
<1>3. pc[Tester] = "idle" /\ thread = 0 /\ \A l \in Loops : pc[l] = "unborn"
  BY <1>1 DEF Init, Threads, Loops
<1>4. SessionControl
  BY <1>3 DEF SessionInit, SessionControl, AtRest, Running
<1> QED
  BY <1>1, <1>2, <1>4 DEF SessionInv

LEMMA NextSessionTypes ==
  ASSUME SessionInv, [SessionNext]_allVars
  PROVE  TypeInv' /\ SessionTypes'
<1>1. TypeInv'
  BY SessionStepIsStep, NextTypes DEF SessionInv
<1>2. NoLines \in [Services -> 0..MaxLines] /\ << >> \in Seq(Entries)
  BY EmptySeq DEF NoLines
<1>3. logs \in Seq(Entries) /\ end[Tester] \in 0..MaxLines
  BY DEF SessionInv, TypeInv, TypeOK, CollectorTypes, PassTypes, Threads
<1>4. phase' \in Phases
  BY DEF SessionNext, ByHand, Enter, Exit, LastCollect, Export, Collecting, SessionsOver,
     allVars, sessionVars, Phases, SessionInv, SessionTypes
<1>5. exported' \in Seq(Entries)
  BY <1>2, <1>3 DEF SessionNext, ByHand, Enter, Exit, LastCollect, Export, Collecting,
     SessionsOver, NothingExported, allVars, sessionVars, SessionInv, SessionTypes
<1>7. outlived' \subseteq Loops
  <2>1. CASE UNCHANGED outlived
    BY <2>1 DEF SessionInv, SessionTypes
  <2>2. CASE Join(Tester) /\ outlived' = outlived \cup {thread}
    <3>1. thread # 0
      BY <2>2 DEF Join, SessionInv, SessionControl, SessionTypes, Phases, AtRest, InPass
    <3> QED
      BY <2>2, <3>1 DEF SessionInv, SessionTypes, TypeInv, TypeOK, CollectorTypes, Loops
  <2> QED
    BY <2>1, <2>2 DEF SessionNext, ByHand, Enter, Exit, LastCollect, Export, Collecting,
       Outlives, SessionsOver, NothingExported, allVars, sessionVars
<1>6. covered' \in [Services -> 0..MaxLines]
  BY <1>2, <1>3 DEF SessionNext, ByHand, Enter, Exit, LastCollect, Export, Collecting,
     Covers, SessionsOver, NothingExported, allVars, sessionVars, SessionInv, SessionTypes
<1> QED
  BY <1>1, <1>4, <1>5, <1>6, <1>7 DEF SessionTypes

\* Who has outlived its join is remembered.
LEMMA OutlivedGrows ==
  ASSUME [SessionNext]_allVars
  PROVE  outlived \subseteq outlived'
BY DEF SessionNext, ByHand, Enter, Exit, LastCollect, Export, Collecting, Outlives,
   SessionsOver, NothingExported, allVars, sessionVars

\* The tester is none of the background threads.
LEMMA TesterIsUser ==
  /\ Tester \in Threads /\ Tester \notin Loops /\ Loops \subseteq Threads
  /\ Threads = {Tester} \cup Loops
BY DEF Threads, Loops

\* A step of the tester's that starts no background thread.
LEMMA TesterMoves ==
  ASSUME SessionInv, NEW label, Goto(Tester, label)
  PROVE  /\ pc'[Tester] = label
         /\ \A l \in Loops : pc'[l] = pc[l] /\ (Running(l)' <=> Running(l))
BY TesterIsUser DEF Goto, Running, SessionInv, TypeInv, TypeOK, PassTypes

\* What a step of a collection does to its thread's control.
LEMMA PassMoves ==
  ASSUME SessionInv, NEW t \in Threads, Pass(t)
  PROVE  /\ InPass(t) /\ thread' = thread /\ stop' = stop
         /\ \A u \in Threads \ {t} : pc'[u] = pc[u]
         /\ t \in Users => pc'[t] = "idle" \/ InPass(t)'
<1> USE DEF SessionInv, TypeInv, TypeOK, PassTypes
<1>1. InPass(t) /\ thread' = thread /\ stop' = stop
  BY DEF Pass, Ask, Answered, Failed, TakeEntry, ParseFails, Advance, AnswerRead, Leave,
     Store, InPass, collectorVars
<1>2. CASE UNCHANGED pc
  BY <1>1, <1>2 DEF InPass
<1>3. ASSUME NEW label \in {"next", "asking", "reading", "advancing"}, Goto(t, label)
      PROVE  /\ \A u \in Threads \ {t} : pc'[u] = pc[u]
             /\ t \in Users => pc'[t] = "idle" \/ InPass(t)'
  BY <1>3 DEF Goto, InPass
<1>4. CASE Store(t)
  BY <1>1, <1>4 DEF Store, Goto
<1> QED
  BY <1>1, <1>2, <1>3, <1>4 DEF Pass, Ask, Answered, Failed, TakeEntry, ParseFails,
     Advance, AnswerRead, Leave

LEMMA CollectingControls ==
  ASSUME SessionInv, Collecting
  PROVE  SessionControl'
<1>1. SessionControl /\ UNCHANGED phase /\ outlived \subseteq outlived'
  BY OutlivedGrows DEF SessionInv, Collecting, SessionNext
<1>2. ASSUME UNCHANGED <<pc, thread, stop>> PROVE SessionControl'
  BY <1>1, <1>2 DEF SessionControl, Running, AtRest, InPass
<1>3. ASSUME NEW t \in Threads, Pass(t) PROVE SessionControl'
  <2>1. CASE t = Tester
    <3>1. /\ InPass(Tester) /\ thread' = thread /\ stop' = stop
          /\ AtRest' \/ InPass(Tester)'
          /\ \A l \in Loops : Running(l)' <=> Running(l)
      BY <1>3, <2>1, PassMoves, TesterIsUser DEF AtRest, Running
    <3>2. phase \in {"new", "collecting"}
      BY <1>1, <3>1 DEF SessionControl, AtRest, InPass, SessionInv, SessionTypes, Phases
    <3> QED
      BY <1>1, <3>1, <3>2 DEF SessionControl
  <2>2. CASE t \in Loops
    <3>1. InPass(t) /\ thread' = thread /\ stop' = stop /\ \A u \in Threads \ {t} : pc'[u] = pc[u]
      BY <1>3, PassMoves
    <3>2. pc'[Tester] = pc[Tester]
      BY <2>2, <3>1, TesterIsUser
    <3>3. \A l \in Loops : Running(l)' => Running(l)
      BY <3>1, TesterIsUser DEF Running, InPass
    <3> QED
      BY <1>1, <3>1, <3>2, <3>3 DEF SessionControl, AtRest, InPass
  <2> QED
    BY <2>1, <2>2, TesterIsUser
<1>4. ASSUME NEW l \in Loops, LoopTest(l) \/ LoopWakes(l) PROVE SessionControl'
  <2>1. PICK label \in {"ended", "next", "testing"} : Goto(l, label)
    BY <1>4 DEF LoopTest, LoopWakes, StartPass
  <2>2. /\ pc[l] \in {"testing", "waiting"} /\ thread' = thread /\ stop' = stop
        /\ \A u \in Threads \ {l} : pc'[u] = pc[u]
    BY <1>4, <2>1 DEF LoopTest, LoopWakes, StartPass, collectorVars, Goto, SessionInv,
       TypeInv, TypeOK, PassTypes
  <2>3. pc'[Tester] = pc[Tester] /\ \A k \in Loops : Running(k)' => Running(k)
    BY <2>2, TesterIsUser DEF Running
  <2> QED
    BY <1>1, <2>2, <2>3 DEF SessionControl, AtRest, InPass
<1>5. CASE ClearStopEvent(Tester)
  <2>1. /\ pc[Tester] = "clearing" /\ pc'[Tester] = "spawning" /\ thread' = thread
        /\ \A l \in Loops : Running(l)' <=> Running(l)
    BY <1>5, TesterMoves DEF ClearStopEvent
  <2>2. phase = "open"
    BY <1>1, <2>1 DEF SessionControl, AtRest, InPass, SessionInv, SessionTypes, Phases
  <2> QED
    BY <1>1, <2>1, <2>2 DEF SessionControl, AtRest
<1>6. CASE Spawn(Tester)
  <2>1. /\ pc[Tester] = "spawning" /\ thread' = spawned' /\ spawned' = spawned + 1
        /\ spawned' \in Loops /\ thread' # 0
        /\ pc' = [pc EXCEPT ![Tester] = "idle", ![spawned'] = "testing"]
    BY <1>6 DEF Spawn, Loops, SessionInv, TypeInv, TypeOK, CollectorTypes
  <2>2. phase = "open" /\ thread = 0
    BY <1>1, <2>1 DEF SessionControl, AtRest, InPass, SessionInv, SessionTypes, Phases
  <2>3. pc'[Tester] = "idle" /\ \A l \in Loops \ {thread'} : pc'[l] = pc[l]
    BY <2>1, TesterIsUser DEF SessionInv, TypeInv, TypeOK, PassTypes
  <2>4. \A l \in Loops : Running(l)' => l = thread' \/ l \in outlived
    BY <1>1, <2>2, <2>3 DEF SessionControl, Running, Loops
  <2> QED
    BY <1>1, <2>1, <2>2, <2>3, <2>4 DEF SessionControl, AtRest
<1>7. CASE Join(Tester)
  <2>1. /\ pc[Tester] = "joining" /\ pc'[Tester] = "idle" /\ thread' = 0 /\ stop' = stop
        /\ pc[thread] = "ended" \/ thread \in outlived'
        /\ \A l \in Loops : Running(l)' <=> Running(l)
    BY <1>7, TesterMoves DEF Join, Collecting, Outlives
  <2>2. phase = "stopped"
    BY <1>1, <2>1 DEF SessionControl, AtRest, InPass, SessionInv, SessionTypes, Phases
  <2>3. \A l \in Loops : Running(l) => l \in outlived'
    BY <1>1, <2>1 DEF SessionControl, Running
  <2> QED
    BY <1>1, <2>1, <2>2, <2>3 DEF SessionControl, AtRest
<1>8. CASE \E s \in Services, l \in Layers : Write(s, l)
  BY <1>2, <1>8 DEF Write, collectorVars
<1> QED
  BY <1>3, <1>4, <1>5, <1>6, <1>7, <1>8 DEF Collecting, Method

LEMMA NextSession ==
  ASSUME SessionInv, [SessionNext]_allVars
  PROVE  SessionInv'
<1>1. SessionControl /\ outlived \subseteq outlived'
  BY OutlivedGrows DEF SessionInv
<1>2. ASSUME NEW label, Goto(Tester, label)
      PROVE  /\ pc'[Tester] = label
             /\ \A l \in Loops : Running(l)' <=> Running(l)
  BY <1>2, TesterMoves
<1>3. ASSUME ByHand PROVE SessionControl'
  <2>1. CASE Clear(Tester)
    BY <1>1, <1>3, <2>1 DEF ByHand, Clear, SessionControl, Running, AtRest, InPass
  <2>2. CASE \E layers \in Filters : CollectOnce(Tester, Services, layers)
    <3>1. /\ pc'[Tester] = "next" /\ thread' = thread /\ phase' = "new"
          /\ phase \in {"new", "closed"}
          /\ \A l \in Loops : Running(l)' <=> Running(l)
      BY <1>2, <1>3, <2>2 DEF ByHand, CollectOnce, StartPass, collectorVars
    <3> QED
      BY <1>1, <3>1 DEF SessionControl, InPass
  <2> QED
    BY <1>3, <2>1, <2>2 DEF ByHand
<1>4. ASSUME Enter PROVE SessionControl'
  <2>1. /\ pc'[Tester] = "clearing" /\ thread = 0 /\ thread' = thread /\ phase' = "open"
        /\ \A l \in Loops : Running(l)' <=> Running(l)
    BY <1>2, <1>4 DEF Enter, StartContinuous, collectorVars
  <2> QED
    BY <1>1, <2>1 DEF SessionControl
<1>5. ASSUME Exit PROVE SessionControl'
  <2>1. /\ pc'[Tester] = "joining" /\ thread' = thread /\ phase' = "stopped"
        /\ thread # 0 /\ stop'
        /\ \A l \in Loops : Running(l)' <=> Running(l)
    BY <1>2, <1>5 DEF Exit, StopContinuous
  <2> QED
    BY <1>1, <2>1 DEF SessionControl
<1>6. ASSUME LastCollect PROVE SessionControl'
  <2>1. /\ pc'[Tester] = "next" /\ thread' = thread /\ phase' = "collecting"
        /\ AtRest /\ phase = "stopped" /\ stop' = stop
        /\ \A l \in Loops : Running(l)' <=> Running(l)
    BY <1>2, <1>6 DEF LastCollect, CollectOnce, StartPass, collectorVars
  <2> QED
    BY <1>1, <2>1 DEF SessionControl, AtRest, InPass
<1>7. ASSUME Export PROVE SessionControl'
  BY <1>1, <1>7 DEF Export, vars, collectorVars, SessionControl, Running, AtRest
<1>8. ASSUME SessionsOver \/ UNCHANGED allVars PROVE SessionControl'
  BY <1>1, <1>8 DEF SessionsOver, allVars, vars, collectorVars, sessionVars, SessionControl,
     Running, AtRest, InPass
<1>9. SessionControl'
  BY <1>3, <1>4, <1>5, <1>6, <1>7, <1>8, CollectingControls DEF SessionNext
<1> QED
  BY <1>9, NextSessionTypes DEF SessionInv

\* Every value of a session is of its type; a session has its background thread from
\* the time it has started it until it has let it go; and a thread that runs beside
\* it, or after it, is one that stop_continuous() has waited for in vain.
THEOREM SessionTypeCorrect == SessionSpec => []SessionTypeOK
<1>1. SessionInv /\ [SessionNext]_allVars => SessionInv'
  BY NextSession
<1>2. SessionInv => SessionTypeOK
  BY DEF SessionInv, TypeInv, SessionTypes, SessionControl, SessionTypeOK, AtRest
<1> QED
  BY <1>1, <1>2, InitSession, PTL DEF SessionSpec

----------------------------------------------------------------------------
(* What is left when a session is over, however long its thread runs.       *)

\* Who still collects has outlived its join.
LEMMA StillCollecting ==
  ASSUME SessionInv, phase = "closed", NEW t \in Threads, InPass(t)
  PROVE  t \in Loops /\ t \in outlived
<1>1. thread = 0 /\ ~InPass(Tester)
  BY DEF SessionInv, SessionControl, AtRest, InPass
<1>2. t \in Loops /\ Running(t) /\ t # 0
  BY <1>1, TesterIsUser DEF Running, InPass, Loops
<1> QED
  BY <1>1, <1>2 DEF SessionInv, SessionControl

LEMMA ClosedStep ==
  ASSUME SessionInv, [SessionNext]_allVars, phase = "closed", phase' = "closed"
  PROVE  /\ \A t \in Threads : InPass(t)' => InPass(t) /\ t \in outlived
         /\ logs' # logs => \E l \in outlived : InPass(l) /\ ~InPass(l)'
<1>1. stop /\ pc[Tester] = "idle" /\ PassTypes
  BY DEF SessionInv, SessionControl, AtRest, TypeInv, TypeOK
<1>2. ASSUME UNCHANGED logs, \A t \in Threads : InPass(t)' => InPass(t)
      PROVE  /\ \A t \in Threads : InPass(t)' => InPass(t) /\ t \in outlived
             /\ logs' # logs => \E l \in outlived : InPass(l) /\ ~InPass(l)'
  BY <1>2, StillCollecting
<1>3. CASE UNCHANGED vars
  BY <1>2, <1>3 DEF vars, collectorVars, InPass
<1>4. ASSUME NEW l \in Loops, LoopTest(l) \/ LoopWakes(l)
      PROVE  UNCHANGED logs /\ \A t \in Threads : InPass(t)' => InPass(t)
  <2>1. PICK label \in {"ended", "testing"} : Goto(l, label)
    BY <1>1, <1>4 DEF LoopTest, LoopWakes
  <2>2. \A t \in Threads : pc'[t] = pc[t] \/ pc'[t] \in {"ended", "testing"}
    BY <1>1, <2>1, TesterIsUser DEF Goto, PassTypes
  <2> QED
    BY <1>4, <2>2 DEF LoopTest, LoopWakes, StartPass, collectorVars, InPass
<1>5. ASSUME NEW t \in Threads, Pass(t)
      PROVE  /\ \A u \in Threads : InPass(u)' => InPass(u)
             /\ logs' # logs => InPass(t) /\ ~InPass(t)'
  <2>1. InPass(t) /\ \A u \in Threads \ {t} : pc'[u] = pc[u]
    BY <1>5, PassMoves
  <2>2. CASE Store(t)
    <3>1. pc'[t] \in {"idle", "waiting"}
      BY <1>1, <2>2 DEF Store, Goto, PassTypes
    <3> QED
      BY <2>1, <3>1 DEF InPass
  <2>3. CASE UNCHANGED logs
    BY <2>1, <2>3 DEF InPass
  <2> QED
    BY <1>5, <2>2, <2>3 DEF Pass, Ask, Answered, Failed, TakeEntry, ParseFails, Advance,
       AnswerRead, Leave, collectorVars
<1>6. CASE Collecting
  <2>1. ~Method(Tester)
    BY <1>1 DEF Method, ClearStopEvent, Spawn, Join
  <2>2. CASE \E s \in Services, l \in Layers : Write(s, l)
    BY <1>2, <2>2 DEF Write, collectorVars, InPass
  <2>3. CASE \E l \in Loops : LoopTest(l) \/ LoopWakes(l)
    BY <1>2, <1>4, <2>3
  <2>4. ASSUME NEW t \in Threads, Pass(t)
        PROVE  /\ \A u \in Threads : InPass(u)' => InPass(u) /\ u \in outlived
               /\ logs' # logs => \E l \in outlived : InPass(l) /\ ~InPass(l)'
    BY <1>5, <2>4, StillCollecting
  <2> QED
    BY <1>6, <2>1, <2>2, <2>3, <2>4 DEF Collecting
<1> QED
  BY <1>3, <1>6 DEF SessionNext, ByHand, Enter, Exit, LastCollect, Export, SessionsOver,
     allVars

\* Once a session is over no collection begins, neither by a thread that runs on nor
\* by anybody else; what is still added to the logs comes from a collection that was
\* under way when stop_continuous() gave up waiting for it, and is its thread's last.
THEOREM ExportFinalCorrect == SessionSpec => ExportFinal
<1>1. SessionInv /\ [SessionNext]_allVars => SessionInv'
  BY NextSession
<1>2. SessionInv /\ [SessionNext]_allVars =>
        [phase = "closed" /\ phase' = "closed" =>
            /\ \A t \in Threads : InPass(t)' => InPass(t) /\ t \in outlived
            /\ logs' # logs => \E l \in outlived : InPass(l) /\ ~InPass(l)']_allVars
  BY ClosedStep
<1> QED
  BY <1>1, <1>2, InitSession, PTL DEF SessionSpec, ExportFinal

----------------------------------------------------------------------------
(* As long as no thread has outlived its join, one at a time collects, and  *)
(* the logs are in order.                                                   *)

LEMMA NobodyCollects ==
  ASSUME SessionInv, outlived = {}, thread = 0, ~InPass(Tester), NEW t \in Threads
  PROVE  ~InPass(t)
<1>1. \A l \in Loops : ~Running(l)
  BY DEF SessionInv, SessionControl, Loops
<1> QED
  BY <1>1, TesterIsUser DEF Running, InPass

LEMMA OneCollects ==
  ASSUME SessionInv, outlived = {}, NEW t \in Threads, NEW u \in Threads, InPass(t), InPass(u)
  PROVE  t = u
<1>1. InPass(Tester) => thread = 0
  BY DEF SessionInv, SessionControl, SessionTypes, Phases, AtRest, InPass
<1>2. \A l \in Loops : InPass(l) => l = thread /\ l # 0
  BY DEF SessionInv, SessionControl, Running, InPass, Loops
<1> QED
  BY <1>1, <1>2, TesterIsUser

LEMMA SessionAtRest ==
  ASSUME SessionInv, outlived = {}, AtRest, phase # "open"
  PROVE  thread = 0 /\ \A t \in Threads : ~InPass(t)
<1>1. thread = 0 /\ ~InPass(Tester)
  BY DEF SessionInv, SessionControl, SessionTypes, Phases, AtRest, InPass
<1> QED
  BY <1>1, NobodyCollects

Ascending(seq) ==
    \A j \in DOMAIN seq : \A k \in DOMAIN seq :
        j < k /\ seq[j].service = seq[k].service => seq[j].index < seq[k].index

\* Two sequences, one after the other.
Follows(later, earlier) ==
    \A j \in DOMAIN earlier : \A k \in DOMAIN later :
        earlier[j].service = later[k].service => earlier[j].index < later[k].index

\* The known index is past the entry, or is about to be moved past it.
Known(e) == e.index < indices[e.service]
Told(t, e) ==
    \/ Known(e)
    \/ pc[t] = "advancing" /\ e.service = service[t] /\ e.index = at[t]

\* Who collects starts where the logs end, and nobody else moves the index.
InHand(t) ==
    /\ ~InPass(t) => new[t] = << >>
    /\ pc[t] \in {"asking", "reading", "advancing"} => at[t] = indices[service[t]]
    /\ Ascending(new[t]) /\ Follows(new[t], logs)
    /\ \A k \in DOMAIN new[t] : Told(t, new[t][k])

OrderInv ==
    /\ Ascending(logs)
    /\ \A k \in DOMAIN logs : Known(logs[k])
    /\ \A t \in Threads : InHand(t)

OrderedInv == SessionInv /\ outlived = {} /\ OrderInv

LEMMA InitOrder == SessionInit => OrderInv
<1> SUFFICES ASSUME SessionInit PROVE OrderInv
  OBVIOUS
<1>1. logs = << >> /\ \A t \in Threads : new[t] = << >> /\ pc[t] \in {"idle", "unborn"}
  BY DEF SessionInit, Init
<1>2. DOMAIN << >> = {}
  OBVIOUS
<1>3. Ascending(logs) /\ \A k \in DOMAIN logs : Known(logs[k])
  BY <1>1, <1>2 DEF Ascending
<1>4. \A t \in Threads : InHand(t)
  BY <1>1, <1>2 DEF InHand, Ascending, Follows
<1> QED
  BY <1>3, <1>4 DEF OrderInv

\* A step that moves no index and no entry: a thread that comes to an answer comes
\* to where the index is.
LEMMA QuietOrders ==
  ASSUME OrderInv, UNCHANGED <<logs, indices, new>>,
         \A t \in Threads :
            /\ InPass(t) => InPass(t)' \/ new[t] = << >>
            /\ Inside(t)' => \/ at'[t] = indices[service'[t]]
                             \/ Inside(t) /\ at'[t] = at[t] /\ service'[t] = service[t]
            /\ pc[t] = "advancing" =>
                  pc'[t] = "advancing" /\ at'[t] = at[t] /\ service'[t] = service[t]
  PROVE  OrderInv'
<1>1. \A e : Known(e)' <=> Known(e)
  BY DEF Known
<1>2. ASSUME NEW t \in Threads PROVE InHand(t)'
  <2>1. InHand(t)
    BY DEF OrderInv
  <2>2. \A e : Told(t, e) => Told(t, e)'
    BY <1>1 DEF Told
  <2>3. ~InPass(t)' => new'[t] = << >>
    BY <2>1 DEF InHand
  <2>4. Inside(t)' => at'[t] = indices'[service'[t]]
    BY <2>1 DEF InHand, Inside
  <2> QED
    BY <2>1, <2>2, <2>3, <2>4 DEF InHand, Inside, Ascending, Follows
<1> QED
  BY <1>1, <1>2 DEF OrderInv, Ascending

\* Of a thread that has nothing in hand and is in no answer.
LEMMA EmptyHand ==
  ASSUME NEW t \in Threads, new'[t] = << >>, ~Inside(t)'
  PROVE  InHand(t)'
<1>1. DOMAIN << >> = {}
  OBVIOUS
<1> QED
  BY <1>1 DEF InHand, Inside, Ascending, Follows

LEMMA TakeEntryOrders ==
  ASSUME OrderedInv, NEW t \in Threads, TakeEntry(t)
  PROVE  OrderInv'
<1> DEFINE e == Entry(service[t], at[t])
<1>1. /\ TypeInv /\ InHand(t) /\ pc[t] = "reading" /\ at[t] = indices[service[t]]
      /\ new[t] \in Seq(Entries) /\ at[t] \in Nat /\ service[t] \in Services
      /\ indices \in [Services -> 0..MaxLines] /\ logs \in Seq(Entries)
  BY DEF OrderedInv, OrderInv, InHand, SessionInv, TypeInv, TypeOK, CollectorTypes,
     PassTypes, TakeEntry
<1>2. /\ UNCHANGED <<logs, indices, service, at>> /\ pc'[t] = "advancing"
      /\ \A u \in Threads \ {t} : pc'[u] = pc[u] /\ new'[u] = new[u]
      /\ new'[t] = Append(new[t], e) \/ new'[t] = new[t]
  BY <1>1 DEF TakeEntry, Goto, collectorVars, TypeInv, TypeOK, PassTypes
<1>3. \A x : Known(x)' <=> Known(x)
  BY <1>2 DEF Known
<1>4. ASSUME NEW u \in Threads \ {t} PROVE InHand(u)'
  <2>1. InHand(u)
    BY DEF OrderedInv, OrderInv
  <2> QED
    BY <1>2, <1>3, <2>1 DEF InHand, InPass, Told, Ascending, Follows
<1>5. e.service = service[t] /\ e.index = at[t]
  BY DEF Entry
<1>6. /\ \A k \in DOMAIN new[t] : Known(new[t][k])
      /\ \A k \in DOMAIN logs : Known(logs[k])
  BY <1>1 DEF InHand, Told, OrderedInv, OrderInv
<1>7. InHand(t)'
  <2>1. CASE new'[t] = new[t]
    BY <1>1, <1>2, <1>3, <1>6, <2>1 DEF InHand, InPass, Told, Ascending, Follows
  <2>2. CASE new'[t] = Append(new[t], e)
    <3> HIDE DEF e
    <3>1. PICK n \in Nat : n = Len(new[t]) /\ DOMAIN new[t] = 1..n
      BY <1>1
    <3>2. /\ DOMAIN new'[t] = 1..n+1 /\ new'[t][n + 1] = e
          /\ \A k \in 1..n : new'[t][k] = new[t][k]
      BY <1>1, <2>2, <3>1
    <3>3. \A k \in 1..n : new[t][k].service = e.service => new[t][k].index < e.index
      BY <1>1, <1>5, <1>6, <3>1 DEF Known
    <3>4. \A k \in DOMAIN logs : logs[k].service = e.service => logs[k].index < e.index
      BY <1>1, <1>5, <1>6 DEF Known
    <3>5. Ascending(new[t])'
      <4> SUFFICES ASSUME NEW j \in 1..n+1, NEW k \in 1..n+1, j < k,
                          new'[t][j].service = new'[t][k].service
                   PROVE  new'[t][j].index < new'[t][k].index
        BY <3>2 DEF Ascending
      <4>1. j \in 1..n
        OBVIOUS
      <4>2. CASE k = n + 1
        BY <3>2, <3>3, <4>1, <4>2
      <4>3. CASE k \in 1..n
        BY <1>1, <3>1, <3>2, <4>1, <4>3 DEF InHand, Ascending
      <4> QED
        BY <4>2, <4>3
    <3>6. Follows(new[t], logs)'
      <4> SUFFICES ASSUME NEW j \in DOMAIN logs, NEW k \in 1..n+1,
                          logs[j].service = new'[t][k].service
                   PROVE  logs[j].index < new'[t][k].index
        BY <1>2, <3>2 DEF Follows
      <4>1. CASE k = n + 1
        BY <3>2, <3>4, <4>1
      <4>2. CASE k \in 1..n
        BY <1>1, <3>1, <3>2, <4>2 DEF InHand, Follows
      <4> QED
        BY <4>1, <4>2
    <3>7. (\A k \in DOMAIN new[t] : Told(t, new[t][k]))'
      <4> SUFFICES ASSUME NEW k \in 1..n+1, NEW x, x = new'[t][k] PROVE Told(t, x)'
        BY <3>2 DEF Told, Known
      <4>1. CASE k = n + 1
        <5>1. x.service = service'[t] /\ x.index = at'[t]
          BY <1>2, <1>5, <3>2, <4>1
        <5> QED
          BY <1>2, <5>1 DEF Told
      <4>2. CASE k \in 1..n
        <5>1. x = new[t][k] /\ Known(x)
          BY <1>6, <3>1, <3>2, <4>2
        <5> QED
          BY <1>3, <5>1 DEF Told
      <4> QED
        BY <4>1, <4>2
    <3>8. InPass(t)'
      BY <1>2 DEF InPass
    <3> QED
      BY <1>1, <1>2, <3>5, <3>6, <3>7, <3>8 DEF InHand
  <2> QED
    BY <1>2, <2>1, <2>2
<1> QED
  BY <1>2, <1>3, <1>4, <1>7 DEF OrderedInv, OrderInv, Ascending

LEMMA AdvanceOrders ==
  ASSUME OrderedInv, NEW t \in Threads, Advance(t)
  PROVE  OrderInv'
<1>1. /\ TypeInv /\ InHand(t) /\ pc[t] = "advancing" /\ at[t] = indices[service[t]]
      /\ at[t] \in Nat /\ service[t] \in Services
      /\ indices \in [Services -> 0..MaxLines] /\ SessionInv
  BY DEF OrderedInv, OrderInv, InHand, SessionInv, TypeInv, TypeOK, CollectorTypes,
     PassTypes, Advance
<1>2. /\ UNCHANGED <<logs, new, service>>
      /\ pc'[t] = "reading" /\ at'[t] = at[t] + 1
      /\ \A u \in Threads \ {t} : pc'[u] = pc[u]
      /\ indices' = [indices EXCEPT ![service[t]] = at[t] + 1]
  BY <1>1 DEF Advance, Goto, TypeInv, TypeOK, PassTypes
<1>3. /\ logs \in Seq(Entries) /\ new[t] \in Seq(Entries)
      /\ \A k \in DOMAIN logs : logs[k] \in Entries
      /\ \A k \in DOMAIN new[t] : new[t][k] \in Entries
  BY <1>1, ElementOfSeq DEF TypeInv, TypeOK, CollectorTypes, PassTypes
<1>4. \A e \in Entries : Told(t, e) => Known(e)'
  BY <1>1, <1>2 DEF Told, Known, Entries
<1>5. \A k \in DOMAIN logs' : Known(logs[k])'
  BY <1>2, <1>3, <1>4 DEF OrderedInv, OrderInv, Told
<1>6. ASSUME NEW u \in Threads \ {t} PROVE InHand(u)'
  <2>1. ~InPass(u)
    BY <1>1, OneCollects DEF InPass, OrderedInv
  <2>2. new[u] = << >>
    BY <2>1 DEF OrderedInv, OrderInv, InHand
  <2> QED
    BY <1>2, <2>1, <2>2, EmptyHand DEF InPass, Inside
<1>7. InHand(t)'
  <2>1. at'[t] = indices'[service'[t]]
    BY <1>1, <1>2
  <2>2. \A k \in DOMAIN new'[t] : Told(t, new[t][k])'
    BY <1>1, <1>2, <1>3, <1>4 DEF InHand, Told
  <2> QED
    BY <1>1, <1>2, <2>1, <2>2 DEF InHand, InPass, Ascending, Follows
<1> QED
  BY <1>2, <1>5, <1>6, <1>7 DEF OrderedInv, OrderInv, Ascending

LEMMA StoreOrders ==
  ASSUME OrderedInv, NEW t \in Threads, Store(t)
  PROVE  OrderInv'
<1>1. /\ TypeInv /\ SessionInv /\ InHand(t) /\ pc[t] = "next"
      /\ logs \in Seq(Entries) /\ new[t] \in Seq(Entries)
  BY DEF OrderedInv, OrderInv, SessionInv, TypeInv, TypeOK, CollectorTypes, PassTypes,
     Store
<1>2. /\ logs' = logs \o new[t] /\ new'[t] = << >> /\ UNCHANGED indices
      /\ pc'[t] \in {"idle", "waiting"}
      /\ \A u \in Threads \ {t} : pc'[u] = pc[u] /\ new'[u] = new[u]
  BY <1>1 DEF Store, Goto, TypeInv, TypeOK, PassTypes
<1>3. /\ \A k \in DOMAIN logs : Known(logs[k])
      /\ \A k \in DOMAIN new[t] : Known(new[t][k])
  BY <1>1 DEF OrderedInv, OrderInv, InHand, Told
<1>4. PICK m \in Nat, n \in Nat :
        /\ DOMAIN logs = 1..m /\ DOMAIN new[t] = 1..n /\ DOMAIN logs' = 1..m+n
        /\ \A k \in 1..m : logs'[k] = logs[k]
        /\ \A k \in m+1..m+n : k - m \in 1..n /\ logs'[k] = new[t][k - m]
  <2>1. /\ Len(logs) \in Nat /\ Len(new[t]) \in Nat
        /\ DOMAIN logs = 1..Len(logs) /\ DOMAIN new[t] = 1..Len(new[t])
        /\ DOMAIN logs' = 1..Len(logs) + Len(new[t])
        /\ \A k \in 1..Len(logs) : logs'[k] = logs[k]
        /\ \A k \in Len(logs)+1..Len(logs) + Len(new[t]) :
              k - Len(logs) \in 1..Len(new[t]) /\ logs'[k] = new[t][k - Len(logs)]
    BY <1>1, <1>2
  <2> QED
    BY <2>1
<1>5. Ascending(logs)'
  <2> SUFFICES ASSUME NEW j \in 1..m+n, NEW k \in 1..m+n, j < k,
                      logs'[j].service = logs'[k].service
               PROVE  logs'[j].index < logs'[k].index
    BY <1>4 DEF Ascending
  <2>1. CASE k \in 1..m
    BY <1>4, <2>1 DEF OrderedInv, OrderInv, Ascending
  <2>2. CASE j \in 1..m /\ k \in m+1..m+n
    <3>1. k - m \in DOMAIN new[t] /\ j \in DOMAIN logs
      BY <1>4, <2>2
    <3>2. logs'[j] = logs[j] /\ logs'[k] = new[t][k - m]
      BY <1>4, <2>2
    <3>3. logs[j].service = new[t][k - m].service
      BY <3>2
    <3>4. logs[j].index < new[t][k - m].index
      BY <1>1, <3>1, <3>3 DEF InHand, Follows
    <3> QED
      BY <3>2, <3>4
  <2>3. CASE j \in m+1..m+n /\ k \in m+1..m+n
    <3>1. PICK i \in DOMAIN new[t], o \in DOMAIN new[t] :
            i < o /\ logs'[j] = new[t][i] /\ logs'[k] = new[t][o]
      <4>1. j - m \in 1..n /\ k - m \in 1..n /\ j - m < k - m
        BY <1>4, <2>3
      <4> QED
        BY <1>4, <2>3, <4>1
    <3>2. new[t][i].service = new[t][o].service
      BY <3>1
    <3>3. new[t][i].index < new[t][o].index
      BY <1>1, <3>1, <3>2 DEF InHand, Ascending
    <3> QED
      BY <3>1, <3>3
  <2> QED
    BY <1>4, <2>1, <2>2, <2>3
<1>6. (\A k \in DOMAIN logs : Known(logs[k]))'
  <2>1. SUFFICES ASSUME NEW k \in 1..m+n, NEW e, e = logs'[k] PROVE e.index < indices[e.service]
    BY <1>2, <1>4 DEF Known
  <2>2. Known(logs'[k])
    <3>1. CASE k \in 1..m
      BY <1>3, <1>4, <3>1
    <3>2. CASE k \in m+1..m+n
      BY <1>3, <1>4, <3>2
    <3> QED
      BY <1>4, <3>1, <3>2
  <2> QED
    BY <2>1, <2>2 DEF Known
<1>7. ASSUME NEW u \in Threads PROVE InHand(u)'
  <2>1. u # t => ~InPass(u)
    BY <1>1, OneCollects DEF InPass, OrderedInv
  <2>2. new'[u] = << >>
    BY <1>2, <2>1 DEF OrderedInv, OrderInv, InHand
  <2>3. ~Inside(u)'
    BY <1>2, <2>1 DEF Inside, InPass
  <2> QED
    BY <2>2, <2>3, EmptyHand
<1> QED
  BY <1>5, <1>6, <1>7 DEF OrderInv

LEMMA ClearOrders ==
  ASSUME OrderedInv, NEW u \in Users, Clear(u), \A t \in Threads : ~InPass(t)
  PROVE  OrderInv'
<1>1. logs' = << >> /\ DOMAIN << >> = {}
  BY DEF Clear
<1>2. ASSUME NEW t \in Threads PROVE InHand(t)'
  <2>1. new'[t] = << >> /\ ~Inside(t)'
    BY DEF Clear, passVars, OrderedInv, OrderInv, InHand, InPass, Inside
  <2> QED
    BY <2>1, EmptyHand
<1> QED
  BY <1>1, <1>2 DEF OrderInv, Ascending

LEMMA PassOrders ==
  ASSUME OrderedInv, NEW t \in Threads, Pass(t)
  PROVE  OrderInv'
<1>0. PassTypes /\ OrderInv
  BY DEF OrderedInv, SessionInv, TypeInv, TypeOK
<1>1. ASSUME NEW s \in Services, Ask(t, s) PROVE OrderInv'
  <2>1. /\ pc[t] = "next" /\ pc'[t] = "asking" /\ at'[t] = indices[service'[t]]
        /\ logs' = logs /\ indices' = indices /\ new' = new
        /\ \A u \in Threads \ {t} : pc'[u] = pc[u] /\ at'[u] = at[u] /\ service'[u] = service[u]
    BY <1>0, <1>1 DEF Ask, PassTypes, Goto, collectorVars
  <2> QED
    BY <1>0, <2>1, QuietOrders DEF InPass, Inside
<1>2. CASE Answered(t)
  <2>1. /\ pc[t] = "asking" /\ pc'[t] = "reading"
        /\ UNCHANGED <<logs, indices, new, at, service>>
        /\ \A u \in Threads \ {t} : pc'[u] = pc[u]
    BY <1>0, <1>2 DEF Answered, PassTypes, Goto, collectorVars
  <2> QED
    BY <1>0, <2>1, QuietOrders DEF InPass, Inside
<1>3. ASSUME pc[t] # "advancing", Leave(t) PROVE OrderInv'
  <2>1. /\ pc'[t] = "next" /\ UNCHANGED <<logs, indices, new, service>>
        /\ \A u \in Threads \ {t} : pc'[u] = pc[u] /\ at'[u] = at[u]
    BY <1>0, <1>3 DEF Leave, PassTypes, Goto, collectorVars
  <2> QED
    BY <1>0, <1>3, <2>1, QuietOrders DEF InPass, Inside
<1> QED
  BY <1>1, <1>2, <1>3, TakeEntryOrders, AdvanceOrders, StoreOrders
  DEF Pass, Failed, ParseFails, AnswerRead

\* A thread that collects nothing goes on, or starts a collection.
LEMMA ControlOrders ==
  ASSUME OrderedInv, NEW t \in Threads, ~InPass(t), NEW label \in Labels, Goto(t, label),
         ~Inside(t)', UNCHANGED <<logs, indices, new, at, service>>
  PROVE  OrderInv'
<1>1. /\ new[t] = << >>
      /\ \A u \in Threads \ {t} : pc'[u] = pc[u]
  BY DEF OrderedInv, OrderInv, InHand, SessionInv, TypeInv, TypeOK, PassTypes, Goto
<1>2. pc[t] # "advancing"
  BY DEF InPass
<1> QED
  BY <1>1, <1>2, QuietOrders DEF OrderedInv, InPass, Inside

LEMMA SpawnOrders ==
  ASSUME OrderedInv, Spawn(Tester)
  PROVE  OrderInv'
<1>1. /\ pc[Tester] = "spawning" /\ spawned' \in Loops /\ spawned' \in Threads
      /\ pc' = [pc EXCEPT ![Tester] = "idle", ![spawned'] = "testing"]
      /\ pc \in [Threads -> Labels] /\ UNCHANGED <<logs, indices, new, at, service>>
  BY DEF Spawn, passVars, Loops, Threads, OrderedInv, SessionInv, TypeInv, TypeOK,
     CollectorTypes, PassTypes
<1>2. ~InPass(Tester) /\ ~InPass(spawned')
  <2>1. ~InPass(Tester) /\ thread = 0
    BY <1>1 DEF OrderedInv, SessionInv, SessionControl, SessionTypes, Phases, AtRest, InPass
  <2> QED
    BY <1>1, <2>1, NobodyCollects DEF OrderedInv
<1>3. \A u \in Threads : \/ pc'[u] = pc[u]
                         \/ ~InPass(u) /\ pc'[u] \in {"idle", "testing"}
  BY <1>1, <1>2, TesterIsUser
<1>4. \A u \in Threads : ~InPass(u) => new[u] = << >> /\ pc[u] # "advancing"
  BY DEF OrderedInv, OrderInv, InHand, InPass
<1> QED
  BY <1>1, <1>3, <1>4, QuietOrders DEF OrderedInv, InPass, Inside

LEMMA NextOrder ==
  ASSUME OrderedInv, [SessionNext]_allVars
  PROVE  OrderInv'
<1> USE TesterIsUser DEF OrderedInv
<1>1. CASE UNCHANGED <<logs, indices, new, at, service, pc>>
  BY <1>1, QuietOrders DEF InPass, Inside
<1>2. CASE Clear(Tester) /\ phase \in {"new", "closed"}
  BY <1>2, SessionAtRest, ClearOrders DEF AtRest, Clear
<1>3. ASSUME NEW services, NEW layers, CollectOnce(Tester, services, layers) PROVE OrderInv'
  <2>1. Goto(Tester, "next") /\ pc'[Tester] = "next" /\ pc[Tester] = "idle"
    BY <1>3, TesterMoves DEF CollectOnce, StartPass
  <2> QED
    BY <1>3, <2>1, ControlOrders DEF CollectOnce, StartPass, collectorVars, InPass, Inside, Labels
<1>4. CASE StartContinuous(Tester) \/ StopContinuous(Tester) \/ ClearStopEvent(Tester) \/ Join(Tester)
  <2>1. PICK label \in {"clearing", "joining", "spawning", "idle"} :
           Goto(Tester, label) /\ pc'[Tester] = label
    BY <1>4, TesterMoves DEF StartContinuous, StopContinuous, ClearStopEvent, Join
  <2>2. ~InPass(Tester) /\ UNCHANGED <<logs, indices, new, at, service>>
    BY <1>4 DEF StartContinuous, StopContinuous, ClearStopEvent, Join, collectorVars, passVars, InPass
  <2> QED
    BY <2>1, <2>2, ControlOrders DEF Inside, Labels
<1>5. ASSUME NEW l \in Loops, LoopTest(l) \/ LoopWakes(l) PROVE OrderInv'
  <2>1. PICK label \in {"ended", "next", "testing"} : Goto(l, label)
    BY <1>5 DEF LoopTest, LoopWakes, StartPass
  <2>2. pc'[l] = label
    BY <2>1 DEF Goto, SessionInv, TypeInv, TypeOK, PassTypes
  <2>3. ~InPass(l) /\ UNCHANGED <<logs, indices, new, at, service>>
    BY <1>5 DEF LoopTest, LoopWakes, StartPass, collectorVars, passVars, InPass
  <2> QED
    BY <2>1, <2>2, <2>3, ControlOrders DEF Inside, Labels
<1>6. CASE Collecting
  <2>1. CASE \E s \in Services, l \in Layers : Write(s, l)
    BY <1>1, <2>1 DEF Write, collectorVars, passVars
  <2> QED
    BY <1>4, <1>5, <1>6, <2>1, PassOrders, SpawnOrders DEF Collecting, Method
<1>7. CASE ByHand \/ LastCollect
  BY <1>2, <1>3, <1>7 DEF ByHand, LastCollect
<1>8. CASE Enter \/ Exit
  BY <1>4, <1>8 DEF Enter, Exit
<1>9. CASE Export \/ SessionsOver \/ UNCHANGED allVars
  BY <1>1, <1>9 DEF Export, SessionsOver, allVars, vars, collectorVars, passVars
<1> QED
  BY <1>6, <1>7, <1>8, <1>9 DEF SessionNext

\* What is collected in sessions, and by hand between them, has each line of a service
\* once and in the service's order: one thread at a time collects, from where the one
\* before it has stopped.
THEOREM EachLineOnceCorrect == SessionSpec => []EachLineOnce
<1> DEFINE Inv == SessionInv /\ (outlived = {} => OrderInv)
<1>1. SessionInit => Inv
  BY InitSession, InitOrder
<1>2. Inv /\ [SessionNext]_allVars => Inv'
  <2> SUFFICES ASSUME Inv, [SessionNext]_allVars PROVE Inv'
    OBVIOUS
  <2>1. outlived' = {} => OrderInv'
    BY OutlivedGrows, NextOrder DEF OrderedInv
  <2> QED
    BY <2>1, NextSession
<1>3. Inv => EachLineOnce
  BY DEF OrderInv, Ascending, InOrder, EachLineOnce
<1> QED
  BY <1>1, <1>2, <1>3, PTL DEF SessionSpec

----------------------------------------------------------------------------
(* The export.                                                              *)

FinalInv == SessionInv /\ outlived = {} /\ (phase = "closed" => logs = exported)

LEMMA ClosedAtRest ==
  ASSUME SessionInv, outlived = {}, phase = "closed"
  PROVE  \A t \in Threads : ~InPass(t)
BY SessionAtRest DEF SessionInv, SessionControl

\* Who does not clear the logs, and is not in a collection, leaves them alone.
LEMMA LogsStay ==
  ASSUME SessionInv, outlived = {}, phase = "closed", Collecting
  PROVE  logs' = logs
<1>1. \A t \in Threads : ~Pass(t)
  BY ClosedAtRest, PassMoves
<1> QED
  BY <1>1 DEF Collecting, Write, LoopTest, LoopWakes, StartPass, Method, ClearStopEvent,
     Spawn, Join, collectorVars

LEMMA NextFinal ==
  ASSUME FinalInv, [SessionNext]_allVars, outlived' = {}
  PROVE  FinalInv'
<1>1. SessionInv'
  BY NextSession DEF FinalInv
<1>2. ASSUME phase' = "closed" PROVE logs' = exported'
  <2>1. CASE Export
    BY <2>1 DEF Export, vars, collectorVars
  <2>2. CASE Collecting
    BY <1>2, <2>2, LogsStay DEF Collecting, FinalInv
  <2>3. CASE SessionsOver \/ UNCHANGED allVars
    BY <1>2, <2>3 DEF SessionsOver, allVars, vars, collectorVars, sessionVars, FinalInv
  <2> QED
    BY <1>2, <2>1, <2>2, <2>3 DEF SessionNext, ByHand, Enter, Exit, LastCollect
<1> QED
  BY <1>1, <1>2 DEF FinalInv

\* Every step of a session but clear() changes something else than the logs and the
\* indices.
LEMMA OthersDoNotClear ==
  ASSUME SessionInv, [SessionNext]_allVars, Clear(Tester), phase \notin {"new", "closed"}
  PROVE  UNCHANGED vars
<1>1. PassTypes /\ CollectorTypes /\ UNCHANGED <<lines, pc, at>>
  BY DEF SessionInv, TypeInv, TypeOK, Clear, passVars
<1>2. ASSUME NEW t \in Threads, NEW label, Goto(t, label) PROVE pc[t] = label
  BY <1>1, <1>2 DEF Goto, PassTypes
<1>3. \A services, layers : ~CollectOnce(Tester, services, layers)
  BY <1>2, TesterIsUser DEF CollectOnce, StartPass
<1>4. ~StartContinuous(Tester) /\ ~StopContinuous(Tester) /\ ~ClearStopEvent(Tester) /\ ~Join(Tester)
  BY <1>2, TesterIsUser DEF StartContinuous, StopContinuous, ClearStopEvent, Join
<1>5. ~Spawn(Tester)
  BY DEF Spawn, Clear
<1>6. \A l \in Loops : ~LoopTest(l) /\ ~LoopWakes(l)
  BY <1>2, TesterIsUser DEF LoopTest, LoopWakes, StartPass
<1>7. ASSUME NEW t \in Threads, Pass(t) PROVE FALSE
  <2>1. pc[t] # "advancing" \/ ~Goto(t, "reading")
    BY <1>2
  <2>2. ~TakeEntry(t)
    <3>1. at[t] \in Nat
      BY <1>1 DEF PassTypes
    <3> QED
      BY <1>1, <1>2, <3>1 DEF TakeEntry, PassTypes
  <2> QED
    BY <1>2, <1>7, <2>1, <2>2 DEF Pass, Ask, Answered, Failed, ParseFails, Advance,
       AnswerRead, Leave, Store
<1>8. ASSUME NEW s \in Services, NEW l \in Layers, Write(s, l) PROVE FALSE
  <2>1. lines[s] \in Seq(Layers) /\ lines'[s] = Append(lines[s], l)
    BY <1>1, <1>8 DEF Write, CollectorTypes
  <2>2. Len(lines'[s]) = Len(lines[s]) + 1 /\ Len(lines[s]) \in Nat
    BY <2>1, AppendProperties
  <2> QED
    BY <1>1, <2>2
<1>9. ~Collecting
  BY <1>4, <1>5, <1>6, <1>7, <1>8 DEF Collecting, Method
<1> QED
  BY <1>3, <1>4, <1>9 DEF SessionNext, ByHand, Enter, Exit, LastCollect, Export,
     SessionsOver, allVars

CompleteInv ==
    /\ FinalInv /\ OrderInv
    /\ NothingSkippedInv
    /\ \A s \in Services : covered[s] <= indices[s]

\* Nobody collects when the logs are cleared by hand.
LEMMA SessionSkipsNothing ==
  ASSUME CompleteInv, [SessionNext]_allVars
  PROVE  NothingSkippedInv'
<1>1. SessionInv /\ NSInv /\ [Next]_vars
  BY SessionStepIsStep DEF CompleteInv, FinalInv, NSInv, SessionInv
<1>2. CASE Clear(Tester) /\ phase \in {"new", "closed"}
  <2>1. \A t \in Threads : ~InPass(t)
    BY <1>1, <1>2, SessionAtRest DEF Clear, AtRest, CompleteInv, FinalInv
  <2> QED
    BY <1>1, <1>2, <2>1, ClearSkipsNothing
<1>3. CASE Clear(Tester) /\ phase \notin {"new", "closed"}
  <2>1. UNCHANGED vars
    BY <1>1, <1>3, OthersDoNotClear
  <2> QED
    BY <1>1, <2>1 DEF vars, collectorVars, passVars, NSInv, NothingSkippedInv, NothingSkipped,
       Kept, WantedByAll, Holds, Entry, Before
<1>4. CASE ~Clear(Tester)
  BY <1>1, <1>4, OthersSkipNothing DEF NobodyClears
<1> QED
  BY <1>2, <1>3, <1>4

\* An index that is moved was the thread's own.
LEMMA IndicesGrow ==
  ASSUME CompleteInv, Collecting, NEW s \in Services
  PROVE  indices'[s] >= indices[s]
<1>1. indices[s] \in Nat
  BY DEF CompleteInv, FinalInv, SessionInv, TypeInv, TypeOK, CollectorTypes
<1>2. CASE UNCHANGED indices
  BY <1>1, <1>2
<1>3. ASSUME NEW t \in Threads, Advance(t) PROVE indices'[s] >= indices[s]
  <2>1. at[t] = indices[service[t]]
    BY <1>3 DEF Advance, CompleteInv, OrderInv, InHand
  <2>2. indices \in [Services -> 0..MaxLines]
    BY DEF CompleteInv, FinalInv, SessionInv, TypeInv, TypeOK, CollectorTypes
  <2>3. indices'[s] = indices[s] \/ (service[t] = s /\ indices'[s] = indices[s] + 1)
    BY <1>3, <2>1, <2>2 DEF Advance
  <2> QED
    BY <1>1, <2>3
<1> QED
  BY <1>2, <1>3 DEF Collecting, Pass, Ask, Answered, Failed, ParseFails, TakeEntry, AnswerRead,
     Leave, Store, Write, LoopTest, LoopWakes, StartPass, Method, ClearStopEvent, Spawn, Join,
     collectorVars

\* What the last collection was answered it has collected, up to the end of the answer.
LEMMA CoveredIsKnown ==
  ASSUME CompleteInv, [SessionNext]_allVars, SessionInv', NEW s \in Services
  PROVE  covered'[s] <= indices'[s]
<1>1. /\ indices[s] \in Nat /\ indices'[s] \in Nat /\ covered[s] \in Nat
      /\ covered[s] <= indices[s] /\ covered \in [Services -> 0..MaxLines]
  BY DEF CompleteInv, FinalInv, SessionInv, SessionTypes, TypeInv, TypeOK, CollectorTypes
<1>2. CASE covered' = NoLines
  BY <1>1, <1>2 DEF NoLines
<1>3. CASE UNCHANGED <<covered, indices>>
  BY <1>1, <1>3
<1>4. CASE Collecting
  <2>1. CASE UNCHANGED covered
    BY <1>1, <1>4, <2>1, IndicesGrow
  <2>2. CASE AnswerRead(Tester) /\ covered' = [covered EXCEPT ![service[Tester]] = end[Tester]]
    <3>1. UNCHANGED indices /\ pc[Tester] = "reading" /\ at[Tester] >= end[Tester]
      BY <2>2 DEF AnswerRead, Leave, collectorVars
    <3>2. at[Tester] = indices[service[Tester]]
      BY <3>1, TesterIsUser DEF CompleteInv, OrderInv, InHand
    <3>3. covered'[s] = covered[s] \/ (service[Tester] = s /\ covered'[s] = end[Tester])
      BY <1>1, <2>2
    <3>4. end[Tester] \in Nat
      BY TesterIsUser DEF CompleteInv, FinalInv, SessionInv, TypeInv, TypeOK, PassTypes
    <3> QED
      BY <1>1, <3>1, <3>2, <3>3, <3>4
  <2> QED
    BY <1>4, <2>1, <2>2 DEF Collecting, Covers
<1> QED
  BY <1>2, <1>3, <1>4 DEF SessionNext, ByHand, Enter, Exit, StopContinuous, LastCollect, Export,
     SessionsOver, NothingExported, allVars, vars, collectorVars, sessionVars

LEMMA NextComplete ==
  ASSUME CompleteInv, [SessionNext]_allVars, outlived' = {}
  PROVE  CompleteInv'
<1>1. FinalInv' /\ SessionInv'
  BY NextFinal DEF CompleteInv, FinalInv
<1>2. OrderInv'
  BY NextOrder DEF CompleteInv, FinalInv, OrderedInv
<1> QED
  BY <1>1, <1>2, SessionSkipsNothing, CoveredIsKnown DEF CompleteInv

LEMMA ClosedIsComplete == CompleteInv => ExportComplete
<1> SUFFICES ASSUME CompleteInv, phase = "closed", NEW s \in Services,
                    NEW i \in 0..(covered[s] - 1), WantedByAll(s, i)
             PROVE  Holds(exported, Entry(s, i))
  BY DEF ExportComplete
<1>1. i \in 0..(indices[s] - 1)
  BY DEF CompleteInv, FinalInv, SessionInv, SessionTypes, TypeInv, TypeOK, CollectorTypes
<1>2. \/ Holds(logs, Entry(s, i))
      \/ \E t \in Threads : Holds(new[t], Entry(s, i))
  BY <1>1 DEF CompleteInv, NothingSkippedInv, NothingSkipped, Kept
<1>3. \A t \in Threads : new[t] = << >> /\ DOMAIN << >> = {}
  BY ClosedAtRest DEF CompleteInv, FinalInv, OrderInv, InHand
<1>4. Holds(logs, Entry(s, i))
  BY <1>2, <1>3 DEF Holds
<1> QED
  BY <1>4 DEF CompleteInv, FinalInv

\* The export has every line that the services answered the last collection, and all
\* before them, unless a filter dropped it: what the background thread had not stored
\* when it was stopped, the last collection asks for again.
THEOREM ExportCompleteCorrect == SessionSpec => []ExportComplete
<1> DEFINE Inv == SessionInv /\ (outlived = {} => CompleteInv)
<1>1. SessionInit => Inv
  <2> SUFFICES ASSUME SessionInit PROVE CompleteInv
    BY InitSession
  <2>1. FinalInv /\ OrderInv
    BY InitSession, InitOrder DEF FinalInv, SessionInit
  <2>2. NothingSkippedInv
    BY InitSkipsNothing DEF SessionInit
  <2>3. \A s \in Services : covered[s] = 0 /\ indices[s] = 0
    BY DEF SessionInit, Init, NoLines
  <2> QED
    BY <2>1, <2>2, <2>3 DEF CompleteInv
<1>2. Inv /\ [SessionNext]_allVars => Inv'
  BY OutlivedGrows, NextSession, NextComplete
<1>3. Inv => ExportComplete
  BY ClosedIsComplete DEF ExportComplete
<1> QED
  BY <1>1, <1>2, <1>3, PTL DEF SessionSpec
=============================================================================
