------------------------------- MODULE TestSession -------------------------------
(****************************************************************************)
(* A TestSession of websocket/logging.py: a `with` block around a test that *)
(* starts the background collection, stops it at the end, collects once     *)
(* more and exports what there is. The steps of the test and the snapshots  *)
(* of configuration and statistics change nothing of what is collected.     *)
(* Between sessions the collector is used by hand, as the examples use a    *)
(* LogCollector without a session: to collect, and to clear it.             *)
(****************************************************************************)
EXTENDS LogCollector

CONSTANT Tester     \* the thread that runs the test

ASSUME TesterAssumption == Users = {Tester} /\ Ops = OpKinds /\ Layers \in Filters

VARIABLES
    phase,      \* how far the session is
    covered,    \* how many lines of each service the last collection was answered
    exported,   \* logs_all.json, in the session's own directory
    outlived    \* background threads that were still running when they were forgotten

sessionVars == <<phase, covered, exported, outlived>>
allVars     == <<vars, sessionVars>>

Phases == {"new", "open", "stopped", "collecting", "closed"}

NoLines == [s \in Services |-> 0]

SessionInit ==
    /\ Init
    /\ phase = "new" /\ covered = NoLines /\ exported = << >> /\ outlived = {}

AtRest == pc[Tester] = "idle"

NothingExported == covered' = NoLines /\ exported' = << >> /\ UNCHANGED outlived

\* A user of the collector who has no background thread running. Services that
\* are not asked for are as good as ones that fail.
ByHand ==
    /\ phase \in {"new", "closed"}
    /\ \/ \E layers \in Filters : CollectOnce(Tester, Services, layers)
       \/ Clear(Tester)
    /\ phase' = "new"
    /\ NothingExported

\* __enter__, also of a session that is used once more.
Enter ==
    /\ phase \in {"new", "closed"}
    /\ StartContinuous(Tester)
    /\ phase' = "open"
    /\ NothingExported

\* __exit__, whether the test passed or raised.
Exit ==
    /\ phase = "open"
    /\ StopContinuous(Tester)
    /\ phase' = "stopped"
    /\ UNCHANGED <<covered, exported, outlived>>

\* Mutation: the last collection is made before the loop is stopped.
CollectFirst ==
    /\ phase = "open" /\ AtRest
    /\ CollectOnce(Tester, Services, Layers)
    /\ phase' = "collecting"
    /\ covered' = NoLines
    /\ UNCHANGED <<exported, outlived>>

\* The last collection.
LastCollect ==
    /\ phase = "stopped" /\ AtRest
    /\ CollectOnce(Tester, Services, Layers)
    /\ phase' = "collecting"
    /\ covered' = NoLines
    /\ UNCHANGED <<exported, outlived>>

\* The export; sorting it by time stamps is left out.
Export ==
    /\ phase = "collecting" /\ AtRest
    /\ exported' = logs
    /\ phase' = "closed"
    /\ UNCHANGED <<vars, covered, outlived>>

\* The answer of a service that the last collection has read to its end.
Covers ==
    IF phase = "collecting" /\ AnswerRead(Tester)
    THEN covered' = [covered EXCEPT ![service[Tester]] = end[Tester]]
    ELSE UNCHANGED covered

\* The join is over, and its thread is not.
Outlives ==
    outlived' = IF Join(Tester) /\ pc[thread] # "ended" THEN outlived \cup {thread} ELSE outlived

Collecting ==
    /\ \/ \E s \in Services, l \in Layers : Write(s, l)
       \/ \E t \in Threads : Pass(t)
       \/ \E l \in Loops : LoopTest(l) \/ LoopWakes(l)
       \/ Method(Tester)
    /\ Covers /\ Outlives
    /\ UNCHANGED <<phase, exported>>

\* The bound on the sessions is reached, and all of them are over.
SessionsOver ==
    /\ phase = "closed" /\ spawned = MaxLoops
    /\ UNCHANGED allVars

SessionNext == ByHand \/ Enter \/ Exit \/ LastCollect \/ Export \/ Collecting \/ SessionsOver

SessionSpec == SessionInit /\ [][SessionNext]_allVars

\* Both threads run, and the sockets they wait for have timeouts. The test
\* itself may last.
FairSessionSpec ==
    /\ SessionSpec
    /\ WF_allVars(LastCollect \/ Export)
    /\ WF_allVars(Collecting /\ Method(Tester))
    /\ \A t \in Threads : WF_allVars(Collecting /\ Pass(t))
    /\ \A l \in Loops : WF_allVars(Collecting /\ (LoopTest(l) \/ LoopWakes(l)))

----------------------------------------------------------------------------
(* Properties                                                               *)

\* Types; that a session has a background thread while it is open, from the time it
\* starts it until it has let it go; and that none runs beside it, or after it, but
\* one that was still running when stop_continuous() forgot it.
SessionTypeOK ==
    /\ TypeOK
    /\ phase \in Phases
    /\ covered \in [Services -> 0..MaxLines]
    /\ exported \in Seq(Entries)
    /\ outlived \subseteq Loops
    /\ phase = "open" /\ AtRest => thread # 0
    /\ phase \in {"new", "collecting", "closed"} => thread = 0
    /\ \A l \in Loops : Running(l) => l = thread \/ l \in outlived

\* The logs have each line of a service once, in the service's order, through all
\* sessions and collections by hand, until a thread outlives its join.
EachLineOnce == outlived = {} => InOrder

\* The export has every line that the services answered the last collection, and
\* all before them, unless a filter dropped it: between the loop and the last
\* collection nothing is lost, unless a thread that has outlived its join has it.
ExportComplete ==
    phase = "closed" /\ outlived = {} =>
        \A s \in Services : \A i \in 0..(covered[s] - 1) :
            WantedByAll(s, i) => Holds(exported, Entry(s, i))

\* Once a session is over no collection begins: only one that was under way when its
\* thread was forgotten may still be added to the logs, and is then the thread's last.
ExportFinal ==
    [][phase = "closed" /\ phase' = "closed" =>
          /\ \A t \in Threads : InPass(t)' => InPass(t) /\ t \in outlived
          /\ logs' # logs => \E l \in outlived : InPass(l) /\ ~InPass(l)']_allVars

\* A session that is left ends, whatever its services and its test do.
SessionEnds == phase = "stopped" ~> phase = "closed"
=============================================================================
