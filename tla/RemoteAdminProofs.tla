---------------------------- MODULE RemoteAdminProofs ----------------------------
(****************************************************************************)
(* The types of RemoteAdmin; and that a callbox keeps a whole mme.cfg, in   *)
(* its place or as a backup, for any number of users and edits, as long as  *)
(* they ask for backups, but for copies that failed by their exit status    *)
(* alone; and that a reset that leaves the services down says so.           *)
(****************************************************************************)
EXTENDS RemoteAdmin, TLAPS

----------------------------------------------------------------------------
(* What an edit has on the callbox at each of its steps.                    *)

\* A call that has not sent a copy, or a write, has none there; and one that goes
\* on to write has its copy behind it, made or failed.
InStep ==
    \A u \in Users :
        /\ pc[u] \in {"reading", "backing"} => Current(u) \notin copies \cup backups
        /\ pc[u] \in {"reading", "backing", "copying", "inserting"}
              => writes[Current(u)] = "none"
        /\ pc[u] \in {"inserting", "writing"} => Current(u) \notin copies

Base == TypeOK /\ InStep

LEMMA CurrentIsCall ==
  ASSUME TypeOK, NEW u \in Users, pc[u] # "idle"
  PROVE  Current(u) \in Calls /\ Made(Current(u))
BY CallsAssumption DEF TypeOK, Current, Calls, Made

LEMMA InitBase == Init => Base
BY CallsAssumption DEF Init, Base, TypeOK, InStep, Current, Calls, Labels

\* The steps of a call leave those of other users' calls alone.
LEMMA CallsApart ==
  ASSUME NEW u \in Users, NEW v \in Users, v # u
  PROVE  Current(v) # Current(u)
BY DEF Current

LEMMA BeginBase ==
  ASSUME Base, NEW u \in Users, NEW label \in {"reading", "stopping"}, Begin(u, label)
  PROVE  Base'
<1>1. calls[u] \in Nat /\ calls'[u] = calls[u] + 1 /\ calls' \in [Users -> 0..MaxCalls]
  BY CallsAssumption DEF Base, TypeOK, Begin
<1>2. \A v \in Users : v # u => pc'[v] = pc[v] /\ calls'[v] = calls[v]
  BY DEF Base, TypeOK, Begin, Goto
<1>3. \A c \in Calls : Made(c) => Made(c)' /\ c # <<u, calls'[u]>>
  BY <1>1, <1>2 DEF Made, Calls, Base, TypeOK
<1>4. <<u, calls'[u]>> \in Calls
  BY <1>1 DEF Calls
<1>5. TypeOK'
  <2>1. pc' \in [Users -> Labels] /\ pc'[u] = label
    BY DEF Base, TypeOK, Begin, Goto, Labels
  <2>2. \A v \in Users : pc'[v] # "idle" => calls'[v] > 0
    BY <1>1, <1>2 DEF Base, TypeOK
  <2> QED
    BY <1>1, <1>3, <2>1, <2>2 DEF Base, TypeOK, Begin, boxVars, lostVars
<1>6. InStep'
  <2>1. ASSUME NEW v \in Users, v # u
        PROVE  Current(v)' = Current(v) /\ pc'[v] = pc[v]
    BY <1>2, <2>1 DEF Current
  <2>2. Current(u)' = <<u, calls'[u]>>
    BY DEF Current
  <2>3. Current(u)' \notin copies \cup backups /\ writes[Current(u)'] = "none"
    BY <1>3, <1>4, <2>2 DEF Base, TypeOK
  <2> QED
    BY <2>1, <2>3 DEF Base, InStep, Begin, boxVars
<1> QED
  BY <1>5, <1>6 DEF Base

\* A step of an edit on the user's side.
LEMMA EditBase ==
  ASSUME Base, NEW u \in Users, Edit(u), ~Begin(u, "reading")
  PROVE  Base'
<1> DEFINE c == Current(u)
<1>1. pc[u] # "idle" /\ c \in Calls /\ Made(c)
  BY CurrentIsCall DEF Base, Edit, ReadConfig, NothingRead, SendCopy, CopyEnds,
     CopyTimesOut, NoList, SendWrite, WriteEnds, WriteTimesOut
<1>2. UNCHANGED calls /\ UNCHANGED <<whole, up, backups, said, unstarted>>
  BY DEF Edit, ReadConfig, NothingRead, SendCopy, CopyEnds, CopyTimesOut, NoList,
     SendWrite, WriteEnds, WriteTimesOut, Fails, boxVars, lostVars
<1>3. \A v \in Users : Current(v)' = Current(v)
  BY <1>2 DEF Current
<1>4. \A d \in Calls : Made(d)' = Made(d)
  BY <1>2 DEF Made
<1>5. \A v \in Users \ {u} : Current(v) # c
  BY CallsApart
<1>6. CASE ReadConfig(u)
  BY <1>1, <1>2, <1>3, <1>4, <1>6
     DEF ReadConfig, Base, TypeOK, InStep, Goto, Labels, boxVars, lostVars
<1>7. CASE Fails(u)
  BY <1>1, <1>2, <1>3, <1>4, <1>7
     DEF Fails, Base, TypeOK, InStep, Goto, Labels, boxVars, lostVars
<1>8. CASE SendCopy(u)
  BY <1>1, <1>2, <1>3, <1>4, <1>5, <1>8
     DEF SendCopy, Base, TypeOK, InStep, Goto, Labels, lostVars
<1>9. CASE CopyEnds(u)
  BY <1>1, <1>2, <1>3, <1>4, <1>5, <1>9
     DEF CopyEnds, Base, TypeOK, InStep, Goto, Labels
<1>10. CASE SendWrite(u)
  BY <1>1, <1>2, <1>3, <1>4, <1>5, <1>10
     DEF SendWrite, Base, TypeOK, InStep, Goto, Labels, lostVars
<1> QED
  BY <1>6, <1>7, <1>8, <1>9, <1>10
     DEF Edit, NothingRead, CopyTimesOut, NoList, WriteEnds, WriteTimesOut

LEMMA ResetBase ==
  ASSUME Base, NEW u \in Users, Reset(u), ~Begin(u, "stopping")
  PROVE  Base'
<1>1. /\ UNCHANGED <<whole, backups, copies, writes, calls, texts, uncopied>>
      /\ pc[u] \in {"stopping", "resetting", "starting"}
  BY DEF Reset, StopServices, ResetDevice, StartServices, ResetTimesOut, boxVars, lostVars
<1>2. /\ up' \in BOOLEAN /\ said' \in [Users -> BOOLEAN] /\ unstarted' \subseteq Users
      /\ \E label \in {"idle", "resetting", "starting"} : Goto(u, label)
  BY DEF Base, TypeOK, Reset, StopServices, ResetDevice, StartServices, ResetTimesOut,
         boxVars, lostVars
<1>3. calls[u] > 0
  BY <1>1 DEF Base, TypeOK
<1>4. \A v \in Users : Current(v)' = Current(v)
  BY <1>1 DEF Current
<1>5. \A d \in Calls : Made(d)' = Made(d)
  BY <1>1 DEF Made
<1>6. pc' \in [Users -> Labels] /\ (\A v \in Users \ {u} : pc'[v] = pc[v])
      /\ pc'[u] \in {"idle", "resetting", "starting"}
  BY <1>2 DEF Base, TypeOK, Goto, Labels
<1> QED
  BY <1>1, <1>2, <1>3, <1>4, <1>5, <1>6 DEF Base, TypeOK, InStep

\* A step of a command on the callbox.
LEMMA CommandBase ==
  ASSUME Base, NEW c \in Calls, Command(c)
  PROVE  Base'
<1>1. UNCHANGED <<userVars, lostVars>> /\ UNCHANGED up
  BY DEF Command, Copy, Truncate, Fill, WriteBreaks
<1>2. \A v \in Users : Current(v)' = Current(v)
  BY <1>1 DEF Current, userVars
<1>3. \A d \in Calls : Made(d)' = Made(d)
  BY <1>1 DEF Made, userVars
<1>4. CASE Copy(c)
  BY <1>1, <1>2, <1>3, <1>4 DEF Copy, Base, TypeOK, InStep, userVars, lostVars
<1>5. CASE Truncate(c)
  <2>1. Made(c) /\ c \notin copies
    BY <1>5 DEF Truncate, Base, TypeOK
  <2>2. /\ writes' \in [Calls -> {"none", "sent", "open"}]
        /\ \A d \in Calls : d # c => writes'[d] = writes[d]
    BY <1>5 DEF Truncate, Base, TypeOK
  <2>3. TypeOK'
    BY <1>1, <1>3, <1>5, <2>1, <2>2 DEF Truncate, Base, TypeOK, userVars, lostVars
  <2>4. \A u \in Users : pc[u] \in {"reading", "backing", "copying", "inserting"}
                           => Current(u) # c
    BY <1>5 DEF Truncate, Base, InStep
  <2>5. \A u \in Users : pc[u] # "idle" => Current(u) \in Calls
    BY CurrentIsCall DEF Base
  <2>6. InStep'
    BY <1>1, <1>2, <1>5, <2>2, <2>4, <2>5 DEF Truncate, Base, InStep, userVars
  <2> QED
    BY <2>3, <2>6 DEF Base
<1>6. CASE Fill(c)
  BY <1>1, <1>2, <1>3, <1>6 DEF Fill, Base, TypeOK, InStep, userVars, lostVars
<1>7. CASE WriteBreaks(c)
  BY <1>1, <1>2, <1>3, <1>7 DEF WriteBreaks, Base, TypeOK, InStep, userVars, lostVars
<1> QED
  BY <1>4, <1>5, <1>6, <1>7 DEF Command

LEMMA StillBase == Base /\ UNCHANGED vars => Base'
BY DEF Base, TypeOK, InStep, Current, Made, vars, boxVars, userVars, lostVars

LEMMA NextBase == Base /\ [Next]_vars => Base'
<1> SUFFICES ASSUME Base, [Next]_vars PROVE Base'
  OBVIOUS
<1>1. ASSUME NEW u \in Users, Edit(u) \/ Reset(u) PROVE Base'
  BY <1>1, BeginBase, EditBase, ResetBase
<1>2. ASSUME NEW c \in Calls, Command(c) PROVE Base'
  BY <1>2, CommandBase
<1>3. CASE UNCHANGED vars
  BY <1>3, StillBase
<1> QED
  BY <1>1, <1>2, <1>3 DEF Next, AllCallsMade

\* Every value is of its type, and only calls that were made have commands on the
\* callbox, one at a time, failures or not.
THEOREM AdminTypeCorrect == Spec => []TypeOK
<1>1. Spec => []Base
  BY InitBase, NextBase, PTL DEF Spec
<1> QED
  BY <1>1, PTL DEF Base

----------------------------------------------------------------------------
(* A whole configuration remains.                                           *)

\* There is a whole copy, unless one has failed.
Saved == backups # {} \/ uncopied # {}

\* Who may empty the file has a whole copy on the callbox, if not of his own then of
\* somebody before him: his own copy found the file whole, or emptied already.
CopiedFirst ==
    /\ Recoverable
    /\ copies \cap backups = {}
    /\ \A c \in Calls : writes[c] # "none" => Saved
    /\ \A u \in Users :
          (pc[u] = "inserting" \/ (pc[u] = "copying" /\ Current(u) \notin copies))
              => Saved

RecoverableInv == Base /\ CopiedFirst

LEMMA InitCopied == Init => CopiedFirst
BY DEF Init, CopiedFirst, Recoverable, Saved

\* What neither the file nor the backups depend on.
LEMMA Elsewhere ==
  ASSUME CopiedFirst, NEW u \in Users,
         UNCHANGED <<whole, backups, copies, writes, uncopied>>,
         \A v \in Users \ {u} : calls'[v] = calls[v] /\ pc'[v] = pc[v],
         pc'[u] \notin {"copying", "inserting"}
  PROVE  CopiedFirst'
<1>1. \A v \in Users : pc'[v] \in {"copying", "inserting"} =>
          pc'[v] = pc[v] /\ Current(v)' = Current(v)
  BY DEF Current
<1> QED
  BY <1>1 DEF CopiedFirst, Recoverable, Saved

LEMMA EditCopied ==
  ASSUME Backup, Base, CopiedFirst, NEW u \in Users, Edit(u)
  PROVE  CopiedFirst'
<1>1. CASE Begin(u, "reading") \/ ReadConfig(u) \/ Fails(u)
  <2>1. /\ UNCHANGED <<whole, backups, copies, writes, uncopied>>
        /\ \A v \in Users \ {u} : calls'[v] = calls[v] /\ pc'[v] = pc[v]
        /\ pc'[u] \notin {"copying", "inserting"}
    BY <1>1 DEF Begin, ReadConfig, Fails, Goto, Base, TypeOK, boxVars, lostVars
  <2> QED
    BY <2>1, Elsewhere
<1>2. CASE SendCopy(u)
  <2>1. Current(u) \notin backups /\ calls' = calls
    BY <1>2 DEF SendCopy, Base, InStep
  <2>2. \A v \in Users : v # u => pc'[v] = pc[v]
    BY <1>2 DEF SendCopy, Goto, Base, TypeOK
  <2>3. \A v \in Users : Current(v)' = Current(v)
    BY <2>1 DEF Current
  <2>4. pc'[u] = "copying" /\ Current(u) \in copies'
    BY <1>2 DEF SendCopy, Goto, Base, TypeOK
  <2> QED
    BY <1>2, <2>1, <2>2, <2>3, <2>4 DEF SendCopy, CopiedFirst, lostVars,
       Recoverable, Saved
<1>3. CASE CopyEnds(u)
  <2>1. Saved'
    <3>1. CASE Current(u) \in copies
      BY <1>3, <3>1 DEF CopyEnds, Saved
    <3>2. CASE Current(u) \notin copies
      BY <1>3, <3>2 DEF CopyEnds, CopiedFirst, Saved
    <3> QED
      BY <3>1, <3>2
  <2>2. copies' \cap backups' = {}
    BY <1>3 DEF CopyEnds, CopiedFirst
  <2> QED
    BY <2>1, <2>2 DEF CopiedFirst, Recoverable, Saved
<1>4. CASE SendWrite(u)
  <2>1. Saved
    BY <1>4 DEF SendWrite, CopiedFirst
  <2> QED
    BY <1>4, <2>1 DEF SendWrite, CopiedFirst, Recoverable, lostVars, Saved
<1> QED
  BY <1>1, <1>2, <1>3, <1>4
     DEF Edit, NothingRead, CopyTimesOut, NoList, WriteEnds, WriteTimesOut

LEMMA ResetCopied ==
  ASSUME Base, CopiedFirst, NEW u \in Users, Reset(u)
  PROVE  CopiedFirst'
<1>1. /\ UNCHANGED <<whole, backups, copies, writes, uncopied>>
      /\ \A v \in Users \ {u} : calls'[v] = calls[v] /\ pc'[v] = pc[v]
      /\ pc'[u] \notin {"copying", "inserting"}
  BY DEF Reset, Begin, StopServices, ResetDevice, StartServices, ResetTimesOut,
         Goto, Base, TypeOK, boxVars, lostVars
<1> QED
  BY <1>1, Elsewhere

\* The copy of a file that is whole is one; that of a file that is not is made when
\* there is another.
LEMMA CommandCopied ==
  ASSUME CopiedFirst, NEW c \in Calls, Command(c)
  PROVE  CopiedFirst'
<1>1. pc' = pc /\ \A u \in Users : Current(u)' = Current(u)
  BY DEF Command, Copy, Truncate, Fill, WriteBreaks, userVars, Current
<1>2. CASE Copy(c)
  <2>1. Saved'
    BY <1>2 DEF Copy, CopiedFirst, Recoverable, lostVars, Saved
  <2>2. copies' \cap backups' = {} /\ writes' = writes
    BY <1>2 DEF Copy, CopiedFirst, Saved
  <2> QED
    BY <2>1, <2>2 DEF CopiedFirst, Recoverable, Saved
<1>3. CASE Truncate(c) \/ Fill(c) \/ WriteBreaks(c)
  <2>1. Saved /\ Saved' /\ backups' = backups /\ copies' = copies
    BY <1>3 DEF Truncate, Fill, WriteBreaks, CopiedFirst, Saved, lostVars
  <2> QED
    BY <1>1, <2>1 DEF CopiedFirst, Recoverable, Saved
<1> QED
  BY <1>2, <1>3 DEF Command

LEMMA NextCopied ==
  ASSUME Backup
  PROVE  Base /\ CopiedFirst /\ [Next]_vars => CopiedFirst'
<1> SUFFICES ASSUME Base, CopiedFirst, [Next]_vars PROVE CopiedFirst'
  OBVIOUS
<1>1. ASSUME NEW u \in Users, Edit(u) \/ Reset(u) PROVE CopiedFirst'
  BY <1>1, EditCopied, ResetCopied
<1>2. ASSUME NEW c \in Calls, Command(c) PROVE CopiedFirst'
  BY <1>2, CommandCopied
<1>3. CASE UNCHANGED vars
  BY <1>3 DEF CopiedFirst, Recoverable, Current, vars, boxVars, userVars, lostVars, Saved
<1> QED
  BY <1>1, <1>2, <1>3 DEF Next, AllCallsMade

\* The callbox has a whole mme.cfg, in its place or as a backup, after any number of
\* edits by any users, whose writes break or come late, if they ask for backups: until
\* an edit goes on after a copy that failed.
THEOREM RecoverableCorrect ==
  ASSUME Backup
  PROVE  Spec => []Recoverable
<1>1. Init => RecoverableInv
  BY InitBase, InitCopied DEF RecoverableInv
<1>2. RecoverableInv /\ [Next]_vars => RecoverableInv'
  BY NextBase, NextCopied DEF RecoverableInv
<1>3. RecoverableInv => Recoverable
  BY DEF RecoverableInv, CopiedFirst, Saved
<1> QED
  BY <1>1, <1>2, <1>3, PTL DEF Spec

----------------------------------------------------------------------------
(* A reset that leaves the services down says so.                           *)

\* A step that leaves the services and the answers alone, and no reset.
LEMMA AsideSaid ==
  ASSUME StoppedIsSaid, UNCHANGED <<up, said, unstarted>>,
         \A u \in Users : pc[u] \in {"resetting", "starting"} => pc'[u] = pc[u]
  PROVE  StoppedIsSaid'
BY DEF StoppedIsSaid

LEMMA EditSaid ==
  ASSUME TypeOK, StoppedIsSaid, NEW u \in Users, Edit(u) \/ Begin(u, "stopping")
  PROVE  StoppedIsSaid'
<1>1. UNCHANGED <<up, said, unstarted>> /\ pc[u] \notin {"resetting", "starting"}
  BY DEF Edit, Begin, ReadConfig, NothingRead, SendCopy, CopyEnds, CopyTimesOut, NoList,
         SendWrite, WriteEnds, WriteTimesOut, Fails, boxVars, lostVars
<1>2. \A v \in Users \ {u} : pc'[v] = pc[v]
  BY DEF Edit, Begin, ReadConfig, NothingRead, SendCopy, CopyEnds, CopyTimesOut, NoList,
         SendWrite, WriteEnds, WriteTimesOut, Fails, Goto, TypeOK
<1> QED
  BY <1>1, <1>2, AsideSaid

\* Whoever stops the services goes on to start them, or says that he did not; and
\* what he said stands until he has tried to start them once more.
LEMMA ResetSaid ==
  ASSUME TypeOK, StoppedIsSaid, NEW u \in Users, Reset(u)
  PROVE  StoppedIsSaid'
<1>1. CASE Begin(u, "stopping")
  BY <1>1, EditSaid
<1>2. CASE StopServices(u)
  BY <1>2 DEF StopServices, Goto, TypeOK, StoppedIsSaid
<1>3. CASE ResetDevice(u)
  <2>1. pc'[u] = "starting"
    BY <1>3 DEF ResetDevice, Goto, TypeOK
  <2> QED
    BY <1>3, <2>1 DEF StoppedIsSaid
<1>4. CASE StartServices(u)
  BY <1>4 DEF StartServices, StoppedIsSaid
<1>5. CASE ResetTimesOut(u)
  BY <1>5 DEF ResetTimesOut, TypeOK, StoppedIsSaid
<1> QED
  BY <1>1, <1>2, <1>3, <1>4, <1>5 DEF Reset

LEMMA NextSaid ==
  ASSUME TypeOK, StoppedIsSaid, [Next]_vars
  PROVE  StoppedIsSaid'
<1>1. ASSUME NEW u \in Users, Edit(u) \/ Reset(u) PROVE StoppedIsSaid'
  BY <1>1, EditSaid, ResetSaid
<1>2. ASSUME NEW c \in Calls, Command(c) PROVE StoppedIsSaid'
  BY <1>2, AsideSaid DEF Command, Copy, Truncate, Fill, WriteBreaks, userVars, lostVars
<1>3. CASE UNCHANGED vars
  BY <1>3, AsideSaid DEF vars, boxVars, userVars, lostVars
<1> QED
  BY <1>1, <1>2, <1>3 DEF Next, AllCallsMade

\* Services that are down are about to be started by whoever stopped them, or one of
\* reset_sdr()'s callers has been told False, or True after a start that failed: any
\* number of users stop and start them under each other, and any command may fail.
THEOREM StoppedIsSaidCorrect == Spec => []StoppedIsSaid
<1>1. Init => StoppedIsSaid
  BY DEF Init, StoppedIsSaid
<1>2. TypeOK /\ StoppedIsSaid /\ [Next]_vars => StoppedIsSaid'
  BY NextSaid
<1> QED
  BY <1>1, <1>2, AdminTypeCorrect, PTL DEF Spec
=============================================================================
