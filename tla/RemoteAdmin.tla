------------------------------- MODULE RemoteAdmin -------------------------------
(****************************************************************************)
(* What the WebSocket package changes on a callbox over SSH: the edit of    *)
(* mme.cfg by Callbox.set_default_apn_persistent() and the reset of a radio *)
(* by SSHClient.reset_sdr().                                                *)
(*                                                                          *)
(* Each command is an ssh process of its own.  A timeout ends that process, *)
(* and leaves the command to the callbox, which may still carry it out, in  *)
(* part or as a whole.  The exit status of ssh is ignored: a command that   *)
(* failed cannot be told from one that was carried out.                     *)
(****************************************************************************)
EXTENDS Integers

CONSTANTS
    Users,      \* programs that administer the callbox
    Backup,     \* the argument `backup` of the edits
    MaxCalls    \* bound: calls of each user

ASSUME UsersAssumption == Users # {}
ASSUME RegimeAssumption == Backup \in BOOLEAN
ASSUME CallsAssumption == MaxCalls \in Nat

\* The n-th call of a user.  A backup is named by the second of its edit; here by
\* the edit, for two edits in one second are not considered.
Calls == Users \X (1..MaxCalls)

VARIABLES
    \* the callbox
    whole,      \* mme.cfg is a whole configuration, and not what is left of one
    backups,    \* the edits whose copy is a whole configuration
    up,         \* the services of lte.service run
    copies,     \* the edits whose `cp` is on its way or under way
    writes,     \* and the state of their `cat >`
    \* the users
    pc,
    calls,      \* calls made
    texts,      \* the edits that read a whole configuration, and will write one
    said,       \* the last reset_sdr() returned True
    \* histories of what only exit statuses told
    uncopied,   \* the edits that went on after a `cp` that failed
    unstarted   \* the users whose last reset_sdr() returned True and left the services down

boxVars  == <<whole, backups, up, copies, writes>>
userVars == <<pc, calls, texts, said>>
lostVars == <<uncopied, unstarted>>
vars     == <<boxVars, userVars, lostVars>>

Labels == {"idle", "reading", "backing", "copying", "inserting", "writing",
           "stopping", "resetting", "starting"}

Current(u) == <<u, calls[u]>>

Goto(u, label) == pc' = [pc EXCEPT ![u] = label]

Init ==
    /\ whole = TRUE /\ backups = {} /\ up = TRUE
    /\ copies = {} /\ writes = [c \in Calls |-> "none"]
    /\ pc = [u \in Users |-> "idle"]
    /\ calls = [u \in Users |-> 0]
    /\ texts = {}
    /\ said = [u \in Users |-> TRUE]
    /\ uncopied = {} /\ unstarted = {}

Begin(u, label) ==
    /\ pc[u] = "idle" /\ calls[u] < MaxCalls
    /\ calls' = [calls EXCEPT ![u] = @ + 1]
    /\ Goto(u, label)
    /\ UNCHANGED <<boxVars, texts, said, lostVars>>

\* An edit returns without success, or raises.
Fails(u) == Goto(u, "idle") /\ UNCHANGED <<boxVars, calls, texts, said, lostVars>>

----------------------------------------------------------------------------
(* set_default_apn_persistent()                                             *)

\* `cat` of a file that has text in it.
ReadConfig(u) ==
    /\ pc[u] = "reading"
    /\ texts' = IF whole THEN texts \cup {Current(u)} ELSE texts
    /\ Goto(u, IF Backup THEN "backing" ELSE "inserting")
    /\ UNCHANGED <<boxVars, calls, said, lostVars>>

\* The file is empty, or there is no answer.
NothingRead(u) == pc[u] = "reading" /\ Fails(u)

SendCopy(u) ==
    /\ pc[u] = "backing"
    /\ copies' = copies \cup {Current(u)}
    /\ Goto(u, "copying")
    /\ UNCHANGED <<whole, backups, up, writes, calls, texts, said, lostVars>>

\* Mutation: there is one backup, the latest.
CopyToOnePlace(c) ==
    /\ c \in copies
    /\ copies' = copies \ {c}
    /\ backups' = IF whole THEN {c} ELSE {}
    /\ UNCHANGED <<whole, up, writes, userVars, lostVars>>

\* The callbox copies the file as it is.
Copy(c) ==
    /\ c \in copies
    /\ copies' = copies \ {c}
    /\ backups' = IF whole THEN backups \cup {c} ELSE backups \ {c}
    /\ UNCHANGED <<whole, up, writes, userVars, lostVars>>

\* Mutation: a timeout of the copy is passed over.
CopyTimeoutIgnored(u) ==
    /\ pc[u] = "copying"
    /\ Goto(u, "inserting")
    /\ UNCHANGED <<boxVars, calls, texts, said, lostVars>>

\* With the copy made, or with one that has failed.
CopyEnds(u) ==
    /\ pc[u] = "copying"
    /\ copies' = copies \ {Current(u)}
    /\ uncopied' = uncopied \cup ({Current(u)} \cap copies)
    /\ Goto(u, "inserting")
    /\ UNCHANGED <<whole, backups, up, writes, calls, texts, said, unstarted>>

\* Raises, with the copy on its way.
CopyTimesOut(u) == pc[u] = "copying" /\ Fails(u)

\* What was read has no pdn_list.
NoList(u) == pc[u] = "inserting" /\ Fails(u)

SendWrite(u) ==
    /\ pc[u] = "inserting"
    /\ writes' = [writes EXCEPT ![Current(u)] = "sent"]
    /\ Goto(u, "writing")
    /\ UNCHANGED <<whole, backups, up, copies, calls, texts, said, lostVars>>

\* `cat >` empties the file,
Truncate(c) ==
    /\ writes[c] = "sent"
    /\ writes' = [writes EXCEPT ![c] = "open"]
    /\ whole' = FALSE
    /\ UNCHANGED <<backups, up, copies, userVars, lostVars>>

\* and fills it.
Fill(c) ==
    /\ writes[c] = "open"
    /\ writes' = [writes EXCEPT ![c] = "none"]
    /\ whole' = (c \in texts)
    /\ UNCHANGED <<backups, up, copies, userVars, lostVars>>

\* A full disk, a connection that breaks, a callbox that restarts.
WriteBreaks(c) ==
    /\ writes[c] # "none"
    /\ writes' = [writes EXCEPT ![c] = "none"]
    /\ UNCHANGED <<whole, backups, up, copies, userVars, lostVars>>

\* Taken for a success in any case. The restart of the MME changes nothing here.
WriteEnds(u) ==
    /\ pc[u] = "writing" /\ writes[Current(u)] = "none"
    /\ Fails(u)

\* Reported, with the write on its way.
WriteTimesOut(u) == pc[u] = "writing" /\ Fails(u)

----------------------------------------------------------------------------
(* reset_sdr()                                                              *)

StopServices(u) ==
    /\ pc[u] = "stopping"
    /\ up' \in {up, FALSE}
    /\ Goto(u, "resetting")
    /\ UNCHANGED <<whole, backups, copies, writes, calls, texts, said, lostVars>>

ResetDevice(u) ==
    /\ pc[u] = "resetting"
    /\ Goto(u, "starting")
    /\ UNCHANGED <<boxVars, calls, texts, said, lostVars>>

StartServices(u) ==
    /\ pc[u] = "starting"
    /\ up' \in {up, TRUE}
    /\ unstarted' = IF up' THEN unstarted \ {u} ELSE unstarted \cup {u}
    /\ said' = [said EXCEPT ![u] = TRUE]
    /\ Goto(u, "idle")
    /\ UNCHANGED <<whole, backups, copies, writes, calls, texts, uncopied>>

\* Mutation: a timeout of the reset is taken for its end.
TimeoutIsTrue(u) ==
    /\ pc[u] \in {"stopping", "resetting", "starting"}
    /\ up' \in CASE pc[u] = "stopping"  -> {up, FALSE}
                 [] pc[u] = "resetting" -> {up}
                 [] pc[u] = "starting"  -> {up, TRUE}
    /\ Goto(u, "idle")
    /\ UNCHANGED <<whole, backups, copies, writes, calls, texts, said, lostVars>>

\* A command times out, done or not, and the rest is left undone.
ResetTimesOut(u) ==
    /\ pc[u] \in {"stopping", "resetting", "starting"}
    /\ up' \in CASE pc[u] = "stopping"  -> {up, FALSE}
                 [] pc[u] = "resetting" -> {up}
                 [] pc[u] = "starting"  -> {up, TRUE}
    /\ said' = [said EXCEPT ![u] = FALSE]
    /\ unstarted' = unstarted \ {u}
    /\ Goto(u, "idle")
    /\ UNCHANGED <<whole, backups, copies, writes, calls, texts, uncopied>>

----------------------------------------------------------------------------
Edit(u) ==
    \/ Begin(u, "reading")
    \/ ReadConfig(u) \/ NothingRead(u)
    \/ SendCopy(u) \/ CopyEnds(u) \/ CopyTimesOut(u)
    \/ NoList(u)
    \/ SendWrite(u) \/ WriteEnds(u) \/ WriteTimesOut(u)

Reset(u) ==
    \/ Begin(u, "stopping")
    \/ StopServices(u) \/ ResetDevice(u) \/ StartServices(u) \/ ResetTimesOut(u)

Command(c) == Copy(c) \/ Truncate(c) \/ Fill(c) \/ WriteBreaks(c)

AllCallsMade ==
    /\ \A u \in Users : pc[u] = "idle" /\ calls[u] = MaxCalls
    /\ UNCHANGED vars

Next ==
    \/ \E u \in Users : Edit(u) \/ Reset(u)
    \/ \E c \in Calls : Command(c)
    \/ AllCallsMade

Spec == Init /\ [][Next]_vars

----------------------------------------------------------------------------
(* Properties                                                               *)

Made(c) == c[2] <= calls[c[1]]

\* Types; and only a call that was made has commands, and one of them at a time.
TypeOK ==
    /\ whole \in BOOLEAN /\ up \in BOOLEAN
    /\ backups \subseteq Calls /\ copies \subseteq Calls /\ texts \subseteq Calls
    /\ writes \in [Calls -> {"none", "sent", "open"}]
    /\ pc \in [Users -> Labels]
    /\ calls \in [Users -> 0..MaxCalls]
    /\ said \in [Users -> BOOLEAN]
    /\ uncopied \subseteq Calls /\ unstarted \subseteq Users
    /\ \A u \in Users : pc[u] # "idle" => calls[u] > 0
    /\ \A c \in copies \cup backups \cup uncopied : Made(c)
    /\ \A c \in Calls : writes[c] # "none" => Made(c) /\ c \notin copies

\* The callbox always has a whole configuration, in its place or as a backup:
\* whatever writes break in the middle or come late, and whoever else edits, an
\* edit has a copy made before it empties the file, and nothing undoes a copy. The
\* one way to lose it is an edit that went on after a copy that failed.
Recoverable == whole \/ backups # {} \/ uncopied # {}

\* Services that a reset stopped are started again, or somebody has been told by
\* a False that they may not be. The one way to be told True of services that are
\* down is a start that failed by its exit status alone.
StoppedIsSaid ==
    ~up => \E u \in Users : \/ pc[u] \in {"resetting", "starting"}
                            \/ ~said[u] \/ u \in unstarted
=============================================================================
