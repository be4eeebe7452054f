---------------------------- MODULE MailMonitor ----------------------------
(***************************************************************************)
(* The IMAP monitor of one mail channel: one task that selects the folder,  *)
(* reads the newest UID, fetches what is above its cursor, hands each mail  *)
(* over and writes down how far it came, in two files no step writes        *)
(* together.  Mail arrives, is expunged and the mailbox is recreated under  *)
(* it; commands and writes fail; the process is cancelled, killed and       *)
(* started again, at any of its steps.                                      *)
(*                                                                          *)
(* A mail is its UID within an epoch (UIDVALIDITY).  The folder cannot be   *)
(* recreated inside a selected session: the server ends that session first, *)
(* which is a failed command here.                                          *)
(***************************************************************************)
EXTENDS Integers, FiniteSets

CONSTANTS
    MaxMails,      \* bound: mails that arrive, in all epochs
    MaxEpoch,      \* bound: times the mailbox is created
    MaxFaults,     \* bound: commands and writes that fail
    MaxStops,      \* bound: cancellations and kills
    CompactAbove,  \* COMPACTION_THRESHOLD
    KeepBelow,     \* COMPACTION_KEEP_BUFFER
    Reports        \* whether the server reports UIDVALIDITY at every SELECT

ASSUME BoundAssumption ==
    /\ MaxMails \in Nat /\ MaxEpoch \in Nat \ {0}
    /\ MaxFaults \in Nat /\ MaxStops \in Nat
ASSUME CompactionAssumption == CompactAbove \in Nat /\ KeepBelow \in Nat
ASSUME ReportsAssumption == Reports \in BOOLEAN

Uid == 1 .. MaxMails
Epoch == 1 .. MaxEpoch
Mail == Epoch \X Uid
None == 0

VARIABLES
    epoch,      \* UIDVALIDITY of the mailbox
    next,       \* the UID its next mail will have
    inbox,      \* the UIDs it holds
    validity,   \* memory: the epoch the UIDs below belong to, or None
    cursor,     \* memory: last_processed_uid, or None
    processed,  \* memory: processed_uids
    stateFile,  \* .state.json: absent, torn, or whole
    uidsFile,   \* .processed-uids.txt
    pc,         \* where the monitor is
    selected,   \* what SELECT reported: whether there is mail, and the epoch
    to,         \* the newest UID, up to which is fetched
    batch,      \* fetched and not yet looked at
    after,      \* where the monitor goes after a save or a reset
    cancelled,  \* the channel's cancellation token
    mails, faults, stops,  \* counters of the bounds
    handed,     \* history: mails given to on_message
    again,      \* history: mails given to it more than once
    failed,     \* history: mails whose processing failed
    cut,        \* history: mails a cancellation left in the batch
    untracked,  \* history: mails whose hand-over is not sure to be on disk
    carried,    \* history: UIDs read back from disk of no mail handed over
    base        \* history: epoch -> where its cursor started, or None

server == <<epoch, next, inbox>>
memory == <<validity, cursor, processed>>
files == <<stateFile, uidsFile>>
control == <<pc, selected, to, batch, after, cancelled>>
budget == <<mails, faults, stops>>
history == <<handed, again, failed, cut, untracked, carried, base>>
vars == <<server, memory, files, control, budget, history>>

AbsentFile == [kind |-> "absent", validity |-> None, cursor |-> None]
TornFile == [kind |-> "torn", validity |-> None, cursor |-> None]
SavedFile == [kind |-> "whole", validity |-> validity, cursor |-> cursor]

\* The local variables of a check end with it.
NoMailbox == [mail |-> FALSE, epoch |-> None]
CheckEnds ==
    /\ selected' = NoMailbox /\ to' = None
    /\ batch' = {} /\ after' = "loop"

Newest(uids) == CHOOSE u \in uids : \A v \in uids : v <= u
Oldest(uids) == CHOOSE u \in uids : \A v \in uids : u <= v

Init ==
    /\ epoch = 1 /\ next = 1 /\ inbox = {}
    /\ validity = None /\ cursor = None /\ processed = {}
    /\ stateFile = AbsentFile /\ uidsFile = {}
    /\ pc = "down" /\ selected = NoMailbox
    /\ to = None /\ batch = {} /\ after = "loop" /\ cancelled = FALSE
    /\ mails = 0 /\ faults = 0 /\ stops = 0
    /\ handed = {} /\ again = {} /\ failed = {} /\ cut = {}
    /\ untracked = {} /\ carried = {} /\ base = [e \in Epoch |-> None]

----------------------------------------------------------------------------
\* The mailbox, which other clients and the world change.

Arrive ==
    /\ mails < MaxMails /\ mails' = mails + 1
    /\ inbox' = inbox \cup {next} /\ next' = next + 1
    /\ UNCHANGED <<epoch, memory, files, control, faults, stops, history>>

Expunge(u) ==
    /\ u \in inbox
    /\ inbox' = inbox \ {u}
    /\ UNCHANGED <<epoch, next, memory, files, control, budget, history>>

Recreate ==
    /\ epoch < MaxEpoch /\ pc \in {"down", "loop"}
    /\ epoch' = epoch + 1 /\ next' = 1 /\ inbox' = {}
    /\ UNCHANGED <<memory, files, control, budget, history>>

----------------------------------------------------------------------------
\* Starting: initialize reads both files, and --reset clears them after that.

\* The UIDs of the file that are of no mail handed over in the file's epoch.
Stale(uids, e) ==
    {u \in uids : e = None \/ <<e, u>> \notin handed}

Start(reset) ==
    /\ pc = "down" /\ stateFile.kind # "torn"
    /\ IF reset
         THEN /\ validity' = None /\ cursor' = None /\ processed' = {}
              /\ untracked' = untracked \cup handed
              /\ pc' = "rmState"
         ELSE /\ validity' = stateFile.validity /\ cursor' = stateFile.cursor
              /\ processed' = uidsFile
              /\ pc' = "loop" /\ UNCHANGED untracked
    /\ carried' = carried \cup Stale(uidsFile, stateFile.validity)
    /\ after' = "loop" /\ cancelled' = FALSE
    /\ UNCHANGED <<server, files, selected, to, batch, budget,
                   handed, again, failed, cut, base>>

----------------------------------------------------------------------------
\* One round: connect, select, compare epochs.  At "loop" the monitor is at the
\* top of its loop or asleep at the end of it: in IDLE, in its poll interval.

Select ==
    /\ pc = "loop" /\ ~cancelled
    /\ \E reported \in IF Reports THEN {epoch} ELSE {epoch, None} :
           selected' = [mail |-> inbox # {}, epoch |-> reported]
    /\ pc' = "validity"
    /\ UNCHANGED <<server, memory, files, to, batch, after, cancelled,
                   budget, history>>

\* The monitor waits out its backoff and tries again, however often.
ConnectFails ==
    /\ pc = "loop" /\ ~cancelled
    /\ faults < MaxFaults /\ faults' = faults + 1
    /\ UNCHANGED <<server, memory, files, control, mails, stops, history>>

\* Mutant of ValidityAction: an epoch once recorded is never compared.
NeverReset(stored, reported) ==
    IF stored = None /\ reported # None THEN "record" ELSE "keep"

\* A server that reports no epoch changes nothing.
ValidityAction(stored, reported) ==
    IF reported \in {None, stored} THEN "keep"
    ELSE IF stored = None THEN "record" ELSE "reset"

CheckValidity ==
    /\ pc = "validity"
    /\ LET action == ValidityAction(validity, selected.epoch) IN
         \/ /\ action = "keep" /\ pc' = "newest" /\ UNCHANGED <<memory, after, untracked>>
         \/ /\ action = "record"
            /\ validity' = selected.epoch
            /\ pc' = "truncate" /\ after' = "newest"
            /\ UNCHANGED <<cursor, processed, untracked>>
         \/ /\ action = "reset"
            /\ validity' = None /\ cursor' = None /\ processed' = {}
            /\ untracked' = untracked \cup {m \in handed : m[1] = selected.epoch}
            /\ pc' = "rmState" /\ after' = "newest"
    /\ UNCHANGED <<server, files, selected, to, batch, cancelled, budget,
                   handed, again, failed, cut, carried, base>>

\* reset: the two files are removed one after the other.
RemoveState ==
    /\ pc = "rmState" /\ pc' = "rmUids"
    /\ stateFile' = AbsentFile
    /\ UNCHANGED <<server, memory, uidsFile, selected, to, batch, after, cancelled,
                   budget, history>>

RemoveUids ==
    /\ pc = "rmUids" /\ uidsFile' = {}
    /\ \/ /\ after = "newest" /\ validity' = selected.epoch /\ pc' = "truncate"
       \/ /\ after = "loop" /\ pc' = "loop" /\ UNCHANGED validity
    /\ UNCHANGED <<server, cursor, processed, stateFile, selected, to, batch, after,
                   cancelled, budget, history>>

----------------------------------------------------------------------------
\* save: the file is truncated, then written.

Truncate ==
    /\ pc = "truncate" /\ pc' = "write"
    /\ stateFile' = TornFile
    /\ UNCHANGED <<server, memory, uidsFile, selected, to, batch, after, cancelled,
                   budget, history>>

WriteState ==
    /\ pc = "write" /\ pc' = after
    /\ stateFile' = SavedFile
    /\ \/ after = "newest" /\ UNCHANGED <<selected, to, batch, after>>
       \/ after # "newest" /\ CheckEnds
    /\ UNCHANGED <<server, memory, uidsFile, cancelled, budget, history>>

----------------------------------------------------------------------------
\* Fetching what is above the cursor.

\* Mutant of NothingNew: a single new mail is not seen.
NothingNewButOne(last, newest) == newest = None \/ (last # None /\ newest <= last + 1)

\* An empty mailbox, nothing above the cursor, or a cursor that is ahead because
\* the newest mail was expunged.
NothingNew(last, newest) == newest = None \/ (last # None /\ newest <= last)

\* A first check does not replay the folder.
FetchFrom(last, newest) == IF last = None THEN newest ELSE last + 1

FindNewest ==
    /\ pc = "newest"
    /\ LET newest == IF selected.mail /\ inbox # {} THEN Newest(inbox) ELSE None IN
           \/ NothingNew(cursor, newest) /\ pc' = "loop" /\ CheckEnds
           \/ /\ ~NothingNew(cursor, newest)
              /\ pc' = "fetch" /\ to' = newest
              /\ UNCHANGED <<selected, batch, after>>
    /\ UNCHANGED <<server, memory, files, cancelled, budget, history>>

Fetch ==
    /\ pc = "fetch" /\ pc' = "each"
    /\ batch' = inbox \cap (FetchFrom(cursor, to) .. to)
    /\ UNCHANGED <<server, memory, files, selected, to, after, cancelled,
                   budget, history>>

----------------------------------------------------------------------------
\* The batch, oldest first.

Current == Oldest(batch)
CurrentMail == <<epoch, Current>>
AtMail == pc = "each" /\ batch # {} /\ ~cancelled

Skip ==
    /\ AtMail /\ Current \in processed
    /\ batch' = batch \ {Current}
    /\ UNCHANGED <<server, memory, files, pc, selected, to, after, cancelled,
                   budget, history>>

HandOver ==
    /\ AtMail /\ Current \notin processed
    /\ handed' = handed \cup {CurrentMail}
    /\ again' = IF CurrentMail \in handed THEN again \cup {CurrentMail} ELSE again
    /\ pc' = "track"
    /\ UNCHANGED <<server, memory, files, selected, to, batch, after, cancelled,
                   budget, failed, cut, untracked, carried, base>>

\* The mail cannot be parsed, or the callback returns an error.
ProcessFails ==
    /\ AtMail /\ Current \notin processed
    /\ failed' = failed \cup {CurrentMail}
    /\ batch' = batch \ {Current}
    /\ UNCHANGED <<server, memory, files, pc, selected, to, after, cancelled,
                   budget, handed, again, cut, untracked, carried, base>>

Kept(uids) == {u \in uids : u >= cursor - KeepBelow}

Compacts(uids) ==
    /\ Cardinality(uids) > CompactAbove
    /\ cursor > KeepBelow
    /\ Kept(uids) # uids

\* History: what compaction forgets although the cursor on disk is not past it.
Forgotten(uids) ==
    {<<validity, u>> : u \in {v \in uids \ Kept(uids) :
        stateFile.validity # validity \/ stateFile.cursor < v}}

\* Mutant of Track: the UID is remembered and not appended.
TrackInMemory ==
    /\ pc = "track" /\ pc' = "each"
    /\ processed' = processed \cup {Current}
    /\ batch' = batch \ {Current}
    /\ UNCHANGED <<server, validity, cursor, files, selected, to, after, cancelled,
                   budget, history>>

\* track_uid: the UID is appended, and a set that has grown long is compacted, in
\* memory and then in the file.
Track ==
    /\ pc = "track" /\ batch' = batch \ {Current}
    /\ LET grown == processed \cup {Current} IN
         \/ /\ Compacts(grown)
            /\ processed' = Kept(grown)
            /\ untracked' = untracked \cup (handed \cap Forgotten(grown))
            /\ pc' = "rewrite"
         \/ /\ ~Compacts(grown)
            /\ processed' = grown
            /\ pc' = "each" /\ UNCHANGED untracked
    /\ uidsFile' = uidsFile \cup {Current}
    /\ UNCHANGED <<server, validity, cursor, stateFile, selected, to, after,
                   cancelled, budget, handed, again, failed, cut, carried, base>>

Rewrite ==
    /\ pc = "rewrite" /\ pc' = "each"
    /\ uidsFile' = processed
    /\ UNCHANGED <<server, memory, stateFile, selected, to, batch, after, cancelled,
                   budget, history>>

\* The rewriting fails before the file is opened, or after it was truncated: the
\* error is dropped and the batch goes on, with less in the file than in memory.  A
\* line is written whole or not at all, here and when one is appended.
LeftOver == {uidsFile} \cup SUBSET processed

Erased(file) == {m \in handed : m[1] = validity /\ m[2] \notin file}

RewriteFails ==
    /\ pc = "rewrite" /\ pc' = "each"
    /\ faults < MaxFaults /\ faults' = faults + 1
    /\ uidsFile' \in LeftOver
    /\ untracked' = untracked \cup Erased(uidsFile')
    /\ UNCHANGED <<server, memory, stateFile, selected, to, batch, after, cancelled,
                   mails, stops, handed, again, failed, cut, carried, base>>

\* The append fails after the UID went into the set: the check ends with an error.
TrackFails ==
    /\ pc = "track" /\ pc' = "loop"
    /\ faults < MaxFaults /\ faults' = faults + 1
    /\ processed' = processed \cup {Current} /\ CheckEnds
    /\ untracked' = untracked \cup {CurrentMail}
    /\ UNCHANGED <<server, validity, cursor, files, cancelled,
                   mails, stops, handed, again, failed, cut, carried, base>>

NewCursor == to

\* Mutant of Advance: the cursor follows the newest UID at once.
AdvanceEarly ==
    /\ pc = "each"
    /\ cursor' = to /\ batch' = {}
    /\ base' = IF cursor = None THEN [base EXCEPT ![epoch] = to] ELSE base
    /\ pc' = "truncate" /\ after' = "loop"
    /\ UNCHANGED <<server, validity, processed, files, selected, to, cancelled,
                   budget, handed, again, failed, cut, untracked, carried>>

\* The batch is done, or a cancellation ends it: either way the cursor moves
\* past all of it.
Advance ==
    /\ pc = "each" /\ (batch = {} \/ cancelled)
    /\ cut' = cut \cup {<<epoch, u>> : u \in batch}
    /\ cursor' = NewCursor /\ batch' = {}
    /\ base' = IF cursor = None THEN [base EXCEPT ![epoch] = to] ELSE base
    /\ pc' = "truncate" /\ after' = "loop"
    /\ UNCHANGED <<server, validity, processed, files, selected, to, cancelled,
                   budget, handed, again, failed, untracked, carried>>

----------------------------------------------------------------------------
\* A command or a write of the check fails: the connection is dropped and the
\* loop begins anew, with the memory as the failure left it.  A failed write of
\* the clean-up ends the monitor, and a failed --reset its start.
OutsideLoop ==
    \/ pc \in {"truncate", "write"} /\ after = "down"
    \/ pc \in {"rmState", "rmUids"} /\ after = "loop"

CheckFails ==
    /\ pc \in {"newest", "fetch", "rmState", "rmUids", "truncate", "write"}
    /\ faults < MaxFaults /\ faults' = faults + 1
    /\ pc' = IF OutsideLoop THEN "down" ELSE "loop"
    /\ CheckEnds
    /\ UNCHANGED <<server, memory, files, cancelled, mails, stops, history>>

CleanUp ==
    /\ pc = "loop" /\ cancelled
    /\ pc' = "truncate" /\ after' = "down"
    /\ UNCHANGED <<server, memory, files, selected, to, batch, cancelled,
                   budget, history>>

Cancel ==
    /\ pc # "down" /\ ~cancelled
    /\ stops < MaxStops /\ stops' = stops + 1
    /\ cancelled' = TRUE
    /\ UNCHANGED <<server, memory, files, pc, selected, to, batch, after, mails, faults,
                   history>>

\* The process is killed.  A mail handed over and not yet appended is forgotten,
\* and so is what a rewriting that is cut short leaves out.
Crash ==
    /\ pc # "down"
    /\ stops < MaxStops /\ stops' = stops + 1
    /\ uidsFile' \in IF pc = "rewrite" THEN LeftOver ELSE {uidsFile}
    /\ untracked' = untracked \cup
         (IF pc = "track" THEN {CurrentMail}
          ELSE IF pc = "rewrite" THEN Erased(uidsFile')
          ELSE {})
    /\ validity' = None /\ cursor' = None /\ processed' = {}
    /\ pc' = "down" /\ CheckEnds /\ cancelled' = FALSE
    /\ UNCHANGED <<server, stateFile, mails, faults,
                   handed, again, failed, cut, carried, base>>

----------------------------------------------------------------------------
\* What the running monitor does by itself when nothing fails.
Step ==
    \/ Select \/ CheckValidity \/ RemoveState \/ RemoveUids
    \/ Truncate \/ WriteState \/ FindNewest \/ Fetch
    \/ Skip \/ HandOver \/ Track \/ Rewrite \/ Advance
    \/ CleanUp

Next ==
    \/ Arrive \/ (\E u \in Uid : Expunge(u)) \/ Recreate
    \/ Start(TRUE) \/ Start(FALSE)
    \/ Step
    \/ ConnectFails \/ ProcessFails \/ TrackFails \/ RewriteFails \/ CheckFails
    \/ Cancel \/ Crash

\* The task runs on; nothing promises a restart, and failures are bounded by MaxFaults.
Spec == Init /\ [][Next]_vars /\ WF_vars(Step)

----------------------------------------------------------------------------
States == {"down", "loop", "validity", "rmState", "rmUids", "truncate", "write",
           "newest", "fetch", "each", "track", "rewrite"}

\* The variables of the monitor have their types.
TypeOK ==
    /\ epoch \in Epoch /\ next \in 1 .. MaxMails + 1 /\ inbox \subseteq Uid
    /\ validity \in Epoch \cup {None} /\ cursor \in Uid \cup {None}
    /\ processed \subseteq Uid /\ uidsFile \subseteq Uid
    /\ stateFile \in [kind : {"absent", "torn", "whole"},
                      validity : Epoch \cup {None}, cursor : Uid \cup {None}]
    /\ pc \in States /\ after \in {"loop", "newest", "down"}
    /\ selected \in [mail : BOOLEAN, epoch : Epoch \cup {None}]
    /\ to \in Uid \cup {None} /\ batch \subseteq Uid /\ cancelled \in BOOLEAN
    /\ mails \in 0 .. MaxMails /\ faults \in 0 .. MaxFaults /\ stops \in 0 .. MaxStops
    /\ handed \subseteq Mail /\ again \subseteq Mail /\ failed \subseteq Mail
    /\ cut \subseteq Mail /\ untracked \subseteq Mail
    /\ carried \subseteq Uid /\ base \in [Epoch -> Uid \cup {None}]

\* A mail is settled: handed over, failed (which is not retried), left by a
\* cancelled batch, or hidden by a stale UID.
Settled(m) ==
    \/ m \in handed \cup failed \cup cut
    \/ m[2] \in carried

Passed(m, v, c) == v = m[1] /\ c >= m[2] /\ base[v] # None /\ m[2] >= base[v]

\* No mail is passed over: one that is still in the mailbox, from where the
\* cursor of its epoch started up to the cursor, in memory or in the file, is
\* settled.  The cursor moves at the end of a batch, whatever became of it.
NothingSkipped ==
    \A u \in inbox : LET m == <<epoch, u>> IN
        \/ Passed(m, stateFile.validity, stateFile.cursor)
        \/ pc # "down" /\ Passed(m, validity, cursor)
        => Settled(m)

\* A mail is handed over twice only if its line was lost before the cursor was
\* saved: the process died, or the append failed, between its hand-over and the line,
\* compaction dropped the line, or its rewriting failed or was cut short; or if
\* --reset asked for it, or a start read back the epoch before, of a file that two
\* failed steps had left there: its removal, and the write of the new epoch.
TwiceOnlyUntracked == again \subseteq untracked

\* A cursor, in memory or in the file, is one of the epoch recorded with it, and
\* a check fetches and tracks under the epoch of the mailbox it has selected: no
\* cursor of an old mailbox is compared with the UIDs of the new one.
CursorOfEpoch ==
    /\ pc \in {"newest", "fetch", "each", "track", "rewrite"} => validity = epoch
    /\ cursor # None => validity # None /\ base[validity] # None
    /\ stateFile.cursor # None =>
         stateFile.validity # None /\ base[stateFile.validity] # None

Waiting ==
    /\ pc # "down" /\ validity = epoch /\ cursor # None
    /\ \E u \in inbox : cursor < u /\ ~Settled(<<epoch, u>>)

\* While the monitor runs it catches up: of all the mail above its cursor, none
\* stays there unsettled, unless the mailbox is recreated or the process ends.
\* Failed connects, commands and writes only delay it.
CatchesUp == Waiting ~> ~Waiting

----------------------------------------------------------------------------
\* A change of UIDVALIDITY voids every stored UID (monitor.rs, check_for_new).
EpochVoidsUids == carried = {}

\* What a save wrote can be read by the next start (state_manager.rs, load).
StateReadable == pc = "down" => stateFile.kind # "torn"
=============================================================================
