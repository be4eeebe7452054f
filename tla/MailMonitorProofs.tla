------------------------- MODULE MailMonitorProofs -------------------------
(***************************************************************************)
(* Proofs about MailMonitor, for any number of mails, epochs, failures and  *)
(* stops, and any sizes of the compaction.                                  *)
(*                                                                          *)
(* A mail handed over in the epoch of the mailbox must be known from the    *)
(* memory while the monitor runs, and from the files if it were killed now. *)
(* Recorded says both in one: it follows a mail from the hand-over to its   *)
(* line, over the compaction, and to the cursor that covers it, in a state  *)
(* file that is torn between two steps of a save.                           *)
(* Followed, at the end, says the other half: what a cursor passed in the   *)
(* mailbox is settled, because a fetch took all of it and the next mail     *)
(* comes above it.                                                          *)
(***************************************************************************)
EXTENDS MailMonitor, TLAPS, FiniteSetTheorems, WellFoundedInduction

Running == pc # "down"

\* No epoch is later than that of the mailbox.
Epochs ==
    /\ validity <= epoch /\ stateFile.validity <= epoch
    /\ \A m \in handed : m[1] <= epoch

\* A check is about the epoch it has selected, which is that of the mailbox.
Selected ==
    /\ pc = "validity" => selected.epoch = epoch
    /\ pc \in {"rmState", "rmUids", "truncate", "write"} /\ after = "newest"
           => selected.epoch = epoch
    /\ pc \in {"truncate", "write"} /\ after # "down" => validity = epoch
    /\ pc \in {"newest", "fetch", "each", "track", "rewrite"}
           => selected.epoch = epoch /\ validity = epoch
    /\ pc \in {"rmState", "rmUids"} => after # "down"

\* What is fetched is above the cursor.
Above ==
    /\ pc \in {"fetch", "each", "track", "rewrite"} => to > cursor
    /\ \A u \in batch : u > cursor
    /\ pc = "track" => batch # {} /\ CurrentMail \in handed
    /\ batch # {} => pc \in {"each", "track", "rewrite"}

\* A reset forgets, and nothing of this epoch counts any more.
ResetForgets ==
    pc \in {"rmState", "rmUids"} =>
        /\ validity = None /\ cursor = None /\ processed = {}
        /\ \A m \in handed : m[1] = epoch => m \in untracked

\* The state file is never ahead of the memory.
FileBehind ==
    Running /\ stateFile.validity = epoch =>
        \/ pc = "rmState" /\ after = "loop"
        \/ validity = epoch /\ stateFile.cursor <= cursor

CursorBased ==
    /\ cursor # None => validity # None /\ base[validity] # None
    /\ stateFile.cursor # None =>
         stateFile.validity # None /\ base[stateFile.validity] # None

Torn == stateFile.kind = "torn"
TornIsEmpty == Torn => stateFile = TornFile

\* The state file covers the mail.
Covered(m) == stateFile.validity = epoch /\ m[2] <= stateFile.cursor

InMemory(m) ==
    \/ Covered(m)
    \/ Torn /\ m[2] <= cursor
    \/ m[2] \in uidsFile \cap processed
    \/ pc = "track" /\ m = CurrentMail
    \/ pc = "rewrite" /\ m[2] \in processed

OnDisk(m) == m[2] \in uidsFile \/ Covered(m)

\* The file that the next start reads is torn or of an epoch before: the start
\* fails, or a reset follows.
NextStartForgets == Torn \/ stateFile.validity \notin {None, epoch}

Recorded ==
    \A m \in handed \ untracked :
        m[1] = epoch =>
            IF Running /\ validity \in {None, epoch} THEN InMemory(m)
            ELSE NextStartForgets \/ (~Running /\ OnDisk(m))

Control == Epochs /\ Selected /\ Above /\ ResetForgets /\ FileBehind /\ TornIsEmpty

\* A mail's UID is at most the number of mails that arrived.
Counted == next <= mails + 1

IInv ==
    TypeOK /\ Counted /\ Control /\ CursorBased /\ Recorded /\ TwiceOnlyUntracked

----------------------------------------------------------------------------
LEMMA Numbers ==
    ASSUME TypeOK
    PROVE  /\ Uid \subseteq Nat \ {0} /\ Epoch \subseteq Nat \ {0}
           /\ epoch \in Epoch /\ cursor \in Nat /\ validity \in Nat /\ to \in Nat
           /\ stateFile.cursor \in Nat /\ stateFile.validity \in Nat
           /\ batch \subseteq Uid
           /\ selected.epoch \in Epoch \cup {None}
           /\ \A m \in handed : m[1] \in Epoch /\ m[2] \in Uid
<1>1. Uid \subseteq Nat \ {0} /\ Epoch \subseteq Nat \ {0}
  BY BoundAssumption DEF Uid, Epoch
<1>2. /\ epoch \in Epoch /\ cursor \in Nat /\ validity \in Nat /\ to \in Nat
      /\ batch \subseteq Uid
  BY <1>1 DEF TypeOK, None
<1>3. /\ stateFile.cursor \in Uid \cup {None} /\ stateFile.validity \in Epoch \cup {None}
      /\ selected.epoch \in Epoch \cup {None}
  BY DEF TypeOK
<1>4. \A m \in handed : m[1] \in Epoch /\ m[2] \in Uid
  BY DEF TypeOK, Mail
<1>5. stateFile.cursor \in Nat /\ stateFile.validity \in Nat
  <2>1. \A n \in Uid \cup Epoch \cup {None} : n \in Nat
    BY <1>1 DEF None
  <2> QED BY <2>1, <1>3
<1> QED BY <1>1, <1>2, <1>3, <1>4, <1>5

LEMMA Least ==
    ASSUME NEW S, S \subseteq Nat, S # {}
    PROVE  \E m \in S : \A n \in S : m <= n
<1>1. PICK m \in S : \A n \in S : ~(<<n, m>> \in OpToRel(<, Nat))
  BY WFMin, NatLessThanWellFounded, Zenon
<1>2. \A n \in S : ~(n < m)
  BY <1>1 DEF OpToRel
<1> QED BY <1>2

\* A set of UIDs has an oldest one and, as a finite one, a newest one.
LEMMA OldestIn == ASSUME NEW S \in SUBSET Uid, S # {} PROVE Oldest(S) \in S
<1>1. S \subseteq Nat
  BY BoundAssumption DEF Uid
<1>2. \E m \in S : \A n \in S : m <= n
  BY <1>1, Least
<1> QED BY <1>2 DEF Oldest

LEMMA NewestIn == ASSUME NEW S \in SUBSET Uid, S # {} PROVE Newest(S) \in S
<1> DEFINE Down == {MaxMails - m : m \in S}
<1>1. MaxMails \in Nat /\ S \subseteq 1 .. MaxMails
  BY BoundAssumption DEF Uid
<1>2. Down \subseteq Nat /\ Down # {}
  <2>1. \A m \in S : MaxMails - m \in Nat
    BY <1>1
  <2>2. PICK m \in S : TRUE
    OBVIOUS
  <2>3. MaxMails - m \in Down
    BY <2>2
  <2> QED BY <2>1, <2>3
<1>3. PICK d \in Down : \A e \in Down : d <= e
  <2> HIDE DEF Down
  <2> QED BY <1>2, Least
<1>4. PICK m \in S : d = MaxMails - m
  BY <1>3
<1>5. ASSUME NEW n \in S PROVE n <= m
  <2>1. MaxMails - m <= MaxMails - n
    BY <1>3, <1>4
  <2> QED BY <2>1, <1>1
<1> QED BY <1>5 DEF Newest

LEMMA CurrentIn == ASSUME TypeOK, batch # {} PROVE Current \in batch /\ Current \in Uid
BY OldestIn DEF TypeOK, Current

\* Where a check ends.
LEMMA EndsTyped ==
    ASSUME CheckEnds
    PROVE  /\ after' = "loop" /\ batch' = {} /\ to' \in Uid \cup {None}
           /\ selected' \in [mail : BOOLEAN, epoch : Epoch \cup {None}]
BY DEF CheckEnds, NoMailbox

----------------------------------------------------------------------------
LEMMA TypedInit == Init => TypeOK
<1> SUFFICES ASSUME Init PROVE TypeOK
  OBVIOUS
<1> USE BoundAssumption DEF Init
<1>1. epoch \in Epoch /\ next \in 1 .. MaxMails + 1 /\ inbox \subseteq Uid
  BY DEF Epoch
<1>2. /\ validity \in Epoch \cup {None} /\ cursor \in Uid \cup {None}
      /\ processed \subseteq Uid /\ uidsFile \subseteq Uid
  OBVIOUS
<1>3. stateFile \in [kind : {"absent", "torn", "whole"},
                     validity : Epoch \cup {None}, cursor : Uid \cup {None}]
  BY DEF AbsentFile
<1>4. /\ pc \in States /\ after \in {"loop", "newest", "down"}
      /\ selected \in [mail : BOOLEAN, epoch : Epoch \cup {None}]
      /\ to \in Uid \cup {None} /\ batch \subseteq Uid /\ cancelled \in BOOLEAN
  BY DEF States, NoMailbox
<1>5. mails \in 0 .. MaxMails /\ faults \in 0 .. MaxFaults /\ stops \in 0 .. MaxStops
  OBVIOUS
<1>6. /\ handed = {} /\ again = {} /\ failed = {} /\ cut = {} /\ untracked = {}
      /\ carried = {} /\ base \in [Epoch -> Uid \cup {None}]
  OBVIOUS
<1> QED BY <1>1, <1>2, <1>3, <1>4, <1>5, <1>6 DEF TypeOK

\* A step of the monitor leaves the mailbox, whose mails are numbered in order.
ServerOK ==
    /\ epoch \in Epoch /\ next \in 1 .. MaxMails + 1 /\ inbox \subseteq Uid
    /\ mails \in 0 .. MaxMails

LEMMA CountedStep == ASSUME TypeOK, Counted, [Next]_vars PROVE Counted'
<1>1. next \in Nat /\ mails \in Nat
  BY BoundAssumption DEF TypeOK
<1>2. CASE Arrive
  BY <1>1, <1>2 DEF Arrive, Counted
<1>3. CASE Recreate
  BY <1>1, <1>3 DEF Recreate, budget, Counted
<1>4. CASE ~Arrive /\ ~Recreate
  <2>1. UNCHANGED <<next, mails>>
    BY <1>4 DEF Next, Step, vars, server, budget, Expunge, Start, Select, CheckValidity,
       RemoveState, RemoveUids, Truncate, WriteState, FindNewest, Fetch, Skip, HandOver,
       Track, Rewrite, Advance, CleanUp, ConnectFails, ProcessFails, TrackFails,
       RewriteFails, CheckFails, Cancel, Crash
  <2> QED BY <2>1 DEF Counted
<1> QED BY <1>2, <1>3, <1>4

LEMMA ServerStep == ASSUME TypeOK, Counted, [Next]_vars PROVE ServerOK'
<1> USE BoundAssumption DEF ServerOK, TypeOK
<1>1. CASE Arrive
  <2>1. next \in Uid /\ next' \in 1 .. MaxMails + 1 /\ mails' \in 0 .. MaxMails
    BY <1>1 DEF Arrive, Counted, Uid
  <2> QED BY <1>1, <2>1 DEF Arrive
<1>2. CASE Recreate
  <2>1. epoch' \in Epoch
    BY <1>2 DEF Recreate, Epoch
  <2> QED BY <1>2, <2>1 DEF Recreate, budget
<1>3. CASE \E u \in Uid : Expunge(u)
  BY <1>3 DEF Expunge, budget
<1>4. CASE ~Arrive /\ ~Recreate /\ ~\E u \in Uid : Expunge(u)
  <2>1. UNCHANGED <<epoch, next, inbox, mails>>
    BY <1>4 DEF Next, Step, vars, server, budget, Start, Select, CheckValidity,
       RemoveState, RemoveUids, Truncate, WriteState, FindNewest, Fetch, Skip, HandOver,
       Track, Rewrite, Advance, CleanUp, ConnectFails, ProcessFails, TrackFails,
       RewriteFails, CheckFails, Cancel, Crash
  <2> QED BY <2>1
<1> QED BY <1>1, <1>2, <1>3, <1>4

\* The rest of the types, in two parts: what a check works with, and what it leaves.
WorkOK ==
    /\ validity \in Epoch \cup {None} /\ cursor \in Uid \cup {None}
    /\ processed \subseteq Uid
    /\ pc \in States /\ after \in {"loop", "newest", "down"}
    /\ selected \in [mail : BOOLEAN, epoch : Epoch \cup {None}]
    /\ to \in Uid \cup {None} /\ batch \subseteq Uid /\ cancelled \in BOOLEAN

LeftOK ==
    /\ uidsFile \subseteq Uid
    /\ stateFile \in [kind : {"absent", "torn", "whole"},
                      validity : Epoch \cup {None}, cursor : Uid \cup {None}]
    /\ faults \in 0 .. MaxFaults /\ stops \in 0 .. MaxStops
    /\ handed \subseteq Mail /\ again \subseteq Mail /\ failed \subseteq Mail
    /\ cut \subseteq Mail /\ untracked \subseteq Mail
    /\ carried \subseteq Uid /\ base \in [Epoch -> Uid \cup {None}]

LEMMA TypeParts == TypeOK <=> ServerOK /\ WorkOK /\ LeftOK
BY DEF TypeOK, ServerOK, WorkOK, LeftOK

LEMMA WorkStep == ASSUME TypeOK, Selected, Above, [Next]_vars PROVE WorkOK'
<1>0. WorkOK
  BY TypeParts
<1> USE DEF WorkOK
<1>1. CASE UNCHANGED vars \/ Arrive \/ (\E u \in Uid : Expunge(u)) \/ Recreate \/ ConnectFails
  BY <1>0, <1>1 DEF vars, memory, control, Arrive, Expunge, Recreate, ConnectFails
<1>2. CASE Start(TRUE) \/ Start(FALSE)
  <2>1. uidsFile \subseteq Uid /\ stateFile.validity \in Epoch \cup {None}
          /\ stateFile.cursor \in Uid \cup {None}
    BY DEF TypeOK
  <2> QED BY <1>0, <1>2, <2>1 DEF Start, States
<1>3. CASE Select
  <2>1. selected' \in [mail : BOOLEAN, epoch : Epoch \cup {None}]
    BY <1>3 DEF Select, TypeOK
  <2> QED BY <1>0, <1>3, <2>1 DEF Select, memory, States
<1>4. CASE CheckValidity
  <2>1. selected.epoch \in Epoch \cup {None}
    BY DEF TypeOK
  <2> QED BY <1>0, <1>4, <2>1 DEF CheckValidity, memory, States
<1>5. CASE RemoveState \/ RemoveUids
  <2>1. selected.epoch \in Epoch \cup {None}
    BY DEF TypeOK
  <2> QED BY <1>0, <1>5, <2>1 DEF RemoveState, RemoveUids, memory, States
<1>6. CASE Truncate \/ Rewrite \/ RewriteFails
  BY <1>0, <1>6 DEF Truncate, Rewrite, RewriteFails, memory, States
<1>7. CASE WriteState
  <2>1. pc' \in States
    BY <1>0, <1>7 DEF WriteState, States
  <2> QED BY <1>0, <1>7, <2>1, EndsTyped DEF WriteState, memory
<1>8. CASE FindNewest
  <2>1. CASE CheckEnds /\ pc' = "loop"
    BY <1>0, <1>8, <2>1, EndsTyped DEF FindNewest, memory, States
  <2>2. CASE ~(CheckEnds /\ pc' = "loop")
    <3>1. /\ to' = IF selected.mail /\ inbox # {} THEN Newest(inbox) ELSE None
          /\ pc' = "fetch" /\ UNCHANGED <<selected, batch, after>>
      BY <1>8, <2>2 DEF FindNewest
    <3>2. to' \in Uid \cup {None}
      BY <3>1, NewestIn DEF TypeOK
    <3> QED BY <1>0, <1>8, <3>1, <3>2 DEF FindNewest, memory, States
  <2> QED BY <2>1, <2>2
<1>9. CASE Fetch
  BY <1>0, <1>9 DEF Fetch, memory, States, TypeOK
<1>10. CASE Skip \/ HandOver \/ ProcessFails
  BY <1>0, <1>10 DEF Skip, HandOver, ProcessFails, memory, States
<1>11. CASE Track \/ TrackFails
  <2>1. Current \in Uid
    BY <1>11, CurrentIn DEF Track, TrackFails, Above
  <2>2. CASE Track
    BY <1>0, <2>1, <2>2 DEF Track, Kept, States
  <2>3. CASE TrackFails
    BY <1>0, <2>1, <2>3, EndsTyped DEF TrackFails, States
  <2> QED BY <1>11, <2>2, <2>3
<1>12. CASE Advance
  BY <1>0, <1>12 DEF Advance, NewCursor, States
<1>13. CASE CheckFails
  BY <1>0, <1>13, EndsTyped DEF CheckFails, memory, States
<1>14. CASE CleanUp \/ Cancel
  BY <1>0, <1>14 DEF CleanUp, Cancel, memory, States
<1>15. CASE Crash
  BY <1>0, <1>15, EndsTyped DEF Crash, States
<1> QED
  BY <1>1, <1>2, <1>3, <1>4, <1>5, <1>6, <1>7, <1>8, <1>9, <1>10, <1>11, <1>12,
     <1>13, <1>14, <1>15 DEF Next, Step

LEMMA LeftStep == ASSUME TypeOK, Selected, Above, [Next]_vars PROVE LeftOK'
<1>0. LeftOK /\ WorkOK
  BY TypeParts
<1> USE DEF LeftOK
<1>1. CASE UNCHANGED vars \/ Arrive \/ (\E u \in Uid : Expunge(u)) \/ Recreate \/ Select
             \/ FindNewest \/ Fetch \/ Skip \/ CleanUp
  BY <1>0, <1>1 DEF vars, files, history, budget, Arrive, Expunge, Recreate, Select,
                    FindNewest, Fetch, Skip, CleanUp
<1>2. CASE Start(TRUE) \/ Start(FALSE)
  <2>1. carried' \subseteq Uid /\ untracked' \subseteq Mail
    BY <1>0, <1>2 DEF Start, Stale
  <2> QED BY <1>0, <1>2, <2>1 DEF Start, files, budget
<1>3. CASE CheckValidity
  BY <1>0, <1>3 DEF CheckValidity, files, budget
<1>4. CASE RemoveState \/ RemoveUids \/ Truncate
  BY <1>0, <1>4 DEF RemoveState, RemoveUids, Truncate, AbsentFile, TornFile, history, budget
<1>5. CASE WriteState
  <2>1. stateFile' \in [kind : {"absent", "torn", "whole"},
                        validity : Epoch \cup {None}, cursor : Uid \cup {None}]
    BY <1>0, <1>5 DEF WriteState, SavedFile, WorkOK
  <2> QED BY <1>0, <1>5, <2>1 DEF WriteState, history, budget
<1>6. CASE HandOver \/ ProcessFails
  <2>1. CurrentMail \in Mail
    <3>1. epoch \in Epoch
      BY Numbers
    <3>2. Current \in Uid
      BY <1>6, CurrentIn DEF HandOver, ProcessFails, AtMail
    <3> QED BY <3>1, <3>2 DEF CurrentMail, Mail
  <2>2. CASE HandOver
    BY <1>0, <2>1, <2>2 DEF HandOver, files, budget
  <2>3. CASE ProcessFails
    BY <1>0, <2>1, <2>3 DEF ProcessFails, files, budget
  <2> QED BY <1>6, <2>2, <2>3
<1>7. CASE Track
  <2>1. Current \in Uid
    BY <1>7, CurrentIn DEF Track, Above
  <2>2. uidsFile' \subseteq Uid /\ untracked' \subseteq Mail
    BY <1>0, <1>7, <2>1 DEF Track
  <2> QED BY <1>0, <1>7, <2>2 DEF Track, budget
<1>8. CASE Rewrite \/ RewriteFails
  <2>1. CASE Rewrite
    BY <1>0, <2>1 DEF Rewrite, WorkOK, history, budget
  <2>2. CASE RewriteFails
    <3>1. faults' \in 0 .. MaxFaults
      BY <1>0, <2>2, BoundAssumption DEF RewriteFails
    <3>2. uidsFile' \subseteq Uid /\ untracked' \subseteq Mail
      BY <1>0, <2>2 DEF RewriteFails, LeftOver, Erased, WorkOK
    <3> QED BY <1>0, <2>2, <3>1, <3>2 DEF RewriteFails
  <2> QED BY <1>8, <2>1, <2>2
<1>9. CASE TrackFails
  <2>1. CurrentMail \in Mail
    BY <1>0, <1>9 DEF TrackFails, Above
  <2>2. faults' \in 0 .. MaxFaults
    BY <1>0, <1>9, BoundAssumption DEF TrackFails
  <2> QED BY <1>0, <1>9, <2>1, <2>2 DEF TrackFails, files
<1>10. CASE Advance
  <2>1. cut' \subseteq Mail
    <3>1. epoch \in Epoch
      BY Numbers
    <3> QED BY <1>0, <1>10, <3>1 DEF Advance, WorkOK, Mail
  <2>2. base' \in [Epoch -> Uid \cup {None}]
    BY <1>0, <1>10 DEF Advance, WorkOK
  <2> QED BY <1>0, <1>10, <2>1, <2>2 DEF Advance, files, budget
<1>11. CASE CheckFails \/ ConnectFails
  <2>1. faults' \in 0 .. MaxFaults
    BY <1>0, <1>11, BoundAssumption DEF CheckFails, ConnectFails
  <2> QED BY <1>0, <1>11, <2>1 DEF CheckFails, ConnectFails, files, history
<1>12. CASE Cancel
  <2>1. stops' \in 0 .. MaxStops
    BY <1>0, <1>12, BoundAssumption DEF Cancel
  <2> QED BY <1>0, <1>12, <2>1 DEF Cancel, files, history
<1>13. CASE Crash
  <2>1. stops' \in 0 .. MaxStops
    BY <1>0, <1>13, BoundAssumption DEF Crash
  <2>2. untracked' \subseteq Mail /\ uidsFile' \subseteq Uid
    BY <1>0, <1>13 DEF Crash, Above, LeftOver, Erased, WorkOK
  <2> QED BY <1>0, <1>13, <2>1, <2>2 DEF Crash
<1> QED
  BY <1>1, <1>2, <1>3, <1>4, <1>5, <1>6, <1>7, <1>8, <1>9, <1>10, <1>11, <1>12,
     <1>13 DEF Next, Step

----------------------------------------------------------------------------
LEMMA ControlInit == Init => Control
BY DEF Init, Control, Epochs, Selected, Above, ResetForgets, FileBehind, TornIsEmpty,
       Torn, AbsentFile, TornFile, Running, None

LEMMA EpochsStep == ASSUME TypeOK, Control, [Next]_vars PROVE Epochs'
<1> USE DEF Epochs
<1>0. /\ Epochs /\ epoch \in Nat /\ validity \in Nat /\ stateFile.validity \in Nat
      /\ \A m \in handed : m[1] \in Nat
  BY Numbers DEF Control
<1>1. CASE Recreate
  <2>1. epoch' = epoch + 1 /\ UNCHANGED <<validity, stateFile, handed>>
    BY <1>1 DEF Recreate, memory, files, history
  <2> QED BY <1>0, <2>1
<1>2. CASE Start(TRUE) \/ Start(FALSE)
  BY <1>0, <1>2 DEF Start, server, files, None
<1>3. CASE CheckValidity \/ RemoveUids
  <2>1. validity' \in {validity, selected.epoch, None}
        /\ UNCHANGED <<epoch, stateFile, handed>>
    BY <1>3 DEF CheckValidity, RemoveUids, memory, server, files, history
  <2>2. validity' # selected.epoch \/ selected.epoch = epoch \/ validity' = validity
    BY <1>3 DEF CheckValidity, RemoveUids, Control, Selected, memory
  <2> QED BY <1>0, <2>1, <2>2 DEF None
<1>4. CASE RemoveState \/ Truncate \/ WriteState
  <2>1. stateFile'.validity \in {None, validity} /\ UNCHANGED <<epoch, validity, handed>>
    BY <1>4 DEF RemoveState, Truncate, WriteState, AbsentFile, TornFile, SavedFile, server,
                memory, history
  <2> QED BY <1>0, <2>1 DEF None
<1>5. CASE HandOver
  <2>1. CurrentMail[1] = epoch
    BY <1>5 DEF HandOver, AtMail, Control, Selected, CurrentMail
  <2>2. handed' = handed \cup {CurrentMail} /\ UNCHANGED <<epoch, validity, stateFile>>
    BY <1>5 DEF HandOver, server, memory, files
  <2> QED BY <1>0, <2>1, <2>2
<1>6. CASE \/ UNCHANGED vars \/ Arrive \/ (\E u \in Uid : Expunge(u)) \/ Select \/ FindNewest
           \/ Fetch \/ Skip \/ Track \/ Rewrite \/ Advance \/ CleanUp \/ ConnectFails
           \/ ProcessFails \/ TrackFails \/ RewriteFails \/ CheckFails \/ Cancel \/ Crash
  <2>1. UNCHANGED <<epoch, stateFile, handed>> /\ validity' \in {validity, None}
    BY <1>6 DEF vars, server, memory, files, history, Arrive, Expunge, Select, FindNewest,
       Fetch, Skip, Track, Rewrite, Advance, CleanUp, ConnectFails, ProcessFails,
       TrackFails, RewriteFails, CheckFails, Cancel, Crash
  <2> QED BY <1>0, <2>1 DEF None
<1> QED BY <1>1, <1>2, <1>3, <1>4, <1>5, <1>6 DEF Next, Step

LEMMA SelectedStep == ASSUME Reports, TypeOK, Control, [Next]_vars PROVE Selected'
<1> USE DEF Selected
<1>0. Selected
  BY DEF Control
<1>1. CASE UNCHANGED vars \/ Arrive \/ (\E u \in Uid : Expunge(u)) \/ ConnectFails \/ Cancel
  <2>1. UNCHANGED <<epoch, validity, pc, selected, after>>
    BY <1>1 DEF vars, server, memory, control, Arrive, Expunge, ConnectFails, Cancel
  <2> QED BY <1>0, <2>1
<1>2. CASE Recreate \/ ConnectFails \/ Crash
  <2>1. pc' \in {"down", "loop"}
    BY <1>2 DEF Recreate, ConnectFails, Crash, control
  <2> QED BY <2>1
<1>3. CASE Start(TRUE) \/ Start(FALSE)
  BY <1>3 DEF Start
<1>4. CASE Select
  <2>1. selected'.epoch = epoch /\ epoch' = epoch /\ pc' = "validity"
    BY <1>4 DEF Select, server
  <2> QED BY <2>1
<1>5. CASE CheckValidity
  <2>1. selected.epoch = epoch /\ epoch # None /\ epoch' = epoch /\ selected' = selected
    BY <1>0, <1>5, Numbers DEF CheckValidity, server, None
  <2> QED BY <1>0, <1>5, <2>1 DEF CheckValidity, ValidityAction, memory
<1>6. CASE RemoveState \/ RemoveUids \/ Truncate
  BY <1>0, <1>6 DEF RemoveState, RemoveUids, Truncate, server, memory
<1>7. CASE WriteState
  <2>1. UNCHANGED <<epoch, validity>> /\ pc' = after /\ after \in {"loop", "newest", "down"}
        /\ (after = "newest" => selected' = selected)
    BY <1>7 DEF WriteState, server, memory, TypeOK
  <2>2. pc = "write"
    BY <1>7 DEF WriteState
  <2> QED BY <1>0, <2>1, <2>2
<1>8. CASE FindNewest
  <2>1. pc' = "loop" \/ (pc' = "fetch" /\ UNCHANGED <<epoch, validity, selected>> /\ pc = "newest")
    BY <1>8 DEF FindNewest, server, memory
  <2> QED BY <1>0, <2>1
<1>9. CASE Fetch \/ Skip \/ HandOver \/ ProcessFails \/ Track \/ Rewrite \/ RewriteFails
  <2>1. UNCHANGED <<epoch, validity, selected>>
    BY <1>9 DEF Fetch, Skip, HandOver, ProcessFails, Track, Rewrite, RewriteFails, server,
                memory
  <2>2. pc \in {"fetch", "each", "track", "rewrite"} /\ pc' \in {"each", "track", "rewrite"}
    BY <1>9 DEF Fetch, Skip, HandOver, ProcessFails, Track, Rewrite, RewriteFails, AtMail
  <2> QED BY <1>0, <2>1, <2>2
<1>10. CASE Advance \/ CleanUp
  BY <1>0, <1>10 DEF Advance, CleanUp, server, memory
<1>11. CASE TrackFails \/ CheckFails
  <2>1. pc' \in {"down", "loop"}
    BY <1>11 DEF TrackFails, CheckFails
  <2> QED BY <2>1
<1> QED
  BY <1>1, <1>2, <1>3, <1>4, <1>5, <1>6, <1>7, <1>8, <1>9, <1>10, <1>11 DEF Next, Step

LEMMA AboveStep == ASSUME TypeOK, Control, [Next]_vars PROVE Above'
<1> USE DEF Above
<1>0. Above /\ Selected
  BY DEF Control
<1>1. CASE UNCHANGED vars \/ Arrive \/ (\E u \in Uid : Expunge(u)) \/ ConnectFails \/ Cancel
  <2>1. UNCHANGED <<epoch, cursor, pc, to, batch, handed>>
    BY <1>1 DEF vars, server, memory, control, history, Arrive, Expunge, ConnectFails, Cancel
  <2>2. CurrentMail' = CurrentMail
    BY <2>1 DEF CurrentMail, Current
  <2> QED BY <1>0, <2>1, <2>2
<1>r. CASE Recreate
  <2>1. UNCHANGED <<cursor, pc, to, batch>> /\ pc \in {"down", "loop"}
    BY <1>r DEF Recreate, memory, control
  <2> QED BY <1>0, <2>1
<1>2. CASE \/ Start(TRUE) \/ Start(FALSE) \/ Select \/ CheckValidity \/ RemoveState
           \/ RemoveUids \/ Truncate \/ CleanUp
  <2>1. /\ batch' = batch /\ pc \notin {"each", "track", "rewrite"}
        /\ pc' \notin {"fetch", "each", "track", "rewrite"}
    BY <1>2 DEF Start, Select, CheckValidity, RemoveState, RemoveUids, Truncate, CleanUp
  <2> QED BY <1>0, <2>1
<1>3. CASE TrackFails \/ CheckFails \/ Crash \/ Advance
  <2>1. batch' = {} /\ pc' \in {"loop", "down", "truncate"}
    BY <1>3, EndsTyped DEF TrackFails, CheckFails, Crash, Advance
  <2> QED BY <2>1
<1>4. CASE WriteState
  <2>1. batch = {}
    BY <1>0, <1>4 DEF WriteState
  <2>2. batch' = {}
    BY <1>4, <2>1, EndsTyped DEF WriteState
  <2>3. pc' \in {"loop", "down", "newest"}
    BY <1>4 DEF WriteState, TypeOK
  <2> QED BY <2>2, <2>3
<1>5. CASE FindNewest
  <2>1. batch = {}
    BY <1>0, <1>5 DEF FindNewest
  <2>2. CASE CheckEnds /\ pc' = "loop"
    BY <2>2, EndsTyped
  <2>3. CASE ~(CheckEnds /\ pc' = "loop")
    <3>1. /\ batch' = batch /\ pc' = "fetch" /\ cursor' = cursor
          /\ ~NothingNew(cursor, to')
      BY <1>5, <2>3 DEF FindNewest, memory
    <3>2. to' \in Nat
      <4>1. to' \in Uid \cup {None}
        BY WorkStep, <1>0 DEF Next, Step, WorkOK, Control
      <4> QED BY <4>1, Numbers DEF None
    <3>3. to' > cursor'
      BY <3>1, <3>2, Numbers DEF NothingNew, None
    <3> QED BY <2>1, <3>1, <3>3
  <2> QED BY <2>2, <2>3
<1>6. CASE Fetch
  <2>1. /\ batch' = inbox \cap (FetchFrom(cursor, to) .. to) /\ to > cursor
        /\ pc' = "each" /\ UNCHANGED <<cursor, to>>
    BY <1>0, <1>6 DEF Fetch, memory
  <2>2. \A u \in FetchFrom(cursor, to) .. to : u > cursor
    BY <2>1, Numbers DEF FetchFrom, None
  <2> QED BY <2>1, <2>2
<1>7. CASE Skip \/ ProcessFails
  <2>1. /\ batch' \subseteq batch /\ pc = "each" /\ pc' = "each" /\ UNCHANGED <<cursor, to>>
    BY <1>7 DEF Skip, ProcessFails, AtMail, memory
  <2> QED BY <1>0, <2>1
<1>8. CASE HandOver
  <2>1. /\ UNCHANGED <<epoch, batch, cursor, to>> /\ batch # {}
        /\ pc = "each" /\ pc' = "track" /\ CurrentMail \in handed'
    BY <1>8 DEF HandOver, AtMail, server, memory
  <2>2. CurrentMail' = CurrentMail
    BY <2>1 DEF CurrentMail, Current
  <2> QED BY <1>0, <2>1, <2>2
<1>9. CASE Track \/ Rewrite \/ RewriteFails
  <2>1. /\ batch' \subseteq batch /\ pc \in {"track", "rewrite"} /\ pc' \in {"each", "rewrite"}
        /\ UNCHANGED <<cursor, to>>
    BY <1>9 DEF Track, Rewrite, RewriteFails, memory
  <2> QED BY <1>0, <2>1
<1> QED
  BY <1>1, <1>r, <1>2, <1>3, <1>4, <1>5, <1>6, <1>7, <1>8, <1>9 DEF Next, Step

LEMMA ResetForgetsStep == ASSUME TypeOK, Control, [Next]_vars PROVE ResetForgets'
<1> USE DEF ResetForgets
<1>0. ResetForgets /\ Selected
  BY DEF Control
<1>1. CASE Start(TRUE) \/ Start(FALSE)
  BY <1>1 DEF Start, server
<1>2. CASE CheckValidity
  BY <1>0, <1>2 DEF CheckValidity, server, Selected
<1>3. CASE WriteState
  <2>1. pc' \in {"loop", "newest", "down"}
    BY <1>3 DEF WriteState, TypeOK
  <2> QED BY <2>1
<1>4. CASE \/ UNCHANGED vars \/ Arrive \/ (\E u \in Uid : Expunge(u)) \/ RemoveState \/ Cancel
  <2>1. /\ UNCHANGED <<epoch, memory, handed, untracked>>
        /\ pc' \in {"rmState", "rmUids"} => pc \in {"rmState", "rmUids"}
    BY <1>4 DEF vars, server, control, history, Arrive, Expunge, RemoveState, Cancel
  <2> QED BY <1>0, <2>1 DEF memory
<1>5. CASE \/ Recreate \/ ConnectFails \/ Select \/ RemoveUids \/ Truncate \/ FindNewest
           \/ Fetch \/ Skip \/ HandOver \/ Track \/ Rewrite \/ Advance \/ CleanUp
           \/ ProcessFails \/ TrackFails \/ RewriteFails \/ CheckFails \/ Crash
  <2>1. pc' \notin {"rmState", "rmUids"}
    BY <1>5 DEF Recreate, ConnectFails, Select, RemoveUids, Truncate, FindNewest, Fetch,
       Skip, HandOver, Track, Rewrite, Advance, CleanUp, ProcessFails, TrackFails,
       RewriteFails, CheckFails, Crash, AtMail, control
  <2> QED BY <2>1
<1> QED BY <1>1, <1>2, <1>3, <1>4, <1>5 DEF Next, Step

LEMMA FileBehindStep == ASSUME TypeOK, Control, [Next]_vars PROVE FileBehind'
<1> USE DEF FileBehind, Running
<1>0. /\ FileBehind /\ Selected /\ Epochs /\ epoch \in Nat /\ epoch # None
      /\ stateFile.validity \in Nat
      /\ cursor \in Nat /\ to \in Nat /\ stateFile.cursor \in Nat
  BY Numbers DEF Control, None
<1>1. CASE Recreate
  <2>1. epoch' = epoch + 1 /\ stateFile' = stateFile
    BY <1>1 DEF Recreate, files
  <2> QED BY <1>0, <2>1 DEF Epochs
<1>2. CASE Start(TRUE) \/ Start(FALSE)
  BY <1>0, <1>2 DEF Start, server, files
<1>3. CASE CheckValidity
  BY <1>0, <1>3 DEF CheckValidity, ValidityAction, server, memory, files, Selected
<1>4. CASE RemoveState \/ Truncate
  <2>1. stateFile'.validity = None /\ epoch' = epoch
    BY <1>4 DEF RemoveState, Truncate, AbsentFile, TornFile, server
  <2> QED BY <1>0, <2>1
<1>5. CASE WriteState
  <2>1. /\ stateFile'.validity = validity /\ stateFile'.cursor = cursor
        /\ UNCHANGED <<epoch, validity, cursor>>
    BY <1>5 DEF WriteState, SavedFile, server, memory
  <2> QED BY <1>0, <2>1
<1>6. CASE RemoveUids
  <2>1. UNCHANGED <<epoch, stateFile, cursor>> /\ pc = "rmUids"
        /\ validity' \in {validity, selected.epoch} /\ (after = "newest" \/ validity' = validity)
    BY <1>6 DEF RemoveUids, server
  <2> QED BY <1>0, <2>1 DEF Selected
<1>7. CASE Advance
  <2>1. UNCHANGED <<epoch, stateFile, validity>> /\ cursor' = to /\ to > cursor /\ pc = "each"
    BY <1>7 DEF Advance, NewCursor, server, files, Control, Above
  <2> QED BY <1>0, <2>1
<1>8. CASE CheckFails
  <2>1. UNCHANGED <<epoch, stateFile, validity, cursor>>
    BY <1>8 DEF CheckFails, server, files, memory
  <2>2. pc # "down" /\ (pc = "rmState" /\ after = "loop" => pc' = "down")
    BY <1>8 DEF CheckFails, OutsideLoop
  <2> QED BY <1>0, <2>1, <2>2
<1>9. CASE Crash
  BY <1>9 DEF Crash
<1>10. CASE \/ UNCHANGED vars \/ Arrive \/ (\E u \in Uid : Expunge(u)) \/ Select \/ FindNewest
            \/ Fetch \/ Skip \/ HandOver \/ Track \/ TrackFails \/ Rewrite \/ RewriteFails
            \/ CleanUp \/ ConnectFails \/ ProcessFails \/ Cancel
  <2>1. UNCHANGED <<epoch, stateFile, validity, cursor>>
    BY <1>10 DEF vars, server, memory, files, Arrive, Expunge, Select, FindNewest, Fetch,
       Skip, HandOver, Track, TrackFails, Rewrite, RewriteFails, CleanUp, ConnectFails,
       ProcessFails, Cancel
  <2>2. (pc' = pc /\ after' = after) \/ (pc # "down" /\ pc # "rmState")
    BY <1>10 DEF vars, control, Arrive, Expunge, Select, FindNewest, Fetch,
       Skip, HandOver, Track, TrackFails, Rewrite, RewriteFails, CleanUp, ConnectFails,
       ProcessFails, Cancel, AtMail
  <2> QED BY <1>0, <2>1, <2>2
<1> QED
  BY <1>1, <1>2, <1>3, <1>4, <1>5, <1>6, <1>7, <1>8, <1>9, <1>10 DEF Next, Step

LEMMA TornIsEmptyStep == ASSUME TornIsEmpty, [Next]_vars PROVE TornIsEmpty'
<1>1. stateFile' \in {stateFile, AbsentFile, TornFile, SavedFile}
  BY DEF Next, Step, vars, files, Arrive, Expunge, Recreate, Start, Select, CheckValidity,
       RemoveState, RemoveUids, Truncate, WriteState, FindNewest, Fetch, Skip, HandOver,
       Track, Rewrite, Advance, CleanUp, ConnectFails, ProcessFails, TrackFails,
       RewriteFails, CheckFails, Cancel, Crash
<1>2. AbsentFile.kind # "torn" /\ SavedFile.kind # "torn"
  BY DEF AbsentFile, SavedFile
<1>3. TornFile' = TornFile
  BY DEF TornFile
<1> QED BY <1>1, <1>2, <1>3 DEF TornIsEmpty, Torn

LEMMA ControlStep == ASSUME Reports, TypeOK, Control, [Next]_vars PROVE Control'
BY EpochsStep, SelectedStep, AboveStep, ResetForgetsStep, FileBehindStep, TornIsEmptyStep
   DEF Control

LEMMA CursorBasedStep ==
    ASSUME TypeOK, Control, CursorBased, [Next]_vars
    PROVE  CursorBased'
<1> USE DEF CursorBased
<1>0. Selected /\ base \in [Epoch -> Uid \cup {None}] /\ validity \in Epoch \cup {None}
  BY DEF Control, TypeOK
<1>1. CASE Start(TRUE) \/ Start(FALSE)
  BY <1>1 DEF Start, files
<1>2. CASE CheckValidity
  BY <1>0, <1>2 DEF CheckValidity, ValidityAction, files, memory
<1>3. CASE RemoveState \/ Truncate \/ WriteState
  <2>1. /\ UNCHANGED <<memory, base>>
        /\ \/ stateFile'.cursor = None
           \/ stateFile'.cursor = cursor /\ stateFile'.validity = validity
    BY <1>3 DEF RemoveState, Truncate, WriteState, AbsentFile, TornFile, SavedFile, history
  <2> QED BY <2>1 DEF memory
<1>4. CASE RemoveUids
  <2>1. cursor = None /\ UNCHANGED <<cursor, stateFile, base>>
    BY <1>4 DEF RemoveUids, history, Control, ResetForgets
  <2> QED BY <2>1
<1>5. CASE Advance
  <2>1. validity \in Epoch /\ to # None /\ validity = epoch
    BY <1>5, Numbers DEF Advance, Control, Selected, Above, None
  <2>2. /\ UNCHANGED <<stateFile, validity>>
        /\ base' = IF cursor = None THEN [base EXCEPT ![validity] = to] ELSE base
    BY <1>5, <2>1 DEF Advance, files
  <2>3. \A e \in Epoch : base[e] # None => base'[e] # None
    BY <1>0, <2>1, <2>2
  <2>4. base'[validity] # None
    BY <1>0, <2>1, <2>2
  <2>5. stateFile.validity \in Epoch \cup {None}
    BY DEF TypeOK
  <2>6. stateFile.cursor # None => stateFile.validity # None /\ base'[stateFile.validity] # None
    BY <2>3, <2>5
  <2>7. validity # None
    BY <2>1, Numbers DEF None
  <2> QED BY <2>2, <2>4, <2>6, <2>7
<1>6. CASE Crash
  BY <1>6 DEF Crash, files
<1>7. CASE \/ UNCHANGED vars \/ Arrive \/ (\E u \in Uid : Expunge(u)) \/ Recreate \/ Select
           \/ FindNewest \/ Fetch \/ Skip \/ HandOver \/ Track \/ Rewrite \/ CleanUp
           \/ ConnectFails \/ ProcessFails \/ TrackFails \/ RewriteFails \/ CheckFails \/ Cancel
  <2>1. UNCHANGED <<validity, cursor, stateFile, base>>
    BY <1>7 DEF vars, memory, files, history, Arrive, Expunge, Recreate, Select,
           FindNewest, Fetch, Skip, HandOver, Track, Rewrite, CleanUp,
           ConnectFails, ProcessFails, TrackFails, RewriteFails, CheckFails, Cancel
  <2> QED BY <2>1
<1> QED BY <1>1, <1>2, <1>3, <1>4, <1>5, <1>6, <1>7 DEF Next, Step

----------------------------------------------------------------------------
\* What holds of one mail of this epoch whose hand-over is not given up.
RecordedMail(m) ==
    IF Running /\ validity \in {None, epoch} THEN InMemory(m)
    ELSE NextStartForgets \/ (~Running /\ OnDisk(m))

\* In memory a mail is below the cursor or among the UIDs, unless it is being tracked.
LEMMA InMemoryKnown ==
    ASSUME TypeOK, Control, pc = "each", NEW m \in handed, InMemory(m)
    PROVE  m[2] <= cursor \/ m[2] \in processed
<1>1. stateFile.validity = epoch => stateFile.cursor <= cursor
  BY DEF Control, FileBehind, Running
<1>2. /\ m[2] \in Nat /\ cursor \in Nat /\ stateFile.cursor \in Nat
  BY Numbers
<1> QED BY <1>1, <1>2 DEF InMemory, Covered

LEMMA TwiceStep ==
    ASSUME TypeOK, Control, Recorded, TwiceOnlyUntracked, [Next]_vars
    PROVE  TwiceOnlyUntracked'
<1> USE DEF TwiceOnlyUntracked
<1>1. CASE HandOver
  <2>1. ASSUME CurrentMail \in handed, CurrentMail \notin untracked PROVE FALSE
    <3>1. /\ pc = "each" /\ selected.epoch = epoch /\ validity = epoch
          /\ batch # {} /\ Current \notin processed
      BY <1>1 DEF HandOver, AtMail, Control, Selected
    <3>2. InMemory(CurrentMail)
      BY <2>1, <3>1 DEF Recorded, CurrentMail, Running
    <3>3. Current <= cursor
      BY <2>1, <3>1, <3>2, InMemoryKnown DEF CurrentMail
    <3>4. Current > cursor /\ Current \in Nat /\ cursor \in Nat
      BY <3>1, CurrentIn, Numbers DEF Control, Above
    <3> QED BY <3>3, <3>4
  <2> QED BY <1>1, <2>1 DEF HandOver
<1>2. CASE ~HandOver
  <2>1. again' = again /\ untracked \subseteq untracked'
    BY <1>2 DEF Next, Step, vars, history, Arrive, Expunge, Recreate, Start, Select,
       CheckValidity, RemoveState, RemoveUids, Truncate, WriteState, FindNewest, Fetch,
       Skip, Track, Rewrite, Advance, CleanUp, ConnectFails, ProcessFails, TrackFails,
       RewriteFails, CheckFails, Cancel, Crash
  <2> QED BY <2>1
<1> QED BY <1>1, <1>2

LEMMA RecordedStep ==
    ASSUME TypeOK, Control, CursorBased, Recorded, [Next]_vars
    PROVE  Recorded'
<1> SUFFICES ASSUME NEW m \in handed' \ untracked', m[1] = epoch' PROVE RecordedMail(m)'
  BY DEF Recorded, RecordedMail
<1>0. /\ Selected /\ Above /\ FileBehind /\ ResetForgets
      /\ epoch # None /\ cursor \in Nat /\ to \in Nat /\ stateFile.cursor \in Nat
      /\ \A n \in handed : n[2] \in Nat /\ n[2] # None
  BY Numbers DEF Control, None
<1>w. m \in handed /\ m[1] = epoch /\ m \notin untracked => RecordedMail(m)
  BY DEF Recorded, RecordedMail
<1> USE DEF RecordedMail, Running, InMemory, OnDisk, Covered, NextStartForgets
<1>1. CASE \/ UNCHANGED vars \/ Arrive \/ (\E u \in Uid : Expunge(u)) \/ ConnectFails \/ Cancel
  <2>1. /\ UNCHANGED <<epoch, memory, files, pc, selected, batch, handed, untracked>>
    BY <1>1 DEF vars, server, control, history, Arrive, Expunge, ConnectFails, Cancel
  <2>2. CurrentMail' = CurrentMail
    BY <2>1 DEF CurrentMail, Current
  <2> QED BY <1>w, <2>1, <2>2 DEF memory, files, Torn
<1>2. CASE Recreate
  <2>1. m \in handed /\ m[1] = epoch + 1
    BY <1>2 DEF Recreate, history
  <2> QED BY <2>1, Numbers DEF Control, Epochs
<1>3. CASE Start(TRUE)
  BY <1>3 DEF Start
<1>4. CASE Start(FALSE)
  <2>1. /\ m \in handed /\ m[1] = epoch /\ m \notin untracked
        /\ pc = "down" /\ ~Torn /\ pc' = "loop" /\ UNCHANGED <<epoch, files>>
        /\ validity' = stateFile.validity /\ cursor' = stateFile.cursor
        /\ processed' = uidsFile
    BY <1>4 DEF Start, server, Torn
  <2> QED BY <1>w, <2>1 DEF files, Torn
<1>5. CASE CheckValidity
  <2>1. /\ m \in handed /\ m[1] = epoch /\ m \notin untracked
        /\ pc = "validity" /\ pc' # "down" /\ selected.epoch = epoch
        /\ UNCHANGED <<epoch, files, handed>> /\ untracked \subseteq untracked'
    BY <1>0, <1>5 DEF CheckValidity, server, Selected
  <2>2. CASE ValidityAction(validity, selected.epoch) = "reset"
    BY <1>5, <2>1, <2>2 DEF CheckValidity
  <2>3. CASE ValidityAction(validity, selected.epoch) # "reset"
    <3>1. /\ validity \in {None, epoch} /\ validity' \in {None, epoch}
          /\ UNCHANGED <<cursor, processed>>
      BY <1>0, <1>5, <2>1, <2>3 DEF CheckValidity, ValidityAction, memory
    <3>2. pc' \notin {"track", "rewrite"}
      BY <1>5 DEF CheckValidity
    <3> QED BY <1>w, <2>1, <3>1, <3>2 DEF files, Torn
  <2> QED BY <2>2, <2>3
<1>6. CASE RemoveState \/ RemoveUids
  <2>1. /\ m \in handed /\ m[1] = epoch /\ m \notin untracked
        /\ pc \in {"rmState", "rmUids"}
    BY <1>6 DEF RemoveState, RemoveUids, server, history
  <2> QED BY <1>0, <2>1 DEF ResetForgets
<1>7. CASE Truncate
  <2>1. /\ m \in handed /\ m[1] = epoch /\ m \notin untracked /\ pc = "truncate"
        /\ pc' = "write" /\ UNCHANGED <<epoch, memory, uidsFile>> /\ Torn'
    BY <1>7 DEF Truncate, TornFile, server, history, Torn
  <2>2. stateFile.validity = epoch => validity = epoch /\ stateFile.cursor <= cursor
    BY <1>0, <2>1 DEF FileBehind
  <2>3. Covered(m) => m[2] <= cursor
    BY <1>0, <2>1, <2>2
  <2> QED BY <1>w, <2>1, <2>3 DEF memory
<1>8. CASE WriteState
  <2>1. /\ m \in handed /\ m[1] = epoch /\ m \notin untracked /\ pc = "write"
        /\ pc' \in {"loop", "newest", "down"} /\ UNCHANGED <<epoch, memory, uidsFile>>
        /\ stateFile' = SavedFile
    BY <1>8 DEF WriteState, server, history, TypeOK
  <2>2. CASE validity \in {None, epoch}
    <3>1. stateFile.validity = epoch => validity = epoch /\ stateFile.cursor <= cursor
      BY <1>0, <2>1 DEF FileBehind
    <3>2. m[2] <= cursor \/ m[2] \in uidsFile \cap processed
      BY <1>0, <1>w, <2>1, <2>2, <3>1
    <3>3. m[2] <= cursor => validity = epoch
      <4>1. m[2] <= cursor => cursor # None
        BY <1>0, <2>1, Numbers DEF None
      <4> QED BY <2>2, <4>1 DEF CursorBased
    <3> QED BY <2>1, <2>2, <3>2, <3>3 DEF SavedFile, memory
  <2>3. CASE validity \notin {None, epoch}
    BY <2>1, <2>3 DEF SavedFile, memory
  <2> QED BY <2>2, <2>3
<1>9. CASE Select \/ FindNewest \/ Fetch \/ Skip \/ ProcessFails \/ CleanUp
  <2>1. /\ m \in handed /\ m[1] = epoch /\ m \notin untracked
        /\ UNCHANGED <<epoch, memory, files>>
        /\ pc \notin {"down", "track", "rewrite"} /\ pc' \notin {"down", "track", "rewrite"}
    BY <1>9 DEF Select, FindNewest, Fetch, Skip, ProcessFails, CleanUp, AtMail, server, history
  <2> QED BY <1>w, <2>1 DEF memory, files, Torn
<1>10. CASE HandOver
  <2>1. /\ UNCHANGED <<epoch, memory, files, selected, batch, untracked>>
        /\ handed' = handed \cup {CurrentMail} /\ pc = "each" /\ pc' = "track"
        /\ validity = epoch
    BY <1>0, <1>10 DEF HandOver, AtMail, server, history, Selected
  <2>2. CurrentMail' = CurrentMail
    BY <2>1 DEF CurrentMail, Current
  <2> QED BY <1>w, <2>1, <2>2 DEF memory, files, Torn
<1>11. CASE Track
  <2>1. /\ m \in handed /\ m[1] = epoch /\ m \notin untracked
        /\ pc = "track" /\ validity = epoch
        /\ UNCHANGED <<epoch, validity, cursor, stateFile>>
    BY <1>0, <1>11 DEF Track, server, Selected
  <2> DEFINE grown == processed \cup {Current}
  <2>2. \/ Covered(m)
        \/ Torn /\ m[2] <= cursor
        \/ m[2] \in uidsFile \cap processed
        \/ m[2] = Current
    <3>1. m = CurrentMail => m[2] = Current
      BY DEF CurrentMail
    <3>2. InMemory(m)
      BY <1>w, <2>1
    <3> QED BY <2>1, <3>1, <3>2
  <2>3. CASE ~Compacts(grown)
    <3>1. processed' = grown /\ uidsFile' = uidsFile \cup {Current}
      BY <1>11, <2>3 DEF Track
    <3> QED BY <2>1, <2>2, <3>1, <1>11 DEF Track, Torn
  <2>4. CASE Compacts(grown)
    <3>1. /\ processed' = Kept(grown) /\ pc' = "rewrite"
          /\ untracked' = untracked \cup (handed \cap Forgotten(grown))
      BY <1>11, <2>4 DEF Track
    <3>2. CASE Covered(m) \/ (Torn /\ m[2] <= cursor)
      BY <2>1, <3>1, <3>2 DEF Torn
    <3>3. CASE ~Covered(m) /\ m[2] \in grown
      <4>1. m \notin Forgotten(grown)
        BY <2>1, <3>1
      <4>2. stateFile.validity # validity \/ stateFile.cursor < m[2]
        BY <1>0, <2>1, <3>3
      <4>3. m = <<validity, m[2]>>
        BY <2>1 DEF TypeOK, Mail
      <4>4. m[2] \in Kept(grown)
        BY <3>3, <4>1, <4>2, <4>3 DEF Forgotten
      <4> QED BY <2>1, <3>1, <4>4
    <3>4. CASE Covered(m)
      BY <3>2, <3>4
    <3>5. CASE ~Covered(m)
      <4>1. (Torn /\ m[2] <= cursor) \/ m[2] \in grown
        BY <2>2, <3>5
      <4> QED BY <3>2, <3>3, <3>5, <4>1
    <3> QED BY <3>4, <3>5
  <2> QED BY <2>3, <2>4
<1>12. CASE Rewrite
  <2>1. /\ m \in handed /\ m[1] = epoch /\ m \notin untracked
        /\ pc = "rewrite" /\ pc' = "each" /\ validity = epoch /\ uidsFile' = processed
        /\ UNCHANGED <<epoch, memory, stateFile>>
    BY <1>0, <1>12 DEF Rewrite, server, history, Selected
  <2> QED BY <1>w, <2>1 DEF memory, Torn
<1>13. CASE TrackFails
  <2>1. /\ m \in handed /\ m[1] = epoch /\ m \notin untracked /\ m # CurrentMail
        /\ pc = "track" /\ pc' = "loop" /\ validity = epoch
        /\ processed' = processed \cup {Current}
        /\ UNCHANGED <<epoch, validity, cursor, files>>
    BY <1>0, <1>13 DEF TrackFails, server, Selected
  <2> QED BY <1>w, <2>1 DEF files, Torn
<1>14. CASE Advance
  <2>1. /\ m \in handed /\ m[1] = epoch /\ m \notin untracked
        /\ pc = "each" /\ pc' = "truncate" /\ validity = epoch
        /\ cursor' = to /\ to > cursor
        /\ UNCHANGED <<epoch, validity, processed, files>>
    BY <1>0, <1>14 DEF Advance, NewCursor, server, Selected, Above
  <2>2. m[2] <= cursor => m[2] <= cursor'
    BY <1>0, <2>1
  <2> QED BY <1>w, <2>1, <2>2 DEF files, Torn
<1>15. CASE CheckFails
  <2>1. /\ m \in handed /\ m[1] = epoch /\ m \notin untracked
        /\ UNCHANGED <<epoch, memory, files>>
        /\ pc \notin {"down", "track", "rewrite"} /\ pc' \in {"down", "loop"}
    BY <1>15 DEF CheckFails, server, history
  <2> QED BY <1>w, <2>1 DEF memory, files, Torn
<1>16. CASE Crash
  <2>1. /\ m \in handed /\ m[1] = epoch /\ m \notin untracked
        /\ pc # "down" /\ pc' = "down" /\ UNCHANGED <<epoch, stateFile>>
        /\ ~(pc = "track" /\ m = CurrentMail)
        /\ (pc = "rewrite" /\ m[1] = validity => m[2] \in uidsFile')
    BY <1>16 DEF Crash, server, Erased
  <2>2. CASE pc = "rewrite"
    <3>1. validity = epoch
      BY <1>0, <2>2 DEF Selected
    <3> QED BY <2>1, <2>2, <3>1
  <2>3. CASE pc # "rewrite"
    <3>1. uidsFile' = uidsFile
      BY <1>16, <2>3 DEF Crash
    <3> QED BY <1>w, <2>1, <2>3, <3>1 DEF Torn
  <2> QED BY <2>2, <2>3
<1>17. CASE RewriteFails
  <2>1. /\ m \in handed /\ m[1] = epoch /\ m \notin untracked
        /\ pc = "rewrite" /\ pc' = "each" /\ validity = epoch
        /\ UNCHANGED <<epoch, memory, stateFile>>
    BY <1>0, <1>17 DEF RewriteFails, server, Selected
  <2>2. m[2] \in uidsFile'
    BY <1>17, <2>1 DEF RewriteFails, Erased
  <2> QED BY <1>w, <2>1, <2>2 DEF memory, Torn
<1> QED
  BY <1>1, <1>2, <1>3, <1>4, <1>5, <1>6, <1>7, <1>8, <1>9, <1>10, <1>11, <1>12,
     <1>13, <1>14, <1>15, <1>16, <1>17 DEF Next, Step

----------------------------------------------------------------------------
\* The invariant holds however often the monitor fails, is cancelled, is killed or
\* is started again, and its mailbox is recreated, as long as the server reports its
\* UIDVALIDITY at every SELECT.  So do the theorems after it.
THEOREM Inductive == ASSUME Reports PROVE Spec => []IInv
<1>1. Init => IInv
  <2> SUFFICES ASSUME Init PROVE IInv
    OBVIOUS
  <2>1. Counted /\ CursorBased /\ Recorded /\ TwiceOnlyUntracked
    BY DEF Init, Counted, CursorBased, Recorded, TwiceOnlyUntracked, AbsentFile
  <2> QED BY <2>1, TypedInit, ControlInit DEF IInv
<1>2. IInv /\ [Next]_vars => IInv'
  <2> SUFFICES ASSUME IInv, [Next]_vars PROVE IInv'
    OBVIOUS
  <2>1. TypeOK /\ Counted /\ Control /\ Selected /\ Above
    BY DEF IInv, Control
  <2>2. TypeOK'
    BY <2>1, ServerStep, WorkStep, LeftStep, TypeParts DEF TypeOK, ServerOK, WorkOK, LeftOK
  <2> QED
    BY <2>1, <2>2, CountedStep, ControlStep, CursorBasedStep, RecordedStep, TwiceStep DEF IInv
<1> QED BY <1>1, <1>2, PTL DEF Spec

\* The variables of the monitor (monitor.rs, state_manager.rs) have their types.
THEOREM TypeCorrect == ASSUME Reports PROVE Spec => []TypeOK
<1>1. IInv => TypeOK
  BY DEF IInv
<1> QED BY <1>1, Inductive, PTL

\* No cursor is compared with the UIDs of a mailbox it is not of (check_for_new).
THEOREM CursorInEpoch == ASSUME Reports PROVE Spec => []CursorOfEpoch
<1>1. IInv => CursorOfEpoch
  BY DEF IInv, Control, Selected, CursorBased, CursorOfEpoch
<1> QED BY <1>1, Inductive, PTL

\* A mail handed over twice is one whose line a kill, a failed append, a compaction,
\* done, failed or cut short, or --reset has lost, or that a start from the epoch before
\* has forgotten (process_message, track_uid, compact).
THEOREM TwiceExcused == ASSUME Reports PROVE Spec => []TwiceOnlyUntracked
<1>1. IInv => TwiceOnlyUntracked
  BY DEF IInv
<1> QED BY <1>1, Inductive, PTL

----------------------------------------------------------------------------
(* What the cursor leaves behind it.                                        *)

\* The mailbox's next mail is above every cursor of its epoch.
Newer ==
    /\ \A u \in inbox : u < next
    /\ validity = epoch => cursor < next
    /\ stateFile.validity = epoch => stateFile.cursor < next
    /\ pc \in {"fetch", "each", "track", "rewrite"} => to < next

\* A UID that is skipped is of a mail handed over, or hides one.
KnownSettled ==
    \A u \in processed : u \in carried \/ <<validity, u>> \in handed

Fetched(u) == FetchFrom(cursor, to) <= u /\ u <= to

\* What was fetched is settled or still to be looked at.
BatchHasRest ==
    pc \in {"each", "track", "rewrite"} =>
        \A u \in inbox : Fetched(u) => u \in batch \/ Settled(<<epoch, u>>)

\* What a cursor c of epoch v has passed is settled.
Behind(v, c) ==
    \A u \in inbox : Passed(<<epoch, u>>, v, c) => Settled(<<epoch, u>>)

PassedSettled == Behind(validity, cursor) /\ Behind(stateFile.validity, stateFile.cursor)

Followed == Newer /\ KnownSettled /\ BatchHasRest /\ PassedSettled

LEMMA InboxNumbers ==
    ASSUME TypeOK
    PROVE  /\ next \in Nat /\ next >= 1
           /\ \A u \in inbox : u \in Nat /\ u >= 1
BY BoundAssumption DEF TypeOK, Uid

\* What is settled stays so.
LEMMA SettledStays == ASSUME [Next]_vars, NEW m, Settled(m) PROVE Settled(m)'
<1>1. /\ handed \subseteq handed' /\ failed \subseteq failed' /\ cut \subseteq cut'
      /\ carried \subseteq carried'
  BY DEF Next, Step, vars, history, Arrive, Expunge, Recreate, Start, Select,
     CheckValidity, RemoveState, RemoveUids, Truncate, WriteState, FindNewest, Fetch,
     Skip, HandOver, Track, Rewrite, Advance, CleanUp, ConnectFails, ProcessFails,
     TrackFails, RewriteFails, CheckFails, Cancel, Crash
<1> QED BY <1>1 DEF Settled

LEMMA NewerStep ==
    ASSUME TypeOK, Control, CursorBased, Newer, [Next]_vars
    PROVE  Newer'
<1> USE DEF Newer
<1>0. /\ epoch \in Nat /\ cursor \in Nat /\ validity \in Nat /\ to \in Nat
      /\ stateFile.cursor \in Nat /\ stateFile.validity \in Nat /\ epoch # None
      /\ next \in Nat /\ next >= 1 /\ \A u \in inbox : u \in Nat
  BY Numbers, InboxNumbers DEF None
<1>1. CASE Arrive
  BY <1>0, <1>1 DEF Arrive, memory, files, control
<1>2. CASE \E u \in Uid : Expunge(u)
  BY <1>2 DEF Expunge, memory, files, control
<1>3. CASE Recreate
  <2>1. validity <= epoch /\ stateFile.validity <= epoch
    BY DEF Control, Epochs
  <2> QED BY <1>0, <1>3, <2>1 DEF Recreate, memory, files, control
<1>4. CASE Start(TRUE) \/ Start(FALSE)
  BY <1>0, <1>4 DEF Start, server, files, None
<1>5. CASE CheckValidity
  <2>1. /\ UNCHANGED <<epoch, next, inbox, stateFile>>
        /\ pc' \notin {"fetch", "each", "track", "rewrite"}
        /\ cursor' = cursor \/ cursor' = None
    BY <1>5 DEF CheckValidity, server, files, memory
  <2>2. CASE validity' = validity
    BY <1>0, <2>1, <2>2 DEF None
  <2>3. CASE validity' # validity
    <3>1. cursor' = None
      BY <1>5, <2>3 DEF CheckValidity, ValidityAction, memory, CursorBased
    <3> QED BY <1>0, <2>1, <3>1 DEF None
  <2> QED BY <2>2, <2>3
<1>6. CASE RemoveUids
  <2>1. cursor' = None
    BY <1>6 DEF RemoveUids, Control, ResetForgets
  <2> QED BY <1>0, <1>6, <2>1 DEF RemoveUids, server, None
<1>7. CASE RemoveState \/ Truncate \/ WriteState
  <2>1. /\ UNCHANGED <<epoch, next, inbox, memory>>
        /\ pc' \notin {"fetch", "each", "track", "rewrite"}
        /\ \/ stateFile'.validity = None
           \/ stateFile'.cursor = cursor /\ stateFile'.validity = validity
    BY <1>7 DEF RemoveState, Truncate, WriteState, AbsentFile, TornFile, SavedFile, server, TypeOK
  <2> QED BY <1>0, <2>1 DEF memory
<1>8. CASE FindNewest
  <2>1. UNCHANGED <<epoch, next, inbox, memory, files>>
    BY <1>8 DEF FindNewest, server
  <2>2. CASE pc' = "loop"
    BY <2>1, <2>2 DEF memory, files
  <2>3. CASE pc' # "loop"
    <3>1. to' = IF selected.mail /\ inbox # {} THEN Newest(inbox) ELSE None
      BY <1>8, <2>3 DEF FindNewest
    <3>2. inbox # {} => Newest(inbox) \in inbox
      BY NewestIn DEF TypeOK
    <3>3. to' < next
      BY <1>0, <3>1, <3>2 DEF None
    <3> QED BY <2>1, <3>3 DEF memory, files
  <2> QED BY <2>2, <2>3
<1>9. CASE Advance
  <2>1. cursor' = to /\ pc = "each" /\ pc' = "truncate"
        /\ UNCHANGED <<epoch, next, inbox, validity, stateFile>>
    BY <1>9 DEF Advance, NewCursor, server, files
  <2> QED BY <2>1
<1>10. CASE Crash
  <2>1. validity' = None /\ pc' = "down" /\ UNCHANGED <<epoch, next, inbox, stateFile>>
    BY <1>10 DEF Crash, server, files
  <2> QED BY <1>0, <2>1
<1>11. CASE \/ UNCHANGED vars \/ Select \/ Fetch \/ Skip \/ HandOver \/ Track \/ Rewrite
            \/ CleanUp \/ ConnectFails \/ ProcessFails \/ TrackFails \/ RewriteFails
            \/ CheckFails \/ Cancel
  <2>1. UNCHANGED <<epoch, next, inbox, validity, cursor, stateFile>>
    BY <1>11 DEF vars, server, memory, files, Select, Fetch, Skip, HandOver, Track,
       Rewrite, CleanUp, ConnectFails, ProcessFails, TrackFails, RewriteFails, CheckFails, Cancel
  <2>2. \/ pc' \notin {"fetch", "each", "track", "rewrite"}
        \/ to' = to /\ pc \in {"fetch", "each", "track", "rewrite"}
    BY <1>11 DEF vars, control, Select, Fetch, Skip, HandOver, Track, AtMail,
       Rewrite, CleanUp, ConnectFails, ProcessFails, TrackFails, RewriteFails, CheckFails, Cancel
  <2> QED BY <2>1, <2>2
<1> QED
  BY <1>1, <1>2, <1>3, <1>4, <1>5, <1>6, <1>7, <1>8, <1>9, <1>10, <1>11 DEF Next, Step

LEMMA KnownSettledStep == ASSUME TypeOK, Control, KnownSettled, [Next]_vars PROVE KnownSettled'
<1>1. CASE Start(TRUE) \/ Start(FALSE)
  <2>1. CASE processed' = {}
    BY <2>1 DEF KnownSettled
  <2>2. CASE processed' # {}
    <3>1. /\ processed' = uidsFile /\ validity' = stateFile.validity /\ handed' = handed
          /\ carried' = carried \cup Stale(uidsFile, stateFile.validity)
      BY <1>1, <2>2 DEF Start
    <3> QED BY <3>1 DEF Stale, KnownSettled
  <2> QED BY <2>1, <2>2
<1>2. CASE CheckValidity
  <2>1. UNCHANGED <<handed, carried>>
    BY <1>2 DEF CheckValidity
  <2>2. CASE processed' = {}
    BY <2>2 DEF KnownSettled
  <2>3. CASE processed' # {}
    <3>1. processed' = processed /\ (validity = None \/ validity' = validity)
      BY <1>2, <2>3 DEF CheckValidity, ValidityAction, memory
    <3>2. \A u : <<None, u>> \notin handed
      BY Numbers DEF None
    <3> QED BY <2>1, <3>1, <3>2 DEF KnownSettled
  <2> QED BY <2>2, <2>3
<1>3. CASE RemoveUids
  BY <1>3 DEF RemoveUids, Control, ResetForgets, KnownSettled
<1>4. CASE Track \/ TrackFails
  <2>1. /\ processed' \subseteq processed \cup {Current}
        /\ UNCHANGED <<validity, handed, carried>> /\ pc = "track"
    BY <1>4 DEF Track, TrackFails, Kept
  <2>2. <<validity, Current>> \in handed
    BY <2>1 DEF Control, Selected, Above, CurrentMail
  <2> QED BY <2>1, <2>2 DEF KnownSettled
<1>5. CASE HandOver
  BY <1>5 DEF HandOver, memory, KnownSettled
<1>6. CASE Crash
  BY <1>6 DEF Crash, KnownSettled
<1>7. CASE Advance
  BY <1>7 DEF Advance, KnownSettled
<1>8. CASE \/ UNCHANGED vars \/ Arrive \/ (\E u \in Uid : Expunge(u)) \/ Recreate \/ Select
           \/ RemoveState \/ Truncate \/ WriteState \/ FindNewest \/ Fetch \/ Skip
           \/ Rewrite \/ RewriteFails \/ CleanUp \/ ConnectFails \/ ProcessFails
           \/ CheckFails \/ Cancel
  <2>1. UNCHANGED <<validity, processed, handed, carried>>
    BY <1>8 DEF vars, memory, history, Arrive, Expunge, Recreate, Select, RemoveState,
       Truncate, WriteState, FindNewest, Fetch, Skip, Rewrite, RewriteFails, CleanUp,
       ConnectFails,
       ProcessFails, CheckFails, Cancel
  <2> QED BY <2>1 DEF KnownSettled
<1> QED BY <1>1, <1>2, <1>3, <1>4, <1>5, <1>6, <1>7, <1>8 DEF Next, Step

\* A check looks at what it fetched until none of it is left.
LEMMA BatchHasRestStep ==
    ASSUME TypeOK, Control, KnownSettled, Newer, BatchHasRest, [Next]_vars
    PROVE  BatchHasRest'
<1> SUFFICES ASSUME pc' \in {"each", "track", "rewrite"}, NEW u \in inbox', Fetched(u)'
             PROVE  u \in batch' \/ Settled(<<epoch, u>>)'
  BY DEF BatchHasRest
<1>1. CASE pc \in {"each", "track", "rewrite"} /\ ~Arrive
  <2>1. /\ UNCHANGED <<epoch, cursor, to>> /\ u \in inbox
        /\ \/ batch' = batch
           \/ batch' = batch \ {Current} /\ (Skip \/ ProcessFails \/ Track)
    BY <1>1 DEF Next, Step, vars, server, memory, control, Expunge, Recreate, Start, Select,
       CheckValidity, RemoveState, RemoveUids, Truncate, WriteState, FindNewest, Fetch,
       Skip, HandOver, Track, Rewrite, Advance, CleanUp, ConnectFails, ProcessFails,
       TrackFails, RewriteFails, CheckFails, Cancel, Crash, AtMail, TypeOK
  <2>2. Fetched(u)
    BY <2>1 DEF Fetched
  <2>3. u \in batch \/ Settled(<<epoch, u>>)
    BY <1>1, <2>1, <2>2 DEF BatchHasRest
  <2>4. ASSUME u \in batch, u \notin batch' PROVE Settled(<<epoch, u>>)'
    <3>1. u = Current /\ (Skip \/ ProcessFails \/ Track)
      BY <2>1, <2>4
    <3>2. selected.epoch = epoch /\ validity = epoch
      BY <1>1 DEF Control, Selected
    <3>3. CASE Skip
      <4>1. u \in processed
        BY <3>1, <3>3 DEF Skip
      <4>2. Settled(<<epoch, u>>)
        BY <3>2, <4>1 DEF KnownSettled, Settled
      <4> QED BY <2>1, <4>2, SettledStays
    <3>4. CASE ProcessFails
      <4>1. <<epoch, u>> \in failed'
        BY <3>1, <3>2, <3>4 DEF ProcessFails, CurrentMail
      <4> QED BY <2>1, <4>1 DEF Settled
    <3>5. CASE Track
      <4>1. <<epoch, u>> \in handed
        BY <3>1, <3>2, <3>5 DEF Track, Control, Above, CurrentMail
      <4>2. Settled(<<epoch, u>>)
        BY <4>1 DEF Settled
      <4> QED BY <2>1, <4>2, SettledStays
    <3> QED BY <3>1, <3>3, <3>4, <3>5
  <2>5. ASSUME Settled(<<epoch, u>>) PROVE Settled(<<epoch, u>>)'
    BY <2>1, <2>5, SettledStays
  <2> QED BY <2>3, <2>4, <2>5
<1>2. CASE Arrive
  <2>1. /\ UNCHANGED <<epoch, cursor, to, batch, pc>> /\ u \in inbox \cup {next}
    BY <1>2 DEF Arrive, memory, control
  <2>2. Fetched(u)
    BY <2>1 DEF Fetched
  <2>3. u # next
    <3>1. u <= to /\ to < next
      BY <2>1, <2>2 DEF Fetched, Newer
    <3> QED BY <3>1, Numbers, InboxNumbers
  <2>4. u \in batch \/ Settled(<<epoch, u>>)
    BY <2>1, <2>2, <2>3 DEF BatchHasRest
  <2> QED BY <2>1, <2>4, SettledStays
<1>3. CASE pc \notin {"each", "track", "rewrite"} /\ ~Arrive
  <2>1. Fetch
    BY <1>3 DEF Next, Step, vars, control, Expunge, Recreate, Start, Select,
       CheckValidity, RemoveState, RemoveUids, Truncate, WriteState, FindNewest,
       Skip, HandOver, Track, Rewrite, Advance, CleanUp, ConnectFails, ProcessFails,
       TrackFails, RewriteFails, CheckFails, Cancel, Crash, AtMail, TypeOK
  <2>2. /\ batch' = inbox \cap (FetchFrom(cursor, to) .. to)
        /\ UNCHANGED <<cursor, to>> /\ u \in inbox
    BY <2>1 DEF Fetch, memory, server
  <2>3. FetchFrom(cursor, to) <= u /\ u <= to
    BY <2>2 DEF Fetched
  <2>4. FetchFrom(cursor, to) \in Nat /\ to \in Nat /\ u \in Nat
    BY <2>2, Numbers, InboxNumbers DEF FetchFrom
  <2> QED BY <2>2, <2>3, <2>4
<1> QED BY <1>1, <1>2, <1>3

\* Settled mail stays behind a cursor that does not move, and new mail comes above it.
LEMMA BehindKept ==
    ASSUME TypeOK, [Next]_vars, base' = base, NEW v \in Epoch \cup {None}, NEW c \in Nat,
           v <= epoch, v = epoch => c < next, Behind(v, c)
    PROVE  Behind(v, c)'
<1> SUFFICES ASSUME NEW u \in inbox', Passed(<<epoch, u>>, v, c)'
             PROVE  Settled(<<epoch, u>>)'
  BY DEF Behind
<1>1. CASE Recreate
  BY <1>1 DEF Recreate
<1>2. CASE Arrive
  <2>1. epoch' = epoch /\ u \in inbox \cup {next}
    BY <1>2 DEF Arrive
  <2>2. v = epoch /\ u <= c
    BY <2>1 DEF Passed
  <2>3. u # next
    BY <2>2, InboxNumbers
  <2>4. Passed(<<epoch, u>>, v, c)
    BY <2>1 DEF Passed
  <2> QED BY <2>1, <2>3, <2>4, SettledStays DEF Behind
<1>3. CASE ~Recreate /\ ~Arrive
  <2>1. epoch' = epoch /\ inbox' \subseteq inbox
    BY <1>3 DEF Next, Step, vars, server, Expunge, Start, Select, CheckValidity,
       RemoveState, RemoveUids, Truncate, WriteState, FindNewest, Fetch, Skip, HandOver,
       Track, Rewrite, Advance, CleanUp, ConnectFails, ProcessFails, TrackFails,
       RewriteFails, CheckFails, Cancel, Crash
  <2>2. Passed(<<epoch, u>>, v, c)
    BY <2>1 DEF Passed
  <2> QED BY <2>1, <2>2, SettledStays DEF Behind
<1> QED BY <1>1, <1>2, <1>3

LEMMA BehindNothing ==
    ASSUME TypeOK', NEW v, NEW c, v = None \/ c = None
    PROVE  Behind(v, c)'
<1> SUFFICES ASSUME NEW u \in inbox', Passed(<<epoch, u>>, v, c)' PROVE FALSE
  BY DEF Behind
<1>1. v = epoch' /\ c >= u
  BY DEF Passed
<1>2. u \in Nat \ {0} /\ epoch' \in Nat \ {0}
  BY BoundAssumption DEF TypeOK, Uid, Epoch
<1> QED BY <1>1, <1>2 DEF None

LEMMA AdvanceSettles ==
    ASSUME TypeOK, TypeOK', Control, Newer, BatchHasRest, PassedSettled, [Next]_vars, Advance
    PROVE  PassedSettled'
<1>0. /\ pc = "each" /\ validity = epoch /\ selected.epoch = epoch
      /\ cursor' = to /\ cursor < to /\ cursor \in Nat /\ to \in Nat
      /\ UNCHANGED <<epoch, inbox, validity, stateFile, handed, failed, carried>>
      /\ cut' = cut \cup {<<epoch, u>> : u \in batch}
      /\ base' = IF cursor = None THEN [base EXCEPT ![epoch] = to] ELSE base
  BY Numbers DEF Advance, NewCursor, Control, Selected, Above, server, files
<1>1. epoch \in Epoch /\ base \in [Epoch -> Uid \cup {None}]
  BY DEF TypeOK
<1>2. ASSUME NEW u \in inbox, Fetched(u) PROVE Settled(<<epoch, u>>)'
  <2>1. u \in batch \/ Settled(<<epoch, u>>)
    BY <1>0, <1>2 DEF BatchHasRest
  <2>2. u \in batch => <<epoch, u>> \in cut'
    BY <1>0
  <2> QED BY <1>0, <2>1, <2>2 DEF Settled
<1>3. CASE cursor = None
  <2>1. Behind(validity, cursor)'
    <3> SUFFICES ASSUME NEW u \in inbox', Passed(<<epoch, u>>, validity, cursor)'
                 PROVE  Settled(<<epoch, u>>)'
      BY DEF Behind
    <3>1. u <= to /\ u >= base'[epoch] /\ base'[epoch] = to /\ u \in inbox
      BY <1>0, <1>1, <1>3 DEF Passed
    <3>2. Fetched(u)
      BY <1>0, <1>3, <3>1 DEF Fetched, FetchFrom
    <3> QED BY <1>2, <3>1, <3>2
  <2>2. stateFile'.validity = epoch' => stateFile'.cursor = None
    BY <1>0, <1>3, Numbers DEF Control, FileBehind, Running, None
  <2>3. Behind(stateFile.validity, stateFile.cursor)'
    <3> SUFFICES ASSUME NEW u \in inbox',
                        Passed(<<epoch, u>>, stateFile.validity, stateFile.cursor)'
                 PROVE  FALSE
      BY DEF Behind
    <3>1. stateFile'.validity = epoch' /\ stateFile'.cursor >= u /\ u \in inbox
      BY <1>0 DEF Passed
    <3> QED BY <2>2, <3>1, InboxNumbers DEF None
  <2> QED BY <2>1, <2>3 DEF PassedSettled
<1>4. CASE cursor # None
  <2>0. base' = base
    BY <1>0, <1>4
  <2>1. Behind(validity, cursor)'
    <3> SUFFICES ASSUME NEW u \in inbox', Passed(<<epoch, u>>, validity, cursor)'
                 PROVE  Settled(<<epoch, u>>)'
      BY DEF Behind
    <3>1. u \in inbox /\ u \in Nat /\ u <= to
      BY <1>0, InboxNumbers DEF Passed
    <3>2. CASE u <= cursor
      <4>1. Passed(<<epoch, u>>, validity, cursor)
        BY <1>0, <2>0, <3>1, <3>2 DEF Passed
      <4>2. Settled(<<epoch, u>>)
        BY <3>1, <4>1 DEF PassedSettled, Behind
      <4> QED BY <1>0, <4>2, SettledStays
    <3>3. CASE ~(u <= cursor)
      <4>1. Fetched(u)
        BY <1>0, <1>4, <3>1, <3>3 DEF Fetched, FetchFrom
      <4> QED BY <1>2, <3>1, <4>1
    <3> QED BY <3>2, <3>3
  <2>2. Behind(stateFile.validity, stateFile.cursor)'
    <3> SUFFICES ASSUME NEW u \in inbox',
                        Passed(<<epoch, u>>, stateFile.validity, stateFile.cursor)'
                 PROVE  Settled(<<epoch, u>>)'
      BY DEF Behind
    <3>1. u \in inbox /\ Passed(<<epoch, u>>, stateFile.validity, stateFile.cursor)
      BY <1>0, <2>0 DEF Passed
    <3>2. Settled(<<epoch, u>>)
      BY <3>1 DEF PassedSettled, Behind
    <3> QED BY <1>0, <3>2, SettledStays
  <2> QED BY <2>1, <2>2 DEF PassedSettled
<1> QED BY <1>3, <1>4

\* Any other step keeps a cursor, copies one to or from the file, or forgets it.
LEMMA PassedSettledStep ==
    ASSUME TypeOK, TypeOK', Control, CursorBased, Newer, BatchHasRest, PassedSettled,
           [Next]_vars
    PROVE  PassedSettled'
<1>1. CASE Advance
  BY <1>1, AdvanceSettles
<1>2. CASE ~Advance
  <2>1. base' = base
    BY <1>2 DEF Next, Step, vars, history, Arrive, Expunge, Recreate, Start, Select,
       CheckValidity, RemoveState, RemoveUids, Truncate, WriteState, FindNewest, Fetch,
       Skip, HandOver, Track, Rewrite, CleanUp, ConnectFails, ProcessFails,
       TrackFails, RewriteFails, CheckFails, Cancel, Crash
  <2>2. /\ validity \in Epoch \cup {None} /\ cursor \in Nat
        /\ stateFile.validity \in Epoch \cup {None} /\ stateFile.cursor \in Nat
    BY Numbers DEF TypeOK
  <2>3. Behind(validity, cursor) /\ Behind(stateFile.validity, stateFile.cursor)
    BY DEF PassedSettled
  <2>4. validity <= epoch /\ stateFile.validity <= epoch
    BY DEF Control, Epochs
  <2>5. PICK v \in Epoch \cup {None}, c \in Nat : v = validity /\ c = cursor
    BY <2>2
  <2>6. PICK w \in Epoch \cup {None}, d \in Nat :
            w = stateFile.validity /\ d = stateFile.cursor
    BY <2>2
  <2>7. Behind(v, c)'
    <3>1. Behind(v, c) /\ v <= epoch /\ (v = epoch => c < next)
      BY <2>3, <2>4, <2>5 DEF Newer
    <3> QED BY <2>1, <3>1, BehindKept
  <2>8. Behind(w, d)'
    <3>1. Behind(w, d) /\ w <= epoch /\ (w = epoch => d < next)
      BY <2>3, <2>4, <2>6 DEF Newer
    <3> QED BY <2>1, <3>1, BehindKept
  <2>9. \/ validity' = v /\ cursor' = c
        \/ validity' = w /\ cursor' = d
        \/ validity' = None \/ cursor' = None
    <3>1. CASE CheckValidity
      BY <2>5, <3>1 DEF CheckValidity, ValidityAction, memory, CursorBased
    <3>2. CASE RemoveUids
      BY <3>2 DEF RemoveUids, Control, ResetForgets
    <3>3. CASE ~CheckValidity /\ ~RemoveUids
      BY <1>2, <2>5, <2>6, <3>3 DEF Next, Step, vars, memory, Arrive, Expunge, Recreate,
         Start, Select, RemoveState, Truncate, WriteState, FindNewest, Fetch,
         Skip, HandOver, Track, Rewrite, CleanUp, ConnectFails, ProcessFails,
         TrackFails, RewriteFails, CheckFails, Cancel, Crash
    <3> QED BY <3>1, <3>2, <3>3
  <2>10. \/ stateFile'.validity = v /\ stateFile'.cursor = c
         \/ stateFile'.validity = w /\ stateFile'.cursor = d
         \/ stateFile'.validity = None
    <3>1. stateFile' \in {stateFile, AbsentFile, TornFile, SavedFile}
      BY DEF Next, Step, vars, files, Arrive, Expunge, Recreate, Start, Select,
         CheckValidity, RemoveState, RemoveUids, Truncate, WriteState, FindNewest, Fetch,
         Skip, HandOver, Track, Rewrite, Advance, CleanUp, ConnectFails, ProcessFails,
         TrackFails, RewriteFails, CheckFails, Cancel, Crash
    <3> QED BY <2>5, <2>6, <3>1 DEF AbsentFile, TornFile, SavedFile
  <2>11. PICK e, f : e = validity' /\ f = cursor'
    OBVIOUS
  <2>12. Behind(e, f)'
    BY <2>7, <2>8, <2>9, <2>11, BehindNothing
  <2>13. PICK g, h : g = stateFile'.validity /\ h = stateFile'.cursor
    OBVIOUS
  <2>14. Behind(g, h)'
    BY <2>7, <2>8, <2>10, <2>13, BehindNothing
  <2> QED BY <2>11, <2>12, <2>13, <2>14 DEF PassedSettled, Behind
<1> QED BY <1>1, <1>2

\* No mail that is still in the mailbox is passed over by the cursor of its epoch, in
\* memory or in the file, without having been handed over, having failed, having been
\* left by a cancelled batch or hidden by a stale UID (check_for_new, fetch_range).
THEOREM NoneSkipped == ASSUME Reports PROVE Spec => []NothingSkipped
<1>1. Init => Followed
  <2> SUFFICES ASSUME Init PROVE Followed
    OBVIOUS
  <2> QED BY DEF Init, Followed, Newer, KnownSettled, BatchHasRest, PassedSettled, Behind,
                 AbsentFile, None
<1>2. IInv /\ IInv' /\ Followed /\ [Next]_vars => Followed'
  BY NewerStep, KnownSettledStep, BatchHasRestStep, PassedSettledStep DEF IInv, Followed
<1>3. Followed => NothingSkipped
  BY DEF Followed, PassedSettled, Behind, NothingSkipped
<1> QED BY <1>1, <1>2, <1>3, Inductive, PTL DEF Spec
============================================================================
