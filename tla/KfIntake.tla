------------------------------ MODULE KfIntake ------------------------------
(***************************************************************************)
(* The intake of WeCom customer service messages.  Every notification       *)
(* starts a task of its own, which reads pages of messages from a cursor    *)
(* kept in memory, skips what the dedup store has seen, hands the rest on,  *)
(* moves the cursor and flushes it to disk in the end.  Tasks of one        *)
(* account overlap; a kill loses the memory and leaves the file.            *)
(*                                                                          *)
(* A message is its position in the account's list, and a cursor the        *)
(* position it stands for; None is the empty cursor of a store that has     *)
(* none yet.  One account is modelled: accounts share only the dedup store, *)
(* whose entries are distinct, and the file, which is written whole.        *)
(***************************************************************************)
EXTENDS Integers, Sequences, FiniteSets

CONSTANTS
    Tasks,        \* handlers of notifications that may run at a time
    PageSize,     \* the limit of one sync_msg request
    DedupSize,    \* MAX_ENTRIES
    Systems,      \* messages without an external_userid
    MaxMessages,  \* bound: messages of the account
    MaxBacklog,   \* bound: messages from before the first notification
    MaxNotes,     \* bound: notifications
    MaxFaults     \* bound: requests, callbacks and writes that fail, and kills

ASSUME SizeAssumption == PageSize \in Nat \ {0} /\ DedupSize \in Nat \ {0}
ASSUME BoundAssumption ==
    /\ MaxMessages \in Nat /\ MaxBacklog \in 0 .. MaxMessages
    /\ MaxNotes \in Nat /\ MaxFaults \in Nat

Message == 1 .. MaxMessages
Position == 0 .. MaxMessages
None == 0

VARIABLES
    count,   \* messages the service has
    cursor,  \* memory: cursors[open_kfid]
    seen,    \* memory: the dedup store, oldest entry first
    dirty,   \* memory: the cursor store has something to write
    saved,   \* the cursor file
    pc,      \* task -> where it is
    at,      \* task -> its current_cursor
    pos,     \* task -> the message of its page it is at
    got,     \* task -> next_cursor of its page, which is the page's end
    more,    \* task -> has_more of its page
    snap,    \* task -> what its flush serialised
    notes, faults,
    handed,     \* history: messages given to on_message
    again,      \* history: messages given to it more than once
    failed,     \* history: messages whose callback failed
    filtered,   \* history: messages left out as chat history of a first sync or too old
    forgotten,  \* history: messages the dedup store does not know any more
    raced,      \* history: messages marked as seen by two tasks
    dropped,    \* history: messages marked and not handed on when the process died
    overtaken   \* history: a flush cleared the mark of a later cursor

service == <<count>>
store == <<cursor, dirty, saved>>
local == <<at, pos, got, more, snap>>
budget == <<notes, faults>>
history == <<handed, again, failed, filtered, forgotten, raced, dropped, overtaken>>
vars == <<service, store, seen, pc, local, budget, history>>

Elements(seq) == {seq[i] : i \in DOMAIN seq}
Valid == Message \ Systems

Init ==
    /\ count \in 0 .. MaxBacklog
    /\ cursor = None /\ dirty = FALSE /\ saved = None /\ seen = <<>>
    /\ pc = [t \in Tasks |-> "idle"]
    /\ at = [t \in Tasks |-> None] /\ pos = [t \in Tasks |-> 1]
    /\ got = [t \in Tasks |-> None] /\ more = [t \in Tasks |-> FALSE]
    /\ snap = [t \in Tasks |-> None]
    /\ notes = 0 /\ faults = 0
    /\ handed = {} /\ again = {} /\ failed = {} /\ filtered = {}
    /\ forgotten = {} /\ raced = {} /\ dropped = {} /\ overtaken = FALSE

----------------------------------------------------------------------------
Arrive ==
    /\ count < MaxMessages /\ count' = count + 1
    /\ UNCHANGED <<store, seen, pc, local, budget, history>>

\* What a task knows ends with it.
TaskEnds(t) ==
    /\ pc' = [pc EXCEPT ![t] = "idle"]
    /\ at' = [at EXCEPT ![t] = None] /\ pos' = [pos EXCEPT ![t] = 1]
    /\ got' = [got EXCEPT ![t] = None] /\ more' = [more EXCEPT ![t] = FALSE]
    /\ snap' = [snap EXCEPT ![t] = None]

\* A notification starts a task, which reads the cursor for itself.
Notify(t) ==
    /\ pc[t] = "idle"
    /\ notes < MaxNotes /\ notes' = notes + 1
    /\ at' = [at EXCEPT ![t] = cursor]
    /\ pc' = [pc EXCEPT ![t] = "sync"]
    /\ UNCHANGED <<service, store, seen, pos, got, more, snap, faults, history>>

----------------------------------------------------------------------------
\* sync_messages: a page from the task's cursor.

PageEnd(from) == IF from + PageSize < count THEN from + PageSize ELSE count

\* Mutant of FirstOf: the page begins after its first message.
FirstOfNext(from, end) == from + 2

\* filter_sync_messages: with an empty cursor only the last message of the page
\* that has a sender is kept.
FirstOf(from, end) ==
    LET valid == Valid \cap (from + 1 .. end) IN
    IF from = None /\ valid # {}
      THEN CHOOSE m \in valid : \A n \in valid : n <= m
      ELSE from + 1

Sync(t) ==
    /\ pc[t] = "sync"
    /\ LET end == PageEnd(at[t]) IN
         /\ got' = [got EXCEPT ![t] = end]
         /\ more' = [more EXCEPT ![t] = end < count]
         /\ pos' = [pos EXCEPT ![t] = FirstOf(at[t], end)]
         /\ filtered' = IF at[t] = None
                          THEN filtered \cup (1 .. FirstOf(at[t], end) - 1)
                          ELSE filtered
    /\ pc' = [pc EXCEPT ![t] = "each"]
    /\ UNCHANGED <<service, store, seen, at, snap, budget,
                   handed, again, failed, forgotten, raced, dropped, overtaken>>

\* The request fails, or the channel is cancelled: the task goes on to its flush.
SyncFails(t) ==
    /\ pc[t] = "sync"
    /\ faults < MaxFaults /\ faults' = faults + 1
    /\ pc' = [pc EXCEPT ![t] = "flush"]
    /\ UNCHANGED <<service, store, seen, local, notes, history>>

----------------------------------------------------------------------------
\* The page, one message after the other.

AtMessage(t) == pc[t] = "each" /\ pos[t] <= got[t]

Skip(t) ==
    /\ AtMessage(t)
    /\ pos[t] \in Systems \cup Elements(seen)
    /\ pos' = [pos EXCEPT ![t] = @ + 1]
    /\ UNCHANGED <<service, store, seen, pc, at, got, more, snap, budget, history>>

\* The message is older than max_message_age_seconds: time is not modelled, so any
\* message may be.
TooOld(t) ==
    /\ AtMessage(t)
    /\ filtered' = filtered \cup {pos[t]}
    /\ pos' = [pos EXCEPT ![t] = @ + 1]
    /\ UNCHANGED <<service, store, seen, pc, at, got, more, snap, budget,
                   handed, again, failed, forgotten, raced, dropped, overtaken>>

\* is_duplicate says no, and lets the store go.
IsNew(t) ==
    /\ AtMessage(t)
    /\ pos[t] \notin Systems \cup Elements(seen)
    /\ pc' = [pc EXCEPT ![t] = "mark"]
    /\ UNCHANGED <<service, store, seen, local, budget, history>>

\* Mutant of Marked: the store marks none.
MarkedNever(m) == seen

\* mark_seen: a full store forgets its oldest entry, whether or not m is new.
Marked(m) ==
    LET kept == IF Len(seen) >= DedupSize THEN Tail(seen) ELSE seen IN
    IF m \in Elements(kept) THEN kept ELSE Append(kept, m)

Mark(t) ==
    /\ pc[t] = "mark"
    /\ seen' = Marked(pos[t])
    /\ raced' = IF pos[t] \in Elements(seen) THEN raced \cup {pos[t]} ELSE raced
    /\ forgotten' = IF Len(seen) >= DedupSize THEN forgotten \cup {Head(seen)}
                                              ELSE forgotten
    /\ pc' = [pc EXCEPT ![t] = "name"]
    /\ UNCHANGED <<service, store, local, budget,
                   handed, again, failed, filtered, dropped, overtaken>>

\* The customer's name is back, or is not known, and the message is handed on.
HandOn(t) ==
    /\ pc[t] = "name"
    /\ handed' = handed \cup {pos[t]}
    /\ again' = IF pos[t] \in handed THEN again \cup {pos[t]} ELSE again
    /\ pos' = [pos EXCEPT ![t] = @ + 1]
    /\ pc' = [pc EXCEPT ![t] = "each"]
    /\ UNCHANGED <<service, store, seen, at, got, more, snap, budget,
                   failed, filtered, forgotten, raced, dropped, overtaken>>

\* The callback fails: the message is logged and left.
HandOnFails(t) ==
    /\ pc[t] = "name"
    /\ faults < MaxFaults /\ faults' = faults + 1
    /\ failed' = failed \cup {pos[t]}
    /\ pos' = [pos EXCEPT ![t] = @ + 1]
    /\ pc' = [pc EXCEPT ![t] = "each"]
    /\ UNCHANGED <<service, store, seen, at, got, more, snap, notes,
                   handed, again, filtered, forgotten, raced, dropped, overtaken>>

----------------------------------------------------------------------------
\* The cursor moves at the end of the page, to where this task has come: another
\* task may have moved it further.

\* Mutant of NextCursor: the cursor the page was asked with.
NextCursorStays(t) == at[t]

NextCursor(t) == got[t]

PageDone(t) ==
    /\ pc[t] = "each" /\ pos[t] > got[t]
    /\ IF got[t] # None
         THEN /\ cursor' = NextCursor(t) /\ dirty' = TRUE
              /\ at' = [at EXCEPT ![t] = NextCursor(t)]
              /\ pc' = [pc EXCEPT ![t] = IF more[t] THEN "sync" ELSE "flush"]
         ELSE /\ pc' = [pc EXCEPT ![t] = "flush"]
              /\ UNCHANGED <<cursor, dirty, at>>
    /\ UNCHANGED <<service, saved, seen, pos, got, more, snap, budget, history>>

----------------------------------------------------------------------------
\* flush_to_disk: one at a time; what is written is what was read when the lock
\* was taken, and the mark is cleared when it is written.

Flushing(t) == pc[t] \in {"write", "clear"}

FlushSkips(t) ==
    /\ pc[t] = "flush" /\ ~dirty
    /\ TaskEnds(t)
    /\ UNCHANGED <<service, store, seen, budget, history>>

FlushBegins(t) ==
    /\ pc[t] = "flush" /\ dirty /\ \A u \in Tasks : ~Flushing(u)
    /\ snap' = [snap EXCEPT ![t] = cursor]
    /\ pc' = [pc EXCEPT ![t] = "write"]
    /\ UNCHANGED <<service, store, seen, at, pos, got, more, budget, history>>

\* The temporary file is renamed over the old one.
FlushWrites(t) ==
    /\ pc[t] = "write"
    /\ saved' = snap[t]
    /\ pc' = [pc EXCEPT ![t] = "clear"]
    /\ UNCHANGED <<service, cursor, dirty, seen, local, budget, history>>

FlushFails(t) ==
    /\ pc[t] = "write"
    /\ faults < MaxFaults /\ faults' = faults + 1
    /\ TaskEnds(t)
    /\ UNCHANGED <<service, store, seen, notes, history>>

\* Mutant of FlushClears: the mark stays.
FlushKeeps(t) ==
    /\ pc[t] = "clear"
    /\ TaskEnds(t)
    /\ UNCHANGED <<service, store, seen, budget, history>>

FlushClears(t) ==
    /\ pc[t] = "clear"
    /\ dirty' = FALSE
    /\ overtaken' = (overtaken \/ cursor # snap[t])
    /\ TaskEnds(t)
    /\ UNCHANGED <<service, cursor, saved, seen, budget,
                   handed, again, failed, filtered, forgotten, raced, dropped>>

----------------------------------------------------------------------------
\* The process is killed and started again: the store loads the file, the dedup
\* store is empty, and what was marked and not handed on is not handed on.
Restart ==
    /\ faults < MaxFaults /\ faults' = faults + 1
    /\ cursor' = saved /\ dirty' = FALSE /\ seen' = <<>>
    /\ pc' = [t \in Tasks |-> "idle"]
    /\ at' = [t \in Tasks |-> None] /\ pos' = [t \in Tasks |-> 1]
    /\ got' = [t \in Tasks |-> None] /\ more' = [t \in Tasks |-> FALSE]
    /\ snap' = [t \in Tasks |-> None]
    /\ forgotten' = forgotten \cup Elements(seen)
    /\ dropped' = dropped \cup {pos[t] : t \in {u \in Tasks : pc[u] = "name"}}
    /\ UNCHANGED <<service, saved, notes,
                   handed, again, failed, filtered, raced, overtaken>>

----------------------------------------------------------------------------
\* What a started task does when nothing fails.
Step(t) ==
    \/ Sync(t) \/ Skip(t) \/ TooOld(t) \/ IsNew(t) \/ Mark(t) \/ HandOn(t) \/ PageDone(t)
    \/ FlushSkips(t) \/ FlushBegins(t) \/ FlushWrites(t) \/ FlushClears(t)

Fails(t) == SyncFails(t) \/ HandOnFails(t) \/ FlushFails(t)

Next ==
    \/ Arrive \/ Restart
    \/ \E t \in Tasks : Notify(t) \/ Step(t) \/ Fails(t)

\* A spawned task runs to its end; the service need not notify.
Fairness == \A t \in Tasks : WF_vars(Step(t))

Spec == Init /\ [][Next]_vars /\ Fairness

----------------------------------------------------------------------------
States == {"idle", "sync", "each", "mark", "name", "flush", "write", "clear"}

\* The variables of the intake have their types.
TypeOK ==
    /\ count \in Position /\ cursor \in Position /\ saved \in Position
    /\ dirty \in BOOLEAN /\ overtaken \in BOOLEAN
    /\ seen \in Seq(Message) /\ Len(seen) <= DedupSize
    /\ pc \in [Tasks -> States]
    /\ at \in [Tasks -> Position] /\ got \in [Tasks -> Position]
    /\ snap \in [Tasks -> Position] /\ more \in [Tasks -> BOOLEAN]
    /\ pos \in [Tasks -> 1 .. MaxMessages + 1]
    /\ notes \in 0 .. MaxNotes /\ faults \in 0 .. MaxFaults
    /\ handed \subseteq Message /\ again \subseteq Message
    /\ failed \subseteq Message /\ filtered \subseteq Message
    /\ forgotten \subseteq Message /\ raced \subseteq Message
    /\ dropped \subseteq Message

\* A message is settled: handed on, failed in the callback, filtered, without a
\* sender, or lost in the hands of a task that was killed.
Settled(m) == m \in handed \cup failed \cup filtered \cup Systems \cup dropped

InHand(m) == \E t \in Tasks : pc[t] = "name" /\ pos[t] = m

\* No cursor passes a message over: what is at or below a cursor, of a task, in
\* memory, serialised or in the file, is settled or in the hands of a task.
NothingPassedOver ==
    \A m \in Message :
        \/ m <= cursor \/ m <= saved
        \/ \E t \in Tasks : pc[t] # "idle" /\ m <= at[t]
        => Settled(m) \/ InHand(m)

\* A message is handed on twice only if two tasks found it new at the same time,
\* or the dedup store had forgotten it: it was full, or the process was killed.
TwiceOnlyForgotten == again \subseteq raced \cup forgotten

\* When no task runs and nothing failed, the file has the cursor of the memory,
\* unless a flush cleared the mark of a cursor that was set while it wrote.
QuietMeansSaved ==
    (\A t \in Tasks : pc[t] = "idle") /\ faults = 0 /\ ~overtaken
    => saved = cursor /\ ~dirty

\* A message the service had when a task was about to ask for its page is settled
\* in the end, if nothing fails.
MessagesSettle ==
    \A m \in Message :
        (\E t \in Tasks : pc[t] = "sync" /\ at[t] < m /\ m <= count)
        ~> (Settled(m) \/ faults > 0)

----------------------------------------------------------------------------
\* Dedup by msgid prevents duplicate processing (kf_dedup.rs): a message is not
\* handed on twice while the store has room and the process lives.
NoDuplicate == again \subseteq forgotten

\* A cursor that was set is on disk after the flush that follows (kf_cursor.rs).
CursorPersists ==
    (\A t \in Tasks : pc[t] = "idle") /\ faults = 0 => saved = cursor
=============================================================================
