--------------------------- MODULE ReplyDelivery ---------------------------
(***************************************************************************)
(* How a reply of one topic reaches its channel.  The agent loop sends it   *)
(* at once; when that fails it leaves it in a relay of two files, reply.md  *)
(* and reply-sent.flag, which a watcher polls during the turn and the       *)
(* worker looks into after it.  The relay has room for one reply.           *)
(*                                                                          *)
(* A send either reaches the channel or does not: a send that fails after   *)
(* it reached the channel, and a read of a half-written file, are left out. *)
(***************************************************************************)
EXTENDS Integers, FiniteSets

CONSTANTS
    MaxTurns,   \* bound: turns of the topic
    MaxTexts,   \* bound: texts the agent says
    Kinds,      \* the kinds of text a turn may say
    SendsFail,  \* whether a send of the channel may fail
    Hooks,      \* whether a reply_send hook may suppress a text
    Closes,     \* whether the topic may be closed
    Crashes     \* whether the daemon may die and come back

ASSUME BoundsAssumption ==
    /\ MaxTurns \in Nat /\ MaxTexts \in Nat
    /\ {SendsFail, Hooks, Closes, Crashes} \subseteq BOOLEAN

\* "progress" is a heartbeat or a narration, "question" what ask_user asks on
\* a channel without a question box, "final" the text that ends the turn.
AllKinds == {"progress", "question", "final"}
ASSUME KindsAssumption == Kinds \subseteq AllKinds

Text == 1 .. MaxTexts
None == 0

VARIABLES
    pc,         \* where the topic's worker is, the agent loop included
    turn,       \* turns begun
    said,       \* texts the agent has said
    kind,       \* Text -> its kind
    turnOf,     \* Text -> the turn that said it
    saying,     \* the text deliver_reply has in hand, or None
    result,     \* what the agent returned
    stateDir,   \* the topic's state directory exists
    replyMd,    \* the text in reply.md, or None when there is no file
    flag,       \* reply-sent.flag exists
    watcher,    \* where the watcher is
    held,       \* the text the watcher read, or None
    stopping,   \* delivery_cancel was cancelled
    closed,     \* the topic was closed: its state is gone and frozen
    gone,       \* ... and so is its directory, which no other topic uses
    sends,      \* Text -> how often it reached the channel
    failures,   \* Text -> how often a send of it failed
    suppressed, \* history: texts a hook suppressed
    direct,     \* history: texts the agent loop sent itself
    queued,     \* history: texts that were written to the relay in full
    mixed,      \* history: turns that said a text while the relay was in use
    crashed     \* history: the daemon died

agentVars   == <<pc, turn, said, kind, turnOf, saying, result>>
relayVars   == <<stateDir, replyMd, flag>>
watcherVars == <<watcher, held, stopping>>
outVars     == <<sends, failures, suppressed>>
topicVars   == <<closed, gone>>
historyVars == <<direct, queued, mixed, crashed>>
vars == <<agentVars, relayVars, watcherVars, topicVars, outVars, historyVars>>

Returned(delivered, text) == [delivered |-> delivered, text |-> text, failed |-> FALSE]
NoResult == Returned(FALSE, None)

Init ==
    /\ pc = "idle" /\ turn = 0 /\ said = 0
    /\ kind = [t \in Text |-> "final"]
    /\ turnOf = [t \in Text |-> 0]
    /\ saying = None /\ result = NoResult
    /\ stateDir = TRUE /\ replyMd = None /\ flag = FALSE
    /\ watcher = "off" /\ held = None /\ stopping = FALSE
    /\ closed = FALSE /\ gone = FALSE
    /\ sends = [t \in Text |-> 0]
    /\ failures = [t \in Text |-> 0]
    /\ suppressed = {} /\ direct = {} /\ queued = {} /\ mixed = {}
    /\ crashed = FALSE

\* The relay is in use while a file or the watcher has a text.
RelayInUse == flag \/ replyMd # None \/ held # None

-----------------------------------------------------------------------------
(* One attempt to get a text out: the reply_send hook, then send_reply.     *)

Sent(t) ==
    /\ sends' = [sends EXCEPT ![t] = @ + 1]
    /\ UNCHANGED <<failures, suppressed>>

Failed(t) ==
    /\ SendsFail
    /\ failures' = [failures EXCEPT ![t] = @ + 1]
    /\ UNCHANGED <<sends, suppressed>>

Suppressed(t) ==
    /\ Hooks
    /\ suppressed' = suppressed \cup {t}
    /\ UNCHANGED <<sends, failures>>

-----------------------------------------------------------------------------
(* The turn: process_message starts the watcher and runs the agent loop.    *)

BeginTurn ==
    /\ pc = "idle" /\ turn < MaxTurns /\ ~closed
    /\ pc' = "agent"
    /\ turn' = turn + 1
    /\ watcher' = "sleep" /\ held' = None /\ stopping' = FALSE
    /\ result' = NoResult
    /\ UNCHANGED <<said, kind, turnOf, saying, relayVars, topicVars, outVars, historyVars>>

\* The loop has a text for the user and calls deliver_reply.
Say(k) ==
    /\ pc = "agent" /\ said < MaxTexts
    /\ said' = said + 1
    /\ saying' = said + 1
    /\ kind' = [kind EXCEPT ![said + 1] = k]
    /\ turnOf' = [turnOf EXCEPT ![said + 1] = turn]
    /\ mixed' = IF RelayInUse THEN mixed \cup {turn} ELSE mixed
    /\ pc' = "send"
    /\ UNCHANGED <<turn, result, relayVars, watcherVars, topicVars, outVars,
                   direct, queued, crashed>>

\* What the loop does when deliver_reply is back: ok is its Result, live says
\* that the text reached the channel directly.  A final text ends the turn and
\* is its result; a question that is not known to have reached the user becomes
\* the result, unless a cancel ends the turn.
Said(t, ok, live) ==
    /\ saying' = None
    /\ \/ /\ kind[t] = "progress"
          /\ pc' = "agent" /\ UNCHANGED result
       \/ /\ kind[t] = "question" /\ pc' = "stop"
          /\ \/ result' = NoResult
             \/ ~live /\ result' = Returned(FALSE, t)
       \/ /\ kind[t] = "final" /\ pc' = "stop"
          /\ result' = Returned(ok, t)
    /\ UNCHANGED <<turn, said, kind, turnOf>>

SendSuppressed ==
    /\ pc = "send"
    /\ Suppressed(saying)
    /\ Said(saying, FALSE, FALSE)
    /\ UNCHANGED <<relayVars, watcherVars, topicVars, historyVars>>

SendDirect ==
    /\ pc = "send"
    /\ Sent(saying)
    /\ direct' = direct \cup {saying}
    /\ Said(saying, TRUE, TRUE)
    /\ UNCHANGED <<relayVars, watcherVars, topicVars, queued, mixed, crashed>>

SendFails ==
    /\ pc = "send"
    /\ Failed(saying)
    /\ pc' = "write"
    /\ UNCHANGED <<turn, said, kind, turnOf, saying, result, relayVars,
                   watcherVars, topicVars, historyVars>>

\* A closed topic gets nothing, and the caller is told it went well.
RelayClosed ==
    /\ pc = "write" /\ closed
    /\ Said(saying, TRUE, FALSE)
    /\ UNCHANGED <<relayVars, watcherVars, topicVars, outVars, historyVars>>

RelayOpen ==
    /\ pc = "write" /\ ~closed
    /\ pc' = "create"
    /\ UNCHANGED <<turn, said, kind, turnOf, saying, result, relayVars,
                   watcherVars, topicVars, outVars, historyVars>>

\* create_dir_all, and the first of the two files.
WriteReply ==
    /\ pc = "create"
    /\ stateDir' = TRUE
    /\ replyMd' = saying
    /\ pc' = "signal"
    /\ UNCHANGED <<turn, said, kind, turnOf, saying, result, flag, watcherVars,
                   topicVars, outVars, historyVars>>

\* The second file; it fails when the directory went away under the call.
WriteSignal ==
    /\ pc = "signal"
    /\ flag' = (flag \/ stateDir)
    /\ queued' = IF stateDir THEN queued \cup {saying} ELSE queued
    /\ Said(saying, stateDir, FALSE)
    /\ UNCHANGED <<stateDir, replyMd, watcherVars, topicVars, outVars, direct,
                   mixed, crashed>>

\* The turn ends without a last text: the model said nothing, the turn was
\* cancelled, or it failed.
EndTurn ==
    /\ pc = "agent"
    /\ pc' = "stop"
    /\ result' \in {NoResult, [NoResult EXCEPT !.failed = TRUE]}
    /\ UNCHANGED <<turn, said, kind, turnOf, saying, relayVars, watcherVars,
                   topicVars, outVars, historyVars>>

-----------------------------------------------------------------------------
(* The watcher (watch_pending_deliveries).                                  *)

WatchRead ==
    /\ watcher = "sleep" /\ ~stopping
    /\ flag /\ replyMd # None
    /\ held' = replyMd
    /\ watcher' = "send"
    /\ UNCHANGED <<agentVars, relayVars, stopping, topicVars, outVars, historyVars>>

\* Sent, suppressed or failed: the files are removed next.
WatchSend ==
    /\ watcher = "send"
    /\ Sent(held) \/ Failed(held) \/ Suppressed(held)
    /\ watcher' = "unflag"
    /\ UNCHANGED <<agentVars, relayVars, held, stopping, topicVars, historyVars>>

\* Mutant: the flag file stays.
KeepFlag ==
    /\ watcher = "unflag"
    /\ watcher' = "unwrite"
    /\ UNCHANGED <<agentVars, relayVars, held, stopping, topicVars, outVars, historyVars>>

RemoveFlag ==
    /\ watcher = "unflag"
    /\ flag' = FALSE
    /\ watcher' = "unwrite"
    /\ UNCHANGED <<agentVars, stateDir, replyMd, held, stopping, topicVars, outVars,
                   historyVars>>

RemoveReply ==
    /\ watcher = "unwrite"
    /\ replyMd' = None
    /\ watcher' = "sleep" /\ held' = None
    /\ UNCHANGED <<agentVars, stateDir, flag, stopping, topicVars, outVars,
                   historyVars>>

\* Mutant: the watcher looks at its token only when it has nothing to do.
StopWhenEmpty ==
    /\ watcher = "sleep" /\ stopping /\ ~flag
    /\ watcher' = "off"
    /\ UNCHANGED <<agentVars, relayVars, held, stopping, topicVars, outVars, historyVars>>

\* delivery_cancel wins the select: a delivery in hand is finished first.
WatchStop ==
    /\ watcher = "sleep" /\ stopping
    /\ watcher' = "off"
    /\ UNCHANGED <<agentVars, relayVars, held, stopping, topicVars, outVars, historyVars>>

-----------------------------------------------------------------------------
(* After the agent returned.                                                *)

\* delivery_cancel.cancel()
StopWatcher ==
    /\ pc = "stop" /\ ~stopping
    /\ stopping' = TRUE
    /\ UNCHANGED <<agentVars, relayVars, watcher, held, topicVars, outVars, historyVars>>

\* delivery_handle.await
JoinWatcher ==
    /\ pc = "stop" /\ stopping /\ watcher = "off"
    /\ pc' = "post"
    /\ UNCHANGED <<turn, said, kind, turnOf, saying, result, relayVars,
                   watcherVars, topicVars, outVars, historyVars>>

\* A failed turn (its notice goes straight to the channel), a topic that is
\* gone, a reply whose flag is gone, or no text at all: nothing to deliver.
PostNothing ==
    /\ pc = "post"
    /\ \/ result.failed \/ gone
       \/ result.delivered /\ ~flag
       \/ ~result.delivered /\ result.text = None
    /\ pc' = "idle"
    /\ UNCHANGED <<turn, said, kind, turnOf, saying, result, relayVars,
                   watcherVars, topicVars, outVars, historyVars>>

\* The directory is there, and so is a text: the result's own, always.
PostText ==
    /\ pc = "post"
    /\ ~result.failed /\ ~gone /\ result.text # None
    /\ result.delivered => flag
    /\ pc' = "deliver"
    /\ UNCHANGED <<turn, said, kind, turnOf, saying, result, relayVars,
                   watcherVars, topicVars, outVars, historyVars>>

\* The relay is emptied by a delivery and by a suppression; a failed send
\* returns at once and leaves it.  An undelivered text has not used the relay.
Deliver ==
    /\ pc = "deliver"
    /\ pc' = "idle"
    /\ \/ /\ Sent(result.text) \/ Suppressed(result.text)
          /\ IF result.delivered
               THEN flag' = FALSE /\ replyMd' = None /\ UNCHANGED stateDir
               ELSE UNCHANGED relayVars
       \/ Failed(result.text) /\ UNCHANGED relayVars
    /\ UNCHANGED <<turn, said, kind, turnOf, saying, result, watcherVars,
                   topicVars, historyVars>>

-----------------------------------------------------------------------------
\* The topic is closed under the turn: mark_closed, and its state is deleted.
Close ==
    /\ Closes /\ ~closed
    /\ closed' = TRUE
    /\ gone' \in BOOLEAN
    /\ stateDir' = FALSE /\ replyMd' = None /\ flag' = FALSE
    /\ UNCHANGED <<agentVars, watcherVars, outVars, historyVars>>

\* The daemon dies; what is on disk stays.
Crash ==
    /\ Crashes /\ ~crashed
    /\ crashed' = TRUE
    /\ pc' = "idle" /\ saying' = None /\ result' = NoResult
    /\ watcher' = "off" /\ held' = None /\ stopping' = FALSE
    /\ UNCHANGED <<turn, said, kind, turnOf, relayVars, topicVars, outVars,
                   direct, queued, mixed>>

WorkerStep ==
    \/ \E k \in Kinds : Say(k)
    \/ SendSuppressed \/ SendDirect \/ SendFails
    \/ RelayClosed \/ RelayOpen \/ WriteReply \/ WriteSignal \/ EndTurn
    \/ StopWatcher \/ JoinWatcher \/ PostNothing \/ PostText \/ Deliver

WatcherStep == WatchRead \/ WatchSend \/ RemoveFlag \/ RemoveReply \/ WatchStop

Next == BeginTurn \/ WorkerStep \/ WatcherStep \/ Close \/ Crash

Spec == Init /\ [][Next]_vars

\* Every send returns, and the two tasks of the turn are polled.
FairSpec == Spec /\ WF_vars(WorkerStep) /\ WF_vars(WatcherStep)

-----------------------------------------------------------------------------
(* Properties.                                                              *)

\* The shape of the state: a text is in hand exactly during its delivery.
TypeOK ==
    /\ pc \in {"idle", "agent", "send", "write", "create", "signal", "stop", "post", "deliver"}
    /\ turn \in 0 .. MaxTurns /\ said \in 0 .. MaxTexts
    /\ kind \in [Text -> AllKinds]
    /\ turnOf \in [Text -> 0 .. MaxTurns]
    /\ saying \in Text \cup {None}
    /\ result \in [delivered : BOOLEAN, text : Text \cup {None}, failed : BOOLEAN]
    /\ stateDir \in BOOLEAN /\ replyMd \in Text \cup {None} /\ flag \in BOOLEAN
    /\ watcher \in {"off", "sleep", "send", "unflag", "unwrite"}
    /\ held \in Text \cup {None} /\ stopping \in BOOLEAN
    /\ closed \in BOOLEAN /\ gone \in BOOLEAN /\ crashed \in BOOLEAN
    /\ sends \in [Text -> Nat] /\ failures \in [Text -> Nat]
    /\ suppressed \subseteq Text /\ direct \subseteq Text /\ queued \subseteq Text
    /\ mixed \subseteq 1 .. MaxTurns
    /\ saying # None <=> pc \in {"send", "write", "create", "signal"}
    /\ held # None <=> watcher \in {"send", "unflag", "unwrite"}

Over(t) == turnOf[t] # 0 /\ (turnOf[t] < turn \/ pc = "idle")

\* The worker looks into the relay only when the watcher is gone, so the two
\* never deliver the same reply between them.
WatcherGoneFirst == pc \in {"idle", "post", "deliver"} => watcher = "off"

\* While a turn has the relay to itself, its final reply reaches the channel
\* once, unless two sends of it failed or a hook suppressed it.
FinalDeliveredOnce ==
    \A t \in Text :
        kind[t] = "final" /\ Over(t) /\ turnOf[t] \notin mixed /\ ~closed /\ ~crashed
            => \/ sends[t] = 1
               \/ sends[t] = 0 /\ (failures[t] >= 2 \/ t \in suppressed)

\* Every turn comes to its end, whatever the watcher is doing.
TurnEnds == pc # "idle" ~> pc = "idle"

\* The loop's turn_text, "never sent twice".
QuestionSentOnce == \A t \in Text : kind[t] = "question" => sends[t] <= 1

\* process_message, "direct adapter delivery, signal files never written": a
\* reply the loop sent is not sent again after the turn.
DirectReplySentOnce == \A t \in direct : sends[t] <= 1

\* deliver_reply, "queued through the file relay for the worker/watcher to
\* deliver": a queued final reply is tried again before the topic moves on.
QueuedFinalTried ==
    \A t \in queued :
        kind[t] = "final" /\ Over(t) /\ ~closed
            => sends[t] > 0 \/ failures[t] > 1 \/ t \in suppressed

\* deliver_reply, "a reply queued into a fresh copy of it would bring back the
\* skeleton the topic list reads as an open topic": a closed topic's state
\* directory stays deleted.
ClosedStateStaysDeleted == closed => ~stateDir
=============================================================================
