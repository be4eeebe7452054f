----------------------------- MODULE LiveStatus -----------------------------
(***************************************************************************)
(* The live status of one topic: two flags, the messages a turn set aside,   *)
(* and the injection channel of the turn that is counted.  The workers of    *)
(* the topic write it at every stage of a turn, each write under a lock of   *)
(* its own, and a close removes it.  After a close the name may be used      *)
(* again while a turn of the closed topic still runs.                        *)
(*                                                                          *)
(* The queue, its locks and the permits are in TopicQueue; here a close      *)
(* cancels the worker and drops its queue in one step, and a message is      *)
(* there whenever a worker may take one.                                     *)
(***************************************************************************)
EXTENDS Integers, FiniteSets

CONSTANTS
    Workers,    \* the workers of the topic, one after another
    MaxTurns,   \* bound: messages that are taken
    MaxHeld,    \* bound: messages a turn sets aside
    MaxCloses   \* bound: closes

ASSUME WorkersAssumption == IsFiniteSet(Workers)
ASSUME LiveBoundAssumption == MaxTurns \in Nat /\ MaxHeld \in Nat /\ MaxCloses \in Nat

NoId == 0

VARIABLES
    known,       \* there is an entry: the next three are in it
    processing,
    error,
    aside,       \* LiveStatus::queued
    inTurn,      \* the turn whose injection channel is counted, or NoId
    turns,       \* next_turn_id: turns that were tracked
    begun,       \* messages that were taken
    pc,
    tid,         \* worker -> id of its turn
    held,        \* worker -> messages its turn set aside
    ok,          \* worker -> what its turn came to
    flag,        \* worker -> the guard saw the flag set
    leaving,     \* worker -> it goes when the guard has dropped
    cancelled,   \* workers whose token is cancelled
    current,     \* the worker whose queue is in the map, as a set
    frozen,      \* state_dir's mark of a closed topic
    closing,     \* the close's next step
    closes,
    mixed,       \* history: workers whose turn met a close or another's turn
    failedHere   \* history: a turn of the topic failed since it was opened

entry == <<known, processing, error, aside>>
turn == <<tid, held, ok, flag, leaving>>
topic == <<cancelled, current, frozen, closing, closes>>
liveVars == <<entry, inTurn, turns, begun, pc, turn, topic, mixed, failedHere>>

Working == {"begin", "dispatched", "running", "settled", "ended", "putback", "after"}
Guarded == {"failed", "resting", "guard", "guardEnd", "guardClear"}

Active == {w \in Workers : pc[w] \in Working \cup Guarded}

LiveInit ==
    /\ known = FALSE /\ processing = FALSE /\ error = FALSE /\ aside = 0
    /\ inTurn = NoId /\ turns = 0 /\ begun = 0
    /\ pc = [w \in Workers |-> "unborn"]
    /\ tid = [w \in Workers |-> NoId] /\ held = [w \in Workers |-> 0]
    /\ ok = [w \in Workers |-> FALSE] /\ flag = [w \in Workers |-> FALSE]
    /\ leaving = [w \in Workers |-> FALSE]
    /\ cancelled = {} /\ current = {} /\ frozen = FALSE
    /\ closing = "none" /\ closes = 0
    /\ mixed = {} /\ failedHere = FALSE

----------------------------------------------------------------------------
\* The writes of the store.

\* Mutant of SetProcessing: a turn that starts has nothing set aside.
SetProcessingAnew ==
    known' = TRUE /\ processing' = TRUE /\ error' = FALSE /\ aside' = 0

SetProcessing ==
    known' = TRUE /\ processing' = TRUE /\ error' = FALSE /\ aside' = aside

SetQueued(n) ==
    known' = TRUE /\ aside' = n /\ UNCHANGED <<processing, error>>

EndTurnIfKnown(success) ==
    /\ processing' = FALSE
    /\ error' = (error \/ (known /\ ~success))
    /\ UNCHANGED <<known, aside>>

ClearQueuedIfKnown == aside' = 0 /\ UNCHANGED <<known, processing, error>>

ClearInTurn(id) == inTurn' = IF inTurn = id THEN NoId ELSE inTurn

Goto(w, l) == pc' = [pc EXCEPT ![w] = l]

----------------------------------------------------------------------------
\* A worker starts with a message for a topic that has none, lifts the freeze, and
\* runs a turn for each message.

Spawn(w) ==
    /\ pc[w] = "unborn" /\ \A v \in current : pc[v] = "gone"
    /\ Goto(w, "starting") /\ current' = {w}
    /\ UNCHANGED <<entry, inTurn, turns, begun, turn, cancelled, frozen, closing, closes,
                   mixed, failedHere>>

Start(w) ==
    /\ pc[w] = "starting" /\ Goto(w, "top")
    /\ frozen' = FALSE /\ failedHere' = FALSE
    /\ UNCHANGED <<entry, inTurn, turns, begun, turn, cancelled, current, closing, closes,
                   mixed>>

LeaveCancelled(w) ==
    /\ pc[w] \in {"starting", "top"} /\ w \in cancelled /\ Goto(w, "gone")
    /\ UNCHANGED <<entry, inTurn, turns, begun, turn, topic, mixed, failedHere>>

LeaveFrozen(w) ==
    /\ pc[w] = "top" /\ frozen /\ Goto(w, "gone")
    /\ UNCHANGED <<entry, inTurn, turns, begun, turn, topic, mixed, failedHere>>

Begin(w) ==
    /\ pc[w] = "top" /\ ~frozen /\ begun < MaxTurns
    /\ begun' = begun + 1 /\ Goto(w, "begin")
    /\ mixed' = IF Active = {} THEN mixed \ {w} ELSE mixed \cup Active \cup {w}
    /\ UNCHANGED <<entry, inTurn, turns, turn, topic, failedHere>>

\* Commands only, or stopped by a hook: no turn.
NoTurn(w) ==
    /\ pc[w] = "begin" /\ Goto(w, "resting")
    /\ UNCHANGED <<entry, inTurn, turns, begun, turn, topic, mixed, failedHere>>

\* A reply to a command that cannot be sent is an error.
FailsBefore(w) ==
    /\ pc[w] = "begin" /\ Goto(w, "failed")
    /\ UNCHANGED <<entry, inTurn, turns, begun, turn, topic, mixed, failedHere>>

Track(w) ==
    /\ pc[w] = "begin" /\ Goto(w, "dispatched")
    /\ turns' = turns + 1 /\ inTurn' = turns + 1
    /\ tid' = [tid EXCEPT ![w] = turns + 1] /\ held' = [held EXCEPT ![w] = 0]
    /\ UNCHANGED <<entry, begun, ok, flag, leaving, topic, mixed, failedHere>>

AgentStarts(w) ==
    /\ pc[w] = "dispatched" /\ Goto(w, "running")
    /\ SetProcessing
    /\ UNCHANGED <<inTurn, turns, begun, turn, topic, mixed, failedHere>>

\* The worker's loop beside the agent: a message is set aside, or a command run.
SetAside(w) ==
    /\ pc[w] \in {"dispatched", "running", "settled"}
    /\ \E n \in {held[w], held[w] + 1} \cap 0 .. MaxHeld :
         /\ held' = [held EXCEPT ![w] = n] /\ SetQueued(n)
    /\ UNCHANGED <<inTurn, turns, begun, pc, tid, ok, flag, leaving, topic, mixed, failedHere>>

AgentSettles(w, success) ==
    /\ pc[w] = "running" /\ Goto(w, "settled")
    /\ EndTurnIfKnown(success)
    /\ failedHere' = (failedHere \/ (~success /\ w \notin cancelled))
    /\ UNCHANGED <<inTurn, turns, begun, turn, topic, mixed>>

AgentReturns(w) ==
    /\ pc[w] = "settled" /\ Goto(w, "ended")
    /\ ok' = [ok EXCEPT ![w] = TRUE]
    /\ UNCHANGED <<entry, inTurn, turns, begun, tid, held, flag, leaving, topic, mixed, failedHere>>

\* An error leaves the agent without a word, before or after it began.
AgentFails(w) ==
    /\ pc[w] \in {"dispatched", "running"} /\ Goto(w, "ended")
    /\ ok' = [ok EXCEPT ![w] = FALSE]
    /\ UNCHANGED <<entry, inTurn, turns, begun, tid, held, flag, leaving, topic, mixed, failedHere>>

\* What was not folded in is set aside too; then all of it is put back.
Drain(w) ==
    /\ pc[w] = "ended" /\ Goto(w, "putback")
    /\ \E n \in held[w] .. MaxHeld :
         /\ held' = [held EXCEPT ![w] = n] /\ SetQueued(n)
    /\ UNCHANGED <<inTurn, turns, begun, tid, ok, flag, leaving, topic, mixed, failedHere>>

\* Mutant of PutBack: the count stays.
PutBackOnly(w) ==
    /\ pc[w] = "putback" /\ Goto(w, "after")
    /\ held' = [held EXCEPT ![w] = 0]
    /\ UNCHANGED <<entry, inTurn, turns, begun, tid, ok, flag, leaving, topic, mixed, failedHere>>

PutBack(w) ==
    /\ pc[w] = "putback" /\ Goto(w, "after")
    /\ held' = [held EXCEPT ![w] = 0] /\ SetQueued(0)
    /\ UNCHANGED <<inTurn, turns, begun, tid, ok, flag, leaving, topic, mixed, failedHere>>

\* The reply may fail; the turn's injection count ends on every way out.
Return(w) ==
    /\ pc[w] = "after"
    /\ ClearInTurn(tid[w])
    /\ \/ ok[w] /\ Goto(w, "resting")
       \/ Goto(w, "failed")
    /\ UNCHANGED <<entry, turns, begun, turn, topic, mixed, failedHere>>

CloseFailed(w) ==
    /\ pc[w] = "failed" /\ Goto(w, "resting")
    /\ EndTurnIfKnown(FALSE)
    /\ failedHere' = (failedHere \/ w \notin cancelled)
    /\ UNCHANGED <<inTurn, turns, begun, turn, topic, mixed>>

\* The guard lives to the end of the loop's body: to the next message or the end.
NextMessage(w) ==
    /\ pc[w] = "resting" /\ begun < MaxTurns
    /\ Goto(w, "guard") /\ leaving' = [leaving EXCEPT ![w] = FALSE]
    /\ UNCHANGED <<entry, inTurn, turns, begun, tid, held, ok, flag, topic, mixed, failedHere>>

RestEnds(w) ==
    /\ pc[w] = "resting" /\ w \in cancelled
    /\ Goto(w, "guard") /\ leaving' = [leaving EXCEPT ![w] = TRUE]
    /\ UNCHANGED <<entry, inTurn, turns, begun, tid, held, ok, flag, topic, mixed, failedHere>>

GuardReads(w) ==
    /\ pc[w] = "guard" /\ Goto(w, "guardEnd")
    /\ flag' = [flag EXCEPT ![w] = processing]
    /\ UNCHANGED <<entry, inTurn, turns, begun, tid, held, ok, leaving, topic, mixed, failedHere>>

GuardEnds(w) ==
    /\ pc[w] = "guardEnd" /\ Goto(w, "guardClear")
    /\ IF flag[w] THEN EndTurnIfKnown(FALSE) ELSE UNCHANGED entry
    /\ UNCHANGED <<inTurn, turns, begun, turn, topic, mixed, failedHere>>

GuardClears(w) ==
    /\ pc[w] = "guardClear" /\ Goto(w, IF leaving[w] THEN "gone" ELSE "top")
    /\ ClearQueuedIfKnown
    /\ UNCHANGED <<inTurn, turns, begun, turn, topic, mixed, failedHere>>

Step(w) ==
    \/ Start(w) \/ LeaveCancelled(w) \/ LeaveFrozen(w) \/ Begin(w)
    \/ NoTurn(w) \/ FailsBefore(w) \/ Track(w) \/ AgentStarts(w)
    \/ \E success \in BOOLEAN : AgentSettles(w, success)
    \/ SetAside(w) \/ AgentReturns(w) \/ AgentFails(w) \/ Drain(w) \/ PutBack(w) \/ Return(w)
    \/ CloseFailed(w) \/ NextMessage(w) \/ RestEnds(w)
    \/ GuardReads(w) \/ GuardEnds(w) \/ GuardClears(w)

----------------------------------------------------------------------------
\* A close freezes the topic, forgets its status, deletes its files, and then
\* cancels its worker.

CloseFreezes ==
    /\ closing = "none" /\ closes < MaxCloses /\ closes' = closes + 1
    /\ closing' = "clear" /\ frozen' = TRUE
    /\ UNCHANGED <<entry, inTurn, turns, begun, pc, turn, cancelled, current, mixed, failedHere>>

CloseClears ==
    /\ closing = "clear" /\ closing' = "delete"
    /\ known' = FALSE /\ processing' = FALSE /\ error' = FALSE /\ aside' = 0
    /\ inTurn' = NoId /\ mixed' = mixed \cup Active
    /\ UNCHANGED <<turns, begun, pc, turn, cancelled, current, frozen, closes, failedHere>>

CloseFails ==
    /\ closing = "delete" /\ closing' = "none" /\ frozen' = FALSE
    /\ UNCHANGED <<entry, inTurn, turns, begun, pc, turn, cancelled, current, closes,
                   mixed, failedHere>>

CloseCancels ==
    /\ closing = "delete" /\ closing' = "none"
    /\ cancelled' = cancelled \cup current /\ current' = {}
    /\ UNCHANGED <<entry, inTurn, turns, begun, pc, turn, frozen, closes, mixed, failedHere>>

Close == CloseFreezes \/ CloseClears \/ CloseFails \/ CloseCancels

LiveNext == Close \/ \E w \in Workers : Spawn(w) \/ Step(w)

LiveSpec == LiveInit /\ [][LiveNext]_liveVars

----------------------------------------------------------------------------
\* The variables have their types, and a topic without an entry has a clean one.
LiveTypeOK ==
    /\ known \in BOOLEAN /\ processing \in BOOLEAN /\ error \in BOOLEAN
    /\ aside \in 0 .. MaxHeld
    /\ known \/ (~processing /\ ~error /\ aside = 0)
    /\ turns \in Nat /\ inTurn \in 0 .. turns
    /\ begun \in 0 .. MaxTurns /\ closes \in 0 .. MaxCloses
    /\ pc \in [Workers -> Working \cup Guarded \cup {"unborn", "starting", "top", "gone"}]
    /\ tid \in [Workers -> 0 .. turns] /\ held \in [Workers -> 0 .. MaxHeld]
    /\ ok \in [Workers -> BOOLEAN] /\ flag \in [Workers -> BOOLEAN]
    /\ leaving \in [Workers -> BOOLEAN]
    /\ cancelled \subseteq Workers /\ current \subseteq Workers
    /\ frozen \in BOOLEAN /\ closing \in {"none", "clear", "delete"}
    /\ mixed \subseteq Workers /\ failedHere \in BOOLEAN

\* When no turn is in flight the topic is shown as idle with nothing waiting,
\* whatever turns overlapped before and however they ended.
QuietIsIdle ==
    (\A w \in Workers : pc[w] \notin Working \cup {"failed"})
        => ~processing /\ aside = 0 /\ inTurn = NoId

\* A turn that met neither a close nor another worker's turn is shown as it is:
\* processing while the agent runs and not after, with the error it ended in, the
\* messages it set aside, and its own injection channel.
ShownAsItIs ==
    \A w \in Workers \ mixed :
        /\ pc[w] = "running" => processing /\ ~error
        /\ pc[w] \in {"settled", "resting"} => ~processing
        /\ pc[w] \in Working => aside = held[w]
        /\ pc[w] \in Working \ {"begin"} => inTurn = tid[w]

\* The count of a turn's injection channel ends with that turn or with a close,
\* never with another turn.
OwnCountOnly ==
    [][(inTurn # NoId /\ inTurn' # inTurn) =>
        \/ inTurn' > inTurn
        \/ closing = "clear"
        \/ \E w \in Workers : tid[w] = inTurn /\ pc[w] = "after"]_liveVars

----------------------------------------------------------------------------
\* A turn in flight is shown as processing (live_status.rs).
InFlightShown ==
    \A w \in current : (pc[w] = "running" /\ closing = "none") => processing

\* The map keeps no entry for a topic that no longer exists (lifecycle.rs).
ClosedForgotten ==
    (frozen /\ closing = "none" /\ Active = {}) => ~known

\* A name used again does not inherit a failure (live_status.rs).
NoInheritedFailure ==
    (error /\ \E w \in current : pc[w] = "running") => failedHere
=============================================================================
