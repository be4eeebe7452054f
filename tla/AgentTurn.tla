----------------------------- MODULE AgentTurn -----------------------------
(***************************************************************************)
(* The turns of one topic's agent: the agent loop (agent_loop::run), the     *)
(* transcript it keeps and the journal it is saved to, and the reply guard   *)
(* that answers every topic which asked this one for a reply.                *)
(*                                                                          *)
(* The strategy of the context is "full": every call sends the whole         *)
(* transcript.  What a message says is left out; how the text reaches the    *)
(* channel is the subject of ReplyDelivery.                                  *)
(***************************************************************************)
EXTENDS Integers, Sequences, FiniteSets

CONSTANTS
    MaxTurns,   \* bound: turns of the topic
    MaxCalls,   \* bound: calls of the model that return, over all turns
    MaxBatch,   \* bound: tool calls in one response
    MaxFolds,   \* bound: messages that arrive during turns
    MaxIter,    \* max_iterations: iterations of one cycle
    MaxEmpty,   \* MAX_EMPTY_TOOL_CALL_ITERATIONS
    Sources,    \* the topics that may ask this one for a reply
    Formats,    \* the raw formats of the models the topic runs on
    Embeds,     \* whether a model writes its question into the reply's text
    Images,     \* whether tools load images
    Cancels,    \* whether the turn may be cancelled
    Fails,      \* whether a call of the model may fail for good
    Crashes     \* whether the daemon may die

Nobody == "nobody"    \* a message that asks for no reply

ASSUME BoundsAssumption ==
    /\ {MaxTurns, MaxCalls, MaxBatch, MaxFolds} \subseteq Nat
    /\ {MaxIter, MaxEmpty} \subseteq Nat \ {0}
    /\ {Embeds, Images, Cancels, Fails, Crashes} \subseteq BOOLEAN
ASSUME FormatsAssumption == Formats \subseteq {"chat", "blocks"} /\ Formats # {}
ASSUME SourcesAssumption == Nobody \notin Sources

VARIABLES
    pc,         \* where the turn is
    turns,      \* turns begun
    calls,      \* calls of the model that returned
    folds,      \* messages folded in
    journal,    \* agent-context.jsonl
    context,    \* raw_context
    priorLen,   \* how much of it is on disk already
    format,     \* the raw format of this turn's model
    batch,      \* the ids of the response's tool calls
    done,       \* how many of them have run
    iter,       \* iter_in_cycle
    empties,    \* consecutive_empty_tool_iterations
    images,     \* a tool of the batch queued an image
    handedOver, \* a tool ends the turn
    cancel,     \* the turn's token
    failed,     \* the loop returned an error
    targets,    \* outbound_targets: the topics this turn sent to
    requests,   \* the reply requests the turn owes an answer to
    owed,       \* requests the guard has still to forward an answer to
    real,       \* history: requests the model answered itself
    forwarded   \* history: the topics the guard sent an answer to, in order

loopVars  == <<iter, empties, images, handedOver>>
textVars  == <<journal, context, priorLen, format>>
batchVars == <<batch, done>>
countVars == <<turns, calls, folds>>
askVars   == <<targets, requests, real>>
guardVars == <<owed, forwarded>>
vars == <<pc, countVars, textVars, batchVars, loopVars, cancel, failed, askVars, guardVars>>

\* An entry of the transcript: who speaks, and the tool calls it makes (an
\* assistant's) or answers (a result's).  form is the format it was written in.
Entry(role, ids) == [role |-> role, ids |-> ids, form |-> format]
User(form) == [role |-> "user", ids |-> {}, form |-> form]

Init ==
    /\ pc = "idle" /\ turns = 0 /\ calls = 0 /\ folds = 0
    /\ journal = <<>> /\ context = <<>> /\ priorLen = 0
    /\ format \in Formats
    /\ batch = <<>> /\ done = 0
    /\ iter = 0 /\ empties = 0 /\ images = FALSE /\ handedOver = FALSE
    /\ cancel = FALSE /\ failed = FALSE
    /\ targets = <<>> /\ requests = <<>> /\ real = {}
    /\ owed = {} /\ forwarded = <<>>

-----------------------------------------------------------------------------
(* The repair of a transcript, on every read of the journal and every send. *)

Answers(e, id) == e.role = "result" /\ id \in e.ids

Dangling(s, i) ==
    /\ s[i].role = "assistant"
    /\ \E id \in s[i].ids : \A j \in i + 1 .. Len(s) : ~Answers(s[j], id)

\* Mutant: only the call itself goes, its results stay.
DroppedAlone(s, k) == Dangling(s, k)

\* Entry k goes when its turn has a call without a result at or before it.
Dropped(s, k) ==
    \E i \in 1 .. k :
        /\ Dangling(s, i)
        /\ \A j \in i + 1 .. k : s[j].role # "user"

\* The positions of s that stay, and the n-th of them: the one with n up to it.
KeptOf(s) == {k \in 1 .. Len(s) : ~Dropped(s, k)}
Rank(S) == [k \in S |-> Cardinality({j \in S : j <= k})]
Nth(S, rank, n) == CHOOSE k \in S : rank[k] = n
Repaired(s) ==
    LET kept == KeptOf(s)
        rank == Rank(kept)
    IN  [n \in 1 .. Cardinality(kept) |-> s[Nth(kept, rank, n)]]

-----------------------------------------------------------------------------
(* The turn begins.                                                         *)

\* A request of a message that asks source s for a reply; mark is how many
\* sends the turn had made when the model was shown it.
Asks(s, mark) == IF s = Nobody THEN <<>> ELSE <<[source |-> s, mark |-> mark]>>

\* A journal without an assistant's message is taken for corrupt and deleted.
Prior ==
    LET read == Repaired(journal)
    IN  IF \E i \in DOMAIN read : read[i].role = "assistant" THEN read ELSE <<>>

BeginTurn(s) ==
    /\ pc = "idle" /\ turns < MaxTurns
    /\ turns' = turns + 1
    /\ format' \in Formats
    /\ context' = Append(Prior, User(format'))
    /\ priorLen' = Len(Prior)
    /\ journal' = IF Prior = <<>> /\ Repaired(journal) # <<>> THEN <<>> ELSE journal
    /\ requests' = Asks(s, 0)
    /\ targets' = <<>> /\ real' = {} /\ owed' = {} /\ forwarded' = <<>>
    /\ batch' = <<>> /\ done' = 0
    /\ iter' = 0 /\ empties' = 0 /\ images' = FALSE /\ handedOver' = FALSE
    /\ cancel' = FALSE /\ failed' = FALSE
    /\ pc' = "top"
    /\ UNCHANGED <<calls, folds>>

Cancel ==
    /\ Cancels /\ pc # "idle" /\ ~cancel
    /\ cancel' = TRUE
    /\ UNCHANGED <<pc, countVars, textVars, batchVars, loopVars, failed, askVars, guardVars>>

-----------------------------------------------------------------------------
(* One iteration of the loop.                                               *)

StopAtTop ==
    /\ pc = "top" /\ cancel
    /\ pc' = "guard"
    /\ UNCHANGED <<countVars, textVars, batchVars, loopVars, cancel, failed, askVars, guardVars>>

GoOn ==
    /\ pc = "top" /\ ~cancel
    /\ pc' = "fold"
    /\ UNCHANGED <<countVars, textVars, batchVars, loopVars, cancel, failed, askVars, guardVars>>

\* drain_injections: one message of the channel joins the conversation.
Fold(s) ==
    /\ pc = "fold" /\ folds < MaxFolds
    /\ folds' = folds + 1
    /\ context' = Append(context, User(format))
    /\ requests' = requests \o Asks(s, Len(targets))
    /\ UNCHANGED <<pc, turns, calls, journal, priorLen, format, batchVars, loopVars,
                   cancel, failed, targets, real, guardVars>>

\* The channel is empty; a full cycle sends a heartbeat and starts over.
Drained ==
    /\ pc = "fold"
    /\ IF iter >= MaxIter THEN pc' = "top" /\ iter' = 0 ELSE pc' = "call" /\ UNCHANGED iter
    /\ UNCHANGED <<countVars, textVars, batchVars, empties, images, handedOver, cancel,
                   failed, askVars, guardVars>>

\* The call fails for good: by a cancel the loop ends, else the turn dies.
CallFails ==
    /\ pc = "call" /\ (Fails \/ cancel)
    /\ failed' = ~cancel
    /\ pc' = "guard"
    /\ UNCHANGED <<countVars, textVars, batchVars, loopVars, cancel, askVars, guardVars>>

CallReturns ==
    /\ pc = "call" /\ calls < MaxCalls
    /\ calls' = calls + 1

\* A response without tool calls ends the turn; an empty one leaves no entry.
Answer ==
    /\ CallReturns
    /\ \/ context' = Append(context, Entry("assistant", {}))
       \/ UNCHANGED context
    /\ pc' = "guard"
    /\ UNCHANGED <<turns, folds, journal, priorLen, format, batchVars, loopVars, cancel,
                   failed, askVars, guardVars>>

\* A question written into the text is run as if the model had called
\* ask_user: its result is recorded, and it ends the turn or the loop goes on.
EmbeddedAsk ==
    /\ Embeds /\ CallReturns
    /\ context' = context \o <<Entry("assistant", {}), Entry("result", {<<0, 0>>})>>
    /\ \/ pc' = "top" /\ UNCHANGED handedOver
       \/ pc' = "guard" /\ handedOver' = TRUE
    /\ UNCHANGED <<turns, folds, journal, priorLen, format, batchVars, iter, empties, images,
                   cancel, failed, askVars, guardVars>>

\* The calls of a response, with arguments or, all of them, without.
CallTools(n, empty) ==
    /\ CallReturns
    /\ batch' = [k \in 1 .. n |-> <<calls', k>>]
    /\ done' = 0 /\ images' = FALSE
    /\ context' = Append(context, Entry("assistant", {batch'[k] : k \in 1 .. n}))
    /\ empties' = IF empty THEN empties + 1 ELSE 0
    /\ IF empties' >= MaxEmpty
         THEN pc' = "guard" /\ failed' = TRUE
         ELSE pc' = "batch" /\ UNCHANGED failed
    /\ UNCHANGED <<turns, folds, journal, priorLen, format, iter, handedOver, cancel, askVars,
                   guardVars>>

StartTool ==
    /\ pc = "batch" /\ done < Len(batch) /\ ~cancel
    /\ pc' = "tool"
    /\ UNCHANGED <<countVars, textVars, batchVars, loopVars, cancel, failed, askVars, guardVars>>

\* A tool runs and its result joins the conversation.
ToolRuns ==
    /\ pc = "tool"
    /\ context' = Append(context, Entry("result", {batch[done + 1]}))
    /\ done' = done + 1
    /\ pc' = "batch"
    /\ UNCHANGED <<countVars, journal, priorLen, format, batch, iter, empties, cancel, failed,
                   requests, guardVars>>

\* The requests of a topic, all of them shown to the model before this batch.
RequestsOf(s) == {i \in DOMAIN requests : requests[i].source = s}

PlainTool ==
    /\ ToolRuns
    /\ images' \in IF Images THEN {images, TRUE} ELSE {images}
    /\ handedOver' \in {handedOver, TRUE}
    /\ UNCHANGED <<targets, real>>

\* jyc_send_to_topic: the message is enqueued, then the send is recorded.
SendTool(s) ==
    /\ ToolRuns
    /\ targets' = Append(targets, s)
    /\ real' = real \cup RequestsOf(s)
    /\ UNCHANGED <<images, handedOver>>

\* The cancel drops a running tool: one that sends may have enqueued its
\* message without recording it.
AbortTool ==
    /\ pc = "tool" /\ cancel
    /\ real' \in {real} \cup {real \cup RequestsOf(s) : s \in Sources}
    /\ pc' = "cut"
    /\ UNCHANGED <<countVars, textVars, batchVars, loopVars, cancel, failed, targets, requests,
                   guardVars>>

StopBatch ==
    /\ pc = "batch" /\ done < Len(batch) /\ cancel
    /\ pc' = "cut"
    /\ UNCHANGED <<countVars, textVars, batchVars, loopVars, cancel, failed, askVars, guardVars>>

\* Mutant: the first of them.
FirstCalls ==
    {i \in DOMAIN context :
        /\ context[i].role = "assistant" /\ context[i].ids # {} /\ context[i].form = "chat"
        /\ \A j \in 1 .. i - 1 :
               ~(context[j].role = "assistant" /\ context[j].ids # {} /\ context[j].form = "chat")}

\* The last assistant message that has "tool_calls", the chat format's field.
LastCalls ==
    {i \in DOMAIN context :
        /\ context[i].role = "assistant" /\ context[i].ids # {} /\ context[i].form = "chat"
        /\ \A j \in i + 1 .. Len(context) :
               ~(context[j].role = "assistant" /\ context[j].ids # {} /\ context[j].form = "chat")}

\* Mutant: the dangling call stays in the transcript.
KeepBatch ==
    /\ pc = "cut"
    /\ pc' = "drain"
    /\ UNCHANGED <<countVars, textVars, batchVars, loopVars, cancel, failed, askVars, guardVars>>

\* Mutant: prior_len is not clamped.
CutUnclamped ==
    /\ pc = "cut"
    /\ IF LastCalls = {}
         THEN UNCHANGED context
         ELSE \E i \in LastCalls : context' = SubSeq(context, 1, i - 1)
    /\ pc' = "drain"
    /\ UNCHANGED <<countVars, journal, priorLen, format, batchVars, loopVars, cancel, failed,
                   askVars, guardVars>>

\* The cancelled batch is cut off the transcript.
CutBatch ==
    /\ pc = "cut"
    /\ IF LastCalls = {}
         THEN UNCHANGED <<context, priorLen>>
         ELSE \E i \in LastCalls :
                /\ context' = SubSeq(context, 1, i - 1)
                /\ priorLen' = IF priorLen < i - 1 THEN priorLen ELSE i - 1
    /\ pc' = "drain"
    /\ UNCHANGED <<countVars, journal, format, batchVars, loopVars, cancel, failed, askVars,
                   guardVars>>

BatchDone ==
    /\ pc = "batch" /\ done = Len(batch)
    /\ pc' = "drain"
    /\ UNCHANGED <<countVars, textVars, batchVars, loopVars, cancel, failed, askVars, guardVars>>

\* After the batch: the images it loaded, and whether the loop goes on.
DrainBatch ==
    /\ pc = "drain"
    /\ context' = IF images THEN Append(context, User(format)) ELSE context
    /\ images' = FALSE
    /\ IF handedOver THEN pc' = "guard" /\ UNCHANGED iter ELSE pc' = "top" /\ iter' = iter + 1
    /\ UNCHANGED <<countVars, journal, priorLen, format, batchVars, empties, handedOver, cancel,
                   failed, askVars, guardVars>>

-----------------------------------------------------------------------------
(* The reply guard, and the end of the turn.                                *)

\* What the guard is told the turn sent: nothing, of a turn that died.
SentTo == IF failed THEN <<>> ELSE targets

\* Mutant: every send to the topic counts.
AnsweredEver(i) == \E k \in 1 .. Len(SentTo) : SentTo[k] = requests[i].source

\* Mutant: the guard is never told what was sent.
AnsweredNever(i) == FALSE

\* Only a send that came after the request was shown to the model counts.
Answered(i) ==
    \E k \in requests[i].mark + 1 .. Len(SentTo) : SentTo[k] = requests[i].source

\* One unanswered request of each topic, the first.
Unanswered ==
    {i \in DOMAIN requests :
        /\ ~Answered(i)
        /\ \A j \in 1 .. i - 1 : requests[j].source = requests[i].source => Answered(j)}

Guard ==
    /\ pc = "guard"
    /\ owed' = Unanswered
    /\ pc' = "forward"
    /\ UNCHANGED <<countVars, textVars, batchVars, loopVars, cancel, failed, askVars, forwarded>>

\* The turn's last words, or its failure, go to a topic that was not answered;
\* a send that fails is logged and not repeated.
Forward ==
    /\ pc = "forward"
    /\ \E i \in owed :
          /\ \A j \in owed : i <= j
          /\ owed' = owed \ {i}
          /\ forwarded' = Append(forwarded, requests[i].source)
    /\ UNCHANGED <<pc, countVars, textVars, batchVars, loopVars, cancel, failed, askVars>>

GuardDone ==
    /\ pc = "forward" /\ owed = {}
    /\ pc' = "save"
    /\ UNCHANGED <<countVars, textVars, batchVars, loopVars, cancel, failed, askVars, guardVars>>

\* What this turn added to the transcript.
Current == SubSeq(context, priorLen + 1, Len(context))

\* save_raw_context; a turn that died has returned before it.
Save ==
    /\ pc = "save"
    /\ journal' = IF failed THEN journal ELSE journal \o Current
    /\ pc' = "idle"
    /\ UNCHANGED <<countVars, context, priorLen, format, batchVars, loopVars, cancel, failed,
                   askVars, guardVars>>

\* The daemon dies.  An append may have reached the disk in part; the torn
\* line at its end, if any, is cut off by the next one.
Crash ==
    /\ Crashes /\ pc # "idle"
    /\ journal' \in IF pc = "save" /\ ~failed
                      THEN {journal \o SubSeq(Current, 1, n) : n \in 0 .. Len(Current)}
                      ELSE {journal}
    /\ pc' = "idle"
    /\ UNCHANGED <<countVars, context, priorLen, format, batchVars, loopVars, cancel, failed,
                   askVars, guardVars>>

LoopStep ==
    \/ StopAtTop \/ GoOn
    \/ \E s \in Sources \cup {Nobody} : Fold(s)
    \/ Drained \/ CallFails \/ Answer \/ EmbeddedAsk
    \/ \E n \in 1 .. MaxBatch, empty \in BOOLEAN : CallTools(n, empty)
    \/ StartTool \/ PlainTool
    \/ \E s \in Sources : SendTool(s)
    \/ AbortTool \/ StopBatch \/ CutBatch \/ BatchDone \/ DrainBatch

EndStep == Guard \/ Forward \/ GuardDone \/ Save

Next ==
    \/ \E s \in Sources \cup {Nobody} : BeginTurn(s)
    \/ LoopStep \/ EndStep \/ Cancel \/ Crash

Spec == Init /\ [][Next]_vars

-----------------------------------------------------------------------------
(* Properties.                                                              *)

Entries == [role : {"user", "assistant", "result"}, ids : SUBSET (Nat \X Nat),
            form : {"chat", "blocks"}]

\* The shape of the state: a guard owes only requests the turn has, and a
\* request's mark is one of the turn's sends.
TypeOK ==
    /\ pc \in {"idle", "top", "fold", "call", "batch", "tool", "cut", "drain", "guard",
               "forward", "save"}
    /\ turns \in 0 .. MaxTurns /\ calls \in 0 .. MaxCalls /\ folds \in 0 .. MaxFolds
    /\ \A s \in {journal, context} : \A i \in DOMAIN s : s[i] \in Entries
    /\ priorLen \in 0 .. Len(context)
    /\ format \in Formats
    /\ done \in 0 .. Len(batch) /\ Len(batch) <= MaxBatch
    /\ iter \in 0 .. MaxIter /\ empties \in 0 .. MaxEmpty
    /\ {images, handedOver, cancel, failed} \subseteq BOOLEAN
    /\ \A k \in DOMAIN targets : targets[k] \in Sources
    /\ \A i \in DOMAIN requests : /\ requests[i].source \in Sources
                                  /\ requests[i].mark \in 0 .. Len(targets)
    /\ owed \subseteq DOMAIN requests /\ real \subseteq DOMAIN requests
    /\ \A k \in DOMAIN forwarded : forwarded[k] \in Sources

\* A provider accepts a transcript when the results of a response follow it, all
\* of them and no other, before anybody else speaks.
Accepted(s) ==
    \A i \in 1 .. Len(s) :
        /\ s[i].role = "assistant" =>
             \A id \in s[i].ids : \E j \in i + 1 .. Len(s) :
                 /\ Answers(s[j], id)
                 /\ \A k \in i + 1 .. j : s[k].role = "result"
        /\ s[i].role = "result" =>
             \E j \in 1 .. i - 1 :
                 /\ s[j].role = "assistant" /\ s[i].ids \subseteq s[j].ids
                 /\ \A k \in j + 1 .. i : s[k].role = "result"

\* filter_valid_messages: after cancels, failures, crashes and changes of the
\* model, what a call sends is a transcript the provider accepts.
SentAccepted == pc = "call" => Accepted(Repaired(context))

\* The cut of a cancelled batch ("to prevent persisting corrupted context"): the
\* journal holds no tool call without its result.
JournalPaired == \A i \in DOMAIN journal : ~Dangling(journal, i)

\* The cut "never reaches into the persisted prefix": the turn's transcript
\* starts with what was read from the journal, so that the append neither
\* repeats a message nor loses one.
PriorKept ==
    pc # "idle" => priorLen = Len(Prior) /\ SubSeq(context, 1, priorLen) = Prior

\* forward_unanswered_replies: every topic that asked this turn for a reply was
\* sent one, by the model or by the guard, however the turn ended.
RequestsSettled ==
    pc = "save" => \A i \in DOMAIN requests :
        i \in real \/ \E k \in DOMAIN forwarded : forwarded[k] = requests[i].source

\* forward_unanswered_replies, "nothing is forwarded on top of that": a turn that
\* did not die forwards only to topics with a request the model left unanswered.
NoSecondAnswer ==
    pc = "save" /\ ~failed => \A k \in DOMAIN forwarded :
        \E i \in DOMAIN requests : requests[i].source = forwarded[k] /\ i \notin real

\* The same of a turn that was not cancelled either.
NoSecondAnswerUncancelled == ~cancel => NoSecondAnswer

\* unanswered_requests, "the requester gets one answer, not two".
OneForwardEach ==
    \A j, k \in DOMAIN forwarded : forwarded[j] = forwarded[k] => j = k
=============================================================================
