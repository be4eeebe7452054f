----------------------------- MODULE TopicQueue -----------------------------
(***************************************************************************)
(* The topic manager of jyc-core: one bounded queue and one worker task    *)
(* per topic, a semaphore that bounds the running turns, and the three     *)
(* ways a worker is told to stop (/cancel, a close, the shutdown).         *)
(*                                                                         *)
(* A worker id stands for everything create_and_enqueue makes together:    *)
(* the mpsc channel, the CancellationToken and the spawned task.  The      *)
(* sender in topic_queues, the token in topic_cancels and the task are     *)
(* therefore all named by the id, and it is the maps that say which one    *)
(* is registered.                                                          *)
(***************************************************************************)
EXTENDS Integers, FiniteSets, SequencesExt

CONSTANTS
    Topic,          \* topic names
    MaxMessages,    \* bound: messages offered to try_enqueue
    QueueSize,      \* max_queue_size, the capacity of a topic's mpsc channel
    InjectSize,     \* INJECTION_CHANNEL_CAPACITY
    MaxConcurrent,  \* general.max_concurrent_topics, the semaphore's permits
    Kinds,          \* the kinds of message the environment sends
    LiveInjection,  \* the pattern's live_injection flag
    Forwards,       \* whether a turn may send to another topic
    MaxCancels,     \* bound: /cancel calls
    MaxCloses,      \* bound: closes of one topic
    Shutdowns       \* whether the manager is ever shut down

ASSUME BoundsAssumption ==
    /\ MaxMessages \in Nat
    /\ MaxCancels \in Nat /\ MaxCloses \in Nat
    /\ {LiveInjection, Forwards, Shutdowns} \subseteq BOOLEAN

ASSUME TopicAssumption == Topic # {}

ASSUME CapacityAssumption ==
    /\ QueueSize \in Nat \ {0}
    /\ InjectSize \in Nat \ {0}
    /\ MaxConcurrent \in Nat \ {0}

\* "text" can join a running turn; "attachment" needs a turn of its own;
\* "command" starts with a slash; "mismatch" names a template the topic was
\* not made from.
AllKinds == {"text", "attachment", "command", "mismatch"}
ASSUME KindsAssumption == Kinds \subseteq AllKinds

Message == 1 .. MaxMessages
Worker  == Message          \* each is spawned for a message of its own
None    == 0                \* no worker, no message
Router  == MaxMessages + 1  \* a caller of try_enqueue that is not a worker

VARIABLES
    queues,     \* topic_queues: Topic -> the registered sender, or None
    tokens,     \* topic_cancels: Topic -> the registered token, or None
    workers,    \* how many workers were spawned
    topicOf,    \* Worker -> the topic it serves
    pc,         \* Worker -> where its task is
    chan,       \* Worker -> the messages in its mpsc channel
    item,       \* Worker -> the message it holds, or None
    buffered,   \* Worker -> what its turn set aside for a turn of its own
    inject,     \* Worker -> what waits to be folded into its turn
    cancelled,  \* the workers whose token is cancelled
    permits,    \* free permits of the semaphore
    waiters,    \* workers waiting for a permit, first come first served
    closed,     \* the closed set of state_dir: topics whose writes are frozen
    closePc,    \* Topic -> the next step of the close of that topic
    closer,     \* Topic -> the worker that runs the close, or None
    forward,    \* Worker -> the message its turn is sending on, or None
    lockHolder, \* who is parked on worker_handles with topic_queues locked
    downPc,     \* the next step of shutdown
    awaited,    \* the worker handles shutdown drained
    sent,       \* how many messages were offered to try_enqueue
    msg,        \* Message -> its topic and its kind
    fate,       \* Message -> what became of it
    cancels,    \* how many /cancel calls were made
    closes,     \* Topic -> how many closes began
    stale       \* history: workers that a close of their topic outdated

queueVars   == <<queues, tokens, workers, topicOf>>
intakeVars  == <<chan, item, buffered, inject>>
permitVars  == <<permits, waiters>>
closeVars   == <<closed, closePc, closer, closes, stale>>
downVars    == <<downPc, awaited>>
sendVars    == <<forward, lockHolder, sent, msg>>
vars == <<queueVars, pc, intakeVars, cancelled, permitVars, closeVars,
          downVars, sendVars, fate, cancels>>

-----------------------------------------------------------------------------
(* What the code reads before it acts. *)

Spawned  == 1 .. workers
Live(w)  == pc[w] \notin {"unborn", "done"}
InTurn   == {"turn", "requeue"}

\* The task's _permit binding holds a permit at these points.
Holding  == {"top", "ready"} \cup InTurn
Holders  == {w \in Worker : pc[w] \in Holding}
Waiting  == {"start", "acquire"}

\* Mutant: a registered sender is taken for an open one.
SenderRegistered(t) == queues[t] # None

\* Sender::is_closed: the receiver went away with the worker's task.
SenderOpen(t) == queues[t] # None /\ Live(queues[t])

Down == downPc # "up"

\* Mutants: the selects miss one of the two tokens.
StoppedByManager(w) == Down
StoppedByTopic(w) == w \in cancelled

\* A worker's selects listen to the manager's token and to its own.
Stopped(w) == Down \/ w \in cancelled

\* The worker is inside the /close command, or inside a send.
Busy(w) == forward[w] # None \/ \E t \in Topic : closer[t] = w

InHand(w) == {item[w]} \ {None}
Kept(w) == ToSet(chan[w]) \cup InHand(w)
              \cup ToSet(buffered[w]) \cup ToSet(inject[w])

Settled == {"rejected", "taken", "executed", "mismatched", "overflowed", "lost"}
Fates   == {"unsent", "accepted"} \cup Settled

-----------------------------------------------------------------------------
Init ==
    /\ queues = [t \in Topic |-> None]
    /\ tokens = [t \in Topic |-> None]
    /\ workers = 0
    /\ topicOf = [w \in Worker |-> CHOOSE t \in Topic : TRUE]
    /\ pc = [w \in Worker |-> "unborn"]
    /\ chan = [w \in Worker |-> <<>>]
    /\ item = [w \in Worker |-> None]
    /\ buffered = [w \in Worker |-> <<>>]
    /\ inject = [w \in Worker |-> <<>>]
    /\ cancelled = {}
    /\ permits = MaxConcurrent
    /\ waiters = <<>>
    /\ closed = {}
    /\ closePc = [t \in Topic |-> "none"]
    /\ closer = [t \in Topic |-> None]
    /\ forward = [w \in Worker |-> None]
    /\ lockHolder = None
    /\ downPc = "up"
    /\ awaited = {}
    /\ sent = 0
    /\ msg = [m \in Message |-> [topic |-> CHOOSE t \in Topic : TRUE, kind |-> "text"]]
    /\ fate = [m \in Message |-> "unsent"]
    /\ cancels = 0
    /\ closes = [t \in Topic |-> 0]
    /\ stale = {}

-----------------------------------------------------------------------------
(* TopicManager::try_enqueue.  topic_queues stays locked from the retain to *)
(* the return, so the call is one step; it cannot start while another call  *)
(* still holds the lock.                                                    *)

\* queues.retain(|_, sender| !sender.is_closed())
Pruned == [t \in Topic |-> IF SenderOpen(t) THEN queues[t] ELSE None]

Accept(m, t) ==
    /\ SenderOpen(t)
    /\ Len(chan[queues[t]]) < QueueSize
    /\ chan' = [chan EXCEPT ![queues[t]] = Append(@, m)]
    /\ queues' = Pruned
    /\ fate' = [fate EXCEPT ![m] = "accepted"]
    /\ UNCHANGED <<tokens, workers, topicOf, pc, waiters, lockHolder>>

QueueFull(m, t) ==
    /\ SenderOpen(t)
    /\ Len(chan[queues[t]]) >= QueueSize
    /\ queues' = Pruned
    /\ fate' = [fate EXCEPT ![m] = "rejected"]
    /\ UNCHANGED <<tokens, workers, topicOf, chan, pc, waiters, lockHolder>>

\* Mutant: entry(topic).or_insert(token), which keeps a dead worker's token.
FirstToken(t, w) == IF tokens[t] = None THEN [tokens EXCEPT ![t] = w] ELSE tokens

\* topic_cancels.insert
NewToken(t, w) == [tokens EXCEPT ![t] = w]

\* create_and_enqueue: a channel that holds the message, a token that takes
\* the place of the topic's registered one, and a task that asks for a
\* permit.  Storing its handle needs worker_handles, which shutdown keeps
\* locked while it awaits the workers.
CreateAndEnqueue(caller, m, t) ==
    LET w == workers + 1 IN
    /\ ~SenderOpen(t)
    /\ w \in Worker
    /\ workers' = w
    /\ topicOf' = [topicOf EXCEPT ![w] = t]
    /\ chan' = [chan EXCEPT ![w] = <<m>>]
    /\ queues' = [Pruned EXCEPT ![t] = w]
    /\ tokens' = NewToken(t, w)
    /\ pc' = [pc EXCEPT ![w] = "start"]
    /\ waiters' = Append(waiters, w)
    /\ fate' = [fate EXCEPT ![m] = "accepted"]
    /\ lockHolder' = IF downPc = "await" THEN caller ELSE None

TryEnqueue(caller, m, t) ==
    /\ lockHolder = None
    /\ Accept(m, t) \/ QueueFull(m, t) \/ CreateAndEnqueue(caller, m, t)

\* The router, the websocket proxy and the other outside callers.
Enqueue(t, kind) ==
    /\ sent < MaxMessages
    /\ sent' = sent + 1
    /\ msg' = [msg EXCEPT ![sent + 1] = [topic |-> t, kind |-> kind]]
    /\ TryEnqueue(Router, sent + 1, t)
    /\ UNCHANGED <<item, buffered, inject, cancelled, permits, closeVars,
                   downVars, forward, cancels>>

\* A turn sends to a topic of the same manager: jyc_send_to_topic, /send, and
\* the reply forwarded to a topic that asked for one.
StartForward(w, t) ==
    /\ Forwards
    /\ pc[w] = "turn" /\ ~Busy(w)
    /\ sent < MaxMessages
    /\ sent' = sent + 1
    /\ msg' = [msg EXCEPT ![sent + 1] = [topic |-> t, kind |-> "text"]]
    /\ forward' = [forward EXCEPT ![w] = sent + 1]
    /\ UNCHANGED <<queueVars, pc, intakeVars, cancelled, permitVars, closeVars,
                   downVars, lockHolder, fate, cancels>>

Forward(w) ==
    /\ forward[w] # None /\ lockHolder # w
    /\ TryEnqueue(w, forward[w], msg[forward[w]].topic)
    /\ forward' = IF lockHolder' = w THEN forward ELSE [forward EXCEPT ![w] = None]
    /\ UNCHANGED <<item, buffered, inject, cancelled, permits, closeVars,
                   downVars, sent, msg, cancels>>

\* The parked call gets worker_handles, stores the handle and returns.
EnqueueReturns ==
    /\ lockHolder # None
    /\ downPc # "await"
    /\ lockHolder' = None
    /\ forward' = [w \in Worker |-> IF w = lockHolder THEN None ELSE forward[w]]
    /\ UNCHANGED <<queueVars, pc, intakeVars, cancelled, permitVars, closeVars,
                   downVars, sent, msg, fate, cancels>>

-----------------------------------------------------------------------------
(* The worker's task (spawn_worker).                                        *)

\* A dropped acquire future leaves the semaphore's queue.
LeaveWaiters(w) ==
    IF pc[w] \in Waiting
      THEN \E i \in 1 .. Len(waiters) :
             waiters[i] = w /\ waiters' = RemoveAt(waiters, i)
      ELSE UNCHANGED waiters

\* The task ends: the receiver goes with everything in it, and the message in
\* hand is dropped.  A permit it held is free again.
Exit(w) ==
    /\ pc' = [pc EXCEPT ![w] = "done"]
    /\ permits' = permits + (IF pc[w] \in Holding THEN 1 ELSE 0)
    /\ LeaveWaiters(w)
    /\ fate' = [m \in Message |-> IF m \in Kept(w) THEN "lost" ELSE fate[m]]
    /\ chan' = [chan EXCEPT ![w] = <<>>]
    /\ item' = [item EXCEPT ![w] = None]
    /\ UNCHANGED <<queueVars, buffered, inject, cancelled, closeVars, downVars,
                   sendVars, cancels>>

\* The semaphore hands a free permit to the worker that waited longest.  A
\* first permit opens the topic (clear_closed); a later one resumes the loop
\* with the message already in hand.
Acquire(w) ==
    /\ pc[w] \in Waiting
    /\ permits > 0 /\ waiters # <<>> /\ Head(waiters) = w
    /\ permits' = permits - 1
    /\ waiters' = Tail(waiters)
    /\ pc' = [pc EXCEPT ![w] = IF @ = "start" THEN "top" ELSE "ready"]
    /\ closed' = IF pc[w] = "start" THEN closed \ {topicOf[w]} ELSE closed
    /\ UNCHANGED <<queueVars, intakeVars, cancelled, closePc, closer, closes,
                   stale, downVars, sendVars, fate, cancels>>

\* rx.recv in the select at the head of the loop, or between two turns.  The
\* selects are unbiased: a ready message may win over a cancelled token.
Recv(w) ==
    /\ pc[w] \in {"top", "idle"}
    /\ chan[w] # <<>>
    /\ item' = [item EXCEPT ![w] = Head(chan[w])]
    /\ chan' = [chan EXCEPT ![w] = Tail(@)]
    /\ pc' = [pc EXCEPT ![w] = IF @ = "top" THEN "ready" ELSE "acquire"]
    /\ waiters' = IF pc[w] = "idle" THEN Append(waiters, w) ELSE waiters
    /\ UNCHANGED <<queueVars, buffered, inject, cancelled, permits, closeVars,
                   downVars, sendVars, fate, cancels>>

\* A cancelled token wins one of the worker's selects.
StopWaiting(w) ==
    /\ pc[w] \in {"start", "top", "idle", "acquire"}
    /\ Stopped(w)
    /\ Exit(w)

\* is_closed: the message belongs to a topic that is gone.
DropClosed(w) ==
    /\ pc[w] = "ready"
    /\ topicOf[w] \in closed
    /\ Exit(w)

\* TemplateMismatch: `continue`, with the permit still bound.
DropMismatched(w) ==
    /\ pc[w] = "ready"
    /\ topicOf[w] \notin closed
    /\ msg[item[w]].kind = "mismatch"
    /\ pc' = [pc EXCEPT ![w] = "top"]
    /\ fate' = [fate EXCEPT ![item[w]] = "mismatched"]
    /\ item' = [item EXCEPT ![w] = None]
    /\ UNCHANGED <<queueVars, chan, buffered, inject, cancelled, permitVars,
                   closeVars, downVars, sendVars, cancels>>

\* process_message takes the message: commands and hooks, then the turn.
BeginTurn(w) ==
    /\ pc[w] = "ready"
    /\ topicOf[w] \notin closed
    /\ msg[item[w]].kind # "mismatch"
    /\ pc' = [pc EXCEPT ![w] = "turn"]
    /\ fate' = [fate EXCEPT ![item[w]] = "taken"]
    /\ item' = [item EXCEPT ![w] = None]
    /\ UNCHANGED <<queueVars, chan, buffered, inject, cancelled, permitVars,
                   closeVars, downVars, sendVars, cancels>>

-----------------------------------------------------------------------------
(* The turn (process_message): it reads the queue while the agent works.    *)

\* A message that cannot, or may not, join the running turn waits for a turn
\* of its own: an attachment or a template, a blocking message_received hook,
\* a full injection channel, live_injection off.
SetAside(w, m) ==
    /\ buffered' = [buffered EXCEPT ![w] = Append(@, m)]
    /\ UNCHANGED <<inject, msg, fate>>

\* inject_tx.try_send
Inject(w, m) ==
    /\ LiveInjection /\ msg[m].kind = "text"
    /\ Len(inject[w]) < InjectSize
    /\ inject' = [inject EXCEPT ![w] = Append(@, m)]
    /\ UNCHANGED <<buffered, msg, fate>>

\* A slash command runs at once.  What it leaves for the agent to read no
\* longer starts with a slash and is set aside as plain text.
Execute(w, m) ==
    /\ msg[m].kind = "command"
    /\ \/ /\ fate' = [fate EXCEPT ![m] = "executed"]
          /\ UNCHANGED <<buffered, msg>>
       \/ /\ msg' = [msg EXCEPT ![m].kind = "text"]
          /\ buffered' = [buffered EXCEPT ![w] = Append(@, m)]
          /\ UNCHANGED fate
    /\ UNCHANGED inject

TakeDuringTurn(w) ==
    /\ pc[w] = "turn"
    /\ \A t \in Topic : closer[t] # w
    /\ chan[w] # <<>>
    /\ chan' = [chan EXCEPT ![w] = Tail(@)]
    /\ LET m == Head(chan[w]) IN
         \/ Inject(w, m)
         \/ Execute(w, m)
         \/ msg[m].kind # "command" /\ SetAside(w, m)
    /\ UNCHANGED <<queueVars, pc, item, cancelled, permitVars, closeVars,
                   downVars, forward, lockHolder, sent, cancels>>

\* Mutant: a drain point reads the channel without taking anything off it.
PeekFold(w) ==
    /\ pc[w] = "turn"
    /\ inject[w] # <<>>
    /\ fate' = [m \in Message |-> IF m \in ToSet(inject[w]) THEN "taken" ELSE fate[m]]
    /\ UNCHANGED <<queueVars, pc, intakeVars, cancelled, permitVars,
                   closeVars, downVars, sendVars, cancels>>

\* A drain point of the agent loop: everything injected joins the turn.
Fold(w) ==
    /\ pc[w] = "turn"
    /\ inject[w] # <<>>
    /\ fate' = [m \in Message |-> IF m \in ToSet(inject[w]) THEN "taken" ELSE fate[m]]
    /\ inject' = [inject EXCEPT ![w] = <<>>]
    /\ UNCHANGED <<queueVars, pc, chan, item, buffered, cancelled, permitVars,
                   closeVars, downVars, sendVars, cancels>>

\* Mutant: what goes back to the queue is not taken off the channel.
Undrained(w) == inject[w]

\* inject_rx.try_recv until it is empty.
Drained(w) == <<>>

\* The agent returned: what it did not fold goes behind what was set aside.
EndTurn(w) ==
    /\ pc[w] = "turn" /\ ~Busy(w)
    /\ pc' = [pc EXCEPT ![w] = "requeue"]
    /\ buffered' = [buffered EXCEPT ![w] = @ \o inject[w]]
    /\ inject' = [inject EXCEPT ![w] = Drained(w)]
    /\ UNCHANGED <<queueVars, chan, item, cancelled, permitVars, closeVars,
                   downVars, sendVars, fate, cancels>>

\* tx_for_reenqueue.try_send, one message after the other: to the tail of the
\* worker's own channel, or nowhere when that is full.
Requeue(w) ==
    LET m == Head(buffered[w]) IN
    /\ pc[w] = "requeue"
    /\ buffered[w] # <<>>
    /\ buffered' = [buffered EXCEPT ![w] = Tail(@)]
    /\ IF Len(chan[w]) < QueueSize
         THEN chan' = [chan EXCEPT ![w] = Append(@, m)] /\ UNCHANGED fate
         ELSE fate' = [fate EXCEPT ![m] = "overflowed"] /\ UNCHANGED chan
    /\ UNCHANGED <<queueVars, pc, item, inject, cancelled, permitVars, closeVars,
                   downVars, sendVars, cancels>>

\* Mutant: the permit is given back without leaving the turn's scope.
FinishTurnTwice(w) ==
    /\ pc[w] = "requeue"
    /\ buffered[w] = <<>>
    /\ pc' = [pc EXCEPT ![w] = "idle"]
    /\ permits' = permits + 2
    /\ UNCHANGED <<queueVars, intakeVars, cancelled, waiters, closeVars,
                   downVars, sendVars, fate, cancels>>

\* drop(_permit): an idle worker holds no permit.
FinishTurn(w) ==
    /\ pc[w] = "requeue"
    /\ buffered[w] = <<>>
    /\ pc' = [pc EXCEPT ![w] = "idle"]
    /\ permits' = permits + 1
    /\ UNCHANGED <<queueVars, intakeVars, cancelled, waiters, closeVars,
                   downVars, sendVars, fate, cancels>>

-----------------------------------------------------------------------------
(* /cancel, the close of a topic, and the shutdown of the manager.          *)

\* cancel_topic: the token stays registered.
CancelTopic(t) ==
    /\ cancels < MaxCancels
    /\ cancels' = cancels + 1
    /\ tokens[t] # None
    /\ cancelled' = cancelled \cup {tokens[t]}
    /\ UNCHANGED <<queueVars, pc, intakeVars, permitVars, closeVars, downVars,
                   sendVars, fate>>

\* mark_closed, and the deletion of the topic's state that follows it.  by is
\* the worker that runs /close on its clone of the manager, or None for a
\* close on the manager itself (auto_close_topic).
CloseMark(t, by) ==
    /\ closePc[t] = "none"
    /\ closes[t] < MaxCloses
    /\ by # None => pc[by] = "turn" /\ ~Busy(by)
    /\ closes' = [closes EXCEPT ![t] = @ + 1]
    /\ closed' = closed \cup {t}
    /\ closePc' = [closePc EXCEPT ![t] = "token"]
    /\ closer' = [closer EXCEPT ![t] = by]
    /\ stale' = stale \cup {w \in Spawned : topicOf[w] = t}
    /\ UNCHANGED <<queueVars, pc, intakeVars, cancelled, permitVars, downVars,
                   sendVars, fate, cancels>>

\* The deletion failed: the topic is still there, the freeze is lifted.
CloseFails(t) ==
    /\ closePc[t] = "token"
    /\ closePc' = [closePc EXCEPT ![t] = "none"]
    /\ closer' = [closer EXCEPT ![t] = None]
    /\ closed' = closed \ {t}
    /\ UNCHANGED <<queueVars, pc, intakeVars, cancelled, permitVars, closes,
                   stale, downVars, sendVars, fate, cancels>>

\* Mutant: the token is dropped without being cancelled.
ForgottenToken(t) == {}

\* cancels.remove(topic_name), then token.cancel()
RemovedToken(t) == {tokens[t]} \ {None}

\* cleanup_topic_state, first lock: the token leaves the map and is cancelled.
CloseToken(t) ==
    /\ closePc[t] = "token"
    /\ closePc' = [closePc EXCEPT ![t] = "queue"]
    /\ cancelled' = cancelled \cup RemovedToken(t)
    /\ tokens' = [tokens EXCEPT ![t] = None]
    /\ UNCHANGED <<queues, workers, topicOf, pc, intakeVars, permitVars, closed,
                   closer, closes, stale, downVars, sendVars, fate, cancels>>

\* cleanup_topic_state, second lock: the sender leaves the map.  A worker's
\* clone of the manager has a topic_queues of its own, which is empty.
CloseQueue(t) ==
    /\ closePc[t] = "queue"
    /\ closer[t] = None => lockHolder = None
    /\ queues' = IF closer[t] = None THEN [queues EXCEPT ![t] = None] ELSE queues
    /\ closePc' = [closePc EXCEPT ![t] = "none"]
    /\ closer' = [closer EXCEPT ![t] = None]
    /\ UNCHANGED <<tokens, workers, topicOf, pc, intakeVars, cancelled,
                   permitVars, closed, closes, stale, downVars, sendVars, fate,
                   cancels>>

ShutdownBegin ==
    /\ Shutdowns
    /\ downPc = "up"
    /\ downPc' = "tokens"
    /\ UNCHANGED <<queueVars, pc, intakeVars, cancelled, permitVars, closeVars,
                   awaited, sendVars, fate, cancels>>

ShutdownTokens ==
    /\ downPc = "tokens"
    /\ downPc' = "queues"
    /\ cancelled' = cancelled \cup ({tokens[t] : t \in Topic} \ {None})
    /\ tokens' = [t \in Topic |-> None]
    /\ UNCHANGED <<queues, workers, topicOf, pc, intakeVars, permitVars,
                   closeVars, awaited, sendVars, fate, cancels>>

ShutdownQueues ==
    /\ downPc = "queues"
    /\ downPc' = "handles"
    /\ queues' = [t \in Topic |-> None]
    /\ UNCHANGED <<tokens, workers, topicOf, pc, intakeVars, cancelled,
                   permitVars, closeVars, awaited, sendVars, fate, cancels>>

\* worker_handles is locked and drained; it stays locked to the end.
ShutdownHandles ==
    /\ downPc = "handles"
    /\ downPc' = "await"
    /\ awaited' = {w \in Spawned : Live(w)}
    /\ UNCHANGED <<queueVars, pc, intakeVars, cancelled, permitVars, closeVars,
                   sendVars, fate, cancels>>

ShutdownEnds ==
    /\ downPc = "await"
    /\ \A w \in awaited : ~Live(w)
    /\ downPc' = "down"
    /\ UNCHANGED <<queueVars, pc, intakeVars, cancelled, permitVars, closeVars,
                   awaited, sendVars, fate, cancels>>

-----------------------------------------------------------------------------
WorkerStep(w) ==
    \/ Acquire(w) \/ Recv(w) \/ StopWaiting(w)
    \/ DropClosed(w) \/ DropMismatched(w) \/ BeginTurn(w)
    \/ TakeDuringTurn(w) \/ Fold(w) \/ Forward(w)
    \/ EndTurn(w) \/ Requeue(w) \/ FinishTurn(w)

CloseStep(t) == CloseFails(t) \/ CloseToken(t) \/ CloseQueue(t)

ShutdownStep == ShutdownTokens \/ ShutdownQueues \/ ShutdownHandles \/ ShutdownEnds

Next ==
    \/ \E t \in Topic, kind \in Kinds : Enqueue(t, kind)
    \/ \E w \in Worker, t \in Topic : StartForward(w, t)
    \/ EnqueueReturns
    \/ \E w \in Worker : WorkerStep(w)
    \/ \E t \in Topic : CancelTopic(t)
    \/ \E t \in Topic, by \in Worker \cup {None} : CloseMark(t, by)
    \/ \E t \in Topic : CloseStep(t)
    \/ ShutdownBegin
    \/ ShutdownStep

Spec == Init /\ [][Next]_vars

\* The runtime polls every ready task, the semaphore is first come first
\* served, a started close or shutdown goes on, and a turn ends (the agent
\* loop has an iteration cap and time limits).  Nothing makes a caller send,
\* cancel, close or shut down.
Fairness ==
    /\ \A w \in Worker : WF_vars(WorkerStep(w))
    /\ \A t \in Topic : WF_vars(CloseStep(t))
    /\ WF_vars(ShutdownStep)
    /\ WF_vars(EnqueueReturns)

FairSpec == Spec /\ Fairness

-----------------------------------------------------------------------------
(* Properties.                                                              *)

\* Every variable has the shape the code gives it, within its capacities.
TypeOK ==
    /\ queues \in [Topic -> Worker \cup {None}]
    /\ tokens \in [Topic -> Worker \cup {None}]
    /\ workers \in 0 .. MaxMessages
    /\ topicOf \in [Worker -> Topic]
    /\ pc \in [Worker -> {"unborn", "idle", "done"} \cup Holding \cup Waiting]
    /\ chan \in [Worker -> Seq(Message)]
    /\ \A w \in Worker : Len(chan[w]) <= QueueSize /\ Len(inject[w]) <= InjectSize
    /\ item \in [Worker -> Message \cup {None}]
    /\ buffered \in [Worker -> Seq(Message)]
    /\ inject \in [Worker -> Seq(Message)]
    /\ cancelled \subseteq Worker
    /\ permits \in 0 .. MaxConcurrent
    /\ waiters \in Seq(Worker)
    /\ closed \subseteq Topic
    /\ closePc \in [Topic -> {"none", "token", "queue"}]
    /\ closer \in [Topic -> Worker \cup {None}]
    /\ forward \in [Worker -> Message \cup {None}]
    /\ lockHolder \in Worker \cup {None, Router}
    /\ downPc \in {"up", "tokens", "queues", "handles", "await", "down"}
    /\ awaited \subseteq Worker
    /\ sent \in 0 .. MaxMessages
    /\ msg \in [Message -> [topic : Topic, kind : AllKinds]]
    /\ fate \in [Message -> Fates]
    /\ cancels \in 0 .. MaxCancels
    /\ closes \in [Topic -> 0 .. MaxCloses]
    /\ stale \subseteq Worker

\* The worker ids are given out in order, to one task each.
IdsInOrder == \A w \in Worker : w > workers <=> pc[w] = "unborn"

\* A close under way has been counted.
ClosesCounted == \A t \in Topic : closePc[t] # "none" => closes[t] > 0

\* The semaphore's permits are conserved through every exit of the worker
\* loop, so no more than MaxConcurrent turns ever run and none is lost.
PermitsBalanced == permits + Cardinality(Holders) = MaxConcurrent

\* A message that was accepted and is not settled is in exactly one place:
\* re-queueing, injection and a dying worker neither lose nor double one.
AcceptedInOnePlace ==
    \A m \in Message :
        LET at(s, w) == Cardinality({i \in 1 .. Len(s[w]) : s[w][i] = m})
            here(w)  == at(chan, w) + at(buffered, w) + at(inject, w)
                          + (IF item[w] = m THEN 1 ELSE 0)
            holders  == {w \in Worker : here(w) > 0}
        IN  IF fate[m] = "accepted"
              THEN \E w \in Worker : holders = {w} /\ here(w) = 1 /\ Live(w)
              ELSE holders = {}

\* Until a topic is closed or the manager shuts down, a live worker is the one
\* its topic's messages and its topic's /cancel reach, and hence the only one.
WorkerReachable ==
    ~Down => \A w \in Worker :
        Live(w) /\ closes[topicOf[w]] = 0
            => queues[topicOf[w]] = w /\ tokens[topicOf[w]] = w

\* The first close of a topic cancels every worker that served the topic when
\* it began, whoever runs it and whatever is enqueued or cancelled meanwhile.
FirstCloseReachesWorkers ==
    [][~Down => \A t \in Topic :
         closes[t] = 1 /\ closePc[t] = "queue" /\ closePc'[t] = "none" =>
             \A w \in stale : topicOf[w] = t /\ Live(w) => w \in cancelled]_vars

\* The wait that nothing ends: the shutdown keeps worker_handles locked until a
\* turn is over, and a send of that turn waits for worker_handles, or for
\* topic_queues behind a call that does.
Entangled ==
    /\ downPc = "await" /\ lockHolder # None
    /\ \E w \in awaited : forward[w] # None

\* Every accepted message is read by a model, executed, or visibly dropped: but
\* for the entangled shutdown, no message waits for ever behind a worker that is
\* gone, a permit nobody frees or a lock nobody gives back.
AcceptedSettles ==
    \A m \in Message : fate[m] = "accepted" ~> fate[m] \in Settled \/ Entangled

\* A worker whose token, or whose manager's token, is cancelled ends: a turn that
\* sends to another topic can keep it only in the entangled shutdown.
StoppedWorkersEnd ==
    \A w \in Worker :
        Live(w) /\ (Down \/ w \in cancelled) ~> ~Live(w) \/ Entangled

\* The manager keeps the promise of TopicService: a message is read once or
\* dropped once, and the turns stay within the semaphore.
Service == INSTANCE TopicService WITH
    waiting <- {m \in Message : fate[m] = "accepted"},
    read    <- {m \in Message : fate[m] = "taken"},
    dropped <- {m \in Message : fate[m] \in Settled \ {"taken"}},
    turns   <- Cardinality({w \in Worker : pc[w] \in InTurn})
ImplementsService == Service!Spec

\* The shutdown returns, or a send of a turn it awaits is entangled with it: no
\* other wait of the manager, its workers and its callers stops it.
ShutdownCompletes == Down ~> downPc = "down" \/ Entangled

\* DESIGN.md, "**Graceful shutdown**: `CancellationToken` propagates to all
\* workers and monitors".
ShutdownReturns == Down ~> downPc = "down"

\* cleanup_topic_state, "Cancel the per-topic token so the worker + event
\* listener exit promptly": the same of every close.
CloseReachesWorkers ==
    [][~Down => \A t \in Topic : closePc[t] = "queue" /\ closePc'[t] = "none" =>
         \A w \in stale : topicOf[w] = t /\ Live(w) => w \in cancelled]_vars

\* DESIGN.md, "One worker per topic -- Sequential processing".
SequentialPerTopic ==
    \A v, w \in Worker :
        pc[v] \in InTurn /\ pc[w] \in InTurn /\ topicOf[v] = topicOf[w] => v = w

\* DESIGN.md, "Topic queue empty + no pending -> release permit".
EmptyQueueHoldsNoPermit == \A w \in Worker : pc[w] = "top" => chan[w] # <<>>

\* spawn_worker, "`clear_closed` only runs for a worker that starts *after*
\* the close".
FreezeLiftedByLaterWorker ==
    [][\A w \in Worker : pc[w] = "start" /\ pc'[w] = "top" /\ topicOf[w] \in closed
          => w \notin stale]_vars
=============================================================================
