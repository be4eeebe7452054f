# jyc: a TLA+ verification project

jyc is an agent daemon. Channels (e-mail, Feishu, GitHub, WeCom, ...) hand it messages, a
router maps each one to a *topic*, and every topic has a queue and a worker task that runs one
AI turn at a time. A turn reads further messages while it works, runs tools, writes a reply and
has it delivered to the channel. Topics can be cancelled, closed and spawned from one another,
and the whole daemon can be shut down. Almost every hard question about the program is about
the order of those things, and that is what this directory specifies.

Every module is written from the Rust source; `PROJECT.json` names the lines each definition
models. Source paths below are relative to `src/crates/`.

* [The system and its parts](#the-system-and-its-parts)
* [The modules and the code](#the-modules-and-the-code)
* [The runs](#the-runs)
* [Bounds](#bounds)
* [Fairness](#fairness)
* [What is proved](#what-is-proved)
* [Where the code and its documentation differ](#where-the-code-and-its-documentation-differ)
* [What is not modelled](#what-is-not-modelled)
* [The plan](#the-plan)

## The system and its parts

| part | state | operations | what is hard | what makes it correct |
|---|---|---|---|---|
| topic manager (`jyc-core/src/topic_manager/{queue,lifecycle,mod}.rs`) | sender, token and handle maps, a semaphore, a bounded channel and a task per topic, the closed set | `try_enqueue`, `create_and_enqueue`, `spawn_worker`, `cancel_topic`, `close_one_topic_under`, `cleanup_topic_state`, `shutdown` | unbiased selects, two locks per close, a permit over many exits, a lock held across an await | no accepted message is lost in between, doubled or stranded; permits balance; what is cancelled ends; a topic's first close reaches its workers |
| a turn's intake (`jyc-core/src/topic_manager/worker/mod.rs`) | messages set aside, the injection channel | `process_message` | messages arrive while the agent runs and some cannot join it | as above |
| reply delivery (`jyc-core/src/pending_delivery.rs`, `jyc-agent/src/tools/mod.rs`, the worker) | `reply.md`, `reply-sent.flag`, the turn's watcher | `deliver_reply`, `watch_pending_deliveries`, delivery after the turn | a relay of two files with room for one text, between three tasks; failed sends, hooks, crashes | the final reply goes out once; watcher and worker never deliver together; a turn ends |
| agent loop and transcript (`jyc-agent/src/agent_loop/mod.rs`, `session.rs`, `provider/mod.rs`) | the raw context, how much of it is on disk, the journal | one iteration, a batch of tool calls, the cut on a cancel, `append_journal`, the repair of orphans | cancels inside a batch, model changes between turns, torn appends | what is sent to a model pairs every call with a result; the journal is only appended to |
| reply guard (`jyc-agent/src/service/{mod,reply_guard}.rs`, `tools/builtin/send_to_topic.rs`) | reply requests with marks, the turn's outbound targets | fold a request, record a send, `unanswered`, forward | a request arrives in the middle of a turn that has already sent | each topic that asked is answered, by the guard at most once |
| event bus (`jyc-core/src/topic_event_bus.rs`) | event log, subscriber list | `publish`, `subscribe` | replay against live events, two locks per publish, full channels | nothing falls between log and list; the events of one publisher arrive in order |
| spawned topics (`jyc-core/src/command/spawn_handler.rs`, `topic_manager/lifecycle.rs`, `topics.rs`, `topic_path.rs`) | state directory with two breadcrumbs, working directory, pin map, grants, closed set | `spawn_under`, `close_topic_under`, `restore_state_registry` | five places updated one after the other; a restart keeps only the disk; a close takes a subtree | no child without a parent; nobody's directory is taken; what a close takes goes with its parent; a restart finds every child |
| IMAP monitor (`jyc-channels/src/imap/monitor.rs`, `state_manager.rs`) | the epoch (UIDVALIDITY), the cursor and the processed UIDs, in memory and in two files | `check_for_new`, `plan_fetch`, `track_uid`, `compact`, `save`, `reset` | a mailbox that changes and is recreated, two files no step writes together, kills and failed commands anywhere | no mail below the cursor is passed over; a mail is handed over twice only for want of its line; no cursor outlives its epoch |
| WeCom customer service intake (`wecom/kf_inbound.rs`, `kf_cursor.rs`, `kf_dedup.rs`) | cursor and dedup store, in memory and (the cursor) in a file | `sync_messages`, the loop over a page, `flush` | notifications start overlapping tasks; a mark before the hand-over; a write beside a later cursor | no cursor passes a message over; duplicates have a reason; a quiet store is saved |
| GitHub poller (`github/inbound/{poll,state}.rs`, `github/client.rs`) | `last_poll`, the keys of issues and comments in two files, the cache of open issues and the reported closures in memory | one cycle with its three lists, the trackers and the compaction of their files, the close events | the repository changes between the lists and between two pages of one; a page is short; a write fails unheard; a restart forgets the memory | no comment falls between two cycles; what was seen triggers once while its key is kept; only closed issues end topics |
| live status (`topic_manager/live_status.rs` and its calls in `worker/mod.rs`) | per topic two flags, the messages set aside, the counted injection channel | the stages of a turn, the guard that resets it, `clear` at a close | each write has a lock of its own; a turn outlives the close of its topic, and the name may be used again | a quiet topic is idle; a turn that met nothing is shown as it is; a turn takes back its own count |
| access grants, context window, sequence numbers, retries, pipes, orchestrator | see [the plan](#the-plan) | | | |
| channels, providers, tools, dashboard, inspect server, configuration | I/O, parsing, views | | see [What is not modelled](#what-is-not-modelled) | |

How they interact: a channel's inbound adapter, the inspect server's websocket, another topic's
`send_to_topic` and a spawn all call `try_enqueue` on a topic manager. The worker it starts owns
the receiving end of the topic's channel, takes one of `max_concurrent_topics` permits and calls
`process_message`, which starts the watcher of the relay, runs the agent service (agent loop,
then reply guard, then the save of the journal) and meanwhile reads the queue: plain text goes
through a second, small channel into the running turn, anything else waits for a turn of its own.
After the turn the worker stops the watcher and delivers what is left. All of them publish to
the topic's event bus, which the dashboard's activity tracker and the live cards subscribe to.
`/cancel`, `/close`, an upstream close event and the shutdown reach the worker by cancellation
tokens. Topics that spawn topics share the closed set, the registry of state directories and the
pin map, which live in memory, with breadcrumbs on disk.

## The modules and the code

Each component is a module whose state is the component's state and whose actions are the atomic
pieces of its operations: what the code does between two awaits (or between taking and dropping a
lock) is one action. Histories, marked as such where they are declared, record what the properties
speak of and nothing reads them in a guard. Operators called "Mutant" in a comment are deliberate
mistakes kept beside the definition they change; `PROJECT.json` says which property each one
breaks.

| module | models | notes |
|---|---|---|
| `TopicQueue` | the topic manager and a turn's intake | A worker id stands for the channel, the token and the task that `create_and_enqueue` makes together; the maps `queues` and `tokens` say which id is registered. `TryEnqueue` is `try_enqueue` under the `topic_queues` lock: send, refuse when full, prune and respawn when the receiver is gone. It waits while the shutdown holds `worker_handles`, and then holds `topic_queues` (`lockHolder`). `Acquire`, `Recv`, `StopWaiting`, `DropClosed`, `DropMismatched`, `BeginTurn`, `FinishTurn` are the worker loop with both of its unbiased selects. `TakeDuringTurn`, `Fold`, `EndTurn`, `Requeue` are the intake of `process_message`. `CloseMark`, `CloseToken`, `CloseQueue`, `CloseFails` are a close with its two locks; a close that a worker runs on its clone of the manager has an empty `topic_queues`. `ShutdownBegin` to `ShutdownEnds` are the four steps of `shutdown`. |
| `TopicService` | what the manager promises | A message is taken in or refused, then read by one turn or dropped; a bounded number of turns do the reading. `TopicQueue!ImplementsService` is the refinement. |
| `ReplyDelivery` | a reply on its way to the channel | `Say` is `deliver_reply` being called with a heartbeat, a question or the final text; `SendDirect`, `SendFails`, `SendSuppressed` the direct attempt; `RelayClosed`, `RelayOpen`, `WriteReply`, `WriteSignal` the relay with its stale check of the closed set; `WatchRead`, `WatchSend`, `RemoveFlag`, `RemoveReply`, `WatchStop` the watcher; `StopWatcher`, `JoinWatcher`, `PostText`, `PostNothing`, `Deliver` the worker after the turn. `Close` and `Crash` may come at any time. |
| `AgentTurn` | agent loop, transcript, journal, reply guard | An entry of the transcript is its role, the ids of its tool calls or results and its wire format. `BeginTurn` loads the journal and repairs it; `StopAtTop`, `GoOn`, `CallReturns`, `Answer`, `EmbeddedAsk`, `CallTools`, `ToolRuns`, `AbortTool`, `BatchDone`, `DrainBatch`, `CutBatch` are the loop; `Guard`, `Forward`, `GuardDone` the reply guard, `Save` the append, `Crash` a torn one. |
| `EventBus` | one topic's bus | `LogEvent` and `Forward` are the two halves of `publish`; `Subscribe` is the replay and the registration under one lock. |
| `SpawnTree` | topics that spawn topics | `SpawnBegin`, `SpawnMake`, `SpawnSeed`, `SpawnGrant` are `spawn_under`, which runs in a turn of the parent, so the parent's worker has pinned it; `Subtree` is what `subagent_closure` collects: the least set with the topic's subagents and theirs; `CloseBegin` computes the subtree, `CloseFreeze`, `CloseState`, `CloseHome`, `CloseUnregistered`, `CloseFails` close one topic of it; `Open` and `LookUp` are `try_enqueue` and `topic_path`, `Prune` the listing that drops pins of topics that are gone, `Restart` what is rebuilt from disk. A topic that is opened while its name is still frozen has no breadcrumb until it is asked for again after its worker lifted the freeze. |
| `MailMonitor` | one IMAP monitor with its files | A mail is its UID within an epoch. `Arrive`, `Expunge`, `Recreate` are the mailbox; `Start` is `initialize` (and `--reset`), `Select`, `CheckValidity`, `RemoveState`, `RemoveUids` the comparison of epochs, `FindNewest`, `Fetch` the plan, `Skip`, `HandOver`, `ProcessFails`, `Track`, `Rewrite`, `RewriteFails` the batch with `track_uid` and its compaction, whose failure nobody hears of and leaves any part of the file, `Advance`, `Truncate`, `WriteState` the cursor and its save, `CleanUp` the end. A save is two steps, because the file is truncated before it is written. `CheckFails`, `TrackFails`, `Cancel`, `Crash` may come at any of their places. `Reports` says whether the server reports UIDVALIDITY at every SELECT; if not, `ValidityAction` keeps what is stored. |
| `KfIntake` | the customer service intake of one account | A message is its position, a cursor the position it stands for. `Notify` starts a task; `Sync`, `Skip`, `TooOld`, `IsNew`, `Mark`, `HandOn`, `PageDone` are its loop, `FlushSkips`, `FlushBegins`, `FlushWrites`, `FlushClears` the write of the cursor file with its mark. `Restart` loads the file and empties the dedup store. |
| `GithubPoll` | the polling of one repository | Time is the number of a change. `ListIssues` is one page of the open issues, `SeeKnown`, `SeeIssue`, `CompactSeen`, `Trigger` what becomes of each; `ListComments`, `SkipProcessed`, `Skip`, `HandOn`, `Track`, `CompactComments` the comments; `DetectClosed`, `ListClosed` the closures, the second from one page; `EndCycle` picks the next `since` between the old one and now: how long the cycle took is not known. A write of a key or of a compacted file may fail and nobody hears of it; `CycleFails` is a request that fails, `Restart` a kill and the next start, with files that may not be readable. |
| `LiveStatus` | the status of one topic under its workers and a close | `Begin` to `Return` are the calls of `process_message`, `GuardReads`, `GuardEnds`, `GuardClears` the drop of `TurnStatusGuard`; `CloseFreezes`, `CloseClears`, `CloseFails`, `CloseCancels` what a close does to it. |
| `TopicQueueProofs`, `ReplyDeliveryProofs`, `AgentTurnProofs`, `StatusProofs`, `SpawnTreeProofs`, `MailMonitorProofs`, `KfIntakeProofs`, `GithubPollProofs` | | theorems and proofs; `StatusProofs` is about `EventBus` and `LiveStatus` |

The modules are composed through what they assume of each other, not by one large product:
`ReplyDelivery` and `AgentTurn` are what happens inside the program counter "turn" of
`TopicQueue`, whose `EndTurn` may happen at any time (and is what `ReplyDelivery!TurnEnds`
justifies as fair); the closed set of `SpawnTree` is the `closed` of the two others. `LiveStatus`
takes a queue for granted and asks what its readers see; the three intakes end in `on_message`,
which is `TopicQueue!TryEnqueue`. `TopicQueue` is composed with `TopicService` by refinement.

## The runs

Twelve runs, which all pass; each line of the table is one question. The other `.cfg` files of this
directory are the counterexamples of [the section on divergences](#where-the-code-and-its-documentation-differ).

| run | checks | shows | distinct states |
|---|---|---|---|
| `TopicQueueAll` | `PermitsBalanced`, `AcceptedInOnePlace`, `WorkerReachable`, `ImplementsService`, `FirstCloseReachesWorkers` | One topic, three messages, /cancel, a close, a send from a turn and the shutdown, every operation interleaved with every other: no message is lost in between, doubled or stranded, the permits balance, the first close of a topic reaches its workers and the manager implements TopicService. | 3 029 257 |
| `TopicQueueEnds` | `AcceptedSettles`, `StoppedWorkersEnd`, `ShutdownCompletes` | Two topics compete for one permit around /cancel and the shutdown, and their turns may send to the other topic: every accepted message is read or dropped in the end, cancelled workers end and the shutdown returns, unless a turn it awaits is in a send that waits for the lock the shutdown holds. | 232 724 |
| `ReplyDeliveryAll` | `FinalDeliveredOnce`, `TurnEnds` | Two turns and two texts of every kind with failing sends, hooks, a close and a crash: a turn that has the relay to itself delivers its final reply exactly once, and every turn ends. | 312 374 |
| `AgentTurnTranscript` | `TypeOK`, `SentAccepted` | Three turns with cancels, failed calls, crashes, images and a change of the model's format between turns: what a call sends is always a transcript in which every tool call has its result at once behind it. | 1 092 490 |
| `AgentTurnGuard` | `JournalPaired`, `PriorKept`, `RequestsSettled`, `NoSecondAnswerUncancelled` | Two turns of chat-format models, two topics that ask for replies, cancels and failures: the journal never holds a call without its result and is never rewritten, and each topic is sent an answer, by the model or, once, by the guard. | 5 262 995 |
| `EventBusAll` | `SourceOrder`, `NoEventMissed`, `EventsArrive` | Two publishers and two subscribers that may come late, lag and leave: an event never falls between log and list, each publisher's events arrive in its order, and what is published is received by a subscriber that reads. | 210 493 |
| `SpawnTreeAll` | `TypeOK`, `NoOrphan`, `DirKept`, `RestartKeepsLineage` | Spawns with own and shared directories under new names, cascading closes, reopens and a restart at any point, one at a time and with no removal that fails: the subtree goes children first, no close of a registered topic takes a directory another pinned topic works in, and a restarted parent finds its children. | 171 199 |
| `SpawnTreeOwn` | `TakenWithParent` | Spawns, closes and opens that overlap, names used again, removals that fail and a restart: what a close removes besides the topic it was asked for is the child of a topic it removes later, or changed hands after the subtree was computed. | 683 848 |
| `MailMonitorAll` | `NothingSkipped`, `TwiceOnlyUntracked`, `CursorOfEpoch`, `CatchesUp` | Three mails in a mailbox that is recreated once, with a failed command, append or compaction and a kill or cancellation anywhere: nothing between the start of a cursor and the cursor is passed over unsettled, a mail is handed over twice only for want of its line on disk, no cursor outlives its epoch, and the running monitor catches up. | 1 051 566 |
| `KfIntakeAll` | `NothingPassedOver`, `TwiceOnlyForgotten`, `QuietMeansSaved`, `MessagesSettle` | Two tasks of one account, three notifications, three messages in pages of two with one failure or kill: no cursor passes a message that is not settled or in a task's hands, a message is handed on twice only by a race or a forgotten entry, the file follows the memory, and what the service had is settled in the end. | 343 283 |
| `GithubPollAll` | `NoneBetweenCycles`, `TwiceOnlyUntracked`, `TriggersOnce`, `OnlyClosedEnd`, `CatchesUp` | Two issues with two labels and three changes of the repository between any two requests of a cycle, pages of one, key files compacted to one, one request, callback, write or read that fails and one kill: a comment made before last_poll was looked at by a cycle whose page had room for it, a comment or a label is handed on again only when its key was lost, topics are closed only for a closure unless the pages of the open issues shifted, and the poller catches up. | 655 839 |
| `LiveStatusAll` | `QuietIsIdle`, `ShownAsItIs` | Two workers of one name, three messages and a close that may fail, each write of the status a step: a turn that met neither a close nor another turn is shown as it is, and when no turn is in flight nothing is shown, however turns overlapped and ended. | 259 483 |

The properties in words:

* `TopicQueue`: `PermitsBalanced`: free permits and workers in possession of one add up to
  `max_concurrent_topics`. `AcceptedInOnePlace`: an accepted message that is not settled is in one
  place of one live worker (channel, in hand, set aside, injected). `WorkerReachable`: before a
  close, a live worker is the one that the topic's sender and token name. `FirstCloseReachesWorkers`:
  when the first close of a topic ends, every worker that served the topic when it began is cancelled.
  `AcceptedSettles`, `StoppedWorkersEnd`, `ShutdownCompletes`: nothing waits for ever, but for one
  wait the code has and the properties name, `Entangled`: the shutdown awaits a turn with
  `worker_handles` locked, and a send of that turn waits for that lock, or behind a call that does.
  `TopicQueueForward` below shows that wait; the run, with such sends, that there is no other.
* `ReplyDelivery`: `FinalDeliveredOnce`: when a turn that had the relay to itself is over, and there was no
  crash and no close, its final text reached the channel exactly once, or not at all after two
  failed sends or a hook that suppressed it. `TurnEnds`: every turn ends, crash or not.
* `AgentTurn`: `SentAccepted`: at every call the transcript, as sent, is one a provider accepts.
  `JournalPaired`: the journal has no call without its result (of models with one wire format;
  `AgentTurnBlocks` and `AgentTurnSwitch` show the rest). `PriorKept`: a turn never touches what it
  loaded. `RequestsSettled`: when the turn is saved every request was answered by the model or
  forwarded. `NoSecondAnswerUncancelled`: the guard forwards to no topic the model
  answered, unless a cancel took the record of it.
* `EventBus`: `NoEventMissed`: an open subscriber has every event since it joined, or lost it to its
  full channel. `SourceOrder`: the events of one publisher arrive in the order it published them.
  `EventsArrive`: what was logged while a subscriber was open is received, lost or the subscriber left.
* `SpawnTree`: `NoOrphan`: a child's parent exists. `DirKept`: no step takes the directory that a topic
  of the pin map works in, in the middle of a close too; only the close of a topic without a
  registration asks nobody, as its comment says. `RestartKeepsLineage`: after a
  restart every parent holds the grants of its children again. `TakenWithParent`: what a close
  removes besides the topic it was asked for is the child of a topic whose turn comes later in that
  close, unless the child changed hands after the subtree was computed; of every overlap of spawns,
  closes and openings, removals that fail, and names used again.
* `MailMonitor`: `NothingSkipped`: from where an epoch's cursor started up to the cursor, every mail
  still in the mailbox was handed over, failed, was cut off by a cancellation or hidden by a stale
  UID. `TwiceOnlyUntracked`: a second hand-over has one of six reasons (a kill before the line, a
  failed append, a compaction that dropped the line, one whose rewriting failed or was cut short,
  `--reset`, or a start from the file of the epoch before).
  `CursorOfEpoch`: a check fetches and tracks under the epoch it selected. `CatchesUp`.
* `KfIntake`: `NothingPassedOver`: what is at or below any cursor (of a task, in memory, in the file)
  is settled, in a task's hands or was lost in them by a kill. `TwiceOnlyForgotten`: a message is
  handed on twice only by a race of two tasks or when the dedup store, which is in memory only, had
  forgotten it. `QuietMeansSaved`, `MessagesSettle`.
* `GithubPoll`: `NoneBetweenCycles`: a comment made since polling began and before `last_poll` was
  looked at, in a process whose pages of comments had room and whose cycles never ended more than
  30 seconds after their list, whichever requests failed. `TwiceOnlyUntracked`, `TriggersOnce`: a
  comment, or an issue with the same labels, comes again only if its key was lost from memory or
  file since: to a kill, a write that failed unheard, a compaction, or a file that could not be read.
  `OnlyClosedEnd`: topics are closed only for a closure not reported before, unless the pages of
  open issues shifted while they were read or are too few. `CatchesUp`: what is behind the
  repository, and can be reported at all, catches up once it is quiet.
* `LiveStatus`: `QuietIsIdle`: while no turn is in flight nothing is shown. `ShownAsItIs`: a turn that
  met neither a close nor another turn of the name is shown as it is.

`AgentTurn` and `SpawnTree` check their type invariant in a run. The type invariants of the other
modules are theorems, as are `WatcherGoneFirst` (the worker looks into the relay only after the
watcher has ended), `LogIsTail` (the log is the last events without a gap), `OneForwardEach` (the
guard forwards once to a topic that asked twice) and `OwnCountOnly` (a turn takes back its own
count), and are not checked again.

## Bounds

Every bound is a constant, tested in a guard of the environment's actions only, so the program's
own steps are never cut short.

* `TopicQueueAll`: one topic and three messages are what it takes for a message in a turn, one in
  the channel and one that finds the channel full (`QueueSize = 1`), or for a third worker of one
  topic; one `/cancel`, one close and the shutdown meet in every order. One permit makes every
  wait for it real. Channels bring commands, which are executed or set aside and put back, and
  messages that mismatch their template, which take an exit of the worker loop of their own; plain
  text comes from the sends of turns.
* `TopicQueueEnds`: two topics with one permit, so that one waits for the other, and text from
  channels and from turns that send to the other topic, so that a send can meet the shutdown and a
  cancelled worker. Commands and closes are left to `TopicQueueAll`. Liveness is checked without
  symmetry.
* `ReplyDeliveryAll`: two texts are one more than the relay holds; two turns let the second one
  find what the first left.
* `AgentTurnTranscript`: three turns: one that breaks something, one that saves it, one that
  loads it. Two calls in a batch are the least that can be half done. `AgentTurnGuard`: two
  requests of the same or of two topics, in two turns.
* `EventBusAll`: the log holds two of three events and a subscriber's channel is twice the log, as
  in the code, so the log overflows and the channels too.
* `SpawnTreeAll`: three names, so that a subtree has a topic that is both child and parent; a close
  of it can be followed by two more, of the same names; one restart at any point. `SpawnTreeOwn` lets
  spawns, closes and opens overlap, removals fail and names be used again; two spawns and two closes
  are what a grant left behind, or a child that changes hands, takes.
* `MailMonitorAll`: three mails are what compaction needs to forget one that a cursor has not passed
  on disk; two epochs, one failed step (a compaction's included) and one kill or cancellation meet in
  every order. Two failed steps in a row, which make a start from the file of the epoch before
  possible, are beyond the run; `MailMonitorProofs` proves all three safety properties for any
  number.
* `KfIntakeAll`: two tasks that overlap and a third notification after them; a page of two and three
  messages, one without a sender, so that a task has two pages; a dedup store that overflows.
* `GithubPollAll`: two issues with two labels and pages of one, so that the two open issues take two
  requests that a change can come between, and one page shows one of two comments or closures;
  three changes (open, comment, close, or both issues opened and one updated between the pages);
  `EventsKept`, `CompactAbove` and `KeysKept` are 1, so that the reported closures are cleared and
  both key files compacted; one failure and one kill at any point.
* `LiveStatusAll`: two workers of one name with a close between them and three turns.

No state space is cut by a constraint, and none of the runs uses symmetry.

Some preconditions are worth knowing:

* `AcceptedSettles` is checked with messages that match the topic's template: a worker that drops a
  mismatched one keeps its permit while it waits (`topic_manager/queue.rs:426`), and with
  `max_concurrent_topics = 1` every other topic then starves. `TopicQueuePermit` shows the kept
  permit.
* The liveness properties of `TopicQueue` excuse the entangled shutdown (`TopicQueueForward`).
* `FirstCloseReachesWorkers` is about a topic's first close only: what a message enqueued between
  the two locks of that close registers, a second close may miss (`TopicQueueOrphan`).
* `NoOrphan` and `DirKept` are checked without overlapping spawns and closes, failed removals and
  names used again. With the first two they do not hold, which is what `SpawnTreeRace` and
  `SpawnTreeDir` show; with `Reuses = TRUE` TLC finds `NoOrphan` violated. `RestartKeepsLineage`
  needs one spawn or close at a time, and that no name is used again: `adopt_state_dir`
  (`topic_path.rs:358`) returns early for a name that is still registered and does not write
  `topic-path` again, so a topic that is closed and spawned under its old name is unknown to the next
  start. That the walk over a
  subtree ends, which `lifecycle.rs:129` claims of every case, is false where names are used again
  (`SpawnTreeCycle`), and no run claims it of the others: with new names only, no cycle can arise. The
  model's subtree is the least set that contains the topic and its subagents' own, which a walk that ends
  collects, whatever the order.
* The properties of `MailMonitor` are about a server that reports UIDVALIDITY at every SELECT, as RFC
  3501 asks (`Reports = TRUE`). The code goes on without, with a warning (`monitor.rs:249`); it cannot
  then know a recreated mailbox, and with `Reports = FALSE` TLC finds all three safety properties
  violated.
* `OnlyClosedEnd` and `NoneBetweenCycles` of `GithubPoll` leave out the cycles that the code does not
  cover: pages that shifted or are too few, and cycles that took longer than 30 seconds.
  `GithubPollOpen` and `GithubPollBuffer` show what is lost in those.

## Fairness

* `TopicQueue!Fairness`: weak fairness of each worker's step, of a started close, of a started
  shutdown and of an enqueue that waits for a lock. tokio polls a task that is ready, its
  semaphore is first come first served (the model keeps the order of `waiters`), and a turn ends:
  the agent loop has an iteration cap and the model call a time limit. Nothing obliges a caller to
  send, cancel, close or shut down.
* `ReplyDelivery!FairSpec`: the worker's and the watcher's steps. A send returns, by success or by
  an error of its client.
* `EventBus!Fairness`: a publisher that logged forwards (it awaits only a lock that is held for a
  moment), and a subscriber reads its channel in a loop. Nobody is obliged to publish, subscribe
  or stay.
* `MailMonitor`, `KfIntake`: the steps of the monitor and of a started task when nothing fails; their
  requests return, and failures are bounded. That mail arrives, a notification comes or the
  process is started again is not promised.
* `GithubPoll`: weak fairness of the poller's own steps, and strong fairness of a cycle whose end is
  30 seconds after the last change (`QuietCycle`): the clock goes on when the repository does not,
  so a cycle that leaves nothing out comes again and again.

`CHECK_DEADLOCK` is off in every configuration: an idle daemon has nothing to do, and the bounded
environment runs out of messages. That nothing waits on everything is checked by the liveness
properties, and `TopicQueueForward`, below, is the one wait of that kind that they find.

## What is proved

The theorems hold for every value of the constants that satisfies the modules' `ASSUME`s: which
bounds are natural numbers, that capacities are positive, that there is a topic, that kinds,
formats and sources are the ones the code has, that there are finitely many names. Some theorems
have a hypothesis on the constants besides, which is part of their statement and said below. They
are safety properties of `Spec`, each from an inductive invariant (`IInv`, or a conjunction of
several that are proved one upon the other) by `Init => IInv`, `IInv /\ [Next]_vars => IInv'` and
`IInv => Inv`. Every safety property that a run checks is the statement of a theorem.

* `TopicQueueProofs` (`TypeCorrect`, `PermitsConserved`, `WorkersReached`, `MessagesPlaced`,
  `ServiceImplemented`, `FirstCloseReaches`). `IInv` adds to the
  three properties `IdsInOrder` (worker ids are given out in order, so a new worker's id is free in
  every map) and `ClosesCounted` (a close under way is counted, so a topic with no counted close
  cannot lose its token). Permits are a cardinality: the lemma `HoldersStep` says what becomes of
  the number of holders when one worker moves, and every action is one of its four cases.
  `HolderLeavesRoom` gives that a permit given back never exceeds the limit, which typing needs.
  `MessagesPlaced` and `ServiceImplemented` rest on a second invariant, `PlacesInv`: what the
  workers keep is exactly what is accepted, once each (`OneHome`); what a worker may keep at each
  point of its task (`Stations`: outside a turn nothing is injected or set aside, so an exit drops
  no more than the channel and the message in hand); and a message is offered to `try_enqueue` by
  one caller, once (`SendsOnce`, which a send parked on the manager's lock needs). With it every
  step is one of `TopicService` or none: `Settles` names the messages a step settles, and
  `TurnsBounds` gives, by the balance of the permits, that a turn that begins had room.
  `FirstCloseReaches` adds `FirstCloseUnderWay`: from the mark of a topic's first close to its end
  the outdated worker is registered until its token is taken, and cancelled from then on; the mark
  establishes it by `WorkerReachable`, which no longer holds at a second close.
* `ReplyDeliveryProofs` (`TypeCorrect`, `WatcherGone`, `FinalOnce`). `IInv` adds that a turn has begun
  when the worker is not idle and that the result has a text when the worker delivers it. For
  `FinalOnce` a text's history is what its turn made of it (`Bookkeeping`), and a due reply is
  followed from the agent's hands through the relay's files and the watcher's or the worker's
  (`Tracked`): at each point it is in one known place, and what is left of it in the relay after its
  turn has not been sent, which is why no later watcher sends it twice.
* `AgentTurnProofs` (`RequestsAllSettled`, `ForwardsDistinct`, `TypesHold`, `NeverTwiceAnswered`,
  `PriorStays`, `JournalStaysPaired`, `SentIsAccepted`), for all turns, batches and transcripts.
  * The guard: `IInv` follows a request: a send after its mark answers it (`SendsCount`), from the
    guard on it is answered, owed or forwarded (`NoneLost`), and one request at most is owed to a
    topic (`OwedOnce`). The steps of the loop that touch none of this are covered once, by
    `QuietKeeps`. `RInv` adds that a mark is one of the turn's sends (`Marks`) and that the guard of a
    turn that neither died nor was cancelled forwards to a topic only for a request the turn did
    not answer (`GuardSpares`).
  * The transcript: `TInv` says where a turn is in a batch of calls. What the repair returns
    (`Repaired`: the entries that are kept, by their rank) is described by the lemmas `RankCounts`,
    `RepairedShape` and `RepairedWhole`, with cardinalities in place of an induction over the
    sequence. `PInv`: what was read from the journal is where it was in the context. `JInv`: no call is
    open in the journal, nor in the context but for those of the batch whose tools run. `WInv`: every result
    is `Owned` by a call before it, ids are `Distinct`, and what a turn adds shares no call with the
    journal (`Apart`) and does not begin with a result (`Boundary`), which is what keeps a repaired
    transcript acceptable when a later turn appends to it.
  * `PriorStays` and `JournalStaysPaired` are about models of the chat format (`Formats = {"chat"}`):
    the cut does not find a batch of the other format (`AgentTurnSwitch`, `AgentTurnBlocks`).
    `JournalStaysPaired` is about a daemon that is not killed, as a torn append leaves a call without
    its result; `SentIsAccepted`, which does not need that, says the repair takes it out again, and
    is about models that ask by a tool (`~Embeds`, see `AgentTurnEmbedded`).
* `StatusProofs`, about `EventBus` (`TypeCorrect`, `NothingMissed`, `LogWithoutGaps`, `SourcesInOrder`):
  `NoEventMissed` is inductive together with `LogIsTail`; the order needs that the event in a
  publisher's hands is its last one (`LastInHand`). About `LiveStatus` (`LiveTypeCorrect`, `IdleWhenQuiet`,
  `SoloTurnShown`, `CountEndsWithTurn`): the counts a turn added are owed by it until it takes them back, for
  turns that overlap over a close.
* `SpawnTreeProofs` (`TypeCorrect`, `TakenOnTheWay`, `RestartFindsChildren`, `NeverOrphaned`,
  `DirsKept`), for any finite set of names and any number of spawns, closes and restarts.
  * `TypeCorrect` and `TakenOnTheWay` hold of every overlap, failure and reuse of a name. `Kin` says that
    in the rest of a plan every topic but the last is ahead of the one that was its parent when the
    plan was made. The subtree is a least closed set, so what is in it has its parent in it
    (`SubtreeParents`), a topic that is its own descendant included, and the plan is an order of
    it, children first, with the topic itself at its end (`PlanShape`).
  * The others are about spawns and closes one at a time (`~Races`) under names not used
    since the daemon started (`~Reuses`), and all but `RestartFindsChildren` about removals that succeed
    (`~Fails`); a restart may come anywhere. None of the hypotheses can be dropped (TLC finds the property violated
    without it), but for one: whether `DirKept` needs `~Reuses` is open. The proof does, as its ranks are
    those of a tree, but TLC finds no violation with three names used again in up to four spawns,
    four closes and two restarts.
  * `LInv` is what is on disk: whatever has a parent has the breadcrumb a restart looks for (`Crumbed`),
    and the name of a child to be made is `Fresh`. `TreeInv`: every child is granted to its parent but for the
    one in the hands of a spawn or a close (`Granting`), children come after their parents in some rank
    (`Ranked`), and in the rest of a close every child is ahead of its parent (`Planned`).
  * `DirInv`: the home a spawn in hand will give its child is one its parent has a claim on (`Making`),
    and a topic marked closed that is there again shares at most the
    directory of a parent that is pinned (`Marked`). When a close removes a home it asks only about
    topics that are not marked closed; that no other works there is an argument by the least rank
    (`NobodyThere`): a marked one would share the home with its parent, which would share it too.
  * The attempt to prove `DirKept` is what showed that the model let a topic spawn that nobody had opened
    since the start: its child, still marked closed from an earlier topic of its name, then lost
    their directory to the close of the home's owner, as no pin of the parent held it. In the code
    a spawn runs in a turn of the parent, which is pinned when its worker starts
    (`topic_manager/queue.rs:386`); `SpawnBegin` now has that guard.
  * What excuses the close of a topic without a registration (`Unasked`) came out of the breadcrumb that
    `Open` does not write while the name is frozen: after a restart such a topic is not registered, and
    its close removes its whole directory without a look at who else works there.
* `MailMonitorProofs` (`TypeCorrect`, `CursorInEpoch`, `TwiceExcused`, `NoneSkipped`), of a server that
  reports UIDVALIDITY (`Reports`). The heart of `IInv` is
  `Recorded`: a mail of this epoch that was handed over is known from the memory while the monitor
  runs and from the files if it were killed now, through the append, the compaction, the torn
  state file of a save and the cursor that covers it. It needs that the file is never ahead of the
  memory (`FileBehind`), that what is fetched is above the cursor (`Above`) and that a check stays in
  its epoch (`Selected`). The proof attempt is what showed that two failed steps of a reset (the
  removal of the old file, then the write of the new epoch) let a later start read the old epoch
  back and void the UIDs of the new one; `TwiceOnlyUntracked` names that case. For `NoneSkipped`,
  `Followed` adds that the next mail comes above every cursor of its epoch (`Newer`), that a UID
  which makes the monitor skip a mail is of one handed over or was carried over (`KnownSettled`), and
  that a batch holds all it has to look at (`BatchHasRest`), so that the cursor may follow it.
* `KfIntakeProofs` (`TypeCorrect`, `NonePassedOver`, `TwiceExcused`, `QuietSaved`). `Passed` extends
  `NothingPassedOver` to what a task has behind it in its page, what a flush will write and what the
  dedup store knows; `SecondExcused` compares two tasks that hand on the same message.
* `GithubPollProofs` (`TypeCorrect`, `NoneMissedBetween`, `TwiceExcused`, `TriggerOnce`,
  `OpenNeverEnds`), for any repository, sizes of pages and key files, failures and kills. `Tracked` and
  `Told` say that a key is in memory and in the file, about to be, or was lost; the lost ones are
  counted where a write, a read, a compaction or a kill loses them. `Listed` follows a comment from
  its page to where `last_poll` passes it. For `OpenNeverEnds`, `Opened` follows an issue through the
  pages: while the repository stays the same, the pages that were read hold every open issue whose
  rank is below theirs (`RankBelow`, `PagesFilled`), so a complete list misses only closed ones.

Only model-checked: the liveness properties (`AcceptedSettles`, `StoppedWorkersEnd`,
`ShutdownCompletes`, `TurnEnds`, `EventsArrive`, `MessagesSettle` and both `CatchesUp`), because the prover
handles neither fairness nor `ENABLED`. What the theorems with a hypothesis say nothing about is
checked, or refuted, by the configurations named with them.

## Where the code and its documentation differ

Each configuration below makes TLC show one sentence of the documentation, or one property one
would expect, that the code does not keep. Run them with
`tlc -config <name>.cfg <module>.tla`; each ends in a counterexample of the property.

| configuration | property | code | what happens |
|---|---|---|---|
| `TopicQueueSequential` | `SequentialPerTopic` | `jyc-core/src/topic_manager/queue.rs:243` | after a close the next message spawns a second worker (create_and_enqueue) while the cancelled one still finishes its turn, so two turns of one topic run at once; src/DESIGN.md:1912 says: **One worker per topic** — Sequential processing (order matters for conversation coherence) |
| `TopicQueuePermit` | `EmptyQueueHoldsNoPermit` | `jyc-core/src/topic_manager/queue.rs:426` | the template-mismatch branch continues the loop with _permit still bound and then waits on an empty queue, holding one of the max_concurrent_topics permits; src/DESIGN.md:132 says: Topic queue empty + no pending → release permit, task exits |
| `TopicQueueFreeze` | `FreezeLiftedByLaterWorker` | `jyc-core/src/topic_manager/queue.rs:346` | clear_closed runs when the worker gets its first permit, which a worker spawned before the close may win after it; jyc-core/src/topic_manager/queue.rs:372 says: `clear_closed` only runs for a worker that starts *after* the close. |
| `TopicQueueForward` | `ShutdownReturns` | `jyc-core/src/topic_manager/lifecycle.rs:30` | shutdown awaits every worker handle with worker_handles locked; a turn that meanwhile sends to a topic without a worker blocks in create_and_enqueue on the same lock, and neither ends; src/DESIGN.md:1720 says: **Graceful shutdown**: `CancellationToken` propagates to all workers and monitors |
| `TopicQueueOrphan` | `CloseReachesWorkers` | `jyc-core/src/topic_manager/lifecycle.rs:573` | the close removes the token under one lock and the sender under another; a worker respawned in between, and its later replacement, leave a live worker that no token names; jyc-core/src/topic_manager/lifecycle.rs:562 says: Cancel the per-topic token so the worker + event listener exit promptly |
| `ReplyDeliveryQuestion` | `QuestionSentOnce` | `jyc-agent/src/agent_loop/mod.rs:1096` | an undelivered question is both left in the relay by deliver_reply, where the watcher of this or of a later turn sends it, and returned as turn_text, which the worker sends (and does not clear the relay); jyc-agent/src/agent_loop/mod.rs:246 says: Empty whenever the delivery worked, and never sent twice |
| `ReplyDeliveryDirect` | `DirectReplySentOnce` | `jyc-core/src/topic_manager/worker/mod.rs:818` | the flag file alone decides that the reply is still to be delivered, and the text comes from the result: a flag left by an earlier heartbeat or narration of the turn re-sends a final reply that went out directly; jyc-core/src/topic_manager/worker/mod.rs:807 says: delivery, signal files never written). |
| `ReplyDeliveryQueued` | `QueuedFinalTried` | `jyc-core/src/pending_delivery.rs:226` | the relay has one slot: the watcher removes the files after it delivered an earlier text, and with them a reply that was queued meanwhile; the worker then finds no flag and takes the reply for delivered; jyc-agent/src/tools/mod.rs:64 says: file relay for the worker/watcher to deliver. |
| `ReplyDeliverySkeleton` | `ClosedStateStaysDeleted` | `jyc-agent/src/tools/mod.rs:134` | is_closed is read before the state directory is created and the files are written; a close in between deletes the directory, and the relay brings it back; jyc-agent/src/tools/mod.rs:123 says: reply queued into a fresh copy of it would bring back the |
| `AgentTurnEmbedded` | `SentAccepted` | `jyc-agent/src/agent_loop/mod.rs:722` | the embedded question's result is pushed as a tool result with the id embedded-ask-user, after an assistant message without tool calls; the next call sends it, the journal keeps it, and the repair looks only for calls without results. The message before it has no tool_calls, so the exchange is not the real tool's; jyc-agent/src/agent_loop/mod.rs:673 says: — deliver the prose first, then run the question exactly as the |
| `AgentTurnBlocks` | `JournalPaired` | `jyc-agent/src/agent_loop/mod.rs:1030` | the cut looks for the field tool_calls, which an assistant message of the Anthropic format (tool_use blocks) does not have, so the dangling message is persisted and only the repair on the next load hides it; jyc-agent/src/agent_loop/mod.rs:1022 says: the last assistant message to prevent persisting corrupted context. |
| `AgentTurnSwitch` | `PriorKept` | `jyc-agent/src/agent_loop/mod.rs:1039` | after a change of the model the journal's prefix may hold chat-format tool calls while this turn's are blocks: the search finds the older one, cuts the persisted prefix out of memory, drops this turn's messages and appends nothing; jyc-agent/src/agent_loop/mod.rs:1040 says: The truncation never reaches into the persisted prefix in |
| `AgentTurnTwice` | `NoSecondAnswer` | `jyc-agent/src/tools/builtin/send_to_topic.rs:135` | the target is recorded only after the await of the send; the cancel's select drops the future between the two, so the guard takes the request for unanswered and forwards the turn's words on top of the reply; jyc-agent/src/service/mod.rs:190 says: nothing is forwarded on top of that. What the turn sent is what tells |
| `EventBusOnce` | `DeliveredOnce` | `jyc-core/src/topic_event_bus.rs:107` | publish releases the log before it forwards: a subscriber that registers in between is fed the event by the replay and again by the forwarding; jyc-core/src/topic_event_bus.rs:124 says: subscribers list. This prevents duplicate delivery: the replay goes |
| `SpawnTreeRace` | `NoOrphan` | `jyc-core/src/topic_manager/lifecycle.rs:104` | the subtree is computed once, before the first topic of it is closed; a child that a running turn of the parent spawns after that outlives it; jyc-core/src/topic_manager/lifecycle.rs:87 says: The topic's subagents close with it |
| `SpawnTreeCycle` | `ClosureTerminates` | `jyc-core/src/topic_manager/lifecycle.rs:139` | one parent each does not rule out a cycle: a child that survives its parent's close (its removal failed) keeps the breadcrumb, the restart rebuilds the grant from it, and it may spawn a topic of that name; jyc-core/src/topic_manager/lifecycle.rs:129 says: A subagent has exactly one parent (the breadcrumb is a single name), so this terminates. |
| `SpawnTreeDir` | `DirKept` | `jyc-core/src/topic_manager/lifecycle.rs:604` | the holder check takes a child of the closing topic for closed, and the cascade goes on when the child's close failed: the directory goes while the child, alive again, works in it; jyc-core/src/topic_manager/lifecycle.rs:73 says: one **another topic works in or lives inside** (a `-s` child, a fork, |
| `MailMonitorEpoch` | `EpochVoidsUids` | `jyc-channels/src/imap/monitor.rs:189` | reset removes .state.json and then .processed-uids.txt; a kill in between leaves no epoch to compare and the old UIDs, which the next start reads and Record keeps: a mail of the new mailbox with such a UID is skipped as processed; jyc-channels/src/imap/monitor.rs:189 says: A changed UIDVALIDITY voids every stored UID |
| `MailMonitorTorn` | `StateReadable` | `jyc-channels/src/state_manager.rs:94` | save truncates .state.json and writes it; a kill in between leaves a file that load cannot parse, so initialize fails at every start, and --reset, which would remove the file, comes after initialize (jyc-channels/src/pipe/email.rs:114); jyc-channels/src/pipe/email.rs:67 says: reset clears the |
| `KfIntakeDuplicate` | `NoDuplicate` | `jyc-channels/src/wecom/kf_inbound.rs:244` | is_duplicate and mark_seen take the store's lock one after the other, so two tasks of one account both find a message new and both hand it on; jyc-channels/src/wecom/kf_dedup.rs:4 says: Dedup by `msgid` prevents duplicate processing of the same message. |
| `KfIntakePersist` | `CursorPersists` | `jyc-channels/src/wecom/kf_cursor.rs:134` | a flush clears the mark after its write, also that of a cursor set since it serialised: the later cursor stays off disk until another is set, its own task's flush finds nothing to do; jyc-channels/src/wecom/kf_cursor.rs:66 says: The actual disk write is deferred to the next `flush_to_disk()` call. |
| `GithubPollDeaf` | `ClosuresReported` | `jyc-channels/src/github/inbound/poll.rs:389` | a closure is remembered by the issue's number alone until ten thousand are, so the second closure of an issue that was opened again closes none of its topics; jyc-channels/src/github/inbound/poll.rs:445 says: Close every topic the pipe adapter routed or would route for this number |
| `GithubPollIgnored` | `IgnoredWereClosed` | `jyc-channels/src/github/inbound/poll.rs:284` | the open issues are listed before the comments: a comment on an issue opened in between is tracked as processed and never handed on; jyc-channels/src/github/inbound/poll.rs:282 says: Skip comments on closed issues/PRs |
| `GithubPollBuffer` | `BufferSuffices` | `jyc-channels/src/github/inbound/poll.rs:458` | last_poll is the end of the cycle less 30 seconds, not its beginning: in a cycle that takes longer, a comment made after the list is before last_poll and no cycle lists it; jyc-channels/src/github/inbound/poll.rs:456 says: subtract 30s buffer to avoid missing events |
| `GithubPollOpen` | `GenuinelyClosed` | `jyc-channels/src/github/client.rs:171` | list_all_open_issues reads up to five pages, the last updated first, one request after the other: an issue that is updated between them, or comes forward for one that was closed, moves to a page already read and is in none, so its closure is reported and its topics are closed while it is open (and so is one beyond the 500 the pages hold); jyc-channels/src/github/inbound/poll.rs:373 says: if an issue was in the cache but is not in the current open set, it was genuinely closed |
| `LiveStatusShown` | `InFlightShown` | `jyc-core/src/topic_manager/lifecycle.rs:178` | a close forgets the status before it deletes anything, and a close that fails does not put it back: the turn that goes on is shown as idle; jyc-core/src/topic_manager/live_status.rs:9 says: a turn in flight is `Processing` |
| `LiveStatusClosed` | `ClosedForgotten` | `jyc-core/src/topic_manager/live_status.rs:131` | set_queued, and set_processing, make an entry for a topic the close removed, and end_turn_if_known then finds it and marks the closed topic failed; jyc-core/src/topic_manager/lifecycle.rs:176 says: forget its live status, so the map does not keep an entry for a topic that no longer exists |
| `LiveStatusInherited` | `NoInheritedFailure` | `jyc-core/src/topic_manager/live_status.rs:195` | end_turn_if_known takes the name, not the turn: a turn of the closed topic that ends late finds the entry of the topic opened since and marks its running turn as over and failed; jyc-core/src/topic_manager/live_status.rs:193 says: a name reused later would inherit that failure |

Some of these are choices rather than mistakes (a cancelled turn's worker is let finish; at most one
text in the relay); they are listed because a reader of the documentation would rely on the
opposite.

## What is not modelled

`PROJECT.json` lists every part with the reason. In short:

* I/O and formats: the model providers, the MCP client, the built-in tools, the channels' protocols,
  the dashboard and the inspect server. Their calls into the modelled parts are the inputs of the
  modules: a send succeeds or fails, a call returns text or tool calls or an error, a message
  arrives.
* Pure functions: the router, command parsing, configuration, pricing, validation.
* Logs and metrics, which no control depends on.
* Inside the modelled parts: purging a directory, pins outside the agents root, nested homes and
  `/fork` (`SpawnTree`); the sliding window, token and cost counters (`AgentTurn`); attachments and
  the warning about a lost reply, sends that fail after they reached the channel, and reads of
  half-written files (`ReplyDelivery`); files under a topic's directory (`TopicQueue`); the fetch of
  a mail's body, IDLE and the length of the backoff (`MailMonitor`); the access token and other
  accounts (`KfIntake`); a line of a key file that was cut short, the edits' own
  ids, roles and the pipe that maps an issue to topics, and Gitea's poller (`GithubPoll`); the other topics of the map (`LiveStatus`).

## The plan

The order was: what every message goes through first (`TopicQueue`, `TopicService`), then what a
turn does with it (`ReplyDelivery`, `AgentTurn`), what watches it (`EventBus`), what ties topics
together (`SpawnTree`), the intakes that keep a cursor over crashes (`MailMonitor`, `KfIntake`,
`GithubPoll`) and what is shown of it all (`LiveStatus`). What is left, in order:

| module | models | questions and bounds |
|---|---|---|
| `AccessGrants` | `jyc-types/src/access_grants.rs` with the snapshot and drop around a turn | a one-turn grant lasts for exactly one turn that could use it; 2 paths, 2 turns |
| `ContextWindow` | the load of `jyc-agent/src/session.rs` (window by depth, hidden ranges) | the window never starts inside a batch and keeps the system entries, against a reference definition; journals up to 6 entries |
| `ChatSeq` | `chat_seq.rs` | no number is given twice; 1 restart, 1 change of day |
| `Retry` | `agent_loop/retry.rs` | attempts stay within the class's budget, a cancel ends the wait; 5 attempts |
| pipes, orchestrator | `pipe/hub.rs`, `channel_orchestrator.rs` | what a slow reader loses; who waits for a reload |

Proofs left: one abstract specification of an intake with a cursor (what is passed is settled),
which `MailMonitor`, `KfIntake` and `GithubPoll` each implement, and the properties of the modules above.
