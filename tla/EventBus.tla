------------------------------ MODULE EventBus ------------------------------
(***************************************************************************)
(* The event bus of one topic.  A publisher logs its event under one lock   *)
(* and forwards it under another; a late subscriber is fed the log and      *)
(* joins the list in one hold of the second lock.  What is between the two  *)
(* locks of a publisher is what makes the bus interesting.                  *)
(*                                                                          *)
(* An event is its number in the order of the log.  A publish runs to its   *)
(* end; the receiver of a subscriber may be dropped at any time.            *)
(***************************************************************************)
EXTENDS Integers, Sequences, FiniteSets

CONSTANTS
    Publishers,   \* tasks that publish: agent loop, watcher, worker, intake
    Subscribers,  \* receivers, each of which subscribes once
    LogCapacity,  \* EVENT_LOG_CAPACITY
    MaxEvents     \* bound: events published

ASSUME LogAssumption == LogCapacity \in Nat \ {0}
ASSUME BoundAssumption == MaxEvents \in Nat

Event == 1 .. MaxEvents
None == 0

VARIABLES
    log,      \* the last events, oldest first
    count,    \* events logged so far
    author,   \* history: event -> its publisher
    stage,    \* publisher -> the event it has logged and not forwarded, or None
    members,  \* subscribers in the bus's list
    open,     \* subscribers whose receiver is alive
    joined,   \* history: subscribers that have subscribed
    fed,      \* subscriber -> all that went into its channel, in order
    taken,    \* subscriber -> how much of it was received
    lost,     \* history: subscriber -> events dropped at its full channel
    first     \* history: subscriber -> the oldest event of the log it was fed

vars == <<log, count, author, stage, members, open, joined, fed, taken, lost, first>>

\* The capacity of every subscriber's channel.
ChannelCapacity == 2 * LogCapacity

Queued(s) == Len(fed[s]) - taken[s]
Full(s) == Queued(s) >= ChannelCapacity

Elements(seq) == {seq[i] : i \in DOMAIN seq}

Init ==
    /\ log = <<>> /\ count = 0 /\ author = <<>>
    /\ stage = [p \in Publishers |-> None]
    /\ members = {} /\ open = {} /\ joined = {}
    /\ fed = [s \in Subscribers |-> <<>>]
    /\ taken = [s \in Subscribers |-> 0]
    /\ lost = [s \in Subscribers |-> {}]
    /\ first = [s \in Subscribers |-> 1]

----------------------------------------------------------------------------
\* The log with a new event: the oldest one goes when it is full.
Logged(e) == IF Len(log) >= LogCapacity THEN Append(Tail(log), e) ELSE Append(log, e)

\* publish: the event goes into the log, under the log's lock alone.
LogEvent(p) ==
    /\ stage[p] = None /\ count < MaxEvents
    /\ log' = Logged(count + 1)
    /\ count' = count + 1
    /\ author' = Append(author, p)
    /\ stage' = [stage EXCEPT ![p] = count + 1]
    /\ UNCHANGED <<members, open, joined, fed, taken, lost, first>>

\* Mutant of Takers.
TakersWhileAllKeepUp == {s \in members \cap open : \A q \in members \cap open : ~Full(q)}

\* The channels that take a forwarded event, and those too full for it.
Takers == {s \in members \cap open : ~Full(s)}
Laggards == {s \in members \cap open : Full(s)}

\* forward_to_subscribers: closed receivers leave the list, the others get the
\* event unless their channel is full.
Forward(p) ==
    /\ stage[p] # None
    /\ members' = members \cap open
    /\ fed' = [s \in Subscribers |->
                 IF s \in Takers THEN Append(fed[s], stage[p]) ELSE fed[s]]
    /\ lost' = [s \in Subscribers |->
                 IF s \in Laggards THEN lost[s] \cup {stage[p]} ELSE lost[s]]
    /\ stage' = [stage EXCEPT ![p] = None]
    /\ UNCHANGED <<log, count, author, open, joined, taken, first>>

\* Mutants of Replay.
ReplayNothing == <<>>
ReplayReversed == [i \in 1 .. Len(log) |-> log[Len(log) + 1 - i]]

\* What a new subscriber is fed: the log, as far as its channel takes it.
Replay == IF Len(log) <= ChannelCapacity THEN log ELSE SubSeq(log, 1, ChannelCapacity)

\* subscribe: replay and registration are one hold of the list's lock.
Subscribe(s) ==
    /\ s \notin joined
    /\ joined' = joined \cup {s}
    /\ fed' = [fed EXCEPT ![s] = Replay]
    /\ first' = [first EXCEPT ![s] = count - Len(log) + 1]
    /\ members' = members \cup {s}
    /\ open' = open \cup {s}
    /\ UNCHANGED <<log, count, author, stage, taken, lost>>

Receive(s) ==
    /\ s \in open /\ Queued(s) > 0
    /\ taken' = [taken EXCEPT ![s] = @ + 1]
    /\ UNCHANGED <<log, count, author, stage, members, open, joined, fed, lost, first>>

\* The receiver is dropped; the bus finds out when it next forwards.
Leave(s) ==
    /\ s \in open
    /\ open' = open \ {s}
    /\ UNCHANGED <<log, count, author, stage, members, joined, fed, taken, lost, first>>

Next ==
    \/ \E p \in Publishers : LogEvent(p) \/ Forward(p)
    \/ \E s \in Subscribers : Subscribe(s) \/ Receive(s) \/ Leave(s)

\* Publishers are tasks that only wait for locks held for a moment, and a
\* subscriber reads its channel in a loop.
Fairness ==
    /\ \A p \in Publishers : WF_vars(Forward(p))
    /\ \A s \in Subscribers : WF_vars(Receive(s))

Spec == Init /\ [][Next]_vars
FairSpec == Spec /\ Fairness

----------------------------------------------------------------------------
TypeOK ==
    /\ count \in 0 .. MaxEvents
    /\ log \in Seq(Nat) /\ Len(log) <= LogCapacity
    /\ author \in Seq(Publishers)
    /\ stage \in [Publishers -> 0 .. MaxEvents]
    /\ members \subseteq joined /\ open \subseteq members
    /\ joined \subseteq Subscribers
    /\ fed \in [Subscribers -> Seq(Nat)]
    /\ taken \in [Subscribers -> Nat]
    /\ lost \in [Subscribers -> SUBSET Nat]
    /\ first \in [Subscribers -> Nat]

\* Events logged by a publisher that has yet to forward them.
InFlight == {stage[p] : p \in Publishers} \ {None}

(* A subscriber misses nothing: from the oldest event the log held when it   *)
(* subscribed on, every event went into its channel, was dropped because the *)
(* channel was full, or is in the hands of its publisher.  This is where log *)
(* and list could fail to meet: an event that is neither replayed nor        *)
(* forwarded (publish and subscribe of SimpleThreadEventBus).                *)
NoEventMissed ==
    \A s \in open : \A e \in first[s] .. count :
        e \in Elements(fed[s]) \cup lost[s] \cup InFlight

(* The log is exactly the last events, as many as fit, in order: what a late *)
(* subscriber is fed has no gap (publish).                                   *)
LogIsTail ==
    /\ Len(log) = IF count < LogCapacity THEN count ELSE LogCapacity
    /\ \A i \in 1 .. Len(log) : log[i] = count - Len(log) + i

(* What one publisher publishes never arrives out of order, although the two *)
(* locks let other publishers' events in between (publish).                  *)
SourceOrder ==
    \A s \in Subscribers : \A i, j \in DOMAIN fed[s] :
        (i < j /\ author[fed[s][i]] = author[fed[s][j]]) => fed[s][i] <= fed[s][j]

(* Every event logged while a subscriber listens is received by it, unless   *)
(* it was dropped or the subscriber goes away (publish, forward).            *)
EventsArrive ==
    \A s \in Subscribers : \A e \in Event :
        (s \in open /\ e <= count /\ e >= first[s]) ~>
            (s \notin open \/ e \in lost[s] \cup {fed[s][i] : i \in 1 .. taken[s]})

(* topic_event_bus.rs:123: replay before registration "prevents duplicate    *)
(* delivery", so no subscriber gets an event twice.                          *)
DeliveredOnce ==
    \A s \in Subscribers : \A i, j \in DOMAIN fed[s] :
        fed[s][i] = fed[s][j] => i = j

============================================================================
