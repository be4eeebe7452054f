-------------------------- MODULE TopicQueueProofs --------------------------
(***************************************************************************)
(* Invariance proofs for TopicQueue, for every number of topics, messages, *)
(* permits and every capacity.                                             *)
(***************************************************************************)
EXTENDS TopicQueue, SequenceTheorems, FiniteSetTheorems, TLAPS

-----------------------------------------------------------------------------
(* Counting the workers that hold a permit.                                 *)

LEMMA WorkerFinite == IsFiniteSet(Worker)
BY FS_Interval, BoundsAssumption DEF Worker, Message

LEMMA HoldersFinite == IsFiniteSet(Holders) /\ Cardinality(Holders) \in Nat
<1>1. Holders \subseteq Worker  BY DEF Holders
<1>2. IsFiniteSet(Holders)  BY <1>1, WorkerFinite, FS_Subset
<1> QED  BY <1>2, FS_CardinalityType

\* A worker that holds a permit leaves room for it among the free ones.
LEMMA HolderLeavesRoom ==
    ASSUME TypeOK, PermitsBalanced, NEW w \in Worker, pc[w] \in Holding
    PROVE  permits + 1 \in 0 .. MaxConcurrent
<1>1. w \in Holders  BY DEF Holders
<1>2. Cardinality(Holders) # 0  BY <1>1, HoldersFinite, FS_EmptySet
<1>3. permits \in Nat  BY CapacityAssumption DEF TypeOK
<1> QED  BY <1>2, <1>3, HoldersFinite, CapacityAssumption DEF PermitsBalanced

\* Moving one worker's pc moves the count by at most that worker.
LEMMA HoldersStep ==
    ASSUME TypeOK, NEW w \in Worker, NEW l, pc' = [pc EXCEPT ![w] = l]
    PROVE  Cardinality(Holders') = Cardinality(Holders)
              + (IF l \in Holding THEN 1 ELSE 0)
              - (IF pc[w] \in Holding THEN 1 ELSE 0)
<1>1. \A v \in Worker : pc'[v] = IF v = w THEN l ELSE pc[v]  BY DEF TypeOK
<1>2. CASE l \in Holding /\ pc[w] \notin Holding
  <2>1. Holders' = Holders \cup {w} /\ w \notin Holders  BY <1>1, <1>2 DEF Holders
  <2>2. Cardinality(Holders') = Cardinality(Holders) + 1
        BY <2>1, HoldersFinite, FS_AddElement
  <2> QED  BY <1>2, <2>2, HoldersFinite
<1>3. CASE l \notin Holding /\ pc[w] \in Holding
  <2>1. Holders' = Holders \ {w} /\ w \in Holders  BY <1>1, <1>3 DEF Holders
  <2>2. Cardinality(Holders') = Cardinality(Holders) - 1
        BY <2>1, HoldersFinite, FS_RemoveElement
  <2> QED  BY <1>3, <2>2, HoldersFinite
<1>4. CASE l \in Holding <=> pc[w] \in Holding
  <2>1. Holders' = Holders  BY <1>1, <1>4 DEF Holders
  <2> QED  BY <1>4, <2>1, HoldersFinite
<1> QED  BY <1>2, <1>3, <1>4

-----------------------------------------------------------------------------
(* Every action keeps the types.                                            *)

LEMMA SpawnedAreWorkers == TypeOK => Spawned \subseteq Worker
BY BoundsAssumption DEF TypeOK, Spawned, Worker, Message

LEMMA InitTypeOK == Init => TypeOK
BY BoundsAssumption, CapacityAssumption, TopicAssumption
   DEF Init, TypeOK, Worker, Message, None, Router, AllKinds, Fates, Holding, InTurn, Waiting

\* One worker's channel gets new contents that fit its capacity.
LEMMA ChanUpdate ==
    ASSUME TypeOK, NEW w \in Worker, NEW s \in Seq(Message), Len(s) <= QueueSize,
           chan' = [chan EXCEPT ![w] = s]
    PROVE  /\ chan' \in [Worker -> Seq(Message)]
           /\ \A v \in Worker : Len(chan'[v]) <= QueueSize
<1>1. /\ chan \in [Worker -> Seq(Message)]
      /\ \A v \in Worker : Len(chan[v]) <= QueueSize
  BY DEF TypeOK
<1>2. \A v \in Worker : chan'[v] = IF v = w THEN s ELSE chan[v]
  BY <1>1
<1> QED  BY <1>1, <1>2

\* The parts of the type invariant that most steps leave alone: the maps of the
\* manager, what a close and the shutdown keep, what a send keeps.
MapsOK ==
    /\ queues \in [Topic -> Worker \cup {None}]
    /\ tokens \in [Topic -> Worker \cup {None}]
    /\ workers \in 0 .. MaxMessages
    /\ topicOf \in [Worker -> Topic]
ClosesOK ==
    /\ closed \subseteq Topic
    /\ closePc \in [Topic -> {"none", "token", "queue"}]
    /\ closer \in [Topic -> Worker \cup {None}]
    /\ closes \in [Topic -> 0 .. MaxCloses]
    /\ stale \subseteq Worker
    /\ downPc \in {"up", "tokens", "queues", "handles", "await", "down"}
    /\ awaited \subseteq Worker
SendsOK ==
    /\ forward \in [Worker -> Message \cup {None}]
    /\ lockHolder \in Worker \cup {None, Router}
    /\ sent \in 0 .. MaxMessages
    /\ msg \in [Message -> [topic : Topic, kind : AllKinds]]

LEMMA QuietMaps == ASSUME TypeOK, UNCHANGED queueVars PROVE MapsOK'
<1>1. UNCHANGED <<queues, tokens, workers, topicOf>>  BY DEF queueVars
<1> QED  BY <1>1 DEF TypeOK, MapsOK

LEMMA QuietCloses == ASSUME TypeOK, UNCHANGED <<closeVars, downVars>> PROVE ClosesOK'
<1>1. UNCHANGED <<closed, closePc, closer, closes, stale, downPc, awaited>>
  BY DEF closeVars, downVars
<1> QED  BY <1>1 DEF TypeOK, ClosesOK

LEMMA QuietSends == ASSUME TypeOK, UNCHANGED sendVars PROVE SendsOK'
<1>1. UNCHANGED <<forward, lockHolder, sent, msg>>  BY DEF sendVars
<1> QED  BY <1>1 DEF TypeOK, SendsOK

\* The type invariant after a step, from its parts.
LEMMA Assemble ==
    ASSUME MapsOK', ClosesOK', SendsOK',
           pc' \in [Worker -> {"unborn", "idle", "done"} \cup Holding \cup Waiting],
           chan' \in [Worker -> Seq(Message)],
           \A v \in Worker : Len(chan'[v]) <= QueueSize,
           \A v \in Worker : Len(inject'[v]) <= InjectSize,
           item' \in [Worker -> Message \cup {None}],
           buffered' \in [Worker -> Seq(Message)],
           inject' \in [Worker -> Seq(Message)],
           cancelled' \subseteq Worker,
           permits' \in 0 .. MaxConcurrent,
           waiters' \in Seq(Worker),
           fate' \in [Message -> Fates],
           cancels' \in 0 .. MaxCancels
    PROVE  TypeOK'
  BY DEF TypeOK, MapsOK, ClosesOK, SendsOK

\* A step that leaves alone the maps, the queues, the permits, the closes and the
\* shutdown keeps the types of all of them.
LEMMA QuietType ==
    ASSUME TypeOK,
           UNCHANGED <<queueVars, chan, buffered, inject, cancelled, permitVars,
                       closeVars, downVars, cancels>>
    PROVE  /\ MapsOK' /\ ClosesOK'
           /\ chan' \in [Worker -> Seq(Message)]
           /\ \A v \in Worker : Len(chan'[v]) <= QueueSize
           /\ \A v \in Worker : Len(inject'[v]) <= InjectSize
           /\ buffered' \in [Worker -> Seq(Message)]
           /\ inject' \in [Worker -> Seq(Message)]
           /\ cancelled' \subseteq Worker
           /\ permits' \in 0 .. MaxConcurrent
           /\ waiters' \in Seq(Worker)
           /\ cancels' \in 0 .. MaxCancels
<1>1. UNCHANGED <<chan, buffered, inject, cancelled, permits, waiters, cancels>>
  BY DEF permitVars
<1>2. MapsOK' /\ ClosesOK'
  BY QuietMaps, QuietCloses
<1> QED  BY <1>1, <1>2 DEF TypeOK

\* What a call of try_enqueue does to the manager's maps and to the message.
LEMMA TryEnqueueType ==
    ASSUME TypeOK, NEW c \in Worker \cup {Router}, NEW m \in Message, NEW t \in Topic,
           TryEnqueue(c, m, t)
    PROVE  /\ queues' \in [Topic -> Worker \cup {None}]
           /\ tokens' \in [Topic -> Worker \cup {None}]
           /\ workers' \in 0 .. MaxMessages
           /\ topicOf' \in [Worker -> Topic]
           /\ pc' \in [Worker -> {"unborn", "idle", "done"} \cup Holding \cup Waiting]
           /\ chan' \in [Worker -> Seq(Message)]
           /\ \A w \in Worker : Len(chan'[w]) <= QueueSize
           /\ waiters' \in Seq(Worker)
           /\ lockHolder' \in Worker \cup {None, Router}
           /\ fate' \in [Message -> Fates]
<1>0. Pruned \in [Topic -> Worker \cup {None}]  BY DEF Pruned, TypeOK
<1>1. CASE Accept(m, t)
  <2>1. queues[t] \in Worker  BY <1>1 DEF Accept, SenderOpen, TypeOK
  <2>2. chan' = [chan EXCEPT ![queues[t]] = Append(@, m)]  BY <1>1 DEF Accept
  <2>3. Append(chan[queues[t]], m) \in Seq(Message)
        /\ Len(Append(chan[queues[t]], m)) = Len(chan[queues[t]]) + 1
        BY <2>1, AppendProperties DEF TypeOK
  <2>4. /\ chan' \in [Worker -> Seq(Message)]
        /\ \A w \in Worker : Len(chan'[w]) <= QueueSize
    <3>1. Len(chan[queues[t]]) < QueueSize  BY <1>1 DEF Accept
    <3>2. Len(chan[queues[t]]) \in Nat  BY <2>1, LenProperties DEF TypeOK
    <3>3. Len(Append(chan[queues[t]], m)) <= QueueSize
      BY <2>3, <3>1, <3>2, CapacityAssumption
    <3> QED  BY <2>1, <2>2, <2>3, <3>3, ChanUpdate
  <2> QED  BY <1>0, <1>1, <2>4 DEF Accept, TypeOK, Fates
<1>2. CASE QueueFull(m, t)
  BY <1>0, <1>2 DEF QueueFull, TypeOK, Fates, Settled
<1>3. CASE CreateAndEnqueue(c, m, t)
  <2> DEFINE w == workers + 1
  <2>1. w \in Worker /\ w \in 0 .. MaxMessages
        BY <1>3, BoundsAssumption DEF CreateAndEnqueue, Worker, Message
  <2>2. <<m>> \in Seq(Message) /\ Len(<<m>>) = 1  OBVIOUS
  <2>3. /\ chan' \in [Worker -> Seq(Message)]
        /\ \A v \in Worker : Len(chan'[v]) <= QueueSize
    <3>1. chan' = [chan EXCEPT ![workers + 1] = <<m>>]  BY <1>3 DEF CreateAndEnqueue
    <3>2. 1 <= QueueSize  BY CapacityAssumption
    <3> QED  BY <2>1, <2>2, <3>1, <3>2, ChanUpdate
  <2>4. waiters' \in Seq(Worker)
    <3>1. waiters' = Append(waiters, workers + 1)  BY <1>3 DEF CreateAndEnqueue
    <3>2. waiters \in Seq(Worker) /\ workers + 1 \in Worker  BY <2>1 DEF TypeOK
    <3> QED  BY <3>1, <3>2, AppendProperties
  <2>5. tokens' \in [Topic -> Worker \cup {None}]
        BY <1>3, <2>1 DEF CreateAndEnqueue, NewToken, TypeOK
  <2> HIDE DEF w
  <2>6. /\ workers' = w /\ topicOf' = [topicOf EXCEPT ![w] = t]
        /\ queues' = [Pruned EXCEPT ![t] = w] /\ pc' = [pc EXCEPT ![w] = "start"]
        BY <1>3 DEF CreateAndEnqueue, w
  <2>7. lockHolder' \in Worker \cup {None, Router}
        BY <1>3 DEF CreateAndEnqueue
  <2>8. fate' \in [Message -> Fates]
        BY <1>3 DEF CreateAndEnqueue, TypeOK, Fates
  <2>9. pc' \in [Worker -> {"unborn", "idle", "done"} \cup Holding \cup Waiting]
        BY <2>1, <2>6 DEF TypeOK, Waiting
  <2> QED  BY <1>0, <2>1, <2>3, <2>4, <2>5, <2>6, <2>7, <2>8, <2>9 DEF TypeOK
<1> QED  BY <1>1, <1>2, <1>3 DEF TryEnqueue

LEMMA RemoveAtType ==
    ASSUME NEW S, NEW s \in Seq(S), NEW i \in 1 .. Len(s)
    PROVE  RemoveAt(s, i) \in Seq(S)
<1>1. SubSeq(s, 1, i - 1) \in Seq(S)
  <2>1. \A j \in 1 .. i - 1 : s[j] \in S  BY ElementOfSeq, LenProperties
  <2> QED  BY <2>1, SubSeqProperties
<1>2. SubSeq(s, i + 1, Len(s)) \in Seq(S)
  <2>1. \A j \in i + 1 .. Len(s) : s[j] \in S  BY ElementOfSeq, LenProperties
  <2>2. i + 1 \in Int /\ Len(s) \in Int  BY LenProperties
  <2> QED  BY <2>1, <2>2, SubSeqProperties
<1> QED  BY <1>1, <1>2, ConcatProperties DEF RemoveAt

LEMMA EnqueueTypeOK ==
    ASSUME TypeOK, NEW t \in Topic, NEW kind \in Kinds, Enqueue(t, kind)
    PROVE  TypeOK'
<1>1. sent + 1 \in Message /\ sent' \in 0 .. MaxMessages
  BY BoundsAssumption DEF Enqueue, TypeOK, Message
<1>2. msg' \in [Message -> [topic : Topic, kind : AllKinds]]
  BY <1>1, KindsAssumption DEF Enqueue, TypeOK
<1>3. TryEnqueue(Router, sent + 1, t)  BY DEF Enqueue
<1>4. UNCHANGED <<item, buffered, inject, cancelled, permits, closeVars,
                  downVars, forward, cancels>>
  BY DEF Enqueue
<1>5. /\ item' \in [Worker -> Message \cup {None}]
      /\ buffered' \in [Worker -> Seq(Message)] /\ inject' \in [Worker -> Seq(Message)]
      /\ \A v \in Worker : Len(inject'[v]) <= InjectSize
      /\ cancelled' \subseteq Worker /\ permits' \in 0 .. MaxConcurrent
      /\ forward' \in [Worker -> Message \cup {None}] /\ cancels' \in 0 .. MaxCancels
  BY <1>4 DEF TypeOK
<1>6. /\ MapsOK' /\ SendsOK'
      /\ pc' \in [Worker -> {"unborn", "idle", "done"} \cup Holding \cup Waiting]
      /\ chan' \in [Worker -> Seq(Message)]
      /\ \A v \in Worker : Len(chan'[v]) <= QueueSize
      /\ waiters' \in Seq(Worker) /\ fate' \in [Message -> Fates]
  BY <1>1, <1>2, <1>3, <1>5, TryEnqueueType DEF MapsOK, SendsOK
<1> QED  BY <1>4, <1>5, <1>6, QuietCloses, Assemble

LEMMA ForwardTypeOK ==
    ASSUME TypeOK, NEW w \in Worker, Forward(w)
    PROVE  TypeOK'
<1>1. forward[w] \in Message  BY DEF Forward, TypeOK
<1>2. msg[forward[w]].topic \in Topic  BY <1>1 DEF TypeOK
<1>3. TryEnqueue(w, forward[w], msg[forward[w]].topic)  BY DEF Forward
<1>4. forward' \in [Worker -> Message \cup {None}]  BY DEF Forward, TypeOK
<1>5. UNCHANGED <<item, buffered, inject, cancelled, permits, closeVars,
                  downVars, sent, msg, cancels>>
  BY DEF Forward
<1>6. /\ item' \in [Worker -> Message \cup {None}]
      /\ buffered' \in [Worker -> Seq(Message)] /\ inject' \in [Worker -> Seq(Message)]
      /\ \A v \in Worker : Len(inject'[v]) <= InjectSize
      /\ cancelled' \subseteq Worker /\ permits' \in 0 .. MaxConcurrent
      /\ sent' \in 0 .. MaxMessages
      /\ msg' \in [Message -> [topic : Topic, kind : AllKinds]]
      /\ cancels' \in 0 .. MaxCancels
  BY <1>5 DEF TypeOK
<1>7. /\ MapsOK' /\ SendsOK'
      /\ pc' \in [Worker -> {"unborn", "idle", "done"} \cup Holding \cup Waiting]
      /\ chan' \in [Worker -> Seq(Message)]
      /\ \A v \in Worker : Len(chan'[v]) <= QueueSize
      /\ waiters' \in Seq(Worker) /\ fate' \in [Message -> Fates]
  BY <1>1, <1>2, <1>3, <1>4, <1>6, TryEnqueueType DEF MapsOK, SendsOK
<1> QED  BY <1>5, <1>6, <1>7, QuietCloses, Assemble

LEMMA ExitTypeOK ==
    ASSUME TypeOK, PermitsBalanced, NEW w \in Worker, Exit(w)
    PROVE  TypeOK'
<1>1. permits' \in 0 .. MaxConcurrent
  <2>1. permits' = permits + (IF pc[w] \in Holding THEN 1 ELSE 0)
    BY DEF Exit
  <2>2. permits \in 0 .. MaxConcurrent
    BY DEF TypeOK
  <2>3. CASE pc[w] \in Holding
    BY <2>1, <2>3, HolderLeavesRoom
  <2>4. CASE pc[w] \notin Holding
    BY <2>1, <2>2, <2>4
  <2> QED  BY <2>3, <2>4
<1>2. waiters' \in Seq(Worker)
  BY RemoveAtType DEF Exit, LeaveWaiters, TypeOK
<1>3. fate' \in [Message -> Fates]
  BY DEF Exit, TypeOK, Fates, Settled
<1>4. /\ chan' \in [Worker -> Seq(Message)]
      /\ \A v \in Worker : Len(chan'[v]) <= QueueSize
  <2>1. <<>> \in Seq(Message) /\ Len(<<>>) <= QueueSize
    BY EmptySeq, CapacityAssumption
  <2>2. chan' = [chan EXCEPT ![w] = <<>>]  BY DEF Exit
  <2> QED  BY <2>1, <2>2, ChanUpdate
<1>5. /\ pc' \in [Worker -> {"unborn", "idle", "done"} \cup Holding \cup Waiting]
      /\ item' \in [Worker -> Message \cup {None}]
  BY DEF Exit, TypeOK
<1>6. UNCHANGED <<queueVars, buffered, inject, cancelled, closeVars, downVars,
                  sendVars, cancels>>
  BY DEF Exit
<1>7. /\ buffered' \in [Worker -> Seq(Message)] /\ inject' \in [Worker -> Seq(Message)]
      /\ \A v \in Worker : Len(inject'[v]) <= InjectSize
      /\ cancelled' \subseteq Worker /\ cancels' \in 0 .. MaxCancels
  BY <1>6 DEF TypeOK
<1> QED  BY <1>1, <1>2, <1>3, <1>4, <1>5, <1>6, <1>7, QuietMaps, QuietCloses,
            QuietSends, Assemble

LEMMA AcquireTypeOK ==
    ASSUME TypeOK, NEW w \in Worker, Acquire(w)
    PROVE  TypeOK'
<1>1. permits' \in 0 .. MaxConcurrent
  BY CapacityAssumption DEF Acquire, TypeOK
<1>2. waiters' \in Seq(Worker)
  BY HeadTailProperties DEF Acquire, TypeOK
<1>3. pc' \in [Worker -> {"unborn", "idle", "done"} \cup Holding \cup Waiting]
  BY DEF Acquire, TypeOK, Holding
<1>4. closed' \subseteq Topic
  BY DEF Acquire, TypeOK
<1>5. UNCHANGED <<queueVars, intakeVars, cancelled, closePc, closer, closes,
                  stale, downVars, sendVars, fate, cancels>>
  BY DEF Acquire
<1> QED  BY <1>1, <1>2, <1>3, <1>4, <1>5
         DEF TypeOK, queueVars, intakeVars, downVars, sendVars

LEMMA RecvTypeOK ==
    ASSUME TypeOK, NEW w \in Worker, Recv(w)
    PROVE  TypeOK'
<1>1. /\ Head(chan[w]) \in Message /\ Tail(chan[w]) \in Seq(Message)
      /\ Len(Tail(chan[w])) = Len(chan[w]) - 1
  BY HeadTailProperties DEF Recv, TypeOK
<1>2. /\ chan' \in [Worker -> Seq(Message)]
      /\ \A v \in Worker : Len(chan'[v]) <= QueueSize
  <2>1. chan' = [chan EXCEPT ![w] = Tail(chan[w])]  BY DEF Recv
  <2>2. Len(chan[w]) \in Nat /\ Len(chan[w]) <= QueueSize
    BY LenProperties DEF TypeOK
  <2>3. Len(Tail(chan[w])) <= QueueSize  BY <1>1, <2>2, CapacityAssumption
  <2> QED  BY <1>1, <2>1, <2>3, ChanUpdate
<1>3. item' \in [Worker -> Message \cup {None}]
  BY <1>1 DEF Recv, TypeOK
<1>4. waiters' \in Seq(Worker)
  BY AppendProperties DEF Recv, TypeOK
<1>5. pc' \in [Worker -> {"unborn", "idle", "done"} \cup Holding \cup Waiting]
  BY DEF Recv, TypeOK, Holding, Waiting
<1>6. UNCHANGED <<queueVars, buffered, inject, cancelled, permits, closeVars,
                  downVars, sendVars, fate, cancels>>
  BY DEF Recv
<1> QED  BY <1>2, <1>3, <1>4, <1>5, <1>6
         DEF TypeOK, queueVars, closeVars, downVars, sendVars

LEMMA TakeDuringTurnTypeOK ==
    ASSUME TypeOK, NEW w \in Worker, TakeDuringTurn(w)
    PROVE  TypeOK'
<1> DEFINE m == Head(chan[w])
<1>1. /\ m \in Message /\ Tail(chan[w]) \in Seq(Message)
      /\ Len(Tail(chan[w])) = Len(chan[w]) - 1
  BY HeadTailProperties DEF TakeDuringTurn, TypeOK
<1>2. /\ chan' \in [Worker -> Seq(Message)]
      /\ \A v \in Worker : Len(chan'[v]) <= QueueSize
  <2>1. chan' = [chan EXCEPT ![w] = Tail(chan[w])]  BY DEF TakeDuringTurn
  <2>2. Len(chan[w]) \in Nat /\ Len(chan[w]) <= QueueSize
    BY LenProperties DEF TypeOK
  <2>3. Len(Tail(chan[w])) <= QueueSize  BY <1>1, <2>2, CapacityAssumption
  <2> QED  BY <1>1, <2>1, <2>3, ChanUpdate
<1>3. UNCHANGED <<queueVars, pc, item, cancelled, permitVars, closeVars,
                  downVars, forward, lockHolder, sent, cancels>>
  BY DEF TakeDuringTurn
<1>4. Inject(w, m) \/ Execute(w, m) \/ SetAside(w, m)
  BY DEF TakeDuringTurn
<1> HIDE DEF m
<1>5. /\ buffered' \in [Worker -> Seq(Message)]
      /\ inject' \in [Worker -> Seq(Message)]
      /\ \A v \in Worker : Len(inject'[v]) <= InjectSize
      /\ fate' \in [Message -> Fates]
      /\ msg' \in [Message -> [topic : Topic, kind : AllKinds]]
  <2>1. CASE Inject(w, m)
    <3>1. /\ Append(inject[w], m) \in Seq(Message)
          /\ Len(Append(inject[w], m)) = Len(inject[w]) + 1
          /\ Len(inject[w]) \in Nat
      BY <1>1, AppendProperties, LenProperties DEF TypeOK
    <3>2. /\ inject' = [inject EXCEPT ![w] = Append(inject[w], m)]
          /\ Len(inject[w]) < InjectSize
          /\ UNCHANGED <<buffered, msg, fate>>
      BY <2>1 DEF Inject
    <3>3. Len(Append(inject[w], m)) <= InjectSize
      BY <3>1, <3>2, CapacityAssumption
    <3>4. /\ inject \in [Worker -> Seq(Message)]
          /\ \A v \in Worker : Len(inject[v]) <= InjectSize
      BY DEF TypeOK
    <3>5. inject' \in [Worker -> Seq(Message)]
      BY <3>1, <3>2, <3>4
    <3>6. \A v \in Worker : Len(inject'[v]) <= InjectSize
      BY <3>2, <3>3, <3>4
    <3> QED  BY <3>2, <3>5, <3>6 DEF TypeOK
  <2>2. CASE SetAside(w, m)
    <3>1. Append(buffered[w], m) \in Seq(Message)
      BY <1>1, AppendProperties DEF TypeOK
    <3> QED  BY <2>2, <3>1 DEF SetAside, TypeOK
  <2>3. CASE Execute(w, m)
    <3>1. Append(buffered[w], m) \in Seq(Message)
      BY <1>1, AppendProperties DEF TypeOK
    <3>2. buffered' \in [Worker -> Seq(Message)]
      BY <2>3, <3>1 DEF Execute, TypeOK
    <3>3. msg' \in [Message -> [topic : Topic, kind : AllKinds]]
      <4>1. \/ msg' = msg
            \/ msg' = [msg EXCEPT ![m] = [msg[m] EXCEPT !.kind = "text"]]
        BY <2>3 DEF Execute
      <4>2. [msg[m] EXCEPT !.kind = "text"] \in [topic : Topic, kind : AllKinds]
        BY <1>1 DEF TypeOK, AllKinds
      <4> QED  BY <1>1, <4>1, <4>2 DEF TypeOK
    <3>4. fate' \in [Message -> Fates]
      BY <2>3 DEF Execute, TypeOK, Fates, Settled
    <3>5. UNCHANGED inject  BY <2>3 DEF Execute
    <3> QED  BY <3>2, <3>3, <3>4, <3>5 DEF TypeOK
  <2> QED  BY <1>4, <2>1, <2>2, <2>3
<1> QED  BY <1>2, <1>3, <1>5 DEF TypeOK, queueVars, permitVars, closeVars, downVars

LEMMA EndTurnTypeOK ==
    ASSUME TypeOK, NEW w \in Worker, EndTurn(w)
    PROVE  TypeOK'
<1>1. buffered[w] \o inject[w] \in Seq(Message)
  BY ConcatProperties DEF TypeOK
<1>2. buffered' \in [Worker -> Seq(Message)]
  BY <1>1 DEF EndTurn, TypeOK
<1>3. /\ inject' \in [Worker -> Seq(Message)]
      /\ \A v \in Worker : Len(inject'[v]) <= InjectSize
  <2>1. inject' = [inject EXCEPT ![w] = Drained(w)] /\ Drained(w) = <<>>
    BY DEF EndTurn, Drained
  <2>2. /\ inject \in [Worker -> Seq(Message)]
        /\ \A v \in Worker : Len(inject[v]) <= InjectSize
    BY DEF TypeOK
  <2>3. <<>> \in Seq(Message) /\ Len(<<>>) <= InjectSize
    BY EmptySeq, CapacityAssumption
  <2>4. \A v \in Worker : inject'[v] = IF v = w THEN Drained(w) ELSE inject[v]
    BY <2>1, <2>2
  <2> QED  BY <2>1, <2>2, <2>3, <2>4
<1>4. pc' \in [Worker -> {"unborn", "idle", "done"} \cup Holding \cup Waiting]
  BY DEF EndTurn, TypeOK, Holding, InTurn
<1>5. UNCHANGED <<queueVars, chan, item, cancelled, permitVars, closeVars,
                  downVars, sendVars, fate, cancels>>
  BY DEF EndTurn
<1>6. /\ chan' \in [Worker -> Seq(Message)] /\ item' \in [Worker -> Message \cup {None}]
      /\ \A v \in Worker : Len(chan'[v]) <= QueueSize
      /\ cancelled' \subseteq Worker /\ permits' \in 0 .. MaxConcurrent
      /\ waiters' \in Seq(Worker) /\ fate' \in [Message -> Fates]
      /\ cancels' \in 0 .. MaxCancels
  BY <1>5 DEF TypeOK, permitVars
<1> QED  BY <1>2, <1>3, <1>4, <1>5, <1>6, QuietMaps, QuietCloses, QuietSends, Assemble

LEMMA RequeueTypeOK ==
    ASSUME TypeOK, NEW w \in Worker, Requeue(w)
    PROVE  TypeOK'
<1> DEFINE m == Head(buffered[w])
<1>1. m \in Message /\ Tail(buffered[w]) \in Seq(Message)
  BY HeadTailProperties DEF Requeue, TypeOK
<1>2. buffered' \in [Worker -> Seq(Message)]
  BY <1>1 DEF Requeue, TypeOK
<1>3. /\ chan' \in [Worker -> Seq(Message)]
      /\ \A v \in Worker : Len(chan'[v]) <= QueueSize
      /\ fate' \in [Message -> Fates]
  <2>1. CASE Len(chan[w]) < QueueSize
    <3>1. /\ Append(chan[w], m) \in Seq(Message)
          /\ Len(Append(chan[w], m)) = Len(chan[w]) + 1
          /\ Len(chan[w]) \in Nat
      BY <1>1, AppendProperties, LenProperties DEF TypeOK
    <3>2. chan' = [chan EXCEPT ![w] = Append(chan[w], m)] /\ UNCHANGED fate
      BY <2>1 DEF Requeue
    <3>3. Len(Append(chan[w], m)) <= QueueSize
      BY <2>1, <3>1, CapacityAssumption
    <3>4. fate' \in [Message -> Fates]  BY <3>2 DEF TypeOK
    <3> QED  BY <3>1, <3>2, <3>3, <3>4, ChanUpdate
  <2>2. CASE ~(Len(chan[w]) < QueueSize)
    BY <1>1, <2>2 DEF Requeue, TypeOK, Fates, Settled
  <2> QED  BY <2>1, <2>2
<1>4. UNCHANGED <<queueVars, pc, item, inject, cancelled, permitVars, closeVars,
                  downVars, sendVars, cancels>>
  BY DEF Requeue
<1> QED  BY <1>2, <1>3, <1>4
         DEF TypeOK, queueVars, permitVars, closeVars, downVars, sendVars

LEMMA CloseTypeOK ==
    ASSUME TypeOK, NEW t \in Topic,
           \/ \E by \in Worker \cup {None} : CloseMark(t, by)
           \/ CloseStep(t)
    PROVE  TypeOK'
<1>1. ASSUME NEW by \in Worker \cup {None}, CloseMark(t, by)  PROVE TypeOK'
  <2>1. closes' \in [Topic -> 0 .. MaxCloses]
    <3>1. closes[t] + 1 \in 0 .. MaxCloses
      BY <1>1, BoundsAssumption DEF CloseMark, TypeOK
    <3> QED  BY <1>1, <3>1 DEF CloseMark, TypeOK
  <2>2. stale' \subseteq Worker
    BY <1>1, SpawnedAreWorkers DEF CloseMark, TypeOK
  <2>3. /\ closed' \subseteq Topic
        /\ closePc' \in [Topic -> {"none", "token", "queue"}]
        /\ closer' \in [Topic -> Worker \cup {None}]
    BY <1>1 DEF CloseMark, TypeOK
  <2>4. UNCHANGED <<queueVars, pc, intakeVars, cancelled, permitVars, downVars,
                    sendVars, fate, cancels>>
    BY <1>1 DEF CloseMark
  <2> QED  BY <2>1, <2>2, <2>3, <2>4
           DEF TypeOK, queueVars, intakeVars, permitVars, downVars, sendVars
<1>2. CASE CloseFails(t)
  BY <1>2 DEF CloseFails, TypeOK, queueVars, intakeVars, permitVars, downVars, sendVars
<1>3. CASE CloseToken(t)
  <2>1. cancelled' \subseteq Worker
    BY <1>3 DEF CloseToken, RemovedToken, TypeOK
  <2>2. /\ tokens' \in [Topic -> Worker \cup {None}]
        /\ closePc' \in [Topic -> {"none", "token", "queue"}]
    BY <1>3 DEF CloseToken, TypeOK
  <2>3. UNCHANGED <<queues, workers, topicOf, pc, intakeVars, permitVars, closed,
                    closer, closes, stale, downVars, sendVars, fate, cancels>>
    BY <1>3 DEF CloseToken
  <2> QED  BY <2>1, <2>2, <2>3 DEF TypeOK, intakeVars, permitVars, downVars, sendVars
<1>4. CASE CloseQueue(t)
  <2>1. /\ queues' \in [Topic -> Worker \cup {None}]
        /\ closePc' \in [Topic -> {"none", "token", "queue"}]
        /\ closer' \in [Topic -> Worker \cup {None}]
    BY <1>4 DEF CloseQueue, TypeOK
  <2>2. UNCHANGED <<tokens, workers, topicOf, pc, intakeVars, cancelled,
                    permitVars, closed, closes, stale, downVars, sendVars, fate,
                    cancels>>
    BY <1>4 DEF CloseQueue
  <2> QED  BY <2>1, <2>2 DEF TypeOK, intakeVars, permitVars, downVars, sendVars
<1> QED  BY <1>1, <1>2, <1>3, <1>4 DEF CloseStep

LEMMA ShutdownTypeOK ==
    ASSUME TypeOK, ShutdownBegin \/ ShutdownStep
    PROVE  TypeOK'
<1> USE DEF TypeOK, queueVars, intakeVars, permitVars, closeVars, downVars, sendVars
<1>1. CASE ShutdownBegin  BY <1>1 DEF ShutdownBegin
<1>2. CASE ShutdownTokens
  <2>1. cancelled' \subseteq Worker /\ tokens' \in [Topic -> Worker \cup {None}]
    BY <1>2 DEF ShutdownTokens
  <2> QED  BY <1>2, <2>1 DEF ShutdownTokens
<1>3. CASE ShutdownQueues  BY <1>3 DEF ShutdownQueues
<1>4. CASE ShutdownHandles
  BY <1>4, SpawnedAreWorkers DEF ShutdownHandles
<1>5. CASE ShutdownEnds  BY <1>5 DEF ShutdownEnds
<1> QED  BY <1>1, <1>2, <1>3, <1>4, <1>5 DEF ShutdownStep

LEMMA WorkerStepTypeOK ==
    ASSUME TypeOK, PermitsBalanced, NEW w \in Worker, WorkerStep(w)
    PROVE  TypeOK'
<1>1. CASE DropMismatched(w) \/ BeginTurn(w)
  <2>1. UNCHANGED <<queueVars, chan, buffered, inject, cancelled, permitVars,
                    closeVars, downVars, sendVars, cancels>>
    BY <1>1 DEF DropMismatched, BeginTurn
  <2>2. fate' \in [Message -> Fates]
    BY <1>1 DEF DropMismatched, BeginTurn, TypeOK, Fates, Settled
  <2>3. item' \in [Worker -> Message \cup {None}]
    BY <1>1 DEF DropMismatched, BeginTurn, TypeOK
  <2>4. pc' \in [Worker -> {"unborn", "idle", "done"} \cup Holding \cup Waiting]
    <3>1. pc \in [Worker -> {"unborn", "idle", "done"} \cup Holding \cup Waiting]
      BY DEF TypeOK
    <3>2. \/ pc' = [pc EXCEPT ![w] = "top"]
          \/ pc' = [pc EXCEPT ![w] = "turn"]
      BY <1>1 DEF DropMismatched, BeginTurn
    <3>3. "turn" \in Holding /\ "top" \in Holding
      BY DEF Holding, InTurn
    <3> QED  BY <3>1, <3>2, <3>3
  <2> QED  BY <2>1, <2>2, <2>3, <2>4, QuietType, QuietSends, Assemble
<1>2. CASE Fold(w)
  <2>1. /\ UNCHANGED <<pc, chan, item, buffered, cancelled, cancels>>
        /\ UNCHANGED <<queueVars, permitVars, closeVars, downVars, sendVars>>
    BY <1>2 DEF Fold
  <2>2. fate' \in [Message -> Fates]
    BY <1>2 DEF Fold, TypeOK, Fates, Settled
  <2>3. inject' = [inject EXCEPT ![w] = <<>>] /\ <<>> \in Seq(Message) /\ Len(<<>>) = 0
    BY <1>2 DEF Fold
  <2>4. inject' \in [Worker -> Seq(Message)]
    BY <2>3 DEF TypeOK
  <2>5. \A v \in Worker : Len(chan'[v]) <= QueueSize /\ Len(inject'[v]) <= InjectSize
    <3>1. \A v \in Worker : inject'[v] = IF v = w THEN <<>> ELSE inject[v]
      BY <2>3 DEF TypeOK
    <3>2. 0 <= InjectSize
      BY CapacityAssumption
    <3> QED  BY <2>1, <2>3, <3>1, <3>2 DEF TypeOK
  <2> QED  BY <2>1, <2>2, <2>4, <2>5
           DEF TypeOK, queueVars, permitVars, closeVars, downVars, sendVars
<1>3. CASE FinishTurn(w)
  <2>1. permits' \in 0 .. MaxConcurrent
    BY <1>3, HolderLeavesRoom DEF FinishTurn, TypeOK, Holding, InTurn
  <2>2. pc' \in [Worker -> {"unborn", "idle", "done"} \cup Holding \cup Waiting]
    BY <1>3 DEF FinishTurn, TypeOK
  <2>3. /\ UNCHANGED <<cancelled, waiters, fate, cancels>>
        /\ UNCHANGED <<queueVars, intakeVars, closeVars, downVars, sendVars>>
    BY <1>3 DEF FinishTurn
  <2> QED  BY <2>1, <2>2, <2>3
           DEF TypeOK, queueVars, intakeVars, closeVars, downVars, sendVars
<1>4. CASE StopWaiting(w) \/ DropClosed(w)
  BY <1>4, ExitTypeOK DEF StopWaiting, DropClosed
<1> QED  BY <1>1, <1>2, <1>3, <1>4, AcquireTypeOK, RecvTypeOK,
            TakeDuringTurnTypeOK, ForwardTypeOK, EndTurnTypeOK, RequeueTypeOK
         DEF WorkerStep

LEMMA NextTypeOK ==
    ASSUME TypeOK, PermitsBalanced, [Next]_vars PROVE TypeOK'
<1> USE DEF queueVars, intakeVars, permitVars, closeVars, downVars, sendVars
<1>1. ASSUME NEW w \in Worker, NEW t \in Topic, StartForward(w, t) PROVE TypeOK'
  <2>1. sent + 1 \in Message /\ sent' \in 0 .. MaxMessages
    BY <1>1, BoundsAssumption DEF StartForward, TypeOK, Message
  <2>2. msg' \in [Message -> [topic : Topic, kind : AllKinds]]
    BY <1>1, <2>1 DEF StartForward, TypeOK, AllKinds
  <2>3. forward' \in [Worker -> Message \cup {None}]
    BY <1>1, <2>1 DEF StartForward, TypeOK
  <2>4. UNCHANGED <<queueVars, pc, intakeVars, cancelled, permitVars, closeVars,
                    downVars, lockHolder, fate, cancels>>
    BY <1>1 DEF StartForward
  <2>5. /\ UNCHANGED <<pc, item, lockHolder, fate>>
        /\ UNCHANGED <<queueVars, chan, buffered, inject, cancelled, permitVars,
                       closeVars, downVars, cancels>>
    BY <2>4 DEF intakeVars
  <2>6. /\ SendsOK' /\ item' \in [Worker -> Message \cup {None}]
        /\ pc' \in [Worker -> {"unborn", "idle", "done"} \cup Holding \cup Waiting]
        /\ fate' \in [Message -> Fates]
    BY <2>1, <2>2, <2>3, <2>5 DEF TypeOK, SendsOK
  <2> QED  BY <2>5, <2>6, QuietType, Assemble
<1>2. CASE EnqueueReturns  BY <1>2 DEF EnqueueReturns, TypeOK
<1>3. ASSUME NEW t \in Topic, CancelTopic(t) PROVE TypeOK'
  <2>1. /\ cancels' \in 0 .. MaxCancels /\ cancelled' \subseteq Worker
    BY <1>3, BoundsAssumption DEF CancelTopic, TypeOK
  <2>2. UNCHANGED <<queueVars, pc, intakeVars, permitVars, closeVars, downVars,
                    sendVars, fate>>
    BY <1>3 DEF CancelTopic
  <2> QED  BY <2>1, <2>2, SMTT(30) DEF TypeOK
<1>4. CASE UNCHANGED vars  BY <1>4 DEF vars, TypeOK
<1> HIDE DEF queueVars, intakeVars, permitVars, closeVars, downVars, sendVars
<1> QED  BY <1>1, <1>2, <1>3, <1>4, EnqueueTypeOK, WorkerStepTypeOK, CloseTypeOK,
            ShutdownTypeOK
         DEF Next

-----------------------------------------------------------------------------
(* The permits balance.                                                     *)

\* A step that moves no worker into or out of the turn leaves the balance.
LEMMA UnmovedBalanced ==
    ASSUME PermitsBalanced, UNCHANGED <<pc, permits>>
    PROVE  PermitsBalanced'
BY DEF PermitsBalanced, Holders

\* A step of one worker keeps the balance when it returns exactly the permit
\* it gives up, or takes exactly the one it needs.
LEMMA MovedBalanced ==
    ASSUME TypeOK, PermitsBalanced, NEW w \in Worker, NEW l,
           pc' = [pc EXCEPT ![w] = l],
           permits' = permits + (IF pc[w] \in Holding THEN 1 ELSE 0)
                              - (IF l \in Holding THEN 1 ELSE 0)
    PROVE  PermitsBalanced'
<1>1. Cardinality(Holders') = Cardinality(Holders)
              + (IF l \in Holding THEN 1 ELSE 0)
              - (IF pc[w] \in Holding THEN 1 ELSE 0)
  BY HoldersStep
<1>2. permits \in Nat /\ Cardinality(Holders) \in Nat
  BY HoldersFinite, CapacityAssumption DEF TypeOK
<1> QED  BY <1>1, <1>2, CapacityAssumption DEF PermitsBalanced

LEMMA TryEnqueueBalanced ==
    ASSUME TypeOK, PermitsBalanced, IdsInOrder,
           NEW c, NEW m \in Message, NEW t \in Topic,
           TryEnqueue(c, m, t), UNCHANGED permits
    PROVE  PermitsBalanced'
<1>1. CASE Accept(m, t) \/ QueueFull(m, t)
  BY <1>1, UnmovedBalanced DEF Accept, QueueFull
<1>2. CASE CreateAndEnqueue(c, m, t)
  <2>1. workers + 1 \in Worker /\ pc' = [pc EXCEPT ![workers + 1] = "start"]
    BY <1>2 DEF CreateAndEnqueue
  <2>2. pc[workers + 1] = "unborn"
    BY <2>1 DEF IdsInOrder, TypeOK
  <2>3. permits \in Int  BY CapacityAssumption DEF TypeOK
  <2>4. permits' = permits + (IF pc[workers + 1] \in Holding THEN 1 ELSE 0)
                          - (IF "start" \in Holding THEN 1 ELSE 0)
    BY <2>2, <2>3 DEF Holding, InTurn
  <2> QED  BY <2>1, <2>4, MovedBalanced
<1> QED  BY <1>1, <1>2 DEF TryEnqueue

LEMMA NextBalanced ==
    ASSUME TypeOK, PermitsBalanced, IdsInOrder, [Next]_vars
    PROVE  PermitsBalanced'
<1>0. permits \in Int  BY CapacityAssumption DEF TypeOK
<1>1. ASSUME NEW w \in Worker, Acquire(w)  PROVE PermitsBalanced'
  <2>1. CASE pc[w] = "start"
    <3>1. pc' = [pc EXCEPT ![w] = "top"]
      BY <1>1, <2>1 DEF Acquire
    <3>2. permits' = permits + (IF pc[w] \in Holding THEN 1 ELSE 0)
                            - (IF "top" \in Holding THEN 1 ELSE 0)
      BY <1>0, <1>1, <2>1 DEF Acquire, Holding, InTurn
    <3> QED  BY <3>1, <3>2, MovedBalanced
  <2>2. CASE pc[w] = "acquire"
    <3>1. pc' = [pc EXCEPT ![w] = "ready"]
      BY <1>1, <2>2 DEF Acquire
    <3>2. permits' = permits + (IF pc[w] \in Holding THEN 1 ELSE 0)
                            - (IF "ready" \in Holding THEN 1 ELSE 0)
      BY <1>0, <1>1, <2>2 DEF Acquire, Holding, InTurn
    <3> QED  BY <3>1, <3>2, MovedBalanced
  <2> QED  BY <1>1, <2>1, <2>2 DEF Acquire, Waiting
<1>2. ASSUME NEW w \in Worker, Recv(w)  PROVE PermitsBalanced'
  <2>1. CASE pc[w] = "top"
    <3>1. pc' = [pc EXCEPT ![w] = "ready"]
      BY <1>2, <2>1 DEF Recv
    <3>2. permits' = permits + (IF pc[w] \in Holding THEN 1 ELSE 0)
                            - (IF "ready" \in Holding THEN 1 ELSE 0)
      BY <1>0, <1>2, <2>1 DEF Recv, Holding, InTurn
    <3> QED  BY <3>1, <3>2, MovedBalanced
  <2>2. CASE pc[w] = "idle"
    <3>1. pc' = [pc EXCEPT ![w] = "acquire"]
      BY <1>2, <2>2 DEF Recv
    <3>2. permits' = permits + (IF pc[w] \in Holding THEN 1 ELSE 0)
                            - (IF "acquire" \in Holding THEN 1 ELSE 0)
      BY <1>0, <1>2, <2>2 DEF Recv, Holding, InTurn
    <3> QED  BY <3>1, <3>2, MovedBalanced
  <2> QED  BY <1>2, <2>1, <2>2 DEF Recv
<1>3. ASSUME NEW w \in Worker, Exit(w)  PROVE PermitsBalanced'
  <2>1. pc' = [pc EXCEPT ![w] = "done"]
    BY <1>3 DEF Exit
  <2>2. permits' = permits + (IF pc[w] \in Holding THEN 1 ELSE 0)
                          - (IF "done" \in Holding THEN 1 ELSE 0)
    BY <1>0, <1>3 DEF Exit, Holding, InTurn
  <2> QED  BY <2>1, <2>2, MovedBalanced
<1>4. ASSUME NEW w \in Worker, DropMismatched(w)  PROVE PermitsBalanced'
  <2>1. pc' = [pc EXCEPT ![w] = "top"]
    BY <1>4 DEF DropMismatched
  <2>2. permits' = permits + (IF pc[w] \in Holding THEN 1 ELSE 0)
                          - (IF "top" \in Holding THEN 1 ELSE 0)
    BY <1>0, <1>4 DEF DropMismatched, permitVars, Holding, InTurn
  <2> QED  BY <2>1, <2>2, MovedBalanced
<1>5. ASSUME NEW w \in Worker, BeginTurn(w)  PROVE PermitsBalanced'
  <2>1. pc' = [pc EXCEPT ![w] = "turn"]
    BY <1>5 DEF BeginTurn
  <2>2. permits' = permits + (IF pc[w] \in Holding THEN 1 ELSE 0)
                          - (IF "turn" \in Holding THEN 1 ELSE 0)
    BY <1>0, <1>5 DEF BeginTurn, permitVars, Holding, InTurn
  <2> QED  BY <2>1, <2>2, MovedBalanced
<1>6. ASSUME NEW w \in Worker, EndTurn(w)  PROVE PermitsBalanced'
  <2>1. pc' = [pc EXCEPT ![w] = "requeue"]
    BY <1>6 DEF EndTurn
  <2>2. permits' = permits + (IF pc[w] \in Holding THEN 1 ELSE 0)
                          - (IF "requeue" \in Holding THEN 1 ELSE 0)
    BY <1>0, <1>6 DEF EndTurn, permitVars, Holding, InTurn
  <2> QED  BY <2>1, <2>2, MovedBalanced
<1>7. ASSUME NEW w \in Worker, FinishTurn(w)  PROVE PermitsBalanced'
  <2>1. pc' = [pc EXCEPT ![w] = "idle"]
    BY <1>7 DEF FinishTurn
  <2>2. permits' = permits + (IF pc[w] \in Holding THEN 1 ELSE 0)
                          - (IF "idle" \in Holding THEN 1 ELSE 0)
    BY <1>0, <1>7 DEF FinishTurn, Holding, InTurn
  <2> QED  BY <2>1, <2>2, MovedBalanced
<1>8. ASSUME NEW w \in Worker, TakeDuringTurn(w) \/ Fold(w) \/ Requeue(w)
      PROVE  PermitsBalanced'
  BY <1>8, UnmovedBalanced DEF TakeDuringTurn, Fold, Requeue, permitVars
<1>9. ASSUME NEW w \in Worker, Forward(w)  PROVE PermitsBalanced'
  <2>1. forward[w] \in Message /\ msg[forward[w]].topic \in Topic
    BY <1>9 DEF Forward, TypeOK
  <2> QED  BY <1>9, <2>1, TryEnqueueBalanced DEF Forward
<1>10. ASSUME NEW t \in Topic, NEW kind \in Kinds, Enqueue(t, kind)
       PROVE  PermitsBalanced'
  <2>1. sent + 1 \in Message
    BY <1>10, BoundsAssumption DEF Enqueue, TypeOK, Message
  <2> QED  BY <1>10, <2>1, TryEnqueueBalanced DEF Enqueue
<1>11. ASSUME NEW w \in Worker, WorkerStep(w)  PROVE PermitsBalanced'
  BY <1>1, <1>2, <1>3, <1>4, <1>5, <1>6, <1>7, <1>8, <1>9, <1>11
     DEF WorkerStep, StopWaiting, DropClosed
<1>12. ASSUME NEW w \in Worker, NEW t \in Topic, StartForward(w, t)
       PROVE  PermitsBalanced'
  BY <1>12, UnmovedBalanced DEF StartForward, permitVars
<1>13. ASSUME NEW t \in Topic,
              CancelTopic(t) \/ CloseStep(t) \/ \E by \in Worker \cup {None} : CloseMark(t, by)
       PROVE  PermitsBalanced'
  BY <1>13, UnmovedBalanced
     DEF CancelTopic, CloseStep, CloseFails, CloseToken, CloseQueue, CloseMark, permitVars
<1>14. CASE ShutdownBegin \/ ShutdownStep
  BY <1>14, UnmovedBalanced
     DEF ShutdownBegin, ShutdownStep, ShutdownTokens, ShutdownQueues, ShutdownHandles,
         ShutdownEnds, permitVars
<1>15. CASE EnqueueReturns \/ UNCHANGED vars
  BY <1>15, UnmovedBalanced DEF EnqueueReturns, vars, permitVars
<1> QED  BY <1>10, <1>11, <1>12, <1>13, <1>14, <1>15 DEF Next

-----------------------------------------------------------------------------
(* The worker ids are used in order.                                        *)

LEMMA TryEnqueueIdsInOrder ==
    ASSUME TypeOK, IdsInOrder, NEW c, NEW m \in Message, NEW t \in Topic,
           TryEnqueue(c, m, t)
    PROVE  IdsInOrder'
<1>1. CASE Accept(m, t) \/ QueueFull(m, t)
  BY <1>1 DEF Accept, QueueFull, IdsInOrder
<1>2. CASE CreateAndEnqueue(c, m, t)
  <2>1. /\ workers + 1 \in Worker /\ workers' = workers + 1
        /\ pc' = [pc EXCEPT ![workers + 1] = "start"]
    BY <1>2 DEF CreateAndEnqueue
  <2>2. workers \in Nat /\ Worker \subseteq Nat
    BY BoundsAssumption DEF TypeOK, Worker, Message
  <2>3. \A v \in Worker : pc'[v] = IF v = workers + 1 THEN "start" ELSE pc[v]
    BY <2>1 DEF TypeOK
  <2>4. SUFFICES ASSUME NEW v \in Worker
                 PROVE  v > workers' <=> pc'[v] = "unborn"
    BY DEF IdsInOrder
  <2>5. v > workers <=> pc[v] = "unborn"  BY DEF IdsInOrder
  <2>6. v \in Nat  BY <2>2
  <2> QED  BY <2>1, <2>2, <2>3, <2>5, <2>6
<1> QED  BY <1>1, <1>2 DEF TryEnqueue

\* A step of a worker that was born, which neither spawns nor unbirths one.
LEMMA MovedIdsInOrder ==
    ASSUME TypeOK, IdsInOrder, NEW w \in Worker, NEW l,
           pc[w] # "unborn", l # "unborn",
           pc' = [pc EXCEPT ![w] = l], UNCHANGED workers
    PROVE  IdsInOrder'
BY DEF IdsInOrder, TypeOK

\* Only a live worker exits.
LEMMA NextIdsInOrder ==
    ASSUME TypeOK, IdsInOrder, [Next]_vars
    PROVE  IdsInOrder'
<1>1. ASSUME NEW w \in Worker, WorkerStep(w)  PROVE IdsInOrder'
  <2>1. CASE Forward(w)
    <3>1. forward[w] \in Message /\ msg[forward[w]].topic \in Topic
      BY <2>1 DEF Forward, TypeOK
    <3> QED  BY <2>1, <3>1, TryEnqueueIdsInOrder DEF Forward
  <2>2. CASE TakeDuringTurn(w) \/ Fold(w) \/ Requeue(w)
    BY <2>2 DEF TakeDuringTurn, Fold, Requeue, queueVars, IdsInOrder
  <2>3. CASE StopWaiting(w) \/ DropClosed(w)
    <3>1. pc[w] # "unborn" /\ pc' = [pc EXCEPT ![w] = "done"] /\ UNCHANGED workers
      BY <2>3 DEF StopWaiting, DropClosed, Exit, queueVars
    <3> QED  BY <3>1, MovedIdsInOrder
  <2>4. CASE \/ Acquire(w) \/ Recv(w) \/ DropMismatched(w) \/ BeginTurn(w)
             \/ EndTurn(w) \/ FinishTurn(w)
    <3>1. /\ pc[w] # "unborn" /\ UNCHANGED workers
          /\ \E l \in {"top", "ready", "acquire", "turn", "requeue", "idle"} :
                pc' = [pc EXCEPT ![w] = l]
      BY <2>4 DEF Acquire, Recv, DropMismatched, BeginTurn, EndTurn, FinishTurn,
                  queueVars, Waiting
    <3> QED  BY <3>1, MovedIdsInOrder
  <2> QED  BY <1>1, <2>1, <2>2, <2>3, <2>4 DEF WorkerStep
<1>2. ASSUME NEW t \in Topic, NEW kind \in Kinds, Enqueue(t, kind)
      PROVE  IdsInOrder'
  <2>1. sent + 1 \in Message
    BY <1>2, BoundsAssumption DEF Enqueue, TypeOK, Message
  <2> QED  BY <1>2, <2>1, TryEnqueueIdsInOrder DEF Enqueue
<1>3. ASSUME UNCHANGED <<workers, pc>>  PROVE IdsInOrder'
  BY <1>3 DEF IdsInOrder
<1>4. ASSUME NEW w \in Worker, NEW t \in Topic, StartForward(w, t)
      PROVE  IdsInOrder'
  BY <1>3, <1>4 DEF StartForward, queueVars
<1>5. ASSUME NEW t \in Topic,
             CancelTopic(t) \/ CloseStep(t) \/ \E by \in Worker \cup {None} : CloseMark(t, by)
      PROVE  IdsInOrder'
  BY <1>3, <1>5
     DEF CancelTopic, CloseStep, CloseFails, CloseToken, CloseQueue, CloseMark, queueVars
<1>6. CASE ShutdownBegin \/ ShutdownStep
  BY <1>3, <1>6
     DEF ShutdownBegin, ShutdownStep, ShutdownTokens, ShutdownQueues, ShutdownHandles,
         ShutdownEnds, queueVars
<1>7. CASE EnqueueReturns \/ UNCHANGED vars
  BY <1>3, <1>7 DEF EnqueueReturns, vars, queueVars
<1> QED  BY <1>1, <1>2, <1>4, <1>5, <1>6, <1>7 DEF Next

-----------------------------------------------------------------------------
(* The one worker of a topic that was never closed.                         *)

LEMMA NextClosesCounted ==
    ASSUME TypeOK, ClosesCounted, [Next]_vars
    PROVE  ClosesCounted'
<1>1. ASSUME UNCHANGED <<closePc, closes>>  PROVE ClosesCounted'
  BY <1>1 DEF ClosesCounted
<1>2. ASSUME NEW t \in Topic, NEW by, CloseMark(t, by)  PROVE ClosesCounted'
  <2>1. closes[t] \in Nat  BY BoundsAssumption DEF TypeOK
  <2>2. \A u \in Topic : /\ closes'[u] = IF u = t THEN closes[t] + 1 ELSE closes[u]
                         /\ closePc'[u] = IF u = t THEN "token" ELSE closePc[u]
    BY <1>2 DEF CloseMark, TypeOK
  <2> QED  BY <2>1, <2>2 DEF ClosesCounted
<1>3. ASSUME NEW t \in Topic, CloseStep(t)  PROVE ClosesCounted'
  <2>1. closePc[t] # "none" /\ UNCHANGED closes
    BY <1>3 DEF CloseStep, CloseFails, CloseToken, CloseQueue
  <2>2. \A u \in Topic : u # t => closePc'[u] = closePc[u]
    BY <1>3 DEF CloseStep, CloseFails, CloseToken, CloseQueue, TypeOK
  <2> QED  BY <2>1, <2>2 DEF ClosesCounted
<1>4. ASSUME NEW w \in Worker, WorkerStep(w)  PROVE ClosesCounted'
  BY <1>1, <1>4
     DEF WorkerStep, Acquire, Recv, StopWaiting, DropClosed, Exit, DropMismatched,
         BeginTurn, TakeDuringTurn, Fold, Forward, EndTurn, Requeue, FinishTurn, closeVars
<1>5. ASSUME NEW t \in Topic,
             \/ \E kind \in Kinds : Enqueue(t, kind)
             \/ \E w \in Worker : StartForward(w, t)
             \/ CancelTopic(t)
      PROVE  ClosesCounted'
  BY <1>1, <1>5 DEF Enqueue, StartForward, CancelTopic, closeVars
<1>6. CASE ShutdownBegin \/ ShutdownStep
  BY <1>1, <1>6
     DEF ShutdownBegin, ShutdownStep, ShutdownTokens, ShutdownQueues, ShutdownHandles,
         ShutdownEnds, closeVars
<1>7. CASE EnqueueReturns \/ UNCHANGED vars
  BY <1>1, <1>7 DEF EnqueueReturns, vars, closeVars
<1> QED  BY <1>2, <1>3, <1>4, <1>5, <1>6, <1>7 DEF Next

LEMMA TryEnqueueReachable ==
    ASSUME TypeOK, IdsInOrder, WorkerReachable,
           NEW c, NEW m \in Message, NEW t \in Topic,
           TryEnqueue(c, m, t), UNCHANGED <<closes, downPc>>
    PROVE  WorkerReachable'
<1> SUFFICES ASSUME ~Down, NEW v \in Worker, Live(v)', closes[topicOf'[v]] = 0
             PROVE  queues'[topicOf'[v]] = v /\ tokens'[topicOf'[v]] = v
  BY DEF WorkerReachable, Down
\* The retain never drops the sender of a reached worker.
<1>1. ASSUME Live(v), closes[topicOf[v]] = 0
      PROVE  /\ queues[topicOf[v]] = v /\ tokens[topicOf[v]] = v
             /\ SenderOpen(topicOf[v]) /\ Pruned[topicOf[v]] = v
             /\ topicOf[v] \in Topic
  <2>1. queues[topicOf[v]] = v /\ tokens[topicOf[v]] = v /\ topicOf[v] \in Topic
    BY <1>1 DEF WorkerReachable, TypeOK
  <2>2. v # None  BY BoundsAssumption DEF Worker, Message, None
  <2> QED  BY <1>1, <2>1, <2>2 DEF SenderOpen, Pruned
<1>2. CASE Accept(m, t) \/ QueueFull(m, t)
  <2>1. UNCHANGED <<topicOf, pc, tokens>> /\ queues' = Pruned
    BY <1>2 DEF Accept, QueueFull
  <2> QED  BY <1>1, <2>1 DEF Live
<1>3. CASE CreateAndEnqueue(c, m, t)
  <2>1. /\ ~SenderOpen(t) /\ workers + 1 \in Worker
        /\ topicOf' = [topicOf EXCEPT ![workers + 1] = t]
        /\ queues' = [Pruned EXCEPT ![t] = workers + 1]
        /\ tokens' = [tokens EXCEPT ![t] = workers + 1]
        /\ pc' = [pc EXCEPT ![workers + 1] = "start"]
    BY <1>3 DEF CreateAndEnqueue, NewToken
  <2>2. CASE v = workers + 1
    BY <2>1, <2>2 DEF TypeOK, Pruned
  <2>3. CASE v # workers + 1
    <3>1. topicOf'[v] = topicOf[v] /\ pc'[v] = pc[v]
      BY <2>1, <2>3 DEF TypeOK
    <3>2. Live(v) /\ closes[topicOf[v]] = 0
      BY <3>1 DEF Live
    <3>3. topicOf[v] # t
      BY <1>1, <2>1, <3>2
    <3> QED  BY <1>1, <2>1, <3>1, <3>2, <3>3 DEF TypeOK, Pruned
  <2> QED  BY <2>2, <2>3
<1> QED  BY <1>2, <1>3 DEF TryEnqueue

LEMMA NextReachable ==
    ASSUME TypeOK, IdsInOrder, ClosesCounted, WorkerReachable, [Next]_vars
    PROVE  WorkerReachable'
\* A step that brings no worker to life and leaves the maps alone.
<1>1. ASSUME UNCHANGED <<queues, tokens, topicOf, closes, downPc>>,
             \A v \in Worker : Live(v)' => Live(v)
      PROVE  WorkerReachable'
  BY <1>1 DEF WorkerReachable, Down
<1>2. ASSUME UNCHANGED pc  PROVE \A v \in Worker : Live(v)' => Live(v)
  BY <1>2 DEF Live
<1>3. ASSUME NEW w \in Worker, WorkerStep(w)  PROVE WorkerReachable'
  <2>1. CASE Forward(w)
    <3>1. forward[w] \in Message /\ msg[forward[w]].topic \in Topic
      BY <2>1 DEF Forward, TypeOK
    <3>2. TryEnqueue(w, forward[w], msg[forward[w]].topic) /\ UNCHANGED <<closes, downPc>>
      BY <2>1 DEF Forward, closeVars, downVars
    <3> QED  BY <3>1, <3>2, TryEnqueueReachable
  <2>2. CASE TakeDuringTurn(w) \/ Fold(w) \/ Requeue(w)
    BY <1>1, <1>2, <2>2 DEF TakeDuringTurn, Fold, Requeue, queueVars, closeVars, downVars
  <2>3. CASE StopWaiting(w) \/ DropClosed(w)
    <3>1. Exit(w)  BY <2>3 DEF StopWaiting, DropClosed
    <3>2. UNCHANGED <<queues, tokens, topicOf, closes, downPc>>
      BY <3>1 DEF Exit, queueVars, closeVars, downVars
    <3>3. \A v \in Worker : Live(v)' => Live(v)
      BY <3>1 DEF Exit, Live, TypeOK
    <3> QED  BY <1>1, <3>2, <3>3
  <2>4. CASE \/ Acquire(w) \/ Recv(w) \/ DropMismatched(w) \/ BeginTurn(w)
             \/ EndTurn(w) \/ FinishTurn(w)
    <3>1. /\ Live(w)
          /\ \E l \in {"top", "ready", "acquire", "turn", "requeue", "idle"} :
                pc' = [pc EXCEPT ![w] = l]
      BY <2>4 DEF Acquire, Recv, DropMismatched, BeginTurn, EndTurn, FinishTurn,
                  Waiting, Live
    <3>2. UNCHANGED <<queues, tokens, topicOf, closes, downPc>>
      BY <2>4 DEF Acquire, Recv, DropMismatched, BeginTurn, EndTurn, FinishTurn,
                  queueVars, closeVars, downVars
    <3>3. \A v \in Worker : v # w => pc'[v] = pc[v]
      BY <3>1 DEF TypeOK
    <3>4. \A v \in Worker : Live(v)' => Live(v)
      BY <3>1, <3>3 DEF Live
    <3> QED  BY <1>1, <3>2, <3>4
  <2> QED  BY <1>3, <2>1, <2>2, <2>3, <2>4 DEF WorkerStep
<1>4. ASSUME NEW t \in Topic, NEW kind \in Kinds, Enqueue(t, kind)
      PROVE  WorkerReachable'
  <2>1. sent + 1 \in Message
    BY <1>4, BoundsAssumption DEF Enqueue, TypeOK, Message
  <2>2. TryEnqueue(Router, sent + 1, t) /\ UNCHANGED <<closes, downPc>>
    BY <1>4 DEF Enqueue, closeVars, downVars
  <2> QED  BY <2>1, <2>2, TryEnqueueReachable
<1>5. ASSUME NEW t \in Topic, CancelTopic(t) \/ \E w \in Worker : StartForward(w, t)
      PROVE  WorkerReachable'
  BY <1>1, <1>2, <1>5 DEF CancelTopic, StartForward, queueVars, closeVars, downVars
<1>6. ASSUME NEW t \in Topic, NEW by, CloseMark(t, by)  PROVE WorkerReachable'
  <2>1. UNCHANGED <<queues, tokens, topicOf, pc, downPc>>
    BY <1>6 DEF CloseMark, queueVars, downVars
  <2>2. \A u \in Topic : closes'[u] = 0 => closes[u] = 0
    <3>1. \A u \in Topic : closes'[u] = IF u = t THEN closes[t] + 1 ELSE closes[u]
      BY <1>6 DEF CloseMark, TypeOK
    <3>2. closes[t] \in Nat  BY BoundsAssumption DEF TypeOK
    <3> QED  BY <3>1, <3>2
  <2>3. \A v \in Worker : topicOf[v] \in Topic  BY DEF TypeOK
  <2> QED  BY <2>1, <2>2, <2>3 DEF WorkerReachable, Down, Live
<1>7. ASSUME NEW t \in Topic, CloseStep(t)  PROVE WorkerReachable'
  <2>1. closes[t] > 0
    BY <1>7 DEF CloseStep, CloseFails, CloseToken, CloseQueue, ClosesCounted
  <2>2. UNCHANGED <<topicOf, pc, closes, downPc>>
    BY <1>7 DEF CloseStep, CloseFails, CloseToken, CloseQueue, queueVars, downVars, closeVars
  <2>3. \A u \in Topic : u # t => queues'[u] = queues[u] /\ tokens'[u] = tokens[u]
    BY <1>7 DEF CloseStep, CloseFails, CloseToken, CloseQueue, queueVars, TypeOK
  <2>4. \A v \in Worker : topicOf[v] \in Topic  BY DEF TypeOK
  <2> QED  BY <2>1, <2>2, <2>3, <2>4 DEF WorkerReachable, Down, Live
<1>8. CASE ShutdownBegin \/ ShutdownStep
  <2>1. Down'
    BY <1>8 DEF ShutdownBegin, ShutdownStep, ShutdownTokens, ShutdownQueues,
                ShutdownHandles, ShutdownEnds, Down
  <2> QED  BY <2>1 DEF WorkerReachable
<1>9. CASE EnqueueReturns \/ UNCHANGED vars
  BY <1>1, <1>2, <1>9 DEF EnqueueReturns, vars, queueVars, closeVars, downVars
<1> QED  BY <1>3, <1>4, <1>5, <1>6, <1>7, <1>8, <1>9 DEF Next

-----------------------------------------------------------------------------
(* The theorems.                                                            *)

IInv ==
    /\ TypeOK
    /\ PermitsBalanced
    /\ IdsInOrder
    /\ ClosesCounted
    /\ WorkerReachable

LEMMA InitIInv == Init => IInv
<1> SUFFICES ASSUME Init PROVE IInv  OBVIOUS
<1>1. TypeOK  BY InitTypeOK
<1>2. PermitsBalanced
  <2>1. Holders = {}  BY DEF Init, Holders, Holding, InTurn
  <2>2. Cardinality(Holders) = 0  BY <2>1, FS_EmptySet
  <2> QED  BY <2>2, CapacityAssumption DEF Init, PermitsBalanced
<1>3. IdsInOrder  BY BoundsAssumption DEF Init, IdsInOrder, Worker, Message
<1>4. ClosesCounted  BY DEF Init, ClosesCounted
<1>5. WorkerReachable  BY DEF Init, WorkerReachable, Live
<1> QED  BY <1>1, <1>2, <1>3, <1>4, <1>5 DEF IInv

LEMMA IInvInvariant == Spec => []IInv
<1>1. IInv /\ [Next]_vars => IInv'
  BY NextTypeOK, NextBalanced, NextIdsInOrder, NextClosesCounted, NextReachable DEF IInv
<1> QED  BY InitIInv, <1>1, PTL DEF Spec

\* Type correctness of the topic manager.
THEOREM TypeCorrect == Spec => []TypeOK
BY IInvInvariant, PTL DEF IInv

\* The semaphore is conserved: through every path of the worker loop, every
\* stop and every close, free permits and turns add up to max_concurrent_topics.
THEOREM PermitsConserved == Spec => []PermitsBalanced
BY IInvInvariant, PTL DEF IInv

\* Until a topic is closed or the manager goes down, a topic has one live
\* worker at most, and its messages and its /cancel reach that one.
THEOREM WorkersReached == Spec => []WorkerReachable
BY IInvInvariant, PTL DEF IInv

-----------------------------------------------------------------------------
(* Where a message is.  What the operations on a sequence do to the set of  *)
(* its elements, and that none of them occurs twice.                        *)

LEMMA EmptyOnce == ToSet(<<>>) = {} /\ IsInjective(<<>>)
BY DEF ToSet, IsInjective

LEMMA SingleOnce ==
    ASSUME NEW m \in Message
    PROVE  ToSet(<<m>>) = {m} /\ IsInjective(<<m>>)
BY DEF ToSet, IsInjective

LEMMA ElementsAreMessages ==
    ASSUME NEW s \in Seq(Message)
    PROVE  ToSet(s) \subseteq Message /\ (s = <<>> <=> ToSet(s) = {})
<1>1. DOMAIN s = 1 .. Len(s) /\ Len(s) \in Nat /\ \A i \in 1 .. Len(s) : s[i] \in Message
  BY LenProperties, ElementOfSeq
<1>2. s # <<>> => 1 \in DOMAIN s  BY <1>1, EmptySeq
<1> QED  BY <1>1, <1>2, EmptyOnce DEF ToSet

LEMMA AppendOnce ==
    ASSUME NEW s \in Seq(Message), NEW m \in Message
    PROVE  /\ ToSet(Append(s, m)) = ToSet(s) \cup {m}
           /\ IsInjective(s) /\ m \notin ToSet(s) => IsInjective(Append(s, m))
<1> DEFINE t == Append(s, m)
<1>1. /\ DOMAIN s = 1 .. Len(s) /\ DOMAIN t = 1 .. (Len(s) + 1) /\ Len(s) \in Nat
      /\ \A i \in 1 .. Len(s) : t[i] = s[i]
      /\ t[Len(s) + 1] = m
  BY AppendProperties, LenProperties
<1> HIDE DEF t
<1>2. 1 .. (Len(s) + 1) = (1 .. Len(s)) \cup {Len(s) + 1}  BY <1>1
<1>3. ToSet(t) = ToSet(s) \cup {m}  BY <1>1, <1>2 DEF ToSet
<1>4. ASSUME IsInjective(s), m \notin ToSet(s), NEW i \in DOMAIN t, NEW j \in DOMAIN t, t[i] = t[j]
      PROVE  i = j
  <2>1. \A k \in 1 .. Len(s) : t[k] \in ToSet(s)  BY <1>1 DEF ToSet
  <2>2. CASE i \in 1 .. Len(s) /\ j \in 1 .. Len(s)  BY <1>1, <1>4, <2>2 DEF IsInjective
  <2>3. CASE i = Len(s) + 1 \/ j = Len(s) + 1  BY <1>1, <1>2, <1>4, <2>1, <2>3
  <2> QED  BY <1>1, <1>2, <2>2, <2>3
<1>5. IsInjective(s) /\ m \notin ToSet(s) => IsInjective(t)  BY <1>4 DEF IsInjective
<1> QED  BY <1>3, <1>5 DEF t

LEMMA TailOnce ==
    ASSUME NEW s \in Seq(Message), s # <<>>
    PROVE  /\ Head(s) \in ToSet(s)
           /\ ToSet(s) = ToSet(Tail(s)) \cup {Head(s)}
           /\ IsInjective(s) => /\ IsInjective(Tail(s))
                                /\ Head(s) \notin ToSet(Tail(s))
<1> DEFINE t == Tail(s)
<1>1. /\ DOMAIN s = 1 .. Len(s) /\ DOMAIN t = 1 .. (Len(s) - 1) /\ Len(s) \in Nat \ {0}
      /\ \A i \in 1 .. (Len(s) - 1) : t[i] = s[i + 1]
      /\ Head(s) = s[1]
  BY HeadTailProperties, LenProperties, EmptySeq
<1> HIDE DEF t
<1>2. Head(s) \in ToSet(s)  BY <1>1 DEF ToSet
<1>3. ToSet(t) \subseteq ToSet(s)
  <2>1. \A i \in 1 .. (Len(s) - 1) : i + 1 \in 1 .. Len(s)  BY <1>1
  <2> QED  BY <1>1, <2>1 DEF ToSet
<1>4. \A x \in ToSet(s) : x = Head(s) \/ x \in ToSet(t)
  <2> SUFFICES ASSUME NEW i \in 1 .. Len(s) PROVE s[i] = Head(s) \/ s[i] \in ToSet(t)
    BY <1>1 DEF ToSet
  <2>1. CASE i = 1  BY <1>1, <2>1
  <2>2. CASE i # 1
    <3>1. i - 1 \in 1 .. (Len(s) - 1) /\ (i - 1) + 1 = i  BY <1>1, <2>2
    <3>2. t[i - 1] = s[i]  BY <1>1, <3>1
    <3> QED  BY <1>1, <3>1, <3>2 DEF ToSet
  <2> QED  BY <2>1, <2>2
<1>5. ASSUME IsInjective(s) PROVE IsInjective(t) /\ Head(s) \notin ToSet(t)
  <2>1. \A i, j \in 1 .. Len(s) : s[i] = s[j] => i = j  BY <1>1, <1>5 DEF IsInjective
  <2>2. \A i \in 1 .. (Len(s) - 1) : i + 1 \in 1 .. Len(s) /\ i + 1 # 1 /\ t[i] = s[i + 1]
    BY <1>1
  <2>3. 1 \in 1 .. Len(s)  BY <1>1
  <2>4. \A i, j \in 1 .. (Len(s) - 1) : t[i] = t[j] => i = j
    <3> SUFFICES ASSUME NEW i \in 1 .. (Len(s) - 1), NEW j \in 1 .. (Len(s) - 1), t[i] = t[j]
                 PROVE i = j  OBVIOUS
    <3>1. i + 1 = j + 1  BY <2>1, <2>2
    <3> QED  BY <3>1
  <2>5. \A i \in 1 .. (Len(s) - 1) : t[i] # s[1]  BY <2>1, <2>2, <2>3
  <2> QED  BY <1>1, <2>4, <2>5 DEF IsInjective, ToSet
<1> QED  BY <1>2, <1>3, <1>4, <1>5 DEF t

LEMMA ConcatOnce ==
    ASSUME NEW s \in Seq(Message), NEW u \in Seq(Message)
    PROVE  /\ ToSet(s \o u) = ToSet(s) \cup ToSet(u)
           /\ IsInjective(s) /\ IsInjective(u) /\ ToSet(s) \cap ToSet(u) = {}
                 => IsInjective(s \o u)
<1> DEFINE t == s \o u
<1>1. /\ DOMAIN s = 1 .. Len(s) /\ DOMAIN u = 1 .. Len(u) /\ DOMAIN t = 1 .. (Len(s) + Len(u))
      /\ Len(s) \in Nat /\ Len(u) \in Nat
      /\ \A i \in 1 .. (Len(s) + Len(u)) :
            t[i] = IF i <= Len(s) THEN s[i] ELSE u[i - Len(s)]
  BY ConcatProperties, LenProperties
<1> HIDE DEF t
<1>2. \A i \in 1 .. Len(s) : i \in 1 .. (Len(s) + Len(u)) /\ t[i] = s[i]  BY <1>1
<1>3. \A i \in 1 .. Len(u) : Len(s) + i \in 1 .. (Len(s) + Len(u)) /\ t[Len(s) + i] = u[i]
  <2> TAKE i \in 1 .. Len(u)
  <2>1. /\ Len(s) + i \in 1 .. (Len(s) + Len(u)) /\ ~(Len(s) + i <= Len(s))
        /\ (Len(s) + i) - Len(s) = i
    BY <1>1
  <2> QED  BY <1>1, <2>1
<1>4. \A i \in 1 .. (Len(s) + Len(u)) :
         \/ i \in 1 .. Len(s)
         \/ i - Len(s) \in 1 .. Len(u) /\ i = Len(s) + (i - Len(s))
  BY <1>1
<1>5. ToSet(t) = ToSet(s) \cup ToSet(u)
  <2>1. ToSet(s) \cup ToSet(u) \subseteq ToSet(t)  BY <1>1, <1>2, <1>3 DEF ToSet
  <2>2. ToSet(t) \subseteq ToSet(s) \cup ToSet(u)
    <3> SUFFICES ASSUME NEW i \in 1 .. (Len(s) + Len(u)) PROVE t[i] \in ToSet(s) \cup ToSet(u)
      BY <1>1 DEF ToSet
    <3> QED  BY <1>1, <1>2, <1>3, <1>4 DEF ToSet
  <2> QED  BY <2>1, <2>2
<1>6. ASSUME IsInjective(s), IsInjective(u), ToSet(s) \cap ToSet(u) = {},
             NEW i \in DOMAIN t, NEW j \in DOMAIN t, t[i] = t[j]
      PROVE  i = j
  <2>1. \A k \in 1 .. Len(s) : s[k] \in ToSet(s)  BY <1>1 DEF ToSet
  <2>2. \A k \in 1 .. Len(u) : u[k] \in ToSet(u)  BY <1>1 DEF ToSet
  <2>3. CASE i \in 1 .. Len(s) /\ j \in 1 .. Len(s)
    BY <1>1, <1>2, <1>6, <2>3 DEF IsInjective
  <2>4. CASE i \in 1 .. Len(s) /\ j \notin 1 .. Len(s)
    BY <1>1, <1>2, <1>3, <1>4, <1>6, <2>1, <2>2, <2>4
  <2>5. CASE i \notin 1 .. Len(s) /\ j \in 1 .. Len(s)
    BY <1>1, <1>2, <1>3, <1>4, <1>6, <2>1, <2>2, <2>5
  <2>6. CASE i \notin 1 .. Len(s) /\ j \notin 1 .. Len(s)
    <3>1. i - Len(s) \in 1 .. Len(u) /\ j - Len(s) \in 1 .. Len(u)
          /\ u[i - Len(s)] = u[j - Len(s)]
      BY <1>1, <1>4, <1>6, <2>6
    <3>2. i - Len(s) = j - Len(s)  BY <1>1, <1>6, <3>1 DEF IsInjective
    <3> QED  BY <1>1, <3>2
  <2> QED  BY <2>3, <2>4, <2>5, <2>6
<1>7. IsInjective(s) /\ IsInjective(u) /\ ToSet(s) \cap ToSet(u) = {} => IsInjective(t)
  BY <1>6 DEF IsInjective
<1> QED  BY <1>5, <1>7 DEF t

-----------------------------------------------------------------------------
(* Every accepted message is in one place of one live worker.               *)

\* No place of a worker has a message twice, and no two places have the same.
Apart(w) ==
    /\ IsInjective(chan[w]) /\ IsInjective(buffered[w]) /\ IsInjective(inject[w])
    /\ ToSet(chan[w]) \cap ToSet(buffered[w]) = {}
    /\ ToSet(chan[w]) \cap ToSet(inject[w]) = {}
    /\ ToSet(buffered[w]) \cap ToSet(inject[w]) = {}
    /\ item[w] \notin ToSet(chan[w]) \cup ToSet(buffered[w]) \cup ToSet(inject[w])

\* What the workers keep is what is accepted and not settled, once each.
OneHome ==
    /\ \A w \in Worker : Apart(w)
    /\ \A w \in Worker : \A m \in Kept(w) : fate[m] = "accepted"
    /\ \A v, w \in Worker : v # w => Kept(v) \cap Kept(w) = {}
    /\ \A m \in Message : fate[m] = "accepted" => \E w \in Worker : m \in Kept(w)

\* What a worker keeps, by the point its task is at.
Stations ==
    \A w \in Worker :
        /\ pc[w] \notin InTurn => buffered[w] = <<>>
        /\ pc[w] # "turn" => inject[w] = <<>>
        /\ pc[w] \in {"acquire", "ready"} <=> item[w] # None
        /\ ~Live(w) => chan[w] = <<>>

\* A message is offered to try_enqueue once, by one caller.
SendsOnce ==
    /\ \A m \in Message : m > sent => fate[m] = "unsent"
    /\ \A w \in Worker : forward[w] # None =>
           forward[w] <= sent /\ (lockHolder # w => fate[forward[w]] = "unsent")
    /\ \A v, w \in Worker : v # w /\ forward[v] # None => forward[v] # forward[w]

LEMMA KeptAreMessages ==
    ASSUME TypeOK, NEW w \in Worker
    PROVE  /\ Kept(w) \subseteq Message /\ None \notin Kept(w)
           /\ chan[w] \in Seq(Message) /\ buffered[w] \in Seq(Message)
           /\ inject[w] \in Seq(Message) /\ item[w] \in Message \cup {None}
<1>1. /\ chan[w] \in Seq(Message) /\ buffered[w] \in Seq(Message)
      /\ inject[w] \in Seq(Message) /\ item[w] \in Message \cup {None}
  BY DEF TypeOK
<1>2. None \notin Message  BY DEF None, Message
<1> QED  BY <1>1, <1>2, ElementsAreMessages DEF Kept, InHand

\* A worker that is not running keeps nothing.
LEMMA NothingKept ==
    ASSUME TypeOK, Stations, NEW w \in Worker, ~Live(w)
    PROVE  /\ chan[w] = <<>> /\ buffered[w] = <<>> /\ inject[w] = <<>> /\ item[w] = None
           /\ Kept(w) = {}
<1>1. chan[w] = <<>> /\ buffered[w] = <<>> /\ inject[w] = <<>> /\ item[w] = None
  BY DEF Stations, Live, InTurn
<1> QED  BY <1>1, EmptyOnce DEF Kept, InHand

\* One worker gets the messages of In and lets go of those of Out.
LEMMA HomeStep ==
    ASSUME TypeOK, OneHome, NEW w \in Worker,
           NEW In \in SUBSET Message, NEW Out \in SUBSET Message,
           \A m \in In : fate[m] # "accepted",
           Out \subseteq Kept(w),
           Apart(w)', Kept(w)' = (Kept(w) \ Out) \cup In,
           \A v \in Worker \ {w} :
               UNCHANGED <<chan[v], buffered[v], inject[v], item[v]>>,
           \A m \in Message :
               fate'[m] = "accepted" <=> m \in In \/ (fate[m] = "accepted" /\ m \notin Out)
    PROVE  OneHome'
<1>1. \A v \in Worker \ {w} : Kept(v)' = Kept(v) /\ (Apart(v) => Apart(v)')
  BY DEF Kept, InHand, Apart
<1>2. \A v \in Worker : Kept(v) \subseteq Message  BY KeptAreMessages
<1>3. \A v \in Worker : Apart(v)'  BY <1>1 DEF OneHome
<1>4. ASSUME NEW v \in Worker, NEW m \in Kept(v)' PROVE fate'[m] = "accepted"
  <2>1. CASE v = w
    BY <1>2, <1>4, <2>1 DEF OneHome
  <2>2. CASE v # w
    <3>1. m \in Kept(v) /\ m \in Message /\ fate[m] = "accepted" /\ m \notin Kept(w)
      BY <1>1, <1>2, <1>4, <2>2 DEF OneHome
    <3> QED  BY <3>1
  <2> QED  BY <2>1, <2>2
<1>5. ASSUME NEW u \in Worker, NEW v \in Worker, u # v PROVE Kept(u)' \cap Kept(v)' = {}
  <2>1. Kept(u) \cap Kept(v) = {}  BY <1>5 DEF OneHome
  <2>2. \A x \in Worker : Kept(x) \cap In = {}  BY DEF OneHome
  <2>3. CASE u = w  BY <1>1, <1>5, <2>1, <2>2, <2>3
  <2>4. CASE v = w  BY <1>1, <1>5, <2>1, <2>2, <2>4
  <2>5. CASE u # w /\ v # w  BY <1>1, <2>1, <2>5
  <2> QED  BY <2>3, <2>4, <2>5
<1>6. ASSUME NEW m \in Message, fate'[m] = "accepted"
      PROVE  \E v \in Worker : m \in Kept(v)'
  <2>1. CASE m \in In  BY <2>1
  <2>2. CASE m \notin In
    <3>1. fate[m] = "accepted" /\ m \notin Out  BY <1>6, <2>2
    <3>2. PICK v \in Worker : m \in Kept(v)  BY <3>1 DEF OneHome
    <3> QED  BY <1>1, <3>1, <3>2
  <2> QED  BY <2>1, <2>2
<1> QED  BY <1>3, <1>4, <1>5, <1>6 DEF OneHome

\* The same for one message that arrives, and for messages that leave.
LEMMA HomeGets ==
    ASSUME TypeOK, OneHome, NEW w \in Worker, NEW m \in Message, fate[m] # "accepted",
           fate' = [fate EXCEPT ![m] = "accepted"],
           Apart(w)', Kept(w)' = Kept(w) \cup {m},
           \A v \in Worker \ {w} : UNCHANGED <<chan[v], buffered[v], inject[v], item[v]>>
    PROVE  OneHome'
<1> DEFINE In == {m}
           Out == {}
<1>1. \A x \in Message :
         fate'[x] = "accepted" <=> x \in In \/ (fate[x] = "accepted" /\ x \notin Out)
  BY DEF TypeOK
<1>2. /\ In \in SUBSET Message /\ Out \in SUBSET Message /\ Out \subseteq Kept(w)
      /\ \A x \in In : fate[x] # "accepted"
      /\ Kept(w)' = (Kept(w) \ Out) \cup In
  OBVIOUS
<1> HIDE DEF In, Out
<1> QED  BY <1>1, <1>2, HomeStep

LEMMA HomeLets ==
    ASSUME TypeOK, OneHome, NEW w \in Worker, NEW Out \in SUBSET Message,
           Out \subseteq Kept(w), \A m \in Out : fate'[m] # "accepted",
           \A m \in Message \ Out : fate'[m] = fate[m],
           Apart(w)', Kept(w)' = Kept(w) \ Out,
           \A v \in Worker \ {w} : UNCHANGED <<chan[v], buffered[v], inject[v], item[v]>>
    PROVE  OneHome'
<1> DEFINE In == {}
<1>1. \A x \in Message :
         fate'[x] = "accepted" <=> x \in In \/ (fate[x] = "accepted" /\ x \notin Out)
  OBVIOUS
<1>2. /\ In \in SUBSET Message /\ Kept(w)' = (Kept(w) \ Out) \cup In
      /\ \A x \in In : fate[x] # "accepted"
  OBVIOUS
<1> HIDE DEF In
<1> QED  BY <1>1, <1>2, HomeStep

\* A step that moves no message.
LEMMA HomeStill ==
    ASSUME OneHome, UNCHANGED <<intakeVars, fate>>
    PROVE  OneHome'
BY DEF OneHome, Apart, Kept, InHand, intakeVars

\* try_enqueue: the message goes to the end of one worker's channel, or nowhere.
LEMMA TryEnqueueHome ==
    ASSUME TypeOK, IdsInOrder, OneHome, Stations, NEW c, NEW m \in Message, NEW t \in Topic,
           fate[m] = "unsent", TryEnqueue(c, m, t), UNCHANGED <<item, buffered, inject>>
    PROVE  OneHome'
<1>0. fate \in [Message -> Fates]  BY DEF TypeOK
<1>1. CASE Accept(m, t)
  <2>1. PICK w \in Worker : w = queues[t] /\ Live(w)
    BY <1>1 DEF Accept, SenderOpen, TypeOK
  <2>2. /\ chan' = [chan EXCEPT ![w] = Append(chan[w], m)]
        /\ fate' = [fate EXCEPT ![m] = "accepted"]
    BY <1>1, <2>1 DEF Accept
  <2>3. m \notin Kept(w) /\ Apart(w)  BY <2>1 DEF OneHome
  <2>4. m # None  BY DEF Message, None
  <2>5. /\ ToSet(Append(chan[w], m)) = ToSet(chan[w]) \cup {m}
        /\ IsInjective(Append(chan[w], m))
    BY <2>1, <2>3, AppendOnce, KeptAreMessages DEF Kept, Apart
  <2>6. chan'[w] = Append(chan[w], m)  BY <2>1, <2>2 DEF TypeOK
  <2>7. Apart(w)'  BY <2>3, <2>4, <2>5, <2>6 DEF Apart, Kept, InHand
  <2>8. Kept(w)' = Kept(w) \cup {m}  BY <2>5, <2>6 DEF Kept, InHand
  <2>9. \A v \in Worker \ {w} : UNCHANGED <<chan[v], buffered[v], inject[v], item[v]>>
    BY <2>1, <2>2 DEF TypeOK
  <2> QED  BY <2>1, <2>2, <2>7, <2>8, <2>9, HomeGets
<1>2. CASE QueueFull(m, t)
  <2>1. UNCHANGED <<chan, buffered, inject, item>>  BY <1>2 DEF QueueFull
  <2>2. \A x \in Message : fate'[x] = "accepted" <=> fate[x] = "accepted"
    BY <1>0, <1>2 DEF QueueFull
  <2>3. \A v \in Worker : Kept(v)' = Kept(v) /\ (Apart(v) => Apart(v)')
    BY <2>1 DEF Apart, Kept, InHand
  <2>4. \A v \in Worker : Kept(v) \subseteq Message  BY KeptAreMessages
  <2> QED  BY <2>2, <2>3, <2>4 DEF OneHome
<1>3. CASE CreateAndEnqueue(c, m, t)
  <2>1. PICK w \in Worker : w = workers + 1 /\ ~Live(w)
    BY <1>3 DEF CreateAndEnqueue, IdsInOrder, TypeOK, Live
  <2>2. /\ chan' = [chan EXCEPT ![w] = <<m>>]
        /\ fate' = [fate EXCEPT ![m] = "accepted"]
    BY <1>3, <2>1 DEF CreateAndEnqueue
  <2>3. /\ buffered[w] = <<>> /\ inject[w] = <<>> /\ item[w] = None /\ Kept(w) = {}
    BY <2>1, NothingKept
  <2>4. m # None  BY DEF Message, None
  <2>5. chan'[w] = <<m>>  BY <2>1, <2>2 DEF TypeOK
  <2>6. Apart(w)'  BY <2>3, <2>4, <2>5, SingleOnce, EmptyOnce DEF Apart
  <2>7. Kept(w)' = Kept(w) \cup {m}
    BY <2>3, <2>5, SingleOnce, EmptyOnce DEF Kept, InHand
  <2>8. \A v \in Worker \ {w} : UNCHANGED <<chan[v], buffered[v], inject[v], item[v]>>
    BY <2>1, <2>2 DEF TypeOK
  <2> QED  BY <2>1, <2>2, <2>6, <2>7, <2>8, HomeGets
<1> QED  BY <1>1, <1>2, <1>3 DEF TryEnqueue

\* A step in which one worker keeps what it has, in other places.
LEMMA HomeMoves ==
    ASSUME TypeOK, OneHome, NEW w \in Worker, UNCHANGED fate,
           Apart(w)', Kept(w)' = Kept(w),
           \A v \in Worker \ {w} : UNCHANGED <<chan[v], buffered[v], inject[v], item[v]>>
    PROVE  OneHome'
<1> DEFINE Out == {}
<1>1. /\ Out \in SUBSET Message /\ Out \subseteq Kept(w) /\ Kept(w)' = Kept(w) \ Out
      /\ \A m \in Out : fate'[m] # "accepted"
      /\ \A m \in Message \ Out : fate'[m] = fate[m]
  OBVIOUS
<1> HIDE DEF Out
<1> QED  BY <1>1, HomeLets

\* A worker that ends outside a turn leaves nothing behind.
LEMMA ExitHome ==
    ASSUME TypeOK, OneHome, Stations, NEW w \in Worker, pc[w] \notin InTurn, Exit(w)
    PROVE  OneHome'
<1>1. buffered[w] = <<>> /\ inject[w] = <<>>  BY DEF Stations, InTurn
<1>2. chan'[w] = <<>> /\ item'[w] = None /\ UNCHANGED <<buffered, inject>>
  BY DEF Exit, TypeOK
<1>3. Apart(w)'  BY <1>1, <1>2, EmptyOnce DEF Apart
<1>4. Kept(w)' = Kept(w) \ Kept(w)  BY <1>1, <1>2, EmptyOnce DEF Kept, InHand
<1>5. \A v \in Worker \ {w} : UNCHANGED <<chan[v], buffered[v], inject[v], item[v]>>
  BY DEF Exit, TypeOK
<1>6. fate' = [m \in Message |-> IF m \in Kept(w) THEN "lost" ELSE fate[m]]  BY DEF Exit
<1>7. /\ \A m \in Kept(w) : fate'[m] # "accepted"
      /\ \A m \in Message \ Kept(w) : fate'[m] = fate[m]
      /\ Kept(w) \in SUBSET Message
  BY <1>6, KeptAreMessages
<1> QED  BY <1>3, <1>4, <1>5, <1>7, HomeLets

LEMMA RecvHome ==
    ASSUME TypeOK, OneHome, Stations, NEW w \in Worker, Recv(w)
    PROVE  OneHome'
<1>1. /\ item[w] = None /\ chan[w] # <<>>
      /\ buffered[w] = <<>> /\ inject[w] = <<>>
  BY DEF Recv, Stations, InTurn
<1>2. chan'[w] = Tail(chan[w]) /\ item'[w] = Head(chan[w]) /\ UNCHANGED <<buffered, inject, fate>>
  BY DEF Recv, TypeOK
<1>3. /\ ToSet(chan[w]) = ToSet(Tail(chan[w])) \cup {Head(chan[w])}
      /\ IsInjective(Tail(chan[w])) /\ Head(chan[w]) \notin ToSet(Tail(chan[w]))
      /\ Head(chan[w]) # None
  BY <1>1, TailOnce, KeptAreMessages DEF OneHome, Apart, Kept
<1>4. Apart(w)'  BY <1>1, <1>2, <1>3, EmptyOnce DEF Apart
<1>5. Kept(w)' = Kept(w)  BY <1>1, <1>2, <1>3, EmptyOnce DEF Kept, InHand
<1>6. \A v \in Worker \ {w} : UNCHANGED <<chan[v], buffered[v], inject[v], item[v]>>
  BY DEF Recv, TypeOK
<1> QED  BY <1>2, <1>4, <1>5, <1>6, HomeMoves

\* The message in hand is settled: a turn takes it, or a mismatch drops it.
LEMMA SettleHome ==
    ASSUME TypeOK, OneHome, Stations, NEW w \in Worker, pc[w] = "ready",
           NEW f, f # "accepted", fate' = [fate EXCEPT ![item[w]] = f],
           item' = [item EXCEPT ![w] = None], UNCHANGED <<chan, buffered, inject>>
    PROVE  OneHome'
<1>1. item[w] # None /\ item[w] \in Message /\ item'[w] = None
  BY DEF Stations, TypeOK
<1>2. PICK m \in Message : m = item[w]  BY <1>1
<1>3. /\ Apart(w) /\ None \notin ToSet(chan[w]) \cup ToSet(buffered[w]) \cup ToSet(inject[w])
  BY KeptAreMessages DEF OneHome, Kept
<1>4. Apart(w)'  BY <1>1, <1>3 DEF Apart
<1>5. Kept(w)' = Kept(w) \ {m} /\ {m} \subseteq Kept(w)
  BY <1>1, <1>2, <1>3 DEF Kept, InHand, Apart
<1>6. /\ {m} \in SUBSET Message
      /\ \A x \in {m} : fate'[x] # "accepted"
      /\ \A x \in Message \ {m} : fate'[x] = fate[x]
  BY <1>2 DEF TypeOK
<1>7. \A v \in Worker \ {w} : UNCHANGED <<chan[v], buffered[v], inject[v], item[v]>>
  BY DEF TypeOK
<1> QED  BY <1>4, <1>5, <1>6, <1>7, HomeLets

LEMMA TakeDuringTurnHome ==
    ASSUME TypeOK, OneHome, Stations, NEW w \in Worker, TakeDuringTurn(w)
    PROVE  OneHome'
<1>1. /\ chan[w] # <<>> /\ chan' = [chan EXCEPT ![w] = Tail(chan[w])] /\ UNCHANGED item
      /\ pc[w] = "turn"
  BY DEF TakeDuringTurn
<1>2. PICK m \in Message : m = Head(chan[w])
  BY <1>1, KeptAreMessages, HeadTailProperties
<1>3. Inject(w, m) \/ Execute(w, m) \/ SetAside(w, m)
  BY <1>2 DEF TakeDuringTurn
<1>4. chan'[w] = Tail(chan[w])  BY <1>1 DEF TypeOK
<1>5. /\ ToSet(chan[w]) = ToSet(Tail(chan[w])) \cup {m}
      /\ IsInjective(Tail(chan[w])) /\ m \notin ToSet(Tail(chan[w]))
  BY <1>1, <1>2, TailOnce, KeptAreMessages DEF OneHome, Apart
<1>6. /\ Apart(w) /\ m # item[w]
      /\ m \notin ToSet(buffered[w]) /\ m \notin ToSet(inject[w])
      /\ m # None
  BY <1>5, KeptAreMessages DEF OneHome, Apart, Kept
<1>7. /\ ToSet(Append(buffered[w], m)) = ToSet(buffered[w]) \cup {m}
      /\ IsInjective(Append(buffered[w], m))
      /\ ToSet(Append(inject[w], m)) = ToSet(inject[w]) \cup {m}
      /\ IsInjective(Append(inject[w], m))
  BY <1>6, AppendOnce, KeptAreMessages DEF Apart
<1>8. CASE Inject(w, m)
  <2>1. /\ inject' = [inject EXCEPT ![w] = Append(inject[w], m)]
        /\ UNCHANGED <<buffered, fate>>
    BY <1>8 DEF Inject
  <2>2. inject'[w] = Append(inject[w], m)  BY <2>1 DEF TypeOK
  <2>3. Apart(w)'  BY <1>1, <1>4, <1>5, <1>6, <1>7, <2>1, <2>2 DEF Apart
  <2>4. Kept(w)' = Kept(w)  BY <1>1, <1>4, <1>5, <1>7, <2>1, <2>2 DEF Kept, InHand
  <2>5. \A v \in Worker \ {w} : UNCHANGED <<chan[v], buffered[v], inject[v], item[v]>>
    BY <1>1, <2>1 DEF TypeOK
  <2> QED  BY <2>1, <2>3, <2>4, <2>5, HomeMoves
<1>9. ASSUME buffered' = [buffered EXCEPT ![w] = Append(buffered[w], m)],
             UNCHANGED <<inject, fate>>
      PROVE  OneHome'
  <2>1. buffered'[w] = Append(buffered[w], m)  BY <1>9 DEF TypeOK
  <2>2. Apart(w)'  BY <1>1, <1>4, <1>5, <1>6, <1>7, <1>9, <2>1 DEF Apart
  <2>3. Kept(w)' = Kept(w)  BY <1>1, <1>4, <1>5, <1>7, <1>9, <2>1 DEF Kept, InHand
  <2>4. \A v \in Worker \ {w} : UNCHANGED <<chan[v], buffered[v], inject[v], item[v]>>
    BY <1>1, <1>9 DEF TypeOK
  <2> QED  BY <1>9, <2>2, <2>3, <2>4, HomeMoves
<1>10. ASSUME fate' = [fate EXCEPT ![m] = "executed"], UNCHANGED <<buffered, inject>>
       PROVE  OneHome'
  <2>1. Apart(w)'  BY <1>1, <1>4, <1>5, <1>6, <1>10 DEF Apart
  <2>2. Kept(w)' = Kept(w) \ {m} /\ {m} \subseteq Kept(w)
    BY <1>1, <1>4, <1>5, <1>6, <1>10 DEF Kept, InHand
  <2>3. /\ {m} \in SUBSET Message
        /\ \A x \in {m} : fate'[x] # "accepted"
        /\ \A x \in Message \ {m} : fate'[x] = fate[x]
    BY <1>10 DEF TypeOK
  <2>4. \A v \in Worker \ {w} : UNCHANGED <<chan[v], buffered[v], inject[v], item[v]>>
    BY <1>1, <1>10 DEF TypeOK
  <2> QED  BY <2>1, <2>2, <2>3, <2>4, HomeLets
<1> QED  BY <1>3, <1>8, <1>9, <1>10 DEF Execute, SetAside

\* A drain point, and the end of a turn with what it did not fold.
LEMMA FoldHome ==
    ASSUME TypeOK, OneHome, NEW w \in Worker, Fold(w)
    PROVE  OneHome'
<1>1. PICK S \in SUBSET Message : S = ToSet(inject[w])
  BY ElementsAreMessages, KeptAreMessages
<1>2. /\ inject'[w] = <<>> /\ UNCHANGED <<chan, buffered, item>>
      /\ fate' = [m \in Message |-> IF m \in S THEN "taken" ELSE fate[m]]
  BY <1>1 DEF Fold, TypeOK
<1>3. Apart(w)'  BY <1>2, EmptyOnce DEF OneHome, Apart
<1>4. Kept(w)' = Kept(w) \ S /\ S \subseteq Kept(w)
  BY <1>1, <1>2, EmptyOnce DEF OneHome, Apart, Kept, InHand
<1>5. /\ \A m \in S : fate'[m] # "accepted"
      /\ \A m \in Message \ S : fate'[m] = fate[m]
  BY <1>2
<1>6. \A v \in Worker \ {w} : UNCHANGED <<chan[v], buffered[v], inject[v], item[v]>>
  BY DEF Fold, TypeOK
<1> QED  BY <1>3, <1>4, <1>5, <1>6, HomeLets

LEMMA EndTurnHome ==
    ASSUME TypeOK, OneHome, NEW w \in Worker, EndTurn(w)
    PROVE  OneHome'
<1>1. /\ buffered'[w] = buffered[w] \o inject[w] /\ inject'[w] = <<>>
      /\ UNCHANGED <<chan, item, fate>>
  BY DEF EndTurn, Drained, TypeOK
<1>2. /\ ToSet(buffered'[w]) = ToSet(buffered[w]) \cup ToSet(inject[w])
      /\ IsInjective(buffered'[w])
  <2>1. /\ buffered[w] \in Seq(Message) /\ inject[w] \in Seq(Message)
        /\ IsInjective(buffered[w]) /\ IsInjective(inject[w])
        /\ ToSet(buffered[w]) \cap ToSet(inject[w]) = {}
    BY KeptAreMessages DEF OneHome, Apart
  <2>2. /\ ToSet(buffered[w] \o inject[w]) = ToSet(buffered[w]) \cup ToSet(inject[w])
        /\ IsInjective(buffered[w] \o inject[w])
    BY <2>1, ConcatOnce
  <2> QED  BY <1>1, <2>2
<1>3. Apart(w)'  BY <1>1, <1>2, EmptyOnce DEF OneHome, Apart
<1>4. Kept(w)' = Kept(w)  BY <1>1, <1>2, EmptyOnce DEF Kept, InHand
<1>5. \A v \in Worker \ {w} : UNCHANGED <<chan[v], buffered[v], inject[v], item[v]>>
  BY DEF EndTurn, TypeOK
<1> QED  BY <1>1, <1>3, <1>4, <1>5, HomeMoves

LEMMA RequeueHome ==
    ASSUME TypeOK, OneHome, NEW w \in Worker, Requeue(w)
    PROVE  OneHome'
<1>1. PICK m \in Message : m = Head(buffered[w])
  BY KeptAreMessages, HeadTailProperties DEF Requeue
<1>2. /\ buffered[w] # <<>> /\ buffered' = [buffered EXCEPT ![w] = Tail(buffered[w])]
      /\ UNCHANGED <<item, inject>>
  BY DEF Requeue
<1>3. buffered'[w] = Tail(buffered[w])  BY <1>2 DEF TypeOK
<1>4. /\ ToSet(buffered[w]) = ToSet(Tail(buffered[w])) \cup {m}
      /\ IsInjective(Tail(buffered[w])) /\ m \notin ToSet(Tail(buffered[w]))
  BY <1>1, <1>2, TailOnce, KeptAreMessages DEF OneHome, Apart
<1>5. /\ Apart(w) /\ m # item[w] /\ m # None
      /\ m \notin ToSet(chan[w]) /\ m \notin ToSet(inject[w])
  BY <1>4, KeptAreMessages DEF OneHome, Apart, Kept
<1>6. /\ ToSet(Append(chan[w], m)) = ToSet(chan[w]) \cup {m}
      /\ IsInjective(Append(chan[w], m))
  BY <1>5, AppendOnce, KeptAreMessages DEF Apart
<1>7. CASE chan' = [chan EXCEPT ![w] = Append(chan[w], m)] /\ UNCHANGED fate
  <2>1. chan'[w] = Append(chan[w], m)  BY <1>7 DEF TypeOK
  <2>2. Apart(w)'  BY <1>2, <1>3, <1>4, <1>5, <1>6, <2>1 DEF Apart
  <2>3. Kept(w)' = Kept(w)  BY <1>2, <1>3, <1>4, <1>6, <2>1 DEF Kept, InHand
  <2>4. \A v \in Worker \ {w} : UNCHANGED <<chan[v], buffered[v], inject[v], item[v]>>
    BY <1>2, <1>7 DEF TypeOK
  <2> QED  BY <1>7, <2>2, <2>3, <2>4, HomeMoves
<1>8. CASE fate' = [fate EXCEPT ![m] = "overflowed"] /\ UNCHANGED chan
  <2>1. Apart(w)'  BY <1>2, <1>3, <1>4, <1>5, <1>8 DEF Apart
  <2>2. Kept(w)' = Kept(w) \ {m} /\ {m} \subseteq Kept(w)
    BY <1>2, <1>3, <1>4, <1>5, <1>8 DEF Kept, InHand
  <2>3. /\ {m} \in SUBSET Message
        /\ \A x \in {m} : fate'[x] # "accepted"
        /\ \A x \in Message \ {m} : fate'[x] = fate[x]
    BY <1>8 DEF TypeOK
  <2>4. \A v \in Worker \ {w} : UNCHANGED <<chan[v], buffered[v], inject[v], item[v]>>
    BY <1>2, <1>8 DEF TypeOK
  <2> QED  BY <2>1, <2>2, <2>3, <2>4, HomeLets
<1> QED  BY <1>1, <1>7, <1>8 DEF Requeue

LEMMA NextHome ==
    ASSUME TypeOK, IdsInOrder, OneHome, Stations, SendsOnce, [Next]_vars
    PROVE  OneHome'
<1>1. ASSUME NEW t \in Topic, NEW kind \in Kinds, Enqueue(t, kind)  PROVE OneHome'
  <2>1. PICK m \in Message : m = sent + 1
    BY <1>1, BoundsAssumption DEF Enqueue, TypeOK, Message
  <2>2. fate[m] = "unsent"  BY <2>1, BoundsAssumption DEF SendsOnce, TypeOK
  <2>3. TryEnqueue(Router, m, t) /\ UNCHANGED <<item, buffered, inject>>
    BY <1>1, <2>1 DEF Enqueue
  <2> QED  BY <2>2, <2>3, TryEnqueueHome
<1>2. ASSUME NEW w \in Worker, Forward(w)  PROVE OneHome'
  <2>1. PICK m \in Message : m = forward[w]  BY <1>2 DEF Forward, TypeOK
  <2>2. fate[m] = "unsent"  BY <1>2, <2>1 DEF Forward, SendsOnce
  <2>3. PICK t \in Topic : t = msg[m].topic  BY <2>1 DEF TypeOK
  <2>4. TryEnqueue(w, m, t) /\ UNCHANGED <<item, buffered, inject>>
    BY <1>2, <2>1, <2>3 DEF Forward
  <2> QED  BY <2>2, <2>4, TryEnqueueHome
<1>3. ASSUME NEW w \in Worker, StopWaiting(w) \/ DropClosed(w)  PROVE OneHome'
  <2>1. pc[w] \notin InTurn /\ Exit(w)
    BY <1>3 DEF StopWaiting, DropClosed, InTurn
  <2> QED  BY <2>1, ExitHome
<1>4. ASSUME NEW w \in Worker, DropMismatched(w) \/ BeginTurn(w)  PROVE OneHome'
  <2>1. /\ pc[w] = "ready" /\ item' = [item EXCEPT ![w] = None]
        /\ UNCHANGED <<chan, buffered, inject>>
        /\ \/ fate' = [fate EXCEPT ![item[w]] = "mismatched"]
           \/ fate' = [fate EXCEPT ![item[w]] = "taken"]
    BY <1>4 DEF DropMismatched, BeginTurn
  <2> QED  BY <2>1, SettleHome
<1>5. ASSUME NEW w \in Worker, Acquire(w) \/ FinishTurn(w)  PROVE OneHome'
  BY <1>5, HomeStill DEF Acquire, FinishTurn
<1>6. ASSUME NEW w \in Worker, WorkerStep(w)  PROVE OneHome'
  BY <1>2, <1>3, <1>4, <1>5, <1>6, RecvHome, TakeDuringTurnHome, FoldHome, EndTurnHome,
     RequeueHome
     DEF WorkerStep
<1>7. ASSUME NEW w \in Worker, NEW t \in Topic, StartForward(w, t)  PROVE OneHome'
  BY <1>7, HomeStill DEF StartForward
<1>8. ASSUME NEW t \in Topic, NEW by \in Worker \cup {None}, CloseMark(t, by)  PROVE OneHome'
  BY <1>8, HomeStill DEF CloseMark
<1>9. ASSUME NEW t \in Topic, CancelTopic(t) \/ CloseStep(t)  PROVE OneHome'
  BY <1>9, HomeStill DEF CancelTopic, CloseStep, CloseFails, CloseToken, CloseQueue
<1>10. CASE EnqueueReturns \/ ShutdownBegin \/ ShutdownStep \/ UNCHANGED vars
  BY <1>10, HomeStill
     DEF EnqueueReturns, ShutdownBegin, ShutdownStep, ShutdownTokens, ShutdownQueues,
         ShutdownHandles, ShutdownEnds, vars
<1> QED  BY <1>1, <1>6, <1>7, <1>8, <1>9, <1>10 DEF Next

\* A worker that moves keeps what its new station allows.
LEMMA StationsStep ==
    ASSUME TypeOK, Stations, NEW w \in Worker, NEW l,
           pc' = [pc EXCEPT ![w] = l],
           l \notin InTurn => buffered'[w] = <<>>,
           l # "turn" => inject'[w] = <<>>,
           l \in {"acquire", "ready"} <=> item'[w] # None,
           l \in {"unborn", "done"} => chan'[w] = <<>>,
           \A v \in Worker \ {w} : UNCHANGED <<buffered[v], inject[v], item[v], chan[v]>>
    PROVE  Stations'
<1>1. \A v \in Worker : pc'[v] = IF v = w THEN l ELSE pc[v]  BY DEF TypeOK
<1>2. ASSUME NEW v \in Worker
      PROVE  /\ pc'[v] \notin InTurn => buffered'[v] = <<>>
             /\ pc'[v] # "turn" => inject'[v] = <<>>
             /\ pc'[v] \in {"acquire", "ready"} <=> item'[v] # None
             /\ pc'[v] \in {"unborn", "done"} => chan'[v] = <<>>
  BY <1>1 DEF Stations, Live
<1> QED  BY <1>2 DEF Stations, Live

LEMMA TryEnqueueStations ==
    ASSUME TypeOK, IdsInOrder, Stations, NEW c, NEW m \in Message, NEW t \in Topic,
           TryEnqueue(c, m, t), UNCHANGED <<item, buffered, inject>>
    PROVE  Stations'
<1>1. CASE Accept(m, t)
  <2>1. PICK w \in Worker : w = queues[t] /\ Live(w)
    BY <1>1 DEF Accept, SenderOpen, TypeOK
  <2>2. UNCHANGED pc /\ \A v \in Worker : ~Live(v) => chan'[v] = chan[v]
    BY <1>1, <2>1 DEF Accept, TypeOK
  <2> QED  BY <2>2 DEF Stations, Live
<1>2. CASE QueueFull(m, t)
  BY <1>2 DEF QueueFull, Stations, Live
<1>3. CASE CreateAndEnqueue(c, m, t)
  <2>1. PICK w \in Worker : w = workers + 1 /\ ~Live(w)
    BY <1>3 DEF CreateAndEnqueue, IdsInOrder, TypeOK, Live
  <2>2. /\ pc' = [pc EXCEPT ![w] = "start"]
        /\ \A v \in Worker \ {w} : UNCHANGED <<buffered[v], inject[v], item[v], chan[v]>>
    BY <1>3, <2>1 DEF CreateAndEnqueue, TypeOK
  <2>3. buffered'[w] = <<>> /\ inject'[w] = <<>> /\ item'[w] = None
    BY <2>1, NothingKept
  <2> QED  BY <2>2, <2>3, StationsStep DEF InTurn
<1> QED  BY <1>1, <1>2, <1>3 DEF TryEnqueue

LEMMA WorkerStepStations ==
    ASSUME TypeOK, IdsInOrder, Stations, NEW w \in Worker, WorkerStep(w)
    PROVE  Stations'
<1>0. /\ pc[w] \notin InTurn => buffered[w] = <<>>
      /\ pc[w] # "turn" => inject[w] = <<>>
      /\ pc[w] \in {"acquire", "ready"} <=> item[w] # None
      /\ chan[w] \in Seq(Message)
  BY DEF Stations, TypeOK
<1>1. CASE Acquire(w)
  <2>1. UNCHANGED intakeVars /\ pc[w] \in Waiting  BY <1>1 DEF Acquire
  <2>2. CASE pc[w] = "start"
    <3>1. pc' = [pc EXCEPT ![w] = "top"]  BY <1>1, <2>2 DEF Acquire
    <3> QED  BY <1>0, <2>1, <2>2, <3>1, StationsStep DEF intakeVars, InTurn
  <2>3. CASE pc[w] = "acquire"
    <3>1. pc' = [pc EXCEPT ![w] = "ready"]  BY <1>1, <2>3 DEF Acquire
    <3> QED  BY <1>0, <2>1, <2>3, <3>1, StationsStep DEF intakeVars, InTurn
  <2> QED  BY <2>1, <2>2, <2>3 DEF Waiting
<1>2. CASE Recv(w)
  <2>1. /\ item'[w] = Head(chan[w]) /\ UNCHANGED <<buffered, inject>>
        /\ \A v \in Worker \ {w} : UNCHANGED <<item[v], chan[v]>>
    BY <1>2 DEF Recv, TypeOK
  <2>2. item'[w] # None
    <3>1. chan[w] # <<>>  BY <1>2 DEF Recv
    <3>2. Head(chan[w]) \in Message  BY <1>0, <3>1, HeadTailProperties
    <3> QED  BY <2>1, <3>2 DEF Message, None
  <2>3. CASE pc[w] = "top"
    <3>1. pc' = [pc EXCEPT ![w] = "ready"]  BY <1>2, <2>3 DEF Recv
    <3> QED  BY <1>0, <2>1, <2>2, <2>3, <3>1, StationsStep DEF InTurn
  <2>4. CASE pc[w] = "idle"
    <3>1. pc' = [pc EXCEPT ![w] = "acquire"]  BY <1>2, <2>4 DEF Recv
    <3> QED  BY <1>0, <2>1, <2>2, <2>4, <3>1, StationsStep DEF InTurn
  <2> QED  BY <1>2, <2>3, <2>4 DEF Recv
<1>3. CASE StopWaiting(w) \/ DropClosed(w)
  <2>1. pc[w] \notin InTurn /\ Exit(w)
    BY <1>3 DEF StopWaiting, DropClosed, InTurn
  <2>2. /\ pc' = [pc EXCEPT ![w] = "done"] /\ chan'[w] = <<>> /\ item'[w] = None
        /\ UNCHANGED <<buffered, inject>>
        /\ \A v \in Worker \ {w} : UNCHANGED <<item[v], chan[v]>>
    BY <2>1 DEF Exit, TypeOK
  <2> QED  BY <1>0, <2>1, <2>2, StationsStep DEF InTurn
<1>4. CASE DropMismatched(w) \/ BeginTurn(w)
  <2>1. /\ pc[w] = "ready" /\ item'[w] = None /\ UNCHANGED <<chan, buffered, inject>>
        /\ \A v \in Worker \ {w} : UNCHANGED item[v]
        /\ pc' = [pc EXCEPT ![w] = "top"] \/ pc' = [pc EXCEPT ![w] = "turn"]
    BY <1>4 DEF DropMismatched, BeginTurn, TypeOK
  <2> QED  BY <1>0, <2>1, StationsStep DEF InTurn
<1>5. CASE TakeDuringTurn(w) \/ Fold(w)
  <2>1. /\ pc[w] = "turn" /\ UNCHANGED <<pc, item>>
        /\ \A v \in Worker \ {w} : UNCHANGED <<buffered[v], inject[v], chan[v]>>
    BY <1>5 DEF TakeDuringTurn, Fold, Inject, Execute, SetAside, TypeOK
  <2> QED  BY <2>1 DEF Stations, Live, InTurn
<1>6. CASE Forward(w)
  <2>1. forward[w] \in Message /\ msg[forward[w]].topic \in Topic
    BY <1>6 DEF Forward, TypeOK
  <2> QED  BY <1>6, <2>1, TryEnqueueStations DEF Forward
<1>7. CASE EndTurn(w)
  <2>1. /\ pc[w] = "turn" /\ pc' = [pc EXCEPT ![w] = "requeue"] /\ inject'[w] = <<>>
        /\ UNCHANGED <<item, chan>>
        /\ \A v \in Worker \ {w} : UNCHANGED <<buffered[v], inject[v]>>
    BY <1>7 DEF EndTurn, Drained, TypeOK
  <2> QED  BY <1>0, <2>1, StationsStep DEF InTurn
<1>8. CASE Requeue(w)
  <2>1. /\ pc[w] = "requeue" /\ UNCHANGED <<pc, item, inject>>
        /\ \A v \in Worker \ {w} : UNCHANGED <<buffered[v], chan[v]>>
    BY <1>8 DEF Requeue, TypeOK
  <2> QED  BY <2>1 DEF Stations, Live, InTurn
<1>9. CASE FinishTurn(w)
  <2>1. /\ pc[w] = "requeue" /\ pc' = [pc EXCEPT ![w] = "idle"] /\ buffered[w] = <<>>
        /\ UNCHANGED intakeVars
    BY <1>9 DEF FinishTurn
  <2> QED  BY <1>0, <2>1, StationsStep DEF InTurn, intakeVars
<1> QED  BY <1>1, <1>2, <1>3, <1>4, <1>5, <1>6, <1>7, <1>8, <1>9 DEF WorkerStep

LEMMA NextStations ==
    ASSUME TypeOK, IdsInOrder, Stations, [Next]_vars
    PROVE  Stations'
<1>0. ASSUME UNCHANGED <<pc, intakeVars>> PROVE Stations'
  BY <1>0 DEF Stations, Live, intakeVars
<1>1. ASSUME NEW t \in Topic, NEW kind \in Kinds, Enqueue(t, kind)  PROVE Stations'
  <2>1. sent + 1 \in Message  BY <1>1, BoundsAssumption DEF Enqueue, TypeOK, Message
  <2> QED  BY <1>1, <2>1, TryEnqueueStations DEF Enqueue
<1>2. ASSUME NEW w \in Worker, NEW t \in Topic, StartForward(w, t)  PROVE Stations'
  BY <1>0, <1>2 DEF StartForward
<1>3. ASSUME NEW t \in Topic, NEW by \in Worker \cup {None}, CloseMark(t, by)  PROVE Stations'
  BY <1>0, <1>3 DEF CloseMark
<1>4. ASSUME NEW t \in Topic, CancelTopic(t) \/ CloseStep(t)  PROVE Stations'
  BY <1>0, <1>4 DEF CancelTopic, CloseStep, CloseFails, CloseToken, CloseQueue
<1>5. CASE EnqueueReturns \/ ShutdownBegin \/ ShutdownStep \/ UNCHANGED vars
  BY <1>0, <1>5
     DEF EnqueueReturns, ShutdownBegin, ShutdownStep, ShutdownTokens, ShutdownQueues,
         ShutdownHandles, ShutdownEnds, vars
<1> QED  BY <1>1, <1>2, <1>3, <1>4, <1>5, WorkerStepStations DEF Next

-----------------------------------------------------------------------------
(* What a step does to the fate of the messages.                            *)

Waits   == {m \in Message : fate[m] = "accepted"}
Reads   == {m \in Message : fate[m] = "taken"}
Drops   == {m \in Message : fate[m] \in Settled \ {"taken"}}
InTurns == {w \in Worker : pc[w] \in InTurn}
Turns   == Cardinality(InTurns)

\* The step settles the messages of S, which were waiting.
Settles(S, f) ==
    /\ S \in SUBSET Waits /\ f \in Settled
    /\ fate' = [m \in Message |-> IF m \in S THEN f ELSE fate[m]]

\* Of what a worker keeps, any one message can be settled.
LEMMA SettlesOne ==
    ASSUME TypeOK, OneHome, NEW w \in Worker, NEW m \in Kept(w), NEW f \in Settled,
           fate' = [fate EXCEPT ![m] = f]
    PROVE  Settles({m}, f)
<1>1. m \in Waits  BY KeptAreMessages DEF OneHome, Waits
<1>2. fate' = [x \in Message |-> IF x \in {m} THEN f ELSE fate[x]]
  BY <1>1 DEF TypeOK, Waits
<1> QED  BY <1>1, <1>2 DEF Settles

LEMMA ExitSettles ==
    ASSUME TypeOK, OneHome, NEW w \in Worker, Exit(w)
    PROVE  Settles(Kept(w), "lost")
BY KeptAreMessages DEF OneHome, Waits, Settles, Exit, Settled

LEMMA FoldSettles ==
    ASSUME TypeOK, OneHome, NEW w \in Worker, Fold(w)
    PROVE  Settles(ToSet(inject[w]), "taken")
<1>1. ToSet(inject[w]) \in SUBSET Waits
  BY KeptAreMessages DEF OneHome, Waits, Kept
<1>2. fate' = [m \in Message |-> IF m \in ToSet(inject[w]) THEN "taken" ELSE fate[m]]
  BY DEF Fold
<1> QED  BY <1>1, <1>2 DEF Settles, Settled

LEMMA ItemSettles ==
    ASSUME TypeOK, OneHome, Stations, NEW w \in Worker, DropMismatched(w) \/ BeginTurn(w)
    PROVE  /\ item[w] \in Waits
           /\ DropMismatched(w) => Settles({item[w]}, "mismatched")
           /\ BeginTurn(w) => Settles({item[w]}, "taken")
<1>1. item[w] \in Kept(w)
  BY DEF DropMismatched, BeginTurn, Stations, Kept, InHand
<1>2. item[w] \in Waits  BY <1>1, KeptAreMessages DEF OneHome, Waits
<1>3. CASE DropMismatched(w)
  <2>1. fate' = [fate EXCEPT ![item[w]] = "mismatched"]  BY <1>3 DEF DropMismatched
  <2>2. Settles({item[w]}, "mismatched")  BY <1>1, <2>1, SettlesOne DEF Settled
  <2> QED  BY <1>2, <1>3, <2>2 DEF DropMismatched, BeginTurn
<1>4. CASE BeginTurn(w)
  <2>1. fate' = [fate EXCEPT ![item[w]] = "taken"]  BY <1>4 DEF BeginTurn
  <2>2. Settles({item[w]}, "taken")  BY <1>1, <2>1, SettlesOne DEF Settled
  <2> QED  BY <1>2, <1>4, <2>2 DEF DropMismatched, BeginTurn
<1> QED  BY <1>3, <1>4

LEMMA TakeDuringTurnSettles ==
    ASSUME TypeOK, OneHome, NEW w \in Worker, TakeDuringTurn(w)
    PROVE  UNCHANGED fate \/ \E S \in SUBSET Waits : Settles(S, "executed")
<1>1. Head(chan[w]) \in Kept(w)
  BY TailOnce, KeptAreMessages DEF TakeDuringTurn, Kept
<1>2. UNCHANGED fate \/ fate' = [fate EXCEPT ![Head(chan[w])] = "executed"]
  BY DEF TakeDuringTurn, Inject, Execute, SetAside
<1>3. ASSUME fate' = [fate EXCEPT ![Head(chan[w])] = "executed"]
      PROVE  Settles({Head(chan[w])}, "executed")
  BY <1>1, <1>3, SettlesOne DEF Settled
<1> QED  BY <1>2, <1>3 DEF Settles

LEMMA RequeueSettles ==
    ASSUME TypeOK, OneHome, NEW w \in Worker, Requeue(w)
    PROVE  UNCHANGED fate \/ \E S \in SUBSET Waits : Settles(S, "overflowed")
<1>1. Head(buffered[w]) \in Kept(w)
  BY TailOnce, KeptAreMessages DEF Requeue, Kept
<1>2. UNCHANGED fate \/ fate' = [fate EXCEPT ![Head(buffered[w])] = "overflowed"]
  BY DEF Requeue
<1>3. ASSUME fate' = [fate EXCEPT ![Head(buffered[w])] = "overflowed"]
      PROVE  Settles({Head(buffered[w])}, "overflowed")
  BY <1>1, <1>3, SettlesOne DEF Settled
<1> QED  BY <1>2, <1>3 DEF Settles

-----------------------------------------------------------------------------
(* A message is offered once.                                               *)

\* A step outside try_enqueue settles what waited, and offers nothing.
LEMMA SendsStill ==
    ASSUME TypeOK, SendsOnce, UNCHANGED <<forward, lockHolder, sent>>,
           UNCHANGED fate \/ \E S \in SUBSET Waits, f \in Settled : Settles(S, f)
    PROVE  SendsOnce'
<1>1. \A m \in Message : fate[m] = "unsent" => fate'[m] = "unsent"
  BY DEF Settles, Waits
<1>2. \A w \in Worker : forward[w] # None => forward[w] \in Message
  BY DEF TypeOK
<1> QED  BY <1>1, <1>2 DEF SendsOnce

LEMMA TryEnqueueFate ==
    ASSUME NEW c, NEW m \in Message, NEW t \in Topic, TryEnqueue(c, m, t)
    PROVE  /\ \/ fate' = [fate EXCEPT ![m] = "accepted"]
              \/ fate' = [fate EXCEPT ![m] = "rejected"]
           /\ lockHolder = None /\ lockHolder' \in {None, c}
BY DEF TryEnqueue, Accept, QueueFull, CreateAndEnqueue

LEMMA NextSends ==
    ASSUME TypeOK, OneHome, Stations, SendsOnce, [Next]_vars
    PROVE  SendsOnce'
<1>0. /\ sent \in Nat /\ fate \in [Message -> Fates]
      /\ forward \in [Worker -> Message \cup {None}]
      /\ \A w \in Worker : w \in Nat /\ w # None /\ w # Router
      /\ \A m \in Message : m \in Nat /\ m # None
  BY BoundsAssumption DEF TypeOK, Worker, Message, None, Router
<1>1. ASSUME NEW t \in Topic, NEW kind \in Kinds, Enqueue(t, kind)  PROVE SendsOnce'
  <2>1. PICK m \in Message : m = sent + 1
    BY <1>1, BoundsAssumption DEF Enqueue, TypeOK, Message
  <2>2. /\ \/ fate' = [fate EXCEPT ![m] = "accepted"]
           \/ fate' = [fate EXCEPT ![m] = "rejected"]
        /\ lockHolder = None /\ lockHolder' \in {None, Router}
        /\ sent' = sent + 1 /\ UNCHANGED forward
    BY <1>1, <2>1, TryEnqueueFate DEF Enqueue
  <2>3. \A x \in Message : x # m => fate'[x] = fate[x]  BY <1>0, <2>2
  <2>4. \A x \in Message : x > sent' => x > sent /\ x # m  BY <1>0, <2>1, <2>2
  <2>5. \A w \in Worker : forward[w] # None =>
            /\ forward[w] \in Message /\ forward[w] <= sent' /\ forward[w] # m
            /\ fate[forward[w]] = "unsent"
    <3> SUFFICES ASSUME NEW w \in Worker, forward[w] # None
                 PROVE  /\ forward[w] \in Message /\ forward[w] <= sent'
                        /\ forward[w] # m /\ fate[forward[w]] = "unsent"
      OBVIOUS
    <3>1. forward[w] \in Message /\ forward[w] \in Nat  BY <1>0
    <3>2. forward[w] <= sent /\ fate[forward[w]] = "unsent"
      BY <1>0, <2>2 DEF SendsOnce
    <3> QED  BY <1>0, <2>1, <2>2, <3>1, <3>2
  <2>6. \A x \in Message : x > sent' => fate'[x] = "unsent"
    BY <2>3, <2>4 DEF SendsOnce
  <2>7. \A w \in Worker : forward'[w] # None =>
            forward'[w] <= sent' /\ fate'[forward'[w]] = "unsent"
    BY <2>2, <2>3, <2>5
  <2>8. \A v, w \in Worker : v # w /\ forward'[v] # None => forward'[v] # forward'[w]
    BY <2>2 DEF SendsOnce
  <2> QED  BY <2>6, <2>7, <2>8 DEF SendsOnce
<1>2. ASSUME NEW w \in Worker, Forward(w)  PROVE SendsOnce'
  <2>1. PICK m \in Message : m = forward[w]  BY <1>2 DEF Forward, TypeOK
  <2>2. PICK t \in Topic : t = msg[m].topic  BY <2>1 DEF TypeOK
  <2>3. /\ \/ fate' = [fate EXCEPT ![m] = "accepted"]
           \/ fate' = [fate EXCEPT ![m] = "rejected"]
        /\ lockHolder = None /\ lockHolder' \in {None, w}
        /\ forward' = IF lockHolder' = w THEN forward ELSE [forward EXCEPT ![w] = None]
        /\ UNCHANGED sent
    BY <1>2, <2>1, <2>2, TryEnqueueFate DEF Forward
  <2>4. \A x \in Message : x # m => fate'[x] = fate[x]  BY <1>0, <2>3
  <2>5. m <= sent  BY <1>0, <2>1 DEF SendsOnce
  <2>6. /\ \A v \in Worker : v # w => forward'[v] = forward[v]
        /\ forward'[w] = forward[w] \/ forward'[w] = None
        /\ lockHolder' # w => forward'[w] = None
    BY <1>0, <2>3
  <2>7. \A v \in Worker : v # w /\ forward[v] # None =>
            /\ forward[v] \in Message /\ forward[v] <= sent /\ forward[v] # m
            /\ fate[forward[v]] = "unsent"
    BY <1>0, <2>1, <2>3 DEF SendsOnce
  <2>8. \A x \in Message : x > sent => fate'[x] = "unsent"
    BY <1>0, <2>4, <2>5 DEF SendsOnce
  <2>9. \A v \in Worker : forward'[v] # None =>
            forward'[v] <= sent' /\ (lockHolder' # v => fate'[forward'[v]] = "unsent")
    BY <2>1, <2>3, <2>4, <2>5, <2>6, <2>7
  <2>10. \A u, v \in Worker : u # v /\ forward'[u] # None => forward'[u] # forward'[v]
    BY <2>6 DEF SendsOnce
  <2> QED  BY <2>3, <2>8, <2>9, <2>10 DEF SendsOnce
<1>3. ASSUME NEW w \in Worker, NEW t \in Topic, StartForward(w, t)  PROVE SendsOnce'
  <2>1. PICK m \in Message : m = sent + 1
    BY <1>3, BoundsAssumption DEF StartForward, TypeOK, Message
  <2>2. /\ sent' = sent + 1 /\ UNCHANGED <<fate, lockHolder>>
        /\ forward' = [forward EXCEPT ![w] = m]
    BY <1>3, <2>1 DEF StartForward
  <2>3. \A v \in Worker : forward'[v] = IF v = w THEN m ELSE forward[v]
    BY <1>0, <2>2
  <2>4. /\ fate[m] = "unsent" /\ m <= sent' /\ m # None
        /\ \A v \in Worker : forward[v] # None => forward[v] <= sent' /\ forward[v] # m
        /\ \A x \in Message : x > sent' => x > sent
    <3>1. fate[m] = "unsent" /\ m <= sent' /\ m # None
      BY <1>0, <2>1, <2>2 DEF SendsOnce
    <3>2. ASSUME NEW v \in Worker, forward[v] # None
          PROVE  forward[v] <= sent' /\ forward[v] # m
      <4>1. forward[v] \in Nat /\ forward[v] <= sent  BY <1>0, <3>2 DEF SendsOnce
      <4> QED  BY <1>0, <2>1, <2>2, <4>1
    <3>3. \A x \in Message : x > sent' => x > sent  BY <1>0, <2>2
    <3> QED  BY <3>1, <3>2, <3>3
  <2>5. \A x \in Message : x > sent' => fate'[x] = "unsent"
    BY <2>2, <2>4 DEF SendsOnce
  <2>6. \A v \in Worker : forward'[v] # None =>
            forward'[v] <= sent' /\ (lockHolder' # v => fate'[forward'[v]] = "unsent")
    <3> SUFFICES ASSUME NEW v \in Worker, forward'[v] # None
                 PROVE  /\ forward'[v] <= sent'
                        /\ lockHolder' # v => fate'[forward'[v]] = "unsent"
      OBVIOUS
    <3>1. CASE v = w  BY <2>2, <2>3, <2>4, <3>1
    <3>2. CASE v # w
      <4>1. forward'[v] = forward[v] /\ forward[v] # None  BY <2>3, <3>2
      <4>2. lockHolder # v => fate[forward[v]] = "unsent"  BY <4>1 DEF SendsOnce
      <4> QED  BY <2>2, <2>4, <4>1, <4>2
    <3> QED  BY <3>1, <3>2
  <2>7. \A u, v \in Worker : u # v /\ forward'[u] # None => forward'[u] # forward'[v]
    BY <2>3, <2>4 DEF SendsOnce
  <2> QED  BY <2>5, <2>6, <2>7 DEF SendsOnce
<1>4. CASE EnqueueReturns
  <2>1. /\ lockHolder' = None /\ UNCHANGED <<sent, fate>>
        /\ \A v \in Worker : forward'[v] = IF v = lockHolder THEN None ELSE forward[v]
    BY <1>4 DEF EnqueueReturns
  <2> QED  BY <2>1 DEF SendsOnce
<1>5. ASSUME NEW w \in Worker, StopWaiting(w) \/ DropClosed(w)  PROVE SendsOnce'
  <2>1. Exit(w) /\ UNCHANGED <<forward, lockHolder, sent>>
    BY <1>5 DEF StopWaiting, DropClosed, Exit, sendVars
  <2> QED  BY <2>1, ExitSettles, SendsStill DEF Settles
<1>6. ASSUME NEW w \in Worker, DropMismatched(w) \/ BeginTurn(w)  PROVE SendsOnce'
  <2>1. UNCHANGED <<forward, lockHolder, sent>>
    BY <1>6 DEF DropMismatched, BeginTurn, sendVars
  <2> QED  BY <1>6, <2>1, ItemSettles, SendsStill DEF Settles
<1>7. ASSUME NEW w \in Worker, TakeDuringTurn(w)  PROVE SendsOnce'
  <2>1. UNCHANGED <<forward, lockHolder, sent>>  BY <1>7 DEF TakeDuringTurn
  <2> QED  BY <1>7, <2>1, TakeDuringTurnSettles, SendsStill DEF Settles
<1>8. ASSUME NEW w \in Worker, Fold(w)  PROVE SendsOnce'
  <2>1. UNCHANGED <<forward, lockHolder, sent>>  BY <1>8 DEF Fold, sendVars
  <2> QED  BY <1>8, <2>1, FoldSettles, SendsStill DEF Settles
<1>9. ASSUME NEW w \in Worker, Requeue(w)  PROVE SendsOnce'
  <2>1. UNCHANGED <<forward, lockHolder, sent>>  BY <1>9 DEF Requeue, sendVars
  <2> QED  BY <1>9, <2>1, RequeueSettles, SendsStill DEF Settles
<1>10. ASSUME NEW w \in Worker, Acquire(w) \/ Recv(w) \/ EndTurn(w) \/ FinishTurn(w)
       PROVE  SendsOnce'
  BY <1>10, SendsStill DEF Acquire, Recv, EndTurn, FinishTurn, sendVars
<1>11. ASSUME NEW t \in Topic, CancelTopic(t) \/ CloseStep(t)  PROVE SendsOnce'
  BY <1>11, SendsStill
     DEF CancelTopic, CloseStep, CloseFails, CloseToken, CloseQueue, sendVars
<1>12. ASSUME NEW t \in Topic, NEW by \in Worker \cup {None}, CloseMark(t, by)
       PROVE  SendsOnce'
  BY <1>12, SendsStill DEF CloseMark, sendVars
<1>13. CASE ShutdownBegin \/ ShutdownStep \/ UNCHANGED vars
  BY <1>13, SendsStill
     DEF ShutdownBegin, ShutdownStep, ShutdownTokens, ShutdownQueues, ShutdownHandles,
         ShutdownEnds, vars, sendVars
<1>14. ASSUME NEW w \in Worker, WorkerStep(w)  PROVE SendsOnce'
  BY <1>2, <1>5, <1>6, <1>7, <1>8, <1>9, <1>10, <1>14 DEF WorkerStep
<1> QED  BY <1>1, <1>3, <1>4, <1>11, <1>12, <1>13, <1>14 DEF Next

-----------------------------------------------------------------------------
(* The invariant of the messages.                                           *)

PlacesInv == Stations /\ OneHome /\ SendsOnce

LEMMA InitPlaces == Init => PlacesInv
<1> SUFFICES ASSUME Init PROVE PlacesInv  OBVIOUS
<1>1. Stations  BY DEF Init, Stations, Live, InTurn
<1>2. \A w \in Worker :
         /\ chan[w] = <<>> /\ buffered[w] = <<>> /\ inject[w] = <<>> /\ item[w] = None
         /\ forward[w] = None
  BY DEF Init
<1>3. \A w \in Worker : Apart(w) /\ Kept(w) = {}
  BY <1>2, EmptyOnce DEF Apart, Kept, InHand
<1>4. \A m \in Message : fate[m] = "unsent"  BY DEF Init
<1>5. OneHome  BY <1>3, <1>4 DEF OneHome
<1>6. SendsOnce  BY <1>2, <1>4 DEF SendsOnce
<1> QED  BY <1>1, <1>5, <1>6 DEF PlacesInv

LEMMA PlacesInvariant == Spec => [](IInv /\ PlacesInv)
<1>1. IInv /\ PlacesInv /\ [Next]_vars => PlacesInv'
  BY NextStations, NextHome, NextSends DEF IInv, PlacesInv
<1> QED  BY InitPlaces, IInvInvariant, <1>1, PTL DEF Spec

\* A sequence without repetition has a message once or not at all.
LEMMA OccursOnce ==
    ASSUME NEW s \in Seq(Message), IsInjective(s), NEW m
    PROVE  Cardinality({i \in 1 .. Len(s) : s[i] = m}) = IF m \in ToSet(s) THEN 1 ELSE 0
<1> DEFINE I == {i \in 1 .. Len(s) : s[i] = m}
<1>0. DOMAIN s = 1 .. Len(s)  BY LenProperties
<1>1. CASE m \in ToSet(s)
  <2>1. PICK i \in 1 .. Len(s) : s[i] = m  BY <1>0, <1>1 DEF ToSet
  <2>2. I = {i}  BY <1>0, <2>1 DEF IsInjective
  <2> QED  BY <1>1, <2>2, FS_Singleton
<1>2. CASE m \notin ToSet(s)
  <2>1. I = {}  BY <1>0, <1>2 DEF ToSet
  <2> QED  BY <1>2, <2>1, FS_EmptySet
<1> QED  BY <1>1, <1>2

LEMMA PlacedOnce ==
    ASSUME IInv, PlacesInv
    PROVE  AcceptedInOnePlace
<1> USE DEF IInv, PlacesInv
<1> SUFFICES ASSUME NEW m \in Message
             PROVE  LET at(s, w) == Cardinality({i \in 1 .. Len(s[w]) : s[w][i] = m})
                        here(w)  == at(chan, w) + at(buffered, w) + at(inject, w)
                                      + (IF item[w] = m THEN 1 ELSE 0)
                        holders  == {w \in Worker : here(w) > 0}
                    IN  IF fate[m] = "accepted"
                          THEN \E w \in Worker : holders = {w} /\ here(w) = 1 /\ Live(w)
                          ELSE holders = {}
  BY DEF AcceptedInOnePlace
<1> DEFINE at(s, w) == Cardinality({i \in 1 .. Len(s[w]) : s[w][i] = m})
           here(w)  == at(chan, w) + at(buffered, w) + at(inject, w)
                         + (IF item[w] = m THEN 1 ELSE 0)
           holders  == {w \in Worker : here(w) > 0}
<1>1. ASSUME NEW w \in Worker PROVE here(w) = IF m \in Kept(w) THEN 1 ELSE 0
  <2>1. Apart(w) /\ m # None
    BY DEF OneHome, Message, None
  <2>2. /\ at(chan, w) = IF m \in ToSet(chan[w]) THEN 1 ELSE 0
        /\ at(buffered, w) = IF m \in ToSet(buffered[w]) THEN 1 ELSE 0
        /\ at(inject, w) = IF m \in ToSet(inject[w]) THEN 1 ELSE 0
    BY <2>1, OccursOnce, KeptAreMessages DEF Apart
  <2> HIDE DEF at
  <2> QED  BY <2>1, <2>2 DEF Apart, Kept, InHand
<1> HIDE DEF at, here
<1>2. holders = {w \in Worker : m \in Kept(w)}  BY <1>1
<1>3. CASE fate[m] = "accepted"
  <2>1. PICK w \in Worker : m \in Kept(w)  BY <1>3 DEF OneHome
  <2>2. holders = {w}  BY <1>2, <2>1 DEF OneHome
  <2>3. here(w) = 1  BY <1>1, <2>1
  <2>4. Live(w)  BY <2>1, NothingKept
  <2>5. \E x \in Worker : holders = {x} /\ here(x) = 1 /\ Live(x)  BY <2>2, <2>3, <2>4
  <2> QED  BY <1>3, <2>5 DEF at, here
<1>4. CASE fate[m] # "accepted"
  <2>1. holders = {}  BY <1>2, <1>4 DEF OneHome
  <2> QED  BY <1>4, <2>1 DEF at, here
<1> QED  BY <1>3, <1>4

\* Re-queueing, injection, a stop and a close neither lose nor double what was
\* accepted: until it is settled it is in one place of one live worker.
THEOREM MessagesPlaced == Spec => []AcceptedInOnePlace
<1>1. IInv /\ PlacesInv => AcceptedInOnePlace  BY PlacedOnce
<1> QED  BY <1>1, PlacesInvariant, PTL

-----------------------------------------------------------------------------
(* The manager implements TopicService.                                     *)

\* How a move of one worker changes the number of running turns.
LEMMA TurnsStep ==
    ASSUME TypeOK, NEW w \in Worker, NEW l, pc' = [pc EXCEPT ![w] = l]
    PROVE  /\ l \in InTurn /\ pc[w] \notin InTurn => Turns' = Turns + 1
           /\ l \notin InTurn /\ pc[w] \in InTurn => Turns' = Turns - 1
           /\ (l \in InTurn <=> pc[w] \in InTurn) => Turns' = Turns
<1>0. IsFiniteSet(InTurns) /\ Turns \in Nat
  <2>1. InTurns \subseteq Worker  BY DEF InTurns
  <2> QED  BY <2>1, WorkerFinite, FS_Subset, FS_CardinalityType DEF Turns
<1>1. \A v \in Worker : pc'[v] = IF v = w THEN l ELSE pc[v]  BY DEF TypeOK
<1>2. CASE l \in InTurn /\ pc[w] \notin InTurn
  <2>1. InTurns' = InTurns \cup {w} /\ w \notin InTurns  BY <1>1, <1>2 DEF InTurns
  <2>2. Turns' = Turns + 1  BY <1>0, <2>1, FS_AddElement DEF Turns
  <2> QED  BY <1>0, <1>2, <2>2
<1>3. CASE l \notin InTurn /\ pc[w] \in InTurn
  <2>1. InTurns' = InTurns \ {w} /\ w \in InTurns  BY <1>1, <1>3 DEF InTurns
  <2>2. Turns' = Turns - 1  BY <1>0, <2>1, FS_RemoveElement DEF Turns
  <2> QED  BY <1>0, <1>3, <2>2
<1>4. CASE l \in InTurn <=> pc[w] \in InTurn
  <2>1. InTurns' = InTurns  BY <1>1, <1>4 DEF InTurns
  <2> QED  BY <1>0, <1>4, <2>1 DEF Turns
<1> QED  BY <1>2, <1>3, <1>4

LEMMA TurnsStill == UNCHANGED pc => Turns' = Turns
BY DEF Turns, InTurns

\* A worker in its turn is counted; one about to begin leaves room for it.
LEMMA TurnsBounds ==
    ASSUME TypeOK, PermitsBalanced, NEW w \in Worker
    PROVE  /\ pc[w] \in InTurn => Turns > 0
           /\ pc[w] = "ready" => Turns < MaxConcurrent
<1>0. IsFiniteSet(InTurns) /\ Turns \in Nat
  <2>1. InTurns \subseteq Worker  BY DEF InTurns
  <2> QED  BY <2>1, WorkerFinite, FS_Subset, FS_CardinalityType DEF Turns
<1>1. ASSUME pc[w] \in InTurn PROVE Turns > 0
  <2>1. InTurns # {}  BY <1>1 DEF InTurns
  <2> QED  BY <1>0, <2>1, FS_EmptySet DEF Turns
<1>2. ASSUME pc[w] = "ready" PROVE Turns < MaxConcurrent
  <2>1. InTurns \cup {w} \subseteq Holders  BY <1>2 DEF InTurns, Holders, Holding
  <2>2. w \notin InTurns  BY <1>2 DEF InTurns, InTurn
  <2>3. Cardinality(InTurns \cup {w}) = Turns + 1
    BY <1>0, <2>2, FS_AddElement DEF Turns
  <2>4. Cardinality(InTurns \cup {w}) <= Cardinality(Holders)
    BY <2>1, HoldersFinite, FS_Subset
  <2>5. /\ permits \in Nat /\ MaxConcurrent \in Nat
        /\ permits + Cardinality(Holders) = MaxConcurrent
    BY CapacityAssumption DEF TypeOK, PermitsBalanced
  <2> QED  BY <1>0, <2>3, <2>4, <2>5, HoldersFinite
<1> QED  BY <1>1, <1>2

\* The promise's variables under a step that settles some messages.
LEMMA SettledFates ==
    ASSUME TypeOK, NEW S, NEW f, Settles(S, f)
    PROVE  /\ Waits' = Waits \ S
           /\ f = "taken" => Reads' = Reads \cup S /\ Drops' = Drops
           /\ f # "taken" => Reads' = Reads /\ Drops' = Drops \cup S
<1>1. \A m \in Message : fate'[m] = IF m \in S THEN f ELSE fate[m]  BY DEF Settles
<1>2. /\ f \in Settled /\ f # "accepted"
      /\ \A m \in S : m \in Message /\ fate[m] = "accepted"
      /\ "accepted" \notin Settled
  BY DEF Settles, Settled, Waits
<1>3. Waits' = Waits \ S  BY <1>1, <1>2 DEF Waits
<1>4. ASSUME f = "taken" PROVE Reads' = Reads \cup S /\ Drops' = Drops
  BY <1>1, <1>2, <1>4 DEF Reads, Drops
<1>5. ASSUME f # "taken" PROVE Reads' = Reads /\ Drops' = Drops \cup S
  BY <1>1, <1>2, <1>5 DEF Reads, Drops
<1> QED  BY <1>3, <1>4, <1>5

\* What each kind of step is to the service.
LEMMA ServiceStill ==
    ASSUME UNCHANGED fate, Turns' = Turns
    PROVE  UNCHANGED Service!vars
BY DEF Service!vars, Turns, InTurns

LEMMA ServiceDrops ==
    ASSUME TypeOK, NEW S, NEW f, f # "taken", Settles(S, f), Turns' = Turns
    PROVE  Service!Next
<1>1. /\ S \in SUBSET Waits /\ Waits' = Waits \ S
      /\ Reads' = Reads /\ Drops' = Drops \cup S
  BY SettledFates DEF Settles
<1>2. Service!Drop(S)
  BY <1>1 DEF Service!Drop, Waits, Reads, Drops, Turns, InTurns
<1> QED  BY <1>1, <1>2 DEF Service!Next, Waits

LEMMA ServiceJoins ==
    ASSUME TypeOK, NEW S, Settles(S, "taken"), Turns' = Turns, Turns > 0
    PROVE  Service!Next
<1>1. /\ S \in SUBSET Waits /\ Waits' = Waits \ S
      /\ Reads' = Reads \cup S /\ Drops' = Drops
  BY SettledFates DEF Settles
<1>2. Service!Join(S)
  BY <1>1 DEF Service!Join, Waits, Reads, Drops, Turns, InTurns
<1> QED  BY <1>1, <1>2 DEF Service!Next, Waits

LEMMA ServiceBegins ==
    ASSUME TypeOK, NEW m \in Waits, Settles({m}, "taken"),
           Turns < MaxConcurrent, Turns' = Turns + 1
    PROVE  Service!Next
<1>1. /\ Waits' = Waits \ {m} /\ Reads' = Reads \cup {m} /\ Drops' = Drops
      /\ m \in Message
  BY SettledFates DEF Waits
<1>2. Service!BeginTurn(m)
  BY <1>1 DEF Service!BeginTurn, Waits, Reads, Drops, Turns, InTurns
<1> QED  BY <1>1, <1>2 DEF Service!Next

LEMMA ServiceEnds ==
    ASSUME UNCHANGED fate, Turns > 0, Turns' = Turns - 1
    PROVE  Service!Next
<1>1. Service!EndTurn  BY DEF Service!EndTurn, Turns, InTurns
<1> QED  BY <1>1 DEF Service!Next

\* try_enqueue takes a message in or refuses it.
LEMMA ServiceOffers ==
    ASSUME TypeOK, NEW m \in Message, fate[m] = "unsent", Turns' = Turns,
           \/ fate' = [fate EXCEPT ![m] = "accepted"]
           \/ fate' = [fate EXCEPT ![m] = "rejected"]
    PROVE  Service!Next
<1>0. /\ m \notin Waits /\ m \notin Reads /\ m \notin Drops
      /\ fate \in [Message -> Fates]
  BY DEF Waits, Reads, Drops, Settled, TypeOK
<1>1. CASE fate' = [fate EXCEPT ![m] = "accepted"]
  <2>1. \A x \in Message : fate'[x] = IF x = m THEN "accepted" ELSE fate[x]
    BY <1>0, <1>1
  <2>2. Waits' = Waits \cup {m} /\ Reads' = Reads /\ Drops' = Drops
    BY <1>0, <2>1 DEF Waits, Reads, Drops, Settled
  <2>3. Service!TakeIn(m)
    BY <1>0, <2>2 DEF Service!TakeIn, Service!New, Waits, Reads, Drops, Turns, InTurns
  <2> QED  BY <2>3 DEF Service!Next
<1>2. CASE fate' = [fate EXCEPT ![m] = "rejected"]
  <2>1. \A x \in Message : fate'[x] = IF x = m THEN "rejected" ELSE fate[x]
    BY <1>0, <1>2
  <2>2. Waits' = Waits /\ Reads' = Reads /\ Drops' = Drops \cup {m}
    BY <1>0, <2>1 DEF Waits, Reads, Drops, Settled
  <2>3. Service!Refuse(m)
    BY <1>0, <2>2 DEF Service!Refuse, Service!New, Waits, Reads, Drops, Turns, InTurns
  <2> QED  BY <2>3 DEF Service!Next
<1> QED  BY <1>1, <1>2

LEMMA TryEnqueueTurns ==
    ASSUME TypeOK, IdsInOrder, NEW c, NEW m \in Message, NEW t \in Topic,
           TryEnqueue(c, m, t)
    PROVE  Turns' = Turns
<1>1. CASE Accept(m, t) \/ QueueFull(m, t)
  BY <1>1, TurnsStill DEF Accept, QueueFull
<1>2. CASE CreateAndEnqueue(c, m, t)
  <2>1. PICK w \in Worker : w = workers + 1 /\ pc[w] = "unborn"
    BY <1>2 DEF CreateAndEnqueue, IdsInOrder, TypeOK
  <2>2. pc' = [pc EXCEPT ![w] = "start"]  BY <1>2, <2>1 DEF CreateAndEnqueue
  <2>3. "start" \notin InTurn /\ pc[w] \notin InTurn  BY <2>1 DEF InTurn
  <2> QED  BY <2>2, <2>3, TurnsStep
<1> QED  BY <1>1, <1>2 DEF TryEnqueue

LEMMA WorkerStepRefines ==
    ASSUME IInv, PlacesInv, NEW w \in Worker, WorkerStep(w)
    PROVE  Service!Next \/ UNCHANGED Service!vars
<1> USE DEF IInv, PlacesInv
<1>1. CASE Acquire(w)
  <2>1. PICK l \in {"top", "ready"} : pc' = [pc EXCEPT ![w] = l]
    BY <1>1 DEF Acquire
  <2>2. pc[w] \notin InTurn /\ l \notin InTurn  BY <1>1 DEF Acquire, Waiting, InTurn
  <2>3. Turns' = Turns  BY <2>1, <2>2, TurnsStep
  <2> QED  BY <1>1, <2>3, ServiceStill DEF Acquire
<1>2. CASE Recv(w)
  <2>1. PICK l \in {"ready", "acquire"} : pc' = [pc EXCEPT ![w] = l]
    BY <1>2 DEF Recv
  <2>2. pc[w] \notin InTurn /\ l \notin InTurn  BY <1>2 DEF Recv, InTurn
  <2>3. Turns' = Turns  BY <2>1, <2>2, TurnsStep
  <2> QED  BY <1>2, <2>3, ServiceStill DEF Recv
<1>3. CASE StopWaiting(w) \/ DropClosed(w)
  <2>1. pc[w] \notin InTurn /\ Exit(w)
    BY <1>3 DEF StopWaiting, DropClosed, InTurn
  <2>2. pc' = [pc EXCEPT ![w] = "done"] /\ "done" \notin InTurn
    BY <2>1 DEF Exit, InTurn
  <2>3. Turns' = Turns  BY <2>1, <2>2, TurnsStep
  <2> QED  BY <2>1, <2>3, ExitSettles, ServiceDrops
<1>4. CASE DropMismatched(w)
  <2>0. /\ pc' = [pc EXCEPT ![w] = "top"]
        /\ "top" \notin InTurn /\ pc[w] \notin InTurn
    BY <1>4 DEF DropMismatched, InTurn
  <2>1. Turns' = Turns  BY <2>0, TurnsStep
  <2> QED  BY <1>4, <2>1, ItemSettles, ServiceDrops
<1>5. CASE BeginTurn(w)
  <2>0. /\ pc' = [pc EXCEPT ![w] = "turn"]
        /\ "turn" \in InTurn /\ pc[w] \notin InTurn
    BY <1>5 DEF BeginTurn, InTurn
  <2>1. Turns' = Turns + 1  BY <2>0, TurnsStep
  <2>2. Turns < MaxConcurrent  BY <1>5, TurnsBounds DEF BeginTurn
  <2> QED  BY <1>5, <2>1, <2>2, ItemSettles, ServiceBegins
<1>6. CASE TakeDuringTurn(w)
  <2>1. Turns' = Turns  BY <1>6, TurnsStill DEF TakeDuringTurn
  <2> QED  BY <1>6, <2>1, TakeDuringTurnSettles, ServiceStill, ServiceDrops
<1>7. CASE Fold(w)
  <2>1. Turns' = Turns /\ Turns > 0
    BY <1>7, TurnsStill, TurnsBounds DEF Fold, InTurn
  <2> QED  BY <1>7, <2>1, FoldSettles, ServiceJoins
<1>8. CASE Forward(w)
  <2>1. PICK m \in Message : m = forward[w]  BY <1>8 DEF Forward, TypeOK
  <2>2. PICK t \in Topic : t = msg[m].topic  BY <2>1 DEF TypeOK
  <2>3. TryEnqueue(w, m, t)  BY <1>8, <2>1, <2>2 DEF Forward
  <2>4. fate[m] = "unsent"  BY <1>8, <2>1 DEF Forward, SendsOnce
  <2> QED  BY <2>3, <2>4, TryEnqueueFate, TryEnqueueTurns, ServiceOffers
<1>9. CASE EndTurn(w)
  <2>0. /\ pc' = [pc EXCEPT ![w] = "requeue"]
        /\ "requeue" \in InTurn /\ pc[w] \in InTurn
    BY <1>9 DEF EndTurn, InTurn
  <2>1. Turns' = Turns  BY <2>0, TurnsStep
  <2> QED  BY <1>9, <2>1, ServiceStill DEF EndTurn
<1>10. CASE Requeue(w)
  <2>1. Turns' = Turns  BY <1>10, TurnsStill DEF Requeue
  <2> QED  BY <1>10, <2>1, RequeueSettles, ServiceStill, ServiceDrops
<1>11. CASE FinishTurn(w)
  <2>0. /\ pc' = [pc EXCEPT ![w] = "idle"]
        /\ "idle" \notin InTurn /\ pc[w] \in InTurn
    BY <1>11 DEF FinishTurn, InTurn
  <2>1. Turns' = Turns - 1 /\ Turns > 0  BY <2>0, TurnsStep, TurnsBounds
  <2> QED  BY <1>11, <2>1, ServiceEnds DEF FinishTurn
<1> QED  BY <1>1, <1>2, <1>3, <1>4, <1>5, <1>6, <1>7, <1>8, <1>9, <1>10, <1>11 DEF WorkerStep

LEMMA NextRefines ==
    ASSUME IInv, PlacesInv, [Next]_vars
    PROVE  Service!Next \/ UNCHANGED Service!vars
<1> USE DEF IInv, PlacesInv
<1>1. ASSUME NEW t \in Topic, NEW kind \in Kinds, Enqueue(t, kind)  PROVE Service!Next
  <2>1. PICK m \in Message : m = sent + 1
    BY <1>1, BoundsAssumption DEF Enqueue, TypeOK, Message
  <2>2. TryEnqueue(Router, m, t)  BY <1>1, <2>1 DEF Enqueue
  <2>3. fate[m] = "unsent"  BY <2>1, BoundsAssumption DEF SendsOnce, TypeOK
  <2> QED  BY <2>2, <2>3, TryEnqueueFate, TryEnqueueTurns, ServiceOffers
<1>2. ASSUME UNCHANGED <<pc, fate>>  PROVE UNCHANGED Service!vars
  BY <1>2, TurnsStill, ServiceStill
<1>3. ASSUME NEW w \in Worker, NEW t \in Topic, StartForward(w, t)
      PROVE  UNCHANGED Service!vars
  BY <1>2, <1>3 DEF StartForward
<1>4. ASSUME NEW t \in Topic, NEW by \in Worker \cup {None}, CloseMark(t, by)
      PROVE  UNCHANGED Service!vars
  BY <1>2, <1>4 DEF CloseMark
<1>5. ASSUME NEW t \in Topic, CancelTopic(t) \/ CloseStep(t)
      PROVE  UNCHANGED Service!vars
  BY <1>2, <1>5 DEF CancelTopic, CloseStep, CloseFails, CloseToken, CloseQueue
<1>6. CASE EnqueueReturns \/ ShutdownBegin \/ ShutdownStep \/ UNCHANGED vars
  BY <1>2, <1>6
     DEF EnqueueReturns, ShutdownBegin, ShutdownStep, ShutdownTokens, ShutdownQueues,
         ShutdownHandles, ShutdownEnds, vars
<1> QED  BY <1>1, <1>3, <1>4, <1>5, <1>6, WorkerStepRefines DEF Next

\* Every behaviour of the manager is one of TopicService: whatever is enqueued,
\* injected, re-queued, cancelled, closed or shut down, a message taken in is
\* read by one turn or dropped once, and the turns stay within the semaphore.
THEOREM ServiceImplemented == Spec => ImplementsService
<1>1. Init => Service!Init
  <2> SUFFICES ASSUME Init PROVE Service!Init  OBVIOUS
  <2>1. \A m \in Message : fate[m] = "unsent"  BY DEF Init
  <2>2. Waits = {} /\ Reads = {} /\ Drops = {}
    BY <2>1 DEF Waits, Reads, Drops, Settled
  <2>3. InTurns = {}  BY DEF Init, InTurns, InTurn
  <2>4. Turns = 0  BY <2>3, FS_EmptySet DEF Turns
  <2> QED  BY <2>2, <2>4 DEF Service!Init, Waits, Reads, Drops, Turns, InTurns
<1>2. IInv /\ PlacesInv /\ [Next]_vars => [Service!Next]_(Service!vars)
  BY NextRefines
<1> QED  BY <1>1, <1>2, PlacesInvariant, PTL DEF Spec, ImplementsService, Service!Spec

-----------------------------------------------------------------------------
(* The first close of a topic reaches the workers it outdates.              *)

\* What a close counts as outdated was spawned before it.
StaleSpawned == stale \subseteq Spawned

\* Between the mark and the end of a topic's first close: the one live worker
\* it outdates is registered until its token is taken, and cancelled after.
FirstCloseUnderWay ==
    ~Down => \A t \in Topic, w \in stale :
        closes[t] = 1 /\ topicOf[w] = t /\ Live(w) =>
            /\ closePc[t] = "token" => queues[t] = w /\ tokens[t] = w
            /\ closePc[t] = "queue" => w \in cancelled

FirstInv == StaleSpawned /\ FirstCloseUnderWay

\* A step that leaves the maps and the closes alone and revives no worker.
LEMMA FirstStill ==
    ASSUME TypeOK, FirstInv, cancelled \subseteq cancelled',
           UNCHANGED <<queues, tokens, workers, topicOf, closePc, closes, stale, downPc>>,
           \A w \in Worker : Live(w)' => Live(w)
    PROVE  FirstInv'
<1>1. StaleSpawned'  BY DEF FirstInv, StaleSpawned, Spawned
<1>2. stale \subseteq Worker  BY DEF TypeOK
<1>3. FirstCloseUnderWay'  BY <1>2 DEF FirstInv, FirstCloseUnderWay, Down
<1> QED  BY <1>1, <1>3 DEF FirstInv

\* An enqueue keeps a live worker's registration, and its new worker is not
\* one that a close has counted.
LEMMA TryEnqueueFirst ==
    ASSUME TypeOK, IdsInOrder, FirstInv, NEW c, NEW m \in Message, NEW t \in Topic,
           TryEnqueue(c, m, t), UNCHANGED <<cancelled, closePc, closes, stale, downPc>>
    PROVE  FirstInv'
<1>0. /\ workers \in Nat /\ stale \subseteq Worker
      /\ \A w \in stale : w <= workers /\ w \in Nat /\ w # None
  BY BoundsAssumption DEF FirstInv, StaleSpawned, Spawned, TypeOK, None
<1>1. \A u \in Topic, w \in Worker :
         queues[u] = w /\ Live(w) => SenderOpen(u) /\ Pruned[u] = w
  BY DEF SenderOpen, Pruned, Worker, Message, None
<1>2. CASE Accept(m, t) \/ QueueFull(m, t)
  <2>1. UNCHANGED <<workers, topicOf, pc, tokens>> /\ queues' = Pruned
    BY <1>2 DEF Accept, QueueFull
  <2>2. StaleSpawned'  BY <2>1 DEF FirstInv, StaleSpawned, Spawned
  <2>3. FirstCloseUnderWay'
    BY <1>0, <1>1, <2>1 DEF FirstInv, FirstCloseUnderWay, Down, Live
  <2> QED  BY <2>2, <2>3 DEF FirstInv
<1>3. CASE CreateAndEnqueue(c, m, t)
  <2>1. PICK v \in Worker : v = workers + 1
    BY <1>3 DEF CreateAndEnqueue
  <2>2. /\ ~SenderOpen(t) /\ workers' = v
        /\ topicOf' = [topicOf EXCEPT ![v] = t]
        /\ queues' = [Pruned EXCEPT ![t] = v]
        /\ tokens' = [tokens EXCEPT ![t] = v]
        /\ pc' = [pc EXCEPT ![v] = "start"]
    BY <1>3, <2>1 DEF CreateAndEnqueue, NewToken
  <2>3. StaleSpawned'
    BY <1>0, <2>1, <2>2 DEF FirstInv, StaleSpawned, Spawned
  <2>4. \A w \in stale : w # v  BY <1>0, <2>1
  <2>5. \A w \in stale : topicOf'[w] = topicOf[w] /\ pc'[w] = pc[w] /\ w \in Worker
    BY <1>0, <2>2, <2>4 DEF TypeOK
  <2>6. \A u \in Topic : u # t => queues'[u] = Pruned[u] /\ tokens'[u] = tokens[u]
    BY <2>2 DEF TypeOK, Pruned
  <2>7. FirstCloseUnderWay'
    <3> SUFFICES ASSUME ~Down, NEW u \in Topic, NEW w \in stale,
                        closes[u] = 1, topicOf[w] = u, Live(w)
                 PROVE  /\ closePc[u] = "token" => queues'[u] = w /\ tokens'[u] = w
                        /\ closePc[u] = "queue" => w \in cancelled
      BY <2>5 DEF FirstCloseUnderWay, Down, Live
    <3>1. /\ closePc[u] = "token" => queues[u] = w /\ tokens[u] = w
          /\ closePc[u] = "queue" => w \in cancelled
      BY DEF FirstInv, FirstCloseUnderWay
    <3>2. CASE closePc[u] = "token"
      <4>1. SenderOpen(u) /\ Pruned[u] = w  BY <1>1, <2>5, <3>1, <3>2
      <4>2. u # t  BY <2>2, <4>1
      <4> QED  BY <2>6, <3>1, <3>2, <4>1, <4>2
    <3> QED  BY <3>1, <3>2
  <2> QED  BY <2>3, <2>7 DEF FirstInv
<1> QED  BY <1>2, <1>3 DEF TryEnqueue

\* The mark: until the first one, the live worker of a topic is registered.
LEMMA CloseMarkFirst ==
    ASSUME TypeOK, WorkerReachable, FirstInv,
           NEW t \in Topic, NEW by \in Worker \cup {None}, CloseMark(t, by)
    PROVE  FirstInv'
<1>1. /\ UNCHANGED <<queues, tokens, workers, topicOf, pc, cancelled, downPc>>
      /\ closes' = [closes EXCEPT ![t] = @ + 1]
      /\ closePc' = [closePc EXCEPT ![t] = "token"]
      /\ stale' = stale \cup {w \in Spawned : topicOf[w] = t}
  BY DEF CloseMark, queueVars, downVars
<1>2. StaleSpawned'  BY <1>1 DEF FirstInv, StaleSpawned, Spawned
<1>3. \A w \in stale' : w \in Worker
  BY <1>1, SpawnedAreWorkers DEF TypeOK
<1>4. FirstCloseUnderWay'
  <2> SUFFICES ASSUME ~Down, NEW u \in Topic, NEW w \in stale',
                      closes'[u] = 1, topicOf[w] = u, Live(w)
               PROVE  /\ closePc'[u] = "token" => queues[u] = w /\ tokens[u] = w
                      /\ closePc'[u] = "queue" => w \in cancelled
    BY <1>1 DEF FirstCloseUnderWay, Down, Live
  <2>1. CASE u = t
    <3>1. closes[t] = 0 /\ closePc'[t] = "token"
      BY <1>1, <2>1, BoundsAssumption DEF TypeOK
    <3>2. queues[t] = w /\ tokens[t] = w
      BY <1>3, <2>1, <3>1 DEF WorkerReachable
    <3> QED  BY <2>1, <3>1, <3>2
  <2>2. CASE u # t
    <3>1. closes'[u] = closes[u] /\ closePc'[u] = closePc[u] /\ w \in stale
      BY <1>1, <2>2 DEF TypeOK
    <3> QED  BY <3>1 DEF FirstInv, FirstCloseUnderWay
  <2> QED  BY <2>1, <2>2
<1> QED  BY <1>2, <1>4 DEF FirstInv

\* The steps of a close: its token is the outdated worker's.
LEMMA CloseStepFirst ==
    ASSUME TypeOK, FirstInv, NEW t \in Topic, CloseStep(t)
    PROVE  FirstInv'
<1>1. UNCHANGED <<workers, topicOf, pc, closes, stale, downPc>>
  BY DEF CloseStep, CloseFails, CloseToken, CloseQueue, queueVars, downVars
<1>2. stale \subseteq Worker /\ None \notin Worker
  BY DEF TypeOK, Worker, Message, None
<1>3. StaleSpawned'  BY <1>1 DEF FirstInv, StaleSpawned, Spawned
<1>4. \A u \in Topic : u # t =>
         closePc'[u] = closePc[u] /\ queues'[u] = queues[u] /\ tokens'[u] = tokens[u]
  BY DEF CloseStep, CloseFails, CloseToken, CloseQueue, queueVars, TypeOK
<1>5. cancelled \subseteq cancelled'
  BY DEF CloseStep, CloseFails, CloseToken, CloseQueue
<1>6. \/ closePc'[t] = "none"
      \/ closePc[t] = "token" /\ closePc'[t] = "queue"
            /\ cancelled' = cancelled \cup RemovedToken(t)
  BY DEF CloseStep, CloseFails, CloseToken, CloseQueue, TypeOK
<1>7. FirstCloseUnderWay'
  <2> SUFFICES ASSUME ~Down, NEW u \in Topic, NEW w \in stale,
                      closes[u] = 1, topicOf[w] = u, Live(w)
               PROVE  /\ closePc'[u] = "token" => queues'[u] = w /\ tokens'[u] = w
                      /\ closePc'[u] = "queue" => w \in cancelled'
    BY <1>1 DEF FirstCloseUnderWay, Down, Live
  <2>1. /\ closePc[u] = "token" => queues[u] = w /\ tokens[u] = w
        /\ closePc[u] = "queue" => w \in cancelled
    BY DEF FirstInv, FirstCloseUnderWay
  <2>2. CASE u # t  BY <1>4, <1>5, <2>1, <2>2
  <2>3. CASE u = t  BY <1>2, <1>6, <2>1, <2>3 DEF RemovedToken
  <2> QED  BY <2>2, <2>3
<1> QED  BY <1>3, <1>7 DEF FirstInv

LEMMA NextFirst ==
    ASSUME IInv, FirstInv, [Next]_vars
    PROVE  FirstInv'
<1> USE DEF IInv
<1>1. ASSUME UNCHANGED pc  PROVE \A w \in Worker : Live(w)' => Live(w)
  BY <1>1 DEF Live
<1>2. ASSUME NEW t \in Topic, NEW kind \in Kinds, Enqueue(t, kind)  PROVE FirstInv'
  <2>1. PICK m \in Message : m = sent + 1
    BY <1>2, BoundsAssumption DEF Enqueue, TypeOK, Message
  <2>2. TryEnqueue(Router, m, t) /\ UNCHANGED <<cancelled, closePc, closes, stale, downPc>>
    BY <1>2, <2>1 DEF Enqueue, closeVars, downVars
  <2> QED  BY <2>2, TryEnqueueFirst
<1>3. ASSUME NEW w \in Worker, Forward(w)  PROVE FirstInv'
  <2>1. PICK m \in Message : m = forward[w]  BY <1>3 DEF Forward, TypeOK
  <2>2. PICK t \in Topic : t = msg[m].topic  BY <2>1 DEF TypeOK
  <2>3. TryEnqueue(w, m, t) /\ UNCHANGED <<cancelled, closePc, closes, stale, downPc>>
    BY <1>3, <2>1, <2>2 DEF Forward, closeVars, downVars
  <2> QED  BY <2>3, TryEnqueueFirst
<1>4. ASSUME NEW w \in Worker, WorkerStep(w), ~Forward(w)  PROVE FirstInv'
  <2>1. UNCHANGED <<cancelled, queues, tokens, workers, topicOf, closePc, closes, stale, downPc>>
    BY <1>4 DEF WorkerStep, Acquire, Recv, StopWaiting, DropClosed, Exit, DropMismatched,
                BeginTurn, TakeDuringTurn, Fold, EndTurn, Requeue, FinishTurn,
                queueVars, closeVars, downVars
  <2>2. \A v \in Worker : Live(v)' => Live(v)
    <3>1. CASE TakeDuringTurn(w) \/ Fold(w) \/ Requeue(w)
      BY <1>1, <3>1 DEF TakeDuringTurn, Fold, Requeue
    <3>2. CASE StopWaiting(w) \/ DropClosed(w)
      BY <3>2 DEF StopWaiting, DropClosed, Exit, Live, TypeOK
    <3>3. CASE \/ Acquire(w) \/ Recv(w) \/ DropMismatched(w) \/ BeginTurn(w)
               \/ EndTurn(w) \/ FinishTurn(w)
      <4>1. Live(w) /\ \A v \in Worker : v # w => pc'[v] = pc[v]
        BY <3>3 DEF Acquire, Recv, DropMismatched, BeginTurn, EndTurn, FinishTurn,
                    Live, Waiting, TypeOK
      <4> QED  BY <4>1 DEF Live
    <3> QED  BY <1>4, <3>1, <3>2, <3>3 DEF WorkerStep
  <2> QED  BY <2>1, <2>2, FirstStill
<1>5. ASSUME NEW t \in Topic, CancelTopic(t)  PROVE FirstInv'
  <2>1. /\ cancelled \subseteq cancelled' /\ UNCHANGED pc
        /\ UNCHANGED <<queues, tokens, workers, topicOf, closePc, closes, stale, downPc>>
    BY <1>5 DEF CancelTopic, queueVars, closeVars, downVars
  <2> QED  BY <1>1, <2>1, FirstStill
<1>6. CASE ShutdownBegin \/ ShutdownStep
  <2>1. Down' /\ UNCHANGED <<workers, stale>>
    BY <1>6 DEF ShutdownBegin, ShutdownStep, ShutdownTokens, ShutdownQueues,
                ShutdownHandles, ShutdownEnds, Down, queueVars, closeVars
  <2> QED  BY <2>1 DEF FirstInv, FirstCloseUnderWay, StaleSpawned, Spawned
<1>7. ASSUME UNCHANGED <<cancelled, queueVars, pc, closeVars, downVars>>  PROVE FirstInv'
  <2>1. UNCHANGED <<cancelled, queues, tokens, workers, topicOf, closePc, closes, stale, downPc>>
    BY <1>7 DEF queueVars, closeVars, downVars
  <2> QED  BY <1>1, <1>7, <2>1, FirstStill
<1>8. ASSUME NEW w \in Worker, NEW t \in Topic, StartForward(w, t)  PROVE FirstInv'
  BY <1>7, <1>8 DEF StartForward
<1>9. CASE EnqueueReturns \/ UNCHANGED vars
  BY <1>7, <1>9 DEF EnqueueReturns, vars
<1> QED
  BY <1>2, <1>3, <1>4, <1>5, <1>6, <1>8, <1>9, CloseMarkFirst, CloseStepFirst DEF Next

\* The first close of a topic cancels every worker that served the topic when
\* it began, whatever is enqueued, cancelled or closed elsewhere meanwhile.
THEOREM FirstCloseReaches == Spec => FirstCloseReachesWorkers
<1>1. Init => FirstInv
  BY BoundsAssumption DEF Init, FirstInv, StaleSpawned, FirstCloseUnderWay
<1>2. IInv /\ FirstInv /\ [Next]_vars => FirstInv'  BY NextFirst
<1>3. IInv /\ FirstInv =>
         (~Down => \A t \in Topic :
            closes[t] = 1 /\ closePc[t] = "queue" /\ closePc'[t] = "none" =>
               \A w \in stale : topicOf[w] = t /\ Live(w) => w \in cancelled)
  BY DEF FirstInv, FirstCloseUnderWay
<1> QED  BY <1>1, <1>2, <1>3, IInvInvariant, PTL DEF Spec, FirstCloseReachesWorkers

=============================================================================
