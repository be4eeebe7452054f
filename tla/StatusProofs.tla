---------------------------- MODULE StatusProofs ----------------------------
(***************************************************************************)
(* Proofs about what others are told of a topic: the event bus, and the     *)
(* live status.                                                             *)
(*                                                                          *)
(* EventBus, for any number of publishers, subscribers and events and any   *)
(* capacity of the log: NoEventMissed is inductive together with the shape  *)
(* of the log: a subscriber is fed exactly what the log holds, so what it   *)
(* is owed from then on starts where the log started.  SourceOrder needs    *)
(* that the event a publisher has in hand is its last one.                  *)
(*                                                                          *)
(* LiveStatus, for any number of workers, messages and closes: QuietIsIdle  *)
(* is inductive as three facts with a witness: whatever is shown is owed by *)
(* a turn that is still to take it back.  ShownAsItIs needs that a turn     *)
(* that is not mixed is the only active one.                                *)
(***************************************************************************)
EXTENDS EventBus, LiveStatus, TLAPS

----------------------------------------------------------------------------
(* The event bus. *)

\* The authors of all events are known, and an event in a publisher's hands
\* is its own and the last of its own.
LastInHand ==
    /\ Len(author) = count
    /\ \A p \in Publishers : stage[p] # None =>
          /\ stage[p] \in 1 .. count /\ author[stage[p]] = p
          /\ \A e \in 1 .. count : author[e] = p => e <= stage[p]

\* Whatever a subscriber was fed is an event.
FedEvents == \A s \in Subscribers : \A i \in 1 .. Len(fed[s]) : fed[s][i] \in 1 .. count

----------------------------------------------------------------------------
\* The log after one more event.
LEMMA LoggedTail ==
    ASSUME TypeOK, LogIsTail
    PROVE  LET l == Logged(count + 1) IN
           /\ l \in Seq(Nat)
           /\ Len(l) = IF count + 1 < LogCapacity THEN count + 1 ELSE LogCapacity
           /\ \A i \in 1 .. Len(l) : l[i] = count + 1 - Len(l) + i
<1> DEFINE e == count + 1
<1>0. /\ count \in Nat /\ e \in Nat /\ log \in Seq(Nat) /\ Len(log) \in Nat
      /\ LogCapacity \in Nat \ {0}
  BY LogAssumption, BoundAssumption DEF TypeOK
<1>1. CASE Len(log) >= LogCapacity
  <2>1. Logged(e) = Append(Tail(log), e)
    BY <1>1 DEF Logged
  <2>2. Len(log) = LogCapacity /\ count >= LogCapacity
    BY <1>0, <1>1 DEF LogIsTail
  <2>3. /\ Tail(log) \in Seq(Nat) /\ Len(Tail(log)) = LogCapacity - 1
        /\ \A i \in 1 .. LogCapacity - 1 : Tail(log)[i] = log[i + 1]
    BY <1>0, <2>2
  <2>4. /\ Append(Tail(log), e) \in Seq(Nat)
        /\ Len(Append(Tail(log), e)) = LogCapacity
        /\ Append(Tail(log), e)[LogCapacity] = e
        /\ \A i \in 1 .. LogCapacity - 1 : Append(Tail(log), e)[i] = Tail(log)[i]
    BY <1>0, <2>3
  <2>5. ASSUME NEW i \in 1 .. LogCapacity
        PROVE  Append(Tail(log), e)[i] = count + 1 - LogCapacity + i
    <3>1. CASE i = LogCapacity
      BY <3>1, <2>4, <1>0
    <3>2. CASE i \in 1 .. LogCapacity - 1
      <4>1. i + 1 \in 1 .. Len(log)
        BY <3>2, <2>2, <1>0
      <4>2. log[i + 1] = count - Len(log) + (i + 1)
        BY <4>1 DEF LogIsTail
      <4> QED BY <4>2, <2>2, <2>3, <2>4, <3>2, <1>0
    <3>3. i = LogCapacity \/ i \in 1 .. LogCapacity - 1
      BY <1>0
    <3> QED BY <3>1, <3>2, <3>3
  <2>6. ~(count + 1 < LogCapacity)
    BY <1>0, <2>2
  <2> HIDE DEF e
  <2>7. \A i \in 1 .. Len(Append(Tail(log), e)) :
           Append(Tail(log), e)[i] = count + 1 - Len(Append(Tail(log), e)) + i
    BY <2>4, <2>5
  <2> QED BY <2>1, <2>4, <2>6, <2>7 DEF e
<1>2. CASE ~(Len(log) >= LogCapacity)
  <2>1. Logged(e) = Append(log, e)
    BY <1>2 DEF Logged
  <2>2. Len(log) = count /\ count < LogCapacity
    BY <1>0, <1>2 DEF LogIsTail
  <2>3. /\ Append(log, e) \in Seq(Nat) /\ Len(Append(log, e)) = Len(log) + 1
        /\ Append(log, e)[Len(log) + 1] = e
        /\ \A i \in 1 .. Len(log) : Append(log, e)[i] = log[i]
    BY <1>0
  <2> QED BY <1>0, <2>1, <2>2, <2>3 DEF LogIsTail
<1> QED BY <1>1, <1>2

\* A new subscriber's channel takes the whole log.
LEMMA ReplayIsLog ==
    ASSUME TypeOK, LogIsTail
    PROVE  Replay = log
<1> Len(log) <= ChannelCapacity
  BY LogAssumption, BoundAssumption DEF TypeOK, LogIsTail, ChannelCapacity
<1> QED BY DEF Replay

\* What was fed stays fed when one more event is.
LEMMA AppendElements ==
    ASSUME NEW q \in Seq(Nat), NEW e \in Nat
    PROVE  Elements(q) \cup {e} \subseteq Elements(Append(q, e))
<1>1. /\ DOMAIN q = 1 .. Len(q) /\ DOMAIN Append(q, e) = 1 .. Len(q) + 1 /\ Len(q) \in Nat
      /\ \A i \in 1 .. Len(q) : Append(q, e)[i] = q[i]
      /\ Append(q, e)[Len(q) + 1] = e
  OBVIOUS
<1>2. e \in Elements(Append(q, e))
  BY <1>1 DEF Elements
<1>3. ASSUME NEW x \in Elements(q) PROVE x \in Elements(Append(q, e))
  <2>1. PICK i \in DOMAIN q : x = q[i]
    BY DEF Elements
  <2>2. i \in DOMAIN Append(q, e) /\ Append(q, e)[i] = x
    BY <1>1, <2>1
  <2> QED BY <2>2 DEF Elements
<1> QED BY <1>2, <1>3

----------------------------------------------------------------------------
\* TypeOK is inductive once the log is known to be short.
LEMMA TypeStep ==
    ASSUME TypeOK, LogIsTail, [Next]_vars
    PROVE  TypeOK'
<1> USE LogAssumption, BoundAssumption
<1>1. ASSUME NEW p \in Publishers, LogEvent(p) PROVE TypeOK'
  <2>1. count + 1 \in 0 .. MaxEvents /\ count' = count + 1
    BY <1>1 DEF LogEvent, TypeOK
  <2>2. log' \in Seq(Nat) /\ Len(log') <= LogCapacity
    BY <1>1, <2>1, LoggedTail DEF LogEvent
  <2>3. author' \in Seq(Publishers)
    BY <1>1 DEF LogEvent, TypeOK
  <2>4. stage' \in [Publishers -> 0 .. MaxEvents]
    BY <1>1, <2>1 DEF LogEvent, TypeOK
  <2> QED BY <1>1, <2>1, <2>2, <2>3, <2>4 DEF LogEvent, TypeOK
<1>2. ASSUME NEW p \in Publishers, Forward(p) PROVE TypeOK'
  <2>1. stage[p] \in Nat /\ stage' \in [Publishers -> 0 .. MaxEvents]
    BY <1>2 DEF Forward, TypeOK, None
  <2>2. fed' \in [Subscribers -> Seq(Nat)]
    BY <1>2, <2>1 DEF Forward, TypeOK
  <2>3. lost' \in [Subscribers -> SUBSET Nat]
    BY <1>2, <2>1 DEF Forward, TypeOK
  <2>4. members' \subseteq joined' /\ open' \subseteq members' /\ joined' \subseteq Subscribers
    BY <1>2 DEF Forward, TypeOK
  <2> QED BY <1>2, <2>1, <2>2, <2>3, <2>4 DEF Forward, TypeOK
<1>3. ASSUME NEW s \in Subscribers, Subscribe(s) PROVE TypeOK'
  <2>1. fed' \in [Subscribers -> Seq(Nat)]
    BY <1>3, ReplayIsLog DEF Subscribe, TypeOK
  <2>2. count - Len(log) + 1 \in Nat
    BY DEF TypeOK, LogIsTail
  <2>3. first' \in [Subscribers -> Nat]
    BY <1>3, <2>2 DEF Subscribe, TypeOK
  <2> QED BY <1>3, <2>1, <2>3 DEF Subscribe, TypeOK
<1>4. ASSUME NEW s \in Subscribers, Receive(s) PROVE TypeOK'
  BY <1>4 DEF Receive, TypeOK
<1>5. ASSUME NEW s \in Subscribers, Leave(s) PROVE TypeOK'
  BY <1>5 DEF Leave, TypeOK
<1>6. CASE UNCHANGED vars
  BY <1>6 DEF vars, TypeOK
<1> QED BY <1>1, <1>2, <1>3, <1>4, <1>5, <1>6 DEF Next

\* Only a publisher's log step changes the log and the count.
LEMMA LogStep ==
    ASSUME TypeOK, LogIsTail, [Next]_vars
    PROVE  LogIsTail'
<1>1. ASSUME NEW p \in Publishers, LogEvent(p) PROVE LogIsTail'
  <2>1. log' = Logged(count + 1) /\ count' = count + 1
    BY <1>1 DEF LogEvent
  <2>2. Len(log') = IF count' < LogCapacity THEN count' ELSE LogCapacity
    BY <2>1, LoggedTail
  <2>3. \A i \in 1 .. Len(log') : log'[i] = count' - Len(log') + i
    <3> DEFINE l == Logged(count + 1)
    <3>1. \A i \in 1 .. Len(l) : l[i] = count + 1 - Len(l) + i
      BY LoggedTail
    <3>2. log' = l
      BY <2>1
    <3>3. log' \in Seq(Nat) /\ Len(log') \in Nat /\ count \in Nat
      <4>1. l \in Seq(Nat)
        BY LoggedTail
      <4> HIDE DEF l
      <4> QED BY <3>2, <4>1, BoundAssumption DEF TypeOK
    <3> HIDE DEF l
    <3> SUFFICES ASSUME NEW i \in 1 .. Len(log')
                 PROVE  log'[i] = count' - Len(log') + i
      OBVIOUS
    <3>4. i \in 1 .. Len(l) /\ log'[i] = l[i] /\ Len(log') = Len(l)
      BY <3>2
    <3>5. l[i] = count + 1 - Len(l) + i
      BY <3>1, <3>4
    <3>6. count + 1 = count'
      BY <2>1
    <3> QED BY <3>3, <3>4, <3>5, <3>6
  <2> QED BY <2>2, <2>3 DEF LogIsTail
<1>2. ASSUME UNCHANGED <<log, count>> PROVE LogIsTail'
  BY <1>2 DEF LogIsTail
<1> QED BY <1>1, <1>2 DEF Next, vars, Forward, Subscribe, Receive, Leave

----------------------------------------------------------------------------
\* An open subscriber misses nothing in a step.
LEMMA MissedStep ==
    ASSUME TypeOK, LogIsTail, NoEventMissed, [Next]_vars
    PROVE  NoEventMissed'
<1> USE LogAssumption, BoundAssumption
<1>1. ASSUME NEW p \in Publishers, LogEvent(p) PROVE NoEventMissed'
  <2>1. InFlight' = InFlight \cup {count + 1}
    BY <1>1 DEF LogEvent, InFlight, TypeOK, None
  <2>2. UNCHANGED <<open, first, fed, lost>> /\ count' = count + 1 /\ count \in Nat
    BY <1>1 DEF LogEvent, TypeOK
  <2>3. ASSUME NEW s \in open, NEW e \in first[s] .. count + 1
        PROVE  e \in Elements(fed[s]) \cup lost[s] \cup InFlight \cup {count + 1}
    <3>1. first[s] \in Nat
      BY DEF TypeOK
    <3>2. e = count + 1 \/ e \in first[s] .. count
      BY <2>2, <3>1
    <3> QED BY <3>2 DEF NoEventMissed
  <2> QED BY <2>1, <2>2, <2>3 DEF NoEventMissed, Elements
<1>2. ASSUME NEW p \in Publishers, Forward(p) PROVE NoEventMissed'
  <2>1. InFlight \subseteq InFlight' \cup {stage[p]}
    BY <1>2 DEF Forward, InFlight, TypeOK, None
  <2>2. stage[p] \in Nat
    BY DEF TypeOK
  <2>3. UNCHANGED <<open, first, count>> /\ open \subseteq Subscribers
    BY <1>2 DEF Forward, TypeOK
  <2>4. ASSUME NEW s \in open
        PROVE  /\ Elements(fed[s]) \cup lost[s] \subseteq Elements(fed'[s]) \cup lost'[s]
               /\ stage[p] \in Elements(fed'[s]) \cup lost'[s]
    <3>1. s \in members \cap open /\ s \in Subscribers
      BY DEF TypeOK
    <3>2. CASE s \in Takers
      <4>1. s \notin Laggards
        BY <3>2 DEF Takers, Laggards
      <4>2. fed'[s] = Append(fed[s], stage[p]) /\ lost'[s] = lost[s]
        BY <1>2, <3>1, <3>2, <4>1 DEF Forward
      <4>3. fed[s] \in Seq(Nat)
        BY <3>1 DEF TypeOK
      <4>4. Elements(fed[s]) \cup {stage[p]} \subseteq Elements(fed'[s])
        BY <4>2, <4>3, <2>2, AppendElements
      <4> QED BY <4>2, <4>4
    <3>3. CASE s \notin Takers
      <4>1. s \in Laggards
        BY <3>1, <3>3 DEF Takers, Laggards
      <4>2. fed'[s] = fed[s] /\ lost'[s] = lost[s] \cup {stage[p]}
        BY <1>2, <3>1, <3>3, <4>1 DEF Forward
      <4> QED BY <4>2 DEF Elements
    <3> QED BY <3>2, <3>3
  <2>5. ASSUME NEW s \in open', NEW e \in (first[s] .. count)'
        PROVE  e \in Elements(fed'[s]) \cup lost'[s] \cup InFlight'
    <3>1. s \in open /\ e \in first[s] .. count
      BY <2>3
    <3>2. e \in Elements(fed[s]) \cup lost[s] \cup InFlight
      BY <3>1 DEF NoEventMissed
    <3> QED BY <2>1, <2>4, <3>1, <3>2
  <2> QED BY <2>5 DEF NoEventMissed, Elements
<1>3. ASSUME NEW s \in Subscribers, Subscribe(s) PROVE NoEventMissed'
  <2>1. /\ UNCHANGED <<count, lost, stage>> /\ open' = open \cup {s}
        /\ fed' = [fed EXCEPT ![s] = log] /\ first' = [first EXCEPT ![s] = count - Len(log) + 1]
        /\ s \in DOMAIN fed /\ s \in DOMAIN first
    BY <1>3, ReplayIsLog DEF Subscribe, TypeOK
  <2>2. ASSUME NEW e \in count - Len(log) + 1 .. count
        PROVE  e \in Elements(log)
    <3>1. /\ log \in Seq(Nat) /\ Len(log) \in Nat /\ count \in Nat
      BY DEF TypeOK
    <3>2. e - count + Len(log) \in 1 .. Len(log)
      BY <3>1
    <3>3. log[e - count + Len(log)] = e
      BY <3>1, <3>2 DEF LogIsTail
    <3> QED BY <3>1, <3>2, <3>3 DEF Elements
  <2>3. InFlight' = InFlight
    BY <2>1 DEF InFlight
  <2>4. ASSUME NEW q \in open', NEW e \in (first[q] .. count)'
        PROVE  e \in Elements(fed'[q]) \cup lost'[q] \cup InFlight'
    <3>1. CASE q = s
      BY <2>1, <2>2, <3>1
    <3>2. CASE q # s
      <4>1. q \in open /\ fed'[q] = fed[q] /\ first'[q] = first[q] /\ e \in first[q] .. count
        BY <2>1, <3>2
      <4> QED BY <4>1, <2>1, <2>3 DEF NoEventMissed
    <3> QED BY <3>1, <3>2
  <2> QED BY <2>4 DEF NoEventMissed, Elements
<1>4. ASSUME UNCHANGED <<stage, count, fed, lost, first>>, open' \subseteq open PROVE NoEventMissed'
  BY <1>4 DEF NoEventMissed, InFlight, Elements
<1>5. ASSUME NEW s \in Subscribers, Receive(s) PROVE NoEventMissed'
  BY <1>4, <1>5 DEF Receive
<1>6. ASSUME NEW s \in Subscribers, Leave(s) PROVE NoEventMissed'
  BY <1>4, <1>6 DEF Leave
<1>7. CASE UNCHANGED vars
  BY <1>4, <1>7 DEF vars
<1> QED BY <1>1, <1>2, <1>3, <1>5, <1>6, <1>7 DEF Next

----------------------------------------------------------------------------
\* The event in a publisher's hands is its last.
LEMMA HandStep ==
    ASSUME TypeOK, LastInHand, [Next]_vars
    PROVE  LastInHand'
<1> USE LogAssumption, BoundAssumption
<1>1. ASSUME NEW p \in Publishers, LogEvent(p) PROVE LastInHand'
  <2>1. /\ count' = count + 1 /\ count \in Nat /\ author' = Append(author, p)
        /\ author \in Seq(Publishers) /\ Len(author) = count
        /\ stage' = [stage EXCEPT ![p] = count + 1] /\ stage[p] = None
    BY <1>1 DEF LogEvent, TypeOK, LastInHand
  <2>2. /\ Len(author') = count' /\ author'[count + 1] = p
        /\ \A e \in 1 .. count : author'[e] = author[e]
    BY <2>1
  <2>3. ASSUME NEW q \in Publishers, stage'[q] # None
        PROVE  /\ stage'[q] \in 1 .. count' /\ author'[stage'[q]] = q
               /\ \A e \in 1 .. count' : author'[e] = q => e <= stage'[q]
    <3>1. CASE q = p
      <4>1. stage'[q] = count + 1
        BY <2>1, <3>1 DEF TypeOK
      <4> QED BY <2>1, <2>2, <3>1, <4>1
    <3>2. CASE q # p
      <4>1. stage'[q] = stage[q]
        BY <2>1, <3>2 DEF TypeOK
      <4>2. /\ stage[q] \in 1 .. count /\ author[stage[q]] = q
            /\ \A e \in 1 .. count : author[e] = q => e <= stage[q]
        BY <2>3, <4>1 DEF LastInHand
      <4>3. \A e \in 1 .. count + 1 : author'[e] = q => e \in 1 .. count
        BY <2>1, <2>2, <3>2
      <4> QED BY <2>1, <2>2, <4>1, <4>2, <4>3
    <3> QED BY <3>1, <3>2
  <2> QED BY <2>2, <2>3 DEF LastInHand
<1>2. ASSUME NEW p \in Publishers, Forward(p) PROVE LastInHand'
  BY <1>2 DEF Forward, LastInHand, TypeOK, None
<1>3. ASSUME UNCHANGED <<stage, count, author>> PROVE LastInHand'
  BY <1>3 DEF LastInHand
<1> QED BY <1>1, <1>2, <1>3 DEF Next, vars, Subscribe, Receive, Leave

\* Only events are fed.
LEMMA FedStep ==
    ASSUME TypeOK, LogIsTail, LastInHand, FedEvents, [Next]_vars
    PROVE  FedEvents'
<1> USE LogAssumption, BoundAssumption
<1>1. ASSUME NEW p \in Publishers, LogEvent(p) PROVE FedEvents'
  <2>1. fed' = fed /\ count' = count + 1 /\ count \in Nat
    BY <1>1 DEF LogEvent, TypeOK
  <2>2. 1 .. count \subseteq 1 .. count + 1
    BY <2>1
  <2> QED BY <2>1, <2>2 DEF FedEvents
<1>2. ASSUME NEW p \in Publishers, Forward(p) PROVE FedEvents'
  <2>1. stage[p] \in 1 .. count /\ stage[p] \in Nat /\ count' = count
    BY <1>2 DEF Forward, LastInHand, TypeOK
  <2>2. ASSUME NEW s \in Subscribers, NEW i \in 1 .. Len(fed'[s])
        PROVE  fed'[s][i] \in 1 .. count
    <3>1. fed[s] \in Seq(Nat) /\ (fed'[s] = fed[s] \/ fed'[s] = Append(fed[s], stage[p]))
      BY <1>2 DEF Forward, TypeOK
    <3>2. \A k \in 1 .. Len(fed[s]) : fed[s][k] \in 1 .. count
      BY DEF FedEvents
    <3>3. CASE fed'[s] = fed[s]
      <4>1. i \in 1 .. Len(fed[s])
        BY <3>3
      <4> QED BY <3>2, <3>3, <4>1
    <3>4. CASE fed'[s] = Append(fed[s], stage[p])
      <4>1. Len(Append(fed[s], stage[p])) = Len(fed[s]) + 1 /\ Len(fed[s]) \in Nat
        BY <2>1, <3>1
      <4>2. i \in 1 .. Len(fed[s]) \/ i = Len(fed[s]) + 1
        BY <3>4, <4>1
      <4>3. i \in 1 .. Len(fed[s]) => Append(fed[s], stage[p])[i] = fed[s][i]
        BY <2>1, <3>1
      <4>4. Append(fed[s], stage[p])[Len(fed[s]) + 1] = stage[p]
        BY <2>1, <3>1
      <4> QED BY <2>1, <3>2, <3>4, <4>2, <4>3, <4>4
    <3> QED BY <3>1, <3>3, <3>4
  <2> QED BY <2>1, <2>2 DEF FedEvents
<1>3. ASSUME NEW s \in Subscribers, Subscribe(s) PROVE FedEvents'
  <2>1. ASSUME NEW i \in 1 .. Len(log) PROVE log[i] \in 1 .. count
    <3>1. count \in Nat /\ Len(log) \in Nat /\ i \in Nat /\ Len(log) <= count
      BY DEF LogIsTail, TypeOK
    <3>2. log[i] = count - Len(log) + i
      BY DEF LogIsTail
    <3> QED BY <3>1, <3>2
  <2>2. fed' = [fed EXCEPT ![s] = log] /\ count' = count
    BY <1>3, ReplayIsLog DEF Subscribe
  <2>3. fed \in [Subscribers -> Seq(Nat)]
    BY DEF TypeOK
  <2>4. ASSUME NEW q \in Subscribers, NEW i \in 1 .. Len(fed'[q])
        PROVE  fed'[q][i] \in 1 .. count
    <3>1. CASE q = s
      <4>1. fed'[q] = log
        BY <2>2, <2>3, <3>1
      <4> QED BY <2>1, <4>1
    <3>2. CASE q # s
      <4>1. fed'[q] = fed[q]
        BY <2>2, <2>3, <3>2
      <4>2. i \in 1 .. Len(fed[q])
        BY <4>1
      <4> QED BY <4>1, <4>2 DEF FedEvents
    <3> QED BY <3>1, <3>2
  <2> QED BY <2>2, <2>4 DEF FedEvents
<1>4. ASSUME UNCHANGED <<count, fed>> PROVE FedEvents'
  BY <1>4 DEF FedEvents
<1> QED BY <1>1, <1>2, <1>3, <1>4 DEF Next, vars, Receive, Leave

\* One more event behind the others keeps the order of its source.
LEMMA OrderStep ==
    ASSUME TypeOK, LogIsTail, LastInHand, FedEvents, SourceOrder, [Next]_vars
    PROVE  SourceOrder'
<1> USE LogAssumption, BoundAssumption
<1>1. ASSUME NEW p \in Publishers, LogEvent(p) PROVE SourceOrder'
  <2>1. /\ fed' = fed /\ author' = Append(author, p)
        /\ author \in Seq(Publishers) /\ Len(author) = count /\ count \in Nat
    BY <1>1 DEF LogEvent, LastInHand, TypeOK
  <2>2. \A e \in 1 .. count : author'[e] = author[e]
    BY <2>1
  <2>3. \A s \in Subscribers : fed[s] \in Seq(Nat) /\ DOMAIN fed[s] = 1 .. Len(fed[s])
    BY DEF TypeOK
  <2>4. \A s \in Subscribers : \A i \in DOMAIN fed[s] : author'[fed[s][i]] = author[fed[s][i]]
    BY <2>2, <2>3 DEF FedEvents
  <2>5. ASSUME NEW s \in Subscribers, NEW i \in DOMAIN fed[s], NEW j \in DOMAIN fed[s],
               i < j, author'[fed[s][i]] = author'[fed[s][j]]
        PROVE  fed[s][i] <= fed[s][j]
    <3>1. author[fed[s][i]] = author[fed[s][j]]
      BY <2>4, <2>5
    <3> QED BY <2>5, <3>1 DEF SourceOrder
  <2> QED BY <2>1, <2>5 DEF SourceOrder
<1>2. ASSUME NEW p \in Publishers, Forward(p) PROVE SourceOrder'
  <2>1. /\ stage[p] \in 1 .. count /\ stage[p] \in Nat /\ author' = author
        /\ \A e \in 1 .. count : author[e] = author[stage[p]] => e <= stage[p]
    BY <1>2 DEF Forward, LastInHand, TypeOK
  <2>2. ASSUME NEW s \in Subscribers, NEW i \in DOMAIN fed'[s], NEW j \in DOMAIN fed'[s],
               i < j, author[fed'[s][i]] = author[fed'[s][j]]
        PROVE  fed'[s][i] <= fed'[s][j]
    <3>1. fed[s] \in Seq(Nat) /\ (fed'[s] = fed[s] \/ fed'[s] = Append(fed[s], stage[p]))
      BY <1>2 DEF Forward, TypeOK
    <3>2. CASE fed'[s] = fed[s]
      BY <2>2, <3>2 DEF SourceOrder
    <3>3. CASE fed'[s] = Append(fed[s], stage[p])
      <4>1. /\ i \in 1 .. Len(fed[s]) /\ fed'[s][i] = fed[s][i]
            /\ j = Len(fed[s]) + 1 \/ j \in 1 .. Len(fed[s])
        BY <2>2, <3>1, <3>3
      <4>2. CASE j = Len(fed[s]) + 1
        <5>1. fed'[s][j] = stage[p]
          BY <3>1, <3>3, <4>2
        <5>2. fed[s][i] \in 1 .. count
          BY <4>1 DEF FedEvents
        <5> QED BY <2>1, <2>2, <4>1, <5>1, <5>2
      <4>3. CASE j \in 1 .. Len(fed[s])
        <5>1. fed'[s][j] = fed[s][j] /\ i \in DOMAIN fed[s] /\ j \in DOMAIN fed[s]
          BY <3>1, <3>3, <4>1, <4>3
        <5> QED BY <2>2, <4>1, <5>1 DEF SourceOrder
      <4> QED BY <4>1, <4>2, <4>3
    <3> QED BY <3>1, <3>2, <3>3
  <2> QED BY <2>1, <2>2 DEF SourceOrder
<1>3. ASSUME NEW s \in Subscribers, Subscribe(s) PROVE SourceOrder'
  <2>1. /\ author' = author /\ fed' = [fed EXCEPT ![s] = log] /\ fed \in [Subscribers -> Seq(Nat)]
        /\ log \in Seq(Nat) /\ Len(log) \in Nat /\ count \in Nat
    <3>1. author' = author /\ fed' = [fed EXCEPT ![s] = Replay]
      BY <1>3 DEF Subscribe
    <3>2. /\ fed \in [Subscribers -> Seq(Nat)] /\ count \in Nat
          /\ log \in Seq(Nat) /\ Len(log) \in Nat
      BY DEF TypeOK
    <3> QED BY <3>1, <3>2, ReplayIsLog
  <2>2. \A i, j \in DOMAIN log : i < j => log[i] <= log[j]
    BY <2>1 DEF LogIsTail
  <2>3. ASSUME NEW q \in Subscribers, NEW i \in DOMAIN fed'[q], NEW j \in DOMAIN fed'[q],
               i < j, author[fed'[q][i]] = author[fed'[q][j]]
        PROVE  fed'[q][i] <= fed'[q][j]
    <3>1. CASE q = s
      BY <2>1, <2>2, <2>3, <3>1
    <3>2. CASE q # s
      BY <2>1, <2>3, <3>2 DEF SourceOrder
    <3> QED BY <3>1, <3>2
  <2> QED BY <2>1, <2>3 DEF SourceOrder
<1>4. ASSUME UNCHANGED <<author, fed>> PROVE SourceOrder'
  BY <1>4 DEF SourceOrder
<1> QED BY <1>1, <1>2, <1>3, <1>4 DEF Next, vars, Receive, Leave

----------------------------------------------------------------------------
IInv == TypeOK /\ LogIsTail /\ NoEventMissed /\ LastInHand /\ FedEvents /\ SourceOrder

\* The inductive invariant holds of every behaviour of the bus.
THEOREM Inductive == Spec => []IInv
<1>1. Init => IInv
  <2> SUFFICES ASSUME Init PROVE IInv
    OBVIOUS
  <2> USE LogAssumption, BoundAssumption
  <2>1. TypeOK
    BY DEF Init, TypeOK, None
  <2>2. LogIsTail /\ NoEventMissed
    BY DEF Init, LogIsTail, NoEventMissed
  <2>3. LastInHand
    BY DEF Init, LastInHand
  <2>4. FedEvents /\ SourceOrder
    BY DEF Init, FedEvents, SourceOrder
  <2> QED BY <2>1, <2>2, <2>3, <2>4 DEF IInv
<1>2. IInv /\ [Next]_vars => IInv'
  <2> SUFFICES ASSUME IInv, [Next]_vars PROVE IInv'
    OBVIOUS
  <2>1. TypeOK /\ LogIsTail /\ NoEventMissed /\ LastInHand /\ FedEvents /\ SourceOrder
    BY DEF IInv
  <2>2. TypeOK' /\ LogIsTail'
    BY <2>1, TypeStep, LogStep
  <2>3. NoEventMissed'
    BY <2>1, MissedStep
  <2>4. LastInHand' /\ FedEvents'
    BY <2>1, HandStep, FedStep
  <2>5. SourceOrder'
    BY <2>1, OrderStep
  <2> QED BY <2>2, <2>3, <2>4, <2>5 DEF IInv
<1> QED BY <1>1, <1>2, PTL DEF Spec

(* The variables of the bus have their types.                                *)
THEOREM TypeCorrect == Spec => []TypeOK
<1> IInv => TypeOK
  BY DEF IInv
<1> QED BY Inductive, PTL

(* An open subscriber never misses an event of a publisher, however publish  *)
(* and subscribe interleave (topic_event_bus.rs).                            *)
THEOREM NothingMissed == Spec => []NoEventMissed
<1> IInv => NoEventMissed
  BY DEF IInv
<1> QED BY Inductive, PTL

(* The log a late subscriber is fed is always the last events, without gaps. *)
THEOREM LogWithoutGaps == Spec => []LogIsTail
<1> IInv => LogIsTail
  BY DEF IInv
<1> QED BY Inductive, PTL

(* What one publisher publishes reaches every subscriber in its order.       *)
THEOREM SourcesInOrder == Spec => []SourceOrder
<1> IInv => SourceOrder
  BY DEF IInv
<1> QED BY Inductive, PTL

----------------------------------------------------------------------------
(* The live status. *)

\* The stages between Track and Return, and those with messages set aside.
Counted == {"dispatched", "running", "settled", "ended", "putback", "after"}
Holding == {"dispatched", "running", "settled", "ended", "putback"}
Closing == {"ended", "putback", "after"}

\* A turn is to take processing back: at its end, or through its failure.
OwesEnd(w) == pc[w] \in {"running", "failed"} \/ (pc[w] \in Closing /\ ~ok[w])

ProcessingOwed == processing => \E w \in Workers : OwesEnd(w)
AsideOwed == aside # 0 => \E w \in Workers : pc[w] \in Holding
CountOwed == inTurn # NoId => \E w \in Workers : tid[w] = inTurn /\ pc[w] \in Counted

Owed == ProcessingOwed /\ AsideOwed /\ CountOwed

HeldWithin == \A w \in Workers : pc[w] \notin Holding => held[w] = 0

\* A turn that met no other is alone.
Solo(w) == w \in Active /\ w \notin mixed

Alone == \A w \in Workers : Solo(w) => \A u \in Active : u = w

\* ShownAsItIs, with what is not shown yet and not shown any more.
Shown(w) ==
    /\ pc[w] = "running" => processing /\ ~error
    /\ \/ pc[w] \in {"begin", "settled", "resting"}
       \/ pc[w] \in Closing /\ ok[w]
       => ~processing
    /\ pc[w] \in Working => aside = held[w]
    /\ pc[w] \in Counted => inTurn = tid[w]

SoloShown == \A w \in Workers : Solo(w) => Shown(w)

LiveInv == LiveTypeOK /\ Owed /\ HeldWithin /\ Alone /\ SoloShown

\* A worker's step leaves the other workers alone.
Others(w) ==
    \A u \in Workers \ {w} :
        pc'[u] = pc[u] /\ tid'[u] = tid[u] /\ held'[u] = held[u] /\ ok'[u] = ok[u]

\* What a step of w shows is owed by w, or was shown before and not owed by w.
Owes(w) ==
    /\ processing' => OwesEnd(w)' \/ (processing /\ ~OwesEnd(w))
    /\ aside' # 0 => pc'[w] \in Holding \/ (aside # 0 /\ pc[w] \notin Holding)
    /\ inTurn' # NoId =>
         \/ tid'[w] = inTurn' /\ pc'[w] \in Counted
         \/ inTurn' = inTurn /\ ~(tid[w] = inTurn /\ pc[w] \in Counted)
    /\ pc'[w] \notin Holding => held'[w] = 0

Stages == Working \cup Guarded \cup {"unborn", "starting", "top", "gone"}

----------------------------------------------------------------------------
LEMMA LiveTypeStep == LiveTypeOK /\ [LiveNext]_liveVars => LiveTypeOK'
<1> SUFFICES ASSUME LiveTypeOK, [LiveNext]_liveVars PROVE LiveTypeOK'
  OBVIOUS
<1>0. MaxTurns \in Nat /\ MaxHeld \in Nat /\ MaxCloses \in Nat
  BY LiveBoundAssumption
<1> USE <1>0 DEF entry, turn, topic, Goto
<1>1. CASE UNCHANGED liveVars
  BY <1>1 DEF LiveTypeOK, liveVars
<1>2. CASE CloseFreezes
  BY <1>2 DEF LiveTypeOK, CloseFreezes
<1>3. CASE CloseClears
  <2>1. Active \subseteq Workers /\ 0 \in 0 .. turns /\ 0 \in 0 .. MaxHeld
    BY DEF Active, LiveTypeOK
  <2> QED BY <1>3, <2>1 DEF LiveTypeOK, CloseClears, NoId
<1>4. CASE CloseFails
  BY <1>4 DEF LiveTypeOK, CloseFails
<1>5. CASE CloseCancels
  BY <1>5 DEF LiveTypeOK, CloseCancels
<1>6. ASSUME NEW w \in Workers, Spawn(w) PROVE LiveTypeOK'
  BY <1>6 DEF Working, Guarded, LiveTypeOK, Spawn
\* The stages without a write of the status.
<1>7. ASSUME NEW w \in Workers, Start(w) \/ LeaveCancelled(w) \/ LeaveFrozen(w) PROVE LiveTypeOK'
  <2>1. CASE Start(w)
    BY <2>1 DEF Working, Guarded, LiveTypeOK, Start
  <2>2. CASE LeaveCancelled(w)
    BY <2>2 DEF Working, Guarded, LiveTypeOK, LeaveCancelled
  <2>3. CASE LeaveFrozen(w)
    BY <2>3 DEF Working, Guarded, LiveTypeOK, LeaveFrozen
  <2> QED BY <1>7, <2>1, <2>2, <2>3
<1>8. ASSUME NEW w \in Workers, Begin(w) PROVE LiveTypeOK'
  <2>1. Active \subseteq Workers
    BY DEF Active
  <2> QED BY <1>8, <2>1 DEF Working, Guarded, LiveTypeOK, Begin
<1>9. ASSUME NEW w \in Workers, NoTurn(w) \/ FailsBefore(w) PROVE LiveTypeOK'
  BY <1>9 DEF Working, Guarded, LiveTypeOK, NoTurn, FailsBefore
<1>10. ASSUME NEW w \in Workers, AgentReturns(w) \/ AgentFails(w) PROVE LiveTypeOK'
  <2>1. CASE AgentReturns(w)
    BY <2>1 DEF Working, Guarded, LiveTypeOK, AgentReturns
  <2>2. CASE AgentFails(w)
    BY <2>2 DEF Working, Guarded, LiveTypeOK, AgentFails
  <2> QED BY <1>10, <2>1, <2>2
<1>11. ASSUME NEW w \in Workers, NextMessage(w) \/ RestEnds(w) \/ GuardReads(w) PROVE LiveTypeOK'
  <2>1. CASE NextMessage(w)
    BY <2>1 DEF Working, Guarded, LiveTypeOK, NextMessage
  <2>2. CASE RestEnds(w)
    BY <2>2 DEF Working, Guarded, LiveTypeOK, RestEnds
  <2>3. CASE GuardReads(w)
    BY <2>3 DEF Working, Guarded, LiveTypeOK, GuardReads
  <2> QED BY <1>11, <2>1, <2>2, <2>3
\* A turn is tracked under a new number.
<1>12. ASSUME NEW w \in Workers, Track(w) PROVE LiveTypeOK'
  <2>1. turns' = turns + 1 /\ turns \in Nat /\ turns' \in Nat
    BY <1>12 DEF Working, Guarded, LiveTypeOK, Track
  <2>2. 0 .. turns \subseteq 0 .. turns' /\ turns + 1 \in 0 .. turns'
    BY <2>1
  <2>3. tid' \in [Workers -> 0 .. turns'] /\ inTurn' \in 0 .. turns'
    BY <1>12, <2>2 DEF Working, Guarded, LiveTypeOK, Track
  <2> QED BY <1>12, <2>1, <2>3 DEF Working, Guarded, LiveTypeOK, Track
\* The writes.
<1>13. ASSUME NEW w \in Workers, AgentStarts(w) PROVE LiveTypeOK'
  BY <1>13 DEF Working, Guarded, LiveTypeOK, AgentStarts, SetProcessing
<1>14. ASSUME NEW w \in Workers, SetAside(w) \/ Drain(w) \/ PutBack(w) PROVE LiveTypeOK'
  <2>1. PICK n \in 0 .. MaxHeld :
           /\ held' = [held EXCEPT ![w] = n] /\ SetQueued(n)
           /\ pc' \in [Workers -> Stages]
           /\ UNCHANGED <<inTurn, turns, begun, tid, ok, flag, leaving, topic, mixed, failedHere>>
    <3>1. CASE SetAside(w)
      BY <3>1 DEF SetAside, LiveTypeOK, Stages, Working
    <3>2. CASE Drain(w)
      <4>1. held[w] .. MaxHeld \subseteq 0 .. MaxHeld
        BY DEF LiveTypeOK
      <4> QED BY <3>2, <4>1 DEF Drain, LiveTypeOK, Stages, Working
    <3>3. CASE PutBack(w)
      <4>1. 0 \in 0 .. MaxHeld /\ pc' \in [Workers -> Stages]
        BY <3>3 DEF PutBack, LiveTypeOK, Stages, Working
      <4> QED BY <3>3, <4>1 DEF PutBack
    <3> QED BY <1>14, <3>1, <3>2, <3>3
  <2> QED BY <2>1 DEF LiveTypeOK, SetQueued, Stages
<1>15. ASSUME NEW w \in Workers, NEW success \in BOOLEAN, AgentSettles(w, success)
       PROVE  LiveTypeOK'
  BY <1>15 DEF Working, Guarded, LiveTypeOK, AgentSettles, EndTurnIfKnown
<1>16. ASSUME NEW w \in Workers, Return(w) PROVE LiveTypeOK'
  BY <1>16 DEF Working, Guarded, LiveTypeOK, Return, ClearInTurn, NoId
<1>17. ASSUME NEW w \in Workers, CloseFailed(w) PROVE LiveTypeOK'
  BY <1>17 DEF Working, Guarded, LiveTypeOK, CloseFailed, EndTurnIfKnown
<1>18. ASSUME NEW w \in Workers, GuardEnds(w) PROVE LiveTypeOK'
  BY <1>18 DEF Working, Guarded, LiveTypeOK, GuardEnds, EndTurnIfKnown
<1>19. ASSUME NEW w \in Workers, GuardClears(w) PROVE LiveTypeOK'
  BY <1>19 DEF Working, Guarded, LiveTypeOK, GuardClears, ClearQueuedIfKnown
<1> QED BY <1>1, <1>2, <1>3, <1>4, <1>5, <1>6, <1>7, <1>8, <1>9, <1>10, <1>11, <1>12, <1>13,
           <1>14, <1>15, <1>16, <1>17, <1>18, <1>19 DEF LiveNext, Close, Step

----------------------------------------------------------------------------
LEMMA OthersStay ==
    ASSUME LiveTypeOK, NEW w \in Workers, Spawn(w) \/ Step(w)
    PROVE  Others(w)
<1> USE DEF Others, Goto, turn
<1>0. /\ DOMAIN pc = Workers /\ DOMAIN tid = Workers /\ DOMAIN held = Workers
      /\ DOMAIN ok = Workers
  BY DEF LiveTypeOK
<1>1. CASE Spawn(w)  BY <1>0, <1>1 DEF Spawn
<1>2. CASE Start(w)  BY <1>0, <1>2 DEF Start
<1>3. CASE LeaveCancelled(w)  BY <1>0, <1>3 DEF LeaveCancelled
<1>4. CASE LeaveFrozen(w)  BY <1>0, <1>4 DEF LeaveFrozen
<1>5. CASE Begin(w)  BY <1>0, <1>5 DEF Begin
<1>6. CASE NoTurn(w)  BY <1>0, <1>6 DEF NoTurn
<1>7. CASE FailsBefore(w)  BY <1>0, <1>7 DEF FailsBefore
<1>8. CASE Track(w)  BY <1>0, <1>8 DEF Track
<1>9. CASE AgentStarts(w)  BY <1>0, <1>9 DEF AgentStarts
<1>10. ASSUME NEW success \in BOOLEAN, AgentSettles(w, success) PROVE Others(w)
  BY <1>0, <1>10 DEF AgentSettles
<1>11. CASE SetAside(w)  BY <1>0, <1>11 DEF SetAside
<1>12. CASE AgentReturns(w)  BY <1>0, <1>12 DEF AgentReturns
<1>13. CASE AgentFails(w)  BY <1>0, <1>13 DEF AgentFails
<1>14. CASE Drain(w)  BY <1>0, <1>14 DEF Drain
<1>15. CASE PutBack(w)  BY <1>0, <1>15 DEF PutBack
<1>16. CASE Return(w)  BY <1>0, <1>16 DEF Return
<1>17. CASE CloseFailed(w)  BY <1>0, <1>17 DEF CloseFailed
<1>18. CASE NextMessage(w)  BY <1>0, <1>18 DEF NextMessage
<1>19. CASE RestEnds(w)  BY <1>0, <1>19 DEF RestEnds
<1>20. CASE GuardReads(w)  BY <1>0, <1>20 DEF GuardReads
<1>21. CASE GuardEnds(w)  BY <1>0, <1>21 DEF GuardEnds
<1>22. CASE GuardClears(w)  BY <1>0, <1>22 DEF GuardClears
<1> QED BY <1>1, <1>2, <1>3, <1>4, <1>5, <1>6, <1>7, <1>8, <1>9, <1>10, <1>11, <1>12, <1>13,
           <1>14, <1>15, <1>16, <1>17, <1>18, <1>19, <1>20, <1>21, <1>22 DEF Step

\* The step of every stage owes what it shows.
LEMMA StepOwes ==
    ASSUME LiveTypeOK, HeldWithin, NEW w \in Workers, Spawn(w) \/ Step(w)
    PROVE  Owes(w)
<1> USE DEF Owes, OwesEnd, Goto, turn, entry, Holding, Closing, Counted, NoId
<1>0. /\ DOMAIN pc = Workers /\ DOMAIN tid = Workers /\ DOMAIN held = Workers
      /\ DOMAIN ok = Workers
      /\ pc[w] \notin Holding => held[w] = 0
  BY DEF LiveTypeOK, HeldWithin
<1>1. CASE Spawn(w)  BY <1>0, <1>1 DEF Spawn
<1>2. CASE Start(w)  BY <1>0, <1>2 DEF Start
<1>3. CASE LeaveCancelled(w)  BY <1>0, <1>3 DEF LeaveCancelled
<1>4. CASE LeaveFrozen(w)  BY <1>0, <1>4 DEF LeaveFrozen
<1>5. CASE Begin(w)  BY <1>0, <1>5 DEF Begin
<1>6. CASE NoTurn(w)  BY <1>0, <1>6 DEF NoTurn
<1>7. CASE FailsBefore(w)  BY <1>0, <1>7 DEF FailsBefore
<1>8. CASE Track(w)  BY <1>0, <1>8 DEF Track
<1>9. CASE AgentStarts(w)  BY <1>0, <1>9 DEF AgentStarts, SetProcessing
<1>10. ASSUME NEW success \in BOOLEAN, AgentSettles(w, success) PROVE Owes(w)
  BY <1>0, <1>10 DEF AgentSettles, EndTurnIfKnown
<1>11. CASE SetAside(w)  BY <1>0, <1>11 DEF SetAside, SetQueued
<1>12. CASE AgentReturns(w)  BY <1>0, <1>12 DEF AgentReturns
<1>13. CASE AgentFails(w)  BY <1>0, <1>13 DEF AgentFails
<1>14. CASE Drain(w)  BY <1>0, <1>14 DEF Drain, SetQueued
<1>15. CASE PutBack(w)  BY <1>0, <1>15 DEF PutBack, SetQueued
<1>16. CASE Return(w)  BY <1>0, <1>16 DEF Return, ClearInTurn
<1>17. CASE CloseFailed(w)  BY <1>0, <1>17 DEF CloseFailed, EndTurnIfKnown
<1>18. CASE NextMessage(w)  BY <1>0, <1>18 DEF NextMessage
<1>19. CASE RestEnds(w)  BY <1>0, <1>19 DEF RestEnds
<1>20. CASE GuardReads(w)  BY <1>0, <1>20 DEF GuardReads
<1>21. CASE GuardEnds(w)  BY <1>0, <1>21 DEF GuardEnds, EndTurnIfKnown
<1>22. CASE GuardClears(w)  BY <1>0, <1>22 DEF GuardClears, ClearQueuedIfKnown
<1> QED BY <1>1, <1>2, <1>3, <1>4, <1>5, <1>6, <1>7, <1>8, <1>9, <1>10, <1>11, <1>12, <1>13,
           <1>14, <1>15, <1>16, <1>17, <1>18, <1>19, <1>20, <1>21, <1>22 DEF Step

----------------------------------------------------------------------------
\* What is shown is owed by a turn, after a step as before.
LEMMA OwedStep ==
    LiveTypeOK /\ HeldWithin /\ Owed /\ [LiveNext]_liveVars => Owed' /\ HeldWithin'
<1> SUFFICES ASSUME LiveTypeOK, HeldWithin, Owed, [LiveNext]_liveVars PROVE Owed' /\ HeldWithin'
  OBVIOUS
<1>1. ProcessingOwed /\ AsideOwed /\ CountOwed
  BY DEF Owed
<1>2. CASE Close \/ UNCHANGED liveVars
  <2>1. UNCHANGED <<pc, tid, held, ok>>
    BY <1>2 DEF Close, CloseFreezes, CloseClears, CloseFails, CloseCancels, liveVars, turn
  <2>2. \/ processing' = FALSE /\ aside' = 0 /\ inTurn' = NoId
        \/ UNCHANGED <<processing, aside, inTurn>>
    BY <1>2 DEF Close, CloseFreezes, CloseClears, CloseFails, CloseCancels, liveVars, entry
  <2>3. HeldWithin'
    BY <2>1 DEF HeldWithin
  <2>4. ProcessingOwed'
    BY <1>1, <2>1, <2>2 DEF ProcessingOwed, OwesEnd
  <2>5. AsideOwed' /\ CountOwed'
    BY <1>1, <2>1, <2>2 DEF AsideOwed, CountOwed
  <2> QED BY <2>3, <2>4, <2>5 DEF Owed
<1>3. ASSUME NEW w \in Workers, Spawn(w) \/ Step(w) PROVE Owed' /\ HeldWithin'
  <2>1. Others(w) /\ Owes(w)
    BY <1>3, OthersStay, StepOwes
  <2>2. ProcessingOwed'
    <3> SUFFICES ASSUME processing' PROVE \E v \in Workers : OwesEnd(v)'
      BY DEF ProcessingOwed
    <3>1. CASE OwesEnd(w)'
      BY <3>1
    <3>2. CASE processing /\ ~OwesEnd(w)
      <4>1. PICK v \in Workers : OwesEnd(v)
        BY <1>1, <3>2 DEF ProcessingOwed
      <4>2. v # w
        BY <3>2, <4>1
      <4>3. OwesEnd(v)'
        BY <2>1, <4>1, <4>2 DEF Others, OwesEnd
      <4> QED BY <4>3
    <3> QED BY <2>1, <3>1, <3>2 DEF Owes
  <2>3. AsideOwed'
    <3> SUFFICES ASSUME aside' # 0 PROVE \E v \in Workers : pc'[v] \in Holding
      BY DEF AsideOwed
    <3>1. CASE pc'[w] \in Holding
      BY <3>1
    <3>2. CASE aside # 0 /\ pc[w] \notin Holding
      <4>1. PICK v \in Workers : pc[v] \in Holding
        BY <1>1, <3>2 DEF AsideOwed
      <4>2. v # w
        BY <3>2, <4>1
      <4> QED BY <2>1, <4>1, <4>2 DEF Others
    <3> QED BY <2>1, <3>1, <3>2 DEF Owes
  <2>4. CountOwed'
    <3> SUFFICES ASSUME inTurn' # NoId
                 PROVE  \E v \in Workers : tid'[v] = inTurn' /\ pc'[v] \in Counted
      BY DEF CountOwed
    <3>1. CASE tid'[w] = inTurn' /\ pc'[w] \in Counted
      BY <3>1
    <3>2. CASE inTurn' = inTurn /\ ~(tid[w] = inTurn /\ pc[w] \in Counted)
      <4>1. PICK v \in Workers : tid[v] = inTurn /\ pc[v] \in Counted
        BY <1>1, <3>2 DEF CountOwed
      <4>2. v # w
        BY <3>2, <4>1
      <4>3. tid'[v] = inTurn' /\ pc'[v] \in Counted
        BY <2>1, <3>2, <4>1, <4>2 DEF Others
      <4> QED BY <4>3
    <3> QED BY <2>1, <3>1, <3>2 DEF Owes
  <2>5. HeldWithin'
    BY <2>1 DEF Others, Owes, HeldWithin
  <2> QED BY <2>2, <2>3, <2>4, <2>5 DEF Owed
<1> QED BY <1>2, <1>3 DEF LiveNext

LEMMA QuietFromOwed == Owed => QuietIsIdle
<1> SUFFICES ASSUME Owed, \A w \in Workers : pc[w] \notin Working \cup {"failed"}
             PROVE  ~processing /\ aside = 0 /\ inTurn = NoId
  BY DEF QuietIsIdle
<1>1. \A w \in Workers : ~OwesEnd(w) /\ pc[w] \notin Holding /\ pc[w] \notin Counted
  BY DEF OwesEnd, Holding, Counted, Closing, Working
<1> QED BY <1>1 DEF Owed, ProcessingOwed, AsideOwed, CountOwed

----------------------------------------------------------------------------
\* Only a begin makes a worker active or mixed, and only an active one writes.
LEMMA StepActive ==
    ASSUME LiveTypeOK, NEW w \in Workers, Spawn(w) \/ Step(w), ~Begin(w)
    PROVE  /\ mixed' = mixed
           /\ pc'[w] \in Working \cup Guarded => pc[w] \in Working \cup Guarded
           /\ pc[w] \notin Working \cup Guarded => UNCHANGED <<entry, inTurn>>
<1> DEFINE Goal == /\ mixed' = mixed
                   /\ pc'[w] \in Working \cup Guarded => pc[w] \in Working \cup Guarded
                   /\ pc[w] \notin Working \cup Guarded => UNCHANGED <<entry, inTurn>>
<1> SUFFICES Goal
  OBVIOUS
<1> USE DEF Working, Guarded, Goto
<1>0. DOMAIN pc = Workers
  BY DEF LiveTypeOK
<1>1. CASE Spawn(w)  BY <1>0, <1>1 DEF Spawn
<1>2. CASE Start(w)  BY <1>0, <1>2 DEF Start
<1>3. CASE LeaveCancelled(w)  BY <1>0, <1>3 DEF LeaveCancelled
<1>4. CASE LeaveFrozen(w)  BY <1>0, <1>4 DEF LeaveFrozen
<1>5. CASE NoTurn(w)  BY <1>0, <1>5 DEF NoTurn
<1>6. CASE FailsBefore(w)  BY <1>0, <1>6 DEF FailsBefore
<1>7. CASE Track(w)  BY <1>0, <1>7 DEF Track
<1>8. CASE AgentStarts(w)  BY <1>0, <1>8 DEF AgentStarts, SetProcessing
<1>9. ASSUME NEW success \in BOOLEAN, AgentSettles(w, success) PROVE Goal
  BY <1>0, <1>9 DEF AgentSettles, EndTurnIfKnown
<1>10. CASE SetAside(w)  BY <1>0, <1>10 DEF SetAside, SetQueued
<1>11. CASE AgentReturns(w)  BY <1>0, <1>11 DEF AgentReturns
<1>12. CASE AgentFails(w)  BY <1>0, <1>12 DEF AgentFails
<1>13. CASE Drain(w)  BY <1>0, <1>13 DEF Drain, SetQueued
<1>14. CASE PutBack(w)  BY <1>0, <1>14 DEF PutBack, SetQueued
<1>15. CASE Return(w)  BY <1>0, <1>15 DEF Return, ClearInTurn
<1>16. CASE CloseFailed(w)  BY <1>0, <1>16 DEF CloseFailed, EndTurnIfKnown
<1>17. CASE NextMessage(w)  BY <1>0, <1>17 DEF NextMessage
<1>18. CASE RestEnds(w)  BY <1>0, <1>18 DEF RestEnds
<1>19. CASE GuardReads(w)  BY <1>0, <1>19 DEF GuardReads
<1>20. CASE GuardEnds(w)  BY <1>0, <1>20 DEF GuardEnds, EndTurnIfKnown
<1>21. CASE GuardClears(w)  BY <1>0, <1>21 DEF GuardClears, ClearQueuedIfKnown
<1> QED BY <1>1, <1>2, <1>3, <1>4, <1>5, <1>6, <1>7, <1>8, <1>9, <1>10, <1>11, <1>12,
           <1>13, <1>14, <1>15, <1>16, <1>17, <1>18, <1>19, <1>20, <1>21 DEF Step

\* A turn that is shown as it is, is so after its own steps.
LEMMA StepShown ==
    ASSUME LiveTypeOK, HeldWithin, NEW w \in Workers, Spawn(w) \/ Step(w), ~Begin(w),
           pc[w] \in Working \cup Guarded, Shown(w)
    PROVE  Shown(w)'
<1> USE DEF Shown, Working, Guarded, Closing, Counted, Goto, turn, entry
<1>0. /\ DOMAIN pc = Workers /\ DOMAIN tid = Workers /\ DOMAIN held = Workers
      /\ DOMAIN ok = Workers
      /\ pc[w] \notin Holding => held[w] = 0
  BY DEF LiveTypeOK, HeldWithin
<1> USE DEF Holding
<1>1. CASE Spawn(w)  BY <1>0, <1>1 DEF Spawn
<1>2. CASE Start(w)  BY <1>0, <1>2 DEF Start
<1>3. CASE LeaveCancelled(w)  BY <1>0, <1>3 DEF LeaveCancelled
<1>4. CASE LeaveFrozen(w)  BY <1>0, <1>4 DEF LeaveFrozen
<1>5. CASE NoTurn(w)  BY <1>0, <1>5 DEF NoTurn
<1>6. CASE FailsBefore(w)  BY <1>0, <1>6 DEF FailsBefore
<1>7. CASE Track(w)  BY <1>0, <1>7 DEF Track
<1>8. CASE AgentStarts(w)  BY <1>0, <1>8 DEF AgentStarts, SetProcessing
<1>9. ASSUME NEW success \in BOOLEAN, AgentSettles(w, success) PROVE Shown(w)'
  BY <1>0, <1>9 DEF AgentSettles, EndTurnIfKnown
<1>10. CASE SetAside(w)  BY <1>0, <1>10 DEF SetAside, SetQueued
<1>11. CASE AgentReturns(w)  BY <1>0, <1>11 DEF AgentReturns
<1>12. CASE AgentFails(w)  BY <1>0, <1>12 DEF AgentFails
<1>13. CASE Drain(w)  BY <1>0, <1>13 DEF Drain, SetQueued
<1>14. CASE PutBack(w)  BY <1>0, <1>14 DEF PutBack, SetQueued
<1>15. CASE Return(w)  BY <1>0, <1>15 DEF Return, ClearInTurn
<1>16. CASE CloseFailed(w)  BY <1>0, <1>16 DEF CloseFailed, EndTurnIfKnown
<1>17. CASE NextMessage(w)  BY <1>0, <1>17 DEF NextMessage
<1>18. CASE RestEnds(w)  BY <1>0, <1>18 DEF RestEnds
<1>19. CASE GuardReads(w)  BY <1>0, <1>19 DEF GuardReads
<1>20. CASE GuardEnds(w)  BY <1>0, <1>20 DEF GuardEnds, EndTurnIfKnown
<1>21. CASE GuardClears(w)  BY <1>0, <1>21 DEF GuardClears, ClearQueuedIfKnown
<1> QED BY <1>1, <1>2, <1>3, <1>4, <1>5, <1>6, <1>7, <1>8, <1>9, <1>10, <1>11, <1>12,
           <1>13, <1>14, <1>15, <1>16, <1>17, <1>18, <1>19, <1>20, <1>21 DEF Step

LEMMA SoloStep ==
    /\ LiveTypeOK /\ HeldWithin /\ Owed /\ Alone /\ SoloShown /\ [LiveNext]_liveVars
    => Alone' /\ SoloShown'
<1> SUFFICES ASSUME LiveTypeOK, HeldWithin, Owed, Alone, SoloShown, [LiveNext]_liveVars
             PROVE  Alone' /\ SoloShown'
  OBVIOUS
<1>0. Active \subseteq Workers
  BY DEF Active
<1>1. CASE CloseClears
  <2>1. \A w \in Workers : ~Solo(w)'
    BY <1>1 DEF CloseClears, Solo, Active
  <2> QED BY <2>1 DEF Alone, SoloShown
<1>2. CASE CloseFreezes \/ CloseFails \/ CloseCancels \/ UNCHANGED liveVars
  <2>1. UNCHANGED <<pc, tid, held, ok, processing, error, aside, inTurn, mixed>>
    BY <1>2 DEF CloseFreezes, CloseFails, CloseCancels, liveVars, turn, entry
  <2>2. Active' = Active /\ \A w \in Workers : (Solo(w)' <=> Solo(w)) /\ (Shown(w)' <=> Shown(w))
    BY <2>1 DEF Active, Solo, Shown
  <2> QED BY <2>2 DEF Alone, SoloShown
<1>3. ASSUME NEW w \in Workers, Begin(w) PROVE Alone' /\ SoloShown'
  <2>1. /\ pc[w] = "top" /\ pc'[w] = "begin" /\ UNCHANGED <<entry, inTurn, held>>
        /\ mixed' = IF Active = {} THEN mixed \ {w} ELSE mixed \cup Active \cup {w}
    BY <1>3 DEF Begin, Goto, turn, LiveTypeOK
  <2>2. Others(w)
    BY <1>3, OthersStay DEF Step
  <2>3. Active' = Active \cup {w}
    BY <2>1, <2>2 DEF Active, Others, Working
  <2>4. CASE Active = {}
    <3>1. \A v \in Active' : v = w
      BY <2>3, <2>4
    <3>2. ~processing /\ aside = 0
      <4>1. \A v \in Workers : pc[v] \notin Working \cup {"failed"}
        BY <2>4 DEF Active, Guarded
      <4> QED BY <4>1, QuietFromOwed DEF QuietIsIdle
    <3>3. held'[w] = 0
      BY <2>1 DEF HeldWithin, Holding
    <3>4. processing' = FALSE /\ aside' = 0
      BY <2>1, <3>2 DEF entry, LiveTypeOK
    <3>5. Shown(w)'
      BY <2>1, <3>3, <3>4 DEF Shown, Closing, Counted
    <3>6. \A v \in Workers : Solo(v)' => v = w
      BY <3>1 DEF Solo
    <3> QED BY <3>1, <3>5, <3>6 DEF Alone, SoloShown
  <2>5. CASE Active # {}
    <3>1. Active' \subseteq mixed'
      BY <2>1, <2>3, <2>5
    <3>2. \A v \in Workers : ~Solo(v)'
      BY <3>1 DEF Solo
    <3> QED BY <3>2 DEF Alone, SoloShown
  <2> QED BY <2>4, <2>5
<1>4. ASSUME NEW w \in Workers, Spawn(w) \/ Step(w), ~Begin(w) PROVE Alone' /\ SoloShown'
  <2>1. Others(w)
    BY <1>4, OthersStay
  <2>2. /\ mixed' = mixed
        /\ pc'[w] \in Working \cup Guarded => pc[w] \in Working \cup Guarded
        /\ pc[w] \notin Working \cup Guarded => UNCHANGED <<entry, inTurn>>
    BY <1>4, StepActive
  <2>3. Active' \subseteq Active
    BY <2>1, <2>2 DEF Active, Others
  <2>4. ASSUME NEW v \in Workers, Solo(v)' PROVE Solo(v)
    BY <2>2, <2>3, <2>4 DEF Solo
  <2>5. Alone'
    BY <2>3, <2>4 DEF Alone
  <2>6. ASSUME NEW v \in Workers, Solo(v)' PROVE Shown(v)'
    <3>1. Solo(v) /\ Shown(v)
      BY <2>4, <2>6 DEF SoloShown
    <3>2. CASE v = w
      <4>1. pc[w] \in Working \cup Guarded
        BY <3>1, <3>2 DEF Solo, Active
      <4> QED BY <1>4, <3>1, <3>2, <4>1, StepShown
    <3>3. CASE v # w
      <4>1. pc[w] \notin Working \cup Guarded
        BY <3>1, <3>3 DEF Alone, Solo, Active
      <4>2. UNCHANGED <<processing, error, aside, inTurn>>
        BY <2>2, <4>1 DEF entry
      <4>3. pc'[v] = pc[v] /\ tid'[v] = tid[v] /\ held'[v] = held[v] /\ ok'[v] = ok[v]
        BY <2>1, <3>3 DEF Others
      <4> QED BY <3>1, <4>2, <4>3 DEF Shown
    <3> QED BY <3>2, <3>3
  <2> QED BY <2>5, <2>6 DEF SoloShown
<1> QED BY <1>1, <1>2, <1>3, <1>4 DEF LiveNext, Close, Step

----------------------------------------------------------------------------
\* The inductive invariant holds of every behaviour of the status.
THEOREM LiveInductive == LiveSpec => []LiveInv
<1>1. LiveInit => LiveInv
  <2> SUFFICES ASSUME LiveInit PROVE LiveInv
    OBVIOUS
  <2>1. LiveTypeOK
    <3>1. MaxTurns \in Nat /\ MaxHeld \in Nat /\ MaxCloses \in Nat
      BY LiveBoundAssumption
    <3>2. /\ pc \in [Workers -> Working \cup Guarded \cup {"unborn", "starting", "top", "gone"}]
          /\ ok \in [Workers -> BOOLEAN] /\ flag \in [Workers -> BOOLEAN]
          /\ leaving \in [Workers -> BOOLEAN]
      BY DEF LiveInit
    <3>3. /\ turns = 0 /\ tid \in [Workers -> 0 .. turns] /\ held \in [Workers -> 0 .. MaxHeld]
          /\ inTurn \in 0 .. turns /\ aside \in 0 .. MaxHeld
          /\ begun \in 0 .. MaxTurns /\ closes \in 0 .. MaxCloses
      BY <3>1 DEF LiveInit, NoId
    <3>4. /\ known = FALSE /\ processing = FALSE /\ error = FALSE /\ aside = 0
          /\ frozen = FALSE /\ failedHere = FALSE /\ closing = "none"
          /\ cancelled = {} /\ current = {} /\ mixed = {}
      BY DEF LiveInit
    <3> QED BY <3>2, <3>3, <3>4 DEF LiveTypeOK
  <2>2. Owed /\ HeldWithin
    BY DEF LiveInit, Owed, ProcessingOwed, AsideOwed, CountOwed, HeldWithin
  <2>3. Active = {}
    BY DEF LiveInit, Active, Working, Guarded
  <2>4. Alone /\ SoloShown
    BY <2>3 DEF Alone, SoloShown, Solo
  <2> QED BY <2>1, <2>2, <2>4 DEF LiveInv
<1>2. LiveInv /\ [LiveNext]_liveVars => LiveInv'
  <2> SUFFICES ASSUME LiveInv, [LiveNext]_liveVars PROVE LiveInv'
    OBVIOUS
  <2>1. LiveTypeOK /\ Owed /\ HeldWithin /\ Alone /\ SoloShown
    BY DEF LiveInv
  <2>2. LiveTypeOK'
    BY <2>1, LiveTypeStep
  <2>3. Owed' /\ HeldWithin'
    BY <2>1, OwedStep
  <2>4. Alone' /\ SoloShown'
    BY <2>1, SoloStep
  <2> QED BY <2>2, <2>3, <2>4 DEF LiveInv
<1> QED BY <1>1, <1>2, PTL DEF LiveSpec

(* The variables have their types, and a topic without an entry a clean one. *)
THEOREM LiveTypeCorrect == LiveSpec => []LiveTypeOK
<1> LiveInv => LiveTypeOK
  BY DEF LiveInv
<1> QED BY LiveInductive, PTL

(* With no turn in flight the topic is shown as idle with nothing waiting,   *)
(* however turns overlapped and ended (live_status.rs, TurnStatusGuard).     *)
THEOREM IdleWhenQuiet == LiveSpec => []QuietIsIdle
<1> LiveInv => QuietIsIdle
  BY QuietFromOwed DEF LiveInv
<1> QED BY LiveInductive, PTL

(* A turn that met neither a close nor another worker's turn is shown as it  *)
(* is (live_status.rs, worker/mod.rs).                                       *)
THEOREM SoloTurnShown == LiveSpec => []ShownAsItIs
<1>1. LiveInv => ShownAsItIs
  <2> SUFFICES ASSUME LiveInv, NEW w \in Workers \ mixed
               PROVE  /\ pc[w] = "running" => processing /\ ~error
                      /\ pc[w] \in {"settled", "resting"} => ~processing
                      /\ pc[w] \in Working => aside = held[w]
                      /\ pc[w] \in Working \ {"begin"} => inTurn = tid[w]
    BY DEF ShownAsItIs
  <2>1. CASE w \in Active
    BY <2>1 DEF LiveInv, SoloShown, Solo, Shown, Working, Counted
  <2>2. CASE w \notin Active
    BY <2>2 DEF Active, Working, Guarded
  <2> QED BY <2>1, <2>2
<1> QED BY LiveInductive, <1>1, PTL

(* The count of a turn's injection channel ends with that turn or a close    *)
(* (live_status.rs, clear_in_turn).                                          *)
THEOREM CountEndsWithTurn == LiveSpec => OwnCountOnly
<1> DEFINE Own == (inTurn # NoId /\ inTurn' # inTurn) =>
                     \/ inTurn' > inTurn
                     \/ closing = "clear"
                     \/ \E w \in Workers : tid[w] = inTurn /\ pc[w] = "after"
<1>1. LiveTypeOK /\ [LiveNext]_liveVars => [Own]_liveVars
  <2> SUFFICES ASSUME LiveTypeOK, [LiveNext]_liveVars, inTurn' # inTurn, inTurn # NoId PROVE Own
    OBVIOUS
  <2>1. ~UNCHANGED liveVars
    BY DEF liveVars
  <2>2. CASE Close
    BY <2>2 DEF Close, CloseFreezes, CloseClears, CloseFails, CloseCancels
  <2>3. ASSUME NEW w \in Workers, Spawn(w) \/ Step(w) PROVE Own
    <3>1. Track(w) \/ Return(w)
      BY <2>3 DEF Spawn, Step, Start, LeaveCancelled, LeaveFrozen, Begin, NoTurn, FailsBefore,
           AgentStarts, AgentSettles, SetAside, AgentReturns, AgentFails, Drain, PutBack, CloseFailed,
           NextMessage, RestEnds, GuardReads, GuardEnds, GuardClears
    <3>2. CASE Track(w)
      <4>1. inTurn' = turns + 1 /\ turns \in Nat /\ inTurn \in 0 .. turns
        BY <3>2 DEF Track, LiveTypeOK
      <4> QED BY <4>1
    <3>3. CASE Return(w)
      BY <3>3 DEF Return, ClearInTurn
    <3> QED BY <3>1, <3>2, <3>3
  <2> QED BY <2>1, <2>2, <2>3 DEF LiveNext
<1> QED BY LiveTypeCorrect, <1>1, PTL DEF LiveSpec, OwnCountOnly
=============================================================================
