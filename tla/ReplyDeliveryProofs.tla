------------------------ MODULE ReplyDeliveryProofs ------------------------
(* Type correctness of ReplyDelivery, that the worker looks into the relay  *)
(* only when the watcher of its turn is gone, and that a final reply is     *)
(* delivered once, for all constants.                                       *)
EXTENDS ReplyDelivery, TLAPS

\* A worker at work is in one of the turns counted.
TurnBegun == pc # "idle" => turn > 0

\* What is delivered after a turn is a text of the agent.
ResultAtDelivery == pc = "deliver" => result.text \in Text

IInv == TypeOK /\ WatcherGoneFirst /\ TurnBegun /\ ResultAtDelivery

Result == [delivered : BOOLEAN, text : Text \cup {None}, failed : BOOLEAN]

Delivering == {"send", "write", "create", "signal"}

LEMMA ReturnedType ==
    \A d \in BOOLEAN, t \in Text \cup {None} : Returned(d, t) \in Result
  BY DEF Returned, Result

\* What the loop does after a delivery keeps the shape of its state, and the
\* worker is not yet past the watcher.
LEMMA SaidKeeps ==
    ASSUME NEW t \in Text, NEW ok \in BOOLEAN, NEW live \in BOOLEAN,
           TypeOK, Said(t, ok, live)
    PROVE  /\ pc' \in {"agent", "stop"} /\ saying' = None
           /\ result' \in Result
           /\ turn' = turn /\ said' = said /\ kind' = kind /\ turnOf' = turnOf
<1>1. result \in Result
  BY DEF TypeOK, Result
<1>2. /\ NoResult \in Result
      /\ Returned(ok, t) \in Result
      /\ Returned(FALSE, t) \in Result
  BY ReturnedType DEF NoResult
<1> QED BY <1>1, <1>2 DEF Said

\* A saying, held or reply text is one of the agent's, never the absent one.
LEMMA NoneIsNoText == None \notin Text
  BY DEF None, Text

LEMMA InitIInv == Init => IInv
<1> SUFFICES ASSUME Init PROVE IInv
  OBVIOUS
<1>1. result \in Result
  BY ReturnedType DEF Init, NoResult
<1>2. /\ turn \in 0 .. MaxTurns /\ said \in 0 .. MaxTexts
  BY BoundsAssumption DEF Init
<1>3. /\ kind \in [Text -> AllKinds] /\ turnOf \in [Text -> 0 .. MaxTurns]
      /\ sends \in [Text -> Nat] /\ failures \in [Text -> Nat]
  BY BoundsAssumption DEF Init, AllKinds
<1> QED BY <1>1, <1>2, <1>3 DEF Init, IInv, TypeOK, WatcherGoneFirst, TurnBegun, ResultAtDelivery, Result

\* One attempt to get text t out keeps the three counters' shape.
LEMMA AttemptKeeps ==
    ASSUME NEW t \in Text, TypeOK, Sent(t) \/ Failed(t) \/ Suppressed(t)
    PROVE  /\ sends' \in [Text -> Nat] /\ failures' \in [Text -> Nat]
           /\ suppressed' \subseteq Text
<1>1. /\ sends \in [Text -> Nat] /\ failures \in [Text -> Nat]
      /\ suppressed \subseteq Text
  BY DEF TypeOK
<1> QED BY <1>1 DEF Sent, Failed, Suppressed

\* Every step of the turn that holds a text holds one of the agent's.
LEMMA SayingText == TypeOK /\ pc \in Delivering => saying \in Text
  BY DEF TypeOK, Delivering

LEMMA HeldText ==
    TypeOK /\ watcher \in {"send", "unflag", "unwrite"} => held \in Text
  BY DEF TypeOK

LEMMA NextIInv == IInv /\ [Next]_vars => IInv'
<1> SUFFICES ASSUME IInv, [Next]_vars PROVE IInv'
  OBVIOUS
<1> USE DEF IInv, agentVars, relayVars, watcherVars, outVars, topicVars, historyVars,
            WatcherGoneFirst, TurnBegun, ResultAtDelivery
<1>t. TypeOK /\ result \in Result
  BY DEF TypeOK, Result
<1>s. pc \in Delivering => saying \in Text
  BY SayingText
<1>1. CASE BeginTurn
  <2>1. turn' \in 0 .. MaxTurns /\ turn' > 0
    BY <1>1, <1>t, BoundsAssumption DEF BeginTurn, TypeOK
  <2>2. result' \in Result
    BY <1>1, ReturnedType DEF BeginTurn, NoResult
  <2> QED BY <1>1, <2>1, <2>2 DEF BeginTurn, TypeOK, Result
<1>2. ASSUME NEW k \in Kinds, Say(k) PROVE IInv'
  <2>1. said + 1 \in Text /\ said + 1 # None /\ said' \in 0 .. MaxTexts
    BY <1>2, <1>t, BoundsAssumption DEF Say, TypeOK, Text, None
  <2>2. kind' \in [Text -> AllKinds]
    BY <1>2, <1>t, <2>1, KindsAssumption DEF Say, TypeOK
  <2>3. turnOf' \in [Text -> 0 .. MaxTurns]
    BY <1>2, <1>t, <2>1 DEF Say, TypeOK
  <2>4. turn \in 1 .. MaxTurns
    BY <1>2, <1>t, BoundsAssumption DEF Say, TypeOK
  <2>5. mixed' \subseteq 1 .. MaxTurns
    BY <1>2, <1>t, <2>4 DEF Say, TypeOK
  <2> QED BY <1>2, <2>1, <2>2, <2>3, <2>5 DEF Say, TypeOK
<1>3. CASE SendSuppressed
  <2>1. saying \in Text /\ Said(saying, FALSE, FALSE)
    BY <1>3, <1>s DEF SendSuppressed, Delivering
  <2>2. /\ pc' \in {"agent", "stop"} /\ saying' = None
        /\ result' \in Result
        /\ turn' = turn /\ said' = said /\ kind' = kind /\ turnOf' = turnOf
    BY <2>1, <1>t, SaidKeeps
  <2>3. suppressed' \subseteq Text /\ UNCHANGED <<sends, failures>>
    BY <1>3, <1>t, <2>1 DEF SendSuppressed, Suppressed, TypeOK
  <2> QED BY <1>3, <2>2, <2>3 DEF SendSuppressed, TypeOK, Result
<1>4. CASE SendDirect
  <2>1. saying \in Text /\ Said(saying, TRUE, TRUE)
    BY <1>4, <1>s DEF SendDirect, Delivering
  <2>2. /\ pc' \in {"agent", "stop"} /\ saying' = None
        /\ result' \in Result
        /\ turn' = turn /\ said' = said /\ kind' = kind /\ turnOf' = turnOf
    BY <2>1, <1>t, SaidKeeps
  <2>3. /\ sends' \in [Text -> Nat] /\ failures' \in [Text -> Nat]
        /\ suppressed' \subseteq Text
    BY <1>4, <1>t, <2>1, AttemptKeeps DEF SendDirect
  <2>4. direct' \subseteq Text
    BY <1>4, <1>t, <2>1 DEF SendDirect, TypeOK
  <2> QED BY <1>4, <2>2, <2>3, <2>4 DEF SendDirect, TypeOK, Result
<1>5. CASE SendFails
  <2>1. /\ sends' \in [Text -> Nat] /\ failures' \in [Text -> Nat]
        /\ suppressed' \subseteq Text
    BY <1>5, <1>t, <1>s, AttemptKeeps DEF SendFails, Delivering
  <2> QED BY <1>5, <2>1 DEF SendFails, TypeOK
<1>6. CASE RelayClosed
  <2>1. saying \in Text /\ Said(saying, TRUE, FALSE)
    BY <1>6, <1>s DEF RelayClosed, Delivering
  <2>2. /\ pc' \in {"agent", "stop"} /\ saying' = None
        /\ result' \in Result
        /\ turn' = turn /\ said' = said /\ kind' = kind /\ turnOf' = turnOf
    BY <2>1, <1>t, SaidKeeps
  <2> QED BY <1>6, <2>2 DEF RelayClosed, TypeOK, Result
<1>7. CASE RelayOpen
  BY <1>7 DEF RelayOpen, TypeOK
<1>8. CASE WriteReply
  BY <1>8 DEF WriteReply, TypeOK
<1>9. CASE WriteSignal
  <2>1. saying \in Text /\ Said(saying, stateDir, FALSE) /\ stateDir \in BOOLEAN
    BY <1>9, <1>s DEF WriteSignal, Delivering, TypeOK
  <2>2. /\ pc' \in {"agent", "stop"} /\ saying' = None
        /\ result' \in Result
        /\ turn' = turn /\ said' = said /\ kind' = kind /\ turnOf' = turnOf
    BY <2>1, <1>t, SaidKeeps
  <2>3. queued' \subseteq Text
    BY <1>9, <2>1 DEF WriteSignal, TypeOK
  <2> QED BY <1>9, <2>2, <2>3 DEF WriteSignal, TypeOK, Result
<1>10. CASE EndTurn
  <2>1. result' \in Result
    BY <1>10, ReturnedType DEF EndTurn, NoResult, Returned, Result
  <2> QED BY <1>10, <2>1 DEF EndTurn, TypeOK, Result
<1>11. CASE StopWatcher
  BY <1>11 DEF StopWatcher, TypeOK
<1>12. CASE JoinWatcher
  BY <1>12 DEF JoinWatcher, TypeOK
<1>13. CASE PostNothing
  BY <1>13 DEF PostNothing, TypeOK
<1>14. CASE PostText
  BY <1>14 DEF PostText, TypeOK
<1>15. CASE Deliver
  <2>1. result.text \in Text
    BY <1>15 DEF Deliver
  <2>2. /\ sends' \in [Text -> Nat] /\ failures' \in [Text -> Nat]
        /\ suppressed' \subseteq Text
    BY <1>15, <1>t, <2>1, AttemptKeeps DEF Deliver
  <2>3. /\ flag' \in BOOLEAN /\ stateDir' = stateDir
        /\ replyMd' \in Text \cup {None}
    BY <1>15 DEF Deliver, TypeOK
  <2> QED BY <1>15, <2>2, <2>3 DEF Deliver, TypeOK
<1>16. CASE WatchRead
  BY <1>16 DEF WatchRead, TypeOK
<1>17. CASE WatchSend
  <2>1. /\ sends' \in [Text -> Nat] /\ failures' \in [Text -> Nat]
        /\ suppressed' \subseteq Text
    BY <1>17, <1>t, HeldText, AttemptKeeps DEF WatchSend
  <2> QED BY <1>17, <2>1 DEF WatchSend, TypeOK
<1>18. CASE RemoveFlag
  <2>1. held \in Text
    BY <1>18, <1>t, HeldText DEF RemoveFlag
  <2>2. /\ held' # None /\ watcher' = "unwrite" /\ flag' \in BOOLEAN
        /\ pc \notin {"idle", "post", "deliver"} /\ pc' = pc
    BY <1>18, <2>1, NoneIsNoText DEF RemoveFlag
  <2>3. WatcherGoneFirst' /\ TurnBegun' /\ ResultAtDelivery'
    BY <1>18, <2>2 DEF RemoveFlag
  <2>4. UNCHANGED <<agentVars, stateDir, replyMd, held, stopping, topicVars, outVars,
                    historyVars>>
    BY <1>18 DEF RemoveFlag
  <2>5. TypeOK'
    BY <1>t, <2>2, <2>4 DEF TypeOK
  <2> QED BY <2>3, <2>5
<1>19. CASE RemoveReply
  BY <1>19 DEF RemoveReply, TypeOK
<1>20. CASE WatchStop
  <2>1. /\ watcher = "sleep" /\ watcher' = "off"
        /\ UNCHANGED <<agentVars, relayVars, held, stopping, topicVars, outVars, historyVars>>
    BY <1>20 DEF WatchStop
  <2>2. held = None
    BY <1>t, <2>1 DEF TypeOK
  <2>3. TypeOK'
    BY <1>t, <2>1, <2>2, SMTT(30) DEF TypeOK
  <2>4. WatcherGoneFirst' /\ TurnBegun' /\ ResultAtDelivery'
    BY <2>1
  <2> QED BY <2>3, <2>4
<1>21. CASE Close
  <2>1. /\ closed' \in BOOLEAN /\ gone' \in BOOLEAN /\ stateDir' \in BOOLEAN
        /\ flag' \in BOOLEAN /\ replyMd' \in Text \cup {None}
        /\ UNCHANGED <<agentVars, watcherVars, outVars, historyVars>>
    BY <1>21, <1>t DEF Close, TypeOK
  <2>2. TypeOK'
    BY <1>t, <2>1, SMTT(30) DEF TypeOK
  <2>3. WatcherGoneFirst' /\ TurnBegun' /\ ResultAtDelivery'
    BY <2>1
  <2> QED BY <2>2, <2>3
<1>22. CASE Crash
  <2>1. result' \in Result
    BY <1>22, ReturnedType DEF Crash, NoResult
  <2> QED BY <1>22, <2>1 DEF Crash, TypeOK, Result
<1>23. CASE UNCHANGED vars
  BY <1>23 DEF vars, TypeOK
<1> QED BY <1>1, <1>2, <1>3, <1>4, <1>5, <1>6, <1>7, <1>8, <1>9, <1>10, <1>11, <1>12,
           <1>13, <1>14, <1>15, <1>16, <1>17, <1>18, <1>19, <1>20, <1>21, <1>22, <1>23
        DEF Next, WorkerStep, WatcherStep

\* Every variable keeps its shape, and a text is in hand exactly while it is
\* being delivered, whatever the number of turns and texts.
THEOREM TypeCorrect == Spec => []TypeOK
<1>1. IInv => TypeOK
  BY DEF IInv
<1> QED BY InitIInv, NextIInv, <1>1, PTL DEF Spec

\* The worker never looks into the relay, nor begins another turn, while the
\* watcher of a turn is alive.
THEOREM WatcherGone == Spec => []WatcherGoneFirst
<1>1. IInv => WatcherGoneFirst
  BY DEF IInv
<1> QED BY InitIInv, NextIInv, <1>1, PTL DEF Spec

-----------------------------------------------------------------------------
(* A final reply, from the agent's hands to the channel.                    *)

\* What has happened to a text is what its turn made of it.
Bookkeeping ==
    /\ \A t \in Text : turnOf[t] <= turn
    /\ \A t \in Text : t > said => turnOf[t] = 0 /\ sends[t] = 0 /\ failures[t] = 0
    /\ replyMd <= said /\ held <= said /\ saying <= said /\ result.text <= said
    /\ saying # None => turnOf[saying] = turn
    /\ pc # "idle" /\ result.text # None => turnOf[result.text] = turn
    /\ gone => closed

\* A final reply of a turn that has the relay to itself, while nothing excuses
\* its loss.
Due(t) ==
    kind[t] = "final" /\ turnOf[t] # 0 /\ turnOf[t] \notin mixed /\ ~closed /\ ~crashed

Done(t) ==
    \/ sends[t] = 1
    \/ sends[t] = 0 /\ (failures[t] >= 2 \/ t \in suppressed)

RelayEmpty == ~flag /\ replyMd = None /\ held = None

\* The relay has t, which has not reached the channel.
Queued(t) == replyMd = t /\ sends[t] = 0 /\ failures[t] >= 1

\* Where the reply is once the agent returned it.
AfterAgent(t) ==
    /\ pc \in {"stop", "post", "deliver"}
    /\ result.text = t /\ ~result.failed
    /\ \/ /\ ~result.delivered /\ RelayEmpty
          /\ sends[t] = 0 /\ t \in suppressed
       \/ /\ result.delivered /\ RelayEmpty
          /\ Done(t) /\ pc # "deliver"
       \/ /\ result.delivered /\ flag /\ Queued(t)
          /\ held = None
       \/ /\ result.delivered /\ flag /\ Queued(t)
          /\ held = t /\ watcher = "send" /\ pc = "stop"
       \/ /\ result.delivered /\ replyMd = t /\ Done(t)
          /\ held = t /\ pc = "stop"
          /\ watcher = "unflag" \/ (watcher = "unwrite" /\ ~flag)

\* Where it is before that.
WithAgent(t) ==
    /\ saying = t /\ sends[t] = 0
    /\ \/ pc = "send" /\ RelayEmpty /\ failures[t] = 0
       \/ pc \in {"write", "create"} /\ RelayEmpty /\ failures[t] >= 1
       \/ pc = "signal" /\ Queued(t) /\ ~flag /\ held = None /\ stateDir

\* While the turn runs the reply is in one of these places; afterwards it is
\* done, and what of it is still in the relay has not been sent.
Tracked(t) ==
    /\ turnOf[t] = turn /\ pc # "idle" => WithAgent(t) \/ AfterAgent(t)
    /\ Over(t) => Done(t)
    /\ replyMd = t => held \in {None, t} /\ (held = None => sends[t] = 0)
    /\ held = t /\ watcher = "send" => sends[t] = 0

EachTracked == \A t \in Text : Due(t) => Tracked(t)

\* One more attempt to get a text out leaves the other texts alone.
LEMMA OtherAttempt ==
    ASSUME TypeOK, NEW x \in Text, NEW t \in Text, x # t,
           Sent(x) \/ Failed(x) \/ Suppressed(x)
    PROVE  sends'[t] = sends[t] /\ failures'[t] = failures[t]
              /\ (t \in suppressed' <=> t \in suppressed)
BY DEF Sent, Failed, Suppressed, TypeOK

\* A text that failed or was suppressed before is done after a further attempt.
LEMMA FurtherAttempt ==
    ASSUME TypeOK, NEW t \in Text, sends[t] = 0, failures[t] >= 1 \/ t \in suppressed,
           Sent(t) \/ Failed(t) \/ Suppressed(t)
    PROVE  Done(t)'
<1>1. CASE Sent(t)
  <2>1. sends'[t] = 1  BY <1>1 DEF Sent, TypeOK
  <2> QED  BY <2>1 DEF Done
<1>2. CASE Failed(t)
  <2>1. /\ sends'[t] = 0 /\ failures'[t] = failures[t] + 1 /\ failures[t] \in Nat
        /\ suppressed' = suppressed
    BY <1>2 DEF Failed, TypeOK
  <2> QED  BY <2>1 DEF Done
<1>3. CASE Suppressed(t)
  <2>1. sends'[t] = 0 /\ t \in suppressed'  BY <1>3 DEF Suppressed, TypeOK
  <2> QED  BY <2>1 DEF Done
<1> QED  BY <1>1, <1>2, <1>3

LEMMA InitBookkeeping == Init => Bookkeeping /\ EachTracked
<1> SUFFICES ASSUME Init PROVE Bookkeeping /\ EachTracked  OBVIOUS
<1>1. \A t \in Text : turnOf[t] = 0 /\ sends[t] = 0 /\ failures[t] = 0  BY DEF Init
<1>2. result.text = None  BY DEF Init, NoResult, Returned
<1>3. Bookkeeping  BY <1>1, <1>2 DEF Init, Bookkeeping, None
<1>4. EachTracked  BY <1>1 DEF EachTracked, Due
<1> QED  BY <1>3, <1>4

LEMMA SaidBooks ==
    ASSUME NEW t \in Text, NEW ok, NEW live, Said(t, ok, live)
    PROVE  /\ pc' \in {"agent", "stop"} /\ saying' = None
           /\ UNCHANGED <<turn, said, kind, turnOf>>
           /\ result' = result \/ result'.text = None \/ result'.text = t
           /\ kind[t] = "final" => pc' = "stop" /\ result' = Returned(ok, t)
BY DEF Said, NoResult, Returned

LEMMA NextBookkeeping ==
    ASSUME IInv, Bookkeeping, [Next]_vars
    PROVE  Bookkeeping'
<1> USE DEF IInv, agentVars, relayVars, watcherVars, outVars, topicVars, historyVars
<1>0. /\ TypeOK /\ turn \in Nat /\ said \in Nat /\ None \notin Text
      /\ \A t \in Text : t \in Nat /\ t # None
      /\ replyMd \in Text \cup {None} /\ held \in Text \cup {None}
      /\ pc \in Delivering => saying \in Text
  <2>1. turn \in Nat /\ said \in Nat  BY BoundsAssumption DEF TypeOK
  <2>2. None \notin Text /\ \A t \in Text : t \in Nat /\ t # None
    BY BoundsAssumption DEF Text, None
  <2>3. replyMd \in Text \cup {None} /\ held \in Text \cup {None}  BY DEF TypeOK
  <2> QED  BY <2>1, <2>2, <2>3, SayingText
\* Only a text that was said is attempted.
<1>1. ASSUME NEW x \in Text, x <= said, Sent(x) \/ Failed(x) \/ Suppressed(x),
             NEW t \in Text, t > said
      PROVE  sends'[t] = sends[t] /\ failures'[t] = failures[t]
  BY <1>0, <1>1, OtherAttempt
<1>2. CASE BeginTurn
  <2>1. result'.text = None  BY <1>2 DEF BeginTurn, NoResult, Returned
  <2>2. turn' = turn + 1  BY <1>2 DEF BeginTurn
  <2>3. \A t \in Text : turnOf[t] <= turn + 1
    BY <1>0 DEF Bookkeeping, TypeOK
  <2>4. saying = None  BY <1>2 DEF BeginTurn, TypeOK
  <2> QED  BY <1>0, <1>2, <2>1, <2>2, <2>3, <2>4 DEF BeginTurn, Bookkeeping, None
<1>3. ASSUME NEW k \in Kinds, Say(k) PROVE Bookkeeping'
  <2>1. PICK n \in Text : n = said + 1
    BY <1>0, <1>3, BoundsAssumption DEF Say, Text, TypeOK
  <2>2. /\ said' = n /\ saying' = n /\ turn' = turn
        /\ \A t \in Text : turnOf'[t] = IF t = n THEN turn ELSE turnOf[t]
        /\ UNCHANGED <<result, replyMd, held, gone, closed, sends, failures>>
        /\ pc = "agent"
    BY <1>3, <2>1 DEF Say, TypeOK
  <2>3. \A t \in Text : t > n => t > said /\ t # n  BY <1>0, <2>1
  <2>4. \A t \in Text : t > said' => turnOf'[t] = 0 /\ sends'[t] = 0 /\ failures'[t] = 0
    BY <2>2, <2>3 DEF Bookkeeping
  <2>5. \A t \in Text : turnOf'[t] <= turn'  BY <1>0, <2>2 DEF Bookkeeping
  <2>6. result.text \in Text \cup {None}  BY DEF TypeOK
  <2>7. replyMd <= n /\ held <= n /\ n <= n /\ result.text <= n
    <3>1. replyMd <= said /\ held <= said /\ result.text <= said  BY DEF Bookkeeping
    <3>2. \A x \in Text \cup {None} : x \in Nat  BY <1>0 DEF None
    <3>3. replyMd \in Nat /\ held \in Nat /\ result.text \in Nat  BY <1>0, <2>6, <3>2
    <3> QED  BY <1>0, <2>1, <3>1, <3>3
  <2>8. result.text # None => turnOf'[result.text] = turn
    BY <2>2, <2>6 DEF Bookkeeping
  <2>9. gone => closed  BY DEF Bookkeeping
  <2> QED  BY <2>2, <2>4, <2>5, <2>7, <2>8, <2>9 DEF Bookkeeping
<1>4. CASE SendSuppressed \/ SendDirect \/ RelayClosed \/ WriteSignal
  <2>1. PICK x \in Text : x = saying /\ pc \in Delivering
    BY <1>0, <1>4 DEF SendSuppressed, SendDirect, RelayClosed, WriteSignal, Delivering
  <2>2. x <= said /\ turnOf[x] = turn
    BY <1>0, <2>1 DEF Bookkeeping
  <2>3. \E ok, live : Said(x, ok, live)
    BY <1>4, <2>1 DEF SendSuppressed, SendDirect, RelayClosed, WriteSignal
  <2>4. /\ saying' = None /\ UNCHANGED <<turn, said, kind, turnOf>>
        /\ result' = result \/ result'.text = None \/ result'.text = x
    BY <2>3, SaidBooks
  <2>5. UNCHANGED <<replyMd, held, gone, closed>>
    BY <1>4 DEF SendSuppressed, SendDirect, RelayClosed, WriteSignal
  <2>6. \A t \in Text : t > said => sends'[t] = sends[t] /\ failures'[t] = failures[t]
    BY <1>1, <1>4, <2>1, <2>2 DEF SendSuppressed, SendDirect, RelayClosed, WriteSignal
  <2>7. result'.text <= said /\ (result'.text # None => turnOf[result'.text] = turn)
    <3>1. pc # "idle"  BY <2>1 DEF Delivering
    <3> QED  BY <1>0, <2>2, <2>4, <3>1 DEF Bookkeeping, None
  <2>8. None <= said  BY <1>0 DEF None
  <2> QED  BY <2>4, <2>5, <2>6, <2>7, <2>8 DEF Bookkeeping
<1>5. CASE SendFails
  <2>1. PICK x \in Text : x = saying  BY <1>0, <1>5 DEF SendFails, Delivering
  <2>2. \A t \in Text : t > said => sends'[t] = sends[t] /\ failures'[t] = failures[t]
    BY <1>1, <1>5, <2>1 DEF SendFails, Bookkeeping
  <2> QED  BY <1>5, <2>2 DEF SendFails, Bookkeeping
<1>6. CASE WriteReply
  BY <1>6 DEF WriteReply, Bookkeeping
<1>7. CASE EndTurn
  <2>1. result'.text = None  BY <1>7 DEF EndTurn, NoResult, Returned
  <2> QED  BY <1>0, <1>7, <2>1 DEF EndTurn, Bookkeeping, None
<1>8. CASE Deliver
  <2>1. PICK x \in Text : x = result.text /\ x <= said
    BY <1>8 DEF Deliver, ResultAtDelivery, Bookkeeping
  <2>2. \A t \in Text : t > said => sends'[t] = sends[t] /\ failures'[t] = failures[t]
    BY <1>1, <1>8, <2>1 DEF Deliver
  <2>3. replyMd' = replyMd \/ replyMd' = None  BY <1>8 DEF Deliver
  <2>4. None <= said  BY <1>0 DEF None
  <2>5. UNCHANGED <<turn, said, turnOf, saying, result, held, gone, closed>> /\ pc' = "idle"
    BY <1>8 DEF Deliver
  <2> QED  BY <2>2, <2>3, <2>4, <2>5 DEF Bookkeeping
<1>9. CASE WatchSend
  <2>1. PICK x \in Text : x = held /\ x <= said
    BY <1>0, <1>9, HeldText DEF WatchSend, Bookkeeping
  <2>2. \A t \in Text : t > said => sends'[t] = sends[t] /\ failures'[t] = failures[t]
    BY <1>1, <1>9, <2>1 DEF WatchSend
  <2> QED  BY <1>9, <2>2 DEF WatchSend, Bookkeeping
<1>10. CASE WatchRead \/ RemoveFlag \/ RemoveReply \/ WatchStop
  <2>1. None <= said  BY <1>0 DEF None
  <2>2. /\ UNCHANGED <<agentVars, topicVars, outVars>>
        /\ replyMd' \in {replyMd, None} /\ held' \in {held, replyMd, None}
    BY <1>10 DEF WatchRead, RemoveFlag, RemoveReply, WatchStop
  <2> QED  BY <2>1, <2>2 DEF Bookkeeping
<1>11. CASE Close
  <2>1. None <= said  BY <1>0 DEF None
  <2> QED  BY <1>11, <2>1 DEF Close, Bookkeeping
<1>12. CASE Crash
  <2>1. result'.text = None /\ None <= said  BY <1>0, <1>12 DEF Crash, NoResult, Returned, None
  <2> QED  BY <1>12, <2>1 DEF Crash, Bookkeeping
<1>13. CASE RelayOpen \/ StopWatcher \/ JoinWatcher \/ PostNothing \/ PostText \/ UNCHANGED vars
  <2>1. /\ UNCHANGED <<turn, said, turnOf, saying, result, replyMd, held, gone, closed, sends, failures>>
        /\ pc' = pc \/ pc # "idle"
    BY <1>13 DEF RelayOpen, StopWatcher, JoinWatcher, PostNothing, PostText, vars
  <2> QED  BY <2>1 DEF Bookkeeping
<1> QED  BY <1>2, <1>3, <1>4, <1>5, <1>6, <1>7, <1>8, <1>9, <1>10, <1>11, <1>12, <1>13
         DEF Next, WorkerStep, WatcherStep

\* The fact about a final reply, one reply at a time.
LEMMA NextTracked ==
    ASSUME IInv, Bookkeeping, EachTracked, [Next]_vars
    PROVE  EachTracked'
<1> SUFFICES ASSUME NEW t \in Text, Due(t)' PROVE Tracked(t)'
  BY DEF EachTracked
<1> USE DEF IInv
<1>0. /\ TypeOK /\ turn \in Nat /\ turnOf[t] \in Nat /\ turnOf[t] <= turn
      /\ sends[t] \in Nat /\ failures[t] \in Nat
      /\ t # None /\ t \in Nat /\ None \notin Text
      /\ pc \in Delivering => saying \in Text
  <2>1. turn \in Nat /\ turnOf[t] \in Nat /\ sends[t] \in Nat /\ failures[t] \in Nat
    BY BoundsAssumption DEF TypeOK
  <2>2. t # None /\ t \in Nat /\ None \notin Text  BY BoundsAssumption DEF Text, None
  <2> QED  BY <2>1, <2>2, SayingText DEF Bookkeeping
<1>h. /\ watcher \in {"off", "sleep"} => held = None
      /\ watcher \in {"send", "unflag", "unwrite"} => held \in Text
      /\ pc \in {"idle", "post", "deliver"} => watcher = "off"
  BY <1>0 DEF TypeOK, WatcherGoneFirst
<1>1. ASSUME NEW k \in Kinds, Say(k) PROVE Tracked(t)'
  <2>1. /\ pc = "agent" /\ pc' = "send" /\ saying' = said + 1 /\ turn' = turn
        /\ kind' = [kind EXCEPT ![said + 1] = k]
        /\ turnOf' = [turnOf EXCEPT ![said + 1] = turn]
        /\ mixed' = IF RelayInUse THEN mixed \cup {turn} ELSE mixed
        /\ UNCHANGED <<result, replyMd, flag, held, watcher, sends, failures, suppressed,
                       closed, crashed>>
    BY <1>1 DEF Say, relayVars, watcherVars, topicVars, outVars
  <2>2. CASE t = said + 1
    <3>1. turnOf'[t] = turn  BY <2>1, <2>2 DEF TypeOK
    <3>2. RelayEmpty  BY <2>1, <3>1 DEF Due, RelayInUse, RelayEmpty
    <3>3. sends[t] = 0 /\ failures[t] = 0
      BY <1>0, <2>2 DEF Bookkeeping, TypeOK
    <3>4. WithAgent(t)'  BY <2>1, <2>2, <3>2, <3>3 DEF WithAgent, RelayEmpty
    <3>5. ~Over(t)'  BY <1>0, <2>1, <3>1 DEF Over
    <3> QED  BY <1>0, <2>1, <3>2, <3>4, <3>5 DEF Tracked, RelayEmpty
  <2>3. CASE t # said + 1
    <3>1. kind'[t] = kind[t] /\ turnOf'[t] = turnOf[t] /\ Due(t)
      BY <2>1, <2>3 DEF Due, TypeOK
    <3>2. Tracked(t)  BY <3>1 DEF EachTracked
    <3>3. turnOf[t] # turn
      BY <2>1, <3>2 DEF Tracked, WithAgent, AfterAgent
    <3>4. Over(t)  BY <1>0, <3>1, <3>3 DEF Over, Due
    <3> QED  BY <1>0, <2>1, <3>1, <3>2, <3>3, <3>4 DEF Tracked, Done, Over
  <2> QED  BY <2>2, <2>3
<1>2. ASSUME ~(\E k \in Kinds : Say(k)) PROVE Tracked(t)'
  <2> USE DEF agentVars, relayVars, watcherVars, outVars, topicVars, historyVars
  <2>1. UNCHANGED <<kind, turnOf, mixed>> /\ ~closed /\ ~crashed /\ ~closed' /\ ~crashed'
    <3>1. ~Close /\ ~Crash /\ ~closed' /\ ~crashed'  BY DEF Close, Crash, Due
    <3>2. UNCHANGED <<kind, turnOf, mixed, closed, crashed>>
      BY <1>2, <3>1, SaidBooks
         DEF Next, WorkerStep, WatcherStep, BeginTurn, SendSuppressed, SendDirect, SendFails,
             RelayClosed, RelayOpen, WriteReply, WriteSignal, Said, EndTurn, StopWatcher,
             JoinWatcher, PostNothing, PostText, Deliver, WatchRead, WatchSend, RemoveFlag,
             RemoveReply, WatchStop, vars
    <3> QED  BY <3>1, <3>2
  <2>2. Due(t) /\ Tracked(t) /\ kind[t] = "final" /\ turnOf[t] # 0
    BY <2>1 DEF Due, EachTracked
\* A text of an earlier turn, or one whose turn is over.
  <2>3. turnOf[t] # turn \/ pc = "idle" => Over(t) /\ Done(t)
    BY <1>0, <2>2 DEF Over, Tracked
  <2>4. ~gone  BY <2>1 DEF Bookkeeping
\* While the agent has a text in hand, that is the reply or another turn's is.
  <2>5. pc \in Delivering =>
           /\ saying = t => WithAgent(t) /\ turnOf[t] = turn
           /\ saying # t => turnOf[t] # turn
    BY <1>0, <2>2 DEF Delivering, Tracked, WithAgent, AfterAgent, Bookkeeping
  <2>6. CASE BeginTurn
    <3>1. Over(t) /\ Done(t) /\ held = None  BY <1>h, <2>3, <2>6 DEF BeginTurn
    <3>2. turnOf'[t] # turn' /\ Over(t)'
      BY <1>0, <2>1, <2>2, <2>6 DEF BeginTurn, Over
    <3> QED  BY <2>2, <2>6, <3>1, <3>2 DEF BeginTurn, Tracked, Done
\* A step of the agent that is not about the reply.
  <2>7. ASSUME turnOf[t] # turn, UNCHANGED <<turn, held, watcher>>,
               sends'[t] = sends[t], failures'[t] = failures[t],
               t \in suppressed => t \in suppressed', replyMd' = t => replyMd = t
        PROVE  Tracked(t)'
    <3>1. Over(t) /\ Done(t) /\ Over(t)' /\ Done(t)'
      BY <1>0, <2>1, <2>2, <2>3, <2>7 DEF Over, Done
    <3> QED  BY <2>1, <2>2, <2>7, <3>1 DEF Tracked
\* The reply is in its turn still.
  <2>8. ASSUME turnOf[t] = turn, UNCHANGED turn, pc' # "idle"  PROVE ~Over(t)'
    BY <1>0, <2>1, <2>8 DEF Over
  <2>9. CASE SendSuppressed
    <3>1. pc = "send" /\ Suppressed(saying) /\ Said(saying, FALSE, FALSE) /\ saying \in Text
      BY <1>0, <2>9 DEF SendSuppressed, Delivering
    <3>2. UNCHANGED <<turn, replyMd, flag, held, watcher>>
      BY <2>9, <3>1, SaidBooks DEF SendSuppressed
    <3>3. sends' = sends /\ failures' = failures /\ suppressed' = suppressed \cup {saying}
      BY <3>1 DEF Suppressed
    <3>4. CASE saying = t
      <4>1. WithAgent(t) /\ RelayEmpty /\ turnOf[t] = turn
        BY <2>5, <3>1, <3>4 DEF Delivering, WithAgent
      <4>2. pc' = "stop" /\ result' = Returned(FALSE, t)
        BY <2>2, <3>1, <3>4, SaidBooks
      <4>3. AfterAgent(t)'
        BY <3>2, <3>3, <3>4, <4>1, <4>2 DEF AfterAgent, WithAgent, RelayEmpty, Returned
      <4> QED  BY <1>0, <2>8, <3>2, <4>1, <4>2, <4>3 DEF Tracked, RelayEmpty
    <3>5. CASE saying # t
      BY <2>5, <2>7, <3>1, <3>2, <3>3, <3>5 DEF Delivering
    <3> QED  BY <3>4, <3>5
  <2>10. CASE SendDirect
    <3>1. pc = "send" /\ Sent(saying) /\ Said(saying, TRUE, TRUE) /\ saying \in Text
      BY <1>0, <2>10 DEF SendDirect, Delivering
    <3>2. UNCHANGED <<turn, replyMd, flag, held, watcher>>
      BY <2>10, <3>1, SaidBooks DEF SendDirect
    <3>3. CASE saying = t
      <4>1. WithAgent(t) /\ RelayEmpty /\ turnOf[t] = turn /\ sends[t] = 0
        BY <2>5, <3>1, <3>3 DEF Delivering, WithAgent
      <4>2. pc' = "stop" /\ result' = Returned(TRUE, t)
        BY <2>2, <3>1, <3>3, SaidBooks
      <4>3. sends'[t] = 1  BY <3>1, <3>3, <4>1 DEF Sent, TypeOK
      <4>4. AfterAgent(t)'
        BY <3>2, <4>1, <4>2, <4>3 DEF AfterAgent, RelayEmpty, Returned, Done
      <4> QED  BY <1>0, <2>8, <3>2, <4>1, <4>2, <4>4 DEF Tracked, RelayEmpty
    <3>4. CASE saying # t
      <4>1. /\ sends'[t] = sends[t] /\ failures'[t] = failures[t]
            /\ (t \in suppressed' <=> t \in suppressed)
        BY <1>0, <3>1, <3>4, OtherAttempt
      <4> QED  BY <2>5, <2>7, <3>1, <3>2, <3>4, <4>1 DEF Delivering
    <3> QED  BY <3>3, <3>4
  <2>11. CASE SendFails
    <3>1. /\ pc = "send" /\ pc' = "write" /\ Failed(saying) /\ saying \in Text
          /\ UNCHANGED <<turn, saying, result, replyMd, flag, held, watcher>>
      BY <1>0, <2>11 DEF SendFails, Delivering
    <3>2. CASE saying = t
      <4>1. WithAgent(t) /\ RelayEmpty /\ turnOf[t] = turn /\ failures[t] = 0
        BY <2>5, <3>1, <3>2 DEF Delivering, WithAgent
      <4>2. sends' = sends /\ failures'[t] = 1  BY <3>1, <3>2, <4>1 DEF Failed, TypeOK
      <4>3. WithAgent(t)'
        BY <3>1, <3>2, <4>1, <4>2 DEF WithAgent, RelayEmpty
      <4> QED  BY <1>0, <2>8, <3>1, <4>1, <4>3 DEF Tracked, RelayEmpty
    <3>3. CASE saying # t
      <4>1. /\ sends'[t] = sends[t] /\ failures'[t] = failures[t]
            /\ (t \in suppressed' <=> t \in suppressed)
        BY <1>0, <3>1, <3>3, OtherAttempt
      <4> QED  BY <2>5, <2>7, <3>1, <3>3, <4>1 DEF Delivering
    <3> QED  BY <3>2, <3>3
  <2>12. CASE RelayClosed
    BY <2>1, <2>12 DEF RelayClosed
  <2>13. CASE RelayOpen
    <3>1. /\ pc = "write" /\ pc' = "create"
          /\ UNCHANGED <<turn, saying, result, replyMd, flag, held, watcher,
                         sends, failures, suppressed>>
      BY <2>13 DEF RelayOpen
    <3>2. CASE saying = t
      <4>1. WithAgent(t) /\ turnOf[t] = turn  BY <2>5, <3>1, <3>2 DEF Delivering
      <4>2. WithAgent(t)'  BY <3>1, <4>1 DEF WithAgent, RelayEmpty
      <4> QED  BY <2>2, <2>8, <3>1, <4>1, <4>2 DEF Tracked
    <3>3. CASE saying # t
      BY <2>5, <2>7, <3>1, <3>3 DEF Delivering
    <3> QED  BY <3>2, <3>3
  <2>14. CASE WriteReply
    <3>1. /\ pc = "create" /\ pc' = "signal" /\ replyMd' = saying /\ stateDir' = TRUE
          /\ UNCHANGED <<turn, saying, result, flag, held, watcher,
                         sends, failures, suppressed>>
      BY <2>14 DEF WriteReply
    <3>2. CASE saying = t
      <4>1. WithAgent(t) /\ RelayEmpty /\ turnOf[t] = turn /\ sends[t] = 0 /\ failures[t] >= 1
        BY <2>5, <3>1, <3>2 DEF Delivering, WithAgent
      <4>2. WithAgent(t)'  BY <3>1, <3>2, <4>1 DEF WithAgent, RelayEmpty, Queued
      <4> QED  BY <1>0, <2>8, <3>1, <3>2, <4>1, <4>2 DEF Tracked, RelayEmpty
    <3>3. CASE saying # t
      BY <2>5, <2>7, <3>1, <3>3 DEF Delivering
    <3> QED  BY <3>2, <3>3
  <2>15. CASE WriteSignal
    <3>1. /\ pc = "signal" /\ Said(saying, stateDir, FALSE) /\ saying \in Text
          /\ flag' = (flag \/ stateDir)
          /\ UNCHANGED <<replyMd, held, watcher, sends, failures, suppressed>>
      BY <1>0, <2>15 DEF WriteSignal, Delivering
    <3>2. UNCHANGED turn  BY <3>1, SaidBooks
    <3>3. CASE saying = t
      <4>1. WithAgent(t) /\ Queued(t) /\ stateDir /\ held = None /\ turnOf[t] = turn
        BY <2>5, <3>1, <3>3 DEF Delivering, WithAgent
      <4>2. pc' = "stop" /\ result' = Returned(stateDir, t)
        BY <2>2, <3>1, <3>3, SaidBooks
      <4>3. AfterAgent(t)'
        BY <3>1, <4>1, <4>2 DEF AfterAgent, Queued, Returned
      <4> QED  BY <1>0, <2>2, <2>8, <3>1, <3>2, <4>1, <4>2, <4>3 DEF Tracked
    <3>4. CASE saying # t
      BY <2>5, <2>7, <3>1, <3>2, <3>4 DEF Delivering
    <3> QED  BY <3>3, <3>4
  <2>16. CASE EndTurn
    <3>1. /\ pc = "agent"
          /\ UNCHANGED <<turn, replyMd, held, watcher, sends, failures, suppressed>>
      BY <2>16 DEF EndTurn
    <3>2. turnOf[t] # turn  BY <2>2, <3>1 DEF Tracked, WithAgent, AfterAgent
    <3> QED  BY <2>7, <3>1, <3>2
  <2>17. CASE StopWatcher \/ JoinWatcher \/ PostText
    <3>1. /\ pc \in {"stop", "post"} /\ pc' \in {"stop", "post", "deliver"}
          /\ UNCHANGED <<turn, saying, result, flag, replyMd, held, watcher,
                         sends, failures, suppressed>>
      BY <2>17 DEF StopWatcher, JoinWatcher, PostText
    <3>2. CASE turnOf[t] # turn  BY <2>7, <3>1, <3>2
    <3>3. CASE turnOf[t] = turn
      <4>1. AfterAgent(t)  BY <2>2, <3>1, <3>3 DEF Tracked, WithAgent
      <4>2. pc' # pc => held = None /\ watcher = "off"
        BY <1>h, <2>17 DEF StopWatcher, JoinWatcher, PostText
      <4>3. pc' = "deliver" /\ result.delivered => flag
        BY <2>17 DEF StopWatcher, JoinWatcher, PostText
      <4>4. AfterAgent(t)'
        BY <1>0, <3>1, <4>1, <4>2, <4>3 DEF AfterAgent, RelayEmpty, Queued, Done
      <4> QED  BY <2>2, <2>8, <3>1, <3>3, <4>4 DEF Tracked
    <3> QED  BY <3>2, <3>3
  <2>18. CASE PostNothing
    <3>1. /\ pc = "post" /\ pc' = "idle" /\ held = None
          /\ UNCHANGED <<turn, result, flag, replyMd, held, watcher,
                         sends, failures, suppressed>>
          /\ \/ result.failed
             \/ result.delivered /\ ~flag
             \/ ~result.delivered /\ result.text = None
      BY <1>h, <2>4, <2>18 DEF PostNothing
    <3>2. CASE turnOf[t] # turn  BY <2>7, <3>1, <3>2
    <3>3. CASE turnOf[t] = turn
      <4>1. AfterAgent(t)  BY <2>2, <3>1, <3>3 DEF Tracked, WithAgent
      <4>2. Done(t)  BY <1>0, <3>1, <4>1 DEF AfterAgent
      <4>3. Done(t)'  BY <3>1, <4>2 DEF Done
      <4> QED  BY <2>2, <3>1, <4>3 DEF Tracked
    <3> QED  BY <3>2, <3>3
  <2>19. CASE Deliver
    <3>1. /\ pc = "deliver" /\ pc' = "idle" /\ held = None /\ watcher = "off"
          /\ result.text \in Text
          /\ Sent(result.text) \/ Failed(result.text) \/ Suppressed(result.text)
          /\ UNCHANGED <<turn, held, watcher>>
          /\ replyMd' = replyMd \/ replyMd' = None
      BY <1>h, <2>19 DEF Deliver, ResultAtDelivery
    <3>2. CASE result.text # t
      <4>1. turnOf[t] # turn  BY <2>2, <3>1, <3>2 DEF Tracked, WithAgent, AfterAgent
      <4>2. /\ sends'[t] = sends[t] /\ failures'[t] = failures[t]
            /\ (t \in suppressed' <=> t \in suppressed)
        BY <1>0, <3>1, <3>2, OtherAttempt
      <4> QED  BY <1>0, <2>7, <3>1, <4>1, <4>2
    <3>3. CASE result.text = t
      <4>1. turnOf[t] = turn /\ AfterAgent(t)
        BY <1>0, <2>2, <3>1, <3>3 DEF Bookkeeping, Tracked, WithAgent
      <4>2. sends[t] = 0 /\ (failures[t] >= 1 \/ t \in suppressed)
        BY <1>0, <3>1, <4>1 DEF AfterAgent, Queued
      <4>3. Done(t)'  BY <3>1, <3>3, <4>2, FurtherAttempt
      <4>4. replyMd' = t => sends'[t] = 0
        <5>1. CASE Failed(t)  BY <4>2, <5>1 DEF Failed
        <5>2. CASE Suppressed(t)  BY <4>2, <5>2 DEF Suppressed
        <5>3. CASE Sent(t) /\ ~Failed(t) /\ ~Suppressed(t)
          <6>1. \/ replyMd' = None
                \/ ~result.delivered /\ replyMd' = replyMd
            BY <2>19, <3>3, <5>3 DEF Deliver
          <6>2. ~result.delivered => replyMd = None
            BY <4>1 DEF AfterAgent, RelayEmpty
          <6> QED  BY <1>0, <6>1, <6>2
        <5> QED  BY <3>1, <3>3, <5>1, <5>2, <5>3
      <4> QED  BY <3>1, <4>3, <4>4 DEF Tracked
    <3> QED  BY <3>2, <3>3
  <2>20. CASE WatchRead
    <3>1. /\ watcher = "sleep" /\ watcher' = "send" /\ held = None /\ held' = replyMd
          /\ flag /\ replyMd # None
          /\ UNCHANGED <<pc, turn, saying, result, flag, replyMd, stateDir,
                         sends, failures, suppressed>>
      BY <1>h, <2>20 DEF WatchRead
    <3>2. turnOf[t] = turn /\ pc # "idle" => AfterAgent(t)'
      <4> SUFFICES ASSUME turnOf[t] = turn, pc # "idle" PROVE AfterAgent(t)'  OBVIOUS
      <4>1. AfterAgent(t)
        BY <2>2, <3>1 DEF Tracked, WithAgent, RelayEmpty
      <4>2. result.delivered /\ Queued(t) /\ pc = "stop"
        BY <1>0, <1>h, <3>1, <4>1 DEF AfterAgent, RelayEmpty
      <4> QED  BY <3>1, <4>1, <4>2 DEF AfterAgent, Queued
    <3>3. Over(t)' => Done(t)'
      BY <2>1, <2>2, <3>1 DEF Tracked, Over, Done
    <3>4. replyMd = t => sends[t] = 0  BY <2>2, <3>1 DEF Tracked
    <3> QED  BY <2>1, <3>1, <3>2, <3>3, <3>4 DEF Tracked
  <2>21. CASE WatchSend
    <3>1. /\ watcher = "send" /\ watcher' = "unflag" /\ held \in Text /\ held # None
          /\ Sent(held) \/ Failed(held) \/ Suppressed(held)
          /\ UNCHANGED <<pc, turn, saying, result, flag, replyMd, held>>
      BY <1>0, <1>h, <2>21 DEF WatchSend
    <3>2. CASE held = t
      <4>1. sends[t] = 0  BY <2>2, <3>1, <3>2 DEF Tracked
      <4>2. turnOf[t] = turn /\ pc # "idle" =>
               /\ AfterAgent(t) /\ Queued(t) /\ result.delivered /\ pc = "stop"
        BY <1>0, <2>2, <3>1, <3>2 DEF Tracked, WithAgent, AfterAgent, RelayEmpty
      <4>3. failures[t] >= 1 \/ t \in suppressed
        BY <1>0, <2>3, <4>1, <4>2 DEF Queued, Done
      <4>4. Done(t)'  BY <3>1, <3>2, <4>1, <4>3, FurtherAttempt
      <4>5. turnOf[t] = turn /\ pc # "idle" => AfterAgent(t)'
        BY <3>1, <3>2, <4>2, <4>4 DEF AfterAgent, Queued
      <4> QED  BY <1>0, <2>1, <3>1, <3>2, <4>4, <4>5 DEF Tracked
    <3>3. CASE held # t
      <4>1. /\ sends'[t] = sends[t] /\ failures'[t] = failures[t]
            /\ (t \in suppressed' <=> t \in suppressed)
        BY <1>0, <3>1, <3>3, OtherAttempt
      <4>2. Over(t) /\ Done(t)
        BY <2>2, <2>3, <3>1, <3>3 DEF Tracked, WithAgent, AfterAgent, RelayEmpty
      <4>3. replyMd # t  BY <2>2, <3>1, <3>3 DEF Tracked
      <4>4. Over(t)' /\ Done(t)' /\ ~(turnOf[t] = turn /\ pc # "idle")
        BY <1>0, <2>1, <3>1, <4>1, <4>2 DEF Over, Done
      <4> QED  BY <2>1, <3>1, <4>3, <4>4 DEF Tracked
    <3> QED  BY <3>2, <3>3
  <2>22. CASE RemoveFlag
    <3>1. /\ watcher = "unflag" /\ watcher' = "unwrite" /\ held # None /\ flag' = FALSE
          /\ UNCHANGED <<pc, turn, result, replyMd, held, sends, failures, suppressed>>
      BY <1>0, <1>h, <2>22 DEF RemoveFlag
    <3>2. turnOf[t] = turn /\ pc # "idle" => AfterAgent(t)'
      BY <2>2, <3>1 DEF Tracked, WithAgent, AfterAgent, RelayEmpty, Done
    <3>3. Over(t)' => Done(t)'  BY <2>1, <2>2, <3>1 DEF Tracked, Over, Done
    <3> QED  BY <2>1, <2>2, <3>1, <3>2, <3>3 DEF Tracked
  <2>23. CASE RemoveReply
    <3>1. /\ watcher = "unwrite" /\ watcher' = "sleep" /\ held # None
          /\ held' = None /\ replyMd' = None
          /\ UNCHANGED <<pc, turn, result, flag, sends, failures, suppressed>>
      BY <1>0, <1>h, <2>23 DEF RemoveReply
    <3>2. turnOf[t] = turn /\ pc # "idle" => AfterAgent(t)'
      BY <2>2, <3>1 DEF Tracked, WithAgent, AfterAgent, RelayEmpty, Done
    <3>3. Over(t)' => Done(t)'  BY <2>1, <2>2, <3>1 DEF Tracked, Over, Done
    <3> QED  BY <1>0, <2>1, <3>1, <3>2, <3>3 DEF Tracked
  <2>24. CASE WatchStop \/ UNCHANGED vars
    <3>1. /\ watcher' = watcher \/ (held = None /\ watcher = "sleep" /\ watcher' = "off")
          /\ UNCHANGED <<pc, turn, saying, result, flag, replyMd, stateDir, held,
                         sends, failures, suppressed>>
      BY <1>h, <2>24 DEF WatchStop, vars
    <3>2. turnOf[t] = turn /\ pc # "idle" => WithAgent(t)' \/ AfterAgent(t)'
      BY <1>0, <2>2, <3>1 DEF Tracked, WithAgent, AfterAgent, RelayEmpty, Queued, Done
    <3>3. Over(t)' => Done(t)'  BY <2>1, <2>2, <3>1 DEF Tracked, Over, Done
    <3> QED  BY <2>1, <2>2, <3>1, <3>2, <3>3 DEF Tracked
  <2>25. CASE Close \/ Crash  BY <2>1, <2>25 DEF Close, Crash
  <2> QED
    BY <1>2, <2>6, <2>9, <2>10, <2>11, <2>12, <2>13, <2>14, <2>15, <2>16, <2>17, <2>18,
       <2>19, <2>20, <2>21, <2>22, <2>23, <2>24, <2>25
       DEF Next, WorkerStep, WatcherStep
<1> QED  BY <1>1, <1>2

\* While a turn has the relay to itself, its final reply reaches the channel
\* once, through the loop, the watcher or the worker, unless two sends of it
\* failed or a hook suppressed it; no later turn sends it again.
THEOREM FinalOnce == Spec => []FinalDeliveredOnce
<1>1. IInv /\ Bookkeeping /\ EachTracked /\ [Next]_vars => (Bookkeeping /\ EachTracked)'
  BY NextBookkeeping, NextTracked
<1>2. EachTracked => FinalDeliveredOnce
  BY DEF EachTracked, Tracked, Due, Done, Over, FinalDeliveredOnce
<1> QED  BY InitIInv, NextIInv, InitBookkeeping, <1>1, <1>2, PTL DEF Spec

=============================================================================
