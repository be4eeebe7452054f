-------------------------- MODULE AgentTurnProofs --------------------------
(* Proofs about AgentTurn, for all constants but where a theorem says so.  *)
(* The reply guard: no request is lost and none is answered twice, whatever  *)
(* the transcript looks like.  The transcript: what a call sends is accepted *)
(* by the provider, what is saved holds no open call, and what was read from *)
(* the journal stays its beginning.                                          *)
EXTENDS AgentTurn, FiniteSetTheorems, SequenceTheorems, WellFoundedInduction, TLAPS

-----------------------------------------------------------------------------
(* The invariant of the reply guard.                                        *)

Request == [source : Sources, mark : Nat]

AskShape ==
    /\ failed \in BOOLEAN
    /\ targets \in Seq(Sources) /\ forwarded \in Seq(Sources)
    /\ requests \in Seq(Request)
    /\ real \subseteq DOMAIN requests
    /\ owed \subseteq DOMAIN requests

\* A send that came after the request answers it.
SendsCount ==
    \A i \in DOMAIN requests : \A k \in requests[i].mark + 1 .. Len(targets) :
        targets[k] = requests[i].source => i \in real

\* From the guard on, a request is answered, to be answered, or forwarded.
Handled(i) ==
    \/ i \in real
    \/ \E j \in owed : requests[j].source = requests[i].source
    \/ \E k \in DOMAIN forwarded : forwarded[k] = requests[i].source

NoneLost == pc \in {"forward", "save"} => \A i \in DOMAIN requests : Handled(i)

AllForwarded == pc = "save" => owed = {}

\* The guard has one request left for a topic, and none for one it answered.
OwedOnce ==
    /\ \A i, j \in owed : requests[i].source = requests[j].source => i = j
    /\ \A i \in owed : \A k \in DOMAIN forwarded : forwarded[k] # requests[i].source

\* Nothing is owed or forwarded before the guard.
NotYet == pc \notin {"forward", "save", "idle"} => owed = {} /\ forwarded = <<>>

IInv == AskShape /\ SendsCount /\ NoneLost /\ AllForwarded /\ OwedOnce /\ NotYet
            /\ OneForwardEach

-----------------------------------------------------------------------------
(* Lemmas.                                                                  *)

LEMMA LeastIndex ==
    ASSUME NEW S, S \subseteq Nat, S # {}
    PROVE  \E m \in S : \A x \in S : m <= x
<1>1. PICK m \in S : \A x \in S : ~(<<x, m>> \in OpToRel(<, Nat))
  BY WFMin, NatLessThanWellFounded
<1>2. \A x \in S : ~(x < m)
  BY <1>1 DEF OpToRel
<1> QED BY <1>2

\* A step that leaves the requests and the guard alone, and does not enter the
\* guard, keeps the invariant.
Quiet ==
    /\ UNCHANGED <<targets, requests, real, owed, forwarded>>
    /\ failed' \in BOOLEAN
    /\ \/ pc' = pc
       \/ pc' = "idle"
       \/ pc \notin {"forward", "save", "idle"} /\ pc' \notin {"forward", "save"}

LEMMA QuietKeeps == IInv /\ Quiet => IInv'
<1> SUFFICES ASSUME IInv, Quiet PROVE IInv'
  OBVIOUS
<1> USE DEF IInv, Quiet
<1>1. AskShape' BY DEF AskShape
<1>2. SendsCount' BY DEF SendsCount
<1>3. NoneLost' BY DEF NoneLost, Handled
<1>4. AllForwarded' BY DEF AllForwarded
<1>5. OwedOnce' BY DEF OwedOnce
<1>6. NotYet' BY DEF NotYet
<1>7. OneForwardEach' BY DEF OneForwardEach
<1> QED BY <1>1, <1>2, <1>3, <1>4, <1>5, <1>6, <1>7

\* What a request adds to the turn's requests.
LEMMA AsksType ==
    ASSUME NEW s \in Sources \cup {Nobody}, NEW n \in Nat
    PROVE  Asks(s, n) \in Seq(Request)
<1>1. CASE s = Nobody
  BY <1>1 DEF Asks
<1>2. CASE s \in Sources
  <2>1. [source |-> s, mark |-> n] \in Request
    BY <1>2 DEF Request
  <2>2. Asks(s, n) = <<[source |-> s, mark |-> n]>>
    BY <1>2, SourcesAssumption DEF Asks
  <2> QED BY <2>1, <2>2
<1> QED BY <1>1, <1>2

LEMMA RequestFields ==
    ASSUME NEW i \in DOMAIN requests, requests \in Seq(Request)
    PROVE  /\ requests[i].source \in Sources /\ requests[i].mark \in Nat
           /\ i \in Nat /\ i >= 1
<1>1. requests[i] \in Request /\ i \in 1 .. Len(requests)
  OBVIOUS
<1>2. \A r \in Request : r.source \in Sources /\ r.mark \in Nat
  BY DEF Request
<1> QED BY <1>1, <1>2

\* Before anything is sent, asked or answered.
LEMMA EmptyShape ==
    ASSUME failed = FALSE, targets = <<>>, forwarded = <<>>, requests = <<>>,
           real = {}, owed = {}
    PROVE  AskShape /\ SendsCount
<1>1. failed \in BOOLEAN
  BY Zenon
<1>2. targets \in Seq(Sources) /\ forwarded \in Seq(Sources)
  OBVIOUS
<1>3. requests \in Seq(Request)
  OBVIOUS
<1>4. real \subseteq DOMAIN requests /\ owed \subseteq DOMAIN requests
  OBVIOUS
<1>5. DOMAIN requests = {}
  OBVIOUS
<1> QED BY <1>1, <1>2, <1>3, <1>4, <1>5 DEF AskShape, SendsCount

LEMMA InitIInv == Init => IInv
<1> SUFFICES ASSUME Init PROVE IInv
  OBVIOUS
<1> USE DEF Init
<1>1. AskShape /\ SendsCount BY EmptyShape
<1>3. NoneLost /\ AllForwarded /\ OwedOnce /\ NotYet
  BY DEF NoneLost, AllForwarded, OwedOnce, NotYet
<1>4. OneForwardEach BY DEF OneForwardEach
<1> QED BY <1>1, <1>3, <1>4 DEF IInv

\* A turn begins with the request of its own message, if it is one.
LEMMA BeginKeeps ==
    ASSUME NEW s \in Sources \cup {Nobody}, IInv, BeginTurn(s)
    PROVE  IInv'
<1>1. /\ requests' = Asks(s, 0) /\ targets' = <<>> /\ forwarded' = <<>>
      /\ real' = {} /\ owed' = {} /\ failed' = FALSE /\ pc' = "top"
  BY DEF BeginTurn
<1>2. requests' \in Seq(Request)
  BY <1>1, AsksType
<1>3. AskShape'
  <2>1. failed' \in BOOLEAN
    BY <1>1, Zenon
  <2>2. targets' \in Seq(Sources) /\ forwarded' \in Seq(Sources)
    BY <1>1
  <2> QED BY <2>1, <2>2, <1>1, <1>2 DEF AskShape
<1>4. SendsCount'
  <2>1. Len(targets') = 0 /\ \A i \in DOMAIN requests' : requests'[i].mark \in Nat
    BY <1>1, <1>2, RequestFields DEF Asks
  <2> QED BY <2>1 DEF SendsCount
<1>5. (NoneLost /\ AllForwarded /\ OwedOnce /\ NotYet)'
  BY <1>1 DEF NoneLost, AllForwarded, OwedOnce, NotYet
<1>6. OneForwardEach'
  BY <1>1 DEF OneForwardEach
<1> QED BY <1>3, <1>4, <1>5, <1>6 DEF IInv

\* A message folded in: its request is marked with the sends made so far, so
\* that no earlier send answers it.
LEMMA FoldKeeps ==
    ASSUME NEW s \in Sources \cup {Nobody}, IInv, Fold(s)
    PROVE  IInv'
<1> DEFINE more == Asks(s, Len(targets))
<1>1. /\ requests' = requests \o more /\ pc = "fold" /\ pc' = pc
      /\ UNCHANGED <<targets, real, owed, forwarded, failed>>
  BY DEF Fold, guardVars
<1>2. /\ requests \in Seq(Request) /\ targets \in Seq(Sources)
      /\ real \subseteq DOMAIN requests /\ owed = {} /\ forwarded = <<>>
  BY <1>1 DEF IInv, AskShape, NotYet
<1>3. /\ more \in Seq(Request)
      /\ \A i \in DOMAIN more : more[i].mark = Len(targets)
  <2>1. Len(targets) \in Nat
    BY <1>2
  <2>2. \A i \in DOMAIN more : more[i].mark = Len(targets)
    BY DEF Asks
  <2> QED BY <2>1, <2>2, AsksType
<1>4. /\ requests' \in Seq(Request)
      /\ DOMAIN requests \subseteq DOMAIN requests'
      /\ \A i \in DOMAIN requests' :
            \/ i \in DOMAIN requests /\ requests'[i] = requests[i]
            \/ requests'[i].mark = Len(targets)
  <2> HIDE DEF more
  <2> QED BY <1>1, <1>2, <1>3
<1>5. AskShape'
  BY <1>1, <1>2, <1>4 DEF IInv, AskShape
<1>6. SendsCount'
  <2> SUFFICES ASSUME NEW i \in DOMAIN requests', NEW k \in requests'[i].mark + 1 .. Len(targets),
                      targets[k] = requests'[i].source
               PROVE  i \in real
    BY <1>1 DEF SendsCount
  <2>1. CASE i \in DOMAIN requests /\ requests'[i] = requests[i]
    BY <2>1 DEF IInv, SendsCount
  <2>2. CASE requests'[i].mark = Len(targets)
    BY <2>2, <1>2
  <2> QED BY <2>1, <2>2, <1>4
<1>7. (NoneLost /\ AllForwarded /\ OwedOnce /\ NotYet)'
  BY <1>1, <1>2 DEF NoneLost, AllForwarded, OwedOnce, NotYet
<1>8. OneForwardEach'
  BY <1>1 DEF IInv, OneForwardEach
<1> QED BY <1>5, <1>6, <1>7, <1>8 DEF IInv

\* A send answers every request of its topic.
LEMMA SendKeeps ==
    ASSUME NEW s \in Sources, IInv, SendTool(s)
    PROVE  IInv'
<1>1. /\ targets' = Append(targets, s) /\ real' = real \cup RequestsOf(s)
      /\ pc = "tool" /\ pc' = "batch"
      /\ UNCHANGED <<requests, owed, forwarded, failed>>
  BY DEF SendTool, ToolRuns, guardVars
<1>2. targets \in Seq(Sources) /\ requests \in Seq(Request)
  BY DEF IInv, AskShape
<1>3. AskShape'
  BY <1>1, <1>2 DEF IInv, AskShape, RequestsOf
<1>4. SendsCount'
  <2> SUFFICES ASSUME NEW i \in DOMAIN requests,
                      NEW k \in requests[i].mark + 1 .. Len(targets'),
                      targets'[k] = requests[i].source
               PROVE  i \in real'
    BY <1>1 DEF SendsCount
  <2>1. requests[i].mark \in Nat
    BY <1>2, RequestFields
  <2>2. CASE k = Len(targets) + 1
    BY <2>2, <1>1, <1>2 DEF RequestsOf
  <2>3. CASE k # Len(targets) + 1
    <3>1. k \in requests[i].mark + 1 .. Len(targets) /\ targets'[k] = targets[k]
      BY <2>1, <2>3, <1>1, <1>2
    <3> QED BY <3>1, <1>1 DEF IInv, SendsCount
  <2> QED BY <2>2, <2>3
<1>5. (NoneLost /\ AllForwarded /\ OwedOnce /\ NotYet /\ OneForwardEach)'
  BY <1>1 DEF IInv, NoneLost, AllForwarded, OwedOnce, NotYet, OneForwardEach
<1> QED BY <1>3, <1>4, <1>5 DEF IInv

\* A send that was dropped may have answered a request without a record.
LEMMA AbortKeeps == ASSUME IInv, AbortTool PROVE IInv'
<1>1. /\ pc = "tool" /\ pc' = "cut"
      /\ UNCHANGED <<targets, requests, owed, forwarded, failed>>
      /\ real \subseteq real' /\ real' \subseteq DOMAIN requests
  BY DEF AbortTool, guardVars, IInv, AskShape, RequestsOf
<1>2. AskShape'
  BY <1>1 DEF IInv, AskShape
<1>3. SendsCount'
  BY <1>1 DEF IInv, SendsCount
<1>4. (NoneLost /\ AllForwarded /\ OwedOnce /\ NotYet /\ OneForwardEach)'
  BY <1>1 DEF IInv, NoneLost, AllForwarded, OwedOnce, NotYet, OneForwardEach
<1> QED BY <1>2, <1>3, <1>4 DEF IInv

-----------------------------------------------------------------------------
(* The guard.                                                               *)

\* What the guard counts as answered has been answered.
LEMMA AnsweredReal ==
    ASSUME IInv, NEW i \in DOMAIN requests, Answered(i)
    PROVE  i \in real
<1>1. targets \in Seq(Sources) /\ requests[i].mark \in Nat
  BY RequestFields DEF IInv, AskShape
<1>2. CASE failed
  BY <1>1, <1>2 DEF Answered, SentTo
<1>3. CASE ~failed
  BY <1>3 DEF Answered, SentTo, IInv, SendsCount
<1> QED BY <1>2, <1>3

\* Of the requests of one topic the first unanswered one stands for all.
LEMMA UnansweredCovers ==
    ASSUME IInv, NEW i \in DOMAIN requests, ~Answered(i)
    PROVE  \E j \in Unanswered : requests[j].source = requests[i].source
<1> DEFINE S == {j \in DOMAIN requests : requests[j].source = requests[i].source /\ ~Answered(j)}
<1>1. DOMAIN requests = 1 .. Len(requests) /\ Len(requests) \in Nat
  BY DEF IInv, AskShape
<1>2. S \subseteq Nat /\ i \in S
  BY <1>1
<1>3. PICK m \in S : \A x \in S : m <= x
  <2> HIDE DEF S
  <2> QED BY <1>2, LeastIndex
<1>4. m \in DOMAIN requests /\ ~Answered(m) /\ requests[m].source = requests[i].source
  OBVIOUS
<1>5. ASSUME NEW j \in 1 .. m - 1, requests[j].source = requests[m].source, ~Answered(j)
      PROVE  FALSE
  <2>1. j \in DOMAIN requests /\ j \in Nat /\ m \in Nat /\ j < m
    BY <1>1, <1>4
  <2>2. j \in S
    BY <2>1, <1>4, <1>5
  <2>3. m <= j
    BY <2>2, <1>3
  <2> QED BY <2>1, <2>3
<1>6. m \in Unanswered
  BY <1>4, <1>5 DEF Unanswered
<1> QED BY <1>4, <1>6

LEMMA UnansweredOnce ==
    ASSUME IInv, NEW i \in Unanswered, NEW j \in Unanswered,
           requests[i].source = requests[j].source
    PROVE  i = j
<1>1. /\ i \in Nat /\ j \in Nat /\ i >= 1 /\ j >= 1
      /\ ~Answered(i) /\ ~Answered(j)
  BY DEF IInv, AskShape, Unanswered
<1>2. ~(i < j)
  <2>1. i < j => i \in 1 .. j - 1
    BY <1>1
  <2> QED BY <2>1, <1>1 DEF Unanswered
<1>3. ~(j < i)
  <2>1. j < i => j \in 1 .. i - 1
    BY <1>1
  <2> QED BY <2>1, <1>1 DEF Unanswered
<1> QED BY <1>1, <1>2, <1>3

LEMMA GuardKeeps == ASSUME IInv, Guard PROVE IInv'
<1>1. /\ pc = "guard" /\ pc' = "forward" /\ owed' = Unanswered
      /\ UNCHANGED <<targets, requests, real, forwarded, failed>>
  BY DEF Guard, askVars
<1>2. forwarded = <<>> /\ Unanswered \subseteq DOMAIN requests
  BY <1>1 DEF IInv, NotYet, Unanswered
<1>3. AskShape'
  BY <1>1, <1>2 DEF IInv, AskShape
<1>4. SendsCount'
  BY <1>1 DEF IInv, SendsCount
<1>5. NoneLost'
  <2> SUFFICES ASSUME NEW i \in DOMAIN requests
               PROVE  \/ i \in real
                      \/ \E j \in Unanswered : requests[j].source = requests[i].source
    BY <1>1 DEF NoneLost, Handled
  <2> QED BY AnsweredReal, UnansweredCovers
<1>6. OwedOnce'
  BY <1>1, <1>2, UnansweredOnce DEF OwedOnce
<1>7. (AllForwarded /\ NotYet /\ OneForwardEach)'
  BY <1>1 DEF IInv, AllForwarded, NotYet, OneForwardEach
<1> QED BY <1>3, <1>4, <1>5, <1>6, <1>7 DEF IInv

LEMMA ForwardKeeps == ASSUME IInv, Forward PROVE IInv'
<1>1. PICK i \in owed : owed' = owed \ {i} /\ forwarded' = Append(forwarded, requests[i].source)
  BY DEF Forward
<1>2. /\ pc = "forward" /\ pc' = pc
      /\ UNCHANGED <<targets, requests, real, failed>>
  BY DEF Forward, askVars
<1>3. /\ forwarded \in Seq(Sources) /\ i \in DOMAIN requests
      /\ requests \in Seq(Request)
  BY DEF IInv, AskShape
<1>4. /\ forwarded' \in Seq(Sources)
      /\ DOMAIN forwarded' = DOMAIN forwarded \cup {Len(forwarded) + 1}
      /\ Len(forwarded) + 1 \notin DOMAIN forwarded
      /\ \A k \in DOMAIN forwarded : forwarded'[k] = forwarded[k]
      /\ forwarded'[Len(forwarded) + 1] = requests[i].source
  <2>1. requests[i].source \in Sources
    BY <1>3, RequestFields
  <2> QED BY <2>1, <1>1, <1>3
<1>5. AskShape'
  BY <1>1, <1>2, <1>4 DEF IInv, AskShape
<1>6. SendsCount'
  BY <1>2 DEF IInv, SendsCount
<1>7. NoneLost'
  <2> SUFFICES ASSUME NEW r \in DOMAIN requests PROVE Handled(r)'
    BY <1>2 DEF NoneLost
  <2>1. Handled(r)
    BY <1>2 DEF IInv, NoneLost
  <2>2. CASE r \in real
    BY <2>2, <1>2 DEF Handled
  <2>3. ASSUME NEW j \in owed, requests[j].source = requests[r].source PROVE Handled(r)'
    BY <2>3, <1>1, <1>2, <1>4 DEF Handled
  <2>4. ASSUME NEW k \in DOMAIN forwarded, forwarded[k] = requests[r].source PROVE Handled(r)'
    BY <2>4, <1>2, <1>4 DEF Handled
  <2> QED BY <2>1, <2>2, <2>3, <2>4 DEF Handled
<1>8. OwedOnce'
  BY <1>1, <1>2, <1>4 DEF IInv, OwedOnce
<1>9. (AllForwarded /\ NotYet)'
  BY <1>2 DEF AllForwarded, NotYet
<1>10. OneForwardEach'
  BY <1>1, <1>4 DEF IInv, OwedOnce, OneForwardEach
<1> QED BY <1>5, <1>6, <1>7, <1>8, <1>9, <1>10 DEF IInv

LEMMA GuardDoneKeeps == ASSUME IInv, GuardDone PROVE IInv'
<1>1. /\ pc = "forward" /\ pc' = "save" /\ owed = {}
      /\ UNCHANGED <<targets, requests, real, owed, forwarded, failed>>
  BY DEF GuardDone, askVars, guardVars
<1>2. (AskShape /\ SendsCount)'
  BY <1>1 DEF IInv, AskShape, SendsCount
<1>3. NoneLost'
  BY <1>1 DEF IInv, NoneLost, Handled
<1>4. (AllForwarded /\ OwedOnce /\ NotYet /\ OneForwardEach)'
  BY <1>1 DEF IInv, AllForwarded, OwedOnce, NotYet, OneForwardEach
<1> QED BY <1>2, <1>3, <1>4 DEF IInv

-----------------------------------------------------------------------------
(* The loop's other steps leave the requests and the guard alone.           *)

LEMMA LoopQuiet ==
    ASSUME IInv,
           \/ StopAtTop \/ GoOn \/ Drained \/ CallFails \/ Answer \/ EmbeddedAsk
           \/ \E n \in 1 .. MaxBatch, empty \in BOOLEAN : CallTools(n, empty)
           \/ StartTool \/ PlainTool \/ StopBatch \/ CutBatch \/ BatchDone \/ DrainBatch
           \/ Cancel \/ Save \/ Crash
    PROVE  Quiet
<1>f. failed \in BOOLEAN
  BY DEF IInv, AskShape
<1> USE <1>f DEF Quiet, askVars, guardVars
<1>1. CASE StopAtTop BY <1>1 DEF StopAtTop
<1>2. CASE GoOn BY <1>2 DEF GoOn
<1>3. CASE Drained BY <1>3 DEF Drained
<1>4. CASE CallFails
  <2>1. failed' = ~cancel /\ pc = "call" /\ pc' = "guard"
        /\ UNCHANGED <<targets, requests, real, owed, forwarded>>
    BY <1>4 DEF CallFails
  <2>2. (~cancel) \in BOOLEAN
    BY Zenon
  <2> QED BY <2>1, <2>2
<1>5. CASE Answer BY <1>5 DEF Answer, CallReturns
<1>6. CASE EmbeddedAsk BY <1>6 DEF EmbeddedAsk, CallReturns
<1>7. ASSUME NEW n \in 1 .. MaxBatch, NEW empty \in BOOLEAN, CallTools(n, empty) PROVE Quiet
  BY <1>7 DEF CallTools, CallReturns
<1>8. CASE StartTool BY <1>8 DEF StartTool
<1>9. CASE PlainTool BY <1>9 DEF PlainTool, ToolRuns
<1>10. CASE StopBatch BY <1>10 DEF StopBatch
<1>11. CASE CutBatch BY <1>11 DEF CutBatch
<1>12. CASE BatchDone BY <1>12 DEF BatchDone
<1>13. CASE DrainBatch BY <1>13 DEF DrainBatch
<1>14. CASE Cancel BY <1>14 DEF Cancel
<1>15. CASE Save BY <1>15 DEF Save
<1>16. CASE Crash BY <1>16 DEF Crash
<1> QED BY <1>1, <1>2, <1>3, <1>4, <1>5, <1>6, <1>7, <1>8, <1>9, <1>10, <1>11, <1>12, <1>13,
          <1>14, <1>15, <1>16

LEMMA NextIInv == IInv /\ [Next]_vars => IInv'
<1> SUFFICES ASSUME IInv, [Next]_vars PROVE IInv'
  OBVIOUS
<1>1. ASSUME NEW s \in Sources \cup {Nobody}, BeginTurn(s) PROVE IInv'
  BY <1>1, BeginKeeps
<1>2. CASE LoopStep
  <2>1. ASSUME NEW s \in Sources \cup {Nobody}, Fold(s) PROVE IInv'
    BY <2>1, FoldKeeps
  <2>2. ASSUME NEW s \in Sources, SendTool(s) PROVE IInv'
    BY <2>2, SendKeeps
  <2>3. CASE AbortTool
    BY <2>3, AbortKeeps
  <2> QED BY <1>2, <2>1, <2>2, <2>3, LoopQuiet, QuietKeeps DEF LoopStep
<1>3. CASE EndStep
  BY <1>3, GuardKeeps, ForwardKeeps, GuardDoneKeeps, LoopQuiet, QuietKeeps DEF EndStep
<1>4. CASE Cancel \/ Crash
  BY <1>4, LoopQuiet, QuietKeeps
<1>5. CASE UNCHANGED vars
  <2>1. Quiet
    BY <1>5 DEF vars, Quiet, askVars, guardVars, IInv, AskShape
  <2> QED BY <2>1, QuietKeeps
<1> QED BY <1>1, <1>2, <1>3, <1>4, <1>5 DEF Next

LEMMA SpecIInv == Spec => []IInv
  BY InitIInv, NextIInv, PTL DEF Spec

-----------------------------------------------------------------------------
(* The theorems about the guard.                                            *)

\* forward_unanswered_replies: when a turn is over, every topic that asked it
\* for a reply was sent one, by the model or by the guard.
THEOREM RequestsAllSettled == Spec => []RequestsSettled
<1>1. IInv => RequestsSettled
  BY DEF IInv, NoneLost, AllForwarded, Handled, RequestsSettled
<1> QED BY <1>1, SpecIInv, PTL

\* unanswered_requests, "the requester gets one answer, not two": the guard
\* sends each topic at most one answer in a turn.
THEOREM ForwardsDistinct == Spec => []OneForwardEach
<1>1. IInv => OneForwardEach
  BY DEF IInv
<1> QED BY <1>1, SpecIInv, PTL

-----------------------------------------------------------------------------
(* The repair of a transcript: it keeps entries in their order, and no call  *)
(* it keeps is without its result.                                          *)

\* The ranks of a finite set of numbers count it through, in order.
LEMMA RankCounts ==
    ASSUME NEW m \in Nat, NEW S \in SUBSET (1 .. m)
    PROVE  /\ IsFiniteSet(S) /\ Cardinality(S) \in Nat
           /\ Rank(S) \in [S -> 1 .. Cardinality(S)]
           /\ \A j, k \in S : j < k <=> Rank(S)[j] < Rank(S)[k]
           /\ \A n \in 1 .. Cardinality(S) : \E k \in S : Rank(S)[k] = n
<1> DEFINE Up(k) == {j \in S : j <= k}
           N == Cardinality(S)
<1>1. IsFiniteSet(S) /\ N \in Nat
  <2>1. IsFiniteSet(1 .. m)
    BY FS_Interval
  <2> QED BY <2>1, FS_Subset, FS_CardinalityType
<1>2. ASSUME NEW k \in S
      PROVE  /\ IsFiniteSet(Up(k)) /\ Cardinality(Up(k)) \in 1 .. N
             /\ Rank(S)[k] = Cardinality(Up(k))
  <2>1. Up(k) \in SUBSET S /\ k \in Up(k)
    OBVIOUS
  <2>2. IsFiniteSet(Up(k)) /\ Cardinality(Up(k)) <= N /\ Cardinality(Up(k)) \in Nat
    BY <1>1, <2>1, FS_Subset, FS_CardinalityType
  <2>3. Cardinality(Up(k)) # 0
    BY <2>1, <2>2, FS_EmptySet
  <2> QED BY <1>1, <2>2, <2>3 DEF Rank
<1>3. ASSUME NEW j \in S, NEW k \in S, j < k PROVE Rank(S)[j] < Rank(S)[k]
  <2>0. S \subseteq Nat /\ j \in Nat /\ k \in Nat
    OBVIOUS
  <2>a. \A x \in S : x <= j => x <= k
    BY <1>3, <2>0
  <2>b. k <= k /\ ~(k <= j)
    BY <1>3, <2>0
  <2>1. Up(j) \in SUBSET Up(k) /\ k \in Up(k) /\ k \notin Up(j)
    BY <2>a, <2>b
  <2>2. Cardinality(Up(j)) <= Cardinality(Up(k)) /\ Cardinality(Up(j)) # Cardinality(Up(k))
    BY <1>2, <2>1, FS_Subset
  <2> QED BY <1>1, <1>2, <2>2
<1>4. Rank(S) \in [S -> 1 .. N]
  BY <1>2 DEF Rank
<1>5. ASSUME NEW j \in S, NEW k \in S, Rank(S)[j] < Rank(S)[k] PROVE j < k
  <2>1. j \in Nat /\ k \in Nat
    OBVIOUS
  <2>2. Rank(S)[j] \in Nat /\ Rank(S)[k] \in Nat
    BY <1>1, <1>4
  <2>3. ~(k < j) /\ k # j
    BY <1>3, <1>5, <2>2
  <2> QED BY <2>1, <2>3
<1>6. Rank(S) \in Injection(S, 1 .. N)
  <2>1. ASSUME NEW j \in S, NEW k \in S, Rank(S)[j] = Rank(S)[k] PROVE j = k
    <3>1. j \in Nat /\ k \in Nat /\ Rank(S)[j] \in Nat
      BY <1>1, <1>4
    <3> QED BY <1>3, <2>1, <3>1
  <2> QED BY <1>4, <2>1 DEF Injection, IsInjective
<1>7. Rank(S) \in Surjection(S, 1 .. N)
  <2>1. IsFiniteSet(1 .. N) /\ Cardinality(1 .. N) = N
    BY <1>1, FS_Interval
  <2> HIDE DEF N
  <2> QED BY <1>6, <2>1, FS_Injection DEF N
<1> QED BY <1>1, <1>3, <1>4, <1>5, <1>7 DEF Surjection

\* f counts through what the repair keeps of s.
Counts(f, s) ==
    LET n == Len(Repaired(s)) IN
    /\ f \in [1 .. n -> KeptOf(s)]
    /\ \A a \in 1 .. n : Repaired(s)[a] = s[f[a]]
    /\ \A a, b \in 1 .. n : a < b <=> f[a] < f[b]
    /\ \A k \in KeptOf(s) : \E a \in 1 .. n : f[a] = k

LEMMA RepairedShape ==
    ASSUME NEW E, NEW s \in Seq(E)
    PROVE  Repaired(s) \in Seq(E) /\ \E f : Counts(f, s)
<1> DEFINE K == KeptOf(s)
           N == Cardinality(K)
           f == [n \in 1 .. N |-> Nth(K, Rank(K), n)]
<1>1. Len(s) \in Nat /\ K \in SUBSET (1 .. Len(s))
  BY DEF KeptOf
<1>2. /\ N \in Nat /\ Rank(K) \in [K -> 1 .. N]
      /\ \A j, k \in K : j < k <=> Rank(K)[j] < Rank(K)[k]
      /\ \A n \in 1 .. N : \E k \in K : Rank(K)[k] = n
  BY <1>1, RankCounts
<1>3. \A n \in 1 .. N : f[n] \in K /\ Rank(K)[f[n]] = n
  <2> SUFFICES ASSUME NEW n \in 1 .. N
               PROVE  Nth(K, Rank(K), n) \in K /\ Rank(K)[Nth(K, Rank(K), n)] = n
    OBVIOUS
  <2> QED BY <1>2 DEF Nth
<1>4. Repaired(s) = [n \in 1 .. N |-> s[f[n]]]
  BY DEF Repaired
<1>5. \A n \in 1 .. N : s[f[n]] \in E
  BY <1>1, <1>3
<1>6. f \in [1 .. N -> K]
  BY <1>3
<1> HIDE DEF f, N, K
<1>7. Repaired(s) \in Seq(E) /\ Len(Repaired(s)) = N
  BY <1>2, <1>4, <1>5
<1>8. \A a, b \in 1 .. N : a < b <=> f[a] < f[b]
  BY <1>2, <1>3
<1>9. \A k \in K : \E a \in 1 .. N : f[a] = k
  <2> SUFFICES ASSUME NEW k \in K PROVE \E a \in 1 .. N : f[a] = k
    OBVIOUS
  <2> DEFINE a == Rank(K)[k]
  <2>1. a \in 1 .. N
    BY <1>2
  <2>2. f[a] \in K /\ Rank(K)[f[a]] = a
    BY <1>3, <2>1
  <2>3. a \in Nat /\ k \in Nat /\ f[a] \in Nat
    <3>1. K \subseteq Nat /\ a \in Nat
      BY <1>1, <1>2, <2>1
    <3>2. k \in Nat
      BY <3>1
    <3>3. f[a] \in Nat
      BY <2>2, <3>1
    <3> QED BY <3>1, <3>2, <3>3
  <2>4. ~(f[a] < k) /\ ~(k < f[a])
    BY <1>2, <2>2, <2>3
  <2>5. f[a] = k
    BY <2>3, <2>4
  <2> QED BY <2>1, <2>5
<1> QED BY <1>4, <1>6, <1>7, <1>8, <1>9 DEF Counts, K

\* A transcript in which every call has its result needs no repair.
LEMMA RepairedWhole ==
    ASSUME NEW E, NEW s \in Seq(E), \A i \in DOMAIN s : ~Dangling(s, i)
    PROVE  Repaired(s) = s
<1> DEFINE n == Len(s)
<1>1. KeptOf(s) = 1 .. n
  BY DEF KeptOf, Dropped
<1>2. PICK f : Counts(f, s)
  BY RepairedShape
<1>0. n \in Nat
  OBVIOUS
<1>3. n \in Nat /\ Cardinality(1 .. n) = n
  <2> HIDE DEF n
  <2> QED BY <1>0, FS_Interval
<1>4. Repaired(s) \in Seq(E) /\ Len(Repaired(s)) = n
  BY <1>1, <1>3, RepairedShape DEF Repaired
<1>5. \A a \in 1 .. n : f[a] = a
  <2>1. /\ f \in [1 .. n -> 1 .. n]
        /\ \A a, b \in 1 .. n : a < b <=> f[a] < f[b]
        /\ \A k \in 1 .. n : \E a \in 1 .. n : f[a] = k
    BY <1>1, <1>2, <1>4 DEF Counts
  <2> DEFINE S == {a \in 1 .. n : f[a] # a}
  <2> SUFFICES ASSUME S # {} PROVE FALSE
    OBVIOUS
  <2>2. PICK a \in S : \A b \in S : a <= b
    <3>1. S \subseteq Nat
      BY <1>3
    <3> QED BY <3>1, LeastIndex
  <2>3. a \in 1 .. n /\ f[a] # a /\ f[a] \in 1 .. n
    BY <2>1
  <2>4. CASE f[a] < a
    <3>1. f[f[a]] = f[a]
      BY <1>3, <2>2, <2>3, <2>4
    <3>2. f[f[a]] < f[a]
      BY <2>1, <2>3, <2>4
    <3> QED BY <1>3, <2>3, <3>1, <3>2
  <2>5. CASE f[a] > a
    <3>1. PICK b \in 1 .. n : f[b] = a
      BY <2>1, <2>3
    <3>2. b < a
      BY <1>3, <2>1, <2>3, <2>5, <3>1
    <3>3. f[b] = b
      BY <1>3, <2>2, <2>3, <3>1, <3>2
    <3> QED BY <1>3, <2>3, <3>1, <3>2, <3>3
  <2> QED BY <1>3, <2>3, <2>4, <2>5
<1>6. \A a \in 1 .. Len(s) : Repaired(s)[a] = s[a]
  BY <1>2, <1>4, <1>5 DEF Counts
<1> QED BY <1>4, <1>6, SeqEqual

-----------------------------------------------------------------------------
(* The transcript: the shape of the state, and the batch whose tools run.   *)

Shape ==
    /\ pc \in {"idle", "top", "fold", "call", "batch", "tool", "cut", "drain", "guard",
               "forward", "save"}
    /\ turns \in 0 .. MaxTurns /\ calls \in 0 .. MaxCalls /\ folds \in 0 .. MaxFolds
    /\ journal \in Seq(Entries) /\ context \in Seq(Entries)
    /\ priorLen \in 0 .. Len(context)
    /\ format \in Formats
    /\ batch \in Seq(Nat \X Nat) /\ done \in 0 .. Len(batch) /\ Len(batch) <= MaxBatch
    /\ iter \in 0 .. MaxIter /\ empties \in 0 .. MaxEmpty
    /\ {images, handedOver, cancel, failed} \subseteq BOOLEAN

\* Within a cycle its iterations, and the empty responses in a row, are not
\* used up.
InCycle ==
    /\ pc \in {"call", "batch", "tool", "cut", "drain"} => iter < MaxIter
    /\ pc \in {"top", "fold", "call", "batch", "tool", "cut", "drain"} => empties < MaxEmpty
    /\ pc = "tool" => done < Len(batch)

Marks == \A i \in DOMAIN requests : requests[i].mark <= Len(targets)

\* While its tools run a response stands behind what is on disk, and the
\* results so far, in order, behind it.
Opened == Len(context) - done
OpenBatch ==
    pc \in {"batch", "tool", "cut"} =>
        /\ batch # <<>> /\ Opened > priorLen
        /\ context[Opened] = Entry("assistant", {batch[k] : k \in DOMAIN batch})
        /\ \A k \in 1 .. done : context[Opened + k] = Entry("result", {batch[k]})

TInv == Shape /\ InCycle /\ OpenBatch

-----------------------------------------------------------------------------
(* Every step keeps the shape.                                              *)

LEMMA EntryType ==
    ASSUME format \in Formats
    PROVE  /\ \A role \in {"user", "assistant", "result"}, ids \in SUBSET (Nat \X Nat) :
                  Entry(role, ids) \in Entries
           /\ User(format) \in Entries
<1>1. format \in {"chat", "blocks"}
  BY FormatsAssumption
<1> QED BY <1>1 DEF Entry, User, Entries

LEMMA PriorType ==
    ASSUME journal \in Seq(Entries)
    PROVE  Prior \in Seq(Entries)
<1>1. Repaired(journal) \in Seq(Entries)
  BY RepairedShape
<1> QED BY <1>1 DEF Prior

\* What a turn counts is within its bounds.
LEMMA CountsBounded ==
    ASSUME TInv
    PROVE  /\ MaxTurns \in Nat /\ MaxCalls \in Nat /\ MaxFolds \in Nat
           /\ MaxIter \in Nat /\ MaxEmpty \in Nat
           /\ turns \in 0 .. MaxTurns /\ calls \in 0 .. MaxCalls /\ folds \in 0 .. MaxFolds
           /\ iter \in 0 .. MaxIter /\ empties \in 0 .. MaxEmpty
<1>1. /\ MaxTurns \in Nat /\ MaxCalls \in Nat /\ MaxFolds \in Nat
      /\ MaxIter \in Nat /\ MaxEmpty \in Nat
  BY BoundsAssumption
<1>2. /\ turns \in 0 .. MaxTurns /\ calls \in 0 .. MaxCalls /\ folds \in 0 .. MaxFolds
      /\ iter \in 0 .. MaxIter /\ empties \in 0 .. MaxEmpty
  BY DEF TInv, Shape
<1> QED BY <1>1, <1>2

LEMMA InitTInv == Init => TInv
<1> SUFFICES ASSUME Init PROVE TInv
  OBVIOUS
<1> USE DEF Init
<1>1. {images, handedOver, cancel, failed} \subseteq BOOLEAN
  BY Zenon
<1>2. Shape
  BY <1>1, BoundsAssumption DEF Shape
<1>3. InCycle /\ OpenBatch
  BY DEF InCycle, OpenBatch
<1> QED BY <1>2, <1>3 DEF TInv

LEMMA BeginKeepsT ==
    ASSUME NEW s \in Sources \cup {Nobody}, TInv, BeginTurn(s)
    PROVE  TInv'
<1>1. PICK f \in Formats : format' = f /\ context' = Append(Prior, User(f))
  BY DEF BeginTurn
<1>2. Prior \in Seq(Entries)
  BY PriorType DEF TInv, Shape
<1>3. User(f) \in Entries
  BY <1>1, FormatsAssumption DEF User, Entries
<1>4. /\ context' \in Seq(Entries) /\ Len(context') = Len(Prior) + 1 /\ Len(Prior) \in Nat
      /\ priorLen' = Len(Prior)
  BY <1>1, <1>2, <1>3 DEF BeginTurn
<1>5. journal' \in Seq(Entries)
  BY DEF BeginTurn, TInv, Shape
<1>6. {images, handedOver, cancel, failed}' \subseteq BOOLEAN
  <2>1. images' = FALSE /\ handedOver' = FALSE /\ cancel' = FALSE /\ failed' = FALSE
    BY DEF BeginTurn
  <2> QED BY <2>1, Zenon
<1>7. /\ batch' = <<>> /\ done' = 0 /\ iter' = 0 /\ empties' = 0 /\ pc' = "top"
      /\ turns' = turns + 1 /\ turns < MaxTurns /\ calls' = calls /\ folds' = folds
  BY DEF BeginTurn
<1>8. Shape'
  <2>1. turns' \in 0 .. MaxTurns /\ calls' \in 0 .. MaxCalls /\ folds' \in 0 .. MaxFolds
    <3>1. /\ MaxTurns \in Nat /\ turns \in 0 .. MaxTurns
          /\ calls \in 0 .. MaxCalls /\ folds \in 0 .. MaxFolds
      BY CountsBounded
    <3>2. turns' = turns + 1 /\ turns < MaxTurns /\ calls' = calls /\ folds' = folds
      BY <1>7
    <3> QED BY <3>1, <3>2
  <2>2. batch' \in Seq(Nat \X Nat) /\ done' \in 0 .. Len(batch') /\ Len(batch') <= MaxBatch
    BY <1>7, BoundsAssumption
  <2>3. iter' \in 0 .. MaxIter /\ empties' \in 0 .. MaxEmpty
    BY <1>7, BoundsAssumption
  <2>4. priorLen' \in 0 .. Len(context') /\ format' \in Formats
    BY <1>1, <1>4
  <2> QED BY <1>4, <1>5, <1>6, <1>7, <2>1, <2>2, <2>3, <2>4 DEF Shape
<1>9. (InCycle /\ OpenBatch)'
  BY <1>7, BoundsAssumption DEF InCycle, OpenBatch
<1> QED BY <1>8, <1>9 DEF TInv

\* A step that leaves the transcript, the journal and the batch alone.
Still ==
    /\ UNCHANGED <<journal, context, priorLen, format, batch, done>>
    /\ turns' \in 0 .. MaxTurns /\ calls' \in 0 .. MaxCalls /\ folds' \in 0 .. MaxFolds
    /\ iter' \in 0 .. MaxIter /\ empties' \in 0 .. MaxEmpty
    /\ {images', handedOver', cancel', failed'} \subseteq BOOLEAN
    /\ pc' \in {"idle", "top", "fold", "call", "batch", "tool", "cut", "drain", "guard",
                "forward", "save"}
    /\ pc' \in {"batch", "tool", "cut"} => pc \in {"batch", "tool", "cut"}

LEMMA StillKeeps == ASSUME TInv, Still, InCycle' PROVE TInv'
<1>1. Shape'
  BY DEF TInv, Shape, Still
<1>2. OpenBatch'
  BY DEF TInv, OpenBatch, Opened, Still, Entry
<1> QED BY <1>1, <1>2 DEF TInv

LEMMA StillSteps ==
    ASSUME TInv,
           \/ StopAtTop \/ GoOn \/ Drained \/ CallFails \/ StartTool \/ AbortTool \/ StopBatch
           \/ BatchDone \/ Guard \/ Forward \/ GuardDone \/ Cancel \/ UNCHANGED vars
    PROVE  Still /\ InCycle' /\ calls' = calls
<1> USE DEF TInv, Shape, Still, InCycle, countVars, textVars, batchVars, loopVars
<1>b. {cancel, ~cancel, TRUE, failed} \subseteq BOOLEAN
  BY Zenon
<1>1. CASE StopAtTop BY <1>1 DEF StopAtTop
<1>2. CASE GoOn BY <1>2 DEF GoOn
<1>3. CASE Drained
  <2>1. /\ pc = "fold"
        /\ \/ pc' = "top" /\ iter' = 0
           \/ pc' = "call" /\ iter' = iter /\ ~(iter >= MaxIter)
        /\ UNCHANGED <<countVars, textVars, batchVars, empties, images, handedOver, cancel, failed>>
    BY <1>3 DEF Drained
  <2>2. iter' \in 0 .. MaxIter /\ (pc' = "call" => iter' < MaxIter)
    <3> HIDE DEF TInv, Shape, Still, InCycle, countVars, textVars, batchVars, loopVars
    <3> QED BY <2>1, CountsBounded
  <2> QED BY <2>1, <2>2
<1>4. CASE CallFails
  <2>1. failed' = ~cancel /\ cancel' = cancel /\ pc' = "guard" /\ pc = "call"
        /\ UNCHANGED <<countVars, textVars, batchVars, loopVars>>
    BY <1>4 DEF CallFails
  <2>2. {images', handedOver', cancel', failed'} \subseteq BOOLEAN
    <3>1. failed' \in BOOLEAN
      BY <2>1, Zenon
    <3> QED BY <2>1, <3>1
  <2> QED BY <2>1, <2>2
<1>5. CASE StartTool BY <1>5 DEF StartTool
<1>6. CASE AbortTool BY <1>6 DEF AbortTool
<1>7. CASE StopBatch BY <1>7 DEF StopBatch
<1>8. CASE BatchDone BY <1>8 DEF BatchDone
<1>9. CASE Guard BY <1>9 DEF Guard
<1>10. CASE Forward BY <1>10 DEF Forward
<1>11. CASE GuardDone BY <1>11 DEF GuardDone
<1>12. CASE Cancel
  <2>1. cancel' = TRUE /\ UNCHANGED <<pc, countVars, textVars, batchVars, loopVars, failed>>
    BY <1>12 DEF Cancel
  <2>2. {images', handedOver', cancel', failed'} \subseteq BOOLEAN
    BY <2>1
  <2> QED BY <2>1, <2>2
<1>13. CASE UNCHANGED vars BY <1>13 DEF vars
<1> QED BY <1>1, <1>2, <1>3, <1>4, <1>5, <1>6, <1>7, <1>8, <1>9, <1>10, <1>11, <1>12, <1>13

\* What a call of the model adds to the count of them.
LEMMA CallCounts ==
    ASSUME TInv, CallReturns
    PROVE  /\ calls' = calls + 1 /\ calls' \in 0 .. MaxCalls /\ calls \in Nat /\ pc = "call"
<1>1. pc = "call" /\ calls < MaxCalls /\ calls' = calls + 1
  BY DEF CallReturns
<1> QED BY <1>1, CountsBounded

\* A step that only adds t to the transcript, and is not one of a batch.
Says(t) ==
    /\ t \in Seq(Entries) /\ context' = context \o t
    /\ UNCHANGED <<journal, priorLen, format, batch, done>>
    /\ turns' \in 0 .. MaxTurns /\ calls' \in 0 .. MaxCalls /\ folds' \in 0 .. MaxFolds
    /\ iter' \in 0 .. MaxIter /\ empties' \in 0 .. MaxEmpty
    /\ {images', handedOver', cancel', failed'} \subseteq BOOLEAN /\ failed' = failed
    /\ pc \in {"fold", "call", "drain"} /\ pc' \in {"top", "fold", "guard"}

LEMMA SaysKeeps ==
    ASSUME TInv, InCycle', NEW t, Says(t)
    PROVE  TInv'
<1>1. /\ context' \in Seq(Entries) /\ Len(context') = Len(context) + Len(t)
      /\ Len(t) \in Nat /\ Len(context) \in Nat
  <2>1. context \in Seq(Entries) /\ t \in Seq(Entries) /\ context' = context \o t
    BY DEF TInv, Shape, Says
  <2> QED BY <2>1
<1>2. priorLen' \in 0 .. Len(context')
  <2>1. priorLen \in 0 .. Len(context) /\ priorLen' = priorLen
    BY DEF TInv, Shape, Says
  <2> QED BY <1>1, <2>1
<1>3. Shape'
  BY <1>1, <1>2 DEF TInv, Shape, Says
<1>4. OpenBatch'
  BY DEF OpenBatch, Says
<1> QED BY <1>3, <1>4 DEF TInv

\* Appending one entry, as a concatenation.
LEMMA AppendOne ==
    ASSUME NEW E, NEW s \in Seq(E), NEW e \in E
    PROVE  Append(s, e) = s \o <<e>> /\ <<e>> \in Seq(E)
  OBVIOUS

LEMMA FoldSays ==
    ASSUME TInv, NEW s \in Sources \cup {Nobody}, Fold(s)
    PROVE  Says(<<User(format)>>) /\ InCycle' /\ calls' = calls
<1>1. /\ context' = Append(context, User(format)) /\ pc = "fold" /\ folds < MaxFolds
      /\ folds' = folds + 1
      /\ UNCHANGED <<pc, turns, calls, journal, priorLen, format, batchVars, loopVars,
                     cancel, failed>>
  BY DEF Fold
<1>2. context \in Seq(Entries) /\ User(format) \in Entries
  BY EntryType DEF TInv, Shape
<1>3. folds' \in 0 .. MaxFolds
  <2>1. folds \in 0 .. MaxFolds /\ MaxFolds \in Nat
    BY CountsBounded
  <2> QED BY <1>1, <2>1
<1>4. Says(<<User(format)>>)
  BY <1>1, <1>2, <1>3, AppendOne DEF Says, TInv, Shape, batchVars, loopVars
<1> QED BY <1>1, <1>4 DEF InCycle, TInv, loopVars

LEMMA AnswerSays ==
    ASSUME TInv, Answer
    PROVE  \/ Says(<<Entry("assistant", {})>>) /\ InCycle' /\ calls' = calls + 1
           \/ Still /\ InCycle' /\ calls' = calls + 1 /\ pc' = "guard"
<1>1. /\ calls' = calls + 1 /\ calls' \in 0 .. MaxCalls /\ pc = "call"
  BY CallCounts DEF Answer
<1>2. /\ context' = Append(context, Entry("assistant", {})) \/ context' = context
      /\ pc' = "guard"
      /\ UNCHANGED <<turns, folds, journal, priorLen, format, batchVars, loopVars,
                     cancel, failed>>
  BY DEF Answer
<1>3. context \in Seq(Entries) /\ Entry("assistant", {}) \in Entries
  BY EntryType DEF TInv, Shape
<1>4. InCycle'
  BY <1>2 DEF InCycle
<1>5. CASE context' = Append(context, Entry("assistant", {}))
  <2>1. Says(<<Entry("assistant", {})>>)
    BY <1>1, <1>2, <1>3, <1>5, AppendOne DEF Says, TInv, Shape, batchVars, loopVars
  <2> QED BY <1>1, <1>4, <2>1
<1>6. CASE context' = context
  BY <1>1, <1>2, <1>4, <1>6 DEF Still, TInv, Shape, batchVars, loopVars
<1> QED BY <1>2, <1>5, <1>6

\* The question written into the text, and its result.
Asked == <<Entry("assistant", {}), Entry("result", {<<0, 0>>})>>

LEMMA EmbeddedSays ==
    ASSUME TInv, EmbeddedAsk
    PROVE  Says(Asked) /\ InCycle' /\ calls' = calls + 1 /\ pc = "call"
<1>1. /\ calls' = calls + 1 /\ calls' \in 0 .. MaxCalls /\ pc = "call"
  BY CallCounts DEF EmbeddedAsk
<1>2. /\ context' = context \o Asked
      /\ \/ pc' = "top" /\ handedOver' = handedOver
         \/ pc' = "guard" /\ handedOver' = TRUE
      /\ UNCHANGED <<turns, folds, journal, priorLen, format, batchVars, iter, empties, images,
                     cancel, failed>>
  BY DEF EmbeddedAsk, Asked
<1>3. Asked \in Seq(Entries)
  <2>1. {} \in SUBSET (Nat \X Nat) /\ {<<0, 0>>} \in SUBSET (Nat \X Nat)
    OBVIOUS
  <2>2. Entry("assistant", {}) \in Entries /\ Entry("result", {<<0, 0>>}) \in Entries
    BY <2>1, EntryType DEF TInv, Shape
  <2> QED BY <2>2 DEF Asked
<1>4. {images', handedOver', cancel', failed'} \subseteq BOOLEAN
  BY <1>2 DEF TInv, Shape
<1>5. Says(Asked)
  BY <1>1, <1>2, <1>3, <1>4 DEF Says, TInv, Shape, batchVars
<1> QED BY <1>1, <1>2, <1>5 DEF InCycle, TInv

LEMMA DrainSays ==
    ASSUME TInv, DrainBatch
    PROVE  /\ \/ Says(<<User(format)>>)
              \/ Still /\ pc' \notin {"batch", "tool", "cut"}
           /\ InCycle' /\ calls' = calls /\ pc = "drain"
<1>1. /\ context' = IF images THEN Append(context, User(format)) ELSE context
      /\ images' = FALSE /\ pc = "drain"
      /\ \/ pc' = "guard" /\ iter' = iter
         \/ pc' = "top" /\ iter' = iter + 1
      /\ UNCHANGED <<countVars, journal, priorLen, format, batchVars, empties, handedOver,
                     cancel, failed>>
  BY DEF DrainBatch
<1>2. context \in Seq(Entries) /\ User(format) \in Entries
  BY EntryType DEF TInv, Shape
<1>3. iter' \in 0 .. MaxIter
  <2>1. iter < MaxIter
    BY <1>1 DEF TInv, InCycle
  <2> QED BY <1>1, <2>1, CountsBounded
<1>4. {images', handedOver', cancel', failed'} \subseteq BOOLEAN
  BY <1>1 DEF TInv, Shape
<1>5. InCycle'
  BY <1>1 DEF InCycle, TInv
<1>6. CASE images
  <2>1. Says(<<User(format)>>)
    BY <1>1, <1>2, <1>3, <1>4, <1>6, AppendOne DEF Says, TInv, Shape, batchVars, countVars
  <2> QED BY <1>1, <1>5, <2>1 DEF countVars
<1>7. CASE ~images
  BY <1>1, <1>3, <1>4, <1>5, <1>7 DEF Still, TInv, Shape, batchVars, countVars
<1> QED BY <1>6, <1>7

\* A response with tool calls, whose ids no call had before.
LEMMA CallShape ==
    ASSUME TInv, NEW n \in 1 .. MaxBatch, NEW empty \in BOOLEAN, CallTools(n, empty)
    PROVE  /\ batch' = [k \in 1 .. n |-> <<calls', k>>] /\ done' = 0
           /\ batch' \in Seq(Nat \X Nat) /\ Len(batch') = n /\ n \in Nat /\ n >= 1
           /\ Entry("assistant", {batch'[k] : k \in 1 .. n}) \in Entries
           /\ context' = Append(context, Entry("assistant", {batch'[k] : k \in 1 .. n}))
           /\ UNCHANGED <<journal, priorLen, format>>
           /\ calls' = calls + 1 /\ calls \in Nat /\ pc = "call"
           /\ pc' = "guard" \/ (pc' = "batch" /\ failed' = failed)
           /\ pc' = "batch" \/ (pc' = "guard" /\ failed' = TRUE)
<1>1. calls' = calls + 1 /\ calls' \in Nat /\ pc = "call" /\ calls \in Nat
  BY CallCounts DEF CallTools
<1>2. /\ batch' = [k \in 1 .. n |-> <<calls', k>>] /\ done' = 0
      /\ context' = Append(context, Entry("assistant", {batch'[k] : k \in 1 .. n}))
      /\ UNCHANGED <<journal, priorLen, format>>
      /\ pc' = "guard" \/ (pc' = "batch" /\ failed' = failed)
      /\ pc' = "batch" \/ (pc' = "guard" /\ failed' = TRUE)
  BY DEF CallTools
<1>3. n \in Nat /\ n >= 1 /\ MaxBatch \in Nat
  BY BoundsAssumption
<1>4. PICK c \in Nat : c = calls'
  BY <1>1
<1>5. PICK b : b = [k \in 1 .. n |-> <<c, k>>]
  OBVIOUS
<1>6. b \in Seq(Nat \X Nat) /\ Len(b) = n /\ batch' = b
  BY <1>2, <1>3, <1>4, <1>5
<1>7. {b[k] : k \in 1 .. n} \in SUBSET (Nat \X Nat)
  BY <1>5, <1>3
<1>8. Entry("assistant", {b[k] : k \in 1 .. n}) \in Entries
  BY <1>7, EntryType DEF TInv, Shape
<1> QED BY <1>1, <1>2, <1>3, <1>6, <1>8

LEMMA CallKeepsT ==
    ASSUME TInv, NEW n \in 1 .. MaxBatch, NEW empty \in BOOLEAN, CallTools(n, empty)
    PROVE  TInv'
<1> DEFINE e == Entry("assistant", {batch'[k] : k \in 1 .. n})
<1>1. /\ batch' = [k \in 1 .. n |-> <<calls', k>>] /\ done' = 0
      /\ batch' \in Seq(Nat \X Nat) /\ Len(batch') = n /\ n \in Nat /\ n >= 1
      /\ e \in Entries /\ context' = Append(context, e)
      /\ UNCHANGED <<journal, priorLen, format>>
      /\ pc = "call" /\ (pc' = "batch" \/ pc' = "guard")
  BY CallShape
<1>2. calls' \in 0 .. MaxCalls
  BY CallCounts DEF CallTools
<1>3. PICK c \in Entries : c = e
  BY <1>1
<1>4. /\ context' \in Seq(Entries) /\ Len(context') = Len(context) + 1 /\ Len(context) \in Nat
      /\ context'[Len(context) + 1] = c
  <2>1. context \in Seq(Entries) /\ context' = Append(context, c)
    BY <1>1, <1>3 DEF TInv, Shape
  <2> QED BY <2>1
<1>5. empties' \in 0 .. MaxEmpty /\ (pc' = "batch" => empties' < MaxEmpty)
  <2>1. empties' = empties + 1 \/ empties' = 0
    BY DEF CallTools
  <2>2. empties' >= MaxEmpty \/ pc' = "batch"
    BY DEF CallTools
  <2>3. empties' >= MaxEmpty => pc' = "guard"
    BY DEF CallTools
  <2>4. empties \in Nat /\ empties < MaxEmpty /\ MaxEmpty \in Nat \ {0}
    BY <1>1, BoundsAssumption DEF TInv, Shape, InCycle
  <2>5. empties' \in Nat /\ empties' <= MaxEmpty
    BY <2>1, <2>4
  <2> QED BY <1>1, <2>3, <2>4, <2>5
<1>6. {images, handedOver, cancel, failed}' \subseteq BOOLEAN
  <2>1. images' = FALSE /\ handedOver' = handedOver /\ cancel' = cancel
        /\ (failed' = failed \/ failed' = TRUE)
    BY DEF CallTools
  <2> QED BY <2>1 DEF TInv, Shape
<1>7. turns' = turns /\ folds' = folds /\ iter' = iter
  BY DEF CallTools
<1>8. priorLen' \in 0 .. Len(context') /\ Len(batch') <= MaxBatch /\ done' \in 0 .. Len(batch')
  BY <1>1, <1>4, BoundsAssumption DEF TInv, Shape
<1>9. Shape'
  BY <1>1, <1>2, <1>4, <1>5, <1>6, <1>7, <1>8 DEF TInv, Shape
<1>10. InCycle'
  BY <1>1, <1>5, <1>7 DEF TInv, InCycle
<1>11. OpenBatch'
  <2>0. priorLen \in 0 .. Len(context)
    BY DEF TInv, Shape
  <2>1. Opened' = Len(context) + 1 /\ Opened' > priorLen' /\ batch' # <<>>
    BY <1>1, <1>4, <2>0 DEF Opened
  <2>2. context'[Opened'] = Entry("assistant", {batch[k] : k \in DOMAIN batch})'
    BY <1>1, <1>3, <1>4, <2>1 DEF Entry
  <2>3. \A k \in 1 .. done' : FALSE
    BY <1>1
  <2> QED BY <2>1, <2>2, <2>3 DEF OpenBatch
<1> QED BY <1>9, <1>10, <1>11 DEF TInv

\* A tool's result stands right behind the batch's results so far.
LEMMA ToolShape ==
    ASSUME TInv, ToolRuns
    PROVE  /\ Entry("result", {batch[done + 1]}) \in Entries /\ done + 1 \in DOMAIN batch
           /\ context' = Append(context, Entry("result", {batch[done + 1]}))
           /\ UNCHANGED <<journal, priorLen, format, batch, calls>>
           /\ done' = done + 1 /\ pc = "tool" /\ pc' = "batch" /\ Opened' = Opened
<1>1. /\ context' = Append(context, Entry("result", {batch[done + 1]}))
      /\ UNCHANGED <<journal, priorLen, format, batch, calls>>
      /\ done' = done + 1 /\ pc = "tool" /\ pc' = "batch"
  BY DEF ToolRuns, countVars
<1>2. done + 1 \in DOMAIN batch /\ batch \in Seq(Nat \X Nat)
  BY <1>1 DEF TInv, Shape, InCycle
<1>3. {batch[done + 1]} \in SUBSET (Nat \X Nat)
  BY <1>2
<1>4. Entry("result", {batch[done + 1]}) \in Entries
  BY <1>3, EntryType DEF TInv, Shape
<1>5. Opened' = Opened
  BY <1>1, <1>4 DEF Opened, TInv, Shape
<1> QED BY <1>1, <1>2, <1>4, <1>5

LEMMA ToolKeepsT ==
    ASSUME TInv, ToolRuns, {images', handedOver'} \subseteq BOOLEAN
    PROVE  TInv'
<1>1. /\ Entry("result", {batch[done + 1]}) \in Entries /\ done + 1 \in DOMAIN batch
      /\ context' = Append(context, Entry("result", {batch[done + 1]}))
      /\ UNCHANGED <<journal, priorLen, format, batch, calls>>
      /\ done' = done + 1 /\ pc = "tool" /\ pc' = "batch" /\ Opened' = Opened
  BY ToolShape
<1>2. UNCHANGED <<turns, folds, iter, empties, cancel, failed>>
  BY DEF ToolRuns, countVars
<1>3. PICK e \in Entries : e = Entry("result", {batch[done + 1]})
  BY <1>1
<1>4. /\ context' \in Seq(Entries) /\ Len(context') = Len(context) + 1
      /\ Len(context) \in Nat /\ context'[Len(context) + 1] = e
      /\ \A k \in 1 .. Len(context) : context'[k] = context[k]
  <2>1. context \in Seq(Entries) /\ context' = Append(context, e)
    BY <1>1, <1>3 DEF TInv, Shape
  <2> QED BY <2>1
<1>a. /\ priorLen' \in 0 .. Len(context') /\ done' \in 0 .. Len(batch')
      /\ Opened + done = Len(context) /\ done \in Nat /\ Opened \in Int
  <2>1. priorLen \in 0 .. Len(context) /\ done \in Nat /\ Len(batch) \in Nat
        /\ done + 1 \in 1 .. Len(batch)
    <3>1. priorLen \in 0 .. Len(context) /\ done \in 0 .. Len(batch)
          /\ batch \in Seq(Nat \X Nat)
      BY DEF TInv, Shape
    <3>2. DOMAIN batch = 1 .. Len(batch) /\ Len(batch) \in Nat
      BY <3>1
    <3> QED BY <1>1, <3>1, <3>2
  <2> QED BY <1>1, <1>4, <2>1 DEF Opened
<1>5. Shape'
  BY <1>1, <1>2, <1>4, <1>a DEF TInv, Shape
<1>6. InCycle'
  BY <1>1, <1>2 DEF TInv, InCycle
<1>7. OpenBatch'
  <2>0. Opened > priorLen /\ priorLen \in Nat
    BY <1>1 DEF TInv, Shape, OpenBatch
  <2>1. /\ batch # <<>> /\ Opened > priorLen /\ Opened \in 1 .. Len(context)
        /\ context[Opened] = Entry("assistant", {batch[k] : k \in DOMAIN batch})
        /\ \A k \in 1 .. done : context[Opened + k] = Entry("result", {batch[k]})
    BY <1>1, <1>4, <1>a, <2>0 DEF TInv, OpenBatch
  <2>2. context'[Opened] = context[Opened]
    BY <1>4, <2>1
  <2>3. \A k \in 1 .. done : context'[Opened + k] = context[Opened + k]
    BY <1>4, <1>a, <2>1
  <2>4. context'[Opened + (done + 1)] = e
    BY <1>4, <1>a
  <2>5. \A k \in 1 .. done + 1 : k \in 1 .. done \/ k = done + 1
    BY <1>a
  <2>6. \A k \in 1 .. done' : context'[Opened' + k] = Entry("result", {batch[k]})
    BY <1>1, <1>3, <2>1, <2>3, <2>4, <2>5
  <2> QED BY <1>1, <2>1, <2>2, <2>6 DEF OpenBatch, Entry
<1> QED BY <1>5, <1>6, <1>7 DEF TInv

\* The cut of a batch takes a tail of the transcript, from a response on.
LEMMA CutShape ==
    ASSUME TInv, CutBatch
    PROVE  /\ pc = "cut" /\ pc' = "drain"
           /\ UNCHANGED <<countVars, journal, format, batchVars, loopVars, cancel, failed>>
           /\ \/ LastCalls = {} /\ UNCHANGED <<context, priorLen>>
              \/ \E m \in 0 .. Len(context) - 1 :
                    /\ m + 1 \in LastCalls
                    /\ context' \in Seq(Entries) /\ Len(context') = m
                    /\ \A k \in 1 .. m : context'[k] = context[k]
                    /\ priorLen' = IF priorLen < m THEN priorLen ELSE m
<1>1. pc = "cut" /\ pc' = "drain"
      /\ UNCHANGED <<countVars, journal, format, batchVars, loopVars, cancel, failed>>
  BY DEF CutBatch
<1>2. CASE LastCalls = {}
  BY <1>1, <1>2 DEF CutBatch
<1>3. CASE LastCalls # {}
  <2>1. PICK i \in LastCalls : /\ context' = SubSeq(context, 1, i - 1)
                               /\ priorLen' = IF priorLen < i - 1 THEN priorLen ELSE i - 1
    BY <1>3 DEF CutBatch
  <2>2. context \in Seq(Entries)
    BY DEF TInv, Shape
  <2>3. i \in 1 .. Len(context) /\ Len(context) \in Nat
    BY <2>2 DEF LastCalls
  <2>4. PICK m \in 0 .. Len(context) - 1 : m = i - 1
    BY <2>3
  <2>5. context' = SubSeq(context, 1, m) /\ m + 1 = i
    BY <2>1, <2>3, <2>4
  <2>6. /\ context' \in Seq(Entries) /\ Len(context') = m
        /\ \A k \in 1 .. m : context'[k] = context[k]
    BY <2>2, <2>3, <2>5
  <2> QED BY <1>1, <2>1, <2>4, <2>5, <2>6
<1> QED BY <1>2, <1>3

LEMMA CutKeepsT == ASSUME TInv, CutBatch PROVE TInv'
<1>1. /\ pc = "cut" /\ pc' = "drain"
      /\ UNCHANGED <<countVars, journal, format, batchVars, loopVars, cancel, failed>>
  BY CutShape
<1>2. context' \in Seq(Entries) /\ priorLen' \in 0 .. Len(context')
  <2>1. priorLen \in 0 .. Len(context) /\ context \in Seq(Entries)
    BY DEF TInv, Shape
  <2>2. CASE UNCHANGED <<context, priorLen>>
    BY <2>1, <2>2
  <2>3. ASSUME NEW m \in 0 .. Len(context) - 1, context' \in Seq(Entries), Len(context') = m,
               priorLen' = IF priorLen < m THEN priorLen ELSE m
        PROVE  context' \in Seq(Entries) /\ priorLen' \in 0 .. Len(context')
    BY <2>1, <2>3
  <2> QED BY <2>2, <2>3, CutShape
<1>3. Shape'
  BY <1>1, <1>2 DEF TInv, Shape, countVars, batchVars, loopVars
<1>4. InCycle'
  BY <1>1 DEF TInv, InCycle, loopVars
<1>5. OpenBatch'
  BY <1>1 DEF OpenBatch
<1> QED BY <1>3, <1>4, <1>5 DEF TInv

\* What of the transcript the end of a turn adds to the journal: all that is
\* not on disk yet, or, of a daemon that dies, a part of it.
LEMMA EndShape ==
    ASSUME TInv, Save \/ Crash
    PROVE  /\ pc # "idle" /\ pc' = "idle"
           /\ UNCHANGED <<countVars, context, priorLen, format, batchVars, loopVars, cancel,
                          failed>>
           /\ \/ journal' = journal
              \/ \E n \in priorLen .. Len(context) :
                    /\ journal' = journal \o SubSeq(context, priorLen + 1, n)
                    /\ pc = "save" /\ ~failed
                    /\ Crash \/ n = Len(context)
<1>0. /\ context \in Seq(Entries) /\ priorLen \in 0 .. Len(context)
      /\ Len(context) \in Nat
  BY DEF TInv, Shape
<1>1. CASE Save
  <2>1. journal' = journal \/ (journal' = journal \o Current /\ ~failed)
    BY <1>1 DEF Save
  <2>2. Current = SubSeq(context, priorLen + 1, Len(context))
    BY DEF Current
  <2>3. Len(context) \in priorLen .. Len(context)
    BY <1>0
  <2> QED BY <1>1, <2>1, <2>2, <2>3 DEF Save
<1>2. CASE Crash
  <2>1. \/ journal' = journal
        \/ /\ journal' \in {journal \o SubSeq(Current, 1, n) : n \in 0 .. Len(Current)}
           /\ pc = "save" /\ ~failed
    BY <1>2 DEF Crash
  <2>2. Len(Current) = Len(context) - priorLen /\ Current \in Seq(Entries)
    BY <1>0 DEF Current
  <2>3. ASSUME NEW n \in 0 .. Len(Current), journal' = journal \o SubSeq(Current, 1, n)
        PROVE  \E k \in priorLen .. Len(context) :
                   journal' = journal \o SubSeq(context, priorLen + 1, k)
    <3>1. priorLen + n \in priorLen .. Len(context) /\ n <= Len(context) - priorLen
      BY <1>0, <2>2
    <3>2. SubSeq(Current, 1, n) = SubSeq(context, priorLen + 1, priorLen + n)
      BY <1>0, <2>2, <3>1 DEF Current
    <3> QED BY <2>3, <3>1, <3>2
  <2> QED BY <1>2, <2>1, <2>3 DEF Crash
<1> QED BY <1>1, <1>2

LEMMA EndKeepsT == ASSUME TInv, Save \/ Crash PROVE TInv'
<1>1. /\ pc' = "idle"
      /\ UNCHANGED <<countVars, context, priorLen, format, batchVars, loopVars, cancel, failed>>
  BY EndShape
<1>0. context \in Seq(Entries) /\ priorLen \in 0 .. Len(context) /\ journal \in Seq(Entries)
  BY DEF TInv, Shape
<1>2. journal' \in Seq(Entries)
  <2>1. ASSUME NEW n \in priorLen .. Len(context),
               journal' = journal \o SubSeq(context, priorLen + 1, n)
        PROVE  journal' \in Seq(Entries)
    BY <1>0, <2>1
  <2> QED BY <1>0, <2>1, EndShape
<1>3. Shape'
  BY <1>1, <1>2 DEF TInv, Shape, countVars, batchVars, loopVars
<1>4. (InCycle /\ OpenBatch)'
  BY <1>1 DEF InCycle, OpenBatch
<1> QED BY <1>3, <1>4 DEF TInv

LEMMA NextTInv == TInv /\ [Next]_vars => TInv'
<1> SUFFICES ASSUME TInv, [Next]_vars PROVE TInv'
  OBVIOUS
<1>1. ASSUME NEW s \in Sources \cup {Nobody}, BeginTurn(s) PROVE TInv'
  BY <1>1, BeginKeepsT
<1>2. CASE LoopStep
  <2>1. ASSUME NEW s \in Sources \cup {Nobody}, Fold(s) PROVE TInv'
    BY <2>1, FoldSays, SaysKeeps
  <2>2. CASE Answer
    BY <2>2, AnswerSays, SaysKeeps, StillKeeps
  <2>3. CASE EmbeddedAsk
    BY <2>3, EmbeddedSays, SaysKeeps
  <2>4. ASSUME NEW n \in 1 .. MaxBatch, NEW empty \in BOOLEAN, CallTools(n, empty)
        PROVE  TInv'
    BY <2>4, CallKeepsT
  <2>5. CASE PlainTool
    <3>1. ToolRuns /\ {images', handedOver'} \subseteq BOOLEAN
      <4>1. images' \in {images, TRUE} /\ handedOver' \in {handedOver, TRUE}
        <5>1. images' \in IF Images THEN {images, TRUE} ELSE {images}
          BY <2>5, Zenon DEF PlainTool
        <5>2. images' \in {images, TRUE}
          BY <5>1, Zenon
        <5> QED BY <2>5, <5>2, Zenon DEF PlainTool
      <4> QED BY <2>5, <4>1 DEF PlainTool, TInv, Shape
    <3> QED BY <3>1, ToolKeepsT
  <2>6. ASSUME NEW s \in Sources, SendTool(s) PROVE TInv'
    <3>1. ToolRuns /\ {images', handedOver'} \subseteq BOOLEAN
      BY <2>6 DEF SendTool, TInv, Shape
    <3> QED BY <3>1, ToolKeepsT
  <2>7. CASE CutBatch
    BY <2>7, CutKeepsT
  <2>8. CASE DrainBatch
    BY <2>8, DrainSays, SaysKeeps, StillKeeps
  <2> QED BY <1>2, <2>1, <2>2, <2>3, <2>4, <2>5, <2>6, <2>7, <2>8, StillSteps, StillKeeps
          DEF LoopStep
<1>3. CASE EndStep
  BY <1>3, StillSteps, StillKeeps, EndKeepsT DEF EndStep
<1>4. CASE Cancel \/ Crash
  BY <1>4, StillSteps, StillKeeps, EndKeepsT
<1>5. CASE UNCHANGED vars
  BY <1>5, StillSteps, StillKeeps
<1> QED BY <1>1, <1>2, <1>3, <1>4, <1>5 DEF Next

LEMMA SpecTInv == Spec => []TInv
  BY InitTInv, NextTInv, PTL DEF Spec

-----------------------------------------------------------------------------
(* What the model answered itself, in a turn that is not cancelled.         *)

\* Every request the model answered has a send behind it that is recorded.
RealSent ==
    ~cancel => \A i \in real : \E k \in requests[i].mark + 1 .. Len(targets) :
        targets[k] = requests[i].source

\* The guard of a turn that neither died nor was cancelled leaves alone what
\* the model answered.
GuardSpares ==
    pc \in {"forward", "save"} /\ ~cancel /\ ~failed =>
        /\ \A i \in owed : i \notin real
        /\ \A k \in DOMAIN forwarded :
               \E i \in DOMAIN requests : requests[i].source = forwarded[k] /\ i \notin real

RInv == IInv /\ Marks /\ RealSent /\ GuardSpares

\* A quiet step neither takes a cancel back nor changes how a turn ended.
Calm ==
    /\ Quiet
    /\ ~cancel' => ~cancel
    /\ pc' \in {"forward", "save"} => failed' = failed

LEMMA CalmKeeps == ASSUME RInv, Calm PROVE RInv'
<1>1. IInv'
  BY QuietKeeps DEF RInv, Calm
<1>2. Marks'
  BY DEF RInv, Marks, Calm, Quiet
<1>3. RealSent'
  BY DEF RInv, RealSent, Calm, Quiet
<1>4. GuardSpares'
  <2> SUFFICES ASSUME pc' \in {"forward", "save"}, ~cancel', ~failed' PROVE GuardSpares'
    BY Zenon DEF GuardSpares
  <2>1. pc \in {"forward", "save"} /\ ~cancel /\ ~failed
    BY DEF Calm, Quiet
  <2> QED BY <2>1 DEF RInv, GuardSpares, Calm, Quiet
<1> QED BY <1>1, <1>2, <1>3, <1>4 DEF RInv

LEMMA CalmSteps ==
    ASSUME IInv,
           \/ StopAtTop \/ GoOn \/ Drained \/ CallFails \/ Answer \/ EmbeddedAsk
           \/ \E n \in 1 .. MaxBatch, empty \in BOOLEAN : CallTools(n, empty)
           \/ StartTool \/ PlainTool \/ StopBatch \/ CutBatch \/ BatchDone \/ DrainBatch
           \/ Cancel \/ Save \/ Crash
    PROVE  Calm
<1>0. Quiet
  BY LoopQuiet
<1> USE DEF Calm
<1>1. CASE StopAtTop BY <1>0, <1>1 DEF StopAtTop
<1>2. CASE GoOn BY <1>0, <1>2 DEF GoOn
<1>3. CASE Drained BY <1>0, <1>3 DEF Drained
<1>4. CASE CallFails BY <1>0, <1>4 DEF CallFails
<1>5. CASE Answer BY <1>0, <1>5 DEF Answer
<1>6. CASE EmbeddedAsk BY <1>0, <1>6 DEF EmbeddedAsk
<1>7. ASSUME NEW n \in 1 .. MaxBatch, NEW empty \in BOOLEAN, CallTools(n, empty) PROVE Calm
  BY <1>0, <1>7 DEF CallTools
<1>8. CASE StartTool BY <1>0, <1>8 DEF StartTool
<1>9. CASE PlainTool BY <1>0, <1>9 DEF PlainTool, ToolRuns
<1>10. CASE StopBatch BY <1>0, <1>10 DEF StopBatch
<1>11. CASE CutBatch BY <1>0, <1>11 DEF CutBatch
<1>12. CASE BatchDone BY <1>0, <1>12 DEF BatchDone
<1>13. CASE DrainBatch BY <1>0, <1>13 DEF DrainBatch
<1>14. CASE Cancel BY <1>0, <1>14 DEF Cancel
<1>15. CASE Save BY <1>0, <1>15 DEF Save
<1>16. CASE Crash BY <1>0, <1>16 DEF Crash
<1> QED BY <1>1, <1>2, <1>3, <1>4, <1>5, <1>6, <1>7, <1>8, <1>9, <1>10, <1>11, <1>12, <1>13,
          <1>14, <1>15, <1>16

LEMMA InitRInv == Init => RInv
<1> SUFFICES ASSUME Init PROVE RInv
  OBVIOUS
<1>1. IInv
  BY InitIInv
<1>2. requests = <<>> /\ real = {} /\ pc = "idle"
  BY DEF Init
<1> QED BY <1>1, <1>2 DEF RInv, Marks, RealSent, GuardSpares

LEMMA BeginKeepsR ==
    ASSUME NEW s \in Sources \cup {Nobody}, RInv, BeginTurn(s)
    PROVE  RInv'
<1>1. IInv'
  BY BeginKeeps DEF RInv
<1>2. requests' = Asks(s, 0) /\ targets' = <<>> /\ real' = {} /\ pc' = "top"
  BY DEF BeginTurn
<1>3. Marks'
  BY <1>2 DEF Marks, Asks
<1> QED BY <1>1, <1>2, <1>3 DEF RInv, RealSent, GuardSpares

LEMMA FoldKeepsR ==
    ASSUME NEW s \in Sources \cup {Nobody}, RInv, Fold(s)
    PROVE  RInv'
<1>1. IInv'
  BY FoldKeeps DEF RInv
<1> DEFINE more == Asks(s, Len(targets))
<1>2. /\ requests' = requests \o more /\ pc = "fold" /\ pc' = pc
      /\ UNCHANGED <<targets, real, cancel>>
  BY DEF Fold, guardVars
<1>3. /\ requests \in Seq(Request) /\ targets \in Seq(Sources) /\ real \subseteq DOMAIN requests
  BY DEF RInv, IInv, AskShape
<1>4. more \in Seq(Request) /\ \A i \in DOMAIN more : more[i].mark = Len(targets)
  <2>1. Len(targets) \in Nat
    BY <1>3
  <2>2. \A i \in DOMAIN more : more[i].mark = Len(targets)
    BY DEF Asks
  <2> QED BY <2>1, <2>2, AsksType
<1>5. /\ \A i \in DOMAIN requests : requests'[i] = requests[i]
      /\ \A i \in DOMAIN requests' :
            \/ i \in DOMAIN requests /\ requests'[i] = requests[i]
            \/ requests'[i].mark = Len(targets)
  <2> HIDE DEF more
  <2> QED BY <1>2, <1>3, <1>4
<1>6. Marks'
  <2>1. Len(targets) <= Len(targets)
    BY <1>3
  <2> QED BY <1>2, <1>5, <2>1 DEF RInv, Marks
<1>7. RealSent'
  BY <1>2, <1>3, <1>5 DEF RInv, RealSent
<1>8. GuardSpares'
  BY <1>2 DEF GuardSpares
<1> QED BY <1>1, <1>6, <1>7, <1>8 DEF RInv

\* A send stands behind every request it answers: none was marked later.
LEMMA SendKeepsR ==
    ASSUME NEW s \in Sources, RInv, SendTool(s)
    PROVE  RInv'
<1>1. IInv'
  BY SendKeeps DEF RInv
<1>2. /\ targets' = Append(targets, s) /\ real' = real \cup RequestsOf(s)
      /\ pc' = "batch" /\ UNCHANGED <<requests, cancel>>
  BY DEF SendTool, ToolRuns
<1>3. targets \in Seq(Sources) /\ requests \in Seq(Request)
  BY DEF RInv, IInv, AskShape
<1>4. /\ Len(targets') = Len(targets) + 1 /\ Len(targets) \in Nat
      /\ targets'[Len(targets) + 1] = s
      /\ \A k \in 1 .. Len(targets) : targets'[k] = targets[k]
  BY <1>2, <1>3
<1>5. \A i \in DOMAIN requests : requests[i].mark \in Nat /\ requests[i].mark <= Len(targets)
  BY <1>3, RequestFields DEF RInv, Marks
<1>6. Marks'
  BY <1>2, <1>4, <1>5 DEF Marks
<1>7. RealSent'
  <2> SUFFICES ASSUME ~cancel, NEW i \in real'
               PROVE  \E k \in requests[i].mark + 1 .. Len(targets') :
                          targets'[k] = requests[i].source
    BY <1>2 DEF RealSent
  <2>1. CASE i \in real
    <3>1. i \in DOMAIN requests
      BY <2>1 DEF RInv, IInv, AskShape
    <3>2. PICK k \in requests[i].mark + 1 .. Len(targets) : targets[k] = requests[i].source
      BY <2>1 DEF RInv, RealSent
    <3>3. k \in 1 .. Len(targets) /\ k \in requests[i].mark + 1 .. Len(targets')
      BY <1>4, <1>5, <3>1
    <3> QED BY <1>4, <3>2, <3>3
  <2>2. CASE i \in RequestsOf(s)
    <3>1. i \in DOMAIN requests /\ requests[i].source = s
      BY <2>2 DEF RequestsOf
    <3>2. Len(targets) + 1 \in requests[i].mark + 1 .. Len(targets')
      BY <1>4, <1>5, <3>1
    <3> QED BY <1>4, <3>1, <3>2
  <2> QED BY <1>2, <2>1, <2>2
<1>8. GuardSpares'
  BY <1>2 DEF GuardSpares
<1> QED BY <1>1, <1>6, <1>7, <1>8 DEF RInv

\* Only a cancel drops a tool, and with it the record of a send.
LEMMA AbortKeepsR == ASSUME RInv, AbortTool PROVE RInv'
<1>1. IInv'
  BY AbortKeeps DEF RInv
<1>2. cancel /\ cancel' = cancel /\ pc' = "cut" /\ UNCHANGED <<targets, requests>>
  BY DEF AbortTool
<1> QED BY <1>1, <1>2 DEF RInv, Marks, RealSent, GuardSpares

LEMMA GuardKeepsR == ASSUME RInv, Guard PROVE RInv'
<1>1. IInv'
  BY GuardKeeps DEF RInv
<1>2. /\ pc = "guard" /\ owed' = Unanswered
      /\ UNCHANGED <<targets, requests, real, forwarded, failed, cancel>>
  BY DEF Guard, askVars
<1>3. (Marks /\ RealSent)'
  BY <1>2 DEF RInv, Marks, RealSent
<1>4. GuardSpares'
  <2> SUFFICES ASSUME ~cancel, ~failed PROVE GuardSpares'
    BY <1>2, Zenon DEF GuardSpares
  <2>1. forwarded = <<>>
    BY <1>2 DEF RInv, IInv, NotYet
  <2>2. \A i \in real : Answered(i)
    BY DEF RInv, RealSent, Answered, SentTo
  <2>3. \A i \in Unanswered : i \notin real
    BY <2>2 DEF Unanswered
  <2> QED BY <1>2, <2>1, <2>3 DEF GuardSpares
<1> QED BY <1>1, <1>3, <1>4 DEF RInv

LEMMA ForwardKeepsR == ASSUME RInv, Forward PROVE RInv'
<1>1. IInv'
  BY ForwardKeeps DEF RInv
<1>2. PICK i \in owed : owed' = owed \ {i} /\ forwarded' = Append(forwarded, requests[i].source)
  BY DEF Forward
<1>3. pc = "forward" /\ pc' = pc /\ UNCHANGED <<targets, requests, real, failed, cancel>>
  BY DEF Forward, askVars
<1>4. (Marks /\ RealSent)'
  BY <1>3 DEF RInv, Marks, RealSent
<1>5. GuardSpares'
  <2> SUFFICES ASSUME ~cancel, ~failed PROVE GuardSpares'
    BY <1>3, Zenon DEF GuardSpares
  <2>1. forwarded \in Seq(Sources) /\ owed \subseteq DOMAIN requests
    BY DEF RInv, IInv, AskShape
  <2>2. \A k \in DOMAIN forwarded' :
            (k \in DOMAIN forwarded /\ forwarded'[k] = forwarded[k])
            \/ forwarded'[k] = requests[i].source
    BY <1>2, <2>1
  <2>3. /\ \A j \in owed : j \notin real
        /\ \A k \in DOMAIN forwarded :
              \E j \in DOMAIN requests : requests[j].source = forwarded[k] /\ j \notin real
    BY <1>3 DEF RInv, GuardSpares
  <2> QED BY <1>2, <1>3, <2>1, <2>2, <2>3 DEF GuardSpares
<1> QED BY <1>1, <1>4, <1>5 DEF RInv

LEMMA GuardDoneKeepsR == ASSUME RInv, GuardDone PROVE RInv'
<1>1. IInv'
  BY GuardDoneKeeps DEF RInv
<1>2. /\ pc = "forward"
      /\ UNCHANGED <<targets, requests, real, owed, forwarded, failed, cancel>>
  BY DEF GuardDone, askVars, guardVars
<1> QED BY <1>1, <1>2 DEF RInv, Marks, RealSent, GuardSpares

LEMMA NextRInv == RInv /\ [Next]_vars => RInv'
<1> SUFFICES ASSUME RInv, [Next]_vars PROVE RInv'
  OBVIOUS
<1>0. IInv
  BY DEF RInv
<1>1. ASSUME NEW s \in Sources \cup {Nobody}, BeginTurn(s) PROVE RInv'
  BY <1>1, BeginKeepsR
<1>2. CASE LoopStep
  <2>1. ASSUME NEW s \in Sources \cup {Nobody}, Fold(s) PROVE RInv'
    BY <2>1, FoldKeepsR
  <2>2. ASSUME NEW s \in Sources, SendTool(s) PROVE RInv'
    BY <2>2, SendKeepsR
  <2>3. CASE AbortTool
    BY <2>3, AbortKeepsR
  <2> QED BY <1>0, <1>2, <2>1, <2>2, <2>3, CalmSteps, CalmKeeps DEF LoopStep
<1>3. CASE EndStep
  BY <1>0, <1>3, GuardKeepsR, ForwardKeepsR, GuardDoneKeepsR, CalmSteps, CalmKeeps DEF EndStep
<1>4. CASE Cancel \/ Crash
  BY <1>0, <1>4, CalmSteps, CalmKeeps
<1>5. CASE UNCHANGED vars
  <2>1. Calm
    BY <1>0, <1>5 DEF vars, Calm, Quiet, askVars, guardVars, IInv, AskShape
  <2> QED BY <2>1, CalmKeeps
<1> QED BY <1>1, <1>2, <1>3, <1>4, <1>5 DEF Next

LEMMA SpecRInv == Spec => []RInv
  BY InitRInv, NextRInv, PTL DEF Spec

\* Every variable has its type; in particular the guard owes only requests the
\* turn has, and a request's mark is one of the turn's sends.
THEOREM TypesHold == Spec => []TypeOK
<1>1. TInv /\ RInv => TypeOK
  <2> SUFFICES ASSUME TInv, RInv PROVE TypeOK
    OBVIOUS
  <2>1. \A s \in {journal, context} : \A i \in DOMAIN s : s[i] \in Entries
    BY DEF TInv, Shape
  <2>2. /\ \A k \in DOMAIN targets : targets[k] \in Sources
        /\ \A k \in DOMAIN forwarded : forwarded[k] \in Sources
        /\ owed \subseteq DOMAIN requests /\ real \subseteq DOMAIN requests
    BY DEF RInv, IInv, AskShape
  <2>3. \A i \in DOMAIN requests : /\ requests[i].source \in Sources
                                   /\ requests[i].mark \in 0 .. Len(targets)
    <3>1. targets \in Seq(Sources) /\ requests \in Seq(Request)
      BY DEF RInv, IInv, AskShape
    <3> QED BY <3>1, RequestFields DEF RInv, Marks
  <2> QED BY <2>1, <2>2, <2>3 DEF TypeOK, TInv, Shape
<1> QED BY <1>1, SpecTInv, SpecRInv, PTL

\* forward_unanswered_replies, "nothing is forwarded on top of that": a turn
\* that neither died nor was cancelled forwards only to topics with a request
\* that the model left unanswered.
THEOREM NeverTwiceAnswered == Spec => []NoSecondAnswerUncancelled
<1>1. RInv => NoSecondAnswerUncancelled
  BY DEF RInv, GuardSpares, NoSecondAnswerUncancelled, NoSecondAnswer
<1> QED BY <1>1, SpecRInv, PTL

-----------------------------------------------------------------------------
(* What a step does to the transcript, for the invariants about it.         *)

\* Nothing but, possibly, entries at its end.
Extends ==
    /\ UNCHANGED <<journal, priorLen>>
    /\ Len(context') >= Len(context)
    /\ \A k \in 1 .. Len(context) : context'[k] = context[k]

LEMMA SaysExtends == ASSUME TInv, NEW t, Says(t) PROVE Extends
  BY DEF TInv, Shape, Says, Extends

LEMMA StillExtends == ASSUME TInv, Still PROVE Extends
  BY DEF TInv, Shape, Still, Extends

LEMMA CallExtends ==
    ASSUME TInv, NEW n \in 1 .. MaxBatch, NEW empty \in BOOLEAN, CallTools(n, empty)
    PROVE  Extends
<1>1. PICK e \in Entries : context' = Append(context, e)
  BY CallShape
<1>2. context \in Seq(Entries) /\ UNCHANGED <<journal, priorLen>>
  BY CallShape DEF TInv, Shape
<1> QED BY <1>1, <1>2 DEF Extends

LEMMA ToolExtends == ASSUME TInv, ToolRuns PROVE Extends
<1>1. PICK e \in Entries : context' = Append(context, e)
  BY ToolShape
<1>2. context \in Seq(Entries) /\ UNCHANGED <<journal, priorLen>>
  BY ToolShape DEF TInv, Shape
<1> QED BY <1>1, <1>2 DEF Extends

\* The steps of a turn that only extend its transcript: all but its begin, its
\* end and the cut of a batch.
LEMMA ExtendSteps ==
    ASSUME TInv, [Next]_vars,
           \A s \in Sources \cup {Nobody} : ~BeginTurn(s), ~CutBatch, ~Save, ~Crash
    PROVE  Extends
<1>1. CASE LoopStep
  <2>1. ASSUME NEW s \in Sources \cup {Nobody}, Fold(s) PROVE Extends
    BY <2>1, FoldSays, SaysExtends
  <2>2. CASE Answer
    BY <2>2, AnswerSays, SaysExtends, StillExtends
  <2>3. CASE EmbeddedAsk
    BY <2>3, EmbeddedSays, SaysExtends
  <2>4. ASSUME NEW n \in 1 .. MaxBatch, NEW empty \in BOOLEAN, CallTools(n, empty)
        PROVE  Extends
    BY <2>4, CallExtends
  <2>5. CASE PlainTool
    BY <2>5, ToolExtends DEF PlainTool
  <2>6. ASSUME NEW s \in Sources, SendTool(s) PROVE Extends
    BY <2>6, ToolExtends DEF SendTool
  <2>8. CASE DrainBatch
    BY <2>8, DrainSays, SaysExtends, StillExtends
  <2> QED BY <1>1, <2>1, <2>2, <2>3, <2>4, <2>5, <2>6, <2>8, StillSteps, StillExtends
          DEF LoopStep
<1>2. CASE EndStep
  BY <1>2, StillSteps, StillExtends DEF EndStep
<1>3. CASE Cancel \/ UNCHANGED vars
  BY <1>3, StillSteps, StillExtends
<1> QED BY <1>1, <1>2, <1>3 DEF Next

-----------------------------------------------------------------------------
(* The turn's transcript starts with what was read from the journal.        *)

\* It is the format of the chat models that finds the batch to cut.
PInv ==
    pc # "idle" => priorLen = Len(Prior) /\ \A k \in 1 .. priorLen : context[k] = Prior[k]

\* The journal that was read decides what was read from it.
LEMMA SamePrior == ASSUME journal' = journal PROVE Prior' = Prior
  BY DEF Prior, Repaired, KeptOf, Dropped, Dangling, Answers

\* Nothing is read from nothing.
LEMMA EmptyRepaired == Repaired(<<>>) = <<>>
<1> DEFINE s == <<>>
<1>1. s \in Seq(Entries) /\ Len(s) = 0
  OBVIOUS
<1>2. \A i \in DOMAIN s : ~Dangling(s, i)
  BY <1>1
<1> HIDE DEF s
<1>3. Repaired(s) = s
  BY <1>1, <1>2, RepairedWhole
<1> QED BY <1>3 DEF s

\* In the chat format the last response with calls is the one whose tools run.
LEMMA CutsOpened ==
    ASSUME TInv, Formats = {"chat"}, pc = "cut"
    PROVE  LastCalls = {Opened} /\ Opened > priorLen
<1>1. /\ batch # <<>> /\ Opened > priorLen /\ format = "chat"
      /\ context[Opened] = Entry("assistant", {batch[k] : k \in DOMAIN batch})
      /\ \A k \in 1 .. done : context[Opened + k] = Entry("result", {batch[k]})
  BY DEF TInv, Shape, OpenBatch
<1>2. /\ Len(context) \in Nat /\ done \in Nat /\ priorLen \in Nat
      /\ DOMAIN context = 1 .. Len(context) /\ batch \in Seq(Nat \X Nat)
  BY DEF TInv, Shape
<1>3. Opened \in 1 .. Len(context) /\ Opened + done = Len(context)
  BY <1>1, <1>2 DEF Opened
<1>4. /\ context[Opened].role = "assistant" /\ context[Opened].ids # {}
      /\ context[Opened].form = "chat"
  <2>1. batch[1] \in {batch[k] : k \in DOMAIN batch}
    BY <1>1, <1>2
  <2>2. context[Opened].ids = {batch[k] : k \in DOMAIN batch}
    BY <1>1 DEF Entry
  <2>3. context[Opened].ids # {}
    BY <2>1, <2>2
  <2> QED BY <1>1, <2>3 DEF Entry
<1>5. ASSUME NEW i \in Opened + 1 .. Len(context) PROVE context[i].role = "result"
  <2>1. PICK k \in 1 .. done : i = Opened + k
    <3>1. i - Opened \in 1 .. done /\ i = Opened + (i - Opened)
      BY <1>2, <1>3
    <3> QED BY <3>1
  <2>2. context[i] = Entry("result", {batch[k]})
    BY <1>1, <2>1
  <2> QED BY <2>2 DEF Entry
<1>6. ASSUME NEW i \in LastCalls PROVE i = Opened
  <2>1. i \in 1 .. Len(context) /\ context[i].role = "assistant"
    BY <1>2 DEF LastCalls
  <2>2. ~(i < Opened)
    <3>1. i < Opened => Opened \in i + 1 .. Len(context)
      BY <1>2, <1>3, <2>1
    <3> QED BY <1>4, <3>1 DEF LastCalls
  <2>3. ~(i > Opened)
    <3>1. i > Opened => i \in Opened + 1 .. Len(context)
      BY <1>2, <1>3, <2>1
    <3> QED BY <1>5, <2>1, <3>1
  <2> QED BY <1>3, <2>1, <2>2, <2>3
<1>7. Opened \in LastCalls
  BY <1>2, <1>3, <1>4, <1>5 DEF LastCalls
<1> QED BY <1>1, <1>6, <1>7

LEMMA BeginKeepsP ==
    ASSUME NEW s \in Sources \cup {Nobody}, TInv, BeginTurn(s)
    PROVE  PInv'
<1>1. PICK f \in Formats : context' = Append(Prior, User(f))
  BY DEF BeginTurn
<1>2. Prior \in Seq(Entries) /\ User(f) \in Entries
  BY PriorType, FormatsAssumption DEF TInv, Shape, User, Entries
<1>3. priorLen' = Len(Prior) /\ \A k \in 1 .. priorLen' : context'[k] = Prior[k]
  BY <1>1, <1>2 DEF BeginTurn
<1>4. Prior' = Prior
  <2>1. CASE journal' = journal
    BY <2>1, SamePrior
  <2>2. CASE journal' # journal
    <3>1. Prior = <<>> /\ journal' = <<>>
      BY <2>2 DEF BeginTurn
    <3>2. Prior' = <<>>
      BY <3>1, EmptyRepaired DEF Prior
    <3> QED BY <3>1, <3>2
  <2> QED BY <2>1, <2>2
<1> QED BY <1>3, <1>4 DEF PInv

LEMMA ExtendKeepsP == ASSUME TInv, PInv, Extends, pc # "idle" PROVE PInv'
<1>1. Prior' = Prior
  BY SamePrior DEF Extends
<1>2. priorLen \in 0 .. Len(context) /\ Len(context) \in Nat
  BY DEF TInv, Shape
<1> QED BY <1>1, <1>2 DEF PInv, Extends

LEMMA CutKeepsP == ASSUME Formats = {"chat"}, TInv, PInv, CutBatch PROVE PInv'
<1>1. Prior' = Prior
  <2>1. journal' = journal
    BY CutShape
  <2> QED BY <2>1, SamePrior
<1>2. pc = "cut"
  BY CutShape
<1>3. CASE UNCHANGED <<context, priorLen>>
  BY <1>1, <1>2, <1>3 DEF PInv
<1>4. ASSUME NEW m \in 0 .. Len(context) - 1, m + 1 \in LastCalls,
             \A k \in 1 .. m : context'[k] = context[k],
             priorLen' = IF priorLen < m THEN priorLen ELSE m
      PROVE  PInv'
  <2>1. m + 1 > priorLen /\ priorLen \in Nat /\ m \in Nat
    BY <1>2, <1>4, CutsOpened DEF TInv, Shape
  <2>2. priorLen' = priorLen /\ priorLen <= m
    BY <1>4, <2>1
  <2> QED BY <1>1, <1>2, <1>4, <2>1, <2>2 DEF PInv
<1> QED BY <1>3, <1>4, CutShape

\* No step but the first takes the loop out of idleness.
LEMMA IdleStays ==
    ASSUME [Next]_vars, \A s \in Sources \cup {Nobody} : ~BeginTurn(s), pc = "idle"
    PROVE  pc' = "idle"
<1>1. ~LoopStep
  BY DEF LoopStep, StopAtTop, GoOn, Fold, Drained, CallFails, Answer, EmbeddedAsk, CallTools,
         CallReturns, StartTool, PlainTool, SendTool, ToolRuns, AbortTool, StopBatch, CutBatch,
         BatchDone, DrainBatch
<1>2. ~EndStep /\ ~Cancel /\ ~Crash
  BY DEF EndStep, Guard, Forward, GuardDone, Save, Cancel, Crash
<1> QED BY <1>1, <1>2 DEF Next, vars

LEMMA NextPInv == Formats = {"chat"} => (TInv /\ PInv /\ [Next]_vars => PInv')
<1> SUFFICES ASSUME Formats = {"chat"}, TInv, PInv, [Next]_vars PROVE PInv'
  OBVIOUS
<1>1. ASSUME NEW s \in Sources \cup {Nobody}, BeginTurn(s) PROVE PInv'
  BY <1>1, BeginKeepsP
<1>2. CASE CutBatch
  BY <1>2, CutKeepsP
<1>3. CASE Save \/ Crash
  BY <1>3, EndShape DEF PInv
<1>4. CASE pc' = "idle"
  BY <1>4 DEF PInv
<1> QED BY <1>1, <1>2, <1>3, <1>4, IdleStays, ExtendSteps, ExtendKeepsP

\* The cut "never reaches into the persisted prefix": of models of the chat
\* format, the turn's transcript starts with what was read from the journal, so
\* that the append neither repeats a message nor loses one.
THEOREM PriorStays == Formats = {"chat"} => (Spec => []PriorKept)
<1> SUFFICES ASSUME Formats = {"chat"} PROVE Spec => []PriorKept
  OBVIOUS
<1>1. Init => PInv
  BY DEF Init, PInv
<1>2. TInv /\ PInv /\ [Next]_vars => PInv'
  BY NextPInv
<1>3. TInv /\ PInv => PriorKept
  <2> SUFFICES ASSUME TInv, PInv, pc # "idle"
               PROVE  priorLen = Len(Prior) /\ SubSeq(context, 1, priorLen) = Prior
    BY DEF PriorKept
  <2>1. context \in Seq(Entries) /\ priorLen \in 0 .. Len(context) /\ Prior \in Seq(Entries)
    BY PriorType DEF TInv, Shape
  <2>2. priorLen = Len(Prior) /\ \A k \in 1 .. priorLen : context[k] = Prior[k]
    BY DEF PInv
  <2>3. /\ SubSeq(context, 1, priorLen) \in Seq(Entries)
        /\ Len(SubSeq(context, 1, priorLen)) = Len(Prior)
        /\ \A k \in 1 .. Len(Prior) : SubSeq(context, 1, priorLen)[k] = Prior[k]
    BY <2>1, <2>2
  <2> QED BY <2>1, <2>2, <2>3, SeqEqual
<1> QED BY <1>1, <1>2, <1>3, SpecTInv, PTL DEF Spec

-----------------------------------------------------------------------------
(* The journal holds no tool call without its result.                       *)

\* Every call of the first m entries has its result among them.
Paired(s, m) ==
    \A i \in 1 .. m : s[i].role = "assistant" =>
        \A id \in s[i].ids : \E j \in i + 1 .. m : Answers(s[j], id)

LEMMA PairedNone ==
    ASSUME NEW s
    PROVE  Paired(s, Len(s)) <=> \A i \in 1 .. Len(s) : ~Dangling(s, i)
  BY DEF Paired, Dangling

LEMMA PairedSame ==
    ASSUME NEW s, NEW t, NEW m \in Int, \A k \in 1 .. m : s[k] = t[k], Paired(s, m)
    PROVE  Paired(t, m)
<1> SUFFICES ASSUME NEW i \in 1 .. m, t[i].role = "assistant", NEW id \in t[i].ids
             PROVE  \E j \in i + 1 .. m : Answers(t[j], id)
  BY DEF Paired
<1>1. s[i] = t[i]
  OBVIOUS
<1>2. PICK j \in i + 1 .. m : Answers(s[j], id)
  BY <1>1 DEF Paired
<1>3. j \in 1 .. m
  OBVIOUS
<1> QED BY <1>2, <1>3

\* Entries that make no call leave none open.
Silent(e) == e.role = "assistant" => e.ids = {}

LEMMA PairedMore ==
    ASSUME NEW s, NEW m \in Nat, NEW n \in Nat, m <= n, Paired(s, m),
           \A i \in m + 1 .. n : Silent(s[i])
    PROVE  Paired(s, n)
<1> SUFFICES ASSUME NEW i \in 1 .. n, s[i].role = "assistant", NEW id \in s[i].ids
             PROVE  \E j \in i + 1 .. n : Answers(s[j], id)
  BY DEF Paired
<1>1. i \in 1 .. m \/ i \in m + 1 .. n
  OBVIOUS
<1>2. i \in 1 .. m
  BY <1>1 DEF Silent
<1>3. PICK j \in i + 1 .. m : Answers(s[j], id)
  BY <1>2 DEF Paired
<1> QED BY <1>3

LEMMA PairedTail ==
    ASSUME NEW E, NEW s \in Seq(E), NEW p \in 0 .. Len(s), Paired(s, Len(s))
    PROVE  LET t == SubSeq(s, p + 1, Len(s)) IN Paired(t, Len(t))
<1> DEFINE t == SubSeq(s, p + 1, Len(s))
<1>1. Len(t) = Len(s) - p /\ \A k \in 1 .. Len(s) - p : t[k] = s[p + k]
  OBVIOUS
<1>2. p \in Nat /\ Len(s) \in Nat
  OBVIOUS
<1> HIDE DEF t
<1>3. ASSUME NEW i \in 1 .. Len(t), t[i].role = "assistant", NEW id \in t[i].ids
      PROVE  \E j \in i + 1 .. Len(t) : Answers(t[j], id)
  <2>1. p + i \in 1 .. Len(s) /\ t[i] = s[p + i]
    BY <1>1, <1>2
  <2>2. PICK k \in p + i + 1 .. Len(s) : Answers(s[k], id)
    BY <1>3, <2>1 DEF Paired
  <2>3. k - p \in i + 1 .. Len(t) /\ k - p \in 1 .. Len(s) - p /\ p + (k - p) = k
    BY <1>1, <1>2
  <2>4. t[k - p] = s[k]
    BY <1>1, <2>3
  <2> QED BY <2>2, <2>3, <2>4
<1> QED BY <1>3 DEF Paired, t

LEMMA PairedConcat ==
    ASSUME NEW E, NEW s \in Seq(E), NEW t \in Seq(E), Paired(s, Len(s)), Paired(t, Len(t))
    PROVE  Paired(s \o t, Len(s \o t))
<1> DEFINE u == s \o t
<1>1. /\ Len(u) = Len(s) + Len(t) /\ Len(s) \in Nat /\ Len(t) \in Nat
      /\ \A k \in 1 .. Len(s) : u[k] = s[k]
      /\ \A k \in 1 .. Len(t) : u[Len(s) + k] = t[k]
  OBVIOUS
<1> HIDE DEF u
<1>2. ASSUME NEW i \in 1 .. Len(u), u[i].role = "assistant", NEW id \in u[i].ids
      PROVE  \E j \in i + 1 .. Len(u) : Answers(u[j], id)
  <2>1. CASE i <= Len(s)
    <3>1. i \in 1 .. Len(s) /\ u[i] = s[i]
      BY <1>1, <2>1
    <3>2. PICK j \in i + 1 .. Len(s) : Answers(s[j], id)
      BY <1>2, <3>1 DEF Paired
    <3>3. j \in 1 .. Len(s) /\ j \in i + 1 .. Len(u)
      BY <1>1, <3>1
    <3> QED BY <1>1, <3>2, <3>3
  <2>2. CASE i > Len(s)
    <3>1. i - Len(s) \in 1 .. Len(t) /\ Len(s) + (i - Len(s)) = i
      BY <1>1, <2>2
    <3>2. u[i] = t[i - Len(s)]
      BY <1>1, <3>1
    <3>3. PICK j \in i - Len(s) + 1 .. Len(t) : Answers(t[j], id)
      BY <1>2, <3>1, <3>2 DEF Paired
    <3>4. j \in 1 .. Len(t) /\ Len(s) + j \in i + 1 .. Len(u)
      BY <1>1, <3>1
    <3>5. u[Len(s) + j] = t[j]
      BY <1>1, <3>4
    <3> QED BY <3>3, <3>4, <3>5
  <2> QED BY <1>1, <2>1, <2>2
<1> QED BY <1>2 DEF Paired, u

\* Of a journal without open calls the turn reads all, or nothing.
LEMMA PriorWhole ==
    ASSUME journal \in Seq(Entries), Paired(journal, Len(journal))
    PROVE  (Prior = journal \/ Prior = <<>>) /\ Paired(Prior, Len(Prior))
<1>1. \A i \in DOMAIN journal : ~Dangling(journal, i)
  BY PairedNone
<1>2. Repaired(journal) = journal
  BY <1>1, RepairedWhole
<1>3. Prior = journal \/ Prior = <<>>
  BY <1>2 DEF Prior
<1>4. Paired(<<>>, Len(<<>>))
  BY DEF Paired
<1> QED BY <1>3, <1>4

InBatch == {"batch", "tool", "cut"}
AtEnd == {"guard", "forward", "save"}

\* No call is open in the journal, and in the transcript none but those of the
\* batch whose tools run, unless the turn died.
JInv ==
    /\ Paired(journal, Len(journal))
    /\ pc \in InBatch => Paired(context, Opened - 1)
    /\ pc \notin InBatch \cup {"idle"} /\ ~failed => Paired(context, Len(context))
    /\ pc \notin AtEnd \cup {"idle"} => ~failed

\* A step that neither speaks nor enters or leaves a batch.
Rests ==
    /\ UNCHANGED <<journal, context, done, failed>>
    /\ pc' \in InBatch <=> pc \in InBatch
    /\ pc' = "idle" <=> pc = "idle"
    /\ pc' \notin AtEnd => pc \notin AtEnd

LEMMA RestsKeeps == ASSUME JInv, Rests PROVE JInv'
  BY DEF JInv, Rests, Opened, InBatch, AtEnd

LEMMA RestSteps ==
    ASSUME TInv,
           \/ StopAtTop \/ GoOn \/ Drained \/ StartTool \/ AbortTool \/ StopBatch
           \/ Guard \/ Forward \/ GuardDone \/ Cancel \/ UNCHANGED vars
    PROVE  Rests
<1> USE DEF Rests, InBatch, AtEnd, textVars, batchVars
<1>1. CASE StopAtTop BY <1>1 DEF StopAtTop
<1>2. CASE GoOn BY <1>2 DEF GoOn
<1>3. CASE Drained
  <2>1. pc = "fold" /\ pc' \in {"top", "call"} /\ UNCHANGED <<textVars, batchVars, failed>>
    BY <1>3 DEF Drained
  <2> QED BY <2>1
<1>5. CASE StartTool BY <1>5 DEF StartTool
<1>6. CASE AbortTool BY <1>6 DEF AbortTool
<1>7. CASE StopBatch BY <1>7 DEF StopBatch
<1>9. CASE Guard BY <1>9 DEF Guard
<1>10. CASE Forward BY <1>10 DEF Forward
<1>11. CASE GuardDone BY <1>11 DEF GuardDone
<1>12. CASE Cancel BY <1>12 DEF Cancel
<1>13. CASE UNCHANGED vars BY <1>13 DEF vars
<1> QED BY <1>1, <1>2, <1>3, <1>5, <1>6, <1>7, <1>9, <1>10, <1>11, <1>12, <1>13

\* What the loop and its messages say makes no call.
LEMMA SaysKeepsJ ==
    ASSUME TInv, JInv, NEW t, Says(t), \A k \in DOMAIN t : Silent(t[k])
    PROVE  JInv'
<1>1. /\ context \in Seq(Entries) /\ t \in Seq(Entries) /\ context' = context \o t
      /\ UNCHANGED <<journal, failed>>
      /\ pc \in {"fold", "call", "drain"} /\ pc' \in {"top", "fold", "guard"}
  BY DEF TInv, Shape, Says
<1>2. Paired(context, Len(context)) /\ Paired(journal, Len(journal)) /\ ~failed
  BY <1>1 DEF JInv, InBatch, AtEnd
<1>3. Paired(t, Len(t))
  BY <1>1 DEF Paired, Silent
<1>4. Paired(context', Len(context'))
  BY <1>1, <1>2, <1>3, PairedConcat
<1> QED BY <1>1, <1>2, <1>4 DEF JInv, InBatch, AtEnd

LEMMA TalkKeepsJ ==
    ASSUME TInv, JInv,
           \/ \E s \in Sources \cup {Nobody} : Fold(s)
           \/ Answer \/ EmbeddedAsk \/ DrainBatch
    PROVE  JInv'
<1>1. ASSUME NEW s \in Sources \cup {Nobody}, Fold(s) PROVE JInv'
  <2>1. \A k \in DOMAIN <<User(format)>> : Silent(<<User(format)>>[k])
    BY DEF Silent, User
  <2> QED BY <1>1, <2>1, FoldSays, SaysKeepsJ
<1>2. CASE Answer
  <2>1. \A k \in DOMAIN <<Entry("assistant", {})>> : Silent(<<Entry("assistant", {})>>[k])
    BY DEF Silent, Entry
  <2>2. CASE Still
    <3>1. pc = "call" /\ pc' = "guard" /\ failed' = failed
      BY <1>2 DEF Answer, CallReturns
    <3>2. Rests
      BY <2>2, <3>1 DEF Still, Rests, InBatch, AtEnd
    <3> QED BY <3>2, RestsKeeps
  <2> QED BY <1>2, <2>1, <2>2, AnswerSays, SaysKeepsJ
<1>3. CASE EmbeddedAsk
  <2>1. \A k \in DOMAIN Asked : Silent(Asked[k])
    BY DEF Silent, Entry, Asked
  <2> QED BY <1>3, <2>1, EmbeddedSays, SaysKeepsJ
<1>4. CASE DrainBatch
  <2>1. \A k \in DOMAIN <<User(format)>> : Silent(<<User(format)>>[k])
    BY DEF Silent, User
  <2>2. CASE Still
    <3>1. pc = "drain" /\ pc' \in {"guard", "top"} /\ failed' = failed
      BY <1>4 DEF DrainBatch
    <3>2. Rests
      BY <2>2, <3>1 DEF Still, Rests, InBatch, AtEnd
    <3> QED BY <3>2, RestsKeeps
  <2> QED BY <1>4, <2>1, <2>2, DrainSays, SaysKeepsJ
<1> QED BY <1>1, <1>2, <1>3, <1>4

LEMMA FailKeepsJ == ASSUME TInv, JInv, CallFails PROVE JInv'
<1>1. pc = "call" /\ pc' = "guard" /\ UNCHANGED <<journal, context>>
  BY DEF CallFails, textVars
<1>2. Paired(context, Len(context)) /\ Paired(journal, Len(journal))
  BY <1>1 DEF JInv, InBatch, AtEnd
<1> QED BY <1>1, <1>2 DEF JInv, InBatch, AtEnd

\* A response opens a batch behind a transcript without open calls.
LEMMA CallKeepsJ ==
    ASSUME TInv, JInv, NEW n \in 1 .. MaxBatch, NEW empty \in BOOLEAN, CallTools(n, empty)
    PROVE  JInv'
<1>1. PICK e \in Entries :
        /\ context' = Append(context, e) /\ journal' = journal /\ done' = 0 /\ pc = "call"
        /\ pc' = "guard" \/ (pc' = "batch" /\ failed' = failed)
        /\ pc' = "batch" \/ (pc' = "guard" /\ failed' = TRUE)
  BY CallShape
<1>2. context \in Seq(Entries)
  BY DEF TInv, Shape
<1>3. /\ Len(context') = Len(context) + 1 /\ Len(context) \in Nat
      /\ \A k \in 1 .. Len(context) : context[k] = context'[k]
      /\ Opened' - 1 = Len(context)
  BY <1>1, <1>2 DEF Opened
<1>4. Paired(context, Len(context)) /\ Paired(journal, Len(journal)) /\ ~failed
  BY <1>1 DEF JInv, InBatch, AtEnd
<1>5. Paired(context', Len(context))
  BY <1>3, <1>4, PairedSame
<1>6. CASE pc' = "batch"
  BY <1>1, <1>3, <1>4, <1>5, <1>6 DEF JInv, InBatch, AtEnd
<1>7. CASE pc' = "guard" /\ failed' = TRUE
  BY <1>1, <1>4, <1>7 DEF JInv, InBatch, AtEnd
<1> QED BY <1>1, <1>6, <1>7

LEMMA ToolKeepsJ == ASSUME TInv, JInv, ToolRuns PROVE JInv'
<1>1. pc = "tool" /\ pc' = "batch" /\ Opened' = Opened /\ UNCHANGED <<journal, failed>>
  BY ToolShape DEF ToolRuns
<1>2. /\ Opened - 1 \in Int /\ Opened - 1 <= Len(context)
      /\ Len(context) \in Nat
  BY DEF TInv, Shape, Opened
<1>3. \A k \in 1 .. Opened - 1 : context[k] = context'[k]
  <2>1. \A k \in 1 .. Len(context) : context[k] = context'[k]
    BY ToolExtends DEF Extends
  <2> QED BY <1>2, <2>1
<1>4. Paired(context, Opened - 1) /\ Paired(journal, Len(journal)) /\ ~failed
  BY <1>1 DEF JInv, InBatch, AtEnd
<1>5. Paired(context', Opened - 1)
  BY <1>2, <1>3, <1>4, PairedSame
<1> QED BY <1>1, <1>4, <1>5 DEF JInv, InBatch, AtEnd

\* When all its tools have run a batch leaves no call open.
LEMMA DoneKeepsJ == ASSUME TInv, JInv, BatchDone PROVE JInv'
<1>1. pc = "batch" /\ pc' = "drain" /\ done = Len(batch)
      /\ UNCHANGED <<journal, context, failed>>
  BY DEF BatchDone, textVars
<1>2. /\ batch # <<>> /\ Opened > priorLen
      /\ context[Opened] = Entry("assistant", {batch[k] : k \in DOMAIN batch})
      /\ \A k \in 1 .. done : context[Opened + k] = Entry("result", {batch[k]})
  BY <1>1 DEF TInv, OpenBatch
<1>3. /\ Len(context) \in Nat /\ priorLen \in Nat /\ done \in Nat
      /\ DOMAIN batch = 1 .. done
  <2>1. batch \in Seq(Nat \X Nat) /\ priorLen \in 0 .. Len(context) /\ context \in Seq(Entries)
    BY DEF TInv, Shape
  <2> QED BY <1>1, <2>1
<1>4. Opened \in 1 .. Len(context) /\ Opened + done = Len(context) /\ Opened - 1 \in Nat
  BY <1>2, <1>3 DEF Opened
<1>5. Paired(context, Opened - 1) /\ Paired(journal, Len(journal)) /\ ~failed
  BY <1>1 DEF JInv, InBatch, AtEnd
<1>6. ASSUME NEW i \in 1 .. Len(context), context[i].role = "assistant",
             NEW id \in context[i].ids
      PROVE  \E j \in i + 1 .. Len(context) : Answers(context[j], id)
  <2>1. CASE i \in 1 .. Opened - 1
    <3>1. PICK j \in i + 1 .. Opened - 1 : Answers(context[j], id)
      BY <1>5, <1>6, <2>1 DEF Paired
    <3>2. j \in i + 1 .. Len(context)
      BY <1>3, <1>4
    <3> QED BY <3>1, <3>2
  <2>2. CASE i = Opened
    <3>1. id \in {batch[k] : k \in DOMAIN batch}
      BY <1>2, <1>6, <2>2 DEF Entry
    <3>2. PICK k \in 1 .. done : id = batch[k]
      BY <1>3, <3>1
    <3>3. context[Opened + k] = Entry("result", {batch[k]})
      BY <1>2
    <3>4. Answers(context[Opened + k], id)
      BY <3>2, <3>3 DEF Answers, Entry
    <3>5. Opened + k \in i + 1 .. Len(context)
      BY <1>3, <1>4, <2>2
    <3> QED BY <3>4, <3>5
  <2>3. CASE i \in Opened + 1 .. Len(context)
    <3>1. i - Opened \in 1 .. done /\ Opened + (i - Opened) = i
      BY <1>3, <1>4, <2>3
    <3>2. context[i] = Entry("result", {batch[i - Opened]})
      BY <1>2, <3>1
    <3> QED BY <1>6, <3>2 DEF Entry
  <2> QED BY <1>4, <2>1, <2>2, <2>3
<1>7. Paired(context, Len(context))
  BY <1>6 DEF Paired
<1> QED BY <1>1, <1>5, <1>7 DEF JInv, InBatch, AtEnd

LEMMA CutKeepsJ == ASSUME Formats = {"chat"}, TInv, JInv, CutBatch PROVE JInv'
<1>1. pc = "cut" /\ pc' = "drain" /\ UNCHANGED <<journal, failed>>
  BY CutShape
<1>2. LastCalls = {Opened} /\ Opened > priorLen
  BY <1>1, CutsOpened
<1>3. PICK m \in 0 .. Len(context) - 1 :
        m + 1 = Opened /\ Len(context') = m /\ \A k \in 1 .. m : context'[k] = context[k]
  BY <1>2, CutShape
<1>4. Paired(context, Opened - 1) /\ Paired(journal, Len(journal)) /\ ~failed
  BY <1>1 DEF JInv, InBatch, AtEnd
<1>5. m \in Int /\ m = Opened - 1
  BY <1>3
<1>6. Paired(context', m)
  BY <1>3, <1>4, <1>5, PairedSame
<1> QED BY <1>1, <1>3, <1>4, <1>6 DEF JInv, InBatch, AtEnd

LEMMA SaveKeepsJ == ASSUME TInv, JInv, Save PROVE JInv'
<1>1. pc = "save" /\ pc' = "idle" /\ UNCHANGED failed
      /\ journal' = IF failed THEN journal ELSE journal \o Current
  BY DEF Save
<1>2. Paired(journal, Len(journal)) /\ (~failed => Paired(context, Len(context)))
  BY <1>1 DEF JInv, InBatch, AtEnd
<1>3. journal \in Seq(Entries) /\ context \in Seq(Entries) /\ priorLen \in 0 .. Len(context)
  BY DEF TInv, Shape
<1>4. Paired(journal', Len(journal'))
  <2>1. CASE failed
    BY <1>1, <1>2, <2>1
  <2>2. CASE ~failed
    <3>1. Paired(Current, Len(Current)) /\ Current \in Seq(Entries)
      BY <1>2, <1>3, <2>2, PairedTail DEF Current
    <3>2. Paired(journal \o Current, Len(journal \o Current))
      BY <1>2, <1>3, <3>1, PairedConcat
    <3> QED BY <1>1, <2>2, <3>2
  <2> QED BY <2>1, <2>2
<1> QED BY <1>1, <1>4 DEF JInv, InBatch, AtEnd

LEMMA BeginKeepsJ ==
    ASSUME NEW s \in Sources \cup {Nobody}, TInv, JInv, BeginTurn(s)
    PROVE  JInv'
<1>1. PICK f \in Formats : context' = Append(Prior, User(f))
  BY DEF BeginTurn
<1>2. /\ failed' = FALSE /\ pc' = "top"
      /\ journal' = journal \/ journal' = <<>>
  BY DEF BeginTurn
<1>3. journal \in Seq(Entries) /\ Paired(journal, Len(journal))
  BY DEF TInv, Shape, JInv
<1>4. Prior \in Seq(Entries) /\ Paired(Prior, Len(Prior)) /\ User(f) \in Entries
  BY <1>3, PriorType, PriorWhole, FormatsAssumption DEF User, Entries
<1>5. Paired(journal', Len(journal'))
  <2>1. Paired(<<>>, Len(<<>>))
    BY DEF Paired
  <2> QED BY <1>2, <1>3, <2>1
<1>6. Paired(context', Len(context'))
  <2>1. Paired(<<User(f)>>, Len(<<User(f)>>))
    BY DEF Paired, User
  <2> QED BY <1>1, <1>4, <2>1, AppendOne, PairedConcat
<1> QED BY <1>2, <1>5, <1>6 DEF JInv, InBatch, AtEnd

LEMMA NextJInv == Formats = {"chat"} /\ ~Crashes => (TInv /\ JInv /\ [Next]_vars => JInv')
<1> SUFFICES ASSUME Formats = {"chat"}, ~Crashes, TInv, JInv, [Next]_vars PROVE JInv'
  OBVIOUS
<1>1. ASSUME NEW s \in Sources \cup {Nobody}, BeginTurn(s) PROVE JInv'
  BY <1>1, BeginKeepsJ
<1>2. CASE LoopStep
  <2>1. ASSUME NEW n \in 1 .. MaxBatch, NEW empty \in BOOLEAN, CallTools(n, empty)
        PROVE  JInv'
    BY <2>1, CallKeepsJ
  <2>2. ASSUME PlainTool \/ \E s \in Sources : SendTool(s) PROVE JInv'
    BY <2>2, ToolKeepsJ DEF PlainTool, SendTool
  <2> QED BY <1>2, <2>1, <2>2, RestSteps, RestsKeeps, TalkKeepsJ, FailKeepsJ, DoneKeepsJ,
             CutKeepsJ DEF LoopStep
<1>3. CASE EndStep
  BY <1>3, RestSteps, RestsKeeps, SaveKeepsJ DEF EndStep
<1>4. CASE Cancel \/ UNCHANGED vars
  BY <1>4, RestSteps, RestsKeeps
<1>5. ~Crash
  BY DEF Crash
<1> QED BY <1>1, <1>2, <1>3, <1>4, <1>5 DEF Next

\* The cut of a cancelled batch ("to prevent persisting corrupted context"): of
\* models of the chat format, and while the daemon lives, the journal holds no
\* tool call without its result.
THEOREM JournalStaysPaired == Formats = {"chat"} /\ ~Crashes => (Spec => []JournalPaired)
<1> SUFFICES ASSUME Formats = {"chat"}, ~Crashes PROVE Spec => []JournalPaired
  OBVIOUS
<1>1. Init => JInv
  <2>1. Paired(<<>>, Len(<<>>))
    BY DEF Paired
  <2> QED BY <2>1 DEF Init, JInv, InBatch, AtEnd
<1>2. TInv /\ JInv /\ [Next]_vars => JInv'
  BY NextJInv
<1>3. TInv /\ JInv => JournalPaired
  <2> SUFFICES ASSUME TInv, JInv PROVE JournalPaired
    OBVIOUS
  <2>1. DOMAIN journal = 1 .. Len(journal)
    BY DEF TInv, Shape
  <2> QED BY <2>1, PairedNone DEF JInv, JournalPaired
<1> QED BY <1>1, <1>2, <1>3, SpecTInv, PTL DEF Spec

-----------------------------------------------------------------------------
(* What a call sends is a transcript the provider accepts.                  *)

\* A result stands behind the response that made its call, with nothing but
\* results between them.
OwnedBy(s, i, j) ==
    /\ s[j].role = "assistant" /\ s[i].ids \subseteq s[j].ids
    /\ \A k \in j + 1 .. i : s[k].role = "result"
Owned(s) == \A i \in 1 .. Len(s) : s[i].role = "result" => \E j \in 1 .. i - 1 : OwnedBy(s, i, j)

\* No two responses share a call.
Disjoint(d, e) == d.role = "assistant" /\ e.role = "assistant" => d.ids \cap e.ids = {}
Distinct(s) == \A i, j \in 1 .. Len(s) : i # j => Disjoint(s[i], s[j])

\* A response is dropped with all that answers it, and kept with it.
LEMMA KeptBack ==
    ASSUME NEW s, NEW j \in Nat, NEW k \in Nat, j <= k, ~Dropped(s, k),
           \A x \in j + 1 .. k : s[x].role = "result"
    PROVE  ~Dropped(s, j)
<1> SUFFICES ASSUME NEW i \in 1 .. j, Dangling(s, i), \A x \in i + 1 .. j : s[x].role # "user"
             PROVE  FALSE
  BY DEF Dropped
<1>1. i \in 1 .. k
  OBVIOUS
<1>2. \A x \in i + 1 .. k : x \in i + 1 .. j \/ x \in j + 1 .. k
  OBVIOUS
<1>3. \A x \in i + 1 .. k : s[x].role # "user"
  BY <1>2
<1> QED BY <1>1, <1>3 DEF Dropped

LEMMA KeptOn ==
    ASSUME NEW s, NEW j \in Nat, NEW k \in Nat, j <= k, ~Dropped(s, j),
           \A x \in j + 1 .. k : s[x].role = "result"
    PROVE  ~Dropped(s, k)
<1> SUFFICES ASSUME NEW i \in 1 .. k, Dangling(s, i), \A x \in i + 1 .. k : s[x].role # "user"
             PROVE  FALSE
  BY DEF Dropped
<1>1. CASE i <= j
  <2>1. i \in 1 .. j /\ \A x \in i + 1 .. j : x \in i + 1 .. k
    BY <1>1
  <2> QED BY <2>1 DEF Dropped
<1>2. CASE i > j
  <2>1. i \in j + 1 .. k
    BY <1>2
  <2> QED BY <2>1 DEF Dangling
<1> QED BY <1>1, <1>2

LEMMA RepairedOwned ==
    ASSUME NEW s \in Seq(Entries), Owned(s)
    PROVE  Owned(Repaired(s))
<1> DEFINE r == Repaired(s)
           n == Len(r)
<1>1. PICK f : Counts(f, s)
  BY RepairedShape
<1>2. /\ f \in [1 .. n -> KeptOf(s)] /\ \A a \in 1 .. n : r[a] = s[f[a]]
      /\ \A a, b \in 1 .. n : a < b <=> f[a] < f[b]
      /\ \A k \in KeptOf(s) : \E a \in 1 .. n : f[a] = k
  BY <1>1 DEF Counts
<1>3. n \in Nat
  BY RepairedShape
<1>4. Len(s) \in Nat /\ KeptOf(s) \subseteq 1 .. Len(s) /\ \A k \in KeptOf(s) : ~Dropped(s, k)
  BY DEF KeptOf
<1> HIDE DEF n, r
<1>5. ASSUME NEW i \in 1 .. n, r[i].role = "result"
      PROVE  \E j \in 1 .. i - 1 : OwnedBy(r, i, j)
  <2>1. f[i] \in KeptOf(s) /\ f[i] \in 1 .. Len(s) /\ s[f[i]].role = "result" /\ r[i] = s[f[i]]
    BY <1>2, <1>4, <1>5
  <2>2. PICK j \in 1 .. f[i] - 1 : OwnedBy(s, f[i], j)
    BY <2>1 DEF Owned
  <2>3. j \in Nat /\ j < f[i] /\ f[i] \in Nat /\ j \in 1 .. Len(s)
    BY <1>4, <2>1
  <2>4. ~Dropped(s, j)
    BY <1>4, <2>1, <2>2, <2>3, KeptBack DEF OwnedBy
  <2>5. PICK a \in 1 .. n : f[a] = j
    BY <1>2, <2>3, <2>4 DEF KeptOf
  <2>6. a \in 1 .. i - 1 /\ r[a] = s[j]
    <3>1. a < i
      BY <1>2, <2>3, <2>5
    <3> QED BY <1>2, <1>3, <2>5, <3>1
  <2>7. ASSUME NEW k \in a + 1 .. i PROVE r[k].role = "result"
    <3>1. k \in 1 .. n /\ a < k /\ ~(i < k)
      BY <1>3, <2>6
    <3>2. f[a] < f[k] /\ ~(f[i] < f[k]) /\ f[k] \in 1 .. Len(s)
      BY <1>2, <1>4, <3>1
    <3>3. f[k] \in j + 1 .. f[i]
      BY <1>4, <2>3, <2>5, <3>2
    <3> QED BY <1>2, <2>2, <3>1, <3>3 DEF OwnedBy
  <2> QED BY <2>1, <2>2, <2>6, <2>7 DEF OwnedBy
<1> QED BY <1>5 DEF Owned, r, n

LEMMA RepairedDistinct ==
    ASSUME NEW s \in Seq(Entries), Distinct(s)
    PROVE  Distinct(Repaired(s))
<1> DEFINE r == Repaired(s)
           n == Len(r)
<1>1. PICK f : Counts(f, s)
  BY RepairedShape
<1>2. /\ f \in [1 .. n -> KeptOf(s)] /\ \A a \in 1 .. n : r[a] = s[f[a]]
      /\ \A a, b \in 1 .. n : a < b <=> f[a] < f[b]
  BY <1>1 DEF Counts
<1>3. n \in Nat
  BY RepairedShape
<1>4. Len(s) \in Nat /\ KeptOf(s) \subseteq 1 .. Len(s)
  BY DEF KeptOf
<1> HIDE DEF n, r
<1>5. ASSUME NEW i \in 1 .. n, NEW j \in 1 .. n, i # j PROVE Disjoint(r[i], r[j])
  <2>1. f[i] \in 1 .. Len(s) /\ f[j] \in 1 .. Len(s)
    BY <1>2, <1>4
  <2>2. i < j \/ j < i
    BY <1>3, <1>5
  <2>3. f[i] # f[j]
    BY <1>2, <1>4, <2>1, <2>2
  <2>4. Disjoint(s[f[i]], s[f[j]])
    BY <2>1, <2>3 DEF Distinct
  <2> QED BY <1>2, <2>4
<1> QED BY <1>5 DEF Distinct, r, n

\* The results of a response that stays are behind it, and no other's.
LEMMA RepairedAccepted ==
    ASSUME NEW s \in Seq(Entries), Owned(s), Distinct(s)
    PROVE  Accepted(Repaired(s))
<1> DEFINE r == Repaired(s)
           n == Len(r)
<1>0. Owned(r)
  BY RepairedOwned
<1>1. PICK f : Counts(f, s)
  BY RepairedShape
<1>2. /\ f \in [1 .. n -> KeptOf(s)] /\ \A a \in 1 .. n : r[a] = s[f[a]]
      /\ \A a, b \in 1 .. n : a < b <=> f[a] < f[b]
      /\ \A k \in KeptOf(s) : \E a \in 1 .. n : f[a] = k
  BY <1>1 DEF Counts
<1>3. n \in Nat
  BY RepairedShape
<1>4. Len(s) \in Nat /\ KeptOf(s) \subseteq 1 .. Len(s) /\ \A k \in KeptOf(s) : ~Dropped(s, k)
  BY DEF KeptOf
<1> HIDE DEF n, r
<1>5. ASSUME NEW i \in 1 .. n, r[i].role = "assistant", NEW id \in r[i].ids
      PROVE  \E j \in i + 1 .. n : /\ Answers(r[j], id)
                                   /\ \A k \in i + 1 .. j : r[k].role = "result"
  <2>1. /\ f[i] \in 1 .. Len(s) /\ f[i] \in Nat /\ ~Dropped(s, f[i]) /\ r[i] = s[f[i]]
    BY <1>2, <1>4
  <2>2. ~Dangling(s, f[i])
    <3>1. f[i] \in 1 .. f[i] /\ \A x \in f[i] + 1 .. f[i] : FALSE
      BY <2>1
    <3> QED BY <2>1, <3>1 DEF Dropped
  <2>3. PICK j \in f[i] + 1 .. Len(s) : Answers(s[j], id)
    BY <1>5, <2>1, <2>2 DEF Dangling
  <2>4. j \in 1 .. Len(s) /\ j \in Nat /\ f[i] < j
    BY <1>4, <2>1
  <2>5. PICK o \in 1 .. j - 1 : OwnedBy(s, j, o)
    BY <2>3, <2>4 DEF Owned, Answers
  <2>6. o = f[i]
    <3>1. o \in 1 .. Len(s) /\ id \in s[o].ids /\ s[o].role = "assistant"
      BY <1>4, <2>3, <2>4, <2>5 DEF OwnedBy, Answers
    <3>2. ~Disjoint(s[o], s[f[i]])
      BY <1>5, <2>1, <3>1 DEF Disjoint
    <3> QED BY <2>1, <3>1, <3>2 DEF Distinct
  <2>7. \A x \in f[i] + 1 .. j : s[x].role = "result"
    BY <2>5, <2>6 DEF OwnedBy
  <2>8. ~Dropped(s, j)
    BY <2>1, <2>4, <2>7, KeptOn
  <2>9. PICK b \in 1 .. n : f[b] = j
    BY <1>2, <2>4, <2>8 DEF KeptOf
  <2>10. b \in i + 1 .. n /\ r[b] = s[j]
    <3>1. i < b
      BY <1>2, <2>4, <2>9
    <3> QED BY <1>2, <1>3, <2>9, <3>1
  <2>11. ASSUME NEW k \in i + 1 .. b PROVE r[k].role = "result"
    <3>1. k \in 1 .. n /\ i < k /\ ~(b < k)
      BY <1>3, <2>10
    <3>2. f[i] < f[k] /\ ~(f[b] < f[k]) /\ f[k] \in 1 .. Len(s)
      BY <1>2, <1>4, <3>1
    <3>3. f[k] \in f[i] + 1 .. j
      BY <1>4, <2>1, <2>9, <3>2
    <3> QED BY <1>2, <2>7, <3>1, <3>3
  <2> QED BY <2>3, <2>10, <2>11
<1>6. ASSUME NEW i \in 1 .. n, r[i].role = "result"
      PROVE  \E j \in 1 .. i - 1 :
                 /\ r[j].role = "assistant" /\ r[i].ids \subseteq r[j].ids
                 /\ \A k \in j + 1 .. i : r[k].role = "result"
  BY <1>0, <1>6 DEF Owned, OwnedBy, n
<1> QED BY <1>5, <1>6 DEF Accepted, r, n

\* The calls of s were made by responses that returned.
Known(s, c) == \A i \in 1 .. Len(s) : \A id \in s[i].ids : id[1] <= c

\* The turn's own responses share no call with the journal's.
Apart ==
    pc # "idle" => \A i \in 1 .. Len(journal), k \in priorLen + 1 .. Len(context) :
        Disjoint(journal[i], context[k])

\* What the turn adds does not begin with a result.
Boundary == priorLen < Len(context) => context[priorLen + 1].role # "result"

WInv ==
    /\ Owned(journal) /\ Distinct(journal) /\ Known(journal, calls)
    /\ Owned(context) /\ Distinct(context) /\ Known(context, calls)
    /\ Apart /\ Boundary

\* A part of a transcript from its start on.
LEMMA OwnedPart ==
    ASSUME NEW s, NEW t, Len(s) \in Nat, Len(t) \in Nat, Len(t) <= Len(s), Owned(s),
           \A k \in 1 .. Len(t) : t[k] = s[k]
    PROVE  Owned(t)
<1> SUFFICES ASSUME NEW i \in 1 .. Len(t), t[i].role = "result"
             PROVE  \E j \in 1 .. i - 1 : OwnedBy(t, i, j)
  BY DEF Owned
<1>1. i \in 1 .. Len(s) /\ s[i] = t[i]
  OBVIOUS
<1>2. PICK j \in 1 .. i - 1 : OwnedBy(s, i, j)
  BY <1>1 DEF Owned
<1>3. \A k \in j .. i : k \in 1 .. Len(t)
  OBVIOUS
<1>4. s[j] = t[j] /\ \A k \in j + 1 .. i : s[k] = t[k]
  BY <1>3
<1> QED BY <1>1, <1>2, <1>4 DEF OwnedBy

LEMMA DistinctPart ==
    ASSUME NEW s, NEW t, Len(s) \in Nat, Len(t) \in Nat, Len(t) <= Len(s), Distinct(s),
           \A k \in 1 .. Len(t) : t[k] = s[k]
    PROVE  Distinct(t)
  BY DEF Distinct

\* u is s and then the entries of c from p + 1 to n.
Joins(u, s, c, p, n) ==
    /\ Len(s) \in Nat /\ Len(c) \in Nat /\ p \in Nat /\ n \in p .. Len(c)
    /\ Len(u) = Len(s) + (n - p)
    /\ \A k \in 1 .. Len(s) : u[k] = s[k]
    /\ \A k \in p + 1 .. n : u[Len(s) + (k - p)] = c[k]

LEMMA JoinShape ==
    ASSUME NEW E, NEW s \in Seq(E), NEW c \in Seq(E), NEW p \in Nat, NEW n \in p .. Len(c)
    PROVE  Joins(s \o SubSeq(c, p + 1, n), s, c, p, n)
<1> DEFINE t == SubSeq(c, p + 1, n)
           u == s \o t
<1>1. /\ t \in Seq(E) /\ Len(t) = n - p /\ Len(s) \in Nat /\ Len(c) \in Nat
      /\ \A k \in 1 .. n - p : t[k] = c[p + k]
  OBVIOUS
<1> HIDE DEF t
<1>2. /\ Len(u) = Len(s) + Len(t)
      /\ \A k \in 1 .. Len(s) : u[k] = s[k]
      /\ \A k \in 1 .. Len(t) : u[Len(s) + k] = t[k]
  <2>1. t \in Seq(E) /\ s \in Seq(E)
    BY <1>1
  <2> QED BY <2>1
<1> HIDE DEF u
<1>3. ASSUME NEW k \in p + 1 .. n PROVE u[Len(s) + (k - p)] = c[k]
  <2>1. k - p \in 1 .. n - p /\ p + (k - p) = k
    BY <1>1
  <2> QED BY <1>1, <1>2, <2>1
<1> QED BY <1>1, <1>2, <1>3 DEF Joins, u, t

\* The positions of a join.
LEMMA JoinIndex ==
    ASSUME NEW u, NEW s, NEW c, NEW p, NEW n, Joins(u, s, c, p, n), NEW i \in 1 .. Len(u)
    PROVE  \/ i \in 1 .. Len(s) /\ u[i] = s[i]
           \/ \E k \in p + 1 .. n : i = Len(s) + (k - p) /\ u[i] = c[k]
<1>1. /\ Len(s) \in Nat /\ Len(c) \in Nat /\ p \in Nat /\ n \in Nat
      /\ Len(u) = Len(s) + (n - p)
  BY DEF Joins
<1>2. CASE i <= Len(s)
  BY <1>1, <1>2 DEF Joins
<1>3. CASE i > Len(s)
  <2>1. i - Len(s) + p \in p + 1 .. n /\ i = Len(s) + ((i - Len(s) + p) - p)
    BY <1>1, <1>3
  <2> QED BY <2>1 DEF Joins
<1> QED BY <1>1, <1>2, <1>3

LEMMA OwnedJoin ==
    ASSUME NEW u, NEW s, NEW c, NEW p, NEW n, Joins(u, s, c, p, n), Owned(s), Owned(c),
           p < Len(c) => c[p + 1].role # "result"
    PROVE  Owned(u)
<1>1. /\ Len(s) \in Nat /\ Len(c) \in Nat /\ p \in Nat /\ n \in Nat /\ n <= Len(c)
      /\ Len(u) = Len(s) + (n - p)
      /\ \A k \in 1 .. Len(s) : u[k] = s[k]
      /\ \A k \in p + 1 .. n : u[Len(s) + (k - p)] = c[k]
  BY DEF Joins
<1> SUFFICES ASSUME NEW i \in 1 .. Len(u), u[i].role = "result"
             PROVE  \E j \in 1 .. i - 1 : OwnedBy(u, i, j)
  BY DEF Owned
<1>2. CASE i \in 1 .. Len(s) /\ u[i] = s[i]
  <2>1. PICK j \in 1 .. i - 1 : OwnedBy(s, i, j)
    BY <1>2 DEF Owned
  <2>2. \A k \in j .. i : k \in 1 .. Len(s)
    BY <1>1, <1>2
  <2>3. j \in 1 .. Len(s) /\ \A k \in j + 1 .. i : k \in 1 .. Len(s)
    BY <1>1, <1>2
  <2> QED BY <1>1, <1>2, <2>1, <2>3 DEF OwnedBy
<1>3. ASSUME NEW x \in p + 1 .. n, i = Len(s) + (x - p), u[i] = c[x]
      PROVE  \E j \in 1 .. i - 1 : OwnedBy(u, i, j)
  <2>1. x \in 1 .. Len(c) /\ x \in Nat
    BY <1>1
  <2>2. PICK y \in 1 .. x - 1 : OwnedBy(c, x, y)
    BY <1>3, <2>1 DEF Owned
  <2>3. y > p
    <3> SUFFICES ASSUME y <= p PROVE FALSE
      BY <1>1, <2>1
    <3>1. p + 1 \in y + 1 .. x /\ p < Len(c)
      BY <1>1, <2>1
    <3> QED BY <2>2, <3>1 DEF OwnedBy
  <2>a. PICK l \in Nat : l = Len(s)
    BY <1>1
  <2>b. /\ l \in Nat /\ p \in Nat /\ n \in Nat /\ x \in p + 1 .. n /\ y \in 1 .. x - 1
        /\ y > p /\ i = l + (x - p)
    BY <1>1, <1>3, <2>2, <2>3, <2>a
  <2>4. /\ y \in p + 1 .. n /\ Len(s) + (y - p) \in 1 .. i - 1
        /\ u[Len(s) + (y - p)] = c[y]
    <3>1. y \in p + 1 .. n /\ l + (y - p) \in 1 .. i - 1
      BY <2>b
    <3> QED BY <1>1, <2>a, <3>1
  <2>5. ASSUME NEW k \in Len(s) + (y - p) + 1 .. i PROVE u[k].role = "result"
    <3>1. /\ k - Len(s) + p \in y + 1 .. x /\ k - Len(s) + p \in p + 1 .. n
          /\ Len(s) + ((k - Len(s) + p) - p) = k
      <4>1. k \in l + (y - p) + 1 .. i
        BY <2>a
      <4>2. k - l + p \in y + 1 .. x /\ k - l + p \in p + 1 .. n /\ l + ((k - l + p) - p) = k
        BY <2>b, <4>1
      <4> QED BY <2>a, <4>2
    <3>2. u[k] = c[k - Len(s) + p]
      BY <1>1, <3>1
    <3> QED BY <2>2, <3>1, <3>2 DEF OwnedBy
  <2> QED BY <1>3, <2>2, <2>4, <2>5 DEF OwnedBy
<1> QED BY <1>2, <1>3, JoinIndex

LEMMA DistinctJoin ==
    ASSUME NEW u, NEW s, NEW c, NEW p, NEW n, Joins(u, s, c, p, n), Distinct(s), Distinct(c),
           \A i \in 1 .. Len(s), k \in p + 1 .. Len(c) : Disjoint(s[i], c[k])
    PROVE  Distinct(u)
<1>1. /\ Len(s) \in Nat /\ Len(c) \in Nat /\ p \in Nat /\ n \in Nat /\ n <= Len(c)
  BY DEF Joins
<1>2. \A i \in 1 .. Len(s), k \in p + 1 .. n : Disjoint(s[i], c[k]) /\ Disjoint(c[k], s[i])
  <2>1. \A k \in p + 1 .. n : k \in p + 1 .. Len(c)
    BY <1>1
  <2> QED BY <2>1 DEF Disjoint
<1>3. \A k, m \in p + 1 .. n : k # m => Disjoint(c[k], c[m])
  <2>1. \A k \in p + 1 .. n : k \in 1 .. Len(c)
    BY <1>1
  <2> QED BY <2>1 DEF Distinct
<1>4. \A i, j \in 1 .. Len(s) : i # j => Disjoint(s[i], s[j])
  BY DEF Distinct
<1> SUFFICES ASSUME NEW i \in 1 .. Len(u), NEW j \in 1 .. Len(u), i # j
             PROVE  Disjoint(u[i], u[j])
  BY DEF Distinct
<1>5. \/ i \in 1 .. Len(s) /\ u[i] = s[i]
      \/ \E k \in p + 1 .. n : i = Len(s) + (k - p) /\ u[i] = c[k]
  BY JoinIndex
<1>6. \/ j \in 1 .. Len(s) /\ u[j] = s[j]
      \/ \E k \in p + 1 .. n : j = Len(s) + (k - p) /\ u[j] = c[k]
  BY JoinIndex
<1> QED BY <1>2, <1>3, <1>4, <1>5, <1>6

\* A step in which somebody but a tool speaks: of calls, only fresh ones.
Speaks(e) ==
    /\ e \in Entries /\ e.role # "result" /\ context' = Append(context, e)
    /\ UNCHANGED <<journal, priorLen>> /\ pc # "idle"
    /\ calls' \in {calls, calls + 1}
    /\ \A id \in e.ids : id[1] = calls + 1 /\ calls' = calls + 1

LEMMA KnownMore ==
    ASSUME NEW s, NEW c \in Nat, NEW d \in Nat, c <= d, s \in Seq(Entries), Known(s, c)
    PROVE  Known(s, d)
<1> SUFFICES ASSUME NEW i \in 1 .. Len(s), NEW id \in s[i].ids PROVE id[1] <= d
  BY DEF Known
<1>1. s[i] \in Entries /\ id[1] <= c
  BY DEF Known
<1>2. id[1] \in Nat
  BY <1>1 DEF Entries
<1> QED BY <1>1, <1>2

LEMMA SpeaksKeeps == ASSUME TInv, WInv, NEW e, Speaks(e) PROVE WInv'
<1>1. /\ context \in Seq(Entries) /\ journal \in Seq(Entries) /\ calls \in Nat
      /\ priorLen \in 0 .. Len(context)
  BY BoundsAssumption DEF TInv, Shape
<1>2. /\ context' \in Seq(Entries) /\ Len(context') = Len(context) + 1 /\ Len(context) \in Nat
      /\ context'[Len(context) + 1] = e
      /\ \A k \in 1 .. Len(context) : context'[k] = context[k]
  BY <1>1 DEF Speaks
<1>3. calls' \in Nat /\ calls <= calls'
  BY <1>1 DEF Speaks
<1>4. Owned(journal') /\ Distinct(journal') /\ Known(journal', calls')
  BY <1>1, <1>3, KnownMore DEF WInv, Speaks
<1>5. Owned(context')
  <2> SUFFICES ASSUME NEW i \in 1 .. Len(context'), context'[i].role = "result"
               PROVE  \E j \in 1 .. i - 1 : OwnedBy(context', i, j)
    BY DEF Owned
  <2>1. i \in 1 .. Len(context) /\ context'[i] = context[i]
    BY <1>2 DEF Speaks
  <2>2. PICK j \in 1 .. i - 1 : OwnedBy(context, i, j)
    BY <2>1 DEF WInv, Owned
  <2>3. j \in 1 .. Len(context) /\ \A k \in j + 1 .. i : k \in 1 .. Len(context)
    BY <1>2, <2>1
  <2> QED BY <1>2, <2>1, <2>2, <2>3 DEF OwnedBy
<1>6. \A i \in 1 .. Len(context) : Disjoint(context[i], e) /\ Disjoint(e, context[i])
  <2> SUFFICES ASSUME NEW i \in 1 .. Len(context), NEW id \in context[i].ids, id \in e.ids
               PROVE  FALSE
    BY DEF Disjoint
  <2>1. id[1] <= calls /\ id[1] = calls + 1
    BY DEF Speaks, WInv, Known
  <2> QED BY <1>1, <2>1
<1>7. Distinct(context')
  <2> SUFFICES ASSUME NEW i \in 1 .. Len(context'), NEW j \in 1 .. Len(context'), i # j
               PROVE  Disjoint(context'[i], context'[j])
    BY DEF Distinct
  <2>1. /\ i \in 1 .. Len(context) \/ i = Len(context) + 1
        /\ j \in 1 .. Len(context) \/ j = Len(context) + 1
    BY <1>2
  <2> QED BY <1>2, <1>6, <2>1 DEF WInv, Distinct
<1>8. Known(context', calls')
  <2> SUFFICES ASSUME NEW i \in 1 .. Len(context'), NEW id \in context'[i].ids
               PROVE  id[1] <= calls'
    BY DEF Known
  <2>1. Known(context, calls')
    BY <1>1, <1>3, KnownMore DEF WInv
  <2>2. CASE i \in 1 .. Len(context)
    BY <1>2, <2>1, <2>2 DEF Known
  <2>3. CASE i = Len(context) + 1
    BY <1>1, <1>2, <2>3 DEF Speaks
  <2> QED BY <1>2, <2>2, <2>3
<1>9. Apart'
  <2> SUFFICES ASSUME NEW i \in 1 .. Len(journal), NEW k \in priorLen + 1 .. Len(context')
               PROVE  Disjoint(journal[i], context'[k])
    BY DEF Apart, Speaks
  <2>1. CASE k \in priorLen + 1 .. Len(context)
    <3>1. Disjoint(journal[i], context[k])
      BY <2>1 DEF WInv, Apart, Speaks
    <3>2. k \in 1 .. Len(context)
      BY <1>1, <2>1
    <3> QED BY <1>2, <3>1, <3>2
  <2>2. CASE k = Len(context) + 1
    <3> SUFFICES ASSUME NEW id \in journal[i].ids, id \in e.ids PROVE FALSE
      BY <1>2, <2>2 DEF Disjoint
    <3>1. id[1] <= calls /\ id[1] = calls + 1
      BY DEF Speaks, WInv, Known
    <3> QED BY <1>1, <3>1
  <2> QED BY <1>1, <1>2, <2>1, <2>2
<1>10. Boundary'
  <2> SUFFICES context'[priorLen + 1].role # "result"
    BY DEF Boundary, Speaks
  <2>1. CASE priorLen < Len(context)
    <3>1. priorLen + 1 \in 1 .. Len(context) /\ context[priorLen + 1].role # "result"
      BY <1>1, <2>1 DEF WInv, Boundary
    <3> QED BY <1>2, <3>1
  <2>2. CASE priorLen = Len(context)
    BY <1>2, <2>2 DEF Speaks
  <2> QED BY <1>1, <2>1, <2>2
<1> QED BY <1>4, <1>5, <1>7, <1>8, <1>9, <1>10 DEF WInv

\* A tool's result has its owner in the batch's response.
LEMMA ToolKeepsW == ASSUME TInv, WInv, ToolRuns PROVE WInv'
<1>1. PICK e \in Entries :
        /\ e = Entry("result", {batch[done + 1]}) /\ done + 1 \in DOMAIN batch
        /\ context' = Append(context, e)
        /\ UNCHANGED <<journal, priorLen, batch, calls>> /\ pc = "tool"
  BY ToolShape
<1>2. /\ context \in Seq(Entries) /\ calls \in Nat /\ done \in Nat
      /\ priorLen \in 0 .. Len(context)
  BY BoundsAssumption DEF TInv, Shape
<1>3. /\ Len(context') = Len(context) + 1 /\ Len(context) \in Nat
      /\ context'[Len(context) + 1] = e
      /\ \A k \in 1 .. Len(context) : context'[k] = context[k]
  BY <1>1, <1>2
<1>4. /\ Opened > priorLen
      /\ context[Opened] = Entry("assistant", {batch[k] : k \in DOMAIN batch})
      /\ \A k \in 1 .. done : context[Opened + k] = Entry("result", {batch[k]})
  BY <1>1 DEF TInv, OpenBatch
<1>5. Opened \in 1 .. Len(context) /\ Opened + done = Len(context) /\ Opened > priorLen
  BY <1>2, <1>3, <1>4 DEF Opened
<1>6. /\ e.role = "result" /\ e.ids = {batch[done + 1]}
      /\ context[Opened].role = "assistant" /\ e.ids \subseteq context[Opened].ids
  <2>1. e.role = "result" /\ e.ids = {batch[done + 1]}
    BY <1>1 DEF Entry
  <2>2. /\ context[Opened].role = "assistant"
        /\ context[Opened].ids = {batch[k] : k \in DOMAIN batch}
    BY <1>4 DEF Entry
  <2> QED BY <1>1, <2>1, <2>2
<1>7. \A k \in Opened + 1 .. Len(context) : context[k].role = "result"
  <2> SUFFICES ASSUME NEW k \in Opened + 1 .. Len(context) PROVE context[k].role = "result"
    OBVIOUS
  <2>1. k - Opened \in 1 .. done /\ Opened + (k - Opened) = k
    BY <1>2, <1>3, <1>5
  <2>2. context[k] = Entry("result", {batch[k - Opened]})
    BY <1>4, <2>1
  <2> QED BY <2>2 DEF Entry
<1>8. Owned(context')
  <2> SUFFICES ASSUME NEW i \in 1 .. Len(context'), context'[i].role = "result"
               PROVE  \E j \in 1 .. i - 1 : OwnedBy(context', i, j)
    BY DEF Owned
  <2>1. CASE i \in 1 .. Len(context)
    <3>1. PICK j \in 1 .. i - 1 : OwnedBy(context, i, j)
      BY <1>3, <2>1 DEF WInv, Owned
    <3>2. j \in 1 .. Len(context) /\ \A k \in j + 1 .. i : k \in 1 .. Len(context)
      BY <1>3, <2>1
    <3> QED BY <1>3, <2>1, <3>1, <3>2 DEF OwnedBy
  <2>2. CASE i = Len(context) + 1
    <3>1. Opened \in 1 .. i - 1 /\ context'[Opened] = context[Opened] /\ context'[i] = e
      BY <1>3, <1>5, <2>2
    <3>2. ASSUME NEW k \in Opened + 1 .. i PROVE context'[k].role = "result"
      <4>1. k = Len(context) + 1 \/ k \in Opened + 1 .. Len(context)
        BY <1>3, <1>5, <2>2
      <4>2. k \in Opened + 1 .. Len(context) => k \in 1 .. Len(context)
        BY <1>3, <1>5
      <4> QED BY <1>3, <1>6, <1>7, <4>1, <4>2
    <3> QED BY <1>6, <3>1, <3>2 DEF OwnedBy
  <2> QED BY <1>3, <2>1, <2>2
<1>9. Distinct(context')
  <2> SUFFICES ASSUME NEW i \in 1 .. Len(context'), NEW j \in 1 .. Len(context'), i # j
               PROVE  Disjoint(context'[i], context'[j])
    BY DEF Distinct
  <2>1. /\ i \in 1 .. Len(context) \/ i = Len(context) + 1
        /\ j \in 1 .. Len(context) \/ j = Len(context) + 1
    BY <1>3
  <2>2. \A d : Disjoint(e, d) /\ Disjoint(d, e)
    BY <1>6 DEF Disjoint
  <2> QED BY <1>3, <2>1, <2>2 DEF WInv, Distinct
<1>10. Known(context', calls)
  <2> SUFFICES ASSUME NEW i \in 1 .. Len(context'), NEW id \in context'[i].ids
               PROVE  id[1] <= calls
    BY DEF Known
  <2>1. CASE i \in 1 .. Len(context)
    BY <1>3, <2>1 DEF WInv, Known
  <2>2. CASE i = Len(context) + 1
    <3>1. id \in context[Opened].ids
      BY <1>3, <1>6, <2>2
    <3> QED BY <1>5, <3>1 DEF WInv, Known
  <2> QED BY <1>3, <2>1, <2>2
<1>11. Apart'
  <2> SUFFICES ASSUME NEW i \in 1 .. Len(journal), NEW k \in priorLen + 1 .. Len(context')
               PROVE  Disjoint(journal[i], context'[k])
    BY <1>1 DEF Apart
  <2>1. CASE k \in priorLen + 1 .. Len(context)
    <3>1. Disjoint(journal[i], context[k])
      BY <1>1, <2>1 DEF WInv, Apart
    <3>2. k \in 1 .. Len(context)
      BY <1>2, <2>1
    <3> QED BY <1>3, <3>1, <3>2
  <2>2. CASE k = Len(context) + 1
    BY <1>3, <1>6, <2>2 DEF Disjoint
  <2> QED BY <1>2, <1>3, <2>1, <2>2
<1>12. Boundary'
  <2>1. priorLen + 1 \in 1 .. Len(context) /\ priorLen < Len(context)
    BY <1>2, <1>5
  <2> QED BY <1>1, <1>3, <2>1 DEF WInv, Boundary
<1> QED BY <1>1, <1>8, <1>9, <1>10, <1>11, <1>12 DEF WInv

LEMMA CutKeepsW == ASSUME TInv, WInv, CutBatch PROVE WInv'
<1>1. pc = "cut" /\ pc' = "drain" /\ UNCHANGED <<journal, calls>>
  BY CutShape DEF countVars
<1>2. context \in Seq(Entries) /\ Len(context) \in Nat /\ priorLen \in 0 .. Len(context)
  BY DEF TInv, Shape
<1>3. CASE UNCHANGED <<context, priorLen>>
  BY <1>1, <1>3 DEF WInv, Apart, Boundary
<1>4. ASSUME NEW m \in 0 .. Len(context) - 1, Len(context') = m,
             \A k \in 1 .. m : context'[k] = context[k],
             priorLen' = IF priorLen < m THEN priorLen ELSE m
      PROVE  WInv'
  <2>1. m \in Nat /\ m <= Len(context) /\ Len(context') \in Nat
    BY <1>2, <1>4
  <2>2. Owned(context') /\ Distinct(context')
    BY <1>2, <1>4, <2>1, OwnedPart, DistinctPart DEF WInv
  <2>3. Known(context', calls)
    BY <1>2, <1>4, <2>1 DEF WInv, Known
  <2>4. \A k \in priorLen' + 1 .. m : k \in priorLen + 1 .. Len(context) /\ k \in 1 .. m
    BY <1>2, <1>4, <2>1
  <2>5. Apart'
    BY <1>1, <1>4, <2>4 DEF WInv, Apart
  <2>6. Boundary'
    <3> SUFFICES ASSUME priorLen' < m PROVE context'[priorLen' + 1].role # "result"
      BY <1>4 DEF Boundary
    <3>1. priorLen' = priorLen /\ priorLen + 1 \in 1 .. m /\ priorLen < Len(context)
      BY <1>2, <1>4, <2>1
    <3> QED BY <1>4, <3>1 DEF WInv, Boundary
  <2> QED BY <1>1, <2>2, <2>3, <2>5, <2>6 DEF WInv
<1> QED BY <1>3, <1>4, CutShape

\* What is appended to the journal, in whole or in part, does not begin with a
\* result: each result there is behind its response.
LEMMA EndKeepsW == ASSUME TInv, WInv, Save \/ Crash PROVE WInv'
<1>1. pc # "idle" /\ pc' = "idle" /\ UNCHANGED <<calls, context, priorLen>>
  BY EndShape DEF countVars
<1>2. /\ context \in Seq(Entries) /\ journal \in Seq(Entries) /\ priorLen \in 0 .. Len(context)
      /\ Len(context) \in Nat /\ priorLen \in Nat
  BY DEF TInv, Shape
<1>3. (Owned(context) /\ Distinct(context) /\ Known(context, calls) /\ Apart /\ Boundary)'
  BY <1>1 DEF WInv, Apart, Boundary
<1>4. CASE journal' = journal
  BY <1>1, <1>3, <1>4 DEF WInv
<1>5. ASSUME NEW n \in priorLen .. Len(context),
             journal' = journal \o SubSeq(context, priorLen + 1, n)
      PROVE  WInv'
  <2>1. Joins(journal', journal, context, priorLen, n)
    BY <1>2, <1>5, JoinShape
  <2>2. Owned(journal')
    BY <2>1, OwnedJoin DEF WInv, Boundary
  <2>3. Distinct(journal')
    BY <1>1, <2>1, DistinctJoin DEF WInv, Apart
  <2>4. Known(journal', calls)
    <3> SUFFICES ASSUME NEW i \in 1 .. Len(journal'), NEW id \in journal'[i].ids
                 PROVE  id[1] <= calls
      BY DEF Known
    <3>1. CASE i \in 1 .. Len(journal) /\ journal'[i] = journal[i]
      BY <3>1 DEF WInv, Known
    <3>2. ASSUME NEW k \in priorLen + 1 .. n, journal'[i] = context[k] PROVE id[1] <= calls
      <4>1. k \in 1 .. Len(context)
        BY <1>2
      <4> QED BY <3>2, <4>1 DEF WInv, Known
    <3> QED BY <2>1, <3>1, <3>2, JoinIndex
  <2> QED BY <1>1, <1>3, <2>2, <2>3, <2>4 DEF WInv
<1> QED BY <1>4, <1>5, EndShape

\* The repair takes calls away only with their results.
LEMMA RepairedKnown ==
    ASSUME NEW s \in Seq(Entries), NEW c, Known(s, c)
    PROVE  Known(Repaired(s), c)
<1>1. PICK f : Counts(f, s)
  BY RepairedShape
<1>2. \A a \in 1 .. Len(Repaired(s)) : f[a] \in 1 .. Len(s) /\ Repaired(s)[a] = s[f[a]]
  BY <1>1 DEF Counts, KeptOf
<1> QED BY <1>2 DEF Known

LEMMA BeginKeepsW ==
    ASSUME NEW s \in Sources \cup {Nobody}, TInv, WInv, BeginTurn(s)
    PROVE  WInv'
<1>1. PICK f \in Formats : context' = Append(Prior, User(f)) /\ priorLen' = Len(Prior)
  BY DEF BeginTurn
<1>2. calls' = calls /\ (journal' = journal \/ journal' = <<>>)
  BY DEF BeginTurn
<1>3. journal \in Seq(Entries) /\ User(f) \in Entries /\ Prior \in Seq(Entries)
  BY PriorType, FormatsAssumption DEF TInv, Shape, User, Entries
<1>4. Owned(<<>>) /\ Distinct(<<>>) /\ Known(<<>>, calls)
  BY DEF Owned, Distinct, Known
<1>5. Owned(journal') /\ Distinct(journal') /\ Known(journal', calls)
  BY <1>2, <1>4 DEF WInv
<1>6. Owned(Prior) /\ Distinct(Prior) /\ Known(Prior, calls)
  BY <1>3, <1>4, RepairedOwned, RepairedDistinct, RepairedKnown DEF WInv, Prior
<1>7. /\ Len(context') = Len(Prior) + 1 /\ Len(Prior) \in Nat
      /\ context'[Len(Prior) + 1] = User(f)
      /\ \A k \in 1 .. Len(Prior) : context'[k] = Prior[k]
  BY <1>1, <1>3
<1>8. /\ User(f).role = "user" /\ User(f).ids = {}
      /\ \A d : Disjoint(d, User(f)) /\ Disjoint(User(f), d)
  BY DEF User, Disjoint
<1>9. Owned(context')
  <2> SUFFICES ASSUME NEW i \in 1 .. Len(context'), context'[i].role = "result"
               PROVE  \E j \in 1 .. i - 1 : OwnedBy(context', i, j)
    BY DEF Owned
  <2>1. i \in 1 .. Len(Prior) /\ context'[i] = Prior[i]
    BY <1>7, <1>8
  <2>2. PICK j \in 1 .. i - 1 : OwnedBy(Prior, i, j)
    BY <1>6, <2>1 DEF Owned
  <2>3. j \in 1 .. Len(Prior) /\ \A k \in j + 1 .. i : k \in 1 .. Len(Prior)
    BY <1>7, <2>1
  <2> QED BY <1>7, <2>1, <2>2, <2>3 DEF OwnedBy
<1>10. Distinct(context')
  <2> SUFFICES ASSUME NEW i \in 1 .. Len(context'), NEW j \in 1 .. Len(context'), i # j
               PROVE  Disjoint(context'[i], context'[j])
    BY DEF Distinct
  <2>1. /\ i \in 1 .. Len(Prior) \/ i = Len(Prior) + 1
        /\ j \in 1 .. Len(Prior) \/ j = Len(Prior) + 1
    BY <1>7
  <2> QED BY <1>6, <1>7, <1>8, <2>1 DEF Distinct
<1>11. Known(context', calls)
  <2> SUFFICES ASSUME NEW i \in 1 .. Len(context'), NEW id \in context'[i].ids
               PROVE  id[1] <= calls
    BY DEF Known
  <2>1. i \in 1 .. Len(Prior) \/ i = Len(Prior) + 1
    BY <1>7
  <2> QED BY <1>6, <1>7, <1>8, <2>1 DEF Known
<1>12. \A k \in priorLen' + 1 .. Len(context') : context'[k] = User(f)
  <2>1. \A k \in priorLen' + 1 .. Len(context') : k = Len(Prior) + 1
    BY <1>1, <1>7
  <2> QED BY <1>7, <2>1
<1>13. Apart'
  BY <1>8, <1>12 DEF Apart
<1>14. Boundary'
  BY <1>1, <1>7, <1>8 DEF Boundary
<1> QED BY <1>2, <1>5, <1>9, <1>10, <1>11, <1>13, <1>14 DEF WInv

\* A step that says nothing.
LEMMA QuietKeepsW ==
    ASSUME TInv, WInv, UNCHANGED <<journal, context, priorLen>>,
           calls' \in {calls, calls + 1}, pc = "idle" => pc' = "idle"
    PROVE  WInv'
<1>0. calls \in Nat
  BY BoundsAssumption DEF TInv, Shape
<1>1. calls' \in Nat /\ calls <= calls'
  BY <1>0
<1>2. Known(journal, calls') /\ Known(context, calls')
  BY <1>0, <1>1, KnownMore DEF WInv, TInv, Shape
<1> QED BY <1>2 DEF WInv, Apart, Boundary

LEMMA SaysSpeaks ==
    ASSUME TInv, NEW e, Says(<<e>>), e \in Entries, e.role # "result", e.ids = {},
           calls' \in {calls, calls + 1}
    PROVE  Speaks(e)
<1>1. context' = Append(context, e)
  BY AppendOne DEF TInv, Shape, Says
<1> QED BY <1>1 DEF Says, Speaks

LEMMA TalkKeepsW ==
    ASSUME TInv, WInv,
           (\E s \in Sources \cup {Nobody} : Fold(s)) \/ Answer \/ DrainBatch
    PROVE  WInv'
<1>1. /\ User(format) \in Entries /\ User(format).role = "user" /\ User(format).ids = {}
      /\ Entry("assistant", {}) \in Entries
      /\ Entry("assistant", {}).role = "assistant" /\ Entry("assistant", {}).ids = {}
  BY EntryType DEF TInv, Shape, User, Entry
<1>2. ASSUME NEW s \in Sources \cup {Nobody}, Fold(s) PROVE WInv'
  BY <1>1, <1>2, FoldSays, SaysSpeaks, SpeaksKeeps
<1>3. CASE Answer
  <2>1. CASE Still
    <3>1. pc = "call" /\ calls' = calls + 1
      BY <1>3, CallCounts DEF Answer
    <3> QED BY <2>1, <3>1, QuietKeepsW DEF Still
  <2> QED BY <1>1, <1>3, <2>1, AnswerSays, SaysSpeaks, SpeaksKeeps
<1>4. CASE DrainBatch
  <2>1. CASE Still
    <3>1. pc = "drain" /\ calls' = calls
      BY <1>4, DrainSays
    <3> QED BY <2>1, <3>1, QuietKeepsW DEF Still
  <2> QED BY <1>1, <1>4, <2>1, DrainSays, SaysSpeaks, SpeaksKeeps
<1> QED BY <1>2, <1>3, <1>4

LEMMA CallKeepsW ==
    ASSUME TInv, WInv, NEW n \in 1 .. MaxBatch, NEW empty \in BOOLEAN, CallTools(n, empty)
    PROVE  WInv'
<1>1. /\ batch' = [k \in 1 .. n |-> <<calls', k>>] /\ pc = "call"
      /\ UNCHANGED <<journal, priorLen>> /\ calls' = calls + 1
  BY CallShape
<1>2. PICK e \in Entries :
        e = Entry("assistant", {batch'[k] : k \in 1 .. n}) /\ context' = Append(context, e)
  BY CallShape
<1>3. e.role = "assistant" /\ e.ids = {batch'[k] : k \in 1 .. n}
  BY <1>2 DEF Entry
<1>4. \A id \in e.ids : id[1] = calls + 1
  BY <1>1, <1>3
<1> QED BY <1>1, <1>2, <1>3, <1>4, SpeaksKeeps DEF Speaks

LEMMA NextWInv == ~Embeds => (TInv /\ WInv /\ [Next]_vars => WInv')
<1> SUFFICES ASSUME ~Embeds, TInv, WInv, [Next]_vars PROVE WInv'
  OBVIOUS
<1>0. ASSUME \A s \in Sources \cup {Nobody} : ~BeginTurn(s), Still, calls' = calls PROVE WInv'
  BY <1>0, IdleStays, QuietKeepsW DEF Still
<1>1. ASSUME NEW s \in Sources \cup {Nobody}, BeginTurn(s) PROVE WInv'
  BY <1>1, BeginKeepsW
<1>b. ASSUME \A s \in Sources \cup {Nobody} : ~BeginTurn(s) PROVE WInv'
  <2>1. CASE LoopStep
    <3>1. ASSUME NEW n \in 1 .. MaxBatch, NEW empty \in BOOLEAN, CallTools(n, empty)
          PROVE  WInv'
      BY <3>1, CallKeepsW
    <3>2. ASSUME PlainTool \/ \E s \in Sources : SendTool(s) PROVE WInv'
      BY <3>2, ToolKeepsW DEF PlainTool, SendTool
    <3>3. ~EmbeddedAsk
      BY DEF EmbeddedAsk
    <3> QED BY <1>0, <1>b, <2>1, <3>1, <3>2, <3>3, StillSteps, TalkKeepsW, CutKeepsW
            DEF LoopStep
  <2>2. CASE EndStep
    BY <1>0, <1>b, <2>2, StillSteps, EndKeepsW DEF EndStep
  <2>3. CASE Cancel \/ Crash \/ UNCHANGED vars
    BY <1>0, <1>b, <2>3, StillSteps, EndKeepsW
  <2> QED BY <1>b, <2>1, <2>2, <2>3 DEF Next
<1> QED BY <1>1, <1>b

\* filter_valid_messages: of models that ask by a tool, after cancels, failures,
\* crashes and changes of the model, what a call sends is a transcript the
\* provider accepts.
THEOREM SentIsAccepted == ~Embeds => (Spec => []SentAccepted)
<1> SUFFICES ASSUME ~Embeds PROVE Spec => []SentAccepted
  OBVIOUS
<1>1. Init => WInv
  BY DEF Init, WInv, Owned, Distinct, Known, Apart, Boundary
<1>2. TInv /\ WInv /\ [Next]_vars => WInv'
  BY NextWInv
<1>3. TInv /\ WInv => SentAccepted
  BY RepairedAccepted DEF TInv, Shape, WInv, SentAccepted
<1> QED BY <1>1, <1>2, <1>3, SpecTInv, PTL DEF Spec
=============================================================================
