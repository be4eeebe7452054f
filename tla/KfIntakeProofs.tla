--------------------------- MODULE KfIntakeProofs ---------------------------
(***************************************************************************)
(* Proofs about KfIntake, for any number of tasks and messages, any size of *)
(* a page and of the dedup store.                                           *)
(*                                                                          *)
(* NothingPassedOver is inductive when it also speaks of what a task has    *)
(* passed in its page, what a flush will write and what the dedup store     *)
(* knows: a step reaches only what was reached or is settled by it          *)
(* (ReachedStep), and what is settled or in a task's hands stays so         *)
(* (DoneStays).                                                             *)
(* TwiceOnlyForgotten needs that what was handed on, or is about to be, is  *)
(* in the store or forgotten.                                               *)
(***************************************************************************)
EXTENDS KfIntake, TLAPS, WellFoundedInduction

\* A task that marks or hands on is at a message of its page.
AtItsMessage == \A t \in Tasks : pc[t] \in {"mark", "name"} => pos[t] \in Message

Done(m) == Settled(m) \/ InHand(m)

\* What is below a cursor, of the memory, the file, a task or its flush, behind a
\* task in its page, or known to the dedup store.
InPage(t) == pc[t] \in {"each", "mark", "name"}

Reached(m) ==
    \/ m <= cursor \/ m <= saved \/ m \in Elements(seen)
    \/ \E t \in Tasks :
          \/ m <= at[t] \/ m <= snap[t]
          \/ InPage(t) /\ m < pos[t]

Passed == \A m \in Message : Reached(m) => Done(m)

Remembered(m) == m \in Elements(seen) \cup forgotten

Excused(m) == m \in raced \cup forgotten

\* What was handed on, or will be next, went through the store.
HandedRemembered ==
    /\ \A m \in handed : Remembered(m)
    /\ \A t \in Tasks : pc[t] = "name" => Remembered(pos[t])

\* Of two tasks that hand on one message, one found it in the store or forgotten.
SecondExcused ==
    /\ \A t \in Tasks : pc[t] = "name" /\ pos[t] \in handed => Excused(pos[t])
    /\ \A t, u \in Tasks :
          t # u /\ pc[t] = "name" /\ pc[u] = "name" /\ pos[t] = pos[u] => Excused(pos[t])

Twice == HandedRemembered /\ SecondExcused /\ TwiceOnlyForgotten

\* As long as nothing failed: one task flushes at a time and what it writes is
\* marked; without a mark the file has the cursor; a mark has a task.
OneFlush ==
    /\ \A t, u \in Tasks : Flushing(t) /\ Flushing(u) => t = u
    /\ \A t \in Tasks : Flushing(t) => dirty
    /\ \A t \in Tasks : pc[t] = "clear" => saved = snap[t]

MarkedOrSaved ==
    /\ dirty => \E t \in Tasks : pc[t] # "idle"
    /\ ~dirty /\ ~overtaken => saved = cursor

Quiet == faults = 0 => OneFlush /\ MarkedOrSaved

IInv == TypeOK /\ AtItsMessage /\ Passed /\ Twice /\ Quiet

----------------------------------------------------------------------------
LEMMA GreatestMessage ==
    ASSUME NEW S \in SUBSET Message, S # {}
    PROVE  \E m \in S : \A n \in S : n <= m
<1> DEFINE Down == {MaxMessages - m : m \in S}
<1>1. MaxMessages \in Nat /\ S \subseteq 1 .. MaxMessages
  BY BoundAssumption DEF Message
<1>2. Down \subseteq Nat /\ Down # {}
  <2>1. \A m \in S : MaxMessages - m \in Nat
    BY <1>1
  <2>2. PICK m \in S : TRUE
    OBVIOUS
  <2>3. MaxMessages - m \in Down
    BY <2>2
  <2> QED BY <2>1, <2>3
<1>3. PICK d \in Down : \A e \in Down : ~(<<e, d>> \in OpToRel(<, Nat))
  BY <1>2, WFMin, NatLessThanWellFounded
<1>4. \A e \in Down : ~(e < d)
  BY <1>2, <1>3 DEF OpToRel
<1>5. PICK m \in S : d = MaxMessages - m
  BY DEF Down
<1>6. ASSUME NEW n \in S PROVE n <= m
  <2>1. ~(MaxMessages - n < MaxMessages - m)
    BY <1>4, <1>5
  <2> QED BY <2>1, <1>1
<1> QED BY <1>6

\* A page ends at a message or is empty, and begins within one of its end.
LEMMA PageType ==
    ASSUME TypeOK, NEW t \in Tasks
    PROVE  LET end == PageEnd(at[t]) IN
           end \in Position /\ FirstOf(at[t], end) \in 1 .. MaxMessages + 1
<1> DEFINE from == at[t]
           end == PageEnd(from)
           valid == Valid \cap (from + 1 .. end)
<1>1. /\ MaxMessages \in Nat /\ PageSize \in Nat
      /\ from \in 0 .. MaxMessages /\ count \in 0 .. MaxMessages
  BY BoundAssumption, SizeAssumption DEF TypeOK, Position
<1>2. end \in 0 .. MaxMessages
  BY <1>1 DEF PageEnd
<1>3. CASE from = None /\ valid # {}
  <2>1. valid \subseteq Message
    BY DEF Valid
  <2>2. \E m \in valid : \A n \in valid : n <= m
    BY <2>1, <1>3, GreatestMessage
  <2>3. FirstOf(from, end) \in valid
    BY <2>2, <1>3 DEF FirstOf
  <2> QED BY <2>1, <2>3, <1>1, <1>2 DEF Message, Position
<1>4. CASE ~(from = None /\ valid # {})
  <2>1. FirstOf(from, end) = from + 1
    BY <1>4 DEF FirstOf
  <2> QED BY <2>1, <1>1, <1>2 DEF Position
<1> QED BY <1>3, <1>4

\* What a sequence holds without its first element, and with one more.
LEMMA TailElements ==
    ASSUME NEW s \in Seq(Message), Len(s) > 0
    PROVE  /\ Tail(s) \in Seq(Message) /\ Len(Tail(s)) = Len(s) - 1
           /\ Head(s) \in Message
           /\ Elements(Tail(s)) \subseteq Elements(s)
           /\ Elements(s) \subseteq Elements(Tail(s)) \cup {Head(s)}
<1>1. Len(s) \in Nat \ {0} /\ DOMAIN s = 1 .. Len(s)
  OBVIOUS
<1>2. /\ Tail(s) \in Seq(Message) /\ Len(Tail(s)) = Len(s) - 1
      /\ Head(s) = s[1] /\ s[1] \in Message
  BY <1>1
<1>3. DOMAIN Tail(s) = 1 .. Len(s) - 1
  BY <1>1, <1>2
<1>4. \A i \in 1 .. Len(s) - 1 : Tail(s)[i] = s[i + 1]
  BY <1>1
<1>5. ASSUME NEW i \in 1 .. Len(s) - 1 PROVE Tail(s)[i] \in Elements(s)
  <2>1. i + 1 \in DOMAIN s
    BY <1>1
  <2> QED BY <2>1, <1>4 DEF Elements
<1>6. ASSUME NEW i \in 1 .. Len(s), i # 1 PROVE s[i] \in Elements(Tail(s))
  <2>1. i - 1 \in DOMAIN Tail(s) /\ (i - 1) + 1 = i
    BY <1>1, <1>3, <1>6
  <2>2. Tail(s)[i - 1] = s[i]
    BY <2>1, <1>3, <1>4
  <2> QED BY <2>1, <2>2 DEF Elements
<1>7. Elements(Tail(s)) \subseteq Elements(s)
  BY <1>3, <1>5 DEF Elements
<1>8. Elements(s) \subseteq Elements(Tail(s)) \cup {Head(s)}
  BY <1>1, <1>2, <1>6 DEF Elements
<1> QED BY <1>2, <1>7, <1>8

LEMMA AppendElements ==
    ASSUME NEW s \in Seq(Message), NEW m \in Message
    PROVE  /\ Append(s, m) \in Seq(Message) /\ Len(Append(s, m)) = Len(s) + 1
           /\ Elements(Append(s, m)) = Elements(s) \cup {m}
<1>1. /\ Append(s, m) \in Seq(Message) /\ Len(Append(s, m)) = Len(s) + 1
      /\ Len(s) \in Nat /\ DOMAIN s = 1 .. Len(s)
  OBVIOUS
<1>2. DOMAIN Append(s, m) = 1 .. Len(s) + 1
  BY <1>1
<1>3. \A i \in 1 .. Len(s) : Append(s, m)[i] = s[i]
  BY <1>1
<1>4. Append(s, m)[Len(s) + 1] = m
  BY <1>1
<1>5. Elements(Append(s, m)) \subseteq Elements(s) \cup {m}
  <2> SUFFICES ASSUME NEW i \in 1 .. Len(s) + 1
               PROVE  Append(s, m)[i] \in Elements(s) \cup {m}
    BY <1>2 DEF Elements
  <2> QED BY <1>1, <1>3, <1>4 DEF Elements
<1>6. Elements(s) \cup {m} \subseteq Elements(Append(s, m))
  <2>1. ASSUME NEW i \in 1 .. Len(s) PROVE s[i] \in Elements(Append(s, m))
    <3>1. i \in DOMAIN Append(s, m) /\ Append(s, m)[i] = s[i]
      BY <1>1, <1>2, <1>3
    <3> QED BY <3>1 DEF Elements
  <2>2. m \in Elements(Append(s, m))
    <3>1. Len(s) + 1 \in DOMAIN Append(s, m)
      BY <1>1, <1>2
    <3> QED BY <3>1, <1>4 DEF Elements
  <2> QED BY <2>1, <2>2, <1>1 DEF Elements
<1> QED BY <1>1, <1>5, <1>6

\* Marking remembers the message, and forgets at most the oldest.
LEMMA MarkedKnows ==
    ASSUME TypeOK, NEW m \in Message
    PROVE  /\ Marked(m) \in Seq(Message) /\ Len(Marked(m)) <= DedupSize
           /\ m \in Elements(Marked(m))
           /\ Elements(Marked(m)) \subseteq Elements(seen) \cup {m}
           /\ Elements(seen) \subseteq
                Elements(Marked(m)) \cup
                (IF Len(seen) >= DedupSize THEN {Head(seen)} ELSE {})
           /\ Len(seen) >= DedupSize => Head(seen) \in Message
<1> DEFINE full == Len(seen) >= DedupSize
           kept == IF full THEN Tail(seen) ELSE seen
<1>1. seen \in Seq(Message) /\ Len(seen) \in Nat /\ Len(seen) <= DedupSize
      /\ DedupSize \in Nat \ {0}
  BY SizeAssumption DEF TypeOK
<1>2. /\ kept \in Seq(Message) /\ Len(kept) \in Nat /\ Len(kept) < DedupSize
      /\ Elements(kept) \subseteq Elements(seen)
      /\ Elements(seen) \subseteq
            Elements(kept) \cup (IF full THEN {Head(seen)} ELSE {})
      /\ full => Head(seen) \in Message
  <2>1. CASE full
    <3>1. Len(seen) > 0 /\ kept = Tail(seen)
      BY <1>1, <2>1
    <3>2. Tail(seen) \in Seq(Message) /\ Len(Tail(seen)) = Len(seen) - 1
          /\ Head(seen) \in Message
          /\ Elements(Tail(seen)) \subseteq Elements(seen)
          /\ Elements(seen) \subseteq Elements(Tail(seen)) \cup {Head(seen)}
      BY <1>1, <3>1, TailElements
    <3> HIDE DEF kept
    <3> QED BY <3>1, <3>2, <1>1, <2>1
  <2>2. CASE ~full
    <3>1. kept = seen
      BY <2>2
    <3> HIDE DEF kept
    <3> QED BY <3>1, <1>1, <2>2
  <2> QED BY <2>1, <2>2
<1>3. Marked(m) = IF m \in Elements(kept) THEN kept ELSE Append(kept, m)
  BY DEF Marked
<1> HIDE DEF kept
<1>4. /\ Append(kept, m) \in Seq(Message) /\ Len(Append(kept, m)) = Len(kept) + 1
      /\ Elements(Append(kept, m)) = Elements(kept) \cup {m}
  BY <1>2, AppendElements
<1>5. CASE m \in Elements(kept)
  BY <1>5, <1>1, <1>2, <1>3
<1>6. CASE m \notin Elements(kept)
  BY <1>6, <1>1, <1>2, <1>3, <1>4
<1> QED BY <1>5, <1>6

----------------------------------------------------------------------------
\* One step of the types per action.
LEMMA TypeStep == TypeOK /\ AtItsMessage /\ [Next]_vars => TypeOK' /\ AtItsMessage'
<1> SUFFICES ASSUME TypeOK, AtItsMessage, [Next]_vars PROVE TypeOK' /\ AtItsMessage'
  OBVIOUS
<1>0. /\ notes \in 0 .. MaxNotes /\ faults \in 0 .. MaxFaults
      /\ MaxNotes \in Nat /\ MaxFaults \in Nat /\ MaxMessages \in Nat
  BY BoundAssumption DEF TypeOK
<1> USE <1>0 DEF AtItsMessage
<1>1. CASE Arrive
  BY <1>1 DEF Arrive, TypeOK, Position, store, local, budget, history
<1>2. CASE Restart
  <2>1. seen' = <<>> /\ <<>> \in Seq(Message) /\ Len(<<>>) = 0 /\ DedupSize \in Nat
    BY <1>2, SizeAssumption DEF Restart
  <2>2. Elements(seen) \subseteq Message
    BY DEF TypeOK, Elements
  <2>3. {pos[t] : t \in {u \in Tasks : pc[u] = "name"}} \subseteq Message
    OBVIOUS
  <2>4. forgotten' \subseteq Message /\ dropped' \subseteq Message
    BY <1>2, <2>2, <2>3 DEF Restart, TypeOK
  <2>5. /\ pc' \in [Tasks -> States] /\ AtItsMessage'
        /\ at' \in [Tasks -> Position] /\ got' \in [Tasks -> Position]
        /\ snap' \in [Tasks -> Position] /\ more' \in [Tasks -> BOOLEAN]
        /\ pos' \in [Tasks -> 1 .. MaxMessages + 1]
    BY <1>2 DEF Restart, Position, None, States
  <2>6. faults' \in 0 .. MaxFaults
    BY <1>2 DEF Restart
  <2>7. cursor' \in Position /\ dirty' \in BOOLEAN
    BY <1>2 DEF Restart, TypeOK
  <2>8. UNCHANGED <<count, saved, notes, handed, again, failed, filtered, raced, overtaken>>
    BY <1>2 DEF Restart, service
  <2> QED BY <2>1, <2>4, <2>5, <2>6, <2>7, <2>8 DEF TypeOK
<1>3. ASSUME NEW t \in Tasks, Notify(t) PROVE TypeOK' /\ AtItsMessage'
  BY <1>3 DEF Notify, TypeOK, States, service, store, history
<1>4. ASSUME NEW t \in Tasks, Sync(t) PROVE TypeOK' /\ AtItsMessage'
  <2> DEFINE end == PageEnd(at[t])
             first == FirstOf(at[t], end)
  <2>1. end \in Position /\ first \in 1 .. MaxMessages + 1
    BY PageType
  <2>2. 1 .. first - 1 \subseteq Message
    BY <2>1 DEF Message
  <2>3. /\ got' = [got EXCEPT ![t] = end] /\ more' = [more EXCEPT ![t] = end < count]
        /\ pos' = [pos EXCEPT ![t] = first] /\ pc' = [pc EXCEPT ![t] = "each"]
        /\ filtered' \subseteq filtered \cup (1 .. first - 1)
        /\ UNCHANGED <<service, store, seen, at, snap, budget,
                       handed, again, failed, forgotten, raced, dropped, overtaken>>
    BY <1>4 DEF Sync
  <2> HIDE DEF end, first
  <2> QED BY <2>1, <2>2, <2>3 DEF TypeOK, States, service, store, budget
<1>5. ASSUME NEW t \in Tasks, SyncFails(t) PROVE TypeOK' /\ AtItsMessage'
  BY <1>5 DEF SyncFails, TypeOK, States, service, store, local, history
<1>6. ASSUME NEW t \in Tasks, AtMessage(t) PROVE pos[t] \in Message /\ pos[t] + 1 \in 1 .. MaxMessages + 1
  BY <1>6 DEF AtMessage, TypeOK, Position, Message
<1>7. ASSUME NEW t \in Tasks, Skip(t) PROVE TypeOK' /\ AtItsMessage'
  <2>1. pos[t] + 1 \in 1 .. MaxMessages + 1
    BY <1>6, <1>7 DEF Skip
  <2> QED BY <1>7, <2>1 DEF Skip, AtMessage, TypeOK, service, store, budget, history
<1>8. ASSUME NEW t \in Tasks, TooOld(t) PROVE TypeOK' /\ AtItsMessage'
  <2>1. pos[t] \in Message /\ pos[t] + 1 \in 1 .. MaxMessages + 1
    BY <1>6, <1>8 DEF TooOld
  <2> QED BY <1>8, <2>1 DEF TooOld, AtMessage, TypeOK, service, store, budget
<1>9. ASSUME NEW t \in Tasks, IsNew(t) PROVE TypeOK' /\ AtItsMessage'
  <2>1. pos[t] \in Message
    BY <1>6, <1>9 DEF IsNew
  <2> QED BY <1>9, <2>1 DEF IsNew, TypeOK, States, service, store, local, budget, history
<1>10. ASSUME NEW t \in Tasks, Mark(t) PROVE TypeOK' /\ AtItsMessage'
  <2>1. pos[t] \in Message
    BY <1>10 DEF Mark
  <2>2. /\ Marked(pos[t]) \in Seq(Message) /\ Len(Marked(pos[t])) <= DedupSize
        /\ Len(seen) >= DedupSize => Head(seen) \in Message
    BY <2>1, MarkedKnows
  <2>3. /\ seen' = Marked(pos[t]) /\ raced' \subseteq raced \cup {pos[t]}
        /\ forgotten' \subseteq forgotten \cup (IF Len(seen) >= DedupSize THEN {Head(seen)} ELSE {})
        /\ pc' = [pc EXCEPT ![t] = "name"]
        /\ UNCHANGED <<service, store, local, budget,
                       handed, again, failed, filtered, dropped, overtaken>>
    BY <1>10 DEF Mark
  <2>4. raced' \subseteq Message /\ forgotten' \subseteq Message
    BY <2>1, <2>2, <2>3 DEF TypeOK
  <2> QED BY <2>1, <2>2, <2>3, <2>4 DEF TypeOK, States, service, store, local, budget
<1>11. ASSUME NEW t \in Tasks, HandOn(t) PROVE TypeOK' /\ AtItsMessage'
  <2>1. pos[t] \in Message /\ pos[t] + 1 \in 1 .. MaxMessages + 1
    BY <1>11 DEF HandOn, Message
  <2> QED BY <1>11, <2>1 DEF HandOn, TypeOK, States, service, store, budget
<1>12. ASSUME NEW t \in Tasks, HandOnFails(t) PROVE TypeOK' /\ AtItsMessage'
  <2>1. pos[t] \in Message /\ pos[t] + 1 \in 1 .. MaxMessages + 1
    BY <1>12 DEF HandOnFails, Message
  <2> QED BY <1>12, <2>1 DEF HandOnFails, TypeOK, States, service, store
<1>13. ASSUME NEW t \in Tasks, PageDone(t) PROVE TypeOK' /\ AtItsMessage'
  <2>1. /\ got[t] \in Position /\ NextCursor(t) = got[t]
        /\ pc' \in [Tasks -> States] /\ AtItsMessage'
    BY <1>13 DEF PageDone, NextCursor, TypeOK, States
  <2>2. at' \in [Tasks -> Position] /\ cursor' \in Position /\ dirty' \in BOOLEAN
    BY <1>13, <2>1 DEF PageDone, TypeOK
  <2>3. UNCHANGED <<service, saved, seen, pos, got, more, snap, budget, history>>
    BY <1>13 DEF PageDone
  <2> QED BY <2>1, <2>2, <2>3 DEF TypeOK, service, budget, history
<1>14. ASSUME NEW t \in Tasks, TaskEnds(t), UNCHANGED <<count, cursor, seen, notes>>,
              saved' \in Position, dirty' \in BOOLEAN, overtaken' \in BOOLEAN,
              faults' \in 0 .. MaxFaults,
              UNCHANGED <<handed, again, failed, filtered, forgotten, raced, dropped>>
       PROVE  TypeOK' /\ AtItsMessage'
  <2>1. 0 \in Position /\ 1 \in 1 .. MaxMessages + 1
    BY DEF Position
  <2>2. pc' \in [Tasks -> States] /\ AtItsMessage'
    BY <1>14 DEF TaskEnds, TypeOK, States
  <2>3. /\ at' \in [Tasks -> Position] /\ got' \in [Tasks -> Position]
        /\ snap' \in [Tasks -> Position] /\ more' \in [Tasks -> BOOLEAN]
        /\ pos' \in [Tasks -> 1 .. MaxMessages + 1]
    BY <1>14, <2>1 DEF TaskEnds, TypeOK, None
  <2> QED BY <1>14, <2>2, <2>3 DEF TypeOK
<1>15. ASSUME NEW t \in Tasks, FlushSkips(t) PROVE TypeOK' /\ AtItsMessage'
  BY <1>14, <1>15 DEF FlushSkips, TypeOK, service, store, budget, history
<1>16. ASSUME NEW t \in Tasks, FlushBegins(t) PROVE TypeOK' /\ AtItsMessage'
  BY <1>16 DEF FlushBegins, TypeOK, States, service, store, budget, history
<1>17. ASSUME NEW t \in Tasks, FlushWrites(t) PROVE TypeOK' /\ AtItsMessage'
  BY <1>17 DEF FlushWrites, TypeOK, States, service, local, budget, history
<1>18. ASSUME NEW t \in Tasks, FlushFails(t) PROVE TypeOK' /\ AtItsMessage'
  BY <1>14, <1>18 DEF FlushFails, TypeOK, service, store, history
<1>19. ASSUME NEW t \in Tasks, FlushClears(t) PROVE TypeOK' /\ AtItsMessage'
  BY <1>14, <1>19 DEF FlushClears, TypeOK, service, budget
<1>20. CASE UNCHANGED vars
  BY <1>20 DEF TypeOK, vars, service, store, local, budget, history
<1> QED BY <1>1, <1>2, <1>3, <1>4, <1>5, <1>7, <1>8, <1>9, <1>10, <1>11, <1>12, <1>13, <1>15,
           <1>16, <1>17, <1>18, <1>19, <1>20 DEF Next, Step, Fails

----------------------------------------------------------------------------
Others(t) ==
    \A u \in Tasks \ {t} :
        pc'[u] = pc[u] /\ pos'[u] = pos[u] /\ at'[u] = at[u] /\ snap'[u] = snap[u]

Grows ==
    /\ handed \subseteq handed' /\ failed \subseteq failed'
    /\ filtered \subseteq filtered' /\ dropped \subseteq dropped'

\* A task leaves the others alone, takes nothing back, and lets go of a message
\* only when it was handed on or failed.
LEMMA TaskShape ==
    ASSUME TypeOK, NEW t \in Tasks, Notify(t) \/ Step(t) \/ Fails(t)
    PROVE  /\ Others(t) /\ Grows
           /\ pc[t] = "name" => pos[t] \in handed' \cup failed'
<1> DEFINE Goal == /\ Others(t) /\ Grows
                   /\ pc[t] = "name" => pos[t] \in handed' \cup failed'
<1> USE DEF TypeOK, Others, Grows, history, local
<1>1. CASE Notify(t)  BY <1>1 DEF Notify
<1>2. CASE Sync(t)  BY <1>2 DEF Sync
<1>3. CASE SyncFails(t)  BY <1>3 DEF SyncFails
<1>4. CASE Skip(t)  BY <1>4 DEF Skip, AtMessage
<1>5. CASE TooOld(t)  BY <1>5 DEF TooOld, AtMessage
<1>6. CASE IsNew(t)  BY <1>6 DEF IsNew, AtMessage
<1>7. CASE Mark(t)  BY <1>7 DEF Mark
<1>8. CASE HandOn(t)  BY <1>8 DEF HandOn
<1>9. CASE HandOnFails(t)  BY <1>9 DEF HandOnFails
<1>10. CASE PageDone(t)  BY <1>10 DEF PageDone
<1>11. CASE FlushSkips(t)  BY <1>11 DEF FlushSkips, TaskEnds
<1>12. CASE FlushBegins(t)  BY <1>12 DEF FlushBegins
<1>13. CASE FlushWrites(t)  BY <1>13 DEF FlushWrites
<1>14. CASE FlushFails(t)  BY <1>14 DEF FlushFails, TaskEnds
<1>15. CASE FlushClears(t)  BY <1>15 DEF FlushClears, TaskEnds
<1> QED BY <1>1, <1>2, <1>3, <1>4, <1>5, <1>6, <1>7, <1>8, <1>9, <1>10, <1>11, <1>12,
           <1>13, <1>14, <1>15 DEF Step, Fails

\* What is settled or in a task's hands stays so.
LEMMA DoneStays ==
    ASSUME TypeOK, [Next]_vars, NEW m \in Message, Done(m)
    PROVE  Done(m)'
<1>1. CASE Arrive \/ UNCHANGED vars
  <2>1. UNCHANGED <<pc, pos, handed, failed, filtered, dropped>>
    BY <1>1 DEF Arrive, vars, local, history
  <2> QED BY <2>1 DEF Done, Settled, InHand
<1>2. CASE Restart
  <2>1. CASE Settled(m)
    BY <1>2, <2>1 DEF Restart, Done, Settled
  <2>2. CASE InHand(m)
    BY <1>2, <2>2 DEF Restart, Done, Settled, InHand
  <2> QED BY <2>1, <2>2 DEF Done
<1>3. ASSUME NEW t \in Tasks, Notify(t) \/ Step(t) \/ Fails(t) PROVE Done(m)'
  <2>1. /\ Others(t) /\ Grows
        /\ pc[t] = "name" => pos[t] \in handed' \cup failed'
    BY <1>3, TaskShape
  <2>2. CASE Settled(m)
    BY <2>1, <2>2 DEF Grows, Done, Settled
  <2>3. CASE InHand(m)
    <3>1. PICK u \in Tasks : pc[u] = "name" /\ pos[u] = m
      BY <2>3 DEF InHand
    <3>2. CASE u = t
      BY <2>1, <3>1, <3>2 DEF Done, Settled
    <3>3. CASE u # t
      BY <2>1, <3>1, <3>3 DEF Others, Done, InHand
    <3> QED BY <3>2, <3>3
  <2> QED BY <2>2, <2>3 DEF Done
<1> QED BY <1>1, <1>2, <1>3 DEF Next

\* A step of a task reaches only what was reached before, or what it settles.
LEMMA ReachedByTask ==
    ASSUME TypeOK, AtItsMessage, NEW t \in Tasks, Notify(t) \/ Step(t) \/ Fails(t),
           NEW m \in Message, Reached(m)'
    PROVE  Reached(m) \/ Done(m)'
<1> DEFINE Old == Reached(m) \/ Done(m)'
           Shared == m <= cursor' \/ m <= saved' \/ m \in Elements(seen') => Old
           Own == m <= at'[t] \/ m <= snap'[t] \/ (InPage(t)' /\ m < pos'[t]) => Old
<1>0. m \in Nat \ {0} /\ None = 0 /\ MaxMessages \in Nat
  BY BoundAssumption DEF Message, None
<1>1. Shared /\ Own => Old
  <2>1. Others(t)
    BY TaskShape
  <2> QED BY <2>1 DEF Others, Reached, InPage
<1>2. /\ UNCHANGED <<cursor, saved, seen>> => Shared
      /\ at'[t] = at[t] /\ snap'[t] = snap[t] /\ pos'[t] = pos[t] /\ (InPage(t)' => InPage(t)) => Own
  BY DEF Reached, InPage
<1>3. /\ pc \in [Tasks -> States] /\ pos \in [Tasks -> 1 .. MaxMessages + 1]
      /\ at \in [Tasks -> Position] /\ got \in [Tasks -> Position] /\ snap \in [Tasks -> Position]
  BY DEF TypeOK
<1> HIDE DEF Old, Shared, Own
<1>4. CASE Notify(t)
  <2>1. UNCHANGED <<cursor, saved, seen>>
    BY <1>4 DEF Notify, store
  <2>2. at'[t] = cursor /\ snap'[t] = snap[t] /\ ~InPage(t)'
    BY <1>3, <1>4 DEF Notify, InPage
  <2>3. Own
    BY <2>2 DEF Own, Old, Reached
  <2> QED BY <2>1, <2>3, <1>1, <1>2 DEF Old
<1>5. CASE Sync(t)
  <2> DEFINE first == FirstOf(at[t], PageEnd(at[t]))
  <2>1. first \in 1 .. MaxMessages + 1
    BY PageType
  <2>2. /\ pos'[t] = first /\ snap'[t] = snap[t] /\ at'[t] = at[t]
        /\ at[t] = None => 1 .. first - 1 \subseteq filtered'
        /\ UNCHANGED <<cursor, saved, seen>>
    BY <1>3, <1>5 DEF Sync, store
  <2>3. at[t] # None => first = at[t] + 1
    BY DEF FirstOf
  <2>4. m < first => Old
    <3>1. CASE at[t] = None
      BY <3>1, <2>1, <2>2, <1>0 DEF Old, Done, Settled
    <3>2. CASE at[t] # None
      BY <3>2, <2>3, <1>0, <1>3 DEF Old, Reached, Position
    <3> QED BY <3>1, <3>2
  <2>5. Own
    BY <2>2, <2>4 DEF Own, Old, Reached
  <2> QED BY <2>2, <2>5, <1>1, <1>2 DEF Old
<1>6. CASE SyncFails(t) \/ FlushBegins(t)
  <2>1. UNCHANGED <<cursor, saved, seen>> /\ at'[t] = at[t] /\ ~InPage(t)'
        /\ snap'[t] \in {snap[t], cursor}
    BY <1>3, <1>6 DEF SyncFails, FlushBegins, store, local, InPage
  <2>2. Own
    BY <2>1 DEF Own, Old, Reached
  <2> QED BY <2>1, <2>2, <1>1, <1>2 DEF Old
\* A message is left behind: it was known, or is settled now.
<1>7. CASE Skip(t) \/ TooOld(t) \/ HandOn(t) \/ HandOnFails(t)
  <2>1. /\ UNCHANGED <<cursor, saved, seen>> /\ at'[t] = at[t] /\ snap'[t] = snap[t]
        /\ pos'[t] = pos[t] + 1 /\ InPage(t)
    BY <1>3, <1>7 DEF Skip, TooOld, HandOn, HandOnFails, AtMessage, store, local, InPage
  <2>2. CASE m = pos[t]
    <3>1. m \in Elements(seen) \/ m \in Systems \cup filtered' \cup handed' \cup failed'
      BY <2>2, <1>7 DEF Skip, TooOld, HandOn, HandOnFails
    <3> QED BY <3>1 DEF Old, Reached, Done, Settled
  <2>3. CASE m # pos[t]
    <3>1. m < pos[t] + 1 => m < pos[t]
      BY <2>3, <1>0, <1>3
    <3>2. Own
      BY <2>1, <3>1 DEF Own, Old, Reached
    <3> QED BY <2>1, <3>2, <1>1, <1>2 DEF Old
  <2> QED BY <2>2, <2>3 DEF Old
<1>8. CASE IsNew(t) \/ FlushWrites(t)
  <2>1. /\ UNCHANGED <<cursor, seen>> /\ at'[t] = at[t] /\ snap'[t] = snap[t]
        /\ pos'[t] = pos[t] /\ (InPage(t)' => InPage(t)) /\ saved' \in {saved, snap[t]}
    BY <1>3, <1>8 DEF IsNew, FlushWrites, AtMessage, store, local, InPage
  <2>2. Shared
    BY <2>1 DEF Shared, Old, Reached
  <2> QED BY <2>1, <2>2, <1>1, <1>2 DEF Old
\* What is marked is in the task's hands.
<1>9. CASE Mark(t)
  <2>1. /\ UNCHANGED <<cursor, saved>> /\ at'[t] = at[t] /\ snap'[t] = snap[t]
        /\ pos'[t] = pos[t] /\ InPage(t) /\ seen' = Marked(pos[t]) /\ pc'[t] = "name"
        /\ pos[t] \in Message
    BY <1>3, <1>9 DEF Mark, store, local, InPage, AtItsMessage
  <2>2. Elements(seen') \subseteq Elements(seen) \cup {pos[t]}
    BY <2>1, MarkedKnows
  <2>3. m = pos[t] => Old
    BY <2>1 DEF Old, Done, InHand
  <2>4. Shared
    BY <2>1, <2>2, <2>3 DEF Shared, Old, Reached
  <2> QED BY <2>1, <2>4, <1>1, <1>2 DEF Old
<1>10. CASE PageDone(t)
  <2>1. /\ cursor' \in {cursor, got[t]} /\ at'[t] \in {at[t], got[t]} /\ snap'[t] = snap[t]
        /\ UNCHANGED <<saved, seen>> /\ InPage(t) /\ ~InPage(t)' /\ got[t] < pos[t]
    BY <1>3, <1>10 DEF PageDone, NextCursor, InPage, Position
  <2>2. m <= got[t] => Old
    <3>1. m <= got[t] => m < pos[t]
      BY <2>1, <1>0, <1>3 DEF Position
    <3> QED BY <2>1, <3>1 DEF Old, Reached
  <2>3. Shared /\ Own
    BY <2>1, <2>2 DEF Shared, Own, Old, Reached
  <2> QED BY <2>3, <1>1 DEF Old
<1>11. CASE FlushSkips(t) \/ FlushFails(t) \/ FlushClears(t)
  <2>1. UNCHANGED <<cursor, saved, seen>> /\ at'[t] = 0 /\ snap'[t] = 0 /\ ~InPage(t)'
    BY <1>3, <1>11 DEF FlushSkips, FlushFails, FlushClears, TaskEnds, store, InPage, None
  <2>2. Own
    BY <2>1, <1>0 DEF Own
  <2> QED BY <2>1, <2>2, <1>1, <1>2 DEF Old
<1> QED BY <1>4, <1>5, <1>6, <1>7, <1>8, <1>9, <1>10, <1>11 DEF Step, Fails, Old

LEMMA PassedStep == TypeOK /\ AtItsMessage /\ Passed /\ [Next]_vars => Passed'
<1> SUFFICES ASSUME TypeOK, AtItsMessage, Passed, [Next]_vars, NEW m \in Message, Reached(m)'
             PROVE  Done(m)'
  BY DEF Passed
<1>1. Reached(m) \/ Done(m)'
  <2>1. CASE Arrive \/ UNCHANGED vars
    BY <2>1 DEF Arrive, vars, store, local, Reached, InPage
  <2>2. CASE Restart
    <3>1. Elements(seen') = {}
      BY <2>2 DEF Restart, Elements
    <3>2. m \in Nat \ {0} /\ None = 0
      BY DEF Message, None
    <3> QED BY <2>2, <3>1, <3>2 DEF Restart, Reached, InPage
  <2>3. ASSUME NEW t \in Tasks, Notify(t) \/ Step(t) \/ Fails(t) PROVE Reached(m) \/ Done(m)'
    BY <2>3, ReachedByTask
  <2> QED BY <2>1, <2>2, <2>3 DEF Next
<1>2. Done(m) => Done(m)'
  BY DoneStays
<1> QED BY <1>1, <1>2 DEF Passed

----------------------------------------------------------------------------
\* A step of a task other than a mark or a hand-over changes neither the store
\* nor what was handed on, and brings no message to the hand-over.
LEMMA HandsShape ==
    ASSUME TypeOK, NEW t \in Tasks, Notify(t) \/ Step(t) \/ Fails(t), ~Mark(t), ~HandOn(t)
    PROVE  /\ UNCHANGED <<seen, handed, again, raced, forgotten>>
           /\ pc'[t] # "name"
<1> USE DEF TypeOK, States, history
<1>1. CASE Notify(t)  BY <1>1 DEF Notify
<1>2. CASE Sync(t)  BY <1>2 DEF Sync
<1>3. CASE SyncFails(t)  BY <1>3 DEF SyncFails
<1>4. CASE Skip(t)  BY <1>4 DEF Skip, AtMessage
<1>5. CASE TooOld(t)  BY <1>5 DEF TooOld, AtMessage
<1>6. CASE IsNew(t)  BY <1>6 DEF IsNew, AtMessage
<1>9. CASE HandOnFails(t)  BY <1>9 DEF HandOnFails
<1>10. CASE PageDone(t)  BY <1>10 DEF PageDone
<1>11. CASE FlushSkips(t)  BY <1>11 DEF FlushSkips, TaskEnds
<1>12. CASE FlushBegins(t)  BY <1>12 DEF FlushBegins
<1>13. CASE FlushWrites(t)  BY <1>13 DEF FlushWrites
<1>14. CASE FlushFails(t)  BY <1>14 DEF FlushFails, TaskEnds
<1>15. CASE FlushClears(t)  BY <1>15 DEF FlushClears, TaskEnds
<1> QED BY <1>1, <1>2, <1>3, <1>4, <1>5, <1>6, <1>9, <1>10, <1>11, <1>12,
           <1>13, <1>14, <1>15 DEF Step, Fails

LEMMA TwiceStep == TypeOK /\ AtItsMessage /\ Twice /\ [Next]_vars => Twice'
<1> SUFFICES ASSUME TypeOK, AtItsMessage, Twice, [Next]_vars PROVE Twice'
  OBVIOUS
<1>1. HandedRemembered /\ SecondExcused /\ TwiceOnlyForgotten
  BY DEF Twice
<1>2. CASE Arrive \/ UNCHANGED vars
  <2>1. UNCHANGED <<pc, pos, seen, handed, again, raced, forgotten>>
    BY <1>2 DEF Arrive, vars, local, history
  <2> QED BY <1>1, <2>1 DEF Twice, HandedRemembered, SecondExcused, TwiceOnlyForgotten,
                            Remembered, Excused
<1>3. CASE Restart
  <2>1. /\ forgotten' = forgotten \cup Elements(seen) /\ UNCHANGED <<handed, again, raced>>
        /\ \A t \in Tasks : pc'[t] = "idle"
    BY <1>3 DEF Restart
  <2>2. HandedRemembered'
    BY <1>1, <2>1 DEF HandedRemembered, Remembered
  <2>3. SecondExcused'
    BY <2>1 DEF SecondExcused
  <2>4. TwiceOnlyForgotten'
    BY <1>1, <2>1 DEF TwiceOnlyForgotten
  <2> QED BY <2>2, <2>3, <2>4 DEF Twice
<1>4. ASSUME NEW t \in Tasks, Mark(t) PROVE Twice'
  <2>0. PICK m : m = pos[t]
    OBVIOUS
  <2> DEFINE lost == IF Len(seen) >= DedupSize THEN {Head(seen)} ELSE {}
  <2>1. /\ m \in Message /\ seen' = Marked(m) /\ pc'[t] = "name" /\ pos' = pos
        /\ UNCHANGED <<handed, again>> /\ Others(t)
        /\ raced' = IF m \in Elements(seen) THEN raced \cup {m} ELSE raced
        /\ forgotten' = forgotten \cup lost
    <3>1. Others(t)
      BY <1>4, TaskShape DEF Step
    <3> QED BY <1>4, <2>0, <3>1 DEF Mark, AtItsMessage, local, TypeOK
  <2>2. /\ m \in Elements(seen')
        /\ Elements(seen) \subseteq Elements(seen') \cup lost
    BY <2>1, MarkedKnows
  <2>3. ASSUME NEW n, Remembered(n) PROVE Remembered(n)'
    BY <2>1, <2>2, <2>3 DEF Remembered
  <2>4. ASSUME NEW n, Excused(n) PROVE Excused(n)'
    BY <2>1, <2>4 DEF Excused
  <2>5. Remembered(m)'
    BY <2>2 DEF Remembered
  <2>6. Remembered(m) => Excused(m)'
    BY <2>1 DEF Remembered, Excused
  <2> HIDE DEF lost
  <2>7. HandedRemembered'
    <3>1. \A n \in handed' : Remembered(n)'
      BY <1>1, <2>1, <2>3 DEF HandedRemembered
    <3>2. ASSUME NEW u \in Tasks, pc'[u] = "name" PROVE Remembered(pos[u])'
      BY <1>1, <2>0, <2>1, <2>3, <2>5, <3>2 DEF HandedRemembered, Others
    <3> QED BY <3>1, <3>2, <2>1 DEF HandedRemembered
  <2>8. ASSUME NEW u \in Tasks, pc'[u] = "name", pos[u] \in handed PROVE Excused(pos[u])'
    <3>1. CASE u = t
      BY <1>1, <2>0, <2>1, <2>6, <2>8, <3>1 DEF HandedRemembered
    <3>2. CASE u # t
      BY <1>1, <2>1, <2>4, <2>8, <3>2 DEF SecondExcused, Others
    <3> QED BY <3>1, <3>2
  <2>9. ASSUME NEW u \in Tasks, NEW v \in Tasks, u # v, pc'[u] = "name", pc'[v] = "name",
               pos[u] = pos[v]
        PROVE  Excused(pos[u])'
    <3>1. CASE u = t
      <4>1. pc[v] = "name"
        BY <2>1, <2>9, <3>1 DEF Others
      <4>2. Remembered(m)
        BY <1>1, <2>0, <2>9, <3>1, <4>1 DEF HandedRemembered
      <4> QED BY <4>2, <2>0, <2>1, <2>6, <3>1
    <3>2. CASE v = t
      <4>1. pc[u] = "name"
        BY <2>1, <2>9, <3>2 DEF Others
      <4>2. Remembered(m) /\ pos[u] = m
        BY <1>1, <2>0, <2>9, <3>2, <4>1 DEF HandedRemembered
      <4> QED BY <4>2, <2>1, <2>6
    <3>3. CASE u # t /\ v # t
      BY <1>1, <2>1, <2>4, <2>9, <3>3 DEF SecondExcused, Others
    <3> QED BY <3>1, <3>2, <3>3
  <2>10. SecondExcused'
    BY <2>1, <2>8, <2>9 DEF SecondExcused
  <2>11. TwiceOnlyForgotten'
    BY <1>1, <2>1 DEF TwiceOnlyForgotten
  <2> QED BY <2>7, <2>10, <2>11 DEF Twice
<1>5. ASSUME NEW t \in Tasks, HandOn(t) PROVE Twice'
  <2>0. PICK m : m = pos[t]
    OBVIOUS
  <2>1. /\ pc[t] = "name" /\ handed' = handed \cup {m} /\ UNCHANGED <<seen, raced, forgotten>>
        /\ again' = IF m \in handed THEN again \cup {m} ELSE again
        /\ pc'[t] # "name" /\ Others(t)
    <3>1. Others(t)
      BY <1>5, TaskShape DEF Step
    <3> QED BY <1>5, <2>0, <3>1 DEF HandOn, TypeOK
  <2>2. Remembered(m) /\ (m \in handed => Excused(m))
    BY <1>1, <2>0, <2>1 DEF HandedRemembered, SecondExcused
  <2>3. \A n : /\ Remembered(n) => Remembered(n)'
               /\ Excused(n) => Excused(n)'
    BY <2>1 DEF Remembered, Excused
  <2>4. \A u \in Tasks : pc'[u] = "name" => u # t /\ pc[u] = "name" /\ pos'[u] = pos[u]
    BY <2>1 DEF Others
  <2>5. HandedRemembered'
    BY <1>1, <2>1, <2>2, <2>3, <2>4 DEF HandedRemembered
  <2>6. ASSUME NEW u \in Tasks, pc'[u] = "name", pos'[u] \in handed' PROVE Excused(pos[u])'
    <3>1. u # t /\ pc[u] = "name" /\ pos'[u] = pos[u]
      BY <2>4, <2>6
    <3>2. CASE pos[u] = m
      <4>1. Excused(pos[u])
        BY <1>1, <2>0, <2>1, <3>1, <3>2 DEF SecondExcused
      <4> QED BY <4>1, <3>1, <2>3
    <3>3. CASE pos[u] # m
      <4>1. Excused(pos[u])
        BY <1>1, <2>1, <2>6, <3>1, <3>3 DEF SecondExcused
      <4> QED BY <4>1, <3>1, <2>3
    <3> QED BY <3>2, <3>3
  <2>7. SecondExcused'
    <3>1. ASSUME NEW u \in Tasks, NEW v \in Tasks, u # v, pc'[u] = "name", pc'[v] = "name",
                 pos'[u] = pos'[v]
          PROVE  Excused(pos[u])'
      BY <1>1, <2>3, <2>4, <3>1 DEF SecondExcused
    <3> QED BY <2>6, <3>1 DEF SecondExcused
  <2>8. TwiceOnlyForgotten'
    BY <1>1, <2>1, <2>2 DEF TwiceOnlyForgotten, Excused
  <2> QED BY <2>5, <2>7, <2>8 DEF Twice
<1>6. ASSUME NEW t \in Tasks, Notify(t) \/ Step(t) \/ Fails(t), ~Mark(t), ~HandOn(t)
      PROVE  Twice'
  <2>1. UNCHANGED <<seen, handed, again, raced, forgotten>> /\ pc'[t] # "name" /\ Others(t)
    BY <1>6, HandsShape, TaskShape
  <2>2. \A u \in Tasks : pc'[u] = "name" => pc[u] = "name" /\ pos'[u] = pos[u]
    BY <2>1 DEF Others
  <2>3. \A n : /\ Remembered(n) => Remembered(n)'
               /\ Excused(n) => Excused(n)'
    BY <2>1 DEF Remembered, Excused
  <2>4. HandedRemembered'
    BY <1>1, <2>1, <2>2, <2>3 DEF HandedRemembered
  <2>5. SecondExcused'
    BY <1>1, <2>1, <2>2, <2>3 DEF SecondExcused
  <2>6. TwiceOnlyForgotten'
    BY <1>1, <2>1 DEF TwiceOnlyForgotten
  <2> QED BY <2>4, <2>5, <2>6 DEF Twice
<1> QED BY <1>2, <1>3, <1>4, <1>5, <1>6 DEF Next

----------------------------------------------------------------------------
LEMMA QuietStep == TypeOK /\ Quiet /\ [Next]_vars => Quiet'
<1> SUFFICES ASSUME TypeOK, Quiet, [Next]_vars, faults' = 0
             PROVE  OneFlush' /\ MarkedOrSaved'
  BY DEF Quiet
<1> USE DEF Flushing
<1>0. /\ pc \in [Tasks -> States] /\ snap \in [Tasks -> Position] /\ faults \in Nat
      /\ dirty \in BOOLEAN
  BY DEF TypeOK
\* Failures are counted, and none was.
<1>1. /\ ~Restart /\ \A t \in Tasks : ~Fails(t)
      /\ faults = 0
  <2>1. ~Restart /\ \A t \in Tasks : ~Fails(t)
    BY <1>0 DEF Restart, Fails, SyncFails, HandOnFails, FlushFails
  <2>2. ASSUME NEW t \in Tasks, Notify(t) \/ Step(t) PROVE faults' = faults
    BY <2>2 DEF Notify, Step, Sync, Skip, TooOld, IsNew, Mark, HandOn, PageDone,
                FlushSkips, FlushBegins, FlushWrites, FlushClears, budget
  <2>3. Arrive \/ UNCHANGED vars => faults' = faults
    BY DEF Arrive, vars, budget
  <2> QED BY <2>1, <2>2, <2>3 DEF Next
<1>2. OneFlush /\ MarkedOrSaved
  BY <1>1 DEF Quiet
<1>3. CASE Arrive \/ UNCHANGED vars
  <2>1. UNCHANGED <<pc, cursor, saved, dirty, snap, overtaken>>
    BY <1>3 DEF Arrive, vars, store, local, history
  <2> QED BY <1>2, <2>1 DEF OneFlush, MarkedOrSaved
<1>4. ASSUME NEW t \in Tasks, Notify(t) \/ Step(t) PROVE Others(t)
  BY <1>4, TaskShape
\* Outside the flush.
<1>5. ASSUME NEW t \in Tasks, Others(t), ~Flushing(t)', pc'[t] # "idle",
             UNCHANGED <<saved, overtaken>>, dirty' = TRUE \/ UNCHANGED <<cursor, dirty>>,
             dirty' \in BOOLEAN
      PROVE  OneFlush' /\ MarkedOrSaved'
  <2>1. dirty => dirty'
    BY <1>5
  <2>2. OneFlush'
    BY <1>2, <1>5, <2>1 DEF OneFlush, Others
  <2>3. MarkedOrSaved'
    BY <1>2, <1>5 DEF MarkedOrSaved
  <2> QED BY <2>2, <2>3
<1>6. ASSUME NEW t \in Tasks,
             Notify(t) \/ Sync(t) \/ Skip(t) \/ TooOld(t) \/ IsNew(t) \/ Mark(t) \/ HandOn(t)
      PROVE  OneFlush' /\ MarkedOrSaved'
  <2>1. UNCHANGED <<saved, overtaken, cursor, dirty>> /\ ~Flushing(t)' /\ pc'[t] # "idle"
    BY <1>0, <1>6 DEF Notify, Sync, Skip, TooOld, IsNew, Mark, HandOn, AtMessage, store, history
  <2>2. Others(t)
    BY <1>4, <1>6 DEF Step
  <2> QED BY <1>0, <1>5, <2>1, <2>2
<1>7. ASSUME NEW t \in Tasks, PageDone(t) PROVE OneFlush' /\ MarkedOrSaved'
  <2>1. /\ UNCHANGED <<saved, overtaken>> /\ ~Flushing(t)' /\ pc'[t] # "idle"
        /\ dirty' = TRUE \/ UNCHANGED <<cursor, dirty>>
    BY <1>0, <1>7 DEF PageDone, history
  <2>2. Others(t)
    BY <1>4, <1>7 DEF Step
  <2> QED BY <1>0, <1>5, <2>1, <2>2
<1>8. ASSUME NEW t \in Tasks, FlushSkips(t) PROVE OneFlush' /\ MarkedOrSaved'
  <2>1. UNCHANGED <<cursor, saved, dirty, overtaken>> /\ pc'[t] = "idle" /\ dirty = FALSE
    BY <1>0, <1>8 DEF FlushSkips, TaskEnds, store, history
  <2>2. Others(t)
    BY <1>4, <1>8 DEF Step
  <2> QED BY <1>2, <2>1, <2>2 DEF OneFlush, MarkedOrSaved, Others
<1>9. ASSUME NEW t \in Tasks, FlushBegins(t) PROVE OneFlush' /\ MarkedOrSaved'
  <2>1. /\ UNCHANGED <<cursor, saved, dirty, overtaken>> /\ pc'[t] = "write" /\ dirty = TRUE
        /\ \A u \in Tasks : ~Flushing(u)
    BY <1>0, <1>9 DEF FlushBegins, store, history
  <2>2. Others(t)
    BY <1>4, <1>9 DEF Step
  <2> QED BY <1>2, <2>1, <2>2 DEF OneFlush, MarkedOrSaved, Others
<1>10. ASSUME NEW t \in Tasks, FlushWrites(t) PROVE OneFlush' /\ MarkedOrSaved'
  <2>1. /\ UNCHANGED <<cursor, dirty, overtaken>> /\ pc[t] = "write" /\ pc'[t] = "clear"
        /\ saved' = snap[t] /\ snap'[t] = snap[t]
    BY <1>0, <1>10 DEF FlushWrites, local, history
  <2>2. Others(t)
    BY <1>4, <1>10 DEF Step
  <2>3. dirty
    BY <1>2, <2>1 DEF OneFlush
  <2> QED BY <1>2, <2>1, <2>2, <2>3 DEF OneFlush, MarkedOrSaved, Others
<1>11. ASSUME NEW t \in Tasks, FlushClears(t) PROVE OneFlush' /\ MarkedOrSaved'
  <2>1. /\ UNCHANGED <<cursor, saved>> /\ pc[t] = "clear" /\ pc'[t] = "idle" /\ dirty' = FALSE
        /\ overtaken' = (overtaken \/ cursor # snap[t])
    BY <1>0, <1>11 DEF FlushClears, TaskEnds
  <2>2. Others(t)
    BY <1>4, <1>11 DEF Step
  <2>3. saved = snap[t] /\ \A u \in Tasks : Flushing(u) => u = t
    BY <1>2, <2>1 DEF OneFlush
  <2>4. \A u \in Tasks : ~Flushing(u)'
    BY <2>1, <2>2, <2>3 DEF Others
  <2> QED BY <2>1, <2>3, <2>4 DEF OneFlush, MarkedOrSaved
<1> QED BY <1>1, <1>3, <1>6, <1>7, <1>8, <1>9, <1>10, <1>11 DEF Next, Step

----------------------------------------------------------------------------
\* The inductive invariant holds of every behaviour of the intake.
THEOREM Inductive == Spec => []IInv
<1>1. Init => IInv
  <2> SUFFICES ASSUME Init PROVE IInv
    OBVIOUS
  <2>1. TypeOK /\ AtItsMessage
    <3>1. seen \in Seq(Message) /\ Len(seen) <= DedupSize
      <4>1. seen = <<>> /\ DedupSize \in Nat
        BY SizeAssumption DEF Init
      <4> QED BY <4>1
    <3>2. /\ MaxMessages \in Nat /\ MaxNotes \in Nat /\ MaxFaults \in Nat
          /\ count \in 0 .. MaxMessages
      BY BoundAssumption DEF Init
    <3>3. /\ pc \in [Tasks -> States] /\ at \in [Tasks -> Position] /\ got \in [Tasks -> Position]
          /\ snap \in [Tasks -> Position] /\ more \in [Tasks -> BOOLEAN]
          /\ pos \in [Tasks -> 1 .. MaxMessages + 1] /\ AtItsMessage
      BY <3>2 DEF Init, States, Position, None, AtItsMessage
    <3>4. dirty \in BOOLEAN /\ overtaken \in BOOLEAN
      BY DEF Init
    <3>6. cursor = 0 /\ saved = 0 /\ notes = 0 /\ faults = 0
      BY DEF Init, None
    <3>7. /\ count \in Position /\ cursor \in Position /\ saved \in Position
          /\ notes \in 0 .. MaxNotes /\ faults \in 0 .. MaxFaults
      BY <3>2, <3>6 DEF Position
    <3>5. /\ handed = {} /\ again = {} /\ failed = {} /\ filtered = {}
          /\ forgotten = {} /\ raced = {} /\ dropped = {}
      BY DEF Init
    <3> QED BY <3>1, <3>3, <3>4, <3>5, <3>7 DEF TypeOK
  <2>2. Elements(seen) = {}
    BY DEF Init, Elements
  <2>3. Passed
    <3> SUFFICES ASSUME NEW m \in Message PROVE ~Reached(m)
      BY DEF Passed
    <3>1. m \in Nat \ {0}
      BY BoundAssumption DEF Message
    <3> QED BY <2>2, <3>1 DEF Init, Reached, InPage, None
  <2>4. Twice
    BY DEF Init, Twice, HandedRemembered, SecondExcused, TwiceOnlyForgotten
  <2>5. Quiet
    BY DEF Init, Quiet, OneFlush, MarkedOrSaved, Flushing
  <2> QED BY <2>1, <2>3, <2>4, <2>5 DEF IInv
<1>2. IInv /\ [Next]_vars => IInv'
  <2> SUFFICES ASSUME IInv, [Next]_vars PROVE IInv'
    OBVIOUS
  <2>1. TypeOK /\ AtItsMessage /\ Passed /\ Twice /\ Quiet
    BY DEF IInv
  <2>2. TypeOK' /\ AtItsMessage'
    BY <2>1, TypeStep
  <2>3. Passed'
    BY <2>1, PassedStep
  <2>4. Twice'
    BY <2>1, TwiceStep
  <2>5. Quiet'
    BY <2>1, QuietStep
  <2> QED BY <2>2, <2>3, <2>4, <2>5 DEF IInv
<1> QED BY <1>1, <1>2, PTL DEF Spec

(* The variables of the intake have their types.                            *)
THEOREM TypeCorrect == Spec => []TypeOK
<1> IInv => TypeOK
  BY DEF IInv
<1> QED BY Inductive, PTL

(* No cursor, of a task, in memory or in the file, passes a message over     *)
(* that is not settled, in a task's hands or lost in them by a kill, over    *)
(* overlapping tasks and failures (kf_inbound.rs, kf_cursor.rs).             *)
THEOREM NonePassedOver == Spec => []NothingPassedOver
<1>1. IInv => NothingPassedOver
  <2> SUFFICES ASSUME IInv, NEW m \in Message,
                      \/ m <= cursor \/ m <= saved
                      \/ \E t \in Tasks : pc[t] # "idle" /\ m <= at[t]
               PROVE  Settled(m) \/ InHand(m)
    BY DEF NothingPassedOver
  <2>1. Reached(m)
    BY DEF Reached
  <2> QED BY <2>1 DEF IInv, Passed, Done
<1> QED BY Inductive, <1>1, PTL

(* A message is handed on twice only by a race of two tasks or after the     *)
(* dedup store, which is in memory only, forgot it, being full or killed     *)
(* with the process (kf_dedup.rs).                                           *)
THEOREM TwiceExcused == Spec => []TwiceOnlyForgotten
<1> IInv => TwiceOnlyForgotten
  BY DEF IInv, Twice
<1> QED BY Inductive, PTL

(* Without failures the file has the cursor of the memory when no task runs, *)
(* unless a flush cleared the mark of a later cursor (kf_cursor.rs).         *)
THEOREM QuietSaved == Spec => []QuietMeansSaved
<1> IInv => QuietMeansSaved
  BY DEF IInv, Quiet, MarkedOrSaved, QuietMeansSaved
<1> QED BY Inductive, PTL
============================================================================
