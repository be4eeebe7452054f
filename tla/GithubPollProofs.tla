-------------------------- MODULE GithubPollProofs --------------------------
(***************************************************************************)
(* Proofs about GithubPoll, for any issues, labels and changes, any sizes   *)
(* of the pages and of the key files, and whatever fails or is killed.      *)
(*                                                                          *)
(* A key is safe while it is in memory and in the file: Tracked and Told    *)
(* say that the comments looked at and the issues told about are, but for   *)
(* those some write, read or kill has lost.  Listed follows a comment from  *)
(* its page to where last_poll passes it.  Opened is about the topics: an   *)
(* issue that has some and is missing from a complete list was closed.      *)
(***************************************************************************)
EXTENDS GithubPoll, TLAPS, FiniteSetTheorems, WellFoundedInduction

\* Times are in order.
Clock ==
    /\ since <= now /\ begun <= now /\ asked <= now
    /\ \A c \in comments : 0 < c[1] /\ c[1] <= now

\* What a stage of the cycle has before it.
AtWork ==
    /\ pc \in {"trigger", "compactSeen"} => todo # {}
    /\ pc = "track" => queue # {} /\ FirstComment \in looked
    /\ pc \in {"closed", "end"} => queue = {}
    /\ pc = "sleep" => page = 0 /\ current = {} /\ todo = {}
    /\ pc = "list" => page < IssuePages

\* What was looked at is in memory and file, about to be, or was lost.
Tracked ==
    /\ looked \ untracked \subseteq (processed \cap processedFile)
                                      \cup (IF pc = "track" THEN {FirstComment} ELSE {})
    /\ processed \subseteq looked /\ processedFile \subseteq looked

\* What was told, or is about to be, is in memory and file or was lost.
Told ==
    /\ told \ lost \subseteq seen \cap seenFile
    /\ pc \in {"trigger", "compactSeen"} => FirstIssue \in lost \cup (seen \cap seenFile)

\* Within a cycle what was listed was looked at or is still in the queue.
ListedDone ==
    pc \in {"comment", "track", "compact", "closed", "end"} /\ ~strained =>
        \A c \in comments : begun < c[1] /\ c[1] <= asked => c \in looked \cup queue

Listed == NoneBetweenCycles /\ ListedDone

AfterList ==
    {"issue", "compactSeen", "compactKnown", "trigger", "comment", "track", "compact"}
InCycle == AfterList \cup {"list", "closed"}

\* An issue with topics, or in the list, that is closed was closed since its last
\* report; the pages read have the first of the open ones, and a complete list has
\* all of them, so that one with topics it lacks was closed.
Opened ==
    /\ \A key \in todo : key[1] \in current
    /\ \A i \in live : state[i] # "absent" /\ (state[i] = "closed" => i \in shut)
    /\ \A i \in current : state[i] # "absent"
    /\ pc \in InCycle => \A i \in current : state[i] = "closed" => i \in shut
    /\ pc = "list" /\ ~shifted =>
           \A i \in Open : Rank(i) < page * IssuePage => i \in current
    /\ pc \in AfterList /\ ~shifted => \A i \in live \ current : i \in shut

IInv == TypeOK /\ Clock /\ AtWork /\ Tracked /\ Told /\ Listed /\ Opened

----------------------------------------------------------------------------
LEMMA Least ==
    ASSUME NEW S, S \subseteq Nat, S # {}
    PROVE  \E m \in S : \A n \in S : m <= n
<1>1. PICK m \in S : \A n \in S : ~(<<n, m>> \in OpToRel(<, Nat))
  BY WFMin, NatLessThanWellFounded, Zenon
<1>2. \A n \in S : ~(n < m)
  BY <1>1 DEF OpToRel
<1> QED BY <1>2

\* The first of the comments and issues before the cycle is one of them.
LEMMA FirstCommentIn == TypeOK /\ queue # {} => FirstComment \in queue
<1> SUFFICES ASSUME TypeOK, queue # {} PROVE FirstComment \in queue
  OBVIOUS
<1> DEFINE times == {c[1] : c \in queue}
<1>1. times \subseteq Nat /\ times # {}
  <2>1. \A c \in queue : c[1] \in Time
    BY DEF TypeOK
  <2>2. Time \subseteq Nat
    BY BoundAssumption DEF Time
  <2>3. PICK c \in queue : TRUE
    OBVIOUS
  <2>4. c[1] \in times
    BY <2>3
  <2> QED BY <2>1, <2>2, <2>4
<1>2. PICK m \in times : \A n \in times : m <= n
  <2> HIDE DEF times
  <2> QED BY <1>1, Least
<1>3. PICK c \in queue : c[1] = m
  BY DEF times
<1>4. \A d \in queue : c[1] <= d[1]
  BY <1>2, <1>3
<1> QED BY <1>3, <1>4 DEF FirstComment

LEMMA FirstIssueIn == TypeOK /\ todo # {} => FirstIssue \in todo
<1> SUFFICES ASSUME TypeOK, todo # {} PROVE FirstIssue \in todo
  OBVIOUS
<1> DEFINE numbers == {k[1] : k \in todo}
<1>1. numbers \subseteq Nat /\ numbers # {}
  <2>1. \A k \in todo : k[1] \in Issues
    BY DEF TypeOK, Key
  <2>2. PICK k \in todo : TRUE
    OBVIOUS
  <2>3. k[1] \in numbers
    BY <2>2
  <2> QED BY <2>1, <2>3, IssueAssumption
<1>2. PICK m \in numbers : \A n \in numbers : m <= n
  <2> HIDE DEF numbers
  <2> QED BY <1>1, Least
<1>3. PICK k \in todo : k[1] = m
  BY DEF numbers
<1>4. \A other \in todo : k[1] <= other[1]
  BY <1>2, <1>3
<1> QED BY <1>3, <1>4 DEF FirstIssue

\* What a compaction leaves, done or cut short, is of the keys there were.
LEMMA KeptShape ==
    ASSUME NEW S, NEW file, NEW kept \in Kept(S), NEW rest \in Torn(file, kept)
    PROVE  kept \subseteq S /\ rest \subseteq S \cup file
BY DEF Kept, Torn

LEMMA KeptSeenIn == ASSUME NEW S, NEW kept \in KeptSeen(S) PROVE kept \in Kept(S)
BY DEF KeptSeen

----------------------------------------------------------------------------
LEMMA InitTyped == Init => TypeOK /\ Clock /\ AtWork
<1> SUFFICES ASSUME Init PROVE TypeOK /\ Clock /\ AtWork
  OBVIOUS
<1> USE BoundAssumption
<1>1. PICK l \in Labels : label = [i \in Issues |-> l]
  BY LabelAssumption DEF Init
<1>2. 0 \in Time
  BY DEF Time
<1>3. /\ now \in Time /\ since \in Time /\ begun \in Time /\ asked \in Time
      /\ state \in [Issues -> {"absent", "open", "closed"}]
      /\ label \in [Issues -> Labels] /\ updated \in [Issues -> Time]
  BY <1>1, <1>2 DEF Init
<1>4. /\ comments = {} /\ processed = {} /\ queue = {} /\ seen = {} /\ todo = {}
      /\ processedFile = {} /\ seenFile = {} /\ created = FALSE
      /\ told = {} /\ lost = {} /\ looked = {} /\ untracked = {}
      /\ events = {} /\ cache = {} /\ current = {} /\ triggered = {}
      /\ live = {} /\ deaf = {} /\ shut = {} /\ strained = FALSE /\ shifted = FALSE
      /\ pc = "sleep" /\ page = 0 /\ faults = 0 /\ restarts = 0
      /\ since = 0 /\ begun = 0 /\ asked = 0 /\ now = 0
  BY DEF Init, NoCycle
<1>5. faults \in 0 .. MaxFaults /\ restarts \in 0 .. MaxRestarts /\ page \in 0 .. IssuePages
  BY <1>4, PageAssumption
<1>6. TypeOK
  BY <1>3, <1>4, <1>5 DEF TypeOK
<1>7. Clock /\ AtWork
  BY <1>4 DEF Clock, AtWork
<1> QED BY <1>6, <1>7

\* What the repository's changes leave alone, and the next time.
LEMMA WorldShape ==
    ASSUME TypeOK, World
    PROVE  /\ now' = now + 1 /\ now' \in Time
           /\ UNCHANGED <<memory, files, pc, cycle, budget, marks, begun, asked, strained,
                          live>>
           /\ state' \in [Issues -> {"absent", "open", "closed"}]
           /\ label' \in [Issues -> Labels] /\ updated' \in [Issues -> Time]
           /\ deaf' \subseteq Issues /\ shut' \subseteq Issues /\ shut \subseteq shut'
           /\ shifted' \in BOOLEAN /\ (pc = "list" => shifted') /\ (shifted => shifted')
           /\ \/ comments' = comments
              \/ \E i \in Issues : comments' = comments \cup {<<now + 1, i>>}
           /\ \A i \in Issues :
                  /\ state[i] # "absent" => state'[i] # "absent"
                  /\ state'[i] = "closed" => state[i] = "closed" \/ i \in shut'
<1> USE BoundAssumption DEF Time
<1>1. PICK i \in Issues :
          \/ OpenIssue(i) \/ CloseIssue(i) \/ Comment(i)
          \/ \E l \in Labels : Relabel(i, l)
  BY DEF World
<1>2. /\ now \in 0 .. MaxChanges
      /\ state \in [Issues -> {"absent", "open", "closed"}]
      /\ label \in [Issues -> Labels] /\ updated \in [Issues -> 0 .. MaxChanges]
      /\ deaf \subseteq Issues /\ shut \subseteq Issues /\ shifted \in BOOLEAN
  BY DEF TypeOK
<1>3. Change(i)
  BY <1>1 DEF OpenIssue, CloseIssue, Comment, Relabel
<1>4. /\ now' = now + 1 /\ now' \in Time
      /\ UNCHANGED <<memory, files, pc, cycle, budget, marks, begun, asked, strained, live>>
      /\ updated' \in [Issues -> Time]
      /\ shifted' \in BOOLEAN /\ (pc = "list" => shifted') /\ (shifted => shifted')
  <2>1. now' = now + 1 /\ now' \in 0 .. MaxChanges
    BY <1>2, <1>3 DEF Change
  <2>2. updated' = [updated EXCEPT ![i] = now']
    BY <1>3 DEF Change
  <2>3. updated' \in [Issues -> 0 .. MaxChanges]
    BY <1>2, <2>1, <2>2
  <2>4. shifted' = (shifted \/ pc = "list")
    BY <1>3 DEF Change
  <2>5. shifted' \in BOOLEAN
    BY <2>4, Zenon
  <2>6. UNCHANGED <<memory, files, pc, cycle, budget, marks, begun, asked, strained, live>>
    BY <1>3 DEF Change
  <2> QED BY <2>1, <2>3, <2>4, <2>5, <2>6
<1>5. CASE OpenIssue(i)
  BY <1>2, <1>4, <1>5 DEF OpenIssue
<1>6. CASE CloseIssue(i)
  BY <1>2, <1>4, <1>6 DEF CloseIssue
<1>7. CASE Comment(i)
  BY <1>2, <1>4, <1>7 DEF Comment
<1>8. CASE \E l \in Labels : Relabel(i, l)
  BY <1>2, <1>4, <1>8 DEF Relabel
<1> QED BY <1>1, <1>5, <1>6, <1>7, <1>8

\* The end of a cycle, however it comes.
LEMMA EndsTyped ==
    ASSUME CycleEnds
    PROVE  /\ queue' = {} /\ todo' = {} /\ current' = {} /\ triggered' = {}
           /\ page' = 0 /\ page' \in 0 .. IssuePages
BY PageAssumption DEF CycleEnds

LEMMA FaultCounted ==
    ASSUME TypeOK, Fails \/ faults' = faults
    PROVE  faults' \in 0 .. MaxFaults
BY BoundAssumption DEF TypeOK, Fails

\* What a kill and the reading of the files make of the keys.
LEMMA RestartShape ==
    ASSUME TypeOK, NEW unread \in SUBSET {"seen", "processed"}, Restart(unread)
    PROVE  /\ seenFile' \subseteq seen \cup seenFile
           /\ processedFile' \subseteq processed \cup processedFile
           /\ seen' = {} \/ seen' = seenFile'
           /\ processed' = {} \/ processed' = processedFile'
           /\ since' \in 0 .. now /\ created' \in BOOLEAN
           /\ faults' \in 0 .. MaxFaults
<1>1. seenFile' \subseteq seen \cup seenFile
  <2>1. CASE pc \in {"compactSeen", "compactKnown"}
    <3>1. PICK kept \in KeptSeen(seen) : seenFile' \in Torn(seenFile, kept)
      BY <2>1 DEF Restart
    <3> QED BY <3>1, KeptSeenIn, KeptShape
  <2>2. CASE pc \notin {"compactSeen", "compactKnown"}
    BY <2>2 DEF Restart
  <2> QED BY <2>1, <2>2
<1>2. processedFile' \subseteq processed \cup processedFile
  <2>1. CASE pc = "compact"
    <3>1. PICK kept \in Kept(processed) : processedFile' \in Torn(processedFile, kept)
      BY <2>1 DEF Restart
    <3> QED BY <3>1, KeptShape
  <2>2. CASE pc # "compact"
    BY <2>2 DEF Restart
  <2> QED BY <2>1, <2>2
<1>3. seen' = {} \/ seen' = seenFile'
  BY DEF Restart
<1>4. processed' = {} \/ processed' = processedFile'
  BY DEF Restart
<1>5. since' \in 0 .. now
  <2>1. now \in 0 .. now
    BY BoundAssumption DEF TypeOK, Time
  <2> QED BY <2>1 DEF Restart
<1>6. created' \in BOOLEAN
  <2>1. created \in BOOLEAN
    BY DEF TypeOK
  <2> QED BY <2>1 DEF Restart
<1>7. faults' \in 0 .. MaxFaults
  <2>1. IsFiniteSet({"seen", "processed"})
    <3>1. IsFiniteSet({"seen"}) /\ IsFiniteSet({"processed"})
      BY FS_Singleton
    <3>2. IsFiniteSet({"seen"} \cup {"processed"})
      BY <3>1, FS_Union
    <3>3. {"seen"} \cup {"processed"} = {"seen", "processed"}
      OBVIOUS
    <3> QED BY <3>2, <3>3
  <2>2. Cardinality(unread) \in Nat
    BY <2>1, FS_Subset, FS_CardinalityType
  <2>3. faults' = faults + Cardinality(unread) /\ faults + Cardinality(unread) <= MaxFaults
    BY DEF Restart
  <2>4. faults \in Nat
    BY BoundAssumption DEF TypeOK
  <2> QED BY <2>2, <2>3, <2>4, BoundAssumption
<1> QED BY <1>1, <1>2, <1>3, <1>4, <1>5, <1>6, <1>7

LEMMA TypedStep ==
    ASSUME TypeOK, Clock, AtWork, [Next]_vars
    PROVE  TypeOK'
<1> USE DEF TypeOK
<1>1. CASE UNCHANGED vars
  BY <1>1 DEF vars, repository, memory, files, cycle, budget, history, marks, course, topics
<1>2. CASE World
  <2>1. comments \subseteq comments' /\ comments' \subseteq Time \X Issues
    BY <1>2, WorldShape
  <2>2. UNCHANGED <<memory, files, pc, cycle, budget, marks, begun, asked, strained, live>>
    BY <1>2, WorldShape
  <2>3. /\ now' \in Time /\ state' \in [Issues -> {"absent", "open", "closed"}]
        /\ label' \in [Issues -> Labels] /\ updated' \in [Issues -> Time]
        /\ deaf' \subseteq Issues /\ shut' \subseteq Issues /\ shifted' \in BOOLEAN
    BY <1>2, WorldShape
  <2> QED BY <2>1, <2>2, <2>3 DEF memory, files, cycle, budget, marks
<1>3. CASE ListIssues
  <2>1. todo' \subseteq Key /\ current' \subseteq Issues
    BY <1>3 DEF ListIssues, OnPage, Open, Key
  <2>2. page' \in 0 .. IssuePages /\ pc' \in {"issue", "list"} /\ shifted' \in BOOLEAN
    <3>1. page \in 0 .. IssuePages /\ IssuePages \in Nat
      BY PageAssumption
    <3>2. page < IssuePages
      BY <1>3, PageAssumption DEF ListIssues, AtWork
    <3>3. page' = page + 1 /\ pc' \in {"issue", "list"}
      BY <1>3 DEF ListIssues
    <3>4. shifted' \in BOOLEAN
      BY <1>3 DEF ListIssues
    <3> QED BY <3>1, <3>2, <3>3, <3>4
  <2> QED
    BY <1>3, <2>1, <2>2 DEF ListIssues, repository, memory, files, budget, marks, topics
<1>4. CASE SeeKnown
  <2>1. FirstIssue \in Key /\ FirstIssue[1] \in Issues
    BY <1>4, FirstIssueIn DEF SeeKnown, Key
  <2> QED BY <1>4, <2>1 DEF SeeKnown, repository, files, budget, history, marks, course, topics
<1>5. CASE SeeIssue
  <2>1. FirstIssue \in Key /\ FirstIssue[1] \in Issues
    BY <1>5, FirstIssueIn DEF SeeIssue, Key
  <2>2. /\ cache' \subseteq Issues /\ seen' \subseteq Key /\ seenFile' \subseteq Key
        /\ lost' \subseteq Key /\ pc' \in {"compactSeen", "trigger"}
    BY <1>5, <2>1 DEF SeeIssue
  <2>3. faults' \in 0 .. MaxFaults
    BY <1>5, FaultCounted DEF SeeIssue
  <2> QED BY <1>5, <2>2, <2>3 DEF SeeIssue, repository, cycle, course, topics
<1>6. CASE CompactSeen
  <2>1. seen' \subseteq seen /\ seenFile' \subseteq seen \cup seenFile
    <3>1. seen' \in Kept(seen)
      BY <1>6, KeptSeenIn DEF CompactSeen
    <3>2. seen' \subseteq seen
      BY <3>1 DEF Kept
    <3> QED BY <1>6, <3>2 DEF CompactSeen, Torn
  <2>2. lost' \subseteq Key /\ pc' \in {"trigger", "issue"}
    BY <1>6 DEF CompactSeen
  <2>3. faults' \in 0 .. MaxFaults
    BY <1>6, FaultCounted DEF CompactSeen
  <2> QED BY <1>6, <2>1, <2>2, <2>3 DEF CompactSeen, repository, cycle, course, topics
<1>7. CASE Trigger
  <2>1. FirstIssue \in Key /\ FirstIssue[1] \in Issues
    BY <1>7, FirstIssueIn DEF Trigger, AtWork, Key
  <2>2. /\ told' \subseteq Key /\ live' \subseteq Issues /\ todo' \subseteq Key
        /\ triggered' \subseteq Issues /\ pc' = "issue"
    BY <1>7, <2>1 DEF Trigger
  <2>3. faults' \in 0 .. MaxFaults
    BY <1>7, FaultCounted DEF Trigger
  <2> QED BY <1>7, <2>2, <2>3 DEF Trigger, repository, memory, files, course
<1>8. CASE ListComments
  <2>1. queue' \subseteq comments /\ asked' \in Time /\ strained' \in BOOLEAN
    BY <1>8 DEF ListComments, Page, Since
  <2> QED BY <1>8, <2>1 DEF ListComments, repository, memory, files, budget, marks, topics
<1>9. CASE SkipProcessed
  BY <1>9 DEF SkipProcessed, repository, memory, files, budget, history, marks, course, topics
<1>10. CASE Skip
  <2>1. FirstComment \in comments
    BY <1>10, FirstCommentIn DEF Skip, AtComment
  <2> QED BY <1>10, <2>1 DEF Skip, repository, memory, files, cycle, budget, course, topics
<1>11. CASE HandOn
  <2>1. FirstComment \in comments /\ FirstComment[2] \in Issues
    BY <1>11, FirstCommentIn DEF HandOn, AtComment
  <2>2. /\ triggered' \subseteq Issues /\ live' \subseteq Issues
        /\ looked' \subseteq comments /\ pc' = "track"
    BY <1>11, <2>1 DEF HandOn
  <2>3. faults' \in 0 .. MaxFaults
    BY <1>11, FaultCounted DEF HandOn
  <2> QED BY <1>11, <2>2, <2>3 DEF HandOn, repository, memory, files, course
<1>12. CASE Track
  <2>1. FirstComment \in comments
    BY <1>12, FirstCommentIn DEF Track, AtWork
  <2>2. /\ queue' \subseteq comments /\ processed' \subseteq comments
        /\ processedFile' \subseteq comments /\ untracked' \subseteq comments
        /\ created' \in BOOLEAN /\ pc' \in {"compact", "comment"}
    BY <1>12, <2>1 DEF Track
  <2>3. faults' \in 0 .. MaxFaults
    BY <1>12, FaultCounted DEF Track
  <2> QED BY <1>12, <2>2, <2>3 DEF Track, repository, course, topics
<1>13. CASE CompactComments
  <2>1. processed' \subseteq processed /\ processedFile' \subseteq processed \cup processedFile
    <3>1. processed' \subseteq processed
      BY <1>13 DEF CompactComments, Kept
    <3> QED BY <1>13, <3>1 DEF CompactComments, Torn
  <2>2. untracked' \subseteq comments /\ created' \in BOOLEAN /\ pc' = "comment"
    BY <1>13 DEF CompactComments
  <2>3. faults' \in 0 .. MaxFaults
    BY <1>13, FaultCounted DEF CompactComments
  <2> QED BY <1>13, <2>1, <2>2, <2>3 DEF CompactComments, repository, cycle, course, topics
<1>14. CASE DetectClosed
  <2>1. /\ live' \subseteq Issues /\ shut' \subseteq Issues /\ events' \subseteq Issues
        /\ cache' \subseteq Issues /\ pc' = "closed"
    BY <1>14 DEF DetectClosed, Gone
  <2> QED BY <1>14, <2>1 DEF DetectClosed, repository, files, cycle, budget, marks, course
<1>15. CASE ListClosed
  <2>1. /\ live' \subseteq Issues /\ shut' \subseteq Issues /\ events' \subseteq Issues
        /\ cache' \subseteq Issues /\ pc' = "end"
    BY <1>15 DEF ListClosed, ClosedPage, ClosedSince, Closed
  <2> QED BY <1>15, <2>1 DEF ListClosed, repository, files, cycle, budget, marks, course
<1>16. CASE EndCycle
  <2>1. since' \in Time /\ events' \subseteq Issues /\ strained' \in BOOLEAN
    <3>1. since' \in since .. now
      BY <1>16 DEF EndCycle
    <3>2. since' \in Time
      BY <3>1, BoundAssumption DEF Time
    <3> QED BY <1>16, <3>2 DEF EndCycle, Pruned
  <2>2. deaf' \subseteq Issues /\ pc' = "sleep"
    BY <1>16 DEF EndCycle, Closed
  <2>3. CycleEnds
    BY <1>16 DEF EndCycle
  <2> QED
    BY <1>16, <2>1, <2>2, <2>3, EndsTyped DEF EndCycle, repository, files, budget, marks
<1>17. CASE CycleFails
  <2>1. faults' \in 0 .. MaxFaults /\ CycleEnds /\ pc' = "sleep"
    BY <1>17, FaultCounted DEF CycleFails
  <2> QED BY <1>17, <2>1, EndsTyped
          DEF CycleFails, repository, memory, files, history, marks, course, topics
<1>18. CASE \E unread \in SUBSET {"seen", "processed"} : Restart(unread)
  <2>1. PICK unread \in SUBSET {"seen", "processed"} : Restart(unread)
    BY <1>18
  <2>2. /\ seen' \subseteq Key /\ seenFile' \subseteq Key
        /\ processed' \subseteq comments /\ processedFile' \subseteq comments
        /\ since' \in Time /\ begun' \in Time /\ created' \in BOOLEAN
        /\ faults' \in 0 .. MaxFaults
    <3>1. /\ seenFile' \subseteq seen \cup seenFile
          /\ processedFile' \subseteq processed \cup processedFile
          /\ seen' = {} \/ seen' = seenFile'
          /\ processed' = {} \/ processed' = processedFile'
          /\ since' \in 0 .. now /\ created' \in BOOLEAN /\ faults' \in 0 .. MaxFaults
      BY <2>1, RestartShape
    <3>2. since' \in Time
      BY <3>1, BoundAssumption DEF Time
    <3>3. begun' = since'
      BY <2>1 DEF Restart
    <3> QED BY <3>1, <3>2, <3>3
  <2>3. told' \subseteq Key /\ lost' \subseteq Key
    <3>1. pc \in {"trigger", "compactSeen"} => FirstIssue \in Key
      BY FirstIssueIn DEF AtWork
    <3>2. told' \subseteq Key
      BY <2>1, <3>1 DEF Restart
    <3> QED BY <2>1, <3>2 DEF Restart
  <2>4. untracked' \subseteq comments
    <3>1. pc = "track" => FirstComment \in comments
      BY FirstCommentIn DEF AtWork
    <3> QED BY <2>1, <3>1 DEF Restart
  <2>5. /\ restarts' \in 0 .. MaxRestarts /\ events' = {} /\ cache' = {} /\ pc' = "sleep"
        /\ deaf' \subseteq Issues /\ strained' = FALSE /\ CycleEnds
        /\ UNCHANGED <<repository, looked, asked, shifted, shut, live>>
    BY <2>1, BoundAssumption DEF Restart, Closed
  <2> QED BY <2>2, <2>3, <2>4, <2>5, EndsTyped DEF repository
<1> QED
  BY <1>1, <1>2, <1>3, <1>4, <1>5, <1>6, <1>7, <1>8, <1>9, <1>10, <1>11, <1>12,
     <1>13, <1>14, <1>15, <1>16, <1>17, <1>18 DEF Next, Poll

LEMMA ClockStep ==
    ASSUME TypeOK, Clock, AtWork, [Next]_vars
    PROVE  Clock'
<1> USE DEF Clock
<1>t. /\ now \in Nat /\ since \in Nat /\ begun \in Nat /\ asked \in Nat
      /\ comments \subseteq Nat \X Issues
  BY BoundAssumption DEF TypeOK, Time
<1>1. CASE UNCHANGED vars
  BY <1>1 DEF vars, repository, memory, history, course
<1>2. CASE World
  <2>1. now' = now + 1 /\ since' = since /\ begun' = begun /\ asked' = asked
    BY <1>2, WorldShape DEF memory
  <2>2. \A c \in comments' : c \in comments \/ c[1] = now + 1
    BY <1>2, WorldShape
  <2>3. \A c \in comments' : 0 < c[1] /\ c[1] <= now + 1
    <3>1. \A c \in comments : 0 < c[1] /\ c[1] <= now /\ c[1] \in Nat
      BY <1>t
    <3> QED BY <2>2, <3>1, <1>t
  <2> QED BY <2>1, <2>3, <1>t
<1>3. ASSUME UNCHANGED <<now, comments, since, begun, asked>> PROVE Clock'
  BY <1>3
<1>4. CASE ListComments
  BY <1>4, <1>t DEF ListComments, repository, memory
<1>5. CASE EndCycle
  <2>1. since' \in since .. now /\ UNCHANGED <<now, comments, begun, asked>>
    BY <1>5 DEF EndCycle, repository
  <2> QED BY <2>1, <1>t
<1>6. CASE \E unread \in SUBSET {"seen", "processed"} : Restart(unread)
  <2>1. PICK unread \in SUBSET {"seen", "processed"} : Restart(unread)
    BY <1>6
  <2>2. since' \in 0 .. now /\ begun' = since' /\ UNCHANGED <<now, comments, asked>>
    BY <2>1, RestartShape DEF Restart, repository
  <2> QED BY <2>2, <1>t
<1>7. CASE ListIssues
  BY <1>7, <1>3 DEF ListIssues, repository, memory
<1>8. CASE SeeKnown
  BY <1>8, <1>3 DEF SeeKnown, repository, history, course
<1>9. CASE SeeIssue
  BY <1>9, <1>3 DEF SeeIssue, repository, course
<1>10. CASE CompactSeen
  BY <1>10, <1>3 DEF CompactSeen, repository, course
<1>11. CASE Trigger
  BY <1>11, <1>3 DEF Trigger, repository, memory, course
<1>12. CASE SkipProcessed
  BY <1>12, <1>3 DEF SkipProcessed, repository, memory, history, course
<1>13. CASE Skip
  BY <1>13, <1>3 DEF Skip, repository, memory, course
<1>14. CASE HandOn
  BY <1>14, <1>3 DEF HandOn, repository, memory, course
<1>15. CASE Track
  BY <1>15, <1>3 DEF Track, repository, course
<1>16. CASE CompactComments
  BY <1>16, <1>3 DEF CompactComments, repository, course
<1>17. CASE DetectClosed
  BY <1>17, <1>3 DEF DetectClosed, repository, course
<1>18. CASE ListClosed
  BY <1>18, <1>3 DEF ListClosed, repository, course
<1>19. CASE CycleFails
  BY <1>19, <1>3 DEF CycleFails, repository, memory, history, course
<1> QED
  BY <1>1, <1>2, <1>4, <1>5, <1>6, <1>7, <1>8, <1>9, <1>10, <1>11, <1>12,
     <1>13, <1>14, <1>15, <1>16, <1>17, <1>18, <1>19 DEF Next, Poll

LEMMA AtWorkStep ==
    ASSUME TypeOK, Clock, AtWork, [Next]_vars
    PROVE  AtWork'
<1> USE DEF AtWork
<1>1. CASE UNCHANGED vars
  BY <1>1 DEF vars, cycle, history, marks, FirstComment
<1>2. CASE World
  <2>1. UNCHANGED <<pc, cycle, marks>>
    BY <1>2, WorldShape
  <2> QED BY <2>1 DEF cycle, marks, FirstComment
<1>3. CASE ListIssues
  <2>1. page' = page + 1 /\ page \in Nat /\ page < IssuePages /\ IssuePages \in Nat
    BY <1>3, PageAssumption DEF ListIssues, TypeOK
  <2>2. pc' = "issue" \/ (pc' = "list" /\ page' # IssuePages)
    BY <1>3 DEF ListIssues
  <2> QED BY <2>1, <2>2
<1>4. CASE SeeKnown
  BY <1>4 DEF SeeKnown
<1>5. CASE SeeIssue
  BY <1>5 DEF SeeIssue, cycle
<1>6. CASE CompactSeen
  BY <1>6 DEF CompactSeen, cycle
<1>7. CASE Trigger
  BY <1>7 DEF Trigger
<1>8. CASE ListComments
  BY <1>8 DEF ListComments
<1>9. CASE SkipProcessed
  BY <1>9 DEF SkipProcessed, AtComment
<1>10. CASE Skip
  BY <1>10 DEF Skip, AtComment, cycle, FirstComment
<1>11. CASE HandOn
  BY <1>11 DEF HandOn, AtComment, FirstComment
<1>12. CASE Track
  BY <1>12 DEF Track
<1>13. CASE CompactComments
  BY <1>13 DEF CompactComments
<1>14. CASE DetectClosed
  BY <1>14 DEF DetectClosed, cycle
<1>15. CASE ListClosed
  BY <1>15 DEF ListClosed, cycle
<1>16. CASE EndCycle
  BY <1>16 DEF EndCycle, CycleEnds
<1>17. CASE CycleFails
  BY <1>17 DEF CycleFails, CycleEnds
<1>18. CASE \E unread \in SUBSET {"seen", "processed"} : Restart(unread)
  BY <1>18 DEF Restart, CycleEnds
<1> QED
  BY <1>1, <1>2, <1>3, <1>4, <1>5, <1>6, <1>7, <1>8, <1>9, <1>10, <1>11, <1>12,
     <1>13, <1>14, <1>15, <1>16, <1>17, <1>18 DEF Next, Poll

----------------------------------------------------------------------------
LEMMA TrackedStep ==
    ASSUME TypeOK, AtWork, Tracked, [Next]_vars
    PROVE  Tracked'
<1> USE DEF Tracked
<1>1. ASSUME UNCHANGED <<looked, untracked, processed, processedFile, queue>>,
             pc # "track", pc' # "track"
      PROVE  Tracked'
  BY <1>1
<1>2. CASE UNCHANGED vars
  BY <1>2 DEF vars, memory, files, cycle, history, marks, FirstComment
<1>3. CASE World
  <2>1. UNCHANGED <<pc, memory, files, cycle, marks>>
    BY <1>3, WorldShape
  <2> QED BY <2>1 DEF memory, files, cycle, marks, FirstComment
<1>4. ASSUME UNCHANGED <<looked, untracked, processed, processedFile>>,
             pc # "track", pc' # "track"
      PROVE  Tracked'
  BY <1>4
<1>5. CASE ListIssues
  BY <1>5, <1>4 DEF ListIssues, memory, files, marks
<1>6. CASE SeeKnown
  BY <1>6, <1>4 DEF SeeKnown, files, history, marks
<1>7. CASE SeeIssue
  BY <1>7, <1>4 DEF SeeIssue
<1>8. CASE CompactSeen
  BY <1>8, <1>4 DEF CompactSeen
<1>9. CASE Trigger
  BY <1>9, <1>4 DEF Trigger, memory, files
<1>10. CASE ListComments
  BY <1>10, <1>4 DEF ListComments, memory, files, marks
<1>11. CASE SkipProcessed
  BY <1>11, <1>4 DEF SkipProcessed, AtComment, memory, files, history, marks
<1>12. CASE Skip \/ HandOn
  <2>1. /\ looked' = looked \cup {FirstComment} /\ pc' = "track" /\ pc # "track"
        /\ UNCHANGED <<untracked, processed, processedFile, queue>>
    BY <1>12 DEF Skip, HandOn, AtComment, memory, files, cycle
  <2>2. FirstComment' = FirstComment
    BY <2>1 DEF FirstComment
  <2> QED BY <2>1, <2>2
<1>13. CASE Track
  <2>1. /\ processed' = processed \cup {FirstComment} /\ looked' = looked
        /\ \/ /\ processedFile' = processedFile \cup {FirstComment}
              /\ untracked' = untracked \ {FirstComment}
           \/ /\ processedFile' = processedFile
              /\ untracked' = untracked \cup {FirstComment}
        /\ pc' # "track" /\ FirstComment \in looked
    BY <1>13 DEF Track, AtWork
  <2>2. looked \ untracked \subseteq (processed \cap processedFile) \cup {FirstComment}
    BY <1>13 DEF Track
  <2> HIDE DEF FirstComment
  <2> QED BY <2>1, <2>2
<1>14. CASE CompactComments
  <2>1. processed' \subseteq processed
    BY <1>14 DEF CompactComments, Kept
  <2>2. processedFile' \subseteq processed \cup processedFile
    BY <1>14, <2>1 DEF CompactComments, Torn
  <2>3. /\ untracked' = untracked \cup (processed \ (processed' \cap processedFile'))
        /\ looked' = looked /\ pc # "track" /\ pc' # "track"
    BY <1>14 DEF CompactComments
  <2> QED BY <2>1, <2>2, <2>3
<1>15. CASE DetectClosed
  BY <1>15, <1>4 DEF DetectClosed, files, marks
<1>16. CASE ListClosed
  BY <1>16, <1>4 DEF ListClosed, files, marks
<1>17. CASE EndCycle
  BY <1>17, <1>4 DEF EndCycle, files, marks
<1>18. CASE CycleFails
  BY <1>18, <1>4 DEF CycleFails, memory, files, history, marks
<1>19. CASE \E unread \in SUBSET {"seen", "processed"} : Restart(unread)
  <2>1. PICK unread \in SUBSET {"seen", "processed"} : Restart(unread)
    BY <1>19
  <2>2. /\ processedFile' \subseteq processed \cup processedFile
        /\ processed' = {} \/ processed' = processedFile'
        /\ looked' = looked /\ pc' = "sleep"
    BY <2>1, RestartShape DEF Restart
  <2>3. processed' \subseteq looked' /\ processedFile' \subseteq looked'
    BY <2>2
  <2>4. looked' \ untracked' \subseteq processed' \cap processedFile'
    <3>1. CASE pc = "compact" \/ "processed" \in unread
      <4>1. untracked' = untracked \cup (looked \ processed')
        BY <2>1, <3>1 DEF Restart
      <4>2. looked \ untracked' \subseteq processed'
        BY <4>1
      <4> QED BY <2>2, <4>2
    <3>2. CASE pc # "compact" /\ "processed" \notin unread
      <4>1. processedFile' = processedFile /\ processed' = processedFile'
        BY <2>1, <3>2 DEF Restart
      <4>2. untracked' = untracked \cup (IF pc = "track" THEN {FirstComment} ELSE {})
        BY <2>1, <3>2 DEF Restart
      <4> HIDE DEF FirstComment
      <4> QED BY <2>2, <4>1, <4>2
    <3> QED BY <3>1, <3>2
  <2> QED BY <2>2, <2>3, <2>4
<1> QED
  BY <1>2, <1>3, <1>5, <1>6, <1>7, <1>8, <1>9, <1>10, <1>11, <1>12,
     <1>13, <1>14, <1>15, <1>16, <1>17, <1>18, <1>19 DEF Next, Poll

LEMMA ToldStep ==
    ASSUME TypeOK, AtWork, Told, [Next]_vars
    PROVE  Told'
<1> USE DEF Told
<1>1. ASSUME UNCHANGED <<told, lost, seen, seenFile>>, pc' \notin {"trigger", "compactSeen"}
      PROVE  Told'
  BY <1>1
<1>2. CASE UNCHANGED vars
  BY <1>2 DEF vars, memory, files, cycle, history, marks, FirstIssue
<1>3. CASE World
  <2>1. UNCHANGED <<pc, memory, files, cycle, marks>>
    BY <1>3, WorldShape
  <2> QED BY <2>1 DEF memory, files, cycle, marks, FirstIssue
<1>5. CASE ListIssues
  BY <1>5, <1>1 DEF ListIssues, memory, files, marks
<1>6. CASE SeeKnown
  BY <1>6, <1>1 DEF SeeKnown, files, history, marks
<1>7. CASE SeeIssue
  <2>1. /\ seen' = seen \cup {FirstIssue} /\ told' = told
        /\ \/ seenFile' = seenFile \cup {FirstIssue} /\ lost' = lost \ {FirstIssue}
           \/ seenFile' = seenFile /\ lost' = lost \cup {FirstIssue}
    BY <1>7 DEF SeeIssue
  <2>2. FirstIssue' = FirstIssue
    BY <1>7 DEF SeeIssue, cycle, FirstIssue
  <2> HIDE DEF FirstIssue
  <2> QED BY <2>1, <2>2
<1>8. CASE CompactSeen
  <2>1. seen' \subseteq seen
    BY <1>8, KeptSeenIn DEF CompactSeen, Kept
  <2>2. lost' = lost \cup (seen \ (seen' \cap seenFile')) /\ told' = told
    BY <1>8 DEF CompactSeen
  <2>3. FirstIssue' = FirstIssue
    BY <1>8 DEF CompactSeen, cycle, FirstIssue
  <2>4. pc' = "trigger" => FirstIssue \in lost \cup (seen \cap seenFile)
    BY <1>8 DEF CompactSeen
  <2>5. pc' # "compactSeen"
    BY <1>8 DEF CompactSeen
  <2> HIDE DEF FirstIssue
  <2> QED BY <2>1, <2>2, <2>3, <2>4, <2>5
<1>9. CASE Trigger
  <2>1. /\ told' = told \cup {FirstIssue} /\ pc' = "issue"
        /\ UNCHANGED <<lost, seen, seenFile>>
    BY <1>9 DEF Trigger, memory, files
  <2>2. FirstIssue \in lost \cup (seen \cap seenFile)
    BY <1>9 DEF Trigger
  <2> HIDE DEF FirstIssue
  <2> QED BY <2>1, <2>2
<1>10. CASE ListComments
  BY <1>10, <1>1 DEF ListComments, memory, files, marks
<1>11. CASE SkipProcessed
  BY <1>11, <1>1 DEF SkipProcessed, AtComment, memory, files, history, marks
<1>12. CASE Skip
  BY <1>12, <1>1 DEF Skip, memory, files
<1>13. CASE HandOn
  BY <1>13, <1>1 DEF HandOn, memory, files
<1>14. CASE Track
  BY <1>14, <1>1 DEF Track
<1>15. CASE CompactComments
  BY <1>15, <1>1 DEF CompactComments
<1>16. CASE DetectClosed
  BY <1>16, <1>1 DEF DetectClosed, files, marks
<1>17. CASE ListClosed
  BY <1>17, <1>1 DEF ListClosed, files, marks
<1>18. CASE EndCycle
  BY <1>18, <1>1 DEF EndCycle, files, marks
<1>19. CASE CycleFails
  BY <1>19, <1>1 DEF CycleFails, memory, files, history, marks
<1>20. CASE \E unread \in SUBSET {"seen", "processed"} : Restart(unread)
  <2>1. PICK unread \in SUBSET {"seen", "processed"} : Restart(unread)
    BY <1>20
  <2>2. /\ seen' = {} \/ seen' = seenFile'
        /\ told' = told \cup (IF pc \in {"trigger", "compactSeen"} THEN {FirstIssue} ELSE {})
        /\ pc' = "sleep"
    BY <2>1, RestartShape DEF Restart
  <2>3. told' \ lost' \subseteq seen' \cap seenFile'
    <3>1. CASE pc \in {"compactSeen", "compactKnown"} \/ "seen" \in unread
      <4>1. lost' = lost \cup (told' \ seen')
        BY <2>1, <3>1 DEF Restart
      <4> QED BY <2>2, <4>1
    <3>2. CASE pc \notin {"compactSeen", "compactKnown"} /\ "seen" \notin unread
      <4>1. seenFile' = seenFile /\ seen' = seenFile' /\ lost' = lost
        BY <2>1, <3>2 DEF Restart
      <4> HIDE DEF FirstIssue
      <4> QED BY <2>2, <3>2, <4>1
    <3> QED BY <3>1, <3>2
  <2> QED BY <2>2, <2>3
<1> QED
  BY <1>2, <1>3, <1>5, <1>6, <1>7, <1>8, <1>9, <1>10, <1>11, <1>12,
     <1>13, <1>14, <1>15, <1>16, <1>17, <1>18, <1>19, <1>20 DEF Next, Poll

LEMMA ListedStep ==
    ASSUME TypeOK, Clock, AtWork, Tracked, Listed, [Next]_vars
    PROVE  Listed'
<1> USE DEF Listed, NoneBetweenCycles, ListedDone
<1>t. /\ now \in Nat /\ since \in Nat /\ begun \in Nat /\ asked \in Nat
      /\ since <= now /\ asked <= now /\ \A c \in comments : c[1] \in Nat /\ c[1] <= now
  BY BoundAssumption DEF TypeOK, Time, Clock
<1> DEFINE Late == {"comment", "track", "compact", "closed", "end"}
<1>1. ASSUME UNCHANGED <<comments, begun, since, asked, strained>>, looked \subseteq looked',
             pc' \in Late => pc \in Late /\ looked \cup queue \subseteq looked' \cup queue'
      PROVE  Listed'
  BY <1>1
<1>2. CASE UNCHANGED vars
  BY <1>2, <1>1 DEF vars, repository, memory, cycle, history, marks, course
<1>3. CASE World
  <2>1. /\ \A c \in comments' : c \in comments \/ c[1] = now + 1
        /\ UNCHANGED <<pc, queue, looked, begun, since, asked, strained>>
    BY <1>3, WorldShape DEF memory, cycle, marks
  <2>2. \A c \in comments' : c[1] <= since \/ c[1] <= asked => c \in comments
    BY <2>1, <1>t
  <2> QED BY <2>1, <2>2
<1>5. CASE ListIssues
  BY <1>5, <1>1 DEF ListIssues, repository, memory, marks
<1>6. CASE SeeKnown
  BY <1>6, <1>1 DEF SeeKnown, repository, history, marks, course
<1>7. CASE SeeIssue
  BY <1>7, <1>1 DEF SeeIssue, repository, cycle, course
<1>8. CASE CompactSeen
  BY <1>8, <1>1 DEF CompactSeen, repository, cycle, course
<1>9. CASE Trigger
  BY <1>9, <1>1 DEF Trigger, repository, memory, course
<1>10. CASE ListComments
  <2>1. /\ queue' = Page /\ asked' = now /\ (strained' <=> strained \/ Page # Since)
        /\ UNCHANGED <<comments, looked, begun, since>>
    BY <1>10 DEF ListComments, repository, memory, marks
  <2>2. Since = {c \in comments : c[1] > since}
    BY DEF Since
  <2>3. \A c \in comments : ~(c[1] > since) => c[1] <= since
    BY <1>t
  <2> QED BY <2>1, <2>2, <2>3
<1>11. CASE SkipProcessed
  <2>1. FirstComment \in looked
    BY <1>11 DEF SkipProcessed, Tracked
  <2>2. /\ queue' = queue \ {FirstComment} /\ pc = "comment"
        /\ UNCHANGED <<comments, begun, since, asked, strained, looked, pc>>
    BY <1>11 DEF SkipProcessed, AtComment, repository, memory, history, marks, course
  <2> HIDE DEF FirstComment
  <2> QED BY <2>1, <2>2
<1>12. CASE Skip \/ HandOn
  <2>1. /\ looked' = looked \cup {FirstComment} /\ pc = "comment" /\ pc' = "track"
        /\ UNCHANGED <<comments, begun, since, asked, strained, queue>>
    BY <1>12 DEF Skip, HandOn, AtComment, repository, memory, cycle, course
  <2> HIDE DEF FirstComment
  <2> QED BY <2>1
<1>13. CASE Track
  <2>1. FirstComment \in looked
    BY <1>13 DEF Track, AtWork
  <2>2. /\ queue' = queue \ {FirstComment} /\ pc = "track"
        /\ UNCHANGED <<comments, begun, since, asked, strained, looked>>
    BY <1>13 DEF Track, repository, course
  <2> HIDE DEF FirstComment
  <2> QED BY <2>1, <2>2
<1>14. CASE CompactComments
  BY <1>14, <1>1 DEF CompactComments, repository, cycle, course
<1>15. CASE DetectClosed
  BY <1>15, <1>1 DEF DetectClosed, repository, cycle, marks, course
<1>16. CASE ListClosed
  BY <1>16, <1>1 DEF ListClosed, repository, cycle, marks, course
<1>17. CASE EndCycle
  <2>1. /\ since' \in since .. now /\ (strained' <=> strained \/ since' > asked)
        /\ pc = "end" /\ pc' = "sleep" /\ queue = {}
        /\ UNCHANGED <<comments, looked, begun, asked>>
    BY <1>17 DEF EndCycle, repository, marks, AtWork
  <2>2. \A c \in comments : begun < c[1] /\ c[1] <= since' /\ ~strained' => c[1] <= asked
    BY <2>1, <1>t
  <2> QED BY <2>1, <2>2
<1>18. CASE CycleFails
  BY <1>18, <1>1 DEF CycleFails, repository, memory, history, marks, course
<1>19. CASE \E unread \in SUBSET {"seen", "processed"} : Restart(unread)
  <2>1. PICK unread \in SUBSET {"seen", "processed"} : Restart(unread)
    BY <1>19
  <2>2. since' \in 0 .. now /\ begun' = since' /\ pc' = "sleep" /\ comments' = comments
    BY <2>1, RestartShape DEF Restart, repository
  <2>3. \A c \in comments' : ~(begun' < c[1] /\ c[1] <= since')
    BY <2>2, <1>t
  <2> QED BY <2>2, <2>3
<1> QED
  BY <1>2, <1>3, <1>5, <1>6, <1>7, <1>8, <1>9, <1>10, <1>11, <1>12,
     <1>13, <1>14, <1>15, <1>16, <1>17, <1>18, <1>19 DEF Next, Poll

----------------------------------------------------------------------------
\* There are fewer issues before an open one than there are open ones.
LEMMA RankBelow ==
    ASSUME TypeOK, NEW i \in Open
    PROVE  Rank(i) \in Nat /\ Cardinality(Open) \in Nat /\ Rank(i) < Cardinality(Open)
<1> DEFINE before == {other \in Open : updated[other] > updated[i]}
<1>1. IsFiniteSet(Open)
  BY IssueAssumption, FS_Subset DEF Open
<1>2. i \notin before
  <2>1. updated[i] \in Nat
    BY BoundAssumption DEF TypeOK, Time, Open
  <2>2. ~(updated[i] > updated[i])
    BY <2>1
  <2> QED BY <2>2
<1>3. before \in SUBSET Open /\ before # Open
  BY <1>2
<1>4. Rank(i) = Cardinality(before)
  BY DEF Rank
<1> HIDE DEF before
<1>5. /\ IsFiniteSet(before) /\ Cardinality(before) <= Cardinality(Open)
      /\ Cardinality(before) # Cardinality(Open)
  BY <1>1, <1>3, FS_Subset
<1>6. Cardinality(before) \in Nat /\ Cardinality(Open) \in Nat
  BY <1>1, <1>5, FS_CardinalityType
<1> QED BY <1>4, <1>5, <1>6

\* The pages so far have the first of the open issues; the last one, all of them.
LEMMA PagesFilled ==
    ASSUME TypeOK, AtWork, Opened, ListIssues, ~shifted'
    PROVE  /\ \A i \in Open : Rank(i) < page' * IssuePage => i \in current'
           /\ pc' = "issue" => Open \subseteq current'
<1>t. /\ page \in Nat /\ IssuePage \in Nat /\ IssuePages \in Nat
      /\ Cardinality(Open) \in Nat
  <2>1. IsFiniteSet(Open)
    BY IssueAssumption, FS_Subset DEF Open
  <2> QED BY <2>1, FS_CardinalityType, PageAssumption DEF TypeOK
<1>1. page' = page + 1 /\ (page' - 1) * IssuePage = page * IssuePage
  BY <1>t DEF ListIssues
<1>2. \A i \in Open : Rank(i) < page * IssuePage => i \in current
  <2>1. CASE pc = "sleep"
    <3>1. page * IssuePage = 0
      BY <2>1, <1>t DEF AtWork
    <3>2. \A i \in Open : Rank(i) \in Nat
      BY RankBelow
    <3> QED BY <3>1, <3>2
  <2>2. CASE pc = "list"
    BY <2>2 DEF Opened, ListIssues
  <2> QED BY <2>1, <2>2 DEF ListIssues
<1>3. \A i \in Open : Rank(i) < page' * IssuePage => i \in current'
  <2> SUFFICES ASSUME NEW i \in Open, Rank(i) < page' * IssuePage PROVE i \in current'
    OBVIOUS
  <2>1. current' = current \cup OnPage(page')
    BY DEF ListIssues
  <2>2. CASE Rank(i) < page * IssuePage
    BY <2>1, <2>2, <1>2
  <2>3. CASE ~(Rank(i) < page * IssuePage)
    <3>1. Rank(i) \in Nat /\ page * IssuePage \in Nat
      BY RankBelow, <1>t
    <3>2. (page' - 1) * IssuePage <= Rank(i)
      BY <3>1, <2>3, <1>1
    <3>3. i \in OnPage(page')
      BY <3>2 DEF OnPage
    <3> QED BY <2>1, <3>3
  <2> QED BY <2>2, <2>3
<1>4. ASSUME pc' = "issue" PROVE Open \subseteq current'
  <2>1. Cardinality(Open) <= page' * IssuePage
    <3>1. NotFull(page') \/ page' = IssuePages
      BY <1>4 DEF ListIssues
    <3>2. page' * IssuePage \in Nat
      BY <1>1, <1>t
    <3>3. CASE NotFull(page')
      BY <3>2, <3>3, <1>t DEF NotFull
    <3>4. CASE page' = IssuePages
      <4>1. ~(Cardinality(Open) > IssuePages * IssuePage)
        BY <3>4 DEF ListIssues
      <4>2. ~(Cardinality(Open) > page' * IssuePage)
        BY <4>1, <3>4
      <4> QED BY <4>2, <3>2, <1>t
    <3> QED BY <3>1, <3>3, <3>4
  <2>2. page' * IssuePage \in Nat
    BY <1>1, <1>t
  <2>3. \A i \in Open : Rank(i) < page' * IssuePage
    <3> TAKE i \in Open
    <3>1. Rank(i) \in Nat /\ Rank(i) < Cardinality(Open)
      BY RankBelow
    <3> QED BY <3>1, <2>1, <2>2, <1>t
  <2> QED BY <2>3, <1>3
<1> QED BY <1>3, <1>4

LEMMA OpenedStep ==
    ASSUME TypeOK, AtWork, Opened, [Next]_vars
    PROVE  Opened'
<1>1. CASE UNCHANGED vars
  BY <1>1 DEF Opened, Open, Rank, vars, repository, cycle, history, course, topics
<1>2. CASE World
  <2>1. /\ UNCHANGED <<pc, todo, current, live>> /\ shut \subseteq shut'
        /\ (pc = "list" => shifted') /\ (shifted => shifted')
        /\ \A i \in Issues :
               /\ state[i] # "absent" => state'[i] # "absent"
               /\ state'[i] = "closed" => state[i] = "closed" \/ i \in shut'
    BY <1>2, WorldShape DEF cycle
  <2>2. live \subseteq Issues /\ current \subseteq Issues
    BY DEF TypeOK
  <2> QED BY <2>1, <2>2 DEF Opened
<1>3. CASE ListIssues
  <2>1. /\ UNCHANGED <<state, updated, live, shut>> /\ pc' \in {"list", "issue"}
        /\ todo' = todo \cup {<<i, label[i]>> : i \in OnPage(page')}
        /\ current' = current \cup OnPage(page')
        /\ pc \in {"sleep", "list"}
    BY <1>3 DEF ListIssues, repository, topics
  <2>2. Open' = Open /\ \A i : Rank(i)' = Rank(i)
    BY <2>1 DEF Open, Rank
  <2>3. OnPage(page') \subseteq Open /\ \A i \in Open : i \in Issues /\ state[i] = "open"
    BY DEF OnPage, Open
  <2>4. \A key \in todo' : key[1] \in current'
    BY <2>1 DEF Opened
  <2>5. \A i \in live : state[i] # "absent" /\ (state[i] = "closed" => i \in shut)
    BY DEF Opened
  <2>6. \A i \in current' : state[i] # "absent" /\ (state[i] = "closed" => i \in shut)
    <3>1. pc = "sleep" => current = {}
      BY DEF AtWork
    <3>2. pc = "list" => \A i \in current : state[i] = "closed" => i \in shut
      BY DEF Opened, InCycle, AfterList
    <3>3. \A i \in current : state[i] # "absent"
      BY DEF Opened
    <3> QED BY <2>1, <2>3, <3>1, <3>2, <3>3
  <2>7. ~shifted' => \A i \in Open : Rank(i) < page' * IssuePage => i \in current'
    BY <1>3, PagesFilled
  <2>8. pc' = "issue" /\ ~shifted' => \A i \in live \ current' : i \in shut
    <3>1. pc' = "issue" /\ ~shifted' => Open \subseteq current'
      BY <1>3, PagesFilled
    <3>2. live \subseteq Issues /\ state \in [Issues -> {"absent", "open", "closed"}]
      BY DEF TypeOK
    <3>3. \A i \in live : i \in Open \/ i \in shut
      BY <2>5, <3>2 DEF Open
    <3> QED BY <3>1, <3>3
  <2>9. pc' = "list" /\ ~shifted' =>
          \A i \in Open' : Rank(i)' < page' * IssuePage => i \in current'
    BY <2>2, <2>7
  <2>10. pc' \in AfterList => pc' = "issue"
    BY <2>1 DEF AfterList
  <2> QED BY <2>1, <2>4, <2>5, <2>6, <2>8, <2>9, <2>10 DEF Opened
<1>4. ASSUME UNCHANGED <<state, current, live, shut, shifted>>, todo' \subseteq todo,
             pc \in InCycle, pc' \notin {"list"},
             pc' \in AfterList => pc \in AfterList
      PROVE  Opened'
  BY <1>4 DEF Opened
<1>5. CASE SeeKnown
  BY <1>5, <1>4 DEF SeeKnown, repository, history, course, topics, InCycle, AfterList
<1>6. CASE SeeIssue
  BY <1>6, <1>4 DEF SeeIssue, repository, cycle, course, topics, InCycle, AfterList
<1>7. CASE CompactSeen
  BY <1>7, <1>4 DEF CompactSeen, repository, cycle, course, topics, InCycle, AfterList
<1>8. ASSUME UNCHANGED <<state, current, shut, shifted>>, todo' \subseteq todo,
             pc \in AfterList, pc' \in AfterList, live' \subseteq live \cup current
      PROVE  Opened'
  <2>1. pc \in InCycle /\ pc' \in InCycle /\ pc' # "list"
    BY <1>8 DEF AfterList, InCycle
  <2> QED BY <1>8, <2>1 DEF Opened
<1>9. CASE Trigger
  <2>1. FirstIssue[1] \in current
    BY <1>9, FirstIssueIn DEF Trigger, AtWork, Opened
  <2>2. live' \subseteq live \cup current /\ todo' \subseteq todo
    BY <1>9, <2>1 DEF Trigger
  <2>3. pc \in AfterList /\ pc' \in AfterList /\ UNCHANGED <<state, current, shut, shifted>>
    BY <1>9 DEF Trigger, AfterList, repository, course
  <2> QED BY <2>2, <2>3, <1>8
<1>10. CASE ListComments
  BY <1>10, <1>4 DEF ListComments, repository, topics, InCycle, AfterList
<1>11. CASE SkipProcessed
  BY <1>11, <1>4
     DEF SkipProcessed, AtComment, repository, history, course, topics, InCycle, AfterList
<1>12. CASE Skip
  BY <1>12, <1>4 DEF Skip, AtComment, repository, cycle, course, topics, InCycle, AfterList
<1>13. CASE HandOn
  <2>1. FirstComment[2] \in current /\ live' \subseteq live \cup current
    BY <1>13 DEF HandOn
  <2>2. /\ pc \in AfterList /\ pc' \in AfterList
        /\ UNCHANGED <<state, current, shut, shifted, todo>>
    BY <1>13 DEF HandOn, AtComment, AfterList, repository, course
  <2> QED BY <2>1, <2>2, <1>8
<1>14. CASE Track
  BY <1>14, <1>4 DEF Track, repository, course, topics, InCycle, AfterList
<1>15. CASE CompactComments
  BY <1>15, <1>4 DEF CompactComments, repository, cycle, course, topics, InCycle, AfterList
<1>16. CASE DetectClosed
  <2>1. /\ UNCHANGED <<state, current, todo>> /\ pc = "comment" /\ pc' = "closed"
        /\ live' = live \ (Gone \ events) /\ shut' = shut \ (Gone \ events)
    BY <1>16 DEF DetectClosed, repository, cycle
  <2>2. \A i \in current : i \notin Gone
    BY DEF Gone
  <2>3. \A i \in current : state[i] = "closed" => i \in shut
    BY <2>1 DEF Opened, InCycle, AfterList
  <2>4. \A i \in live : state[i] # "absent" /\ (state[i] = "closed" => i \in shut)
    BY DEF Opened
  <2>5. /\ \A key \in todo : key[1] \in current
        /\ \A i \in current : state[i] # "absent"
    BY DEF Opened
  <2> QED BY <2>1, <2>2, <2>3, <2>4, <2>5 DEF Opened, AfterList
<1>17. CASE ListClosed
  <2>1. /\ UNCHANGED <<state, current, todo>> /\ pc' = "end"
        /\ live' = live \ (ClosedPage \ events) /\ shut' = shut \ (ClosedPage \ events)
    BY <1>17 DEF ListClosed, repository, cycle
  <2>2. /\ \A i \in live : state[i] # "absent" /\ (state[i] = "closed" => i \in shut)
        /\ \A key \in todo : key[1] \in current
        /\ \A i \in current : state[i] # "absent"
    BY DEF Opened
  <2> QED BY <2>1, <2>2 DEF Opened, InCycle, AfterList
<1>18. ASSUME CycleEnds, pc' = "sleep", UNCHANGED <<state, live, shut>>
       PROVE  Opened'
  <2>1. todo' = {} /\ current' = {}
    BY <1>18 DEF CycleEnds
  <2> QED BY <1>18, <2>1 DEF Opened, InCycle, AfterList
<1>19. CASE EndCycle
  BY <1>19, <1>18 DEF EndCycle, repository
<1>20. CASE CycleFails
  BY <1>20, <1>18 DEF CycleFails, repository, history, topics
<1>21. CASE \E unread \in SUBSET {"seen", "processed"} : Restart(unread)
  BY <1>21, <1>18 DEF Restart, repository
<1> QED
  BY <1>1, <1>2, <1>3, <1>5, <1>6, <1>7, <1>9, <1>10, <1>11, <1>12,
     <1>13, <1>14, <1>15, <1>16, <1>17, <1>19, <1>20, <1>21 DEF Next, Poll

----------------------------------------------------------------------------
LEMMA Inductive == Spec => []IInv
<1>1. Init => IInv
  <2> SUFFICES ASSUME Init PROVE IInv
    OBVIOUS
  <2>1. /\ comments = {} /\ processed = {} /\ processedFile = {} /\ looked = {}
        /\ told = {} /\ lost = {} /\ live = {} /\ current = {} /\ todo = {} /\ pc = "sleep"
    BY DEF Init, NoCycle
  <2>2. Tracked /\ Told
    BY <2>1 DEF Tracked, Told
  <2>3. Listed
    BY <2>1 DEF Listed, ListedDone, NoneBetweenCycles
  <2>4. Opened
    BY <2>1 DEF Opened, AfterList, InCycle
  <2> QED BY <2>2, <2>3, <2>4, InitTyped DEF IInv
<1>2. IInv /\ [Next]_vars => IInv'
  BY TypedStep, ClockStep, AtWorkStep, TrackedStep, ToldStep, ListedStep, OpenedStep DEF IInv
<1> QED BY <1>1, <1>2, PTL DEF Spec

\* The variables keep their types.
THEOREM TypeCorrect == Spec => []TypeOK
<1>1. IInv => TypeOK
  BY DEF IInv
<1> QED BY <1>1, Inductive, PTL

\* No comment falls between two cycles: however the repository changes between the
\* requests of a cycle and whichever of them fails, what was made since polling began
\* and before last_poll was looked at, if every page of comments had room for what
\* was new and no cycle of the process overtook its own list by 30 seconds.
THEOREM NoneMissedBetween == Spec => []NoneBetweenCycles
<1>1. IInv => NoneBetweenCycles
  BY DEF IInv, Listed
<1> QED BY <1>1, Inductive, PTL

\* A comment is handed on again only after its key was lost from the memory or the
\* file: by a kill before the line, a write, a reading or a compaction that failed,
\* or a compaction that dropped it.
THEOREM TwiceExcused == Spec => TwiceOnlyUntracked
<1>1. IInv /\ [Next]_vars => [HandOn => FirstComment \notin looked \ untracked]_vars
  <2> SUFFICES ASSUME IInv, HandOn PROVE FirstComment \notin looked \ untracked
    OBVIOUS
  <2>1. pc = "comment" /\ FirstComment \notin processed
    BY DEF HandOn, AtComment
  <2>2. looked \ untracked \subseteq processed
    BY <2>1 DEF IInv, Tracked
  <2> QED BY <2>1, <2>2
<1> QED BY <1>1, Inductive, PTL DEF Spec, TwiceOnlyUntracked

\* The same of the labels an open issue is seen with, and the trigger they are.
THEOREM TriggerOnce == Spec => TriggersOnce
<1>1. IInv /\ [Next]_vars =>
        [pc = "issue" /\ pc' \in {"trigger", "compactSeen"}
             => FirstIssue \notin told \ lost]_vars
  <2> SUFFICES ASSUME IInv, [Next]_vars, pc = "issue", pc' \in {"trigger", "compactSeen"}
               PROVE  FirstIssue \notin told \ lost
    OBVIOUS
  <2>1. ~UNCHANGED vars /\ ~World
    <3>1. World => pc' = pc
      BY WorldShape DEF IInv
    <3> QED BY <3>1 DEF vars
  <2>2. SeeIssue
    BY <2>1 DEF Next, Poll, ListIssues, SeeKnown, CompactSeen, Trigger, ListComments,
                SkipProcessed, Skip, HandOn, AtComment, Track, CompactComments, DetectClosed,
                ListClosed, EndCycle, CycleFails, Restart
  <2>3. FirstIssue \notin seen
    BY <2>2 DEF SeeIssue, IsNew
  <2>4. told \ lost \subseteq seen
    BY DEF IInv, Told
  <2> QED BY <2>3, <2>4
<1> QED BY <1>1, Inductive, PTL DEF Spec, TriggersOnce

\* The topics of an issue are closed only for a closure of it, each reported once,
\* unless the list of the open issues shifted between two of its pages, or was longer
\* than the pages hold.
THEOREM OpenNeverEnds == Spec => OnlyClosedEnd
<1>1. IInv /\ [Next]_vars => [\A i \in live \ live' : i \in shut \/ shifted]_vars
  <2> SUFFICES ASSUME IInv, Next, NEW i \in live \ live' PROVE i \in shut \/ shifted
    OBVIOUS
  <2>1. CASE DetectClosed
    <3>1. i \notin current /\ pc \in AfterList
      BY <2>1 DEF DetectClosed, Gone, AfterList
    <3> QED BY <3>1 DEF IInv, Opened
  <2>2. CASE ListClosed
    <3>1. state[i] = "closed"
      BY <2>2 DEF ListClosed, ClosedPage, ClosedSince, Closed
    <3> QED BY <3>1 DEF IInv, Opened
  <2>3. ~World
    BY WorldShape DEF IInv
  <2>4. DetectClosed \/ ListClosed
    BY <2>3 DEF Next, Poll, ListIssues, SeeKnown, SeeIssue, CompactSeen, Trigger, ListComments,
                SkipProcessed, Skip, HandOn, Track, CompactComments, EndCycle, CycleFails,
                Restart, memory, repository, marks, course, topics, history
  <2> QED BY <2>1, <2>2, <2>4
<1> QED BY <1>1, Inductive, PTL DEF Spec, OnlyClosedEnd
============================================================================
