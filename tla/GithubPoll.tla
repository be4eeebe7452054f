----------------------------- MODULE GithubPoll -----------------------------
(***************************************************************************)
(* The polling of one GitHub repository.  A cycle lists the open issues,    *)
(* page by page, then the comments since the last cycle, then the closed    *)
(* issues, each with a request of its own, while the repository changes     *)
(* between them.  What was processed is in two files, which follow their    *)
(* sets in memory as far as the writes succeed; which issues were cached    *)
(* and which closures were reported is in memory only.                      *)
(*                                                                          *)
(* The time of a change is its number: `since` is the number of the last    *)
(* change that last_poll leaves out.  A pull request is an issue here, and  *)
(* an edit of a comment another comment, as its key has the time.           *)
(***************************************************************************)
EXTENDS Integers, FiniteSets

CONSTANTS
    Issues,       \* the numbers of issues and pull requests
    Labels,       \* what the labels of an issue may be
    IssuePage,    \* the open issues of a page
    IssuePages,   \* the pages a cycle asks for at most
    PageSize,     \* the comments, or closed issues, of the one page of a cycle
    EventsKept,   \* processed_events is cleared above this
    CompactAbove, \* a key file is compacted above this,
    KeysKept,     \* to this many keys
    MaxChanges,   \* bound: changes of the repository
    MaxFaults,    \* bound: requests, callbacks, reads and writes that fail
    MaxRestarts   \* bound: times the process is killed and started again

ASSUME IssueAssumption == Issues \subseteq Nat /\ IsFiniteSet(Issues)
ASSUME LabelAssumption == Labels # {}
ASSUME PageAssumption ==
    IssuePage \in Nat \ {0} /\ IssuePages \in Nat \ {0} /\ PageSize \in Nat \ {0}
ASSUME BoundAssumption ==
    /\ EventsKept \in Nat /\ CompactAbove \in Nat /\ KeysKept \in Nat
    /\ MaxChanges \in Nat /\ MaxFaults \in Nat /\ MaxRestarts \in Nat

Time == 0 .. MaxChanges
Key == Issues \X Labels

VARIABLES
    now,        \* the repository: how often it changed
    state,      \* issue -> absent, open or closed
    label,      \* issue -> its labels
    updated,    \* issue -> updated_at, the time of its last change
    comments,   \* pairs of a time and an issue
    processed,  \* memory: comments done with
    seen,       \* memory: issue and labels that were seen
    events,     \* memory: issues whose closure was reported
    cache,      \* memory: issues that were seen open
    since,      \* memory: last_poll
    processedFile, \* processed-comments.txt,
    created,       \* and whether it exists
    seenFile,      \* seen-issues.txt
    pc,
    page,       \* the cycle's pages of open issues that were read
    todo,       \* the cycle's open issues, with labels, not yet looked at
    current,    \* the cycle's open issues
    triggered,  \* the cycle's issues that had a message
    queue,      \* the cycle's comments not yet looked at
    faults, restarts,
    told,       \* history: keys whose trigger was handed on, or lost to a failure
    lost,       \* history: keys no longer sure to be in memory and file
    looked,     \* history: comments handed on, or left for a reason
    untracked,  \* history: comments no longer sure to be in memory and file
    begun,      \* history: last_poll at the start of the process
    asked,      \* history: when the cycle's comments were listed
    strained,   \* history: in this process a page of comments was too small, or a
                \* cycle ended more than 30 seconds after it had listed them
    shifted,    \* history: the repository changed between the pages of the cycle's
                \* open issues, or had more of them than the pages hold
    shut,       \* history: issues closed, and not reported since
    live,       \* history: issues with topics: a message since the last closure
    deaf        \* history: issues whose last closure nothing can report

repository == <<now, state, label, updated, comments>>
memory == <<processed, seen, events, cache, since>>
files == <<processedFile, created, seenFile>>
cycle == <<page, todo, current, triggered, queue>>
budget == <<faults, restarts>>
marks == <<told, lost, looked, untracked>>
course == <<begun, asked, strained, shifted>>
topics == <<shut, live, deaf>>
history == <<marks, course, topics>>
vars == <<repository, memory, files, pc, cycle, budget, history>>

Open == {i \in Issues : state[i] = "open"}
Closed == {i \in Issues : state[i] = "closed"}

NoCycle == page = 0 /\ todo = {} /\ current = {} /\ triggered = {} /\ queue = {}
CycleEnds == page' = 0 /\ todo' = {} /\ current' = {} /\ triggered' = {} /\ queue' = {}

Fails == faults < MaxFaults /\ faults' = faults + 1

Init ==
    /\ now = 0 /\ state = [i \in Issues |-> "absent"]
    /\ label = [i \in Issues |-> CHOOSE l \in Labels : TRUE]
    /\ updated = [i \in Issues |-> 0] /\ comments = {}
    /\ processed = {} /\ seen = {} /\ events = {} /\ cache = {} /\ since = 0
    /\ processedFile = {} /\ created = FALSE /\ seenFile = {}
    /\ pc = "sleep" /\ NoCycle
    /\ faults = 0 /\ restarts = 0
    /\ told = {} /\ lost = {} /\ looked = {} /\ untracked = {}
    /\ begun = 0 /\ asked = 0 /\ strained = FALSE /\ shifted = FALSE
    /\ shut = {} /\ live = {} /\ deaf = {}

----------------------------------------------------------------------------
\* The repository.

Change(i) ==
    /\ now < MaxChanges /\ now' = now + 1
    /\ updated' = [updated EXCEPT ![i] = now + 1]
    /\ shifted' = (shifted \/ pc = "list")
    /\ UNCHANGED <<memory, files, pc, cycle, budget, marks, begun, asked, strained, live>>

OpenIssue(i) ==
    /\ Change(i) /\ state[i] # "open"
    /\ state' = [state EXCEPT ![i] = "open"]
    /\ UNCHANGED <<label, comments, shut, deaf>>

CloseIssue(i) ==
    /\ Change(i) /\ state[i] = "open"
    /\ state' = [state EXCEPT ![i] = "closed"]
    /\ shut' = shut \cup {i}
    /\ deaf' = IF i \in events THEN deaf \cup {i} ELSE deaf \ {i}
    /\ UNCHANGED <<label, comments>>

Relabel(i, l) ==
    /\ Change(i) /\ state[i] = "open" /\ label[i] # l
    /\ label' = [label EXCEPT ![i] = l]
    /\ UNCHANGED <<state, comments, shut, deaf>>

\* A comment on a closed issue brings it into the list of closed ones again.
Comment(i) ==
    /\ Change(i) /\ state[i] # "absent"
    /\ comments' = comments \cup {<<now + 1, i>>}
    /\ deaf' = IF i \in events THEN deaf ELSE deaf \ {i}
    /\ UNCHANGED <<state, label, shut>>

----------------------------------------------------------------------------
\* The key files.  insert: the set has the key, and the file a line for it unless
\* opening or writing it fails, which nobody hears of; a line is written whole or not
\* at all.  compact: the set is cut to the keys of the highest numbers, then the file
\* is written anew.

Compacts(keys) == Cardinality(keys) > CompactAbove /\ Cardinality(keys) > KeysKept

\* An edit has the number of its comment, so any of the comments may be dropped.
Kept(keys) == {kept \in SUBSET keys : Cardinality(kept) = KeysKept}
KeptSeen(keys) ==
    {kept \in Kept(keys) : \A k \in kept, other \in keys \ kept : other[1] <= k[1]}

\* What a rewriting that fails, or is cut short, leaves of the file.
Torn(file, kept) == {file} \cup SUBSET kept

----------------------------------------------------------------------------
\* 1. The open issues, last updated first: a page that is not full is the last.

Rank(i) == Cardinality({other \in Open : updated[other] > updated[i]})

OnPage(n) == {i \in Open : (n - 1) * IssuePage <= Rank(i) /\ Rank(i) < n * IssuePage}

NotFull(n) == Cardinality(Open) < n * IssuePage

ListIssues ==
    /\ pc \in {"sleep", "list"} /\ page' = page + 1
    /\ todo' = todo \cup {<<i, label[i]>> : i \in OnPage(page')}
    /\ current' = current \cup OnPage(page')
    /\ pc' = IF NotFull(page') \/ page' = IssuePages THEN "issue" ELSE "list"
    /\ shifted' = \/ pc = "list" /\ shifted
                  \/ page' = IssuePages /\ Cardinality(Open) > IssuePages * IssuePage
    /\ UNCHANGED <<repository, memory, files, triggered, queue, budget, marks,
                   begun, asked, strained, topics>>

FirstIssue ==
    CHOOSE k \in todo : \A other \in todo : k[1] <= other[1]

\* Each is cached and seen, and triggers if its key is new.  A set that a restart
\* read back too large is compacted even if it is not.

\* Mutant of IsNew: the labels do not count.
IsNewIssue(key) == \A l \in Labels : <<key[1], l>> \notin seen

IsNew(key) == key \notin seen

SeeKnown ==
    /\ pc = "issue" /\ todo # {} /\ ~IsNew(FirstIssue)
    /\ cache' = cache \cup {FirstIssue[1]}
    /\ todo' = todo \ {FirstIssue}
    /\ pc' = IF Compacts(seen) THEN "compactKnown" ELSE "issue"
    /\ UNCHANGED <<repository, processed, seen, events, since, files, page, current,
                   triggered, queue, budget, history>>

\* Mutant of SeeIssue: what triggers is not remembered.
SeeIssueForgotten ==
    /\ pc = "issue" /\ todo # {} /\ IsNew(FirstIssue)
    /\ cache' = cache \cup {FirstIssue[1]} /\ pc' = "trigger"
    /\ lost' = lost \ {FirstIssue}
    /\ UNCHANGED <<repository, processed, seen, events, since, files, cycle, budget,
                   told, looked, untracked, course, topics>>

SeeIssue ==
    /\ pc = "issue" /\ todo # {} /\ IsNew(FirstIssue)
    /\ cache' = cache \cup {FirstIssue[1]}
    /\ seen' = seen \cup {FirstIssue}
    /\ \/ /\ seenFile' = seenFile \cup {FirstIssue}
          /\ lost' = lost \ {FirstIssue} /\ UNCHANGED faults
       \/ /\ Fails /\ UNCHANGED seenFile
          /\ lost' = lost \cup {FirstIssue}
    /\ pc' = IF Compacts(seen') THEN "compactSeen" ELSE "trigger"
    /\ UNCHANGED <<repository, processed, events, since, processedFile, created, cycle,
                   restarts, told, looked, untracked, course, topics>>

CompactSeen ==
    /\ \/ pc = "compactSeen" /\ pc' = "trigger"
       \/ pc = "compactKnown" /\ pc' = "issue"
    /\ seen' \in KeptSeen(seen)
    /\ \/ seenFile' = seen' /\ UNCHANGED faults
       \/ Fails /\ seenFile' \in Torn(seenFile, seen')
    /\ lost' = lost \cup (seen \ (seen' \cap seenFile'))
    /\ UNCHANGED <<repository, processed, events, cache, since, processedFile, created,
                   cycle, restarts, told, looked, untracked, course, topics>>

\* At most one message for an issue in a cycle.  The callback's error is logged;
\* the key stays seen.
Trigger ==
    /\ pc = "trigger" /\ pc' = "issue"
    /\ told' = told \cup {FirstIssue}
    /\ todo' = todo \ {FirstIssue}
    /\ triggered' = triggered \cup {FirstIssue[1]}
    /\ \/ FirstIssue[1] \in triggered /\ UNCHANGED <<live, faults>>
       \/ /\ FirstIssue[1] \notin triggered
          /\ \/ live' = live \cup {FirstIssue[1]} /\ UNCHANGED faults
             \/ Fails /\ UNCHANGED live
    /\ UNCHANGED <<repository, memory, files, page, current, queue, restarts,
                   lost, looked, untracked, course, shut, deaf>>

----------------------------------------------------------------------------
\* 2. The comments: one page, the oldest first.

Since == {c \in comments : c[1] > since}

Page == {c \in Since : Cardinality({d \in Since : d[1] <= c[1]}) <= PageSize}

ListComments ==
    /\ pc = "issue" /\ todo = {} /\ pc' = "comment"
    /\ queue' = Page /\ asked' = now
    /\ strained' = (strained \/ Page # Since)
    /\ UNCHANGED <<repository, memory, files, page, todo, current, triggered, budget,
                   marks, begun, shifted, topics>>

FirstComment == CHOOSE c \in queue : \A other \in queue : c[1] <= other[1]

AtComment == pc = "comment" /\ queue # {}

SkipProcessed ==
    /\ AtComment /\ FirstComment \in processed
    /\ queue' = queue \ {FirstComment}
    /\ UNCHANGED <<repository, memory, files, pc, page, todo, current, triggered, budget,
                   history>>

\* An issue that is not among the cycle's open ones, or that had its message in
\* this cycle: the comment is tracked and left.
Skip ==
    /\ AtComment /\ FirstComment \notin processed
    /\ \/ FirstComment[2] \notin current
       \/ FirstComment[2] \in triggered
    /\ looked' = looked \cup {FirstComment}
    /\ pc' = "track"
    /\ UNCHANGED <<repository, memory, files, cycle, budget, told, lost, untracked,
                   course, topics>>

HandOn ==
    /\ AtComment /\ FirstComment \notin processed
    /\ FirstComment[2] \in current \ triggered
    /\ triggered' = triggered \cup {FirstComment[2]}
    /\ looked' = looked \cup {FirstComment}
    /\ \/ live' = live \cup {FirstComment[2]} /\ UNCHANGED faults
       \/ Fails /\ UNCHANGED live
    /\ pc' = "track"
    /\ UNCHANGED <<repository, memory, files, page, todo, current, queue, restarts,
                   told, lost, untracked, course, shut, deaf>>

\* Mutant of Track: the key is not remembered.
TrackNothing ==
    /\ pc = "track" /\ pc' = "comment"
    /\ queue' = queue \ {FirstComment}
    /\ UNCHANGED <<repository, memory, files, page, todo, current, triggered, budget,
                   history>>

Track ==
    /\ pc = "track"
    /\ queue' = queue \ {FirstComment}
    /\ processed' = processed \cup {FirstComment}
    /\ \/ /\ processedFile' = processedFile \cup {FirstComment} /\ created' = TRUE
          /\ untracked' = untracked \ {FirstComment} /\ UNCHANGED faults
       \/ /\ Fails /\ created' \in {created, TRUE} /\ UNCHANGED processedFile
          /\ untracked' = untracked \cup {FirstComment}
    /\ pc' = IF Compacts(processed') THEN "compact" ELSE "comment"
    /\ UNCHANGED <<repository, seen, events, cache, since, seenFile, page, todo, current,
                   triggered, restarts, told, lost, looked, course, topics>>

CompactComments ==
    /\ pc = "compact" /\ pc' = "comment"
    /\ processed' \in Kept(processed)
    /\ \/ processedFile' = processed' /\ created' = TRUE /\ UNCHANGED faults
       \/ /\ Fails /\ processedFile' \in Torn(processedFile, processed')
          /\ created' \in {created \/ processedFile' # {}, TRUE}
    /\ untracked' = untracked \cup (processed \ (processed' \cap processedFile'))
    /\ UNCHANGED <<repository, seen, events, cache, since, seenFile, cycle, restarts,
                   told, lost, looked, course, topics>>

----------------------------------------------------------------------------
\* 3. What is cached and not open any more was closed, and is reported unless a
\* closure of that number was reported before.

\* Mutant of Gone: closed is what the cycle did not hear of.
GoneQuiet == cache \ triggered

Gone == cache \ current

DetectClosed ==
    /\ pc = "comment" /\ queue = {} /\ pc' = "closed"
    /\ live' = live \ (Gone \ events) /\ shut' = shut \ (Gone \ events)
    /\ events' = events \cup Gone
    /\ cache' = cache \ Gone
    /\ UNCHANGED <<repository, processed, seen, since, files, cycle, budget,
                   marks, course, deaf>>

\* 4. The recently closed ones: one page, those not updated for longest first.

ClosedSince == {i \in Closed : updated[i] > since}

ClosedPage ==
    {i \in ClosedSince :
        Cardinality({other \in ClosedSince : updated[other] <= updated[i]}) <= PageSize}

ListClosed ==
    /\ pc = "closed" /\ pc' = "end"
    /\ live' = live \ (ClosedPage \ events) /\ shut' = shut \ (ClosedPage \ events)
    /\ events' = events \cup ClosedPage
    /\ cache' = cache \ (ClosedPage \ events)
    /\ UNCHANGED <<repository, processed, seen, since, files, cycle, budget,
                   marks, course, deaf>>

\* The cycle ends, and the next one begins 30 seconds before now, which is before
\* this cycle's lists if it was quick.

Pruned(reported) == IF Cardinality(reported) > EventsKept THEN {} ELSE reported

EndCycle ==
    /\ pc = "end" /\ pc' = "sleep"
    /\ since' \in since .. now
    /\ events' = Pruned(events)
    /\ strained' = (strained \/ since' > asked)
    /\ deaf' = deaf \cup {i \in Closed \ (cache \cup events) : updated[i] <= since'}
    /\ CycleEnds
    /\ UNCHANGED <<repository, processed, seen, cache, files, budget, marks,
                   begun, asked, shifted, shut, live>>

\* Mutant of CycleFails: the next cycle begins at the failure.
CycleFailsLate ==
    /\ \/ pc \in {"list", "closed"}
       \/ pc = "issue" /\ todo = {}
    /\ Fails /\ pc' = "sleep" /\ since' = now /\ CycleEnds
    /\ UNCHANGED <<repository, processed, seen, events, cache, files, restarts, history>>

\* A request of the cycle fails: the rest of it is left, and the next cycle begins
\* where this one did.
CycleFails ==
    /\ \/ pc \in {"list", "closed"}
       \/ pc = "issue" /\ todo = {}
    /\ Fails /\ pc' = "sleep" /\ CycleEnds
    /\ UNCHANGED <<repository, memory, files, restarts, history>>

----------------------------------------------------------------------------
\* Killed, at any step, and started again: the files are read, one that cannot be
\* read as an empty one, and polling begins five minutes ago, or now if there is
\* no file of comments.

Restart(unread) ==
    /\ restarts < MaxRestarts /\ restarts' = restarts + 1
    /\ faults + Cardinality(unread) <= MaxFaults
    /\ faults' = faults + Cardinality(unread)
    /\ events' = {} /\ cache' = {}
    /\ seenFile' \in IF pc \in {"compactSeen", "compactKnown"}
                     THEN UNION {Torn(seenFile, kept) : kept \in KeptSeen(seen)}
                     ELSE {seenFile}
    /\ processedFile' \in IF pc = "compact"
                          THEN UNION {Torn(processedFile, kept) : kept \in Kept(processed)}
                          ELSE {processedFile}
    /\ created' \in {created \/ processedFile' # {}}
                      \cup (IF pc \in {"track", "compact"} THEN {TRUE} ELSE {})
    /\ seen' = IF "seen" \in unread THEN {} ELSE seenFile'
    /\ processed' = IF "processed" \in unread THEN {} ELSE processedFile'
    /\ told' = told \cup (IF pc \in {"trigger", "compactSeen"} THEN {FirstIssue} ELSE {})
    /\ lost' = lost \cup
         (IF pc \in {"compactSeen", "compactKnown"} \/ "seen" \in unread
          THEN told' \ seen' ELSE {})
    /\ untracked' = untracked \cup
         (IF pc = "compact" \/ "processed" \in unread THEN looked \ processed'
          ELSE IF pc = "track" THEN {FirstComment} ELSE {})
    /\ since' \in IF created' THEN 0 .. now ELSE {now}
    /\ begun' = since' /\ strained' = FALSE
    /\ deaf' = {i \in Closed : updated[i] <= since'}
    /\ pc' = "sleep" /\ CycleEnds
    /\ UNCHANGED <<repository, looked, asked, shifted, shut, live>>

----------------------------------------------------------------------------
Poll ==
    \/ ListIssues \/ SeeKnown \/ SeeIssue \/ CompactSeen \/ Trigger
    \/ ListComments \/ SkipProcessed \/ Skip \/ HandOn \/ Track \/ CompactComments
    \/ DetectClosed \/ ListClosed \/ EndCycle

World ==
    \E i \in Issues :
        \/ OpenIssue(i) \/ CloseIssue(i) \/ Comment(i)
        \/ \E l \in Labels : Relabel(i, l)

Next == World \/ Poll \/ CycleFails \/ \E unread \in SUBSET {"seen", "processed"} : Restart(unread)

\* 30 seconds after the last change a cycle ends that leaves nothing out.
QuietCycle == EndCycle /\ since' = now

\* The polling task runs on, and so does the clock; failures are bounded by
\* MaxFaults.
Spec == Init /\ [][Next]_vars /\ WF_vars(Poll) /\ SF_vars(QuietCycle)

----------------------------------------------------------------------------
\* The variables of the poller have their types.
TypeOK ==
    /\ now \in Time /\ since \in Time /\ begun \in Time /\ asked \in Time
    /\ state \in [Issues -> {"absent", "open", "closed"}]
    /\ label \in [Issues -> Labels] /\ updated \in [Issues -> Time]
    /\ comments \subseteq Time \X Issues
    /\ processed \subseteq comments /\ processedFile \subseteq comments
    /\ queue \subseteq comments /\ looked \subseteq comments /\ untracked \subseteq comments
    /\ seen \subseteq Key /\ seenFile \subseteq Key /\ todo \subseteq Key
    /\ told \subseteq Key /\ lost \subseteq Key
    /\ events \subseteq Issues /\ cache \subseteq Issues
    /\ current \subseteq Issues /\ triggered \subseteq Issues
    /\ shut \subseteq Issues /\ live \subseteq Issues /\ deaf \subseteq Issues
    /\ pc \in {"sleep", "list", "issue", "compactSeen", "compactKnown", "trigger",
               "comment", "track", "compact", "closed", "end"}
    /\ page \in 0 .. IssuePages
    /\ faults \in 0 .. MaxFaults /\ restarts \in 0 .. MaxRestarts
    /\ created \in BOOLEAN /\ strained \in BOOLEAN /\ shifted \in BOOLEAN

\* No comment falls between two cycles of a process: unless a page was too small or
\* a cycle took longer than the 30 seconds it goes back, each comment made since
\* polling began and before last_poll was handed on or left for a reason.  A cycle
\* that fails, at any of its requests, takes nothing with it.
NoneBetweenCycles ==
    \A c \in comments : begun < c[1] /\ c[1] <= since /\ ~strained => c \in looked

\* A comment that was looked at is handed on only if its key was lost since: the
\* process died before the line was written, the write failed, the compaction
\* dropped it or was cut short, or the file could not be read.
TwiceOnlyUntracked == [][HandOn => FirstComment \notin looked \ untracked]_vars

\* What an issue was seen with triggers once, over failed cycles and restarts,
\* unless its key was lost since: its write failed, the compaction dropped it or
\* was cut short, or the file could not be read.
TriggersOnce ==
    [][pc = "issue" /\ pc' \in {"trigger", "compactSeen"}
           => FirstIssue \notin told \ lost]_vars

\* The topics of an issue are closed only if it was closed, and for each time it was
\* closed once, unless the repository changed between two pages of the list of open
\* ones or had more of them than the pages hold.
OnlyClosedEnd == [][\A i \in live \ live' : i \in shut \/ shifted]_vars

Unreported(i) == i \in live /\ state[i] = "closed" /\ i \notin deaf

\* The poller catches up with the repository: comments it can list are looked at,
\* new keys of open issues trigger, and the topics of a closed issue are closed,
\* unless its closure is one of those nothing can report.
Behind ==
    \/ \E c \in comments \ looked : c[1] > since
    \/ \E i \in Open : <<i, label[i]>> \notin told
    \/ \E i \in Issues : Unreported(i)

CatchesUp == Behind ~> ~Behind

----------------------------------------------------------------------------
\* Close events close the topics of the issue (poll.rs): a closure of an issue
\* with topics is one that can be reported.
ClosuresReported == \A i \in live : state[i] = "closed" => i \notin deaf

\* An issue that is not in the list of the open ones was closed (poll.rs).
GenuinelyClosed == [][\A i \in live \ live' : i \in shut]_vars

\* Only comments on closed issues are skipped (poll.rs).
IgnoredWereClosed ==
    [][Skip /\ FirstComment[2] \notin triggered
           => state[FirstComment[2]] = "closed"]_vars

\* The buffer of 30 seconds misses no event (poll.rs): every comment made since
\* polling began is listed by some cycle.
BufferSuffices == \A c \in comments : begun < c[1] /\ c[1] <= since => c \in looked
=============================================================================
