---------------------------- MODULE TopicService ----------------------------
(***************************************************************************)
(* What the topic manager promises its callers, without queues, workers or *)
(* topics: a message that is taken in is read by one turn or dropped,      *)
(* never both and never twice, and a bounded number of turns do the        *)
(* reading.                                                                *)
(***************************************************************************)
EXTENDS Integers

CONSTANTS Message, MaxConcurrent

VARIABLES
    waiting,    \* messages taken in and not yet read
    read,       \* messages a turn has read
    dropped,    \* messages refused, executed as commands, or lost
    turns       \* how many turns are running

vars == <<waiting, read, dropped, turns>>

Init == waiting = {} /\ read = {} /\ dropped = {} /\ turns = 0

New == Message \ (waiting \cup read \cup dropped)

TakeIn(m) ==
    /\ m \in New
    /\ waiting' = waiting \cup {m}
    /\ UNCHANGED <<read, dropped, turns>>

Refuse(m) ==
    /\ m \in New
    /\ dropped' = dropped \cup {m}
    /\ UNCHANGED <<waiting, read, turns>>

BeginTurn(m) ==
    /\ m \in waiting
    /\ turns < MaxConcurrent
    /\ turns' = turns + 1
    /\ waiting' = waiting \ {m}
    /\ read' = read \cup {m}
    /\ UNCHANGED dropped

\* A running turn reads more of what waits.
Join(S) ==
    /\ turns > 0
    /\ waiting' = waiting \ S
    /\ read' = read \cup S
    /\ UNCHANGED <<dropped, turns>>

EndTurn ==
    /\ turns > 0
    /\ turns' = turns - 1
    /\ UNCHANGED <<waiting, read, dropped>>

Drop(S) ==
    /\ waiting' = waiting \ S
    /\ dropped' = dropped \cup S
    /\ UNCHANGED <<read, turns>>

Next ==
    \/ \E m \in Message : TakeIn(m) \/ Refuse(m) \/ BeginTurn(m)
    \/ \E S \in SUBSET waiting : Join(S) \/ Drop(S)
    \/ EndTurn

Spec == Init /\ [][Next]_vars

=============================================================================
