----------------------------- MODULE SpawnTree -----------------------------
(***************************************************************************)
(* Topics that spawn topics, and the closes that take a whole subtree.      *)
(* Where a topic lives is spread over five places: its state directory with *)
(* two breadcrumbs (spawned-from, topic-path), the directory it works in,   *)
(* the pin map, its parent's grant, and the set of closed names.  A spawn   *)
(* and a close go through them step by step, and a restart keeps only what  *)
(* is on disk.                                                              *)
(*                                                                          *)
(* A topic's home is named after it and holds its state directory and, for  *)
(* a topic that does not share its parent's, its working directory.  Homes  *)
(* are under the agents root; pins on directories outside it, purges and    *)
(* nested homes are left out.                                               *)
(***************************************************************************)
EXTENDS Integers, Sequences, FiniteSets

CONSTANTS
    Names,       \* topic names
    None,        \* no name
    Openable,    \* names a message or the dashboard opens by themselves
    MaxSpawns,   \* bound: spawns begun
    MaxCloses,   \* bound: closes begun
    MaxRestarts, \* bound: restarts of the daemon
    Races,       \* whether spawns, closes and opens overlap
    Fails,       \* whether the removal of a directory may fail
    Shares,      \* whether a child may share its parent's directory
    Reuses       \* whether a spawn may take the name of a closed topic

ASSUME NamesAssumption ==
    IsFiniteSet(Names) /\ Openable \subseteq Names /\ None \notin Names
ASSUME BoundsAssumption ==
    /\ MaxSpawns \in Nat /\ MaxCloses \in Nat /\ MaxRestarts \in Nat
    /\ {Races, Fails, Shares, Reuses} \subseteq BOOLEAN

VARIABLES
    state,    \* topics whose state directory exists
    from,     \* topic -> what its spawned-from breadcrumb says, or None
    crumb,    \* topics whose topic-path breadcrumb exists
    dirs,     \* homes whose working directory exists
    work,     \* topic -> the home whose working directory it works in
    pins,     \* topics in the topic_paths map
    known,    \* names registered since the daemon started
    grants,   \* <<parent, child>>: grants that name a subagent
    closed,   \* the closed set
    spawn,    \* topic -> its spawn in progress
    closer,   \* the close in progress
    seen,     \* history: the spawned-from breadcrumbs when its plan was made
    spawns, closes, restarts  \* bounds

diskVars == <<state, from, crumb, dirs, work>>
memVars  == <<pins, known, grants, closed>>
boundVars == <<seen, spawns, closes, restarts>>
vars == <<diskVars, memVars, spawn, closer, boundVars>>

NoSpawn == [at |-> "no", child |-> None, home |-> None]
NoClose == [at |-> "no", plan |-> <<>>]

Init ==
    /\ state = {} /\ from = [n \in Names |-> None] /\ crumb = {}
    /\ dirs = {} /\ work = [n \in Names |-> n]
    /\ pins = {} /\ known = {} /\ grants = {} /\ closed = {}
    /\ spawn = [n \in Names |-> NoSpawn] /\ closer = NoClose
    /\ seen = [n \in Names |-> None]
    /\ spawns = 0 /\ closes = 0 /\ restarts = 0

Calm == closer = NoClose /\ \A n \in Names : spawn[n] = NoSpawn

----------------------------------------------------------------------------
\* Lineage.

Granted(n) == {c \in Names : <<n, c>> \in grants}

\* subagents_of: a grant counts when the child's breadcrumb agrees with it.
Subagents(n) == {c \in Names : <<n, c>> \in grants /\ from[c] = n}

\* What is reached from n: the least set that has all that comes after n and
\* after each of its own.
Reached(after, n) ==
    {x \in Names :
        \A S \in SUBSET Names : (\A y \in S \cup {n} : after[y] \subseteq S) => x \in S}

Subtree(n) == Reached([y \in Names |-> Subagents(y)], n)

\* subagent_closure: the subtree of n, every topic behind all of its own; the
\* order of siblings is that of the grants.
ParentFirst(n) ==
    {s \in [1 .. Cardinality(Subtree(n)) -> Subtree(n)] :
        \A i, j \in DOMAIN s : i < j => s[i] # s[j] /\ s[i] \notin Subtree(s[j])}
Doomed(n) ==
    {s \in [1 .. Cardinality(Subtree(n)) -> Subtree(n)] :
        \A i, j \in DOMAIN s : i < j => s[i] # s[j] /\ s[j] \notin Subtree(s[i])}

----------------------------------------------------------------------------
\* Opening and looking.

\* restored_path: what topic-path names, when it is still there.
Recorded(n) == n \in state \cap crumb /\ work[n] \in dirs

\* A message or the dashboard opens n: the working directory is recorded, when
\* it is the topic's own and the name is not frozen; then a worker starts and
\* lifts the freeze, and the state directory is there again.  What was frozen is
\* recorded by the next message.
Open(n) ==
    LET home == IF n \in pins \/ Recorded(n) THEN work[n] ELSE n IN
    /\ Races \/ Calm
    /\ n \in Openable \cup state
    /\ state' = state \cup {n}
    /\ work' = [work EXCEPT ![n] = home]
    /\ dirs' = dirs \cup {home}
    /\ crumb' = IF home = n /\ n \notin closed THEN crumb \cup {n} ELSE crumb
    /\ pins' = pins \cup {n}
    /\ known' = known \cup {n}
    /\ closed' = closed \ {n}
    /\ UNCHANGED <<from, grants, spawn, closer, boundVars>>

\* topic_path: a path read from the breadcrumb is kept in the map.
LookUp(n) ==
    /\ Recorded(n) /\ n \notin pins
    /\ pins' = pins \cup {n}
    /\ UNCHANGED <<diskVars, known, grants, closed, spawn, closer, boundVars>>

\* list_topic_names: entries without a state directory leave the map.
Prune ==
    /\ pins \ state # {}
    /\ pins' = pins \cap state
    /\ UNCHANGED <<diskVars, known, grants, closed, spawn, closer, boundVars>>

----------------------------------------------------------------------------
\* Spawning.

NameFree(c) == c \notin pins \cup state \cup dirs

\* The guards of spawn_under, before anything is created.  It runs in a turn of
\* the parent, whose worker has put the parent in the map.
SpawnBegin(p, c) ==
    /\ IF Races THEN spawn[p] = NoSpawn ELSE Calm
    /\ spawns < MaxSpawns /\ spawns' = spawns + 1
    /\ p \in state \cap pins /\ c # p
    /\ p \in closed => Races  \* only a turn that runs outlives the freeze
    /\ NameFree(c)
    /\ c \in known \ state => Reuses
    /\ \E home \in {c} \cup {work[x] : x \in {y \in {p} : Shares}} :
          spawn' = [spawn EXCEPT ![p] = [at |-> "make", child |-> c, home |-> home]]
    /\ UNCHANGED <<diskVars, memVars, closer, seen, closes, restarts>>

\* adopt_state_dir and set_topic_path: topic-path is written only for a name
\* that was not registered before.
SpawnMake(p) ==
    LET c == spawn[p].child IN
    /\ spawn[p].at = "make"
    /\ state' = state \cup {c}
    /\ dirs' = dirs \cup {spawn[p].home}
    /\ work' = [work EXCEPT ![c] = spawn[p].home]
    /\ crumb' = IF c \in known THEN crumb ELSE crumb \cup {c}
    /\ known' = known \cup {c}
    /\ pins' = pins \cup {c}
    /\ spawn' = [spawn EXCEPT ![p].at = "seed"]
    /\ UNCHANGED <<from, grants, closed, closer, boundVars>>

\* seed_state: reads the parent's state, writes the child's breadcrumb.
SpawnSeed(p) ==
    LET c == spawn[p].child IN
    /\ spawn[p].at = "seed"
    /\ IF {p, c} \subseteq state
       THEN /\ from' = [from EXCEPT ![c] = p]
            /\ spawn' = [spawn EXCEPT ![p].at = "grant"]
       ELSE /\ spawn' = [spawn EXCEPT ![p] = NoSpawn]
            /\ UNCHANGED from
    /\ UNCHANGED <<state, crumb, dirs, work, memVars, closer, boundVars>>

SpawnGrant(p) ==
    /\ spawn[p].at = "grant"
    /\ grants' = grants \cup {<<p, spawn[p].child>>}
    /\ spawn' = [spawn EXCEPT ![p] = NoSpawn]
    /\ UNCHANGED <<diskVars, pins, known, closed, closer, boundVars>>

SpawnStep(p) == SpawnMake(p) \/ SpawnSeed(p) \/ SpawnGrant(p)

----------------------------------------------------------------------------
\* Closing: one close at a time.

\* The plan is computed once, before the first topic of it is closed; on a
\* subtree with a cycle the computation would not end.
CloseBegin(n) ==
    /\ IF Races THEN closer = NoClose ELSE Calm
    /\ closes < MaxCloses /\ closes' = closes + 1
    /\ n \in state
    /\ \A x \in Subtree(n) \cup {n} : x \notin Subtree(x)
    /\ \E plan \in Doomed(n) : closer' = [at |-> "freeze", plan |-> Append(plan, n)]
    /\ seen' = from
    /\ UNCHANGED <<diskVars, memVars, spawn, spawns, restarts>>

Current == Head(closer.plan)

CloseNextUnchecked == [at |-> "freeze", plan |-> Tail(closer.plan)]
CloseNext ==
    IF Len(closer.plan) = 1 THEN NoClose ELSE [at |-> "freeze", plan |-> Tail(closer.plan)]

\* mark_closed, the lookup of the path, and forget_subagent.
CloseFreeze ==
    /\ closer.at = "freeze"
    /\ closed' = closed \cup {Current}
    /\ pins' = IF Recorded(Current) THEN pins \cup {Current} ELSE pins
    /\ grants' = grants \ {<<from[Current], Current>>}
    /\ closer' = [closer EXCEPT !.at = "state"]
    /\ UNCHANGED <<diskVars, known, spawn, boundVars>>

Without(ns) ==
    /\ state' = state \ ns
    /\ crumb' = crumb \ ns
    /\ from' = [x \in Names |-> IF x \in ns THEN None ELSE from[x]]

CloseState ==
    /\ closer.at = "state" /\ Current \in known
    /\ Without({Current})
    /\ closer' = [closer EXCEPT !.at = "home"]
    /\ UNCHANGED <<dirs, work, memVars, spawn, boundVars>>

\* dir_holder: another topic whose pin is in this home, unless it is closed or
\* was spawned from the topic that closes.
PinHeld(home, n) ==
    \E x \in pins \ {n} : work[x] = home /\ x \notin closed /\ from[x] # n

NotHeld(home, n) == FALSE
Held(home, n) == PinHeld(home, n)

\* The home goes with all that is in it, a state directory that came back
\* meanwhile included, or is kept because another topic works in it.
CloseHome ==
    /\ closer.at = "home"
    /\ IF Held(Current, Current)
       THEN UNCHANGED <<state, crumb, from, dirs>>
       ELSE dirs' = dirs \ {Current} /\ Without({Current})
    /\ closer' = CloseNext
    /\ UNCHANGED <<work, memVars, spawn, boundVars>>

\* A topic that no registration knows loses its whole directory at once, and
\* nobody asks who else works there.
CloseUnregistered ==
    /\ closer.at = "state" /\ Current \notin known
    /\ dirs' = dirs \ {Current} /\ Without({Current})
    /\ closer' = CloseNext
    /\ UNCHANGED <<work, memVars, spawn, boundVars>>

\* A removal fails: the freeze is lifted and the cascade goes on.
CloseFails ==
    /\ Fails /\ closer.at \in {"state", "home"}
    /\ closed' = closed \ {Current}
    /\ closer' = CloseNext
    /\ UNCHANGED <<diskVars, pins, known, grants, spawn, boundVars>>

CloseStep == CloseFreeze \/ CloseState \/ CloseHome \/ CloseUnregistered \/ CloseFails

----------------------------------------------------------------------------
\* The daemon stops at any point and comes back: restore_state_registry
\* registers what has a topic-path and rebuilds its parent's grant.
RebuiltNothing == {}
Rebuilt == {<<from[c], c>> : c \in {x \in state \cap crumb : from[x] # None}}

Restart ==
    /\ restarts < MaxRestarts /\ restarts' = restarts + 1
    /\ state # {}
    /\ pins' = {} /\ closed' = {}
    /\ known' = state \cap crumb
    /\ grants' = Rebuilt
    /\ work' = [n \in Names |-> IF n \in state \cap crumb THEN work[n] ELSE n]
    /\ spawn' = [n \in Names |-> NoSpawn] /\ closer' = NoClose
    /\ UNCHANGED <<state, from, crumb, dirs, seen, spawns, closes>>

Next ==
    \/ \E n \in Names : Open(n) \/ LookUp(n) \/ CloseBegin(n)
    \/ \E p, c \in Names : SpawnBegin(p, c)
    \/ \E p \in Names : SpawnStep(p)
    \/ Prune \/ CloseStep \/ Restart

Spec == Init /\ [][Next]_vars

----------------------------------------------------------------------------
TypeOK ==
    /\ {state, crumb, dirs, pins, known, closed} \subseteq SUBSET Names
    /\ crumb \subseteq state
    /\ {from, seen} \subseteq [Names -> Names \cup {None}]
    /\ work \in [Names -> Names]
    /\ grants \subseteq Names \X Names
    /\ spawn \in [Names -> [at : {"no", "make", "seed", "grant"},
                            child : Names \cup {None}, home : Names \cup {None}]]
    /\ closer.at \in {"no", "freeze", "state", "home"}
    /\ closer.plan \in Seq(Names) /\ (closer.at # "no" => closer.plan # <<>>)

(* A child is never without its parent, not even in the middle of a close   *)
(* or after a crash in it: the subtree goes children first, and nothing      *)
(* else could find an orphan again (lifecycle.rs, subagent_closure).         *)
NoOrphan == \A c \in state : from[c] # None => from[c] \in state

(* Whatever overlaps and fails, and whatever the registry of grants holds, a   *)
(* close takes the state of a topic other than the one it was asked for only  *)
(* on the way to the topic's own parent, which it takes later: a name that    *)
(* was closed and spawned again by another parent is not taken through a      *)
(* grant left behind (subagents_of), nor is a topic through a cascade that a  *)
(* failure or another turn cut into.  The plan is not made again: what        *)
(* another turn made over to itself, or opened anew, after the subtree was    *)
(* computed goes with it all the same.                                        *)
TakenWithParent ==
    [][\A x \in state \ state' :
         LET plan == closer.plan
         IN  \/ x = plan[Len(plan)]
             \/ \E i \in 2 .. Len(plan) : plan[i] = from[x]
             \/ from[x] # seen[x]]_vars

(* lifecycle.rs:129, "A subagent has exactly one parent (the breadcrumb is a  *)
(* single name), so this terminates": no topic is its own descendant.         *)
ClosureTerminates == \A n \in Names : n \notin Subtree(n)

(* Nobody's close takes a directory another topic works in (lifecycle.rs:73,  *)
(* dir_holder), as far as the pin map knows of that topic: a restart empties  *)
(* the map, and what it then does not know is not asked for.  Nor is anyone   *)
(* asked when the topic that closes has no registration ("Unregistered topics *)
(* keep the legacy behavior: the whole directory ... is removed").            *)
Unasked == closer.at = "state" /\ Current \notin known
DirKept ==
    [][\A n \in state \cap pins :
         work[n] \in dirs /\ n \in state' \cap pins'
             => work'[n] \in dirs' \/ Unasked]_vars

(* A parent finds its children again after a restart, the ones whose spawn    *)
(* was done before it (spawn_handler.rs:635, restore_state_registry).         *)
RestartKeepsLineage ==
    [][restarts' # restarts => \A n \in Names : Subagents(n) \subseteq Subagents(n)']_vars
============================================================================
