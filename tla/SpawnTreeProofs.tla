-------------------------- MODULE SpawnTreeProofs --------------------------
(*****************************************************************************)
(* Proofs about SpawnTree, for any finite set of names and any bounds.       *)
(*                                                                           *)
(* TypeOK and TakenWithParent hold however spawns, closes, opens and         *)
(* failures interleave. The others hold of a daemon that spawns and          *)
(* closes one topic at a time (~Races) under names not used since it         *)
(* started (~Reuses), and, but for RestartKeepsLineage, removes every        *)
(* directory it means to remove (~Fails); the daemon may stop at any         *)
(* point. TLC finds each of these properties violated as soon as one of      *)
(* its hypotheses is dropped, but for one: of DirKept with three names used  *)
(* again TLC finds no violation, and the proof does not cover it.            *)
(*****************************************************************************)
EXTENDS SpawnTree, FiniteSetTheorems, SequenceTheorems, WellFoundedInduction, TLAPS

----------------------------------------------------------------------------
(* The invariants. *)

\* A spawn in hand has a child and a home; a close in hand has a plan.
Shape ==
    /\ state \subseteq Names /\ crumb \subseteq state /\ dirs \subseteq Names
    /\ pins \subseteq Names /\ known \subseteq Names /\ closed \subseteq Names
    /\ from \in [Names -> Names \cup {None}] /\ work \in [Names -> Names]
    /\ grants \subseteq Names \X Names
    /\ spawn \in [Names -> [at : {"no", "make", "seed", "grant"},
                            child : Names \cup {None}, home : Names \cup {None}]]
    /\ closer \in [at : {"no", "freeze", "state", "home"}, plan : Seq(Names)]
    /\ \A p \in Names :
          /\ spawn[p].at = "no" => spawn[p] = NoSpawn
          /\ spawn[p].at # "no" => spawn[p].child \in Names /\ spawn[p].home \in Names
    /\ closer.at = "no" => closer = NoClose
    /\ closer.at # "no" => closer.plan # <<>>

\* In the rest of a plan every topic but the last is ahead of the one that was
\* its parent when the plan was made.
Kin ==
    /\ seen \in [Names -> Names \cup {None}]
    /\ closer.at # "no" =>
          \A i \in 1 .. Len(closer.plan) - 1 :
             \E j \in i + 1 .. Len(closer.plan) : closer.plan[j] = seen[closer.plan[i]]

\* What has no state directory has no breadcrumb in it.
Stated == \A x \in Names : from[x] # None => x \in state

\* One spawn or one close at a time.
OneAtATime ==
    /\ closer # NoClose => \A p \in Names : spawn[p] = NoSpawn
    /\ \A p, q \in Names : spawn[p] # NoSpawn /\ spawn[q] # NoSpawn => p = q

\* The name of a child to be made was not used since the daemon started.
Fresh == \A p \in Names : spawn[p].at = "make" => spawn[p].child \notin known \cup state

\* A spawned topic has the breadcrumb a restart looks for.
Crumbed ==
    /\ \A x \in Names : from[x] # None => x \in crumb
    /\ \A p \in Names : spawn[p].at \in {"seed", "grant"} => spawn[p].child \in crumb

LInv == Stated /\ OneAtATime /\ Fresh /\ Crumbed

\* What a spawn has done of its work: its parent is there, its child is nobody's
\* parent, and only the grant is missing at the end.
Handed ==
    \A p \in Names :
        /\ spawn[p].at # "no" => p \in state \cap pins /\ spawn[p].child # p
        /\ spawn[p].at \in {"make", "seed"} => \A x \in Names : from[x] # spawn[p].child
        /\ spawn[p].at \in {"seed", "grant"} => spawn[p].child \in state
        /\ spawn[p].at = "grant" => from[spawn[p].child] = p

\* Every child is granted to its parent, but for the one whose spawn is not done
\* and the one whose close took the grant back.
Granting ==
    \A c \in Names : from[c] # None =>
        \/ <<from[c], c>> \in grants
        \/ spawn[from[c]].at = "grant" /\ spawn[from[c]].child = c
        \/ closer.at = "state" /\ c = Current

\* A child comes after its parent.
Ranked ==
    \E rank \in [Names -> Nat] : \A c \in Names : from[c] # None => rank[from[c]] < rank[c]

\* The rest of a close: every child is ahead of its parent in it, no topic is
\* in it twice, and all but a first one whose state is deleted are there.
Planned ==
    LET plan == closer.plan IN
    closer.at # "no" =>
        /\ \A i \in 1 .. Len(plan) : \A x \in Names :
              from[x] = plan[i] => \E j \in 1 .. i - 1 : plan[j] = x
        /\ \A i, j \in 1 .. Len(plan) : i < j => plan[i] # plan[j]
        /\ \A i \in 1 .. Len(plan) : i > 1 \/ closer.at # "home" => plan[i] \in state
        /\ closer.at = "home" => Current \notin state

Parented == \A c \in Names : from[c] # None => from[c] \in state

TreeInv == Handed /\ Granting /\ Ranked /\ Planned /\ Parented

\* A child works in a home of its own or in its parent's.
Making ==
    \A p \in Names :
        /\ spawn[p].at = "make" => spawn[p].home \in {spawn[p].child, work[p]}
        /\ spawn[p].at \in {"seed", "grant"} =>
              work[spawn[p].child] \in {spawn[p].child, work[p]}

\* A topic that is marked closed and there was spawned under that name after the
\* close; a parent whose directory it shares holds that directory for it.
Marked ==
    \A x \in closed \cap state :
        \/ closer.at = "state" /\ x = Current
        \/ \E p \in Names : spawn[p].at \in {"seed", "grant"} /\ spawn[p].child = x
        \/ from[x] \in pins \cap state /\ work[x] \in {x, work[from[x]]}

DirInv == Making /\ Marked

----------------------------------------------------------------------------
(* Lemmas about the subtree of a topic and the orders of it. *)

LEMMA ReachedShape ==
    ASSUME NEW after \in [Names -> SUBSET Names], NEW n \in Names
    PROVE  /\ Reached(after, n) \subseteq Names
           /\ \A y \in Reached(after, n) \cup {n} : after[y] \subseteq Reached(after, n)
<1>1. Reached(after, n) \subseteq Names
  BY DEF Reached
<1>2. ASSUME NEW y \in Reached(after, n) \cup {n}, NEW x \in after[y]
      PROVE  x \in Reached(after, n)
  <2>1. y \in Names /\ x \in Names
    BY <1>1, <1>2
  <2>2. ASSUME NEW S \in SUBSET Names, \A z \in S \cup {n} : after[z] \subseteq S
        PROVE  x \in S
    <3>1. y \in S \cup {n}
      BY <2>2 DEF Reached
    <3> QED BY <2>2, <3>1, <1>2
  <2> QED BY <2>1, <2>2 DEF Reached
<1> QED BY <1>1, <1>2

LEMMA ReachedLeast ==
    ASSUME NEW after \in [Names -> SUBSET Names], NEW n \in Names,
           NEW S \in SUBSET Names, \A y \in S \cup {n} : after[y] \subseteq S
    PROVE  Reached(after, n) \subseteq S
BY DEF Reached

LEMMA SubtreeShape ==
    ASSUME NEW n \in Names
    PROVE  /\ Subtree(n) \subseteq Names
           /\ \A y \in Subtree(n) \cup {n} : Subagents(y) \subseteq Subtree(n)
<1> DEFINE after == [y \in Names |-> Subagents(y)]
<1>1. after \in [Names -> SUBSET Names]
  BY DEF Subagents
<1>2. Subtree(n) = Reached(after, n)
  BY DEF Subtree
<1>3. \A y \in Names : after[y] = Subagents(y)
  OBVIOUS
<1> HIDE DEF after
<1>4. /\ Reached(after, n) \subseteq Names
      /\ \A y \in Reached(after, n) \cup {n} : after[y] \subseteq Reached(after, n)
  BY <1>1, ReachedShape
<1> QED BY <1>2, <1>3, <1>4

LEMMA SubtreeLeast ==
    ASSUME NEW n \in Names,
           NEW S \in SUBSET Names, \A y \in S \cup {n} : Subagents(y) \subseteq S
    PROVE  Subtree(n) \subseteq S
<1> DEFINE after == [y \in Names |-> Subagents(y)]
<1>1. after \in [Names -> SUBSET Names]
  BY DEF Subagents
<1>2. Subtree(n) = Reached(after, n)
  BY DEF Subtree
<1>3. \A y \in S \cup {n} : after[y] \subseteq S
  OBVIOUS
<1> HIDE DEF after
<1> QED BY <1>1, <1>2, <1>3, ReachedLeast

\* A topic of a subtree is a subagent of its parent, which is in it or its root.
LEMMA SubtreeParents ==
    ASSUME NEW n \in Names, NEW x \in Subtree(n)
    PROVE  from[x] \in Subtree(n) \cup {n} /\ x \in Subagents(from[x])
<1> DEFINE S == {y \in Subtree(n) : from[y] \in Subtree(n) \cup {n} /\ y \in Subagents(from[y])}
<1>1. /\ Subtree(n) \subseteq Names
      /\ \A y \in Subtree(n) \cup {n} : Subagents(y) \subseteq Subtree(n)
  BY SubtreeShape
<1>2. \A y \in Subtree(n) \cup {n} : \A z \in Subagents(y) : from[z] = y
  BY DEF Subagents
<1>3. S \in SUBSET Names
  BY <1>1
<1>4. \A y \in S \cup {n} : Subagents(y) \subseteq S
  BY <1>1, <1>2
<1> HIDE DEF S
<1>5. Subtree(n) \subseteq S
  BY <1>3, <1>4, SubtreeLeast
<1> QED BY <1>5 DEF S

\* An order of D without repetitions, as long as D is large, has all of D.
LEMMA OrderOnto ==
    ASSUME NEW D \in SUBSET Names, NEW s \in [1 .. Cardinality(D) -> D],
           \A i, j \in DOMAIN s : i < j => s[i] # s[j]
    PROVE  /\ Cardinality(D) \in Nat
           /\ \A d \in D : \E i \in 1 .. Cardinality(D) : s[i] = d
<1>1. IsFiniteSet(D) /\ Cardinality(D) \in Nat
  BY FS_Subset, FS_CardinalityType, NamesAssumption
<1>2. IsFiniteSet(1 .. Cardinality(D)) /\ Cardinality(1 .. Cardinality(D)) = Cardinality(D)
  BY <1>1, FS_Interval
<1>3. \A i, j \in 1 .. Cardinality(D) : s[i] = s[j] => i = j
  BY <1>1
<1>4. s \in Injection(1 .. Cardinality(D), D)
  BY <1>3 DEF Injection, IsInjective
<1>5. s \in Surjection(1 .. Cardinality(D), D)
  BY <1>1, <1>2, <1>4, FS_Injection
<1> QED BY <1>1, <1>5 DEF Surjection
----------------------------------------------------------------------------
(* The shape of the state, in every mode. *)

LEMMA PlanShape ==
    ASSUME NEW n \in Names, NEW s \in Doomed(n)
    PROVE  /\ Append(s, n) \in Seq(Names) /\ Append(s, n) # <<>>
           /\ Len(Append(s, n)) = Cardinality(Subtree(n)) + 1
           /\ Append(s, n)[Len(Append(s, n))] = n
           /\ \A i \in 1 .. Len(Append(s, n)) - 1 :
                 Append(s, n)[i] = s[i] /\ s[i] \in Subtree(n)
           /\ \A d \in Subtree(n) : \E i \in 1 .. Len(Append(s, n)) - 1 : s[i] = d
           /\ \A i, j \in 1 .. Len(Append(s, n)) - 1 :
                 i < j => s[i] # s[j] /\ s[j] \notin Subtree(s[i])
<1> DEFINE size == Cardinality(Subtree(n))
<1>1. Subtree(n) \subseteq Names
  BY SubtreeShape
<1>2. /\ s \in [1 .. size -> Subtree(n)] /\ DOMAIN s = 1 .. size
      /\ \A i, j \in DOMAIN s : i < j => s[i] # s[j] /\ s[j] \notin Subtree(s[i])
  BY DEF Doomed
<1>3. size \in Nat /\ \A d \in Subtree(n) : \E i \in 1 .. size : s[i] = d
  <2>1. PICK D \in SUBSET Names : D = Subtree(n)
    BY <1>1
  <2>2. s \in [1 .. Cardinality(D) -> D] /\ \A i, j \in DOMAIN s : i < j => s[i] # s[j]
    BY <1>2, <2>1
  <2> HIDE DEF size
  <2>3. Cardinality(D) \in Nat /\ \A d \in D : \E i \in 1 .. Cardinality(D) : s[i] = d
    BY <2>2, OrderOnto
  <2> QED BY <2>1, <2>3 DEF size
<1> HIDE DEF size
<1>4. s \in Seq(Names) /\ Len(s) = size
  BY <1>1, <1>2, <1>3
<1>5. Append(s, n) \in Seq(Names) /\ Len(Append(s, n)) = size + 1
  BY <1>4
<1>6. Append(s, n)[size + 1] = n /\ \A i \in 1 .. size : Append(s, n)[i] = s[i]
  BY <1>3, <1>4
<1>7. Append(s, n) # <<>>
  BY <1>3, <1>5
<1> QED BY <1>2, <1>3, <1>5, <1>6, <1>7 DEF size

LEMMA InitShape == Init => Shape
BY NamesAssumption DEF Init, Shape, NoSpawn, NoClose

LEMMA OpenShape == ASSUME Shape, NEW n \in Names, Open(n) PROVE Shape'
<1>1. n \in Names /\ \A home \in Names : [work EXCEPT ![n] = home] \in [Names -> Names]
  BY DEF Shape
<1>2. PICK home \in Names : work' = [work EXCEPT ![n] = home] /\ dirs' = dirs \cup {home}
  BY DEF Open, Shape
<1>3. crumb' \subseteq state'
  BY DEF Open, Shape
<1> QED BY <1>1, <1>2, <1>3 DEF Open, Shape, boundVars

LEMMA SpawnShape ==
    ASSUME Shape, NEW p \in Names, SpawnStep(p) \/ \E c \in Names : SpawnBegin(p, c)
    PROVE  Shape'
<1>1. ASSUME NEW c \in Names, SpawnBegin(p, c) PROVE Shape'
  <2>1. PICK home \in {c} \cup {work[x] : x \in {y \in {p} : Shares}} :
           spawn' = [spawn EXCEPT ![p] = [at |-> "make", child |-> c, home |-> home]]
    BY <1>1 DEF SpawnBegin
  <2>2. home \in Names
    BY <2>1 DEF Shape
  <2>3. /\ spawn' \in [Names -> [at : {"no", "make", "seed", "grant"},
                               child : Names \cup {None}, home : Names \cup {None}]]
        /\ \A q \in Names : spawn'[q] = IF q = p
                               THEN [at |-> "make", child |-> c, home |-> home] ELSE spawn[q]
    BY <2>1, <2>2 DEF Shape
  <2>4. UNCHANGED <<state, crumb, dirs, pins, known, closed, from, work, grants, closer>>
    BY <1>1 DEF SpawnBegin, diskVars, memVars
  <2> QED BY <2>2, <2>3, <2>4 DEF Shape
<1>2. CASE SpawnMake(p)
  <2>1. spawn[p].child \in Names /\ spawn[p].home \in Names
    BY <1>2 DEF SpawnMake, Shape
  <2>2. work' \in [Names -> Names] /\ crumb' \subseteq state'
    BY <1>2, <2>1 DEF SpawnMake, Shape
  <2>3. /\ spawn' \in [Names -> [at : {"no", "make", "seed", "grant"},
                               child : Names \cup {None}, home : Names \cup {None}]]
        /\ \A q \in Names : spawn'[q] = IF q = p THEN [spawn[p] EXCEPT !.at = "seed"] ELSE spawn[q]
    BY <1>2 DEF SpawnMake, Shape
  <2>4. /\ UNCHANGED <<from, grants, closed, closer>>
        /\ state' = state \cup {spawn[p].child} /\ dirs' = dirs \cup {spawn[p].home}
        /\ known' = known \cup {spawn[p].child} /\ pins' = pins \cup {spawn[p].child}
    BY <1>2 DEF SpawnMake
  <2>5. spawn'[p].child \in Names /\ spawn'[p].home \in Names /\ spawn'[p].at # "no"
    BY <2>1, <2>3 DEF Shape
  <2> QED BY <2>1, <2>2, <2>3, <2>4, <2>5 DEF Shape
<1>3. CASE SpawnSeed(p)
  <2>1. /\ UNCHANGED <<state, crumb, dirs, work, pins, known, grants, closed, closer>>
        /\ spawn[p].at = "seed" /\ spawn[p].child \in Names /\ spawn[p].home \in Names
    BY <1>3 DEF SpawnSeed, memVars, Shape
  <2>2. from' \in [Names -> Names \cup {None}]
    BY <1>3, <2>1 DEF SpawnSeed, Shape
  <2>3. CASE spawn' = [spawn EXCEPT ![p].at = "grant"]
    <3>1. /\ spawn' \in [Names -> [at : {"no", "make", "seed", "grant"},
                               child : Names \cup {None}, home : Names \cup {None}]]
          /\ \A q \in Names : spawn'[q] = IF q = p THEN [spawn[p] EXCEPT !.at = "grant"]
                                                   ELSE spawn[q]
      BY <2>3 DEF Shape
    <3>2. spawn'[p].child \in Names /\ spawn'[p].home \in Names /\ spawn'[p].at # "no"
      BY <2>1, <3>1 DEF Shape
    <3> QED BY <2>1, <2>2, <3>1, <3>2 DEF Shape
  <2>4. CASE spawn' = [spawn EXCEPT ![p] = NoSpawn]
    <3>1. /\ spawn' \in [Names -> [at : {"no", "make", "seed", "grant"},
                               child : Names \cup {None}, home : Names \cup {None}]]
          /\ \A q \in Names : spawn'[q] = IF q = p THEN NoSpawn ELSE spawn[q]
      BY <2>4 DEF Shape, NoSpawn
    <3> QED BY <2>1, <2>2, <3>1 DEF Shape, NoSpawn
  <2> QED BY <1>3, <2>3, <2>4 DEF SpawnSeed
<1>4. CASE SpawnGrant(p)
  <2>1. /\ UNCHANGED <<state, crumb, dirs, from, work, pins, known, closed, closer>>
        /\ spawn[p].child \in Names /\ grants' = grants \cup {<<p, spawn[p].child>>}
    BY <1>4 DEF SpawnGrant, diskVars, Shape
  <2>2. /\ spawn' \in [Names -> [at : {"no", "make", "seed", "grant"},
                               child : Names \cup {None}, home : Names \cup {None}]]
        /\ \A q \in Names : spawn'[q] = IF q = p THEN NoSpawn ELSE spawn[q]
    BY <1>4 DEF SpawnGrant, Shape, NoSpawn
  <2> QED BY <2>1, <2>2 DEF Shape, NoSpawn
<1> QED BY <1>1, <1>2, <1>3, <1>4 DEF SpawnStep

LEMMA CurrentShape ==
    ASSUME Shape, closer.at # "no"
    PROVE  /\ Current = closer.plan[1] /\ Current \in Names
           /\ closer.plan \in Seq(Names) /\ Len(closer.plan) \in Nat \ {0}
<1>1. closer.plan \in Seq(Names) /\ closer.plan # <<>>
  BY DEF Shape
<1> QED BY <1>1 DEF Current

\* What the end of one topic's close leaves of the plan.
LEMMA RestShape ==
    ASSUME Shape, closer.at # "no", closer' = CloseNext
    PROVE  \/ closer' = NoClose /\ Len(closer.plan) = 1
           \/ /\ closer' \in [at : {"freeze"}, plan : Seq(Names)]
              /\ closer'.plan # <<>> /\ Len(closer'.plan) = Len(closer.plan) - 1
              /\ \A i \in 1 .. Len(closer'.plan) : closer'.plan[i] = closer.plan[i + 1]
<1>1. closer.plan \in Seq(Names) /\ Len(closer.plan) \in Nat \ {0}
  BY CurrentShape
<1>2. CASE Len(closer.plan) = 1
  BY <1>2 DEF CloseNext
<1>3. CASE Len(closer.plan) # 1
  <2>1. closer' = [at |-> "freeze", plan |-> Tail(closer.plan)]
    BY <1>3 DEF CloseNext
  <2>2. /\ Tail(closer.plan) \in Seq(Names) /\ Len(Tail(closer.plan)) = Len(closer.plan) - 1
        /\ \A i \in 1 .. Len(Tail(closer.plan)) : Tail(closer.plan)[i] = closer.plan[i + 1]
    BY <1>1
  <2>3. Tail(closer.plan) # <<>>
    <3>1. Len(Tail(closer.plan)) # 0
      BY <1>1, <1>3, <2>2
    <3>2. \A t : t = <<>> => Len(t) = 0
      OBVIOUS
    <3> QED BY <3>1, <3>2
  <2> QED BY <2>1, <2>2, <2>3
<1> QED BY <1>2, <1>3

LEMMA CloseShape ==
    ASSUME Shape, CloseStep \/ \E n \in Names : CloseBegin(n)
    PROVE  Shape'
<1>1. ASSUME NEW n \in Names, CloseBegin(n) PROVE Shape'
  <2>1. PICK s \in Doomed(n) : closer' = [at |-> "freeze", plan |-> Append(s, n)]
    BY <1>1 DEF CloseBegin
  <2>2. Append(s, n) \in Seq(Names) /\ Append(s, n) # <<>>
    BY PlanShape
  <2>3. UNCHANGED <<state, crumb, dirs, pins, known, closed, from, work, grants, spawn>>
    BY <1>1 DEF CloseBegin, diskVars, memVars
  <2> QED BY <2>1, <2>2, <2>3 DEF Shape
<1> DEFINE Pruned(S, T) == S \subseteq Names /\ T \subseteq S
<1>2. CASE CloseFreeze
  <2>1. Current \in Names /\ closer.plan # <<>>
    BY <1>2, CurrentShape DEF CloseFreeze, Shape
  <2>2. closer' \in [at : {"state"}, plan : Seq(Names)] /\ closer'.plan = closer.plan
    BY <1>2 DEF CloseFreeze, Shape
  <2>3. /\ UNCHANGED <<state, crumb, dirs, from, work, known, spawn>>
        /\ closed' \subseteq Names /\ pins' \subseteq Names /\ grants' \subseteq Names \X Names
    BY <1>2, <2>1 DEF CloseFreeze, Shape, diskVars
  <2> QED BY <2>1, <2>2, <2>3 DEF Shape
<1>3. ASSUME NEW ns, Without(ns)
      PROVE  /\ state' \subseteq Names /\ crumb' \subseteq state'
             /\ from' \in [Names -> Names \cup {None}]
  BY <1>3 DEF Without, Shape
<1>4. CASE CloseState
  <2>1. closer' \in [at : {"home"}, plan : Seq(Names)] /\ closer'.plan = closer.plan
        /\ closer.plan # <<>>
    BY <1>4 DEF CloseState, Shape
  <2>2. UNCHANGED <<dirs, work, pins, known, grants, closed, spawn>> /\ Without({Current})
    BY <1>4 DEF CloseState, memVars
  <2> QED BY <1>3, <2>1, <2>2 DEF Shape
<1>5. ASSUME closer.at # "no", closer' = CloseNext
      PROVE  /\ closer' \in [at : {"no", "freeze", "state", "home"}, plan : Seq(Names)]
             /\ closer'.at = "no" => closer' = NoClose
             /\ closer'.at # "no" => closer'.plan # <<>>
  <2>1. CASE closer' = NoClose
    BY <2>1 DEF NoClose
  <2>2. CASE closer' \in [at : {"freeze"}, plan : Seq(Names)] /\ closer'.plan # <<>>
    BY <2>2
  <2> QED BY <1>5, <2>1, <2>2, RestShape
<1>6. CASE CloseHome
  <2>1. /\ UNCHANGED <<work, pins, known, grants, closed, spawn>>
        /\ closer.at # "no" /\ closer' = CloseNext
        /\ \/ UNCHANGED <<state, crumb, from, dirs>>
           \/ dirs' = dirs \ {Current} /\ Without({Current})
    BY <1>6 DEF CloseHome, memVars
  <2> QED BY <1>3, <1>5, <2>1 DEF Shape
<1>7. CASE CloseUnregistered
  <2>1. /\ UNCHANGED <<work, pins, known, grants, closed, spawn>>
        /\ closer.at # "no" /\ closer' = CloseNext
        /\ dirs' = dirs \ {Current} /\ Without({Current})
    BY <1>7 DEF CloseUnregistered, memVars
  <2> QED BY <1>3, <1>5, <2>1 DEF Shape
<1>8. CASE CloseFails
  <2>1. /\ UNCHANGED <<state, crumb, dirs, from, work, pins, known, grants, spawn>>
        /\ closer.at # "no" /\ closer' = CloseNext /\ closed' \subseteq closed
    BY <1>8 DEF CloseFails, diskVars
  <2> QED BY <1>5, <2>1 DEF Shape
<1> QED BY <1>1, <1>2, <1>4, <1>6, <1>7, <1>8 DEF CloseStep

LEMMA RestartShape == ASSUME Shape, Restart PROVE Shape'
<1>1. /\ UNCHANGED <<state, from, crumb, dirs>> /\ pins' = {} /\ closed' = {}
      /\ known' = state \cap crumb /\ grants' = Rebuilt /\ closer' = NoClose
      /\ work' = [n \in Names |-> IF n \in state \cap crumb THEN work[n] ELSE n]
      /\ spawn' = [n \in Names |-> NoSpawn]
  BY DEF Restart
<1>2. Rebuilt \subseteq Names \X Names
  BY DEF Rebuilt, Shape
<1>3. /\ work' \in [Names -> Names] /\ closer' \in [at : {"no"}, plan : Seq(Names)]
      /\ closer'.at = "no"
  BY <1>1 DEF Shape, NoClose
<1>4. spawn' \in [Names -> [at : {"no", "make", "seed", "grant"},
                            child : Names \cup {None}, home : Names \cup {None}]]
      /\ \A p \in Names : spawn'[p] = NoSpawn /\ spawn'[p].at = "no"
  BY <1>1 DEF NoSpawn
<1> QED BY <1>1, <1>2, <1>3, <1>4 DEF Shape

LEMMA NextShape == Shape /\ [Next]_vars => Shape'
<1> SUFFICES ASSUME Shape, [Next]_vars PROVE Shape'
  OBVIOUS
<1>1. ASSUME NEW n \in Names, LookUp(n) PROVE Shape'
  BY <1>1 DEF LookUp, Recorded, Shape, diskVars
<1>2. CASE Prune
  BY <1>2 DEF Prune, Shape, diskVars
<1>3. CASE UNCHANGED vars
  BY <1>3 DEF vars, diskVars, memVars, Shape
<1> QED BY <1>1, <1>2, <1>3, OpenShape, SpawnShape, CloseShape, RestartShape DEF Next

LEMMA SpecShape == Spec => []Shape
BY InitShape, NextShape, PTL DEF Spec

----------------------------------------------------------------------------
(* A close takes a topic with its parent. *)

LEMMA InitKin == Init => Kin
BY DEF Init, Kin, NoClose

\* subagent_closure puts every topic of a subtree ahead of its parent.
LEMMA BeginKeepsKin == ASSUME Shape, NEW n \in Names, CloseBegin(n) PROVE Kin'
<1>1. PICK s \in Doomed(n) : closer' = [at |-> "freeze", plan |-> Append(s, n)]
  BY DEF CloseBegin
<1>2. PICK plan : plan = Append(s, n)
  OBVIOUS
<1>3. /\ plan \in Seq(Names) /\ plan # <<>> /\ Len(plan) \in Nat \ {0}
      /\ plan[Len(plan)] = n
      /\ \A i \in 1 .. Len(plan) - 1 : plan[i] = s[i] /\ s[i] \in Subtree(n)
      /\ \A d \in Subtree(n) : \E i \in 1 .. Len(plan) - 1 : s[i] = d
      /\ \A i, j \in 1 .. Len(plan) - 1 : i < j => s[i] # s[j] /\ s[j] \notin Subtree(s[i])
  <2>1. plan \in Seq(Names) /\ plan # <<>>
    BY <1>2, PlanShape
  <2>2. Len(plan) \in Nat \ {0}
    BY <2>1
  <2> QED BY <1>2, <2>1, <2>2, PlanShape
<1>4. seen' = from /\ \A x \in Subtree(n) \cup {n} : x \notin Subtree(x)
  BY DEF CloseBegin
<1>5. ASSUME NEW i \in 1 .. Len(plan) - 1
      PROVE  \E j \in i + 1 .. Len(plan) : plan[j] = from[plan[i]]
  <2>1. plan[i] \in Subtree(n) /\ plan[i] \in Names
    BY <1>3, SubtreeShape
  <2>2. from[plan[i]] \in Subtree(n) \cup {n} /\ plan[i] \in Subagents(from[plan[i]])
    BY <2>1, SubtreeParents
  <2>3. CASE from[plan[i]] = n
    BY <1>3, <2>3
  <2>4. CASE from[plan[i]] # n
    <3>1. PICK j \in 1 .. Len(plan) - 1 : s[j] = from[plan[i]]
      BY <1>3, <2>2, <2>4
    <3>2. plan[j] = from[plan[i]] /\ plan[j] = s[j] /\ plan[i] = s[i]
      BY <1>3, <3>1
    <3>3. s[i] \in Subtree(s[j])
      <4>1. s[j] \in Names
        BY <1>3, SubtreeShape
      <4> QED BY <2>2, <3>2, <4>1, SubtreeShape
    <3>4. ~(j < i)
      BY <1>3, <3>3
    <3>5. i # j
      BY <1>3, <1>4, <3>3
    <3>6. j \in i + 1 .. Len(plan)
      BY <1>3, <3>4, <3>5
    <3> QED BY <3>2, <3>6
  <2> QED BY <2>3, <2>4
<1>6. closer'.plan = plan
  BY <1>1, <1>2
<1> QED BY <1>4, <1>5, <1>6 DEF Kin, Shape

LEMMA CloseKeepsKin == ASSUME Shape, Kin, CloseStep PROVE Kin'
<1>1. closer.at # "no" /\ seen' = seen
  BY DEF CloseStep, CloseFreeze, CloseState, CloseHome, CloseUnregistered, CloseFails, boundVars
<1>2. CASE closer'.plan = closer.plan
  BY <1>1, <1>2 DEF Kin
<1>3. CASE closer' = CloseNext
  <2>1. CASE closer' = NoClose
    BY <1>1, <2>1 DEF Kin, NoClose
  <2>2. CASE closer' # NoClose
    <3>1. /\ Len(closer'.plan) = Len(closer.plan) - 1
          /\ \A i \in 1 .. Len(closer'.plan) : closer'.plan[i] = closer.plan[i + 1]
      BY <1>1, <1>3, <2>2, RestShape
    <3>2. Len(closer.plan) \in Nat \ {0}
      BY <1>1, CurrentShape
    <3>3. ASSUME NEW i \in 1 .. Len(closer'.plan) - 1
          PROVE  \E j \in i + 1 .. Len(closer'.plan) : closer'.plan[j] = seen[closer'.plan[i]]
      <4>1. i + 1 \in 1 .. Len(closer.plan) - 1
        BY <3>1, <3>2
      <4>2. PICK k \in (i + 1) + 1 .. Len(closer.plan) : closer.plan[k] = seen[closer.plan[i + 1]]
        BY <1>1, <4>1 DEF Kin
      <4>3. k - 1 \in i + 1 .. Len(closer'.plan) /\ (k - 1) + 1 = k
            /\ k - 1 \in 1 .. Len(closer'.plan) /\ i \in 1 .. Len(closer'.plan)
        BY <3>1, <3>2
      <4>4. closer'.plan[k - 1] = closer.plan[k] /\ closer'.plan[i] = closer.plan[i + 1]
        BY <3>1, <4>3
      <4> QED BY <4>2, <4>3, <4>4
    <3> QED BY <1>1, <3>3 DEF Kin
  <2> QED BY <2>1, <2>2
<1> QED BY <1>2, <1>3
        DEF CloseStep, CloseFreeze, CloseState, CloseHome, CloseUnregistered, CloseFails, Shape

LEMMA NextKin == Shape /\ Kin /\ [Next]_vars => Kin'
<1> SUFFICES ASSUME Shape, Kin, [Next]_vars PROVE Kin'
  OBVIOUS
<1>1. ASSUME closer' = closer, seen' = seen PROVE Kin'
  BY <1>1 DEF Kin
<1>2. ASSUME NEW n \in Names, Open(n) \/ LookUp(n) PROVE Kin'
  BY <1>1, <1>2 DEF Open, LookUp, boundVars
<1>3. ASSUME NEW p \in Names, SpawnStep(p) \/ \E c \in Names : SpawnBegin(p, c) PROVE Kin'
  BY <1>1, <1>3 DEF SpawnStep, SpawnMake, SpawnSeed, SpawnGrant, SpawnBegin, boundVars
<1>4. CASE Prune \/ UNCHANGED vars
  BY <1>1, <1>4 DEF Prune, vars, boundVars
<1>5. CASE Restart
  <2>1. closer' = NoClose /\ seen' = seen
    BY <1>5 DEF Restart
  <2> QED BY <2>1 DEF Kin, NoClose
<1> QED BY <1>2, <1>3, <1>4, <1>5, BeginKeepsKin, CloseKeepsKin DEF Next

LEMMA SpecKin == Spec => [](Shape /\ Kin)
BY InitShape, InitKin, NextShape, NextKin, PTL DEF Spec

\* Every variable of SpawnTree keeps its shape, whatever overlaps or fails.
THEOREM TypeCorrect == Spec => []TypeOK
<1>1. Shape /\ Kin => TypeOK
  BY DEF Shape, Kin, TypeOK
<1> QED BY <1>1, SpecKin, PTL

\* Only a close takes a state directory, and only that of its current topic.
LEMMA OnlyCurrentGoes ==
    ASSUME Shape, [Next]_vars, NEW x \in state \ state'
    PROVE  closer.at # "no" /\ x = Current
<1>1. ASSUME NEW n \in Names, Open(n) \/ LookUp(n) PROVE FALSE
  BY <1>1 DEF Open, LookUp, diskVars
<1>2. ASSUME NEW n \in Names, CloseBegin(n) PROVE FALSE
  BY <1>2 DEF CloseBegin, diskVars
<1>3. ASSUME NEW p \in Names, SpawnStep(p) \/ \E c \in Names : SpawnBegin(p, c) PROVE FALSE
  BY <1>3 DEF SpawnStep, SpawnMake, SpawnSeed, SpawnGrant, SpawnBegin, diskVars
<1>4. ~Prune /\ ~Restart /\ ~UNCHANGED vars
  BY DEF Prune, Restart, vars, diskVars
<1>5. CASE CloseStep
  BY <1>5 DEF CloseStep, CloseFreeze, CloseState, CloseHome, CloseUnregistered, CloseFails,
              Without, diskVars
<1> QED BY <1>1, <1>2, <1>3, <1>4, <1>5 DEF Next

LEMMA StepKin ==
    ASSUME Shape, Kin, [Next]_vars
    PROVE  \A x \in state \ state' :
              LET plan == closer.plan
              IN  \/ x = plan[Len(plan)]
                  \/ \E i \in 2 .. Len(plan) : plan[i] = from[x]
                  \/ from[x] # seen[x]
<1> SUFFICES ASSUME NEW x \in state \ state', x # closer.plan[Len(closer.plan)],
                    from[x] = seen[x]
             PROVE  \E i \in 2 .. Len(closer.plan) : closer.plan[i] = from[x]
  OBVIOUS
<1>1. closer.at # "no" /\ x = closer.plan[1] /\ Len(closer.plan) \in Nat \ {0}
  BY OnlyCurrentGoes, CurrentShape
<1>2. 1 \in 1 .. Len(closer.plan) - 1
  BY <1>1
<1>3. PICK j \in 1 + 1 .. Len(closer.plan) : closer.plan[j] = seen[closer.plan[1]]
  BY <1>1, <1>2 DEF Kin
<1> QED BY <1>1, <1>3

\* Whatever the registry of grants holds and whatever overlaps or fails, a close
\* that removes the state of another topic than the one it was asked for removes
\* the topic's parent's later, unless the topic changed hands after the subtree
\* was computed (subagents_of, subagent_closure, close_topic_under).
THEOREM TakenOnTheWay == Spec => TakenWithParent
<1>1. Shape /\ Kin /\ [Next]_vars =>
         [\A x \in state \ state' :
            LET plan == closer.plan
            IN  \/ x = plan[Len(plan)]
                \/ \E i \in 2 .. Len(plan) : plan[i] = from[x]
                \/ from[x] # seen[x]]_vars
  BY StepKin
<1> QED BY <1>1, SpecKin, PTL DEF Spec, TakenWithParent

----------------------------------------------------------------------------
(* Lineage on disk, one spawn or close at a time, under new names. *)

LEMMA InitLInv == Init => LInv
BY DEF Init, LInv, Stated, OneAtATime, Fresh, Crumbed, NoSpawn

\* A step that leaves the spawns, the lineage and the registrations alone.
LEMMA StillKeepsL ==
    ASSUME Shape, LInv, UNCHANGED <<state, from, crumb, known, spawn>>,
           closer' # NoClose => closer # NoClose \/ Calm
    PROVE  LInv'
<1>1. closer' # NoClose => \A p \in Names : spawn[p] = NoSpawn
  BY DEF LInv, OneAtATime, Calm
<1> QED BY <1>1 DEF LInv, Stated, OneAtATime, Fresh, Crumbed

LEMMA OpenKeepsL ==
    ASSUME ~Races, Shape, LInv, NEW n \in Names, Open(n)
    PROVE  LInv'
<1>1. Calm /\ UNCHANGED <<from, spawn, closer>> /\ crumb \subseteq crumb' /\ state \subseteq state'
  BY DEF Open
<1>2. \A p \in Names : spawn[p].at = "no"
  BY <1>1 DEF Calm, NoSpawn
<1> QED BY <1>1, <1>2 DEF LInv, Stated, OneAtATime, Fresh, Crumbed, Calm

LEMMA SpawnKeepsL ==
    ASSUME ~Races, ~Reuses, Shape, LInv, NEW p \in Names,
           SpawnStep(p) \/ \E c \in Names : SpawnBegin(p, c)
    PROVE  LInv'
<1>1. ASSUME NEW c \in Names, SpawnBegin(p, c) PROVE LInv'
  <2>1. /\ Calm /\ c \notin state /\ c \notin known
        /\ UNCHANGED <<state, from, crumb, known, closer>>
    BY <1>1 DEF SpawnBegin, NameFree, diskVars, memVars
  <2>2. PICK home \in {c} \cup {work[x] : x \in {y \in {p} : Shares}} :
           spawn' = [spawn EXCEPT ![p] = [at |-> "make", child |-> c, home |-> home]]
    BY <1>1 DEF SpawnBegin
  <2>3. \A q \in Names : spawn'[q] = IF q = p
                            THEN [at |-> "make", child |-> c, home |-> home] ELSE NoSpawn
    BY <2>1, <2>2 DEF Shape, Calm
  <2>4. \A q \in Names : spawn'[q].at # "no" =>
            q = p /\ spawn'[q].at = "make" /\ spawn'[q].child = c
    BY <2>3 DEF NoSpawn
  <2> QED BY <2>1, <2>3, <2>4 DEF LInv, Stated, OneAtATime, Fresh, Crumbed, Calm
<1>2. ASSUME spawn[p].at # "no"
      PROVE  /\ closer = NoClose /\ \A q \in Names \ {p} : spawn[q] = NoSpawn
             /\ spawn[p].child \in Names
  BY <1>2 DEF LInv, OneAtATime, NoSpawn, Shape
<1>3. CASE SpawnMake(p)
  <2>1. /\ spawn[p].child \notin known /\ UNCHANGED <<from, closer>>
        /\ crumb' = crumb \cup {spawn[p].child} /\ state' = state \cup {spawn[p].child}
    BY <1>3 DEF SpawnMake, LInv, Fresh
  <2>2. /\ spawn'[p].at = "seed" /\ spawn'[p].child = spawn[p].child
        /\ \A q \in Names \ {p} : spawn'[q] = NoSpawn
    BY <1>2, <1>3 DEF SpawnMake, Shape
  <2>3. closer' = NoClose /\ \A q \in Names \ {p} : spawn'[q].at = "no"
    BY <1>2, <1>3, <2>1, <2>2 DEF SpawnMake, NoSpawn
  <2> QED BY <2>1, <2>2, <2>3 DEF LInv, Stated, OneAtATime, Fresh, Crumbed
<1>4. CASE SpawnSeed(p)
  <2>1. /\ UNCHANGED <<state, crumb, known, closer>>
        /\ spawn[p].at = "seed" /\ spawn[p].child \in crumb
    BY <1>4 DEF SpawnSeed, memVars, LInv, Crumbed
  <2>2. /\ \A x \in Names : from'[x] # None => x \in state /\ x \in crumb
    <3>1. CASE UNCHANGED from
      BY <3>1 DEF LInv, Stated, Crumbed
    <3>2. CASE spawn[p].child \in state /\ from' = [from EXCEPT ![spawn[p].child] = p]
      BY <2>1, <3>2 DEF LInv, Stated, Crumbed, Shape
    <3> QED BY <1>4, <3>1, <3>2 DEF SpawnSeed
  <2>3. /\ \A q \in Names \ {p} : spawn'[q] = NoSpawn
        /\ \/ spawn'[p] = NoSpawn
           \/ spawn'[p].at = "grant" /\ spawn'[p].child = spawn[p].child
    BY <1>2, <1>4, <2>1 DEF SpawnSeed, Shape
  <2>4. /\ closer' = NoClose /\ \A q \in Names \ {p} : spawn'[q].at = "no"
        /\ spawn'[p].at # "make" /\ (spawn'[p].at = "no" \/ spawn'[p].child = spawn[p].child)
    BY <1>2, <2>1, <2>3 DEF NoSpawn
  <2> QED BY <2>1, <2>2, <2>3, <2>4 DEF LInv, Stated, OneAtATime, Fresh, Crumbed
<1>5. CASE SpawnGrant(p)
  <2>1. UNCHANGED <<state, from, crumb, known, closer>> /\ spawn[p].at = "grant"
    BY <1>5 DEF SpawnGrant, diskVars
  <2>2. \A q \in Names : spawn'[q] = NoSpawn
    BY <1>2, <1>5, <2>1 DEF SpawnGrant, Shape
  <2>3. \A q \in Names : spawn'[q].at = "no"
    BY <2>2 DEF NoSpawn
  <2> QED BY <2>1, <2>2, <2>3 DEF LInv, Stated, OneAtATime, Fresh, Crumbed
<1> QED BY <1>1, <1>3, <1>4, <1>5 DEF SpawnStep

LEMMA CloseKeepsL ==
    ASSUME ~Races, Shape, LInv, CloseStep \/ \E n \in Names : CloseBegin(n)
    PROVE  LInv'
<1>1. ASSUME NEW n \in Names, CloseBegin(n) PROVE LInv'
  BY <1>1, StillKeepsL DEF CloseBegin, diskVars, memVars
<1>2. ASSUME NEW ns, Without(ns), closer # NoClose, UNCHANGED <<known, spawn>>
      PROVE  LInv'
  <2>1. \A q \in Names : spawn'[q] = NoSpawn /\ spawn'[q].at = "no"
    BY <1>2 DEF LInv, OneAtATime, NoSpawn
  <2>2. \A x \in Names : from'[x] # None => x \notin ns /\ from[x] # None
    BY <1>2 DEF Without
  <2>3. \A x \in Names : from'[x] # None => x \in state' /\ x \in crumb'
    BY <1>2, <2>2 DEF Without, LInv, Stated, Crumbed
  <2> QED BY <2>1, <2>3 DEF LInv, Stated, OneAtATime, Fresh, Crumbed
<1>3. CASE CloseFreeze \/ CloseFails
  BY <1>3, StillKeepsL DEF CloseFreeze, CloseFails, diskVars, NoClose
<1>4. CASE CloseState
  BY <1>2, <1>4 DEF CloseState, memVars, NoClose
<1>5. CASE CloseUnregistered
  BY <1>2, <1>5 DEF CloseUnregistered, memVars, NoClose
<1>6. CASE CloseHome
  <2>1. closer # NoClose /\ UNCHANGED <<known, spawn>>
    BY <1>6 DEF CloseHome, memVars, NoClose
  <2> QED BY <1>2, <1>6, <2>1, StillKeepsL DEF CloseHome
<1> QED BY <1>1, <1>3, <1>4, <1>5, <1>6 DEF CloseStep

LEMMA RestartKeepsL == ASSUME Shape, LInv, Restart PROVE LInv'
<1>1. /\ UNCHANGED <<state, from, crumb>> /\ closer' = NoClose
      /\ \A n \in Names : spawn'[n] = NoSpawn
  BY DEF Restart
<1>2. \A n \in Names : spawn'[n].at = "no"
  BY <1>1 DEF NoSpawn
<1> QED BY <1>1, <1>2 DEF LInv, Stated, OneAtATime, Fresh, Crumbed

LEMMA NextLInv ==
    ASSUME ~Races, ~Reuses
    PROVE  Shape /\ LInv /\ [Next]_vars => LInv'
<1> SUFFICES ASSUME Shape, LInv, [Next]_vars PROVE LInv'
  OBVIOUS
<1>1. ASSUME NEW n \in Names, LookUp(n) PROVE LInv'
  BY <1>1, StillKeepsL DEF LookUp, diskVars
<1>2. CASE Prune
  BY <1>2, StillKeepsL DEF Prune, diskVars
<1>3. CASE UNCHANGED vars
  BY <1>3, StillKeepsL DEF vars, diskVars, memVars
<1> QED BY <1>1, <1>2, <1>3, OpenKeepsL, SpawnKeepsL, CloseKeepsL, RestartKeepsL DEF Next

LEMMA SpecLInv == ~Races /\ ~Reuses => (Spec => [](Shape /\ LInv))
<1> SUFFICES ASSUME ~Races, ~Reuses PROVE Spec => [](Shape /\ LInv)
  OBVIOUS
<1> QED BY InitShape, InitLInv, NextShape, NextLInv, PTL DEF Spec

\* A restart, at whatever point it comes, finds every child whose spawn was done
\* before it: adoption wrote its breadcrumbs (restore_state_registry).
LEMMA StepLineage ==
    ASSUME Shape, LInv, [Next]_vars, restarts' # restarts, NEW n \in Names
    PROVE  Subagents(n) \subseteq Subagents(n)'
<1>1. Restart
  <2>1. ASSUME NEW m \in Names, Open(m) \/ LookUp(m) \/ CloseBegin(m) PROVE FALSE
    BY <2>1 DEF Open, LookUp, CloseBegin, boundVars
  <2>2. ASSUME NEW p \in Names, SpawnStep(p) PROVE FALSE
    BY <2>2 DEF SpawnStep, SpawnMake, SpawnSeed, SpawnGrant, boundVars
  <2>3. ASSUME NEW p \in Names, NEW c \in Names, SpawnBegin(p, c) PROVE FALSE
    BY <2>3 DEF SpawnBegin
  <2>4. ~Prune /\ ~CloseStep /\ ~UNCHANGED vars
    BY DEF Prune, CloseStep, CloseFreeze, CloseState, CloseHome, CloseUnregistered, CloseFails,
           boundVars, vars
  <2> QED BY <2>1, <2>2, <2>3, <2>4 DEF Next
<1>2. UNCHANGED from /\ grants' = {<<from[c], c>> : c \in {x \in state \cap crumb : from[x] # None}}
  BY <1>1 DEF Restart, Rebuilt
<1>3. ASSUME NEW c \in Subagents(n) PROVE c \in Subagents(n)'
  <2>1. c \in Names /\ from[c] = n /\ from[c] # None
    BY NamesAssumption DEF Subagents
  <2>2. c \in state \cap crumb
    BY <2>1 DEF LInv, Stated, Crumbed
  <2>3. <<n, c>> \in grants'
    BY <1>2, <2>1, <2>2
  <2> QED BY <1>2, <2>1, <2>3 DEF Subagents
<1> QED BY <1>3

THEOREM RestartFindsChildren == ~Races /\ ~Reuses => (Spec => RestartKeepsLineage)
<1> SUFFICES ASSUME ~Races, ~Reuses PROVE Spec => RestartKeepsLineage
  OBVIOUS
<1>1. Shape /\ LInv /\ [Next]_vars =>
        [restarts' # restarts => \A n \in Names : Subagents(n) \subseteq Subagents(n)']_vars
  BY StepLineage
<1> QED BY <1>1, SpecLInv, PTL DEF Spec, RestartKeepsLineage
----------------------------------------------------------------------------
(* The tree, when no removal fails either. *)

LEMMA InitTree == Init => TreeInv
<1> SUFFICES ASSUME Init PROVE TreeInv
  OBVIOUS
<1>1. /\ \A n \in Names : from[n] = None /\ spawn[n].at = "no"
      /\ closer.at = "no"
  BY DEF Init, NoSpawn, NoClose
<1>2. [n \in Names |-> 0] \in [Names -> Nat]
  OBVIOUS
<1>3. Ranked
  BY <1>1, <1>2 DEF Ranked
<1> QED BY <1>1, <1>3 DEF TreeInv, Handed, Granting, Planned, Parented

\* One spawn or close at a time.
LEMMA Alone ==
    ASSUME Shape, LInv, NEW p \in Names, spawn[p].at # "no"
    PROVE  closer = NoClose /\ closer.at = "no"
           /\ \A q \in Names \ {p} : spawn[q] = NoSpawn /\ spawn[q].at = "no"
BY DEF Shape, LInv, OneAtATime, NoSpawn, NoClose

LEMMA RankedDrop ==
    ASSUME Ranked, \A x \in Names : from'[x] = from[x] \/ from'[x] = None
    PROVE  Ranked'
<1>1. PICK rank \in [Names -> Nat] :
         \A c \in Names : from[c] # None => rank[from[c]] < rank[c]
  BY DEF Ranked
<1>2. \A c \in Names : from'[c] # None => rank[from'[c]] < rank[c]
  BY <1>1
<1> QED BY <1>2 DEF Ranked

\* A step that adds nothing but directories and pins.
LEMMA StillKeepsT ==
    ASSUME Shape, TreeInv, UNCHANGED <<from, grants, spawn, closer>>,
           state \subseteq state', state \cap pins \subseteq pins',
           state' = state \/ closer.at = "no"
    PROVE  TreeInv'
<1>1. Ranked'
  BY RankedDrop DEF TreeInv
<1>2. Handed' /\ Granting' /\ Parented'
  BY DEF TreeInv, Handed, Granting, Parented, Current
<1>3. Planned'
  BY DEF TreeInv, Planned, Current
<1> QED BY <1>1, <1>2, <1>3 DEF TreeInv

LEMMA BeginKeepsT ==
    ASSUME ~Races, Shape, LInv, TreeInv, NEW p \in Names, NEW c \in Names, SpawnBegin(p, c)
    PROVE  TreeInv'
<1>1. /\ Calm /\ c \notin state /\ p \in state \cap pins /\ c # p
      /\ UNCHANGED <<state, from, grants, pins, closer>>
  BY DEF SpawnBegin, NameFree, diskVars, memVars
<1>2. PICK home \in {c} \cup {work[x] : x \in {y \in {p} : Shares}} :
         spawn' = [spawn EXCEPT ![p] = [at |-> "make", child |-> c, home |-> home]]
  BY DEF SpawnBegin
<1>3. \A q \in Names : spawn'[q] = IF q = p
                          THEN [at |-> "make", child |-> c, home |-> home] ELSE NoSpawn
  BY <1>1, <1>2 DEF Shape, Calm
<1>4. /\ spawn'[p].at = "make" /\ spawn'[p].child = c
      /\ \A q \in Names : spawn'[q].at # "no" => q = p
  BY <1>3 DEF NoSpawn
<1>5. \A x \in Names : from[x] # c
  BY <1>1, NamesAssumption DEF TreeInv, Parented
<1>6. Handed'
  BY <1>1, <1>4, <1>5 DEF Handed
<1>7. Ranked'
  BY <1>1, RankedDrop DEF TreeInv
<1>8. Granting' /\ Planned' /\ Parented'
  <2>1. \A q \in Names : spawn[q].at = "no" /\ closer.at = "no"
    BY <1>1 DEF Calm, NoSpawn, NoClose
  <2>2. \A x \in Names : from[x] # None => <<from[x], x>> \in grants
    BY <2>1 DEF TreeInv, Granting, Shape
  <2> QED BY <1>1, <2>1, <2>2 DEF TreeInv, Granting, Planned, Parented
<1> QED BY <1>6, <1>7, <1>8 DEF TreeInv

LEMMA MakeKeepsT ==
    ASSUME Shape, LInv, TreeInv, NEW p \in Names, SpawnMake(p)
    PROVE  TreeInv'
<1> DEFINE c == spawn[p].child
<1>1. /\ spawn[p].at = "make" /\ c \in Names /\ state' = state \cup {c} /\ pins' = pins \cup {c}
      /\ UNCHANGED <<from, grants, closer>>
  BY DEF SpawnMake, Shape
<1>2. /\ closer.at = "no" /\ closer'.at = "no"
      /\ \A q \in Names \ {p} : spawn[q].at = "no" /\ spawn'[q].at = "no"
  BY <1>1, Alone DEF SpawnMake, Shape
<1>3. spawn'[p].at = "seed" /\ spawn'[p].child = c
  BY DEF SpawnMake, Shape
<1> HIDE DEF c
<1>4. p \in state \cap pins /\ c # p /\ \A x \in Names : from[x] # c
  BY <1>1 DEF TreeInv, Handed, c
<1>5. Handed'
  BY <1>1, <1>2, <1>3, <1>4 DEF Handed
<1>6. Ranked'
  BY <1>1, RankedDrop DEF TreeInv
<1>7. Granting' /\ Parented' /\ Planned'
  <2>1. \A x \in Names : from[x] # None => from[x] \in Names
    BY DEF Shape
  <2>2. \A x \in Names : from[x] # None => <<from[x], x>> \in grants /\ from[x] \in state
    BY <1>1, <1>2, <2>1 DEF TreeInv, Granting, Parented
  <2> QED BY <1>1, <1>2, <2>2 DEF Granting, Planned, Parented
<1> QED BY <1>5, <1>6, <1>7 DEF TreeInv

LEMMA SeedKeepsT ==
    ASSUME Shape, LInv, TreeInv, NEW p \in Names, SpawnSeed(p)
    PROVE  TreeInv'
<1> DEFINE c == spawn[p].child
<1>1. /\ spawn[p].at = "seed" /\ c \in Names
      /\ UNCHANGED <<state, pins, grants, closer>>
  BY DEF SpawnSeed, Shape, memVars
<1>2. p \in state \cap pins /\ c \in state /\ c # p /\ \A x \in Names : from[x] # c
  BY <1>1 DEF TreeInv, Handed
<1>3. from' = [from EXCEPT ![c] = p] /\ spawn' = [spawn EXCEPT ![p].at = "grant"]
  BY <1>2 DEF SpawnSeed
<1>4. \A x \in Names : from'[x] = IF x = c THEN p ELSE from[x]
  BY <1>1, <1>3 DEF Shape
<1>5. /\ closer.at = "no" /\ closer'.at = "no"
      /\ \A q \in Names \ {p} : spawn[q].at = "no" /\ spawn'[q].at = "no"
      /\ spawn'[p].at = "grant" /\ spawn'[p].child = c
  BY <1>1, <1>3, Alone DEF Shape
<1> HIDE DEF c
<1>6. Handed'
  BY <1>1, <1>2, <1>4, <1>5 DEF Handed
<1>7. Ranked'
  <2>1. PICK rank \in [Names -> Nat] :
           \A x \in Names : from[x] # None => rank[from[x]] < rank[x]
    BY DEF TreeInv, Ranked
  <2> DEFINE next == [rank EXCEPT ![c] = rank[p] + 1]
  <2>2. next \in [Names -> Nat] /\ \A x \in Names : next[x] = IF x = c THEN rank[p] + 1 ELSE rank[x]
    BY <2>1, <1>1
  <2> HIDE DEF next
  <2>3. ASSUME NEW x \in Names, from'[x] # None PROVE next[from'[x]] < next[x]
    <3>1. from'[x] \in Names /\ from'[x] # c
      BY <1>2, <1>4, <2>3 DEF Shape
    <3>2. x # c => rank[from[x]] < rank[x] /\ from'[x] = from[x]
      BY <1>4, <2>1, <2>3
    <3>3. x = c => from'[x] = p /\ p # c /\ rank[p] < rank[p] + 1
      BY <1>2, <1>4, <2>1
    <3> QED BY <2>2, <3>1, <3>2, <3>3
  <2> QED BY <2>2, <2>3 DEF Ranked
<1>8. Granting'
  <2> SUFFICES ASSUME NEW x \in Names, from'[x] # None
               PROVE  \/ <<from'[x], x>> \in grants'
                      \/ spawn'[from'[x]].at = "grant" /\ spawn'[from'[x]].child = x
    BY DEF Granting
  <2>1. CASE x = c
    BY <1>4, <1>5, <2>1
  <2>2. CASE x # c
    <3>1. from'[x] = from[x] /\ from[x] \in Names
      BY <1>4, <2>2 DEF Shape
    <3>2. spawn[from[x]].at # "grant"
      BY <1>1, <1>5, <3>1
    <3>3. <<from[x], x>> \in grants
      BY <1>5, <3>1, <3>2 DEF TreeInv, Granting
    <3> QED BY <1>1, <3>1, <3>3
  <2> QED BY <2>1, <2>2
<1>9. Parented' /\ Planned'
  BY <1>1, <1>2, <1>4, <1>5 DEF TreeInv, Parented, Planned
<1> QED BY <1>6, <1>7, <1>8, <1>9 DEF TreeInv

LEMMA GrantKeepsT ==
    ASSUME Shape, LInv, TreeInv, NEW p \in Names, SpawnGrant(p)
    PROVE  TreeInv'
<1> DEFINE c == spawn[p].child
<1>1. /\ spawn[p].at = "grant" /\ c \in Names /\ grants' = grants \cup {<<p, c>>}
      /\ UNCHANGED <<state, from, pins, closer>>
  BY DEF SpawnGrant, Shape, diskVars
<1>2. closer.at = "no" /\ closer'.at = "no" /\ \A q \in Names \ {p} : spawn[q].at = "no"
  BY <1>1, Alone
<1>3. \A q \in Names : spawn'[q].at = "no"
  BY <1>2 DEF SpawnGrant, Shape, NoSpawn
<1>4. from[c] = p
  BY <1>1 DEF TreeInv, Handed
<1>5. Handed' /\ Planned' /\ Parented'
  BY <1>1, <1>2, <1>3 DEF TreeInv, Handed, Planned, Parented
<1>6. Ranked'
  BY <1>1, RankedDrop DEF TreeInv
<1>7. Granting'
  <2> SUFFICES ASSUME NEW x \in Names, from[x] # None PROVE <<from[x], x>> \in grants'
    BY <1>1 DEF Granting
  <2>1. from[x] \in Names
    BY DEF Shape
  <2>2. \/ <<from[x], x>> \in grants
        \/ spawn[from[x]].at = "grant" /\ spawn[from[x]].child = x
    BY <1>2 DEF TreeInv, Granting
  <2>3. spawn[from[x]].at = "grant" => from[x] = p
    BY <1>2, <2>1
  <2> QED BY <1>1, <2>2, <2>3
<1> QED BY <1>5, <1>6, <1>7 DEF TreeInv
LEMMA SubtreeSpawned ==
    ASSUME Shape, NEW n \in Names
    PROVE  Subtree(n) \subseteq {x \in Names : from[x] # None}
<1> DEFINE S == {x \in Names : from[x] # None}
<1>1. S \in SUBSET Names /\ \A y \in Names : Subagents(y) \subseteq S
  BY NamesAssumption DEF Subagents
<1>2. \A y \in S \cup {n} : Subagents(y) \subseteq S
  BY <1>1
<1> HIDE DEF S
<1>3. Subtree(n) \subseteq S
  BY <1>1, <1>2, SubtreeLeast
<1> QED BY <1>3 DEF S

LEMMA CloseBeginKeepsT ==
    ASSUME ~Races, Shape, LInv, TreeInv, NEW n \in Names, CloseBegin(n)
    PROVE  TreeInv'
<1>1. PICK s \in Doomed(n) : closer' = [at |-> "freeze", plan |-> Append(s, n)]
  BY DEF CloseBegin
<1>2. PICK plan : plan = Append(s, n)
  OBVIOUS
<1>3. /\ plan \in Seq(Names) /\ plan # <<>> /\ Len(plan) \in Nat \ {0}
      /\ plan[Len(plan)] = n
      /\ \A i \in 1 .. Len(plan) - 1 : plan[i] = s[i] /\ s[i] \in Subtree(n)
      /\ \A d \in Subtree(n) : \E i \in 1 .. Len(plan) - 1 : s[i] = d
      /\ \A i, j \in 1 .. Len(plan) - 1 : i < j => s[i] # s[j] /\ s[j] \notin Subtree(s[i])
  <2>1. plan \in Seq(Names) /\ plan # <<>>
    BY <1>2, PlanShape
  <2>2. Len(plan) \in Nat \ {0}
    BY <2>1
  <2> QED BY <1>2, <2>1, <2>2, PlanShape
<1>4. /\ Calm /\ UNCHANGED <<state, from, grants, pins, spawn>> /\ n \in state
      /\ \A x \in Subtree(n) \cup {n} : x \notin Subtree(x)
  BY DEF CloseBegin, diskVars, memVars
<1>5. closer.at = "no" /\ \A q \in Names : spawn[q].at = "no"
  BY <1>4 DEF Calm, NoSpawn, NoClose
<1>6. \A x \in Names : from[x] # None => <<from[x], x>> \in grants
  BY <1>5 DEF TreeInv, Granting, Shape
<1>7. /\ Subtree(n) \subseteq Names
      /\ \A y \in Subtree(n) \cup {n} : Subagents(y) \subseteq Subtree(n)
  BY SubtreeShape
<1>8. ASSUME NEW i \in 1 .. Len(plan), NEW x \in Names, from[x] = plan[i]
      PROVE  \E j \in 1 .. i - 1 : plan[j] = x
  <2>1. plan[i] \in Subtree(n) \cup {n} /\ plan[i] \in Names
    BY <1>3
  <2>2. x \in Subagents(plan[i])
    BY <1>6, <1>8, <2>1, NamesAssumption DEF Subagents
  <2>3. x \in Subtree(n)
    BY <1>7, <2>1, <2>2
  <2>4. PICK j \in 1 .. Len(plan) - 1 : s[j] = x
    BY <1>3, <2>3
  <2>5. plan[j] = x
    BY <1>3, <2>4
  <2>6. j < i
    <3>1. CASE i = Len(plan)
      BY <1>3, <2>4, <3>1
    <3>2. CASE i # Len(plan)
      <4>1. i \in 1 .. Len(plan) - 1 /\ plan[i] = s[i]
        BY <1>3, <3>2
      <4>2. x \in Subtree(s[i])
        BY <2>1, <2>2, <4>1, SubtreeShape
      <4>3. ~(i < j)
        BY <1>3, <2>4, <4>1, <4>2
      <4>4. i # j
        BY <1>4, <2>3, <2>4, <4>2
      <4> QED BY <2>4, <4>1, <4>3, <4>4, <1>3
    <3> QED BY <3>1, <3>2
  <2> QED BY <1>3, <2>4, <2>5, <2>6
<1>9. ASSUME NEW i \in 1 .. Len(plan), NEW j \in 1 .. Len(plan), i < j
      PROVE  plan[i] # plan[j]
  <2>1. i \in 1 .. Len(plan) - 1
    BY <1>3, <1>9
  <2>2. CASE j = Len(plan)
    BY <1>3, <1>4, <2>1, <2>2
  <2>3. CASE j # Len(plan)
    <3>1. j \in 1 .. Len(plan) - 1
      BY <1>3, <2>3
    <3> QED BY <1>3, <1>9, <2>1, <3>1
  <2> QED BY <2>2, <2>3
<1>10. ASSUME NEW i \in 1 .. Len(plan) PROVE plan[i] \in state
  <2>1. CASE i = Len(plan)
    BY <1>3, <1>4, <2>1
  <2>2. CASE i # Len(plan)
    <3>1. plan[i] \in Subtree(n)
      BY <1>3, <2>2
    <3>2. plan[i] \in Names /\ from[plan[i]] # None
      BY <3>1, SubtreeSpawned
    <3> QED BY <3>2 DEF LInv, Stated
  <2> QED BY <2>1, <2>2
<1>11. closer'.plan = plan /\ closer'.at = "freeze"
  BY <1>1, <1>2
<1>12. Planned'
  BY <1>4, <1>8, <1>9, <1>10, <1>11 DEF Planned
<1>13. Ranked'
  BY <1>4, RankedDrop DEF TreeInv
<1>14. Handed' /\ Granting' /\ Parented'
  BY <1>4, <1>5, <1>6 DEF TreeInv, Handed, Granting, Parented
<1> QED BY <1>12, <1>13, <1>14 DEF TreeInv

LEMMA FreezeKeepsT == ASSUME Shape, LInv, TreeInv, CloseFreeze PROVE TreeInv'
<1>1. /\ closer.at = "freeze" /\ closer'.at = "state" /\ closer'.plan = closer.plan
      /\ UNCHANGED <<state, from, spawn>> /\ grants' = grants \ {<<from[Current], Current>>}
  BY DEF CloseFreeze, Shape, diskVars
<1>2. Current' = Current
  BY <1>1 DEF Current
<1>3. \A q \in Names : spawn[q].at = "no"
  BY <1>1, Alone
<1>4. Handed' /\ Parented'
  BY <1>1, <1>3 DEF TreeInv, Handed, Parented
<1>5. Ranked'
  BY <1>1, RankedDrop DEF TreeInv
<1>6. Planned'
  BY <1>1 DEF TreeInv, Planned
<1>7. Granting'
  <2>1. \A x \in Names : from[x] # None => <<from[x], x>> \in grants
    BY <1>1, <1>3 DEF TreeInv, Granting, Shape
  <2> QED BY <1>1, <1>2, <2>1 DEF Granting
<1> QED BY <1>4, <1>5, <1>6, <1>7 DEF TreeInv

\* The state directory of the current topic goes: all its children went before.
LEMMA StateGoesT ==
    ASSUME Shape, LInv, TreeInv, closer.at # "no", Without({Current}),
           UNCHANGED <<grants, spawn>>
    PROVE  /\ Handed' /\ Ranked' /\ Parented'
           /\ \A x \in Names : from'[x] # None => /\ x # Current /\ from'[x] = from[x]
                                                  /\ from'[x] # Current
                                                  /\ <<from'[x], x>> \in grants'
<1>1. Current = closer.plan[1] /\ Current \in Names /\ 1 \in 1 .. Len(closer.plan)
  BY CurrentShape
<1>2. \A q \in Names : spawn[q].at = "no"
  BY Alone
<1>3. \A x \in Names : from'[x] # None => x # Current /\ from'[x] = from[x]
  BY DEF Without
<1>4. \A x \in Names : from[x] # Current
  <2>1. ASSUME NEW x \in Names, from[x] = Current PROVE FALSE
    <3>1. \E j \in 1 .. 1 - 1 : closer.plan[j] = x
      BY <1>1, <2>1 DEF TreeInv, Planned
    <3> QED BY <3>1
  <2> QED BY <2>1
<1>5. Handed'
  BY <1>2 DEF Handed
<1>6. Ranked'
  <2>1. \A x \in Names : from'[x] = from[x] \/ from'[x] = None
    BY <1>3
  <2> QED BY <2>1, RankedDrop DEF TreeInv
<1>7. Parented'
  <2>1. state' = state \ {Current}
    BY DEF Without
  <2> QED BY <1>3, <1>4, <2>1 DEF TreeInv, Parented
<1>8. \A x \in Names : from'[x] # None => <<from'[x], x>> \in grants
  BY <1>2, <1>3 DEF TreeInv, Granting, Shape
<1> QED BY <1>3, <1>4, <1>5, <1>6, <1>7, <1>8

LEMMA StateKeepsT == ASSUME Shape, LInv, TreeInv, CloseState PROVE TreeInv'
<1>1. /\ closer.at = "state" /\ closer'.at = "home" /\ closer'.plan = closer.plan
      /\ Without({Current}) /\ UNCHANGED <<grants, spawn>>
  BY DEF CloseState, Shape, memVars
<1>2. /\ Handed' /\ Ranked' /\ Parented'
      /\ \A x \in Names : from'[x] # None => /\ x # Current /\ from'[x] = from[x]
                                             /\ from'[x] # Current
                                             /\ <<from'[x], x>> \in grants'
  BY <1>1, StateGoesT
<1>3. Granting'
  BY <1>2 DEF Granting
<1>4. /\ Current' = Current /\ Current = closer.plan[1] /\ closer.plan \in Seq(Names)
      /\ state' = state \ {Current} /\ 1 \in 1 .. Len(closer.plan) /\ Len(closer.plan) \in Nat
  BY <1>1, CurrentShape DEF Current, Without
<1>5. Planned'
  <2>1. \A i \in 1 .. Len(closer.plan) : closer.plan[i] \in Names
    BY <1>4
  <2>2. \A i \in 1 .. Len(closer.plan) : i > 1 => closer.plan[i] # Current
    BY <1>1, <1>4 DEF TreeInv, Planned
  <2>3. ASSUME NEW i \in 1 .. Len(closer.plan), NEW x \in Names, from'[x] = closer.plan[i]
        PROVE  \E j \in 1 .. i - 1 : closer.plan[j] = x
    <3>1. from'[x] # None
      BY <2>1, <2>3, NamesAssumption
    <3>2. from[x] = closer.plan[i]
      BY <1>2, <2>3, <3>1
    <3> QED BY <1>1, <3>2 DEF TreeInv, Planned
  <2> QED BY <1>1, <1>4, <2>2, <2>3 DEF TreeInv, Planned
<1> QED BY <1>2, <1>3, <1>5 DEF TreeInv

\* The close goes on to the next topic of the plan when the first has gone.
LEMMA AdvanceKeepsT ==
    ASSUME Shape, LInv, TreeInv, closer.at # "no", closer' = CloseNext, Without({Current}),
           UNCHANGED <<grants, spawn>>
    PROVE  TreeInv'
<1>1. /\ Handed' /\ Ranked' /\ Parented'
      /\ \A x \in Names : from'[x] # None => /\ x # Current /\ from'[x] = from[x]
                                             /\ from'[x] # Current
                                             /\ <<from'[x], x>> \in grants'
  BY StateGoesT
<1>2. Granting'
  BY <1>1 DEF Granting
<1>3. /\ closer.plan \in Seq(Names) /\ Len(closer.plan) \in Nat \ {0}
      /\ Current = closer.plan[1] /\ state' = state \ {Current}
  BY CurrentShape DEF Without
<1>4. CASE closer' = NoClose
  BY <1>1, <1>2, <1>4 DEF TreeInv, Planned, NoClose
<1>5. CASE /\ closer'.at = "freeze" /\ Len(closer'.plan) = Len(closer.plan) - 1
           /\ \A i \in 1 .. Len(closer'.plan) : closer'.plan[i] = closer.plan[i + 1]
  <2>1. ASSUME NEW i \in 1 .. Len(closer'.plan)
        PROVE  /\ i + 1 \in 1 .. Len(closer.plan) /\ closer'.plan[i] = closer.plan[i + 1]
               /\ closer.plan[i + 1] \in Names /\ i + 1 > 1
    BY <1>3, <1>5
  <2>2. ASSUME NEW i \in 1 .. Len(closer'.plan), NEW x \in Names, from'[x] = closer'.plan[i]
        PROVE  \E j \in 1 .. i - 1 : closer'.plan[j] = x
    <3>1. from'[x] # None /\ from[x] = closer.plan[i + 1] /\ x # Current
      BY <1>1, <2>1, <2>2, NamesAssumption
    <3>2. PICK j \in 1 .. (i + 1) - 1 : closer.plan[j] = x
      BY <2>1, <3>1 DEF TreeInv, Planned
    <3>3. j - 1 \in 1 .. i - 1 /\ j - 1 \in 1 .. Len(closer'.plan) /\ (j - 1) + 1 = j
      BY <1>3, <1>5, <3>1, <3>2
    <3>4. closer'.plan[j - 1] = x
      BY <1>5, <3>2, <3>3
    <3> QED BY <3>3, <3>4
  <2>3. ASSUME NEW i \in 1 .. Len(closer'.plan), NEW j \in 1 .. Len(closer'.plan), i < j
        PROVE  closer'.plan[i] # closer'.plan[j]
    <3>1. i + 1 < j + 1
      BY <2>3
    <3> QED BY <2>1, <3>1 DEF TreeInv, Planned
  <2>4. ASSUME NEW i \in 1 .. Len(closer'.plan) PROVE closer'.plan[i] \in state'
    <3>1. closer.plan[i + 1] \in state
      BY <2>1 DEF TreeInv, Planned
    <3>2. closer.plan[1] # closer.plan[i + 1]
      BY <1>3, <2>1 DEF TreeInv, Planned
    <3> QED BY <1>3, <2>1, <3>1, <3>2
  <2>5. Planned'
    BY <1>5, <2>2, <2>3, <2>4 DEF Planned
  <2> QED BY <1>1, <1>2, <2>5 DEF TreeInv
<1> QED BY <1>4, <1>5, RestShape

\* A home that is kept changes nothing: the state directory has gone before.
LEMMA KeptGone ==
    ASSUME Shape, LInv, TreeInv, closer.at = "home", UNCHANGED <<state, crumb, from>>
    PROVE  Without({Current})
<1>1. Current \in Names /\ Current \notin state /\ Current \notin crumb
  BY CurrentShape DEF Shape, TreeInv, Planned
<1>2. from[Current] = None
  BY <1>1 DEF LInv, Stated
<1>3. from = [x \in Names |-> IF x \in {Current} THEN None ELSE from[x]]
  BY <1>2 DEF Shape
<1> QED BY <1>1, <1>3 DEF Without

LEMMA CloseKeepsT ==
    ASSUME ~Fails, Shape, LInv, TreeInv, CloseStep
    PROVE  TreeInv'
<1>1. CASE CloseHome
  <2>1. /\ closer.at = "home" /\ closer' = CloseNext /\ UNCHANGED <<grants, spawn>>
        /\ UNCHANGED <<state, crumb, from>> \/ Without({Current})
    BY <1>1 DEF CloseHome, memVars
  <2> QED BY <2>1, KeptGone, AdvanceKeepsT
<1>2. CASE CloseUnregistered
  BY <1>2, AdvanceKeepsT DEF CloseUnregistered, memVars
<1> QED BY <1>1, <1>2, FreezeKeepsT, StateKeepsT DEF CloseStep, CloseFails

LEMMA RestartKeepsT == ASSUME Shape, LInv, TreeInv, Restart PROVE TreeInv'
<1>1. /\ UNCHANGED <<state, from>> /\ closer'.at = "no"
      /\ \A q \in Names : spawn'[q].at = "no"
      /\ grants' = {<<from[c], c>> : c \in {x \in state \cap crumb : from[x] # None}}
  BY DEF Restart, Rebuilt, NoClose, NoSpawn
<1>2. Ranked'
  BY <1>1, RankedDrop DEF TreeInv
<1>3. Granting'
  <2>1. \A x \in Names : from[x] # None => x \in state \cap crumb
    BY DEF LInv, Stated, Crumbed
  <2> QED BY <1>1, <2>1 DEF Granting
<1>4. Handed' /\ Planned' /\ Parented'
  BY <1>1 DEF TreeInv, Handed, Planned, Parented
<1> QED BY <1>2, <1>3, <1>4 DEF TreeInv

LEMMA NextTree ==
    ASSUME ~Races, ~Fails
    PROVE  Shape /\ LInv /\ TreeInv /\ [Next]_vars => TreeInv'
<1> SUFFICES ASSUME Shape, LInv, TreeInv, [Next]_vars PROVE TreeInv'
  OBVIOUS
<1>1. ASSUME NEW n \in Names, Open(n) PROVE TreeInv'
  <2>1. closer.at = "no"
    BY <1>1 DEF Open, Calm, NoClose
  <2> QED BY <1>1, <2>1, StillKeepsT DEF Open
<1>2. ASSUME NEW n \in Names, LookUp(n) PROVE TreeInv'
  BY <1>2, StillKeepsT DEF LookUp, diskVars
<1>3. CASE Prune
  BY <1>3, StillKeepsT DEF Prune, diskVars
<1>4. CASE UNCHANGED vars
  BY <1>4, StillKeepsT DEF vars, diskVars, memVars
<1> QED BY <1>1, <1>2, <1>3, <1>4, BeginKeepsT, MakeKeepsT, SeedKeepsT, GrantKeepsT,
           CloseBeginKeepsT, CloseKeepsT, RestartKeepsT DEF Next, SpawnStep

LEMMA SpecTree ==
    ~Races /\ ~Fails /\ ~Reuses => (Spec => [](Shape /\ LInv /\ TreeInv))
<1> SUFFICES ASSUME ~Races, ~Fails, ~Reuses PROVE Spec => [](Shape /\ LInv /\ TreeInv)
  OBVIOUS
<1> QED BY InitShape, InitLInv, InitTree, NextShape, NextLInv, NextTree, PTL DEF Spec

\* A child is never without its parent, not in the middle of a close nor after a
\* crash in it: the subtree goes children first (close_topic_under).
THEOREM NeverOrphaned == ~Races /\ ~Fails /\ ~Reuses => (Spec => []NoOrphan)
<1> SUFFICES ASSUME ~Races, ~Fails, ~Reuses PROVE Spec => []NoOrphan
  OBVIOUS
<1>1. Shape /\ TreeInv => NoOrphan
  BY DEF Shape, TreeInv, Parented, NoOrphan
<1> QED BY <1>1, SpecTree, PTL

----------------------------------------------------------------------------
(* Directories. *)

LEMMA InitDir == Init => DirInv
BY DEF Init, DirInv, Making, Marked, NoSpawn

\* What holds between spawns and closes.
LEMMA CalmIs ==
    ASSUME Shape, DirInv, Calm
    PROVE  /\ closer.at = "no" /\ \A q \in Names : spawn[q].at = "no"
           /\ \A x \in closed \cap state :
                 from[x] \in pins \cap state /\ work[x] \in {x, work[from[x]]}
<1>1. closer.at = "no" /\ \A q \in Names : spawn[q].at = "no"
  BY DEF Calm, NoSpawn, NoClose
<1> QED BY <1>1 DEF DirInv, Marked

LEMMA OpenKeepsD ==
    ASSUME ~Races, Shape, DirInv, NEW n \in Names, Open(n)
    PROVE  DirInv'
<1>1. PICK home \in Names :
        /\ work' = [work EXCEPT ![n] = home]
        /\ n \in pins => home = work[n]
  BY DEF Open, Shape
<1>2. /\ Calm /\ state' = state \cup {n} /\ pins' = pins \cup {n}
      /\ closed' = closed \ {n} /\ UNCHANGED <<from, spawn, closer>>
  BY DEF Open
<1>3. \A x \in Names : work'[x] = IF x = n THEN home ELSE work[x]
  BY <1>1 DEF Shape
<1>4. /\ closer'.at = "no" /\ \A q \in Names : spawn'[q].at = "no"
      /\ \A x \in closed \cap state :
            from[x] \in pins \cap state /\ work[x] \in {x, work[from[x]]}
  BY <1>2, CalmIs
<1>5. state \subseteq Names /\ pins \subseteq Names
  BY DEF Shape
<1>6. Making'
  BY <1>4 DEF Making
<1>7. Marked'
  <2> SUFFICES ASSUME NEW x \in closed' \cap state'
               PROVE  from'[x] \in pins' \cap state' /\ work'[x] \in {x, work'[from'[x]]}
    BY DEF Marked
  <2>1. x \in closed \cap state /\ x # n /\ x \in Names
    BY <1>2, <1>5
  <2>2. from[x] \in pins \cap state /\ work[x] \in {x, work[from[x]]} /\ from[x] \in Names
    BY <1>4, <1>5, <2>1
  <2>3. work'[from[x]] = work[from[x]]
    BY <1>1, <1>3, <2>2
  <2> QED BY <1>2, <1>3, <2>1, <2>2, <2>3
<1> QED BY <1>6, <1>7 DEF DirInv

\* Pins that are added, or that had no state directory and go, break nothing.
LEMMA PinsKeepD ==
    ASSUME Shape, TreeInv, DirInv, UNCHANGED <<state, work, spawn, from, closed, closer>>,
           pins \cap state \subseteq pins'
    PROVE  DirInv'
<1>1. Current' = Current
  BY DEF Current
<1> QED BY <1>1 DEF DirInv, Making, Marked

LEMMA BeginKeepsD ==
    ASSUME ~Races, Shape, DirInv, NEW p \in Names, NEW c \in Names, SpawnBegin(p, c)
    PROVE  DirInv'
<1>1. Calm /\ UNCHANGED <<state, work, pins, from, closed, closer>>
  BY DEF SpawnBegin, diskVars, memVars
<1>2. PICK home \in {c} \cup {work[x] : x \in {y \in {p} : Shares}} :
         spawn' = [spawn EXCEPT ![p] = [at |-> "make", child |-> c, home |-> home]]
  BY DEF SpawnBegin
<1>3. \A q \in Names : spawn'[q] = IF q = p
                          THEN [at |-> "make", child |-> c, home |-> home] ELSE NoSpawn
  BY <1>1, <1>2 DEF Shape, Calm
<1>4. /\ spawn'[p].at = "make" /\ spawn'[p].child = c /\ spawn'[p].home \in {c, work[p]}
      /\ \A q \in Names : spawn'[q].at # "no" => q = p
  BY <1>2, <1>3 DEF NoSpawn
<1>5. /\ closer'.at = "no"
      /\ \A x \in closed \cap state :
            from[x] \in pins \cap state /\ work[x] \in {x, work[from[x]]}
  BY <1>1, CalmIs
<1>6. Making'
  BY <1>1, <1>4 DEF Making
<1>7. Marked'
  BY <1>1, <1>5 DEF Marked
<1> QED BY <1>6, <1>7 DEF DirInv

LEMMA MakeKeepsD ==
    ASSUME Shape, LInv, TreeInv, DirInv, NEW p \in Names, SpawnMake(p)
    PROVE  DirInv'
<1> DEFINE c == spawn[p].child  home == spawn[p].home
<1>1. /\ spawn[p].at = "make" /\ c \in Names /\ home \in Names
      /\ p \in state \cap pins /\ c # p /\ \A x \in Names : from[x] # c
      /\ home \in {c, work[p]}
  BY DEF SpawnMake, Shape, TreeInv, Handed, DirInv, Making
<1>2. /\ state' = state \cup {c} /\ pins' = pins \cup {c} /\ UNCHANGED <<from, closed, closer>>
  BY <1>1 DEF SpawnMake
<1>3. \A x \in Names : work'[x] = IF x = c THEN home ELSE work[x]
  BY DEF SpawnMake, Shape
<1>4. /\ spawn'[p].at = "seed" /\ spawn'[p].child = c
      /\ closer'.at = "no" /\ closer.at = "no"
      /\ \A q \in Names \ {p} : spawn'[q].at = "no" /\ spawn[q].at = "no"
  BY <1>1, <1>2, Alone DEF SpawnMake, Shape
<1>5. state \subseteq Names /\ pins \subseteq Names
  BY DEF Shape
<1>6. \A x \in closed \cap state :
         from[x] \in pins \cap state /\ work[x] \in {x, work[from[x]]}
  BY <1>1, <1>4 DEF DirInv, Marked
<1> HIDE DEF c, home
<1>7. Making'
  BY <1>1, <1>3, <1>4 DEF Making
<1>8. Marked'
  <2> SUFFICES ASSUME NEW x \in closed' \cap state', x # c
               PROVE  from'[x] \in pins' \cap state' /\ work'[x] \in {x, work'[from'[x]]}
    BY <1>4 DEF Marked
  <2>1. x \in closed \cap state /\ x \in Names
    BY <1>2, <1>5
  <2>2. from[x] \in pins \cap state /\ work[x] \in {x, work[from[x]]} /\ from[x] # c
        /\ from[x] \in Names
    BY <1>1, <1>5, <1>6, <2>1
  <2> QED BY <1>2, <1>3, <2>1, <2>2
<1> QED BY <1>7, <1>8 DEF DirInv

LEMMA SeedKeepsD ==
    ASSUME Shape, LInv, TreeInv, DirInv, NEW p \in Names, SpawnSeed(p) \/ SpawnGrant(p)
    PROVE  DirInv'
<1> DEFINE c == spawn[p].child
<1>1. /\ spawn[p].at \in {"seed", "grant"} /\ c \in Names /\ p \in state \cap pins /\ c # p
      /\ c \in state /\ work[c] \in {c, work[p]}
  BY DEF SpawnSeed, SpawnGrant, Shape, TreeInv, Handed, DirInv, Making
<1>2. UNCHANGED <<state, work, pins, closed, closer>>
  BY DEF SpawnSeed, SpawnGrant, memVars, diskVars
<1>3. /\ closer.at = "no" /\ closer'.at = "no"
      /\ \A q \in Names \ {p} : spawn[q].at = "no"
  BY <1>1, <1>2, Alone
<1>4. \A x \in closed \cap state :
         x # c => from[x] \in pins \cap state /\ work[x] \in {x, work[from[x]]}
  BY <1>3 DEF DirInv, Marked
<1>5. CASE SpawnSeed(p)
  <2>1. from' = [from EXCEPT ![c] = p] /\ spawn' = [spawn EXCEPT ![p].at = "grant"]
    BY <1>1, <1>5 DEF SpawnSeed
  <2>2. /\ \A x \in Names : from'[x] = IF x = c THEN p ELSE from[x]
        /\ spawn'[p].at = "grant" /\ spawn'[p].child = c
        /\ \A q \in Names \ {p} : spawn'[q].at = "no"
    BY <1>1, <1>3, <2>1 DEF Shape
  <2> HIDE DEF c
  <2>3. Making'
    BY <1>1, <1>2, <2>2 DEF Making
  <2>4. Marked'
    <3>1. state \subseteq Names
      BY DEF Shape
    <3> QED BY <1>2, <1>4, <2>2, <3>1 DEF Marked
  <2> QED BY <2>3, <2>4 DEF DirInv
<1>6. CASE SpawnGrant(p)
  <2>1. UNCHANGED from /\ from[c] = p
    BY <1>6 DEF SpawnGrant, diskVars, TreeInv, Handed
  <2>2. \A q \in Names : spawn'[q].at = "no"
    BY <1>3, <1>6 DEF SpawnGrant, Shape, NoSpawn
  <2> HIDE DEF c
  <2>3. Making' /\ Marked'
    BY <1>1, <1>2, <1>4, <2>1, <2>2 DEF Making, Marked
  <2> QED BY <2>3 DEF DirInv
<1> QED BY <1>5, <1>6

LEMMA CloseBeginKeepsD ==
    ASSUME ~Races, Shape, DirInv, NEW n \in Names, CloseBegin(n)
    PROVE  DirInv'
<1>1. Calm /\ UNCHANGED <<state, work, pins, from, closed, spawn>>
  BY DEF CloseBegin, diskVars, memVars
<1>2. \A x \in closed \cap state :
         from[x] \in pins \cap state /\ work[x] \in {x, work[from[x]]}
  BY <1>1, CalmIs
<1> QED BY <1>1, <1>2 DEF DirInv, Making, Marked

LEMMA FreezeKeepsD ==
    ASSUME Shape, LInv, TreeInv, DirInv, CloseFreeze
    PROVE  DirInv'
<1>1. /\ closer.at = "freeze" /\ closed' = closed \cup {Current}
      /\ closer'.at = "state" /\ closer'.plan = closer.plan /\ pins \subseteq pins'
      /\ UNCHANGED <<state, work, spawn, from>>
  BY DEF CloseFreeze, diskVars, Shape
<1>2. Current' = Current
  BY <1>1 DEF Current
<1>3. Making'
  BY <1>1 DEF DirInv, Making
<1>4. Marked'
  <2> SUFFICES ASSUME NEW x \in closed \cap state, x # Current
               PROVE  \/ \E p \in Names : spawn[p].at \in {"seed", "grant"} /\ spawn[p].child = x
                      \/ from[x] \in pins' \cap state /\ work[x] \in {x, work[from[x]]}
    BY <1>1, <1>2 DEF Marked
  <2> QED BY <1>1 DEF DirInv, Marked
<1> QED BY <1>3, <1>4 DEF DirInv

\* The state directory of the current topic goes.
LEMMA WithoutKeepsD ==
    ASSUME Shape, LInv, TreeInv, DirInv, closer.at # "no", Without({Current}),
           UNCHANGED <<work, pins, closed, spawn, grants>>, closer'.at # "state"
    PROVE  DirInv'
<1>1. /\ state' = state \ {Current}
      /\ state \subseteq Names /\ \A q \in Names : spawn[q].at = "no"
  BY Alone DEF Without, Shape
<1>2. Making'
  BY <1>1 DEF Making
<1>3. Marked'
  <2> SUFFICES ASSUME NEW x \in closed' \cap state'
               PROVE  from'[x] \in pins' \cap state' /\ work'[x] \in {x, work'[from'[x]]}
    BY DEF Marked
  <2>1. x \in closed \cap state /\ x \in Names /\ x # Current
    BY <1>1
  <2>2. from[x] \in pins \cap state /\ work[x] \in {x, work[from[x]]}
    BY <1>1, <2>1 DEF DirInv, Marked
  <2>3. from'[x] = from[x]
    BY <2>1 DEF Without
  <2>4. from[x] # None
    BY <1>1, <2>2, NamesAssumption
  <2>5. from[x] # Current
    BY <2>1, <2>3, <2>4, StateGoesT
  <2> QED BY <1>1, <2>2, <2>3, <2>5
<1> QED BY <1>2, <1>3 DEF DirInv

LEMMA CloseKeepsD ==
    ASSUME Shape, LInv, TreeInv, DirInv, CloseState \/ CloseUnregistered \/ CloseHome
    PROVE  DirInv'
<1>1. /\ closer.at # "no" /\ UNCHANGED <<work, pins, closed, spawn, grants>>
  BY DEF CloseState, CloseUnregistered, CloseHome, memVars
<1>2. closer'.at # "state"
  <2>1. CASE closer' = CloseNext
    BY <1>1, <2>1, RestShape DEF NoClose
  <2>2. CASE CloseState
    BY <2>2 DEF CloseState, Shape
  <2> QED BY <2>1, <2>2 DEF CloseUnregistered, CloseHome
<1>3. CASE Without({Current})
  BY <1>1, <1>2, <1>3, WithoutKeepsD
<1>4. CASE CloseHome /\ UNCHANGED <<state, from>>
  <2>1. \A q \in Names : spawn[q].at = "no"
    BY <1>1, Alone
  <2>2. closer.at # "state"
    BY <1>4 DEF CloseHome
  <2> QED BY <1>1, <1>2, <1>4, <2>1, <2>2 DEF DirInv, Making, Marked
<1> QED BY <1>3, <1>4 DEF CloseState, CloseUnregistered, CloseHome

LEMMA LeastNat ==
    ASSUME NEW R, R \subseteq Nat, R # {}
    PROVE  \E m \in R : \A k \in R : m <= k
<1>1. PICK m \in R : \A k \in R : ~(<<k, m>> \in OpToRel(<, Nat))
  BY WFMin, NatLessThanWellFounded, Zenon
<1>2. \A k \in R : ~(k < m)
  BY <1>1 DEF OpToRel
<1> QED BY <1>2

\* What ranks its members has a member of the least rank.
LEMMA LeastRank ==
    ASSUME NEW rank \in [Names -> Nat], NEW Y \in SUBSET Names, Y # {}
    PROVE  \E y \in Y : \A x \in Y : rank[y] <= rank[x]
<1>1. PICK R \in SUBSET Nat : R = {rank[y] : y \in Y}
  OBVIOUS
<1>2. R # {}
  BY <1>1
<1>3. PICK m \in R : \A k \in R : m <= k
  BY <1>2, LeastNat
<1>4. PICK y \in Y : rank[y] = m
  BY <1>1, <1>3
<1> QED BY <1>1, <1>3, <1>4

\* A directory that goes is nobody's: whoever works there has not closed, or
\* shares it with a parent that does too.
LEMMA NobodyThere ==
    ASSUME Shape, LInv, TreeInv, DirInv, closer.at = "home", ~Held(Current, Current),
           NEW n \in state \cap pins
    PROVE  work[n] # Current
<1>1. /\ Current = closer.plan[1] /\ Current \in Names /\ 1 \in 1 .. Len(closer.plan)
      /\ Current \notin state
  BY CurrentShape DEF TreeInv, Planned
<1>2. \A x \in Names : from[x] # Current
  <2> SUFFICES ASSUME NEW x \in Names, from[x] = closer.plan[1] PROVE FALSE
    BY <1>1
  <2>1. \E j \in 1 .. 1 - 1 : closer.plan[j] = x
    BY <1>1 DEF TreeInv, Planned
  <2> QED BY <2>1
<1> DEFINE Y == {y \in state \cap pins : work[y] = Current}
<1>3. ASSUME NEW y \in Y
      PROVE  y \in Names /\ from[y] \in Y /\ from[y] # None
  <2>1. y \in state \cap pins /\ work[y] = Current /\ y # Current /\ y \in Names
    BY <1>1 DEF Shape
  <2>2. y \in closed
    BY <1>1, <1>2, <2>1 DEF Held, PinHeld
  <2>3. \A q \in Names : spawn[q].at = "no"
    BY Alone
  <2>4. from[y] \in pins \cap state /\ work[y] \in {y, work[from[y]]}
    BY <2>1, <2>2, <2>3 DEF DirInv, Marked
  <2>5. from[y] # None
    BY <2>4, NamesAssumption DEF Shape
  <2> QED BY <2>1, <2>4, <2>5
<1>4. PICK rank \in [Names -> Nat] :
         \A x \in Names : from[x] # None => rank[from[x]] < rank[x]
  BY DEF TreeInv, Ranked
<1> SUFFICES ASSUME n \in Y PROVE FALSE
  OBVIOUS
<1> HIDE DEF Y
<1>5. Y \in SUBSET Names /\ Y # {}
  BY <1>3
<1>6. PICK y \in Y : \A x \in Y : rank[y] <= rank[x]
  BY <1>4, <1>5, LeastRank
<1>7. rank[from[y]] < rank[y] /\ rank[y] <= rank[from[y]]
  BY <1>3, <1>4, <1>6
<1>8. rank[y] \in Nat /\ rank[from[y]] \in Nat
  BY <1>3, <1>4, <1>5
<1> QED BY <1>7, <1>8

LEMMA RestartKeepsD == ASSUME Shape, DirInv, Restart PROVE DirInv'
BY DEF Restart, NoSpawn, DirInv, Making, Marked

LEMMA NextDir ==
    ASSUME ~Races, ~Fails
    PROVE  Shape /\ LInv /\ TreeInv /\ DirInv /\ [Next]_vars => DirInv'
<1> SUFFICES ASSUME Shape, LInv, TreeInv, DirInv, [Next]_vars PROVE DirInv'
  OBVIOUS
<1>1. CASE UNCHANGED vars \/ Prune \/ \E n \in Names : LookUp(n)
  <2>1. UNCHANGED <<state, work, spawn, from, closed, closer>> /\ pins \cap state \subseteq pins'
    BY <1>1 DEF vars, diskVars, memVars, Prune, LookUp
  <2> QED BY <2>1, PinsKeepD
<1>2. CASE CloseStep
  BY <1>2, FreezeKeepsD, CloseKeepsD DEF CloseStep, CloseFails
<1>3. ASSUME NEW p \in Names, SpawnStep(p) PROVE DirInv'
  BY <1>3, MakeKeepsD, SeedKeepsD DEF SpawnStep
<1> QED BY <1>1, <1>2, <1>3, OpenKeepsD, BeginKeepsD, CloseBeginKeepsD, RestartKeepsD DEF Next

LEMMA SpecDir ==
    ~Races /\ ~Fails /\ ~Reuses => (Spec => [](Shape /\ LInv /\ TreeInv /\ DirInv))
<1> SUFFICES ASSUME ~Races, ~Fails, ~Reuses
             PROVE  Spec => [](Shape /\ LInv /\ TreeInv /\ DirInv)
  OBVIOUS
<1> QED BY InitShape, InitLInv, InitTree, InitDir, NextShape, NextLInv, NextTree, NextDir,
           PTL DEF Spec

LEMMA StepDir ==
    ASSUME Shape, LInv, TreeInv, DirInv, [Next]_vars,
           NEW n \in state \cap pins, work[n] \in dirs, n \in state' \cap pins', ~Unasked
    PROVE  work'[n] \in dirs'
<1>1. n \in Names /\ work \in [Names -> Names]
  BY DEF Shape
<1>2. CASE UNCHANGED <<dirs, work>>
  BY <1>2
<1>3. ASSUME NEW m \in Names, Open(m) PROVE work'[n] \in dirs'
  BY <1>1, <1>3 DEF Open
<1>4. ASSUME NEW p \in Names, SpawnMake(p) PROVE work'[n] \in dirs'
  BY <1>1, <1>4 DEF SpawnMake
<1>5. CASE CloseHome
  <2>1. closer.at = "home" /\ work' = work
    BY <1>5 DEF CloseHome
  <2>2. CASE Held(Current, Current)
    BY <1>5, <2>1, <2>2 DEF CloseHome
  <2>3. CASE ~Held(Current, Current)
    <3>1. work[n] # Current
      BY <2>1, <2>3, NobodyThere
    <3> QED BY <1>5, <2>1, <2>3, <3>1 DEF CloseHome
  <2> QED BY <2>2, <2>3
<1>6. ~CloseUnregistered
  BY DEF CloseUnregistered, Unasked
<1>7. ~Restart
  BY DEF Restart
<1>8. CASE CloseFreeze \/ CloseState \/ CloseFails
  BY <1>2, <1>8 DEF CloseFreeze, CloseState, CloseFails, diskVars
<1>9. ASSUME NEW p \in Names, SpawnSeed(p) \/ SpawnGrant(p) \/ \E c \in Names : SpawnBegin(p, c)
      PROVE  work'[n] \in dirs'
  BY <1>2, <1>9 DEF SpawnSeed, SpawnGrant, SpawnBegin, diskVars
<1>10. ASSUME NEW m \in Names, LookUp(m) \/ CloseBegin(m) PROVE work'[n] \in dirs'
  BY <1>2, <1>10 DEF LookUp, CloseBegin, diskVars
<1>11. CASE Prune \/ UNCHANGED vars
  BY <1>2, <1>11 DEF Prune, vars, diskVars
<1> QED BY <1>3, <1>4, <1>5, <1>6, <1>7, <1>8, <1>9, <1>10, <1>11 DEF Next, CloseStep, SpawnStep

\* No close of a registered topic takes a directory that a topic in the pin map
\* works in, a restart in the middle of it included (dir_holder): who works in
\* another's directory was spawned into it, and its parent holds the directory
\* for it.
THEOREM DirsKept == ~Races /\ ~Fails /\ ~Reuses => (Spec => DirKept)
<1>1. Shape /\ LInv /\ TreeInv /\ DirInv /\ [Next]_vars =>
         [\A n \in state \cap pins :
            work[n] \in dirs /\ n \in state' \cap pins'
                => work'[n] \in dirs' \/ Unasked]_vars
  BY StepDir
<1> SUFFICES ASSUME ~Races, ~Fails, ~Reuses PROVE Spec => DirKept
  OBVIOUS
<1>2. Spec => [](Shape /\ LInv /\ TreeInv /\ DirInv)
  BY SpecDir
<1> QED BY <1>1, <1>2, PTL DEF Spec, DirKept
=============================================================================
