------------------------- MODULE SenderPeersProofs -------------------------
(***************************************************************************)
(* For any callers, listeners, receivers and weights: the types, the count *)
(* that decides whether a listener is sent to, the application's count of  *)
(* connected peers, the total of the weights, and what the election gives  *)
(* each peer.                                                              *)
(***************************************************************************)
EXTENDS SenderPeers, FiniteSetTheorems, SequenceTheorems, TLAPS

\* Sums of weights.  The sum over a set is the number of turns of its members,
\* which is how the prover reasons about it.

Turns(f, S) == {t \in S \X Nat : t[2] \in 1 .. f[t[1]]}
SumOf(f, S) == Cardinality(Turns(f, S))

\* A nonempty set of finite sets has one that is smallest by inclusion: what
\* induction over the finite sets is done with.
LEMMA SmallestSet ==
    ASSUME NEW S, IsFiniteSet(S), NEW B \in SUBSET (SUBSET S), B # {}
    PROVE  \E T \in B : \A U \in B : U \subseteq T => U = T
<1>1. IsWellFoundedOn(StrictSubsetOrdering(S), SUBSET S)
  BY FS_StrictSubsetOrderingWellFounded, FS_FiniteSubsetsOfFinite, Zenon
<1>2. \E T \in B : \A U \in B : ~ (<<U, T>> \in StrictSubsetOrdering(S))
  BY <1>1, WFMin, Zenon
<1> QED BY <1>2 DEF StrictSubsetOrdering

\* A nonempty set of numbers has a smallest.
LEMMA SmallestNumber ==
    ASSUME NEW B \in SUBSET Nat, B # {}
    PROVE  \E n \in B : \A m \in B : n <= m
<1>1. \E n \in B : \A m \in B : ~ (<<m, n>> \in OpToRel(<, Nat))
  BY NatLessThanWellFounded, WFMin, Zenon
<1>2. PICK n \in B : \A m \in B : ~ (<<m, n>> \in OpToRel(<, Nat))
  BY <1>1
<1>3. ASSUME NEW m \in B PROVE n <= m
  <2>1. ~ (m < n)
    BY <1>2 DEF OpToRel
  <2> QED BY <2>1
<1> QED BY <1>3

\* The turns of one peer.
LEMMA TurnsOfOne ==
    ASSUME NEW f, NEW c, f[c] \in Nat
    PROVE  IsFiniteSet(Turns(f, {c})) /\ SumOf(f, {c}) = f[c]
<1>1. Turns(f, {c}) = {c} \X (1 .. f[c])
  BY DEF Turns
<1>2. IsFiniteSet({c}) /\ Cardinality({c}) = 1
  BY FS_Singleton
<1>3. IsFiniteSet(1 .. f[c]) /\ Cardinality(1 .. f[c]) = f[c]
  BY FS_Interval
<1>4. /\ IsFiniteSet({c} \X (1 .. f[c]))
      /\ Cardinality({c} \X (1 .. f[c])) = Cardinality({c}) * Cardinality(1 .. f[c])
  BY <1>2, <1>3, FS_Product, Zenon
<1>5. 1 * f[c] = f[c]
  OBVIOUS
<1>6. Cardinality({c}) * Cardinality(1 .. f[c]) = f[c]
  BY <1>2, <1>3, <1>5, Zenon
<1> QED BY <1>1, <1>4, <1>6, Zenon DEF SumOf

LEMMA TurnsFinite ==
    ASSUME NEW S, IsFiniteSet(S), NEW f, \A c \in S : f[c] \in Nat
    PROVE  IsFiniteSet(Turns(f, S)) /\ SumOf(f, S) \in Nat
<1> DEFINE B == {T \in SUBSET S : ~ IsFiniteSet(Turns(f, T))}
<1>1. SUFFICES ASSUME ~ IsFiniteSet(Turns(f, S)) PROVE FALSE
  BY FS_CardinalityType DEF SumOf
<1>2. S \in B
  BY <1>1
<1>3. PICK T \in B : \A U \in B : U \subseteq T => U = T
  <2> HIDE DEF B
  <2>1. B \in SUBSET (SUBSET S)
    BY DEF B
  <2> QED BY <1>2, <2>1, SmallestSet
<1>4. T # {}
  <2>1. Turns(f, {}) = {}
    BY DEF Turns
  <2> QED BY <1>3, <2>1, FS_EmptySet
<1>5. PICK c \in T : TRUE
  BY <1>4
<1>6. IsFiniteSet(Turns(f, T \ {c}))
  BY <1>3, <1>5
<1>7. Turns(f, T) = Turns(f, T \ {c}) \union Turns(f, {c})
  BY <1>5 DEF Turns
<1>8. IsFiniteSet(Turns(f, {c}))
  BY <1>5, <1>3, TurnsOfOne
<1>9. IsFiniteSet(Turns(f, T \ {c}) \union Turns(f, {c}))
  BY <1>6, <1>8, FS_Union, Zenon
<1> QED BY <1>3, <1>7, <1>9

LEMMA SumEmpty == ASSUME NEW f PROVE SumOf(f, {}) = 0
<1>1. Turns(f, {}) = {}
  BY DEF Turns
<1> QED BY <1>1, FS_EmptySet DEF SumOf

LEMMA SumAdd ==
    ASSUME NEW S, IsFiniteSet(S), NEW c, c \notin S, NEW f, \A d \in S \union {c} : f[d] \in Nat
    PROVE  SumOf(f, S \union {c}) = SumOf(f, S) + f[c]
<1>1. IsFiniteSet(Turns(f, S)) /\ SumOf(f, S) \in Nat
  BY TurnsFinite
<1>2. IsFiniteSet(Turns(f, {c})) /\ SumOf(f, {c}) = f[c]
  BY TurnsOfOne
<1>3. /\ Turns(f, S \union {c}) = Turns(f, S) \union Turns(f, {c})
      /\ Turns(f, S) \intersect Turns(f, {c}) = {}
  BY DEF Turns
<1>4. SumOf(f, S \union {c}) = SumOf(f, S) + SumOf(f, {c}) - Cardinality({})
  BY <1>1, <1>2, <1>3, FS_Union DEF SumOf
<1> QED BY <1>1, <1>2, <1>4, FS_EmptySet

LEMMA SumRemove ==
    ASSUME NEW S, IsFiniteSet(S), NEW c \in S, NEW f, \A d \in S : f[d] \in Nat
    PROVE  SumOf(f, S) = SumOf(f, S \ {c}) + f[c]
<1>1. S = (S \ {c}) \union {c} /\ IsFiniteSet(S \ {c})
  BY FS_RemoveElement
<1> DEFINE R == S \ {c}
<1>2. SumOf(f, R \union {c}) = SumOf(f, R) + f[c]
  <2>1. IsFiniteSet(R) /\ c \notin R /\ \A d \in R \union {c} : f[d] \in Nat
    BY <1>1
  <2> HIDE DEF R
  <2> QED BY <2>1, SumAdd
<1> QED BY <1>1, <1>2

LEMMA SumSame ==
    ASSUME NEW S, NEW f, NEW g, \A c \in S : f[c] = g[c]
    PROVE  SumOf(f, S) = SumOf(g, S)
<1>1. Turns(f, S) = Turns(g, S)
  BY DEF Turns
<1> QED BY <1>1 DEF SumOf

LEMMA SumPositive ==
    ASSUME NEW S, IsFiniteSet(S), NEW f, \A c \in S : f[c] \in Nat
    PROVE  /\ \A c \in S : f[c] <= SumOf(f, S)
           /\ SumOf(f, S) > 0 => \E c \in S : f[c] > 0
<1>1. ASSUME NEW c \in S PROVE f[c] <= SumOf(f, S)
  <2>1. SumOf(f, S) = SumOf(f, S \ {c}) + f[c]
    BY SumRemove
  <2>2. SumOf(f, S \ {c}) \in Nat
    BY TurnsFinite, FS_RemoveElement
  <2> QED BY <2>1, <2>2
<1>2. ASSUME \A c \in S : f[c] = 0 PROVE SumOf(f, S) = 0
  <2>1. Turns(f, S) = {}
    BY <1>2 DEF Turns
  <2> QED BY <2>1, FS_EmptySet DEF SumOf
<1> QED BY <1>1, <1>2, TurnsFinite

LEMMA TotalIs ==
    ASSUME NEW S, IsFiniteSet(S), \A c \in S : weight[c] \in Nat
    PROVE  Total(S) = SumOf(weight, S)
<1> DEFINE Pick(s) == CHOOSE x \in s : TRUE
           Step(g, s) == IF s = {} THEN 0 ELSE weight[Pick(s)] + g[s \ {Pick(s)}]
           f == [s \in SUBSET S |-> SumOf(weight, s)]
<1>1. f = [s \in SUBSET S |-> Step(f, s)]
  <2>1. ASSUME NEW s \in SUBSET S PROVE SumOf(weight, s) = Step(f, s)
    <3>1. CASE s = {}
      BY <3>1, SumEmpty
    <3>2. CASE s # {}
      <4>1. Pick(s) \in s
        BY <3>2
      <4>2. s \ {Pick(s)} \in SUBSET S
        OBVIOUS
      <4>3. IsFiniteSet(s) /\ \A d \in s : weight[d] \in Nat
        BY FS_Subset
      <4> HIDE DEF Pick
      <4>4. SumOf(weight, s) = SumOf(weight, s \ {Pick(s)}) + weight[Pick(s)]
        BY <4>1, <4>3, SumRemove
      <4>5. SumOf(weight, s \ {Pick(s)}) \in Nat
        BY <4>3, FS_RemoveElement, TurnsFinite
      <4> QED BY <3>2, <4>1, <4>2, <4>3, <4>4, <4>5
    <3> QED BY <3>1, <3>2
  <2> HIDE DEF Step
  <2> QED BY <2>1
<1>2. PICK g : g = [s \in SUBSET S |-> Step(g, s)] /\ Total(S) = g[S]
  <2> HIDE DEF f
  <2> QED BY <1>1 DEF Total, MapThenSumSet, MapThenFoldSet
<1> DEFINE B == {T \in SUBSET S : g[T] # SumOf(weight, T)}
<1>3. SUFFICES ASSUME S \in B PROVE FALSE
  BY <1>2
<1>4. PICK T \in B : \A U \in B : U \subseteq T => U = T
  <2>1. B \in SUBSET (SUBSET S)
    OBVIOUS
  <2> HIDE DEF B
  <2> QED BY <1>3, <2>1, SmallestSet
<1>5. g[T] = Step(g, T)
  <2> HIDE DEF Step
  <2> QED BY <1>2, <1>4
<1>6. T # {}
  BY <1>4, <1>5, SumEmpty
<1>7. Pick(T) \in T
  BY <1>6
<1> HIDE DEF Pick
<1>8. g[T \ {Pick(T)}] = SumOf(weight, T \ {Pick(T)})
  BY <1>4, <1>7
<1>9. IsFiniteSet(T) /\ \A d \in T : weight[d] \in Nat
  BY <1>4, FS_Subset
<1>10. SumOf(weight, T) = SumOf(weight, T \ {Pick(T)}) + weight[Pick(T)]
  BY <1>7, <1>9, SumRemove
<1>11. SumOf(weight, T \ {Pick(T)}) \in Nat
  BY <1>9, FS_RemoveElement, TurnsFinite
<1> QED BY <1>4, <1>5, <1>6, <1>7, <1>8, <1>9, <1>10, <1>11

LEMMA TotalInstance ==
    weight \in [Configured -> Nat]
        => \A S \in SUBSET Configured : Total(S) = SumOf(weight, S)
<1>1. IsFiniteSet(Configured)
  BY FS_Union, SenderPeersAssumption DEF Configured
<1> QED BY <1>1, TotalIs, FS_Subset

LEMMA TotalIsNext ==
    weight' \in [Configured -> Nat]
        => \A S \in SUBSET Configured : Total(S)' = SumOf(weight', S)
<1>1. (weight \in [Configured -> Nat]
        => \A S \in SUBSET Configured : Total(S) = SumOf(weight, S))'
  BY TotalInstance, PTL
<1> QED BY <1>1

----------------------------------------------------------------------------
\* Children and events.

USE SenderPeersAssumption

Live(l) == (here \ dead) \intersect Kids(l)

\* What the two counts rest on: who may be in which set.
SetsOK ==
    /\ here \subseteq Children /\ dead \subseteq Callers \union here
    /\ announced \subseteq Callers \union here /\ timedOut \subseteq Callers
    /\ heard \subseteq Callers
    /\ alive \in [Configured -> Int] /\ appCount \in Int

CountsInv == SetsOK /\ AliveExact /\ EventsMatch

----------------------------------------------------------------------------
\* Facts about the sets.

LEMMA KidsFacts ==
    /\ \A l \in Listeners : Kids(l) \subseteq Children /\ IsFiniteSet(Kids(l))
    /\ \A l, k : l # k => Kids(l) \intersect Kids(k) = {}
    /\ \A p \in Children : p[1] \in Listeners /\ p \in Kids(p[1])
    /\ \A p \in Children : \A l : p \in Kids(l) => l = p[1]
    /\ \A c \in Configured, l \in Listeners : c \notin Kids(l)
    /\ IsFiniteSet(Children)
    /\ Callers \intersect Children = {}
<1>1. \A l \in Listeners : Kids(l) \subseteq Children
  BY DEF Kids, Children
<1>2. ASSUME NEW l \in Listeners PROVE IsFiniteSet(Kids(l))
  BY FS_Singleton, FS_Product DEF Kids
<1>3. \A l, k : l # k => Kids(l) \intersect Kids(k) = {}
  BY DEF Kids
<1>4. \A p \in Children : p[1] \in Listeners /\ p \in Kids(p[1])
  BY DEF Kids, Children
<1>5. \A p \in Children : \A l : p \in Kids(l) => l = p[1]
  BY DEF Kids, Children
<1>6. Configured \intersect Children = {}
  BY DEF Children, Configured
<1>7. \A c \in Configured, l \in Listeners : c \notin Kids(l)
  BY <1>1, <1>6
<1>8. IsFiniteSet(Children)
  BY FS_Product DEF Children
<1>9. Callers \intersect Children = {}
  BY <1>6 DEF Configured
<1> QED BY <1>1, <1>2, <1>3, <1>4, <1>5, <1>7, <1>8, <1>9

LEMMA ConnectedFinite == SetsOK => IsFiniteSet(Connected)
<1> SUFFICES ASSUME SetsOK PROVE IsFiniteSet(Connected)
  OBVIOUS
<1>1. IsFiniteSet(Callers \union Children)
  BY KidsFacts, FS_Union
<1>2. Connected \subseteq Callers \union Children
  BY DEF SetsOK, Connected
<1> QED BY <1>1, <1>2, FS_Subset

\* The same set grows or shrinks by one element, and its size with it.
LEMMA OneIn ==
    ASSUME NEW S, NEW T, NEW x, IsFiniteSet(S), T = S \union {x}, x \notin S
    PROVE  IsFiniteSet(T) /\ Cardinality(T) = Cardinality(S) + 1
BY FS_AddElement

LEMMA OneOut ==
    ASSUME NEW S, NEW T, NEW x, IsFiniteSet(S), T = S \ {x}, x \in S
    PROVE  IsFiniteSet(T) /\ Cardinality(T) = Cardinality(S) - 1
BY FS_RemoveElement

----------------------------------------------------------------------------
\* The children of a listener.

\* A child that was not alive is now: its listener's count goes up by one.
LEMMA ComesAlive ==
    ASSUME SetsOK, AliveExact, NEW p \in Children, p \notin here \/ p \in dead,
           here' = here \union {p}, dead' = dead \ {p}, OneMore(p)
    PROVE  AliveExact' /\ alive' \in [Configured -> Int]
<1> USE KidsFacts
<1>1. p[1] \in Listeners /\ p[1] \in Configured
  BY DEF Configured
<1>2. alive' = [alive EXCEPT ![p[1]] = alive[p[1]] + 1] /\ alive \in [Configured -> Int]
  BY DEF OneMore, SetsOK
<1>3. alive' \in [Configured -> Int]
  BY <1>1, <1>2
<1>4. ASSUME NEW l \in Listeners
      PROVE alive'[l] = Cardinality((here' \ dead') \intersect Kids(l))
  <2>1. alive[l] = Cardinality(Live(l)) /\ l \in Configured
    BY DEF AliveExact, Live, Configured
  <2>2. IsFiniteSet(Live(l))
    BY FS_Subset DEF Live
  <2>3. CASE l = p[1]
    <3>1. (here' \ dead') \intersect Kids(l) = Live(l) \union {p} /\ p \notin Live(l)
      BY <2>3 DEF Live
    <3>2. Cardinality((here' \ dead') \intersect Kids(l)) = Cardinality(Live(l)) + 1
      BY <3>1, <2>2, OneIn
    <3> QED BY <3>2, <2>1, <2>3, <1>2
  <2>4. CASE l # p[1]
    <3>1. (here' \ dead') \intersect Kids(l) = Live(l)
      BY <2>4 DEF Live
    <3>2. alive'[l] = alive[l]
      BY <2>1, <2>4, <1>2
    <3> QED BY <3>1, <3>2, <2>1
  <2> QED BY <2>3, <2>4
<1> QED BY <1>3, <1>4 DEF AliveExact

\* A child that was alive is not any more: the count goes down by one.
LEMMA Dies ==
    ASSUME SetsOK, AliveExact, NEW p \in here \ dead, here' = here, dead' = dead \union {p},
           alive' = [alive EXCEPT ![p[1]] = @ - 1]
    PROVE  AliveExact' /\ alive' \in [Configured -> Int]
<1> USE KidsFacts
<1>0. p \in Children
  BY DEF SetsOK
<1>1. p[1] \in Listeners /\ p[1] \in Configured
  BY <1>0 DEF Configured
<1>2. alive' = [alive EXCEPT ![p[1]] = alive[p[1]] - 1] /\ alive \in [Configured -> Int]
  BY DEF SetsOK
<1>3. alive' \in [Configured -> Int]
  BY <1>1, <1>2
<1>4. ASSUME NEW l \in Listeners
      PROVE alive'[l] = Cardinality((here' \ dead') \intersect Kids(l))
  <2>1. alive[l] = Cardinality(Live(l)) /\ l \in Configured
    BY DEF AliveExact, Live, Configured
  <2>2. IsFiniteSet(Live(l))
    BY FS_Subset DEF Live
  <2>3. CASE l = p[1]
    <3>1. (here' \ dead') \intersect Kids(l) = Live(l) \ {p} /\ p \in Live(l)
      BY <2>3, <1>0 DEF Live
    <3>2. Cardinality((here' \ dead') \intersect Kids(l)) = Cardinality(Live(l)) - 1
      BY <3>1, <2>2, OneOut
    <3> QED BY <3>2, <2>1, <2>3, <1>2
  <2>4. CASE l # p[1]
    <3>1. (here' \ dead') \intersect Kids(l) = Live(l)
      BY <2>4, <1>0 DEF Live
    <3> QED BY <3>1, <2>1, <2>4, <1>2
  <2> QED BY <2>3, <2>4
<1> QED BY <1>3, <1>4 DEF AliveExact

\* A step that leaves every listener the same live children and the same count.
LEMMA SameLive ==
    ASSUME AliveExact, alive' = alive,
           \A l \in Listeners : (here' \ dead') \intersect Kids(l) = Live(l)
    PROVE  AliveExact'
BY DEF AliveExact, Live

----------------------------------------------------------------------------
\* Peers whose connection the application is told of.

\* It is told of one that it did not count.
LEMMA Announces ==
    ASSUME SetsOK, EventsMatch, NEW p, Connected' = Connected \union {p},
           appCount' = IF p \in Connected THEN appCount ELSE appCount + 1
    PROVE  EventsMatch' /\ appCount' \in Int
<1>1. IsFiniteSet(Connected) /\ appCount = Cardinality(Connected) /\ appCount \in Int
  BY ConnectedFinite DEF EventsMatch, SetsOK
<1>2. CASE p \in Connected
  <2>1. Connected' = Connected /\ appCount' = appCount
    BY <1>2
  <2> QED BY <2>1, <1>1 DEF EventsMatch
<1>3. CASE p \notin Connected
  <2>1. appCount' = appCount + 1
    BY <1>3
  <2>2. Cardinality(Connected') = Cardinality(Connected) + 1
    BY <1>1, <1>3, OneIn
  <2> QED BY <2>1, <2>2, <1>1 DEF EventsMatch
<1> QED BY <1>2, <1>3

\* It is told that one is gone that it did count.
LEMMA Withdraws ==
    ASSUME SetsOK, EventsMatch, NEW p, Connected' = Connected \ {p},
           appCount' = IF p \in Connected THEN appCount - 1 ELSE appCount
    PROVE  EventsMatch' /\ appCount' \in Int
<1>1. IsFiniteSet(Connected) /\ appCount = Cardinality(Connected) /\ appCount \in Int
  BY ConnectedFinite DEF EventsMatch, SetsOK
<1>2. CASE p \in Connected
  <2>1. appCount' = appCount - 1
    BY <1>2
  <2>2. Cardinality(Connected') = Cardinality(Connected) - 1
    BY <1>1, <1>2, OneOut
  <2> QED BY <2>1, <2>2, <1>1 DEF EventsMatch
<1>3. CASE p \notin Connected
  <2>1. Connected' = Connected /\ appCount' = appCount
    BY <1>3
  <2> QED BY <2>1, <1>1 DEF EventsMatch
<1> QED BY <1>2, <1>3

\* A step that tells it nothing.
LEMMA SameEvents ==
    ASSUME EventsMatch, announced' = announced, timedOut' = timedOut, appCount' = appCount
    PROVE  EventsMatch'
BY DEF EventsMatch, Connected

----------------------------------------------------------------------------
\* Initially, and step by step.

LEMMA InitCounts == Init => CountsInv
<1> SUFFICES ASSUME Init PROVE CountsInv
  OBVIOUS
<1>1. SetsOK
  BY DEF Init, SetsOK
<1>2. AliveExact
  <2> SUFFICES ASSUME NEW l \in Listeners
               PROVE alive[l] = Cardinality((here \ dead) \intersect Kids(l))
    BY DEF AliveExact
  <2>1. (here \ dead) \intersect Kids(l) = {} /\ alive[l] = 0
    BY DEF Init, Configured
  <2> QED BY <2>1, FS_EmptySet
<1>3. EventsMatch
  <2>1. Connected = {} /\ appCount = 0
    BY DEF Init, Connected
  <2> QED BY <2>1, FS_EmptySet DEF EventsMatch
<1> QED BY <1>1, <1>2, <1>3 DEF CountsInv

\* A packet from a peer that is new or dead, or neither: who lives.
LEMMA RevivesCounts ==
    ASSUME CountsInv, NEW p \in Callers \union Children, Revives(p)
    PROVE  /\ AliveExact' /\ alive' \in [Configured -> Int]
           /\ here' \subseteq Children /\ dead' \subseteq Callers \union here'
           /\ here \subseteq here' /\ p \in Callers \union here'
           /\ heard' \subseteq Callers
<1> USE KidsFacts DEF CountsInv
<1>1. dead' = dead \ {p}
  BY DEF Revives
<1>2. CASE p \in Children
  <2>1. here' = here \union {p} /\ heard' = heard
    BY <1>2 DEF Revives, Admit
  <2>2. CASE p \notin here \/ p \in dead
    <3>1. OneMore(p)
      BY <1>2, <2>2 DEF Revives
    <3>2. AliveExact' /\ alive' \in [Configured -> Int]
      BY <1>1, <1>2, <2>1, <2>2, <3>1, ComesAlive
    <3> QED BY <3>2, <1>1, <1>2, <2>1 DEF SetsOK
  <2>3. CASE ~(p \notin here \/ p \in dead)
    <3>1. alive' = alive /\ here' = here /\ dead' = dead
      BY <1>1, <2>1, <2>3 DEF Revives
    <3>2. AliveExact'
      BY <3>1, SameLive DEF Live
    <3> QED BY <3>1, <3>2, <2>1, <2>3 DEF SetsOK
  <2> QED BY <2>2, <2>3
<1>3. CASE p \notin Children
  <2>1. here' = here /\ heard' = heard \union {p} /\ p \in Callers /\ alive' = alive
    BY <1>3 DEF Revives, Admit
  <2>2. \A l \in Listeners : (here' \ dead') \intersect Kids(l) = Live(l)
    BY <1>1, <1>3, <2>1 DEF Live, SetsOK
  <2>3. AliveExact'
    BY <2>1, <2>2, SameLive
  <2> QED BY <2>1, <2>3, <1>1 DEF SetsOK
<1> QED BY <1>2, <1>3

LEMMA NextCounts == CountsInv /\ [Next]_vars => CountsInv'
<1> SUFFICES ASSUME CountsInv, [Next]_vars PROVE CountsInv'
  OBVIOUS
<1> USE DEF CountsInv
<1>1. ASSUME UNCHANGED <<peers, alive>> PROVE CountsInv'
  <2>1. /\ here' = here /\ dead' = dead /\ announced' = announced /\ timedOut' = timedOut
        /\ heard' = heard /\ appCount' = appCount /\ alive' = alive
    BY <1>1 DEF peers
  <2>2. AliveExact'
    BY <2>1, SameLive DEF Live
  <2>3. EventsMatch'
    BY <2>1, SameEvents
  <2> QED BY <2>1, <2>2, <2>3 DEF SetsOK
<1>2. ASSUME NEW c \in Configured, NEW w \in Weights, Create(c, w) PROVE CountsInv'
  <2>1. /\ here' = here /\ dead' = dead /\ announced' = announced /\ timedOut' = timedOut
        /\ heard' = heard /\ appCount' = appCount /\ alive' = alive
    BY <1>2 DEF Create
  <2>2. AliveExact'
    BY <2>1, SameLive DEF Live
  <2>3. EventsMatch'
    BY <2>1, SameEvents
  <2> QED BY <2>1, <2>2, <2>3 DEF SetsOK
<1>3. ASSUME NEW c \in Configured, NEW w \in Weights, SetWeight(c, w) PROVE CountsInv'
  BY <1>1, <1>3 DEF SetWeight
<1>4. ASSUME NEW c \in Configured, Destroy(c) PROVE CountsInv'
  <2> USE KidsFacts
  <2>1. /\ here' = here \ Kids(c) /\ dead' = dead \ With(c) /\ heard' = heard \ {c}
        /\ announced' = announced \ With(c) /\ timedOut' = timedOut \ {c}
        /\ appCount' = appCount - Cardinality(Connected \intersect With(c))
        /\ alive' = [alive EXCEPT ![c] = 0]
    BY <1>4 DEF Destroy
  <2>2. ASSUME NEW l \in Listeners
        PROVE alive'[l] = Cardinality((here' \ dead') \intersect Kids(l))
    <3>1. l \in Configured /\ alive \in [Configured -> Int]
      BY DEF Configured, SetsOK
    <3>2. CASE l = c
      <4>1. (here' \ dead') \intersect Kids(l) = {}
        BY <2>1, <3>2
      <4> QED BY <4>1, <3>1, <3>2, <2>1, FS_EmptySet
    <3>3. CASE l # c
      <4>1. (here' \ dead') \intersect Kids(l) = (here \ dead) \intersect Kids(l)
        BY <2>1, <3>3 DEF With
      <4> QED BY <4>1, <3>1, <3>3, <2>1 DEF AliveExact
    <3> QED BY <3>2, <3>3
  <2>3. Connected' = Connected \ With(c)
    <3>1. timedOut \intersect Kids(c) = {}
      <4>1. Callers \intersect Kids(c) = {}
        BY DEF Kids, Configured
      <4> QED BY <4>1 DEF SetsOK
    <3> QED BY <3>1, <2>1 DEF Connected, With
  <2>4. EventsMatch' /\ appCount' \in Int
    <3>1. IsFiniteSet(Connected) /\ appCount = Cardinality(Connected) /\ appCount \in Int
      BY ConnectedFinite DEF EventsMatch, SetsOK
    <3>2. /\ Cardinality(Connected') = Cardinality(Connected) - Cardinality(Connected \intersect With(c))
          /\ Cardinality(Connected \intersect With(c)) \in Nat
      BY <3>1, <2>3, FS_Difference, FS_CardinalityType, FS_Subset
    <3> QED BY <3>1, <3>2, <2>1 DEF EventsMatch
  <2>5. SetsOK'
    <3>1. alive' \in [Configured -> Int]
      BY <2>1 DEF SetsOK
    <3>2. /\ here' \subseteq Children /\ heard' \subseteq Callers /\ timedOut' \subseteq Callers
      BY <2>1 DEF SetsOK
    <3>3. dead' \subseteq Callers \union here' /\ announced' \subseteq Callers \union here'
      BY <2>1 DEF SetsOK, With
    <3> QED BY <3>1, <3>2, <3>3, <2>4 DEF SetsOK
  <2> QED BY <2>2, <2>4, <2>5 DEF AliveExact
<1>5. ASSUME Start PROVE CountsInv'
  BY <1>1, <1>5 DEF Start
<1>6. ASSUME NEW p \in Callers \union Children, Keepalive(p) PROVE CountsInv'
  <2> USE KidsFacts
  <2>1. dead' = dead /\ announced' = announced /\ timedOut' = timedOut /\ appCount' = appCount
    BY <1>6 DEF Keepalive
  <2>2. EventsMatch'
    BY <2>1, SameEvents
  <2>3. CASE p \in Children \ here
    <3>1. here' = here \union {p} /\ heard' = heard /\ OneMore(p)
      BY <1>6, <2>3 DEF Keepalive, Admit
    <3>2. dead' = dead \ {p}
      BY <2>1, <2>3 DEF SetsOK
    <3>3. AliveExact' /\ alive' \in [Configured -> Int]
      BY <2>3, <3>1, <3>2, ComesAlive
    <3> QED BY <2>1, <2>2, <2>3, <3>1, <3>3 DEF SetsOK
  <2>4. CASE p \notin Children \ here
    <3>0. alive' = alive
      BY <1>6, <2>4 DEF Keepalive
    <3>1. here' = here /\ heard' \subseteq Callers
      <4>1. CASE p \in Children
        <5>1. here' = here \union {p} /\ heard' = heard
          BY <1>6, <4>1 DEF Keepalive, Admit
        <5> QED BY <2>4, <4>1, <5>1 DEF SetsOK
      <4>2. CASE p \notin Children
        BY <1>6, <4>2 DEF Keepalive, Admit, SetsOK
      <4> QED BY <4>1, <4>2
    <3>2. AliveExact'
      BY <2>1, <3>0, <3>1, SameLive DEF Live
    <3> QED BY <2>1, <2>2, <3>0, <3>1, <3>2 DEF SetsOK
  <2> QED BY <2>3, <2>4
<1>7. ASSUME NEW p \in Callers \union Children, Other(p) PROVE CountsInv'
  <2>1. Revives(p) /\ announced' = announced /\ timedOut' = timedOut /\ appCount' = appCount
    BY <1>7 DEF Other
  <2>2. EventsMatch'
    BY <2>1, SameEvents
  <2> QED BY <2>1, <2>2, RevivesCounts DEF SetsOK
<1>8. ASSUME NEW p \in Callers \union Children, Sdes(p) PROVE CountsInv'
  <2>1. /\ Revives(p) /\ announced' = announced \union {p} /\ timedOut' = timedOut \ {p}
        /\ appCount' = IF p \in Connected THEN appCount ELSE appCount + 1
    BY <1>8 DEF Sdes
  <2>2. Connected' = Connected \union {p}
    BY <2>1 DEF Connected
  <2>3. EventsMatch' /\ appCount' \in Int
    BY <2>1, <2>2, Announces
  <2> QED BY <2>1, <2>3, RevivesCounts DEF SetsOK
<1>9. ASSUME NEW p \in Callers \union Children, Kill(p) PROVE CountsInv'
  <2> USE KidsFacts
  <2>1. /\ dead' = dead \union {p} /\ p \in (here \union heard) \ dead
        /\ here' = here /\ heard' = heard /\ announced' = announced
        /\ timedOut' = timedOut /\ appCount' = appCount
    BY <1>9 DEF Kill
  <2>2. EventsMatch'
    BY <2>1, SameEvents
  <2>3. CASE p \in Children
    <3>1. p \in here \ dead
      BY <2>1, <2>3 DEF SetsOK
    <3>2. alive' = [alive EXCEPT ![p[1]] = @ - 1]
      BY <1>9, <2>3 DEF Kill
    <3>3. AliveExact' /\ alive' \in [Configured -> Int]
      BY <2>1, <3>1, <3>2, Dies
    <3> QED BY <2>1, <2>2, <3>3 DEF SetsOK
  <2>4. CASE p \notin Children
    <3>1. alive' = alive /\ p \in Callers
      BY <1>9, <2>4 DEF Kill
    <3>2. \A l \in Listeners : (here' \ dead') \intersect Kids(l) = Live(l)
      BY <2>1, <2>4 DEF Live
    <3>3. AliveExact'
      BY <3>1, <3>2, SameLive
    <3> QED BY <2>1, <2>2, <3>1, <3>3 DEF SetsOK
  <2> QED BY <2>3, <2>4
<1>10. ASSUME NEW p \in Children, Remove(p) PROVE CountsInv'
  <2> USE KidsFacts
  <2>1. /\ p \in here /\ p \in dead /\ here' = here \ {p} /\ dead' = dead \ {p}
        /\ announced' = announced \ {p} /\ timedOut' = timedOut /\ heard' = heard
        /\ appCount' = IF p \in Connected THEN appCount - 1 ELSE appCount
        /\ alive' = alive
    BY <1>10 DEF Remove
  <2>2. AliveExact'
    BY <2>1, SameLive DEF Live
  <2>3. Connected' = Connected \ {p}
    BY <2>1 DEF Connected
  <2>4. EventsMatch' /\ appCount' \in Int
    BY <2>1, <2>3, Withdraws
  <2> QED BY <2>1, <2>2, <2>4 DEF SetsOK
<1>11. ASSUME NEW c \in Callers \union Children, TimesOut(c) PROVE CountsInv'
  <2>1. /\ c \in Callers /\ c \notin timedOut /\ timedOut' = timedOut \union {c}
        /\ appCount' = IF c \in announced THEN appCount - 1 ELSE appCount
        /\ here' = here /\ dead' = dead /\ heard' = heard /\ announced' = announced
        /\ alive' = alive
    BY <1>11 DEF TimesOut
  <2>2. Connected' = Connected \ {c} /\ (c \in announced <=> c \in Connected)
    BY <2>1 DEF Connected
  <2>3. EventsMatch' /\ appCount' \in Int
    BY <2>1, <2>2, Withdraws
  <2>4. AliveExact'
    BY <2>1, SameLive DEF Live
  <2> QED BY <2>1, <2>3, <2>4 DEF SetsOK
<1>12. ASSUME Send PROVE CountsInv'
  BY <1>1, <1>12 DEF Send
<1>13. ASSUME UNCHANGED vars PROVE CountsInv'
  BY <1>1, <1>13 DEF vars
<1> QED
  BY <1>2, <1>3, <1>4, <1>5, <1>6, <1>7, <1>8, <1>9, <1>10, <1>11, <1>12, <1>13
     DEF Next, Calls, Receives, Checks

LEMMA CountsCorrect == Spec => []CountsInv
BY InitCounts, NextCounts, PTL DEF Spec

\* At every moment child_alive_count of a listener is the number of its children
\* that live, for any number of receivers that come, fall silent and return.
THEOREM AliveCountCorrect == Spec => []AliveExact
<1>1. CountsInv => AliveExact
  BY DEF CountsInv
<1> QED BY <1>1, CountsCorrect, PTL

\* The application's count of connected peers is always that of the peers it was
\* last told are connected.
THEOREM EventsCorrect == Spec => []EventsMatch
<1>1. CountsInv => EventsMatch
  BY DEF CountsInv
<1> QED BY <1>1, CountsCorrect, PTL

----------------------------------------------------------------------------
\* What the invariants below are stated over: the peers and their weights have
\* their types, an order without repetitions, ...
OrderOK ==
    /\ order \in Seq(Configured) /\ destroyed \subseteq Configured
    /\ Listed \intersect destroyed = {}
    /\ \A i, j \in DOMAIN order : order[i] = order[j] => i = j
    /\ \A p \in here : p[1] \in Listed
    /\ \A c \in Callers : alive[c] = 0

\* ... and a peer that was not created weighs nothing.
SharesOK ==
    /\ weight \in [Configured -> Weights \union {0}] /\ wCount \in [Configured -> Nat]
    /\ counter \in Int /\ given \in [Configured -> Nat]
    /\ started \in BOOLEAN /\ whole \in BOOLEAN /\ last \in Configured \union {Nobody, Idle}
    /\ \A c \in Configured \ (Listed \union destroyed) : weight[c] = 0

Counted == (Callers \intersect (Listed \union destroyed))
              \union {l \in Listeners : here \intersect Kids(l) # {}}

TotalInv == total = SumOf(weight, Counted)

\* When the last packet went to nobody, every peer has all its turns.
SkipInv == last = Nobody => \A c \in Listed : wCount[c] = weight[c]

\* Every weighted peer is in the total, and nothing else.
Complete ==
    /\ total = SumOf(weight, Listed)
    /\ \A l \in Listed \intersect Listeners : weight[l] = 0 \/ here \intersect Kids(l) # {}

\* In a round, the turns given and left are those handed out, and the counter
\* counts those left.
RoundInv ==
    whole => /\ started
             /\ \A c \in Listed : given[c] + wCount[c] = weight[c]
             /\ Complete => counter = SumOf(wCount, Listed)

PeersInv == CountsInv /\ OrderOK /\ SharesOK /\ TotalInv /\ SkipInv /\ RoundInv

LEMMA ConfiguredFinite ==
    IsFiniteSet(Configured) /\ \A S \in SUBSET Configured : IsFiniteSet(S)
BY FS_Union, FS_Subset DEF Configured

LEMMA ListedFacts ==
    ASSUME OrderOK
    PROVE  Listed \subseteq Configured /\ IsFiniteSet(Listed) /\ IsFiniteSet(Counted)
           /\ Counted \subseteq Configured
<1>1. Listed \subseteq Configured
  BY DEF OrderOK, Listed
<1>2. Counted \subseteq Configured
  BY DEF Counted, Configured
<1> QED BY <1>1, <1>2, ConfiguredFinite

LEMMA WeightsNat ==
    ASSUME SharesOK
    PROVE  weight \in [Configured -> Nat] /\ wCount \in [Configured -> Nat]
BY DEF SharesOK

\* Sums over what is configured.
LEMMA SumsNat ==
    ASSUME NEW f \in [Configured -> Nat], NEW S \in SUBSET Configured
    PROVE  /\ SumOf(f, S) \in Nat
           /\ \A c \in S : f[c] <= SumOf(f, S) /\ SumOf(f, S) = SumOf(f, S \ {c}) + f[c]
           /\ \A c \in Configured \ S : SumOf(f, S \union {c}) = SumOf(f, S) + f[c]
           /\ SumOf(f, S) > 0 => \E c \in S : f[c] > 0
           /\ SumOf(f, S) = 0 => \A c \in S : f[c] = 0
<1>1. IsFiniteSet(S)
  BY ConfiguredFinite
<1>2. \A c \in S : f[c] \in Nat
  OBVIOUS
<1>3. SumOf(f, S) \in Nat
  BY <1>1, <1>2, TurnsFinite
<1>4. /\ \A c \in S : f[c] <= SumOf(f, S)
      /\ SumOf(f, S) > 0 => \E c \in S : f[c] > 0
  BY <1>1, <1>2, SumPositive
<1>5. \A c \in S : SumOf(f, S) = SumOf(f, S \ {c}) + f[c]
  BY <1>1, <1>2, SumRemove
<1>6. \A c \in Configured \ S : SumOf(f, S \union {c}) = SumOf(f, S) + f[c]
  BY <1>1, SumAdd
<1>7. SumOf(f, S) = 0 => \A c \in S : f[c] = 0
  BY <1>2, <1>4
<1> QED BY <1>3, <1>4, <1>5, <1>6, <1>7

----------------------------------------------------------------------------
\* The election and the counter.

\* The election returns a peer that may be elected and has a turn left, whenever
\* there is one.
LEMMA ElectedIs ==
    ASSUME OrderOK, SharesOK
    PROVE  \/ Elected = Nobody /\ \A c \in Electable : wCount[c] = 0
           \/ Elected \in Electable /\ Elected # Nobody /\ wCount[Elected] > 0
<1> DEFINE places == {i \in DOMAIN order : order[i] \in Electable /\ wCount[order[i]] > 0}
<1>0. /\ \A i \in DOMAIN order : order[i] \in Configured /\ wCount[order[i]] \in Nat
      /\ DOMAIN order \subseteq Nat
  BY DEF OrderOK, SharesOK
<1>1. CASE places = {}
  <2>1. Elected = Nobody
    BY <1>1 DEF Elected
  <2>2. ASSUME NEW c \in Electable PROVE wCount[c] = 0
    <3>1. PICK i \in DOMAIN order : order[i] = c
      BY DEF Electable, Listed
    <3> QED BY <3>1, <1>0, <1>1
  <2> QED BY <2>1, <2>2
<1>2. CASE places # {}
  <2> DEFINE Bounds == {m \in Nat : \A i \in places : wCount[order[i]] <= m}
  <2>1. SumOf(wCount, Configured) \in Bounds
    <3>1. \A c \in Configured : wCount[c] <= SumOf(wCount, Configured)
      BY WeightsNat, SumsNat
    <3>2. SumOf(wCount, Configured) \in Nat
      BY WeightsNat, SumsNat
    <3> QED BY <3>1, <3>2, <1>0
  <2>2. PICK most \in Bounds : \A m \in Bounds : most <= m
    <3>1. Bounds \in SUBSET Nat /\ Bounds # {}
      BY <2>1
    <3> HIDE DEF Bounds
    <3> QED BY <3>1, SmallestNumber
  <2> DEFINE Firsts == {i \in places : wCount[order[i]] = most}
  <2>3. Firsts # {}
    <3>1. SUFFICES ASSUME Firsts = {} PROVE FALSE
      OBVIOUS
    <3>2. \A i \in places : wCount[order[i]] <= most - 1 /\ wCount[order[i]] > 0
      BY <3>1, <2>2, <1>0
    <3>3. most - 1 \in Bounds
      BY <3>2, <1>2, <2>2, <1>0
    <3> QED BY <3>3, <2>2
  <2>4. PICK first \in Firsts : \A i \in Firsts : first <= i
    <3>1. Firsts \in SUBSET Nat
      BY <1>0
    <3> HIDE DEF Firsts
    <3> QED BY <3>1, <2>3, SmallestNumber
  <2>5. \A j \in places \ {first} : Ahead(first, j)
    BY <2>2, <2>4, <1>0 DEF Ahead
  <2>6. first \in places
    BY <2>4
  <2> DEFINE it == CHOOSE i \in places : \A j \in places \ {i} : Ahead(i, j)
  <2>7. it \in places
    <3> HIDE DEF places
    <3> QED BY <2>5, <2>6
  <2>8. Elected = order[it]
    BY <1>2 DEF Elected
  <2> HIDE DEF it
  <2>9. Elected \in Electable /\ wCount[Elected] > 0 /\ Elected \in Configured
    BY <2>7, <2>8, <1>0
  <2> QED BY <2>9
<1> QED BY <1>1, <1>2

\* The counter after the first n peers, from the one before.
Pass(g, n) ==
    IF n = 0 THEN counter
    ELSE IF Sendable(order[n]) THEN g[n - 1]
    ELSE IF g[n - 1] - weight[order[n]] <= 0 THEN total ELSE g[n - 1] - weight[order[n]]

\* The recursive definition of Passed has a solution, and Passed is its last value.
LEMMA PassedIs ==
    ASSUME OrderOK, SharesOK, total \in Int
    PROVE  \E g \in [0 .. Len(order) -> Int] :
              /\ \A n \in 0 .. Len(order) : g[n] = Pass(g, n)
              /\ Passed = g[Len(order)]
<1> DEFINE N == Len(order)
           Solves(g, m) == g \in [0 .. m -> Int] /\ \A n \in 0 .. m : g[n] = Pass(g, n)
           B == {m \in 0 .. N : ~ \E g : Solves(g, m)}
<1>0. N \in Nat /\ \A n \in 1 .. N : order[n] \in Configured /\ weight[order[n]] \in Nat
  BY DEF OrderOK, SharesOK
<1>1. B = {}
  <2> SUFFICES ASSUME B # {} PROVE FALSE
    OBVIOUS
  <2>1. PICK m \in B : \A k \in B : m <= k
    <3>1. B \in SUBSET Nat
      BY <1>0
    <3> HIDE DEF B
    <3> QED BY <3>1, SmallestNumber
  <2>2. CASE m = 0
    <3>1. Solves([n \in 0 .. 0 |-> counter], 0)
      BY DEF SharesOK, Pass
    <3> QED BY <3>1, <2>1, <2>2
  <2>3. CASE m # 0
    <3>0. m \in 0 .. N
      BY <2>1
    <3>1. m - 1 \in 0 .. N /\ m - 1 \notin B /\ m \in 1 .. N
      <4> HIDE DEF B
      <4> QED BY <2>1, <2>3, <3>0, <1>0
    <3>2. PICK g : Solves(g, m - 1)
      BY <3>1
    <3> DEFINE h == [n \in 0 .. m |-> IF n = m THEN Pass(g, m) ELSE g[n]]
    <3>3. Pass(g, m) \in Int
      BY <3>1, <3>2, <1>0, <2>3 DEF Pass
    <3>4. h \in [0 .. m -> Int]
      BY <3>1, <3>2, <3>3
    <3>5. ASSUME NEW n \in 0 .. m PROVE h[n] = Pass(h, n)
      <4>1. n # 0 => n - 1 \in 0 .. m /\ n - 1 # m /\ h[n - 1] = g[n - 1]
        BY <3>1
      <4>2. Pass(h, n) = Pass(g, n)
        <5> HIDE DEF h
        <5> QED BY <4>1 DEF Pass
      <4>3. n # m => n \in 0 .. m - 1
        BY <3>1
      <4> QED BY <4>2, <4>3, <3>2
    <3>6. Solves(h, m)
      BY <3>4, <3>5
    <3> QED BY <3>6, <2>1
  <2> QED BY <2>2, <2>3
<1>2. N \in 0 .. N /\ N \notin B
  BY <1>0, <1>1
<1>3. PICK g : Solves(g, N)
  BY <1>2
<1>4. g = [n \in 0 .. Len(order) |->
             IF n = 0 THEN counter
             ELSE IF Sendable(order[n]) THEN g[n - 1]
             ELSE LET left == g[n - 1] - weight[order[n]]
                  IN  IF left <= 0 THEN total ELSE left]
  BY <1>3 DEF Pass
<1>5. \E f : f = [n \in 0 .. Len(order) |->
             IF n = 0 THEN counter
             ELSE IF Sendable(order[n]) THEN f[n - 1]
             ELSE LET left == f[n - 1] - weight[order[n]]
                  IN  IF left <= 0 THEN total ELSE left]
        /\ Passed = f[Len(order)]
  BY <1>4 DEF Passed
<1>6. PICK f : /\ f = [n \in 0 .. Len(order) |-> Pass(f, n)]
               /\ Passed = f[Len(order)]
  BY <1>5 DEF Pass
<1>7. \A n \in 0 .. N : f[n] = Pass(f, n)
  BY <1>6
<1> DEFINE C == {n \in 0 .. N : f[n] \notin Int}
<1>8. C = {}
  <2> SUFFICES ASSUME C # {} PROVE FALSE
    OBVIOUS
  <2>1. PICK n \in C : \A k \in C : n <= k
    <3>1. C \in SUBSET Nat
      BY <1>0
    <3> HIDE DEF C
    <3> QED BY <3>1, SmallestNumber
  <2>2. n # 0
    BY <2>1, <1>7 DEF Pass, SharesOK
  <2>3. n - 1 \in 0 .. N /\ n - 1 \notin C /\ n \in 1 .. N
    BY <2>1, <2>2, <1>0
  <2>4. f[n - 1] \in Int /\ weight[order[n]] \in Nat
    BY <2>3, <1>0
  <2>5. Pass(f, n) \in Int
    BY <2>2, <2>4 DEF Pass
  <2> QED BY <2>1, <2>5, <1>7
<1>9. DOMAIN f = 0 .. N /\ f = [n \in 0 .. N |-> f[n]]
  BY <1>6
<1>10. f \in [0 .. N -> Int]
  BY <1>8, <1>9
<1> QED BY <1>6, <1>7, <1>10

\* Sums and counters are integers.
LEMMA PassedInt ==
    ASSUME OrderOK, SharesOK, total \in Int
    PROVE  Passed \in Int
<1>1. Len(order) \in 0 .. Len(order)
  BY DEF OrderOK
<1> QED BY <1>1, PassedIs

\* Peers that have no turns to pass leave the counter as it is.
LEMMA NothingPassed ==
    ASSUME OrderOK, SharesOK, total \in Int,
           \A c \in Listed : Sendable(c) \/ weight[c] = 0,
           counter > 0 \/ (counter = 0 /\ total = 0)
    PROVE  Passed = counter
<1>1. PICK g \in [0 .. Len(order) -> Int] :
              /\ \A n \in 0 .. Len(order) : g[n] = Pass(g, n)
              /\ Passed = g[Len(order)]
  BY PassedIs
<1> DEFINE B == {n \in 0 .. Len(order) : g[n] # counter}
<1>2. Len(order) \in Nat /\ counter \in Int
  BY DEF OrderOK, SharesOK
<1>3. B = {}
  <2> SUFFICES ASSUME B # {} PROVE FALSE
    OBVIOUS
  <2>1. PICK n \in B : \A k \in B : n <= k
    <3>1. B \in SUBSET Nat
      BY <1>2
    <3> HIDE DEF B
    <3> QED BY <3>1, SmallestNumber
  <2>2. n # 0
    BY <2>1, <1>1 DEF Pass
  <2>3. n - 1 \in 0 .. Len(order) /\ n - 1 \notin B /\ n \in 1 .. Len(order)
    BY <2>1, <2>2, <1>2
  <2>4. g[n - 1] = counter
    BY <2>3
  <2>5. Sendable(order[n]) \/ weight[order[n]] = 0
    BY <2>3 DEF Listed, OrderOK
  <2>6. Pass(g, n) = counter
    BY <2>2, <2>4, <2>5, <1>2 DEF Pass
  <2> QED BY <2>1, <2>6, <1>1
<1> QED BY <1>1, <1>2, <1>3

----------------------------------------------------------------------------
\* The steps.

LEMMA KidsOfCallers ==
    ASSUME SetsOK, OrderOK, NEW c \in Callers
    PROVE  here \intersect Kids(c) = {}
BY KidsFacts DEF SetsOK, Kids, Children

\* Nobody is created, destroyed or weighed: the list stays as it is.
LEMMA OrderKept ==
    ASSUME OrderOK, order' = order, destroyed' = destroyed,
           \A p \in here' : p[1] \in Listed, \A c \in Callers : alive'[c] = 0
    PROVE  OrderOK' /\ Listed' = Listed
<1>1. Listed' = Listed
  BY DEF Listed
<1> QED BY <1>1 DEF OrderOK

\* ... and so do the shares, when every listener that had a child still has one
\* and no other has.
LEMMA SharesKept ==
    ASSUME OrderOK, SharesOK, TotalInv, SkipInv, RoundInv, Listed' = Listed,
           destroyed' = destroyed, weight' = weight, wCount' = wCount, total' = total,
           counter' = counter, started' = started, last' = last, given' = given, whole' = whole,
           \A l \in Listeners : here' \intersect Kids(l) = {} <=> here \intersect Kids(l) = {}
    PROVE  SharesOK' /\ TotalInv' /\ SkipInv' /\ RoundInv'
<1>1. Counted' = Counted
  BY DEF Counted
<1>2. Complete' <=> Complete
  BY DEF Complete
<1>3. SharesOK'
  BY DEF SharesOK
<1>4. TotalInv'
  BY <1>1 DEF TotalInv
<1>5. SkipInv'
  BY DEF SkipInv
<1>6. RoundInv'
  BY <1>2 DEF RoundInv
<1> QED BY <1>3, <1>4, <1>5, <1>6

\* A packet from a child admits it; from a caller, it changes no child.
LEMMA AdmitShares ==
    ASSUME SetsOK, OrderOK, SharesOK, TotalInv, SkipInv, RoundInv,
           NEW p \in Callers \union Children, Reachable(p), Admit(p),
           order' = order, destroyed' = destroyed, weight' = weight, wCount' = wCount,
           counter' = counter, started' = started, \A c \in Callers : alive'[c] = 0
    PROVE  OrderOK' /\ SharesOK' /\ TotalInv' /\ SkipInv' /\ RoundInv'
<1> USE KidsFacts
<1>1. \A q \in here' : q[1] \in Listed
  BY DEF Admit, Reachable, OrderOK
<1>2. OrderOK' /\ Listed' = Listed
  BY <1>1, OrderKept
<1>3. CASE p \in Children /\ here \intersect Kids(p[1]) = {}
  <2> DEFINE l == p[1]
  <2>1. /\ l \in Listeners /\ l \in Configured /\ l \in Listed /\ p \in Kids(l)
        /\ \A k \in Listeners : k # l => p \notin Kids(k)
    BY <1>3 DEF Configured, Reachable
  <2>2. /\ here' = here \union {p} /\ total' = total + weight[l]
        /\ whole' = FALSE /\ given' = NoTurns /\ last' = last
    BY <1>3 DEF Admit, Disturbed
  <2> HIDE DEF l
  <2>3. l \notin Counted
    <3>1. l \notin Callers
      BY <2>1
    <3> QED BY <1>3, <3>1 DEF Counted, l
  <2>4. Counted' = Counted \union {l}
    <3>1. \A k \in Listeners : here' \intersect Kids(k) # {} <=> (k = l \/ here \intersect Kids(k) # {})
      BY <2>1, <2>2
    <3> QED BY <3>1, <1>2, <2>1 DEF Counted
  <2>5. SumOf(weight, Counted \union {l}) = SumOf(weight, Counted) + weight[l]
    <3>1. l \in Configured \ Counted /\ Counted \in SUBSET Configured /\ weight \in [Configured -> Nat]
      BY <2>1, <2>3, ListedFacts, WeightsNat
    <3> QED BY <3>1, SumsNat
  <2>6. TotalInv'
    BY <2>2, <2>4, <2>5 DEF TotalInv
  <2>7. SharesOK'
    BY <1>2, <2>2 DEF SharesOK, NoTurns
  <2>8. SkipInv'
    BY <1>2, <2>2 DEF SkipInv
  <2>9. RoundInv'
    BY <2>2 DEF RoundInv
  <2> QED BY <1>2, <2>6, <2>7, <2>8, <2>9
<1>4. CASE ~ (p \in Children /\ here \intersect Kids(p[1]) = {})
  <2>1. total' = total /\ last' = last /\ given' = given /\ whole' = whole
    BY <1>4 DEF Admit, history
  <2>2. \A k \in Listeners : here' \intersect Kids(k) = {} <=> here \intersect Kids(k) = {}
    BY <1>4 DEF Admit
  <2> QED BY <1>2, <2>1, <2>2, SharesKept
<1> QED BY <1>3, <1>4

LEMMA CreateShares ==
    ASSUME SetsOK, OrderOK, SharesOK, TotalInv, SkipInv, NEW c \in Configured, NEW w \in Weights,
           Create(c, w)
    PROVE  OrderOK' /\ SharesOK' /\ TotalInv' /\ SkipInv' /\ RoundInv'
<1>1. /\ c \notin Listed /\ c \notin destroyed /\ order' = Append(order, c)
      /\ weight' = [weight EXCEPT ![c] = w] /\ wCount' = [wCount EXCEPT ![c] = w]
      /\ total' = IF c \in Callers THEN total + w ELSE total
      /\ whole' = FALSE /\ given' = NoTurns /\ last' = last
      /\ destroyed' = destroyed /\ here' = here /\ alive' = alive
      /\ counter' = counter /\ started' = started
  BY DEF Create, Disturbed
<1>2. Listed' = Listed \union {c}
  BY <1>1 DEF Listed, OrderOK
<1>3. OrderOK'
  <2>1. order' \in Seq(Configured) /\ Len(order') = Len(order) + 1
    BY <1>1 DEF OrderOK
  <2>2. ASSUME NEW i \in DOMAIN order', NEW j \in DOMAIN order', order'[i] = order'[j] PROVE i = j
    <3>1. /\ Len(order) \in Nat /\ i \in 1 .. Len(order) + 1 /\ j \in 1 .. Len(order) + 1
          /\ \A k \in 1 .. Len(order) : order'[k] = order[k] /\ order[k] # c
          /\ order'[Len(order) + 1] = c
      BY <1>1, <2>1 DEF OrderOK, Listed
    <3>2. \A k, m \in 1 .. Len(order) : order[k] = order[m] => k = m
      BY DEF OrderOK
    <3> QED BY <3>1, <3>2, <2>2
  <2> QED BY <1>1, <1>2, <2>1, <2>2 DEF OrderOK
<1>4. SharesOK'
  BY <1>1, <1>2 DEF SharesOK, NoTurns
<1>5. TotalInv'
  <2>1. c \notin Counted
    BY <1>1 DEF Counted, OrderOK, Kids
  <2>2. weight \in [Configured -> Nat] /\ weight' \in [Configured -> Nat]
    BY <1>1, WeightsNat
  <2>3. SumOf(weight', Counted) = SumOf(weight, Counted)
    <3>1. \A d \in Counted : weight'[d] = weight[d]
      BY <1>1, <2>1, <2>2, ListedFacts
    <3> QED BY <3>1, SumSame
  <2>4. CASE c \in Callers
    <3>1. Counted' = Counted \union {c}
      BY <1>1, <1>2, <2>4 DEF Counted
    <3>2. SumOf(weight', Counted \union {c}) = SumOf(weight', Counted) + weight'[c]
      BY <2>1, <2>2, ListedFacts, SumsNat
    <3> QED BY <1>1, <2>2, <2>3, <2>4, <3>1, <3>2 DEF TotalInv
  <2>5. CASE c \notin Callers
    <3>1. Counted' = Counted
      BY <1>1, <1>2, <2>5 DEF Counted
    <3> QED BY <1>1, <2>3, <2>5, <3>1 DEF TotalInv
  <2> QED BY <2>4, <2>5
<1>6. SkipInv'
  BY <1>1, <1>2 DEF SkipInv, SharesOK, OrderOK, Listed
<1>7. RoundInv'
  BY <1>1 DEF RoundInv
<1> QED BY <1>3, <1>4, <1>5, <1>6, <1>7

LEMMA SetWeightShares ==
    ASSUME SetsOK, OrderOK, SharesOK, TotalInv, NEW c \in Configured, NEW w \in Weights,
           SetWeight(c, w)
    PROVE  OrderOK' /\ SharesOK' /\ TotalInv' /\ SkipInv' /\ RoundInv'
<1>1. /\ c \in Listed /\ weight' = [weight EXCEPT ![c] = w]
      /\ last' = Idle /\ whole' = FALSE /\ given' = NoTurns
      /\ order' = order /\ destroyed' = destroyed /\ here' = here /\ alive' = alive
      /\ counter' = counter /\ started' = started
  BY DEF SetWeight, peers
<1>2. OrderOK' /\ Listed' = Listed /\ Counted' = Counted
  BY <1>1, OrderKept DEF OrderOK, Counted
<1>3. SharesOK'
  <2>1. wCount' \in [Configured -> Nat]
    BY DEF SetWeight, SharesOK
  <2>2. weight' \in [Configured -> Weights \union {0}]
    BY <1>1 DEF SharesOK
  <2>3. \A d \in Configured \ (Listed' \union destroyed') : weight'[d] = 0
    BY <1>1, <1>2 DEF SharesOK
  <2> QED BY <1>1, <2>1, <2>2, <2>3 DEF SharesOK, NoTurns
<1>4. TotalInv'
  <2>1. weight \in [Configured -> Nat] /\ weight' \in [Configured -> Nat]
    BY <1>1, WeightsNat
  <2>2. Counted \subseteq Configured
    BY ListedFacts
  <2>3. CASE c \in Callers \/ here \intersect Kids(c) # {}
    <3>1. c \in Counted
      BY <1>1, <2>3, KidsFacts DEF Counted, Configured
    <3>2. /\ SumOf(weight, Counted) = SumOf(weight, Counted \ {c}) + weight[c]
          /\ SumOf(weight', Counted) = SumOf(weight', Counted \ {c}) + weight'[c]
      BY <2>1, <2>2, <3>1, SumsNat
    <3>3. SumOf(weight', Counted \ {c}) = SumOf(weight, Counted \ {c})
      <4>1. \A d \in Counted \ {c} : weight'[d] = weight[d]
        BY <1>1, <2>1, <2>2
      <4> QED BY <4>1, SumSame
    <3>4. total' = total - weight[c] + w /\ weight'[c] = w
      BY <1>1, <2>1, <2>3 DEF SetWeight
    <3>5. SumOf(weight, Counted \ {c}) \in Nat /\ weight[c] \in Nat /\ w \in Nat
      BY <2>1, <2>2, SumsNat
    <3> QED BY <1>2, <3>2, <3>3, <3>4, <3>5 DEF TotalInv
  <2>4. CASE ~ (c \in Callers \/ here \intersect Kids(c) # {})
    <3>1. c \notin Counted
      BY <2>4 DEF Counted
    <3>2. SumOf(weight', Counted) = SumOf(weight, Counted)
      <4>1. \A d \in Counted : weight'[d] = weight[d]
        BY <1>1, <2>1, <2>2, <3>1
      <4> QED BY <4>1, SumSame
    <3> QED BY <1>2, <2>4, <3>2 DEF TotalInv, SetWeight
  <2> QED BY <2>3, <2>4
<1>5. SkipInv' /\ RoundInv'
  BY <1>1 DEF SkipInv, RoundInv
<1> QED BY <1>2, <1>3, <1>4, <1>5

LEMMA DestroyShares ==
    ASSUME SetsOK, OrderOK, SharesOK, TotalInv, SkipInv, NEW c \in Configured, Destroy(c)
    PROVE  OrderOK' /\ SharesOK' /\ TotalInv' /\ SkipInv' /\ RoundInv'
<1>1. /\ destroyed' = destroyed \union {c} /\ here' = here \ Kids(c)
      /\ alive' = [alive EXCEPT ![c] = 0]
      /\ total' = IF here \intersect Kids(c) # {} THEN total - weight[c] ELSE total
      /\ weight' = weight /\ wCount' = wCount /\ counter' = counter /\ started' = started
      /\ whole' = FALSE /\ given' = NoTurns /\ last' = last
  BY DEF Destroy, Disturbed
<1>2. PICK i \in DOMAIN order :
          /\ order[i] = c
          /\ order' = SubSeq(order, 1, i - 1) \o SubSeq(order, i + 1, Len(order))
  BY DEF Destroy
<1>3. /\ order \in Seq(Configured) /\ Len(order) \in Nat /\ i \in 1 .. Len(order)
      /\ DOMAIN order = 1 .. Len(order)
      /\ \A j, k \in 1 .. Len(order) : order[j] = order[k] => j = k
  BY <1>2 DEF OrderOK
<1>4. /\ order' \in Seq(Configured) /\ DOMAIN order' = 1 .. Len(order) - 1
      /\ \A j \in 1 .. Len(order) - 1 : order'[j] = IF j < i THEN order[j] ELSE order[j + 1]
  <2> DEFINE s == SubSeq(order, 1, i - 1)
             t == SubSeq(order, i + 1, Len(order))
  <2>1. /\ s \in Seq(Configured) /\ Len(s) = i - 1
        /\ \A j \in 1 .. i - 1 : s[j] = order[j]
    BY <1>3
  <2>2. /\ t \in Seq(Configured) /\ Len(t) = Len(order) - i
        /\ \A j \in 1 .. Len(order) - i : t[j] = order[i + j]
    <3>1. t \in Seq(Configured)
      BY <1>3
    <3>2. Len(t) = Len(order) - i
      BY <1>3
    <3>3. \A j \in 1 .. Len(order) - i : t[j] = order[i + j]
      BY <1>3
    <3> QED BY <3>1, <3>2, <3>3
  <2> HIDE DEF s, t
  <2>3. order' = s \o t
    BY <1>2 DEF s, t
  <2>4. /\ order' \in Seq(Configured) /\ Len(order') = Len(order) - 1
        /\ \A j \in 1 .. Len(order) - 1 :
              order'[j] = IF j <= i - 1 THEN s[j] ELSE t[j - (i - 1)]
    <3>0. s \in Seq(Configured) /\ t \in Seq(Configured)
      BY <2>1, <2>2
    <3>1. /\ s \o t \in Seq(Configured) /\ Len(s \o t) = Len(s) + Len(t)
          /\ \A j \in 1 .. Len(s) + Len(t) :
                (s \o t)[j] = IF j <= Len(s) THEN s[j] ELSE t[j - Len(s)]
      BY <3>0, ConcatProperties
    <3>2. Len(s) + Len(t) = Len(order) - 1
      BY <1>3, <2>1, <2>2
    <3> QED BY <2>1, <2>3, <3>1, <3>2
  <2>5. ASSUME NEW j \in 1 .. Len(order) - 1
        PROVE order'[j] = IF j < i THEN order[j] ELSE order[j + 1]
    <3>1. CASE j < i
      BY <1>3, <2>1, <2>4, <3>1
    <3>2. CASE ~ (j < i)
      <4>1. j - (i - 1) \in 1 .. Len(order) - i /\ i + (j - (i - 1)) = j + 1
        BY <1>3, <3>2
      <4>2. order'[j] = t[j - (i - 1)]
        BY <1>3, <2>4, <3>2
      <4> QED BY <2>2, <3>2, <4>1, <4>2
    <3> QED BY <3>1, <3>2
  <2> QED BY <2>4, <2>5
<1>5. Listed' = Listed \ {c}
  <2>1. ASSUME NEW j \in 1 .. Len(order) - 1 PROVE order'[j] \in Listed \ {c}
    <3>1. PICK k \in 1 .. Len(order) : k # i /\ order'[j] = order[k]
      <4>1. CASE j < i
        <5>1. j \in 1 .. Len(order) /\ order'[j] = order[j]
          BY <1>3, <1>4, <4>1
        <5> QED BY <4>1, <5>1, <1>3
      <4>2. CASE ~ (j < i)
        <5>1. j + 1 \in 1 .. Len(order) /\ j + 1 # i /\ order'[j] = order[j + 1]
          BY <1>3, <1>4, <4>2
        <5> QED BY <5>1
      <4> QED BY <4>1, <4>2
    <3>2. order[k] # c
      BY <1>2, <1>3, <3>1
    <3> QED BY <1>3, <3>1, <3>2 DEF Listed
  <2>2. ASSUME NEW j \in 1 .. Len(order), order[j] # c PROVE order[j] \in Listed'
    <3>1. CASE j < i
      <4>1. j \in 1 .. Len(order) - 1 /\ order'[j] = order[j]
        BY <1>3, <1>4, <3>1
      <4> QED BY <1>4, <4>1 DEF Listed
    <3>2. CASE j > i
      <4>1. j - 1 \in 1 .. Len(order) - 1 /\ order'[j - 1] = order[j]
        BY <1>3, <1>4, <3>2
      <4> QED BY <1>4, <4>1 DEF Listed
    <3> QED BY <1>2, <1>3, <2>2, <3>1, <3>2
  <2>3. ASSUME NEW x \in Listed' PROVE x \in Listed \ {c}
    BY <1>4, <2>1 DEF Listed
  <2>4. ASSUME NEW x \in Listed \ {c} PROVE x \in Listed'
    BY <1>3, <2>2 DEF Listed
  <2> QED BY <2>3, <2>4
<1>6. c \in Listed /\ c \in Configured /\ c \notin destroyed
  BY <1>2 DEF Listed, OrderOK
<1>7. OrderOK'
  <2>1. ASSUME NEW j \in DOMAIN order', NEW k \in DOMAIN order', order'[j] = order'[k]
        PROVE  j = k
    <3>1. j \in 1 .. Len(order) - 1 /\ k \in 1 .. Len(order) - 1
      BY <1>4
    <3>2. /\ (IF j < i THEN j ELSE j + 1) \in 1 .. Len(order)
          /\ (IF k < i THEN k ELSE k + 1) \in 1 .. Len(order)
      BY <1>3, <3>1
    <3>3. /\ order'[j] = order[IF j < i THEN j ELSE j + 1]
          /\ order'[k] = order[IF k < i THEN k ELSE k + 1]
      BY <1>4, <3>1
    <3>4. (IF j < i THEN j ELSE j + 1) = (IF k < i THEN k ELSE k + 1)
      BY <1>3, <2>1, <3>2, <3>3
    <3> QED BY <1>3, <3>1, <3>4
  <2>2. \A p \in here' : p[1] \in Listed'
    BY <1>1, <1>5, KidsFacts DEF OrderOK, SetsOK
  <2>3. \A d \in Callers : alive'[d] = 0
    BY <1>1 DEF OrderOK, SetsOK, Configured
  <2> QED BY <1>1, <1>4, <1>5, <1>6, <2>1, <2>2, <2>3 DEF OrderOK
<1>8. SharesOK'
  BY <1>1, <1>5 DEF SharesOK, NoTurns
<1>9. TotalInv'
  <2>1. weight \in [Configured -> Nat] /\ Counted \subseteq Configured
    BY WeightsNat, ListedFacts
  <2>2. CASE c \in Callers
    <3>1. here \intersect Kids(c) = {} /\ here' = here
      BY <1>1, <2>2, KidsOfCallers
    <3>2. Counted' = Counted
      BY <1>1, <1>5, <1>6, <3>1 DEF Counted
    <3> QED BY <1>1, <3>1, <3>2 DEF TotalInv
  <2>3. CASE c \in Listeners
    <3>0. c \notin Callers
      BY <2>3
    <3>1. \A l \in Listeners : here' \intersect Kids(l) # {} <=> l # c /\ here \intersect Kids(l) # {}
      BY <1>1, KidsFacts
    <3>2. Counted' = Counted \ {c}
      BY <1>1, <1>5, <1>6, <3>0, <3>1 DEF Counted
    <3>3. CASE here \intersect Kids(c) # {}
      <4>1. c \in Counted
        BY <2>3, <3>3 DEF Counted
      <4>2. SumOf(weight, Counted) = SumOf(weight, Counted \ {c}) + weight[c]
        BY <2>1, <4>1, SumsNat
      <4>3. SumOf(weight, Counted \ {c}) \in Nat /\ weight[c] \in Nat
        BY <2>1, SumsNat
      <4> QED BY <1>1, <3>2, <3>3, <4>2, <4>3 DEF TotalInv
    <3>4. CASE here \intersect Kids(c) = {}
      <4>1. Counted \ {c} = Counted
        BY <3>0, <3>4 DEF Counted
      <4> QED BY <1>1, <3>2, <3>4, <4>1 DEF TotalInv
    <3> QED BY <3>3, <3>4
  <2> QED BY <2>2, <2>3 DEF Configured
<1>10. SkipInv'
  BY <1>1, <1>5 DEF SkipInv
<1>11. RoundInv'
  BY <1>1 DEF RoundInv
<1> QED BY <1>7, <1>8, <1>9, <1>10, <1>11

LEMMA RemoveShares ==
    ASSUME SetsOK, OrderOK, SharesOK, TotalInv, SkipInv, RoundInv,
           NEW p \in Children, Remove(p)
    PROVE  OrderOK' /\ SharesOK' /\ TotalInv' /\ SkipInv' /\ RoundInv'
<1> USE KidsFacts
<1> DEFINE l == p[1]
<1>1. /\ p \in here /\ here' = here \ {p}
      /\ total' = IF here \intersect Kids(l) = {p} THEN total - weight[l] ELSE total
      /\ order' = order /\ destroyed' = destroyed /\ alive' = alive /\ weight' = weight
      /\ wCount' = wCount /\ counter' = counter /\ started' = started
      /\ last' = last /\ given' = given /\ whole' = whole
  BY DEF Remove, history
<1>2. /\ l \in Listeners /\ l \in Configured /\ l \in Listed /\ p \in Kids(l)
      /\ \A k \in Listeners : k # l => p \notin Kids(k)
  BY <1>1 DEF Configured, OrderOK
<1> HIDE DEF l
<1>3. OrderOK' /\ Listed' = Listed
  BY <1>1, OrderKept DEF OrderOK
<1>4. CASE here \intersect Kids(l) # {p}
  <2>1. \A k \in Listeners : here' \intersect Kids(k) = {} <=> here \intersect Kids(k) = {}
    BY <1>1, <1>2, <1>4
  <2> QED BY <1>1, <1>3, <1>4, <2>1, SharesKept
<1>5. CASE here \intersect Kids(l) = {p}
  <2>1. \A k \in Listeners : here' \intersect Kids(k) # {} <=> k # l /\ here \intersect Kids(k) # {}
    BY <1>1, <1>2, <1>5
  <2>2. l \in Counted /\ l \notin Callers
    BY <1>2, <1>5 DEF Counted
  <2>3. Counted' = Counted \ {l}
    BY <1>1, <1>3, <2>1, <2>2 DEF Counted
  <2>4. /\ weight \in [Configured -> Nat] /\ Counted \subseteq Configured
        /\ Listed \subseteq Configured
    BY WeightsNat, ListedFacts
  <2>5. SumOf(weight, Counted) = SumOf(weight, Counted \ {l}) + weight[l]
    BY <2>2, <2>4, SumsNat
  <2>6. SumOf(weight, Counted \ {l}) \in Nat /\ weight[l] \in Nat
    BY <1>2, <2>4, SumsNat
  <2>7. TotalInv' /\ total' = total - weight[l] /\ total \in Nat
    BY <1>1, <1>5, <2>3, <2>5, <2>6 DEF TotalInv
  <2>8. SharesOK'
    BY <1>1, <1>3 DEF SharesOK
  <2>9. SkipInv'
    BY <1>1, <1>3 DEF SkipInv
  <2>10. ASSUME Complete' PROVE Complete
    <3>1. here' \intersect Kids(l) = {}
      BY <1>2, <2>1
    <3>2. weight[l] = 0
      BY <1>1, <1>2, <1>3, <2>10, <3>1 DEF Complete
    <3>3. total' = total
      BY <2>6, <2>7, <3>2
    <3>4. \A k \in Listed \intersect Listeners : weight[k] = 0 \/ here \intersect Kids(k) # {}
      BY <1>1, <1>3, <2>1, <2>10 DEF Complete
    <3> QED BY <1>1, <1>3, <2>10, <3>3, <3>4 DEF Complete
  <2>11. RoundInv'
    BY <1>1, <1>3, <2>10 DEF RoundInv
  <2> QED BY <1>3, <2>7, <2>8, <2>9, <2>11
<1> QED BY <1>4, <1>5

----------------------------------------------------------------------------
\* A peer that may be elected is in the total, which is then positive.
LEMMA ElectableCounted ==
    ASSUME CountsInv, OrderOK, SharesOK, TotalInv, NEW c \in Electable
    PROVE  /\ c \in Listed /\ c \in Configured /\ c \in Counted
           /\ weight[c] > 0 /\ total > 0
           /\ c \in Listeners => here \intersect Kids(c) # {}
<1>1. c \in Listed /\ Sendable(c) /\ weight[c] # 0
  BY DEF Electable
<1>2. c \in Configured /\ weight \in [Configured -> Nat] /\ Counted \subseteq Configured
  BY <1>1, ListedFacts, WeightsNat
<1>3. c \in Listeners => here \intersect Kids(c) # {}
  <2>1. SUFFICES ASSUME c \in Listeners, here \intersect Kids(c) = {} PROVE FALSE
    OBVIOUS
  <2>2. (here \ dead) \intersect Kids(c) = {}
    BY <2>1
  <2>3. alive[c] = 0
    BY <2>1, <2>2, FS_EmptySet DEF CountsInv, AliveExact
  <2> QED BY <1>1, <2>1, <2>3 DEF Sendable
<1>4. c \in Counted
  BY <1>1, <1>2, <1>3 DEF Counted, Configured
<1>5. weight[c] > 0
  BY <1>1, <1>2
<1>6. weight[c] <= SumOf(weight, Counted) /\ SumOf(weight, Counted) \in Nat
  BY <1>2, <1>4, SumsNat
<1> QED BY <1>1, <1>2, <1>3, <1>4, <1>5, <1>6 DEF TotalInv

LEMMA TotalNat ==
    ASSUME OrderOK, SharesOK, TotalInv
    PROVE  total \in Nat
BY ListedFacts, WeightsNat, SumsNat DEF TotalInv

\* In a round, when every listed peer is elected or weighs nothing, the counter is
\* that of the turns left.
LEMMA RegularSums ==
    ASSUME CountsInv, OrderOK, SharesOK, TotalInv, RoundInv, whole, Regular
    PROVE  /\ counter = SumOf(wCount, Listed) /\ counter \in Nat
           /\ \A c \in Listed : given[c] + wCount[c] = weight[c]
           /\ \A c \in Listed : ~ Sendable(c) => weight[c] = 0 /\ wCount[c] = 0
           /\ Elected = Nobody => counter = 0 /\ \A c \in Listed : wCount[c] = 0
           /\ total = SumOf(weight, Listed)
<1>0. /\ Listed \subseteq Configured /\ weight \in [Configured -> Nat]
      /\ wCount \in [Configured -> Nat] /\ given \in [Configured -> Nat]
  BY ListedFacts, WeightsNat DEF SharesOK
<1>1. total = SumOf(weight, Listed)
  BY <1>0, TotalInstance DEF Regular
<1>2. Complete
  <2>1. \A l \in Listed \intersect Listeners : weight[l] = 0 \/ here \intersect Kids(l) # {}
    BY ElectableCounted DEF Regular
  <2> QED BY <1>1, <2>1 DEF Complete
<1>3. counter = SumOf(wCount, Listed) /\ \A c \in Listed : given[c] + wCount[c] = weight[c]
  BY <1>2 DEF RoundInv
<1>4. counter \in Nat
  BY <1>0, <1>3, SumsNat
<1>5. \A c \in Listed : weight[c] = 0 => wCount[c] = 0
  BY <1>0, <1>3
<1>6. \A c \in Listed : ~ Sendable(c) => weight[c] = 0
  BY DEF Regular, Electable
<1>7. ASSUME Elected = Nobody PROVE \A c \in Listed : wCount[c] = 0
  <2>1. \A c \in Electable : wCount[c] = 0
    BY <1>7, ElectedIs DEF Electable
  <2> QED BY <1>5, <2>1 DEF Regular
<1>8. ASSUME \A c \in Listed : wCount[c] = 0 PROVE counter = 0
  BY <1>0, <1>3, <1>4, <1>8, SumsNat
<1> QED BY <1>1, <1>3, <1>4, <1>5, <1>6, <1>7, <1>8

\* The turns left after the election, peer by peer.
LEMMA TurnsLeftIs ==
    ASSUME OrderOK, SharesOK
    PROVE  /\ TurnsLeft \in [Configured -> Nat]
           /\ \A c \in Configured :
                 TurnsLeft[c] = IF c = Elected THEN wCount[c] - 1
                                ELSE IF c \in Listed /\ ~Sendable(c) THEN weight[c] ELSE wCount[c]
<1>1. \A c \in Configured :
         TurnsLeft[c] = IF c = Elected THEN wCount[c] - 1
                        ELSE IF c \in Listed /\ ~Sendable(c) THEN weight[c] ELSE wCount[c]
  BY DEF TurnsLeft
<1>2. ASSUME NEW c \in Configured PROVE TurnsLeft[c] \in Nat
  <2>1. weight[c] \in Nat /\ wCount[c] \in Nat
    BY WeightsNat
  <2>2. c = Elected => wCount[c] > 0
    BY ElectedIs
  <2> QED BY <1>1, <2>1, <2>2
<1>3. TurnsLeft = [c \in Configured |-> TurnsLeft[c]]
  BY DEF TurnsLeft
<1> QED BY <1>1, <1>2, <1>3

LEMMA RegularTurn ==
    ASSUME CountsInv, OrderOK, SharesOK, TotalInv, RoundInv, whole, Regular
    PROVE  /\ \A c \in Listed : Given[c] + TurnsLeft[c] = weight[c]
           /\ Elected # Nobody =>
                 /\ Passed = counter /\ counter > 0
                 /\ SumOf(TurnsLeft, Listed) = counter - 1
           /\ Elected = Nobody => SumOf(TurnsLeft, Listed) = 0
<1> USE RegularSums
<1>0. /\ Listed \subseteq Configured /\ weight \in [Configured -> Nat]
      /\ wCount \in [Configured -> Nat] /\ given \in [Configured -> Nat]
      /\ TurnsLeft \in [Configured -> Nat]
  BY ListedFacts, WeightsNat, TurnsLeftIs DEF SharesOK
<1>1. \A c \in Listed : TurnsLeft[c] = IF c = Elected THEN wCount[c] - 1 ELSE wCount[c]
  BY <1>0, TurnsLeftIs
<1>2. \A c \in Listed : Given[c] = IF c = Elected THEN given[c] + 1 ELSE given[c]
  BY <1>0 DEF Given
<1>3. \A c \in Listed : Given[c] + TurnsLeft[c] = weight[c]
  BY <1>0, <1>1, <1>2
<1>4. ASSUME Elected # Nobody
      PROVE  Passed = counter /\ counter > 0 /\ SumOf(TurnsLeft, Listed) = counter - 1
  <2>1. Elected \in Listed /\ wCount[Elected] > 0
    BY <1>4, ElectedIs DEF Electable
  <2>2. counter > 0
    BY <1>0, <2>1, SumsNat
  <2>3. Passed = counter
    BY <2>2, NothingPassed, TotalNat
  <2> DEFINE e == Elected
  <2>4. /\ SumOf(wCount, Listed) = SumOf(wCount, Listed \ {e}) + wCount[e]
        /\ SumOf(TurnsLeft, Listed) = SumOf(TurnsLeft, Listed \ {e}) + TurnsLeft[e]
        /\ SumOf(wCount, Listed \ {e}) \in Nat
    BY <1>0, <2>1, SumsNat
  <2>5. SumOf(TurnsLeft, Listed \ {e}) = SumOf(wCount, Listed \ {e})
    <3>1. \A c \in Listed \ {e} : TurnsLeft[c] = wCount[c]
      BY <1>1
    <3> HIDE DEF e
    <3> QED BY <3>1, SumSame
  <2>6. TurnsLeft[e] = wCount[e] - 1 /\ wCount[e] \in Nat
    BY <1>0, <1>1, <2>1
  <2> HIDE DEF e
  <2> QED BY <2>2, <2>3, <2>4, <2>5, <2>6
<1>5. ASSUME Elected = Nobody PROVE SumOf(TurnsLeft, Listed) = 0
  <2>1. \A c \in Listed : TurnsLeft[c] = wCount[c]
    BY <1>0, <1>1, <1>5
  <2>2. SumOf(TurnsLeft, Listed) = SumOf(wCount, Listed)
    BY <2>1, SumSame
  <2> QED BY <1>5, <2>2
<1> QED BY <1>3, <1>4, <1>5

LEMMA SendShares ==
    ASSUME CountsInv, OrderOK, SharesOK, TotalInv, SkipInv, RoundInv, Send
    PROVE  OrderOK' /\ SharesOK' /\ TotalInv' /\ SkipInv' /\ RoundInv'
<1>0. /\ Listed \subseteq Configured /\ weight \in [Configured -> Nat]
      /\ wCount \in [Configured -> Nat] /\ given \in [Configured -> Nat]
      /\ TurnsLeft \in [Configured -> Nat] /\ total \in Nat /\ Passed \in Int
  BY ListedFacts, WeightsNat, TurnsLeftIs, TotalNat, PassedInt DEF SharesOK
<1>1. /\ started /\ order' = order /\ destroyed' = destroyed /\ here' = here /\ alive' = alive
      /\ weight' = weight /\ total' = total /\ started' = started
      /\ counter' = IF HandsOut THEN total ELSE CounterLeft
      /\ wCount' = IF HandsOut THEN [c \in Configured |-> IF c \in Listed THEN weight[c] ELSE wCount[c]]
                   ELSE TurnsLeft
      /\ last' = IF Electable = {} THEN Idle ELSE Elected
      /\ whole' = (HandsOut \/ (whole /\ Regular))
      /\ given' = IF ~HandsOut /\ whole /\ Regular THEN Given ELSE NoTurns
  BY DEF Send, peers
<1>2. OrderOK' /\ Listed' = Listed /\ Counted' = Counted
  BY <1>1, OrderKept DEF OrderOK, Counted
<1>3. TotalInv'
  BY <1>1, <1>2 DEF TotalInv
<1>4. Given \in [Configured -> Nat] /\ NoTurns \in [Configured -> Nat]
  BY <1>0 DEF Given, NoTurns
<1>5. CounterLeft \in Int
  BY <1>0 DEF CounterLeft
<1>6. SharesOK'
  <2>1. wCount' \in [Configured -> Nat]
    BY <1>0, <1>1
  <2>2. counter' \in Int
    BY <1>0, <1>1, <1>5
  <2>3. given' \in [Configured -> Nat]
    BY <1>1, <1>4
  <2>4. last' \in Configured \union {Nobody, Idle}
    BY <1>0, <1>1, ElectedIs DEF Electable
  <2>5. whole' \in BOOLEAN /\ started' \in BOOLEAN
    BY <1>1
  <2> QED BY <1>1, <1>2, <2>1, <2>2, <2>3, <2>4, <2>5 DEF SharesOK
<1>7. SkipInv'
  <2> SUFFICES ASSUME last' = Nobody PROVE \A c \in Listed : wCount'[c] = weight[c]
    BY <1>1, <1>2 DEF SkipInv
  <2>1. Electable # {} /\ Elected = Nobody
    BY <1>1
  <2>2. total > 0
    BY <2>1, ElectableCounted
  <2>3. HandsOut
    BY <2>1, <2>2 DEF HandsOut
  <2> QED BY <1>0, <1>1, <2>3
<1>8. CASE HandsOut
  <2>1. /\ counter' = total /\ given' = NoTurns
        /\ wCount' = [c \in Configured |-> IF c \in Listed THEN weight[c] ELSE wCount[c]]
    BY <1>1, <1>8
  <2>2. \A c \in Listed : given'[c] + wCount'[c] = weight[c]
    BY <1>0, <2>1 DEF NoTurns
  <2>3. SumOf(wCount', Listed) = SumOf(weight, Listed)
    <3>1. \A c \in Listed : wCount'[c] = weight[c]
      BY <1>0, <2>1
    <3> QED BY <3>1, SumSame
  <2>4. Complete' => counter' = SumOf(wCount', Listed)
    BY <1>1, <1>2, <2>1, <2>3 DEF Complete
  <2>5. RoundInv'
    BY <1>1, <1>2, <2>2, <2>4 DEF RoundInv
  <2> QED BY <1>2, <1>3, <1>6, <1>7, <2>5
<1>9. CASE ~HandsOut /\ whole /\ Regular
  <2>1. counter' = CounterLeft /\ given' = Given /\ wCount' = TurnsLeft
    BY <1>1, <1>9
  <2>2. \A c \in Listed : given'[c] + wCount'[c] = weight[c]
    BY <1>9, <2>1, RegularTurn
  <2>3. counter' = SumOf(wCount', Listed)
    <3>1. CASE Elected # Nobody
      BY <1>9, <2>1, <3>1, RegularTurn DEF CounterLeft
    <3>2. CASE Elected = Nobody
      <4>1. total = 0
        BY <1>0, <1>9, <3>2 DEF HandsOut
      <4>2. counter = 0
        BY <1>9, <3>2, RegularSums
      <4>3. \A c \in Listed : Sendable(c) \/ weight[c] = 0
        BY <1>9, RegularSums
      <4>4. Passed = 0
        BY <4>1, <4>2, <4>3, NothingPassed
      <4> QED BY <1>9, <2>1, <3>2, <4>4, RegularTurn DEF CounterLeft
    <3> QED BY <3>1, <3>2
  <2>4. RoundInv'
    BY <1>1, <1>2, <2>2, <2>3 DEF RoundInv
  <2> QED BY <1>2, <1>3, <1>6, <1>7, <2>4
<1>10. CASE ~HandsOut /\ ~(whole /\ Regular)
  <2>1. RoundInv'
    BY <1>1, <1>10 DEF RoundInv
  <2> QED BY <1>2, <1>3, <1>6, <1>7, <2>1
<1> QED BY <1>8, <1>9, <1>10

----------------------------------------------------------------------------

LEMMA InitPeers == Init => PeersInv
<1> SUFFICES ASSUME Init PROVE PeersInv
  OBVIOUS
<1>1. CountsInv
  BY InitCounts
<1>2. /\ order = <<>> /\ destroyed = {} /\ here = {} /\ alive = [c \in Configured |-> 0]
      /\ weight = NoTurns /\ wCount = NoTurns /\ total = 0 /\ counter = 0 /\ started = FALSE
      /\ last = Idle /\ given = NoTurns /\ whole = FALSE
  BY DEF Init
<1>3. Listed = {} /\ Counted = {}
  BY <1>2 DEF Listed, Counted
<1>4. OrderOK
  BY <1>2, <1>3 DEF OrderOK, Configured
<1>5. SharesOK
  <2>1. weight \in [Configured -> Weights \union {0}] /\ \A c \in Configured : weight[c] = 0
    BY <1>2 DEF NoTurns
  <2>2. wCount \in [Configured -> Nat] /\ given \in [Configured -> Nat]
    BY <1>2 DEF NoTurns
  <2>3. started \in BOOLEAN /\ whole \in BOOLEAN
    BY <1>2, Zenon
  <2>4. last \in Configured \union {Nobody, Idle} /\ counter \in Int
    BY <1>2
  <2> QED BY <2>1, <2>2, <2>3, <2>4, Zenon DEF SharesOK
<1>6. TotalInv
  BY <1>2, <1>3, SumEmpty DEF TotalInv
<1>7. SkipInv /\ RoundInv
  BY <1>2, <1>3 DEF SkipInv, RoundInv
<1> QED BY <1>1, <1>4, <1>5, <1>6, <1>7 DEF PeersInv

\* What a step does to the children's counts of the callers, which have none.
LEMMA OneMoreKeeps ==
    ASSUME SetsOK, OrderOK, NEW p \in Children, OneMore(p)
    PROVE  \A c \in Callers : alive'[c] = 0
<1>1. p[1] \in Listeners
  BY KidsFacts
<1> QED BY <1>1 DEF OneMore, OrderOK, SetsOK, Configured

LEMMA ReceiveShares ==
    ASSUME PeersInv, NEW p \in Callers \union Children,
           Keepalive(p) \/ Other(p) \/ Sdes(p)
    PROVE  OrderOK' /\ SharesOK' /\ TotalInv' /\ SkipInv' /\ RoundInv'
<1>1. /\ Reachable(p) /\ Admit(p) /\ order' = order /\ destroyed' = destroyed
      /\ weight' = weight /\ wCount' = wCount /\ counter' = counter /\ started' = started
  BY DEF Keepalive, Other, Sdes, Revives
<1>2. alive' = alive \/ (p \in Children /\ OneMore(p))
  BY DEF Keepalive, Other, Sdes, Revives
<1>3. \A c \in Callers : alive'[c] = 0
  BY <1>2, OneMoreKeeps DEF PeersInv, CountsInv, OrderOK
<1> QED BY <1>1, <1>3, AdmitShares DEF PeersInv, CountsInv

LEMMA NextPeers == PeersInv /\ [Next]_vars => PeersInv'
<1> SUFFICES ASSUME PeersInv, [Next]_vars
             PROVE  OrderOK' /\ SharesOK' /\ TotalInv' /\ SkipInv' /\ RoundInv'
  BY NextCounts DEF PeersInv
<1> USE DEF PeersInv
<1>0. SetsOK
  BY DEF CountsInv
<1>1. ASSUME order' = order, destroyed' = destroyed, here' = here, weight' = weight,
             wCount' = wCount, total' = total, counter' = counter, started' = started,
             last' = last, given' = given, whole' = whole, \A c \in Callers : alive'[c] = 0
      PROVE  OrderOK' /\ SharesOK' /\ TotalInv' /\ SkipInv' /\ RoundInv'
  <2>1. OrderOK' /\ Listed' = Listed
    BY <1>1, OrderKept DEF OrderOK
  <2> QED BY <1>1, <2>1, SharesKept
<1>2. ASSUME NEW c \in Configured, NEW w \in Weights, Create(c, w)
      PROVE  OrderOK' /\ SharesOK' /\ TotalInv' /\ SkipInv' /\ RoundInv'
  BY <1>0, <1>2, CreateShares
<1>3. ASSUME NEW c \in Configured, NEW w \in Weights, SetWeight(c, w)
      PROVE  OrderOK' /\ SharesOK' /\ TotalInv' /\ SkipInv' /\ RoundInv'
  BY <1>0, <1>3, SetWeightShares
<1>4. ASSUME NEW c \in Configured, Destroy(c)
      PROVE  OrderOK' /\ SharesOK' /\ TotalInv' /\ SkipInv' /\ RoundInv'
  BY <1>0, <1>4, DestroyShares
<1>5. ASSUME Start
      PROVE  OrderOK' /\ SharesOK' /\ TotalInv' /\ SkipInv' /\ RoundInv'
  <2>1. /\ ~started /\ started' = TRUE /\ order' = order /\ destroyed' = destroyed
        /\ here' = here /\ alive' = alive /\ weight' = weight /\ wCount' = wCount
        /\ total' = total /\ last' = last /\ given' = given /\ whole' = whole
        /\ counter' = IF total > 0 THEN total ELSE counter
    BY <1>5 DEF Start, peers, shares, history
  <2>2. OrderOK' /\ Listed' = Listed /\ Counted' = Counted
    BY <2>1, OrderKept DEF OrderOK, Counted
  <2>3. SharesOK'
    BY <2>1, <2>2, TotalNat DEF SharesOK
  <2>4. TotalInv' /\ SkipInv'
    BY <2>1, <2>2 DEF TotalInv, SkipInv
  <2>5. RoundInv'
    BY <2>1 DEF RoundInv
  <2> QED BY <2>2, <2>3, <2>4, <2>5
<1>6. ASSUME NEW p \in Callers \union Children, Keepalive(p) \/ Other(p) \/ Sdes(p)
      PROVE  OrderOK' /\ SharesOK' /\ TotalInv' /\ SkipInv' /\ RoundInv'
  BY <1>6, ReceiveShares
<1>7. ASSUME NEW p \in Callers \union Children, Kill(p)
      PROVE  OrderOK' /\ SharesOK' /\ TotalInv' /\ SkipInv' /\ RoundInv'
  <2>1. \A c \in Callers : alive'[c] = 0
    <3>1. alive' = IF p \in Children THEN [alive EXCEPT ![p[1]] = @ - 1] ELSE alive
      BY <1>7 DEF Kill
    <3>2. p \in Children => p[1] \in Listeners
      BY KidsFacts
    <3> QED BY <1>0, <3>1, <3>2 DEF OrderOK, SetsOK, Configured
  <2> QED BY <1>1, <1>7, <2>1 DEF Kill, shares, history
<1>8. ASSUME NEW p \in Callers \union Children, TimesOut(p)
      PROVE  OrderOK' /\ SharesOK' /\ TotalInv' /\ SkipInv' /\ RoundInv'
  BY <1>1, <1>8 DEF TimesOut, shares, history, OrderOK
<1>9. ASSUME NEW p \in Children, Remove(p)
      PROVE  OrderOK' /\ SharesOK' /\ TotalInv' /\ SkipInv' /\ RoundInv'
  BY <1>0, <1>9, RemoveShares
<1>10. ASSUME Send
       PROVE  OrderOK' /\ SharesOK' /\ TotalInv' /\ SkipInv' /\ RoundInv'
  BY <1>10, SendShares
<1>11. ASSUME UNCHANGED vars
       PROVE  OrderOK' /\ SharesOK' /\ TotalInv' /\ SkipInv' /\ RoundInv'
  BY <1>1, <1>11 DEF vars, peers, shares, history, OrderOK
<1> QED
  BY <1>2, <1>3, <1>4, <1>5, <1>6, <1>7, <1>8, <1>9, <1>10, <1>11
     DEF Next, Calls, Receives, Checks

LEMMA PeersCorrect == Spec => []PeersInv
BY InitPeers, NextPeers, PTL DEF Spec

\* Every variable keeps its type: no count of children and no sum of weights is ever
\* negative.
THEOREM TypesCorrect == Spec => []TypeOK
<1>1. PeersInv => TypeOK
  <2> SUFFICES ASSUME PeersInv PROVE TypeOK
    OBVIOUS
  <2> USE DEF PeersInv, CountsInv
  <2>1. total \in Nat
    BY TotalNat
  <2>2. ASSUME NEW c \in Configured PROVE alive[c] \in Nat
    <3>1. CASE c \in Callers
      BY <3>1 DEF OrderOK
    <3>2. CASE c \in Listeners
      <4>1. IsFiniteSet((here \ dead) \intersect Kids(c))
        BY <3>2, KidsFacts, FS_Subset
      <4> QED BY <3>2, <4>1, FS_CardinalityType DEF AliveExact
    <3> QED BY <3>1, <3>2 DEF Configured
  <2>3. alive \in [Configured -> Nat]
    BY <2>2 DEF SetsOK
  <2>4. dead \subseteq Callers \union Children
    BY DEF SetsOK
  <2> QED BY <2>1, <2>3, <2>4 DEF TypeOK, SetsOK, OrderOK, SharesOK
<1> QED BY <1>1, PeersCorrect, PTL

\* At every moment the total is the weight of the callers that were created and of
\* the listeners that have a child, whatever was created, destroyed, weighed,
\* admitted and removed.
THEOREM TotalCorrect == Spec => []TotalExact
<1>1. PeersInv => TotalExact
  <2> SUFFICES ASSUME PeersInv PROVE TotalExact
    OBVIOUS
  <2>1. Total(Counted) = SumOf(weight, Counted)
    BY TotalInstance, WeightsNat, ListedFacts DEF PeersInv
  <2> QED BY <2>1 DEF PeersInv, TotalInv, TotalExact, Counted
<1> QED BY <1>1, PeersCorrect, PTL

\* A packet is never given to nobody twice for lack of turns.
THEOREM SkipCorrect == Spec => []NeverTwoSkipped
<1>1. PeersInv => NeverTwoSkipped
  <2> SUFFICES ASSUME PeersInv, last = Nobody, NEW c \in Electable PROVE wCount[c] > 0
    BY DEF NeverTwoSkipped
  <2>1. c \in Listed /\ weight[c] > 0
    BY ElectableCounted DEF PeersInv
  <2> QED BY <2>1 DEF PeersInv, SkipInv
<1> QED BY <1>1, PeersCorrect, PTL

\* In a round that every weighted peer took part in, each is given as many packets
\* as it weighs.
THEOREM RoundsCorrect == Spec => WeightedRound
<1>1. ASSUME PeersInv, Send, whole, Regular, HandsOut, NEW c \in Listed
      PROVE  Given[c] = weight[c]
  <2> USE DEF PeersInv
  <2>1. /\ Listed \subseteq Configured /\ given \in [Configured -> Nat]
        /\ TurnsLeft \in [Configured -> Nat] /\ weight \in [Configured -> Nat]
        /\ Given \in [Configured -> Nat]
    <3>1. given \in [Configured -> Nat]
      BY <1>1 DEF SharesOK
    <3>2. Given \in [Configured -> Nat]
      BY <3>1 DEF Given
    <3> QED BY <1>1, <3>1, <3>2, ListedFacts, TurnsLeftIs, WeightsNat
  <2>2. SumOf(TurnsLeft, Listed) = 0
    <3>1. CASE Elected = Nobody
      BY <1>1, <3>1, RegularTurn
    <3>2. CASE Elected # Nobody
      <4>1. Passed - 1 = 0
        BY <1>1, <3>2 DEF HandsOut, CounterLeft
      <4> QED BY <1>1, <3>2, <4>1, RegularTurn
    <3> QED BY <3>1, <3>2
  <2>3. TurnsLeft[c] = 0
    BY <1>1, <2>1, <2>2, SumsNat
  <2>4. Given[c] + TurnsLeft[c] = weight[c]
    BY <1>1, RegularTurn
  <2> QED BY <1>1, <2>1, <2>3, <2>4
<1>2. PeersInv /\ [Next]_vars
        => [Send /\ whole /\ Regular /\ HandsOut => \A c \in Listed : Given[c] = weight[c]]_vars
  BY <1>1
<1> QED BY <1>2, PeersCorrect, PTL DEF Spec, WeightedRound

=============================================================================
