----------------------------- MODULE FsrProofs -----------------------------
(***************************************************************************)
(* Theorems about the full stream request.                                 *)
(***************************************************************************)
EXTENDS Fsr, TLAPS

USE DEF second

\* A held counter stays in its range.
LEMMA CappedType ==
    ASSUME NEW top \in Nat, NEW n \in 0 .. top
    PROVE  Capped(n, top) \in 0 .. top
BY DEF Capped

\* The constants the types are built from are naturals.
LEMMA NaturalConstants ==
    /\ OldestSat \in Nat /\ RemoveAfter + 1 \in Nat /\ KeepaliveEvery \in Nat
    /\ RepeatFor \in Nat /\ RepeatEvery \in Nat /\ Never \in Nat /\ MaxIds \in Nat
BY FsrAssumption DEF OldestSat, SilentAfter, Never

\* The initial state has its type.
LEMMA InitType == Init => TypeOK
<1> SUFFICES ASSUME Init PROVE TypeOK
    OBVIOUS
<1>1. sat \in Sats
    BY NaturalConstants DEF Init, Sats
<1>2. child \in [Agents -> Children]
    BY NaturalConstants DEF Init, Children, NoPeer
<1>3. /\ KeepaliveEvery \in 0 .. KeepaliveEvery /\ Never \in 0 .. Never /\ 0 \in 0 .. MaxIds
    BY NaturalConstants
<1>4. /\ live \subseteq Agents /\ flowed \subseteq Agents /\ own \subseteq Agents
      /\ wire \subseteq Agents \X Kinds /\ fsr \subseteq 1 .. MaxIds
    BY DEF Init
<1> QED
    BY <1>1, <1>2, <1>3, <1>4 DEF Init, TypeOK

\* One check leaves everything in its type.
LEMMA CheckType == TypeOK /\ Check => TypeOK'
<1> SUFFICES ASSUME TypeOK, Check PROVE TypeOK'
    OBVIOUS
<1>1. PICK a \in Candidates : \/ Enable(a) \/ KeepEnabled(a) \/ Disable(a)
                              \/ Repeat(a) \/ StopRepeating(a) \/ Nothing(a)
    BY DEF Check
<1>2. a \in Agents
    BY DEF Candidates, TypeOK
<1>3. <<a, "enable">> \in Agents \X Kinds /\ <<a, "disable">> \in Agents \X Kinds
    BY <1>2 DEF Kinds
<1>4. /\ wire' \in {wire, wire \cup {<<a, "enable">>}, wire \cup {<<a, "disable">>}}
      /\ own' \in {own, own \cup {a}, own \ {a}}
    BY <1>1
       DEF Enable, KeepEnabled, Disable, Repeat, StopRepeating, Nothing,
           SendEnable, SendDisable
<1>5. wire' \subseteq Agents \X Kinds /\ own' \subseteq Agents
    BY <1>2, <1>3, <1>4 DEF TypeOK
<1>6. active' \in {active, TRUE, FALSE}
    BY <1>1 DEF Enable, KeepEnabled, Disable, Repeat, StopRepeating, Nothing
<1>7. sinceEnable' \in {sinceEnable, 0} /\ sinceDisable' \in {sinceDisable, 0, Never}
    BY <1>1
       DEF Enable, KeepEnabled, Disable, Repeat, StopRepeating, Nothing,
           SendEnable, SendDisable, timers
<1>8. sinceEnable' \in 0 .. KeepaliveEvery /\ sinceDisable' \in 0 .. Never
    BY <1>7, NaturalConstants DEF TypeOK
<1> QED
    BY <1>5, <1>6, <1>8 DEF TypeOK, Check, sender

\* What happens to the satellite peer leaves everything in its type.
LEMMA SatType ==
    TypeOK /\ (SatPacket \/ SatKeepalive \/ SatRtt \/ KillSat \/ RemoveSat) => TypeOK'
<1> SUFFICES ASSUME TypeOK, SatPacket \/ SatKeepalive \/ SatRtt \/ KillSat \/ RemoveSat
             PROVE  TypeOK'
    OBVIOUS
<1>1. 0 \in 0 .. OldestSat /\ 0 \in 0 .. RemoveAfter + 1
    BY NaturalConstants
<1>2. sat' \in Sats
  <2>1. CASE SatPacket
    BY <1>1, <2>1 DEF TypeOK, Sats, SatPacket
  <2>2. CASE SatKeepalive
    BY <1>1, <2>2 DEF TypeOK, Sats, SatKeepalive
  <2>3. CASE SatRtt
    BY <1>1, <2>3 DEF TypeOK, Sats, SatRtt
  <2>4. CASE KillSat
    BY <1>1, <2>4 DEF TypeOK, Sats, KillSat
  <2>5. CASE RemoveSat
    BY <1>1, <2>5 DEF TypeOK, Sats, RemoveSat
  <2> QED
    BY <2>1, <2>2, <2>3, <2>4, <2>5
<1> QED
    BY <1>2 DEF TypeOK, SatPacket, SatKeepalive, SatRtt, KillSat, RemoveSat, timers, sender

\* A second that passes leaves everything in its type.
LEMMA TickType == TypeOK /\ Tick => TypeOK'
<1> SUFFICES ASSUME TypeOK, Tick PROVE TypeOK'
    OBVIOUS
<1>1. /\ sat.age \in 0 .. OldestSat /\ sat.deadFor \in 0 .. RemoveAfter + 1
    BY DEF TypeOK, Sats
<1>2. /\ Capped(sat.age, OldestSat) \in 0 .. OldestSat
      /\ Capped(sat.deadFor, RemoveAfter + 1) \in 0 .. RemoveAfter + 1
    BY <1>1, NaturalConstants, CappedType
<1> DEFINE age == IF sat.listed THEN Capped(sat.age, OldestSat) ELSE 0
          deadFor == IF sat.dead THEN Capped(sat.deadFor, RemoveAfter + 1) ELSE 0
<1>3. age \in 0 .. OldestSat /\ deadFor \in 0 .. RemoveAfter + 1
    BY <1>2, NaturalConstants
<1>4. sat' = [sat EXCEPT !.age = age, !.deadFor = deadFor]
    BY DEF Tick
<1> HIDE DEF age, deadFor
<1>5. sat' \in Sats
    BY <1>3, <1>4 DEF TypeOK, Sats
<1>6. sinceEnable' \in 0 .. KeepaliveEvery
    BY NaturalConstants, CappedType DEF TypeOK, Tick
<1>7. sinceDisable' \in 0 .. Never
    BY NaturalConstants DEF TypeOK, Tick, Capped, Never
<1> QED
    BY <1>5, <1>6, <1>7 DEF TypeOK, Tick, sender

\* The peer a packet meets or creates has its type, and an id of its own.
LEMMA ArrivesType ==
    ASSUME NEW a \in Agents, TypeOK, Arrives(a)
    PROVE  /\ child' \in [Agents -> Children] /\ nextId' \in 0 .. MaxIds
           /\ child'[a].id \in 1 .. MaxIds
           /\ child[a].id # NoPeer => child'[a].id = child[a].id
           /\ \A b \in Agents \ {a} : child'[b] = child[b]
<1> DEFINE n == IF child[a].id = NoPeer THEN nextId + 1 ELSE child[a].id
<1>1. child[a].id \in 0 .. MaxIds /\ nextId \in 0 .. MaxIds
    BY DEF TypeOK, Children
<1>2. n \in 1 .. MaxIds /\ nextId' \in 0 .. MaxIds
    BY <1>1, NaturalConstants DEF Arrives, CanArrive, NoPeer
<1>3. child' = [child EXCEPT ![a] = [id |-> n, dead |-> FALSE]]
    BY DEF Arrives
<1>4. [id |-> n, dead |-> FALSE] \in Children
    BY <1>2, NaturalConstants DEF Children
<1> HIDE DEF n
<1>5. child' \in [Agents -> Children] /\ child'[a].id = n
    BY <1>3, <1>4 DEF TypeOK
<1>6. \A b \in Agents \ {a} : child'[b] = child[b]
    BY <1>3 DEF TypeOK
<1> QED
    BY <1>2, <1>5, <1>6 DEF n

\* What an agent's peers do at either end leaves everything in its type.
LEMMA AgentType == ASSUME NEW a \in Agents, TypeOK, AgentStep(a) PROVE TypeOK'
<1>1. CASE AgentHeard(a) \/ AgentSilent(a)
    BY <1>1 DEF TypeOK, AgentHeard, AgentSilent, timers, sender
<1>2. CASE AgentPacket(a)
    BY <1>2, ArrivesType DEF TypeOK, AgentPacket, receiver, timers
<1>3. CASE DeliverEnable(a)
    BY <1>3, ArrivesType DEF TypeOK, DeliverEnable, receiver, timers
<1>4. CASE DeliverDisable(a)
    BY <1>4, ArrivesType DEF TypeOK, DeliverDisable, receiver, timers
<1>5. CASE ChildDies(a)
  <2>1. child' \in [Agents -> Children]
    BY <1>5 DEF TypeOK, ChildDies, Children
  <2> QED
    BY <1>5, <2>1 DEF TypeOK, ChildDies, receiver, timers
<1>6. CASE RemoveChild(a)
  <2>1. [id |-> NoPeer, dead |-> FALSE] \in Children
    BY NaturalConstants DEF Children, NoPeer
  <2>2. child' \in [Agents -> Children]
    BY <1>6, <2>1 DEF TypeOK, RemoveChild
  <2> QED
    BY <1>6, <2>2 DEF TypeOK, RemoveChild, receiver, timers
<1> QED
    BY <1>1, <1>2, <1>3, <1>4, <1>5, <1>6 DEF AgentStep

\* A lost request and a restarted sender leave everything in its type.
LEMMA NetworkType == TypeOK /\ (Lose \/ SenderRestarts) => TypeOK'
<1> SUFFICES ASSUME TypeOK, Lose \/ SenderRestarts PROVE TypeOK'
    OBVIOUS
<1>1. [id |-> NoPeer, dead |-> FALSE] \in Children
    BY NaturalConstants DEF Children, NoPeer
<1>2. CASE Lose
    BY <1>2 DEF TypeOK, Lose, receiver, sender, timers
<1>3. CASE SenderRestarts
    BY <1>1, <1>3, NaturalConstants DEF TypeOK, SenderRestarts, receiver, timers
<1> QED
    BY <1>2, <1>3

\* Every step leaves everything in its type.
LEMMA StepType == TypeOK /\ [Next]_vars => TypeOK'
<1> SUFFICES ASSUME TypeOK, [Next]_vars PROVE TypeOK'
    OBVIOUS
<1>1. CASE UNCHANGED vars
    BY <1>1 DEF TypeOK, vars, receiver, sender, timers
<1> QED
    BY <1>1, CheckType, SatType, TickType, AgentType, NetworkType DEF Next

\* Every variable holds a value of its type, for all agents and all periods.
THEOREM TypeCorrect == Spec => []TypeOK
<1>1. Init => TypeOK
    BY InitType
<1>2. TypeOK /\ [Next]_vars => TypeOK'
    BY StepType
<1> QED
    BY <1>1, <1>2, PTL DEF Spec

----------------------------------------------------------------------------
\* A packet that creates or revives a peer keeps the listed peers.
LEMMA ArrivesListed ==
    ASSUME NEW a \in Agents, TypeOK, ListedExist, Arrives(a)
    PROVE  fsr \cup {child'[a].id} \subseteq {child'[b].id : b \in Agents}
<1>1. ASSUME NEW i \in fsr PROVE \E b \in Agents : child'[b].id = i
  <2>1. PICK b \in Agents : child[b].id = i
    BY <1>1 DEF ListedExist
  <2>2. i # NoPeer
    BY <1>1, NaturalConstants DEF TypeOK, NoPeer
  <2> QED
    BY <2>1, <2>2, ArrivesType
<1> QED
    BY <1>1

\* A step of an agent's peer at the sender keeps the listed peers existing.
LEMMA AgentListed ==
    ASSUME NEW a \in Agents, TypeOK, ListedExist, AgentStep(a) PROVE ListedExist'
<1>1. CASE AgentHeard(a) \/ AgentSilent(a)
    BY <1>1 DEF ListedExist, AgentHeard, AgentSilent, sender
<1>2. CASE AgentPacket(a)
    BY <1>2, ArrivesListed DEF ListedExist, AgentPacket
<1>3. CASE DeliverEnable(a)
    BY <1>3, ArrivesListed DEF ListedExist, DeliverEnable
<1>4. CASE DeliverDisable(a)
    BY <1>4, ArrivesListed DEF ListedExist, DeliverDisable
<1>5. CASE ChildDies(a)
  <2>1. \A b \in Agents : child'[b].id = child[b].id
    BY <1>5 DEF ChildDies, TypeOK, Children
  <2> QED
    BY <1>5, <2>1 DEF ListedExist, ChildDies
<1>6. CASE RemoveChild(a)
  <2>1. \A b \in Agents \ {a} : child'[b] = child[b]
    BY <1>6 DEF RemoveChild, TypeOK
  <2>2. fsr' = fsr \ {child[a].id}
    BY <1>6 DEF RemoveChild
  <2>3. ASSUME NEW i \in fsr' PROVE \E b \in Agents : child'[b].id = i
    <3>1. PICK b \in Agents : child[b].id = i
      BY <2>2, <2>3 DEF ListedExist
    <3>2. b # a
      BY <2>2, <2>3, <3>1
    <3> QED
      BY <2>1, <3>1, <3>2
  <2> QED
    BY <2>3 DEF ListedExist
<1> QED
    BY <1>1, <1>2, <1>3, <1>4, <1>5, <1>6 DEF AgentStep

\* No entry of the FSR list outlives the peer that asked for the stream.
THEOREM NoStaleEntry == Spec => []ListedExist
<1>1. Init => ListedExist
    BY DEF Init, ListedExist
<1>2. TypeOK /\ ListedExist /\ [Next]_vars => ListedExist'
  <2> SUFFICES ASSUME TypeOK, ListedExist, [Next]_vars PROVE ListedExist'
    OBVIOUS
  <2>1. CASE UNCHANGED sender
    BY <2>1 DEF ListedExist, sender
  <2>2. CASE \E a \in Agents : AgentStep(a)
    BY <2>2, AgentListed
  <2>3. CASE SenderRestarts
    BY <2>3 DEF ListedExist, SenderRestarts
  <2> QED
    BY <2>1, <2>2, <2>3
       DEF Next, Check, Tick, SatPacket, SatKeepalive, SatRtt, KillSat, RemoveSat, Lose,
           vars, sender
<1> QED
    BY <1>1, <1>2, TypeCorrect, PTL DEF Spec

----------------------------------------------------------------------------
\* A receiver that checks every second repeats its Disable before the repeats
\* can end: the Disable is never older than one period, ...
Repeating ==
    /\ ~active => sinceDisable = Never \/ sinceDisable <= RepeatEvery
    /\ ~active /\ checked => sinceDisable = Never \/ sinceDisable < RepeatEvery

\* ... and it is active before a dead satellite peer, the only one to report the
\* repeats, leaves the peer list.
ActiveWhenGone ==
    /\ sat.dead => sat.listed
    /\ ~sat.listed => active \/ sinceDisable = Never
    /\ sat.dead /\ sat.deadFor >= 1 /\ checked => active
    /\ sat.dead /\ sat.deadFor >= 2 => active

ReleasingInv == stalled \/ (Repeating /\ ActiveWhenGone /\ StillReleasing)

\* What the assumption and the types say of the timers.
LEMMA Timers ==
    TypeOK => /\ sinceDisable \in 0 .. Never /\ RepeatEvery \in Nat /\ RepeatEvery > 0
              /\ RepeatFor \in Nat /\ RepeatEvery < RepeatFor /\ Never = RepeatFor + 1
              /\ RemoveAfter \in Nat /\ sat.deadFor \in 0 .. RemoveAfter + 1
BY FsrAssumption DEF TypeOK, Never, Sats

\* The check keeps the repeats going and starts them with the first Disable.
LEMMA CheckReleasing == TypeOK /\ ReleasingInv /\ Check => ReleasingInv'
<1> SUFFICES ASSUME TypeOK, ~stalled, Repeating, ActiveWhenGone, StillReleasing, Check
             PROVE  (Repeating /\ ActiveWhenGone /\ StillReleasing)'
    BY DEF ReleasingInv, Check
<1>1. PICK a \in Candidates : \/ Enable(a) \/ KeepEnabled(a) \/ Disable(a)
                              \/ Repeat(a) \/ StopRepeating(a) \/ Nothing(a)
    BY DEF Check
<1>2. sat' = sat /\ fsr' = fsr /\ checked' = TRUE
    BY DEF Check, sender
<1>3. sat.dead => Down /\ (~active => CanEnable(a))
    BY DEF ActiveWhenGone, Down, CanEnable, ShouldEnable
<1>4. CASE Enable(a)
    BY <1>2, <1>4, Timers
       DEF Enable, SendEnable, Repeating, ActiveWhenGone, StillReleasing
<1>5. CASE KeepEnabled(a)
    BY <1>2, <1>5, Timers
       DEF KeepEnabled, SendEnable, KeepaliveDue, Repeating, ActiveWhenGone, StillReleasing
<1>6. CASE Disable(a)
    BY <1>2, <1>3, <1>6, Timers
       DEF Disable, SendDisable, ShouldDisable, ShouldEnable, Healthy, Repeating,
           ActiveWhenGone, StillReleasing
<1>7. CASE Repeat(a)
    BY <1>2, <1>3, <1>7, Timers
       DEF Repeat, SendDisable, RepeatDue, Repeating, ActiveWhenGone, StillReleasing
<1>8. CASE StopRepeating(a)
    BY <1>2, <1>8, Timers DEF StopRepeating, StopDue, Repeating
<1>9. CASE Nothing(a)
  <2>1. active' = active /\ sinceDisable' = sinceDisable /\ wire' = wire
    BY <1>9 DEF Nothing, timers
  <2>2. ~active => ~CanEnable(a)
    BY <1>9 DEF Nothing
  <2>3. ~active => ~sat.dead
    BY <1>3, <2>2
  <2>4. ~active /\ sat.listed => sinceDisable = Never \/ sinceDisable < RepeatEvery
    BY <1>9, Timers DEF Nothing, RepeatDue, StopDue, Repeating
  <2>5. ~active => sinceDisable = Never \/ sinceDisable < RepeatEvery
    BY <2>4 DEF ActiveWhenGone
  <2> QED
    BY <1>2, <2>1, <2>3, <2>5, Timers DEF Repeating, ActiveWhenGone, StillReleasing
<1> QED
    BY <1>1, <1>4, <1>5, <1>6, <1>7, <1>8, <1>9

\* A second that passes after its check makes the last Disable at most one
\* period old.
LEMMA TickReleasing == TypeOK /\ ReleasingInv /\ Tick => ReleasingInv'
<1> SUFFICES ASSUME TypeOK, ~stalled, checked, Repeating, ActiveWhenGone, StillReleasing,
                    Tick
             PROVE  (Repeating /\ ActiveWhenGone /\ StillReleasing)'
    BY DEF ReleasingInv, Tick
<1>1. ~checked' /\ active' = active /\ wire' = wire /\ fsr' = fsr
    BY DEF Tick, sender
<1>2. sat'.listed = sat.listed /\ sat'.dead = sat.dead
    BY DEF Tick, TypeOK, Sats
<1>3. sat'.deadFor = IF sat.dead THEN Capped(sat.deadFor, RemoveAfter + 1) ELSE 0
    BY DEF Tick, TypeOK, Sats
<1>4. sat.dead /\ sat'.deadFor >= 2 => sat.deadFor >= 1
    BY <1>3, Timers DEF Capped
<1>5. sinceDisable' = IF sinceDisable = Never THEN Never
                      ELSE IF sinceDisable < RepeatFor THEN sinceDisable + 1 ELSE RepeatFor
    BY DEF Tick, Capped
<1>6. Repeating'
    BY <1>1, <1>5, Timers DEF Repeating
<1>7. ActiveWhenGone'
    BY <1>1, <1>2, <1>4, <1>5 DEF ActiveWhenGone
<1>8. StillReleasing'
    BY <1>1, <1>5, Timers DEF StillReleasing
<1> QED
    BY <1>6, <1>7, <1>8

\* The satellite's peer comes, dies and goes: it is gone only when the receiver
\* is active.
LEMMA SatReleasing ==
    ASSUME RemoveAfter > 0, TypeOK, ActiveWhenGone,
           SatPacket \/ SatKeepalive \/ SatRtt \/ KillSat \/ RemoveSat
    PROVE  ActiveWhenGone'
<1>1. UNCHANGED <<active, sinceDisable, checked>>
    BY DEF SatPacket, SatKeepalive, SatRtt, KillSat, RemoveSat, timers, second
<1>2. CASE SatPacket
    BY <1>1, <1>2 DEF SatPacket, ActiveWhenGone, TypeOK, Sats
<1>3. CASE SatKeepalive
    BY <1>1, <1>3 DEF SatKeepalive, ActiveWhenGone, TypeOK, Sats
<1>4. CASE SatRtt
  <2>1. sat'.listed = sat.listed /\ sat'.dead = sat.dead /\ sat'.deadFor = sat.deadFor
    BY <1>4 DEF SatRtt, TypeOK, Sats
  <2> QED
    BY <1>1, <2>1 DEF ActiveWhenGone
<1>5. CASE KillSat
  <2>1. sat'.listed = sat.listed /\ sat.listed /\ sat'.deadFor = 0
    BY <1>5 DEF KillSat, KillDue, TypeOK, Sats
  <2> QED
    BY <1>1, <2>1 DEF ActiveWhenGone
<1>6. CASE RemoveSat
  <2>1. active
    BY <1>6, Timers DEF RemoveSat, RemoveDue, ActiveWhenGone
  <2>2. ~sat'.dead
    BY <1>6 DEF RemoveSat, TypeOK, Sats
  <2> QED
    BY <1>1, <2>1, <2>2 DEF ActiveWhenGone
<1> QED
    BY <1>2, <1>3, <1>4, <1>5, <1>6

\* The other steps neither end the repeats nor list anybody who did not ask.
LEMMA OtherReleasing ==
    ASSUME RemoveAfter > 0, TypeOK, ReleasingInv, [Next]_vars, ~Check, ~Tick
    PROVE  ReleasingInv'
<1>1. UNCHANGED <<active, sinceDisable, checked, stalled>>
    BY DEF Next, AgentStep, AgentHeard, AgentSilent, AgentPacket, DeliverEnable,
           DeliverDisable, ChildDies, RemoveChild, SatPacket, SatKeepalive, SatRtt,
           KillSat, RemoveSat, Lose, SenderRestarts, vars, receiver, timers, second
<1> SUFFICES ASSUME ~stalled, Repeating, ActiveWhenGone, StillReleasing
             PROVE  (Repeating /\ ActiveWhenGone /\ StillReleasing)'
    BY <1>1 DEF ReleasingInv
<1> DEFINE Asked == fsr # {} \/ \E a \in Agents : <<a, "enable">> \in wire
<1>2. ActiveWhenGone'
  <2>1. CASE UNCHANGED sat
    BY <1>1, <2>1 DEF ActiveWhenGone
  <2> QED
    BY <1>1, <2>1, SatReleasing
       DEF Next, AgentStep, AgentHeard, AgentSilent, AgentPacket, DeliverEnable,
           DeliverDisable, ChildDies, RemoveChild, Lose, SenderRestarts, vars, receiver
<1>3. Asked' => Asked
    BY DEF Next, AgentStep, AgentHeard, AgentSilent, AgentPacket, DeliverEnable,
           DeliverDisable, ChildDies, RemoveChild, SatPacket, SatKeepalive, SatRtt,
           KillSat, RemoveSat, Lose, SenderRestarts, vars, sender
<1> QED
    BY <1>1, <1>2, <1>3 DEF Repeating, StillReleasing

\* As long as the check never missed its second, nobody is left listed, or about
\* to be, by a receiver that no longer asks; a dead peer must stay in the list
\* for longer than a second.
THEOREM NobodyForgotten == RemoveAfter > 0 => (Spec => []StillReleasing)
<1> SUFFICES ASSUME RemoveAfter > 0 PROVE Spec => []StillReleasing
    OBVIOUS
<1>1. Init => ReleasingInv
    BY DEF Init, ReleasingInv, Repeating, ActiveWhenGone, StillReleasing
<1>2. TypeOK /\ ReleasingInv /\ [Next]_vars => ReleasingInv'
    BY CheckReleasing, TickReleasing, OtherReleasing
<1>3. ReleasingInv => StillReleasing
    BY DEF ReleasingInv, StillReleasing
<1> QED
    BY <1>1, <1>2, <1>3, TypeCorrect, PTL DEF Spec

----------------------------------------------------------------------------
\* No check that finds the satellite down sends a Disable: a first one needs a
\* healthy satellite, a repeated one a receiver that this check does not turn on.
THEOREM NoContradiction == Spec => NoDisableWhileDown
<1>1. ASSUME [Next]_vars, Down PROVE DisablesSent' \subseteq DisablesSent
  <2>1. CASE Check
    <3>1. PICK a \in Candidates : \/ Enable(a) \/ KeepEnabled(a) \/ Disable(a)
                                  \/ Repeat(a) \/ StopRepeating(a) \/ Nothing(a)
      BY <2>1 DEF Check
    <3>2. ~Disable(a)
      BY <1>1 DEF Disable, ShouldDisable, ShouldEnable
    <3>3. ~Repeat(a)
      BY <1>1 DEF Repeat, RepeatDue, CanEnable, ShouldEnable
    <3>4. wire' = wire \/ wire' = wire \cup {<<a, "enable">>}
      BY <3>1, <3>2, <3>3 DEF Enable, KeepEnabled, SendEnable, StopRepeating, Nothing
    <3> QED
      BY <3>4 DEF DisablesSent
  <2>2. CASE ~Check
    <3>1. wire' \subseteq wire
      BY <1>1, <2>2
         DEF Next, AgentStep, AgentHeard, AgentSilent, AgentPacket, DeliverEnable,
             DeliverDisable, ChildDies, RemoveChild, Tick, SatPacket, SatKeepalive,
             SatRtt, KillSat, RemoveSat, Lose, SenderRestarts, vars
    <3> QED
      BY <3>1 DEF DisablesSent
  <2> QED
    BY <2>1, <2>2
<1>2. [Next]_vars => [DisablesSent' \subseteq DisablesSent \/ ~Down]_vars
  BY <1>1
<1> QED
  BY <1>2, PTL DEF Spec, NoDisableWhileDown
============================================================================
