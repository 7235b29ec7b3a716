-------------------------------- MODULE Fsr --------------------------------
(***************************************************************************)
(* The full stream request of the recovery architecture: once per second   *)
(* the receiver's protocol thread judges the satellite peer and asks the   *)
(* sender, through a weight-1000 recovery agent, to start or to stop the   *)
(* on-demand stream.  The request is one RTCP packet over UDP: it may be   *)
(* lost, delayed or overtaken, and nothing acknowledges it.                *)
(*                                                                         *)
(* Times are whole seconds (ticks), each counted since the event it is     *)
(* about and held at the largest value a test can tell apart.              *)
(***************************************************************************)
EXTENDS Naturals, FiniteSets

CONSTANTS
    Agents,         \* the receiver's RTCP peers of weight 1000
    SatIsChild,     \* the satellite peer is a child of a listening peer
    SessionTimeout, \* silence after which a peer is killed
    RemoveAfter,    \* time a dead child stays in the peer list
    KeepaliveEvery, \* period of the repeated Enable
    RepeatEvery,    \* period of the repeated Disable
    RepeatFor,      \* age of the last Disable that ends the repeats
    MaxIds          \* bound: peers the sender creates

ASSUME FsrAssumption ==
    /\ SatIsChild \in BOOLEAN
    /\ SessionTimeout \in Nat /\ RemoveAfter \in Nat /\ KeepaliveEvery \in Nat
    /\ RepeatEvery \in Nat \ {0} /\ RepeatFor \in Nat /\ RepeatEvery < RepeatFor
    /\ MaxIds \in Nat

SilentAfter == 2
FreshWithin == 1
Never == RepeatFor + 1
NoPeer == 0
Kinds == {"enable", "disable"}

VARIABLES
    \* receiver
    sat,          \* the satellite peer: listed, dead, silence, time dead, RTT
    live,         \* agents whose peer is not dead
    flowed,       \* agents whose peer has been given a flow
    active,       \* fsr_active
    sinceEnable,  \* age of last_fsr_enable_time
    sinceDisable, \* age of last_fsr_disable_time, Never when that is 0
    own,          \* agents in the receiver process's own FSR list
    checked,      \* the check of this second has run
    stalled,      \* history: the thread was late and a second passed without its check
    wire,         \* requests on their way, <<agent, kind>>
    \* sender
    child,        \* the peer each agent has at the sender: id and dead flag
    nextId,       \* peer_counter
    fsr           \* fsr_peers

timers == <<sinceEnable, sinceDisable>>
second == <<checked, stalled>>
receiver == <<sat, live, flowed, active, timers, own, second>>
sender == <<child, nextId, fsr>>
vars == <<receiver, wire, sender>>

Capped(n, top) == IF n < top THEN n + 1 ELSE top
OldestSat == 1 + (IF SessionTimeout > SilentAfter THEN SessionTimeout ELSE SilentAfter)

Sats == [listed : BOOLEAN, dead : BOOLEAN, age : 0 .. OldestSat,
         deadFor : 0 .. RemoveAfter + 1, rtt : {"low", "middle", "high"}]
Children == [id : 0 .. MaxIds, dead : BOOLEAN]

\* Every variable holds a value of its type.
TypeOK ==
    /\ sat \in Sats
    /\ live \subseteq Agents /\ flowed \subseteq Agents /\ own \subseteq Agents
    /\ active \in BOOLEAN /\ checked \in BOOLEAN /\ stalled \in BOOLEAN
    /\ sinceEnable \in 0 .. KeepaliveEvery
    /\ sinceDisable \in 0 .. Never
    /\ wire \subseteq Agents \X Kinds
    /\ child \in [Agents -> Children]
    /\ nextId \in 0 .. MaxIds
    /\ fsr \subseteq 1 .. MaxIds

----------------------------------------------------------------------------
Init ==
    /\ sat = [listed |-> FALSE, dead |-> FALSE, age |-> 0, deadFor |-> 0, rtt |-> "low"]
    /\ live = {} /\ flowed = {} /\ own = {}
    /\ active = FALSE
    /\ sinceEnable = KeepaliveEvery /\ sinceDisable = Never
    /\ checked = FALSE /\ stalled = FALSE
    /\ wire = {}
    /\ child = [a \in Agents |-> [id |-> NoPeer, dead |-> FALSE]]
    /\ nextId = 0
    /\ fsr = {}

(***************************************************************************)
(* The receiver's check.                                                   *)
(***************************************************************************)
\* The satellite peer is dead, silent or slow.
Down == sat.listed /\ (sat.dead \/ sat.age > SilentAfter \/ sat.rtt = "high")

Healthy == sat.listed /\ ~sat.dead /\ sat.age <= FreshWithin /\ sat.rtt = "low"

\* Peers of weight 1000 are all there is.
RecoveryOnly == ~sat.listed /\ flowed # {} /\ ~active

ShouldEnable == Down \/ RecoveryOnly
\* A plausible bug: the dead flag is not asked.
ShouldDisableMutant ==
    active /\ sat.listed /\ sat.age <= FreshWithin /\ sat.rtt = "low"
ShouldDisable == active /\ ~ShouldEnable /\ Healthy

\* The agent is the live one of the lowest RTT, or else a dead one; the RTTs
\* order the agents differently from one second to the next.
Candidates == IF live # {} THEN live ELSE Agents

\* Without a satellite peer the request names the agent's flow, if it has one.
CanEnable(a) == ShouldEnable /\ ~active /\ (sat.listed \/ a \in flowed)
\* A plausible bug: the keepalive belongs to recovery-only mode.
KeepaliveDueMutant == active /\ ~sat.listed /\ sinceEnable >= KeepaliveEvery
KeepaliveDue == active /\ ShouldEnable /\ sat.listed /\ sinceEnable >= KeepaliveEvery
RepeatDue ==
    /\ ~active /\ sat.listed /\ sinceDisable # Never
    /\ sinceDisable >= RepeatEvery /\ sinceDisable < RepeatFor
StopDue ==
    /\ ~active /\ sat.listed /\ sinceDisable # Never
    /\ sinceDisable >= RepeatFor

SendEnable(a) ==
    /\ wire' = wire \cup {<<a, "enable">>}
    /\ own' = own \cup {a}
    /\ sinceEnable' = 0

\* A plausible bug: the time of the Disable is not recorded.
SendDisableMutant(a) ==
    /\ wire' = wire \cup {<<a, "disable">>}
    /\ own' = own \ {a}
    /\ UNCHANGED sinceDisable

SendDisable(a) ==
    /\ wire' = wire \cup {<<a, "disable">>}
    /\ own' = own \ {a}
    /\ sinceDisable' = 0

Enable(a) ==
    /\ CanEnable(a)
    /\ SendEnable(a)
    /\ active' = TRUE
    /\ UNCHANGED sinceDisable

KeepEnabled(a) ==
    /\ KeepaliveDue
    /\ SendEnable(a)
    /\ UNCHANGED <<active, sinceDisable>>

Disable(a) ==
    /\ ShouldDisable
    /\ SendDisable(a)
    /\ active' = FALSE
    /\ UNCHANGED sinceEnable

Repeat(a) ==
    /\ ~CanEnable(a) /\ RepeatDue
    /\ SendDisable(a)
    /\ UNCHANGED <<active, sinceEnable>>

StopRepeating(a) ==
    /\ ~CanEnable(a) /\ StopDue
    /\ sinceDisable' = Never
    /\ UNCHANGED <<active, sinceEnable, own, wire>>

Nothing(a) ==
    /\ ~CanEnable(a) /\ ~KeepaliveDue /\ ~ShouldDisable /\ ~RepeatDue /\ ~StopDue
    /\ UNCHANGED <<active, timers, own, wire>>

Check ==
    /\ ~checked
    /\ checked' = TRUE
    /\ \E a \in Candidates :
          \/ Enable(a) \/ KeepEnabled(a) \/ Disable(a)
          \/ Repeat(a) \/ StopRepeating(a) \/ Nothing(a)
    /\ UNCHANGED <<sat, live, flowed, stalled, sender>>

----------------------------------------------------------------------------
(***************************************************************************)
(* The receiver's peers.                                                   *)
(***************************************************************************)
\* A data or RTCP packet of the satellite: it creates a listening peer's
\* child, gives the peer its flow, and revives it.
SatPacket ==
    /\ sat' = [sat EXCEPT !.listed = TRUE, !.dead = FALSE, !.age = 0, !.deadFor = 0]
    /\ UNCHANGED <<live, flowed, active, timers, own, second, wire, sender>>

\* A GRE keepalive refreshes the silence and revives nothing.
SatKeepalive ==
    /\ sat.listed
    /\ sat' = [sat EXCEPT !.age = 0]
    /\ UNCHANGED <<live, flowed, active, timers, own, second, wire, sender>>

SatRtt ==
    /\ sat.listed
    /\ \E r \in {"low", "middle", "high"} : sat' = [sat EXCEPT !.rtt = r]
    /\ UNCHANGED <<live, flowed, active, timers, own, second, wire, sender>>

KillDue == sat.listed /\ ~sat.dead /\ sat.age > SessionTimeout
RemoveDue == sat.listed /\ sat.dead /\ SatIsChild /\ sat.deadFor > RemoveAfter

KillSat ==
    /\ KillDue
    /\ sat' = [sat EXCEPT !.dead = TRUE, !.deadFor = 0]
    /\ UNCHANGED <<live, flowed, active, timers, own, second, wire, sender>>

RemoveSat ==
    /\ RemoveDue
    /\ sat' = [sat EXCEPT !.listed = FALSE, !.dead = FALSE, !.age = 0, !.deadFor = 0,
                          !.rtt = "low"]
    /\ UNCHANGED <<live, flowed, active, timers, own, second, wire, sender>>

\* A packet of the sender reaches the agent's peer.
AgentHeard(a) ==
    /\ live' = live \cup {a}
    /\ flowed' = flowed \cup {a}
    /\ UNCHANGED <<sat, active, timers, own, second, wire, sender>>

AgentSilent(a) ==
    /\ a \in live
    /\ live' = live \ {a}
    /\ UNCHANGED <<sat, flowed, active, timers, own, second, wire, sender>>

Tick ==
    /\ ~KillDue /\ ~RemoveDue
    /\ checked' = FALSE /\ stalled' = (stalled \/ ~checked)
    /\ sat' = [sat EXCEPT !.age = IF sat.listed THEN Capped(@, OldestSat) ELSE 0,
                          !.deadFor = IF sat.dead THEN Capped(@, RemoveAfter + 1) ELSE 0]
    /\ sinceEnable' = Capped(sinceEnable, KeepaliveEvery)
    /\ sinceDisable' = IF sinceDisable = Never THEN Never ELSE Capped(sinceDisable, RepeatFor)
    /\ UNCHANGED <<live, flowed, active, own, wire, sender>>

----------------------------------------------------------------------------
(***************************************************************************)
(* The sender.                                                             *)
(***************************************************************************)
CanArrive(a) == child[a].id # NoPeer \/ nextId < MaxIds

\* Any packet of an agent creates the agent's peer or revives it.
Arrives(a) ==
    /\ CanArrive(a)
    /\ nextId' = IF child[a].id = NoPeer THEN nextId + 1 ELSE nextId
    /\ child' = [child EXCEPT ![a] = [id |-> IF child[a].id = NoPeer THEN nextId + 1
                                             ELSE child[a].id,
                                      dead |-> FALSE]]

AgentPacket(a) ==
    /\ Arrives(a)
    /\ UNCHANGED <<receiver, wire, fsr>>

DeliverEnable(a) ==
    /\ <<a, "enable">> \in wire
    /\ Arrives(a)
    /\ wire' = wire \ {<<a, "enable">>}
    /\ fsr' = fsr \cup {child'[a].id}
    /\ UNCHANGED receiver

DeliverDisable(a) ==
    /\ <<a, "disable">> \in wire
    /\ Arrives(a)
    /\ wire' = wire \ {<<a, "disable">>}
    /\ fsr' = fsr \ {child'[a].id}
    /\ UNCHANGED receiver

Lose ==
    /\ \E p \in wire : wire' = wire \ {p}
    /\ UNCHANGED <<receiver, sender>>

\* rist_timeout_check kills a silent peer ...
ChildDies(a) ==
    /\ child[a].id # NoPeer /\ ~child[a].dead
    /\ child' = [child EXCEPT ![a].dead = TRUE]
    /\ UNCHANGED <<receiver, wire, nextId, fsr>>

\* A plausible bug: the removed peer stays in the list.
RemoveChildMutant(a) ==
    /\ child[a].dead
    /\ child' = [child EXCEPT ![a] = [id |-> NoPeer, dead |-> FALSE]]
    /\ UNCHANGED <<receiver, wire, nextId, fsr>>

\* ... and removes a child that stayed dead, with what it asked for.
RemoveChild(a) ==
    /\ child[a].dead
    /\ child' = [child EXCEPT ![a] = [id |-> NoPeer, dead |-> FALSE]]
    /\ fsr' = fsr \ {child[a].id}
    /\ UNCHANGED <<receiver, wire, nextId>>

\* The data loop sends to a live child that is in the list.
Streams(a) == child[a].id \in fsr /\ ~child[a].dead

\* Static variables of the sender's process do not survive it.
SenderRestarts ==
    /\ nextId # 0
    /\ child' = [a \in Agents |-> [id |-> NoPeer, dead |-> FALSE]]
    /\ nextId' = 0
    /\ fsr' = {}
    /\ UNCHANGED <<receiver, wire>>

----------------------------------------------------------------------------
AgentStep(a) ==
    \/ AgentHeard(a) \/ AgentSilent(a)
    \/ AgentPacket(a) \/ DeliverEnable(a) \/ DeliverDisable(a)
    \/ ChildDies(a) \/ RemoveChild(a)

Next ==
    \/ Check \/ Tick
    \/ SatPacket \/ SatKeepalive \/ SatRtt \/ KillSat \/ RemoveSat
    \/ \E a \in Agents : AgentStep(a)
    \/ Lose \/ SenderRestarts

Spec == Init /\ [][Next]_vars

\* The loop of the protocol thread goes round, and a network that is handed a
\* request again and again delivers one.
Fairness ==
    /\ WF_vars(Check) /\ WF_vars(Tick) /\ WF_vars(KillSat) /\ WF_vars(RemoveSat)
    /\ \A a \in Agents : SF_vars(DeliverEnable(a)) /\ SF_vars(DeliverDisable(a))

FairSpec == Spec /\ Fairness

----------------------------------------------------------------------------
(***************************************************************************)
(* Properties.                                                             *)
(***************************************************************************)
\* The list names peers the sender has: every way a peer goes takes its entry
\* along, so no entry outlives the peer that asked (rist_timeout_check,
\* rist_peer_remove).
ListedExist == fsr \subseteq {child[a].id : a \in Agents}

\* Whoever is listed, or about to be, will be asked for again: the receiver is
\* active, or it is still repeating the Disable, if it never missed a second.
StillReleasing ==
    fsr # {} \/ (\E a \in Agents : <<a, "enable">> \in wire)
        => active \/ sinceDisable # Never \/ stalled

DisablesSent == {a \in Agents : <<a, "disable">> \in wire}

\* The check never sends a Disable, first or repeated, in a second in which it
\* finds the satellite down: the two decisions of one check do not contradict
\* each other.
NoDisableWhileDown == [][DisablesSent' \subseteq DisablesSent \/ ~Down]_vars

SenderKnows == \A a \in Agents : child[a].id # NoPeer /\ ~child[a].dead
Streaming == \E a \in Agents : Streams(a)

\* A listed satellite that is down for good leaves a receiver that gets the
\* recovery stream for good, whatever requests were lost on the way, once the
\* agents' peers at the sender stay.
Served == <>[](Down /\ SenderKnows) => <>[]Streaming

\* A satellite that is healthy for good ends the recovery stream for good, if
\* the receiver never missed a second.
Released ==
    <>[](Healthy /\ SenderKnows /\ ~stalled) => <>[]~Streaming

\* "Stop sending FSR Disable after 30 seconds": the repeats end after a while.
RepeatsStop == <>[]Healthy => <>[](sinceDisable = Never)
============================================================================
