---------------------------- MODULE SenderPeers ----------------------------
(***************************************************************************)
(* The peers of a librist sender (main profile, no EAP): callers connect   *)
(* to a receiver, listeners wait for receivers, and every address heard at *)
(* a listener becomes a child peer.  Peers are taken for dead when they    *)
(* fall silent, come back or are removed; the application is told who is   *)
(* connected; and each packet goes to all peers of weight zero and to one  *)
(* elected among the weighted ones.                                        *)
(*                                                                         *)
(* peerlist_lock is held by the event loop, by the timeout check, by the   *)
(* sending of packets and by the calls of the API, so each of them is one  *)
(* step.  Silence and the five seconds a dead peer is kept may end at any  *)
(* moment.                                                                 *)
(***************************************************************************)
EXTENDS Integers, FiniteSets, FiniteSetsExt, Sequences

CONSTANTS
    Callers,     \* configured peers that connect
    Listeners,   \* configured peers that listen
    Addresses,   \* receivers that may connect to a listener
    Weights,     \* weights the application gives
    Satellite,   \* the weight of a recovery agent, 1000
    Nobody,      \* no weighted peer has a turn left
    Idle,        \* there is no weighted peer to send to
    Drift        \* bound: how far the counter may be below zero when weights are set

Configured == Callers \union Listeners
Children == Listeners \X Addresses
Kids(l) == {l} \X Addresses

ASSUME SenderPeersAssumption ==
    /\ IsFiniteSet(Addresses) /\ IsFiniteSet(Callers) /\ IsFiniteSet(Listeners)
    /\ Callers \intersect Listeners = {} /\ Configured \intersect (Configured \X Addresses) = {}
    /\ Weights \subseteq Nat /\ Satellite \in Nat \ {0} /\ Drift \in Nat
    /\ Nobody \notin Configured /\ Idle \notin Configured /\ Nobody # Idle

VARIABLES
    order,          \* the configured peers in PEERS, in their order
    destroyed,      \* those that were taken out of it
    here,           \* the children in PEERS
    dead,           \* peer->dead
    heard,          \* callers with last_pkt_received > 0; a child has been heard
    announced,      \* peer->send_first_connection_event
    timedOut,       \* peer->timed_out, of callers
    alive,          \* child_alive_count of the listeners
    weight,         \* config.weight of the configured peers
    wCount,         \* w_count
    total,          \* total_weight
    counter,        \* weight_counter
    started,        \* rist_start was called
    appCount,       \* peer_connected_count of the application
    last,           \* history: whom the last packet was given to since the weights were set
    given,          \* history: turns given since the last whole set was handed out,
    whole           \*   as long as every weighted peer took part

peers == <<order, destroyed, here, dead, heard, announced, timedOut, appCount>>
shares == <<weight, wCount, total>>
history == <<last, given, whole>>
vars == <<peers, alive, shares, counter, started, history>>

Listed == {order[i] : i \in DOMAIN order}
NoTurns == [c \in Configured |-> 0]
Total(S) == MapThenSumSet(LAMBDA c : weight[c], S)

\* The set of turns is no longer the one that was handed out.
Disturbed == whole' = FALSE /\ given' = NoTurns /\ UNCHANGED last

----------------------------------------------------------------------------
\* Calls of the application.

\* rist_peer_create
Create(c, w) ==
    /\ c \notin Listed \union destroyed
    /\ order' = Append(order, c)
    /\ weight' = [weight EXCEPT ![c] = w]
    /\ wCount' = [wCount EXCEPT ![c] = w]
    /\ total' = IF c \in Callers THEN total + w ELSE total
    /\ Disturbed
    /\ UNCHANGED <<destroyed, here, dead, heard, announced, timedOut, appCount,
                   alive, counter, started>>

\* rist_start
Start ==
    /\ ~started /\ started' = TRUE
    /\ counter' = IF total > 0 THEN total ELSE counter
    /\ UNCHANGED <<peers, alive, shares, history>>

\* rist_peer_weight_set
SetWeight(c, w) ==
    /\ c \in Listed /\ counter > -Drift
    /\ weight' = [weight EXCEPT ![c] = w]
    /\ IF c \in Callers \/ here \intersect Kids(c) # {}
       THEN wCount' = [wCount EXCEPT ![c] = w] /\ total' = total - weight[c] + w
       ELSE UNCHANGED <<wCount, total>>
    /\ last' = Idle /\ whole' = FALSE /\ given' = NoTurns
    /\ UNCHANGED <<peers, alive, counter, started>>

\* Told that they are connected and not yet that they are gone.
Connected == announced \ timedOut

\* What goes with a configured peer.
With(c) == {c} \union Kids(c)

\* rist_peer_destroy of a configured peer: its children go first.  The weight of
\* a caller stays in the total.
Destroy(c) ==
    /\ \E i \in DOMAIN order :
          /\ order[i] = c
          /\ order' = SubSeq(order, 1, i - 1) \o SubSeq(order, i + 1, Len(order))
    /\ destroyed' = destroyed \union {c}
    /\ here' = here \ Kids(c) /\ dead' = dead \ With(c) /\ heard' = heard \ {c}
    /\ announced' = announced \ With(c) /\ timedOut' = timedOut \ {c}
    /\ appCount' = appCount - Cardinality(Connected \intersect With(c))
    /\ alive' = [alive EXCEPT ![c] = 0]
    /\ total' = IF here \intersect Kids(c) # {} THEN total - weight[c] ELSE total
    /\ Disturbed
    /\ UNCHANGED <<weight, wCount, counter, started>>

----------------------------------------------------------------------------
\* Packets from receivers: rist_peer_recv.

Reachable(p) ==
    /\ started
    /\ IF p \in Children THEN p[1] \in Listed ELSE p \in Listed

\* A plausible bug: every child brings the weight of its listener.
AdmitMutant(p) ==
    IF p \in Children
    THEN /\ here' = here \union {p}
         /\ IF p \notin here THEN total' = total + weight[p[1]] /\ Disturbed
            ELSE UNCHANGED <<total, history>>
         /\ UNCHANGED heard
    ELSE heard' = heard \union {p} /\ UNCHANGED <<here, total, history>>

\* A child is created for an address that is not known; the first one brings the
\* weight of its listener.
Admit(p) ==
    IF p \in Children
    THEN /\ here' = here \union {p}
         /\ IF here \intersect Kids(p[1]) = {}
            THEN total' = total + weight[p[1]] /\ Disturbed
            ELSE UNCHANGED <<total, history>>
         /\ UNCHANGED heard
    ELSE heard' = heard \union {p} /\ UNCHANGED <<here, total, history>>

\* p is one more live child of its listener.
OneMore(p) == alive' = [alive EXCEPT ![p[1]] = @ + 1]

\* A keepalive is an early return: the peer is heard and, if dead, stays dead.
Keepalive(p) ==
    /\ Reachable(p) /\ Admit(p)
    /\ IF p \in Children \ here THEN OneMore(p) ELSE UNCHANGED alive
    /\ UNCHANGED <<order, destroyed, dead, announced, timedOut, appCount,
                   weight, wCount, counter, started>>

\* A plausible bug: the count goes up when the peer was not dead.
RevivesMutant(p) ==
    /\ Reachable(p) /\ Admit(p)
    /\ dead' = dead \ {p}
    /\ IF p \in Children THEN OneMore(p) ELSE UNCHANGED alive
    /\ UNCHANGED <<order, destroyed, timedOut, weight, wCount, counter, started>>

\* Any other packet brings a dead peer back.
Revives(p) ==
    /\ Reachable(p) /\ Admit(p)
    /\ dead' = dead \ {p}
    /\ IF p \in Children /\ (p \notin here \/ p \in dead) THEN OneMore(p) ELSE UNCHANGED alive
    /\ UNCHANGED <<order, destroyed, weight, wCount, counter, started>>

\* RTCP without a name, echoes or out-of-band data.
Other(p) == Revives(p) /\ UNCHANGED <<announced, timedOut, appCount>>

\* The application is told of a peer that says its name for the first time or
\* again after it had timed out.
Sdes(p) ==
    /\ Revives(p)
    /\ announced' = announced \union {p} /\ timedOut' = timedOut \ {p}
    /\ appCount' = IF p \in Connected THEN appCount ELSE appCount + 1

----------------------------------------------------------------------------
\* rist_timeout_check, one peer at a time.

\* kill_peer: session_timeout without a packet.  A caller that was never heard
\* does not time out.
Kill(p) ==
    /\ started /\ p \in (here \union (heard \intersect Listed)) \ dead
    /\ dead' = dead \union {p}
    /\ alive' = IF p \in Children THEN [alive EXCEPT ![p[1]] = @ - 1] ELSE alive
    /\ UNCHANGED <<order, destroyed, here, heard, announced, timedOut, appCount,
                   shares, counter, started, history>>

\* A plausible bug: a peer nobody was told of is reported as gone.
RemoveMutant(p) ==
    /\ started /\ p \in here \intersect dead
    /\ here' = here \ {p} /\ dead' = dead \ {p}
    /\ announced' = announced \ {p}
    /\ appCount' = appCount - 1
    /\ total' = IF here \intersect Kids(p[1]) = {p} THEN total - weight[p[1]] ELSE total
    /\ UNCHANGED <<order, destroyed, heard, timedOut, alive, weight, wCount, counter, started,
                   history>>

\* A child that has been dead for five seconds is removed.
Remove(p) ==
    /\ started /\ p \in here \intersect dead
    /\ here' = here \ {p} /\ dead' = dead \ {p}
    /\ announced' = announced \ {p}
    /\ appCount' = IF p \in Connected THEN appCount - 1 ELSE appCount
    /\ total' = IF here \intersect Kids(p[1]) = {p} THEN total - weight[p[1]] ELSE total
    /\ UNCHANGED <<order, destroyed, heard, timedOut, alive, weight, wCount, counter, started,
                   history>>

\* A caller that has been dead for five seconds is reported once.
TimesOut(c) ==
    /\ started /\ c \in (Listed \intersect Callers \intersect dead) \ timedOut
    /\ timedOut' = timedOut \union {c}
    /\ appCount' = IF c \in announced THEN appCount - 1 ELSE appCount
    /\ UNCHANGED <<order, destroyed, here, dead, heard, announced,
                   alive, shares, counter, started, history>>

----------------------------------------------------------------------------
\* rist_sender_send_data_balanced: one packet.

Sendable(c) == IF c \in Listeners THEN alive[c] > 0 ELSE c \notin dead

\* Peers that are elected; those of weight 0 get every packet, a recovery agent
\* what its receiver requests.
Electable == {c \in Listed : Sendable(c) /\ weight[c] \notin {0, Satellite}}

\* The counter after the first n peers: those that cannot be sent to pass their turns.
Passed ==
    LET after[n \in 0 .. Len(order)] ==
            IF n = 0 THEN counter
            ELSE IF Sendable(order[n]) THEN after[n - 1]
            ELSE LET left == after[n - 1] - weight[order[n]]
                 IN  IF left <= 0 THEN total ELSE left
    IN  after[Len(order)]

\* More turns left, or as many and an earlier place.
Ahead(i, j) == IF i < j THEN wCount[order[i]] >= wCount[order[j]]
               ELSE wCount[order[i]] > wCount[order[j]]

\* A plausible bug: also without a turn left.
ElectedMutant ==
    LET places == {i \in DOMAIN order : order[i] \in Electable}
    IN  IF places = {} THEN Nobody
        ELSE order[CHOOSE i \in places : \A j \in places \ {i} : Ahead(i, j)]

\* The peer that is ahead of all others.
Elected ==
    LET places == {i \in DOMAIN order : order[i] \in Electable /\ wCount[order[i]] > 0}
    IN  IF places = {} THEN Nobody
        ELSE order[CHOOSE i \in places : \A j \in places \ {i} : Ahead(i, j)]

\* What the election leaves of the counter ...
CounterLeft == IF Elected = Nobody THEN Passed ELSE Passed - 1
\* A plausible bug: the turn is not taken off.
TurnsLeftMutant == [c \in Configured |->
                       IF c \in Listed /\ ~Sendable(c) THEN weight[c] ELSE wCount[c]]

\* ... and of the turns; a peer that cannot be sent to keeps all of its own.
TurnsLeft == [c \in Configured |->
                 IF c = Elected THEN wCount[c] - 1
                 ELSE IF c \in Listed /\ ~Sendable(c) THEN weight[c] ELSE wCount[c]]

\* A plausible bug: turns are handed out only when the counter says so.
HandsOutMutant == total > 0 /\ CounterLeft = 0

\* All turns are handed out again.
HandsOut == total > 0 /\ (CounterLeft = 0 \/ Elected = Nobody)

Regular ==
    /\ total = Total(Listed)
    /\ \A c \in Listed : weight[c] = 0 \/ c \in Electable
Given == [c \in Configured |-> IF c = Elected THEN given[c] + 1 ELSE given[c]]

Send ==
    /\ started /\ order # <<>>
    /\ counter' = IF HandsOut THEN total ELSE CounterLeft
    /\ wCount' = IF HandsOut THEN [c \in Configured |-> IF c \in Listed THEN weight[c] ELSE wCount[c]]
                 ELSE TurnsLeft
    /\ last' = IF Electable = {} THEN Idle ELSE Elected
    /\ whole' = (HandsOut \/ (whole /\ Regular))
    /\ given' = IF ~HandsOut /\ whole /\ Regular THEN Given ELSE NoTurns
    /\ UNCHANGED <<peers, alive, weight, total, started>>

----------------------------------------------------------------------------

Init ==
    /\ order = <<>> /\ destroyed = {} /\ here = {} /\ dead = {} /\ heard = {}
    /\ announced = {} /\ timedOut = {} /\ appCount = 0
    /\ alive = [c \in Configured |-> 0] /\ weight = NoTurns /\ wCount = NoTurns
    /\ total = 0 /\ counter = 0 /\ started = FALSE
    /\ last = Idle /\ given = NoTurns /\ whole = FALSE

Calls == \/ \E c \in Configured, w \in Weights : Create(c, w) \/ SetWeight(c, w)
         \/ \E c \in Configured : Destroy(c)
         \/ Start
Receives == \E p \in Callers \union Children : Keepalive(p) \/ Other(p) \/ Sdes(p)
Checks == \/ \E p \in Callers \union Children : Kill(p) \/ TimesOut(p)
          \/ \E p \in Children : Remove(p)

Next == Calls \/ Receives \/ Checks \/ Send

Spec == Init /\ [][Next]_vars

\* The application goes on writing packets.
FairSpec == Spec /\ WF_vars(Send)

----------------------------------------------------------------------------

\* Every variable holds a value of its type.
TypeOK ==
    /\ order \in Seq(Configured) /\ destroyed \subseteq Configured
    /\ here \subseteq Children /\ dead \subseteq Callers \union Children
    /\ heard \subseteq Callers
    /\ announced \subseteq Callers \union here /\ timedOut \subseteq Callers
    /\ alive \in [Configured -> Nat] /\ weight \in [Configured -> Weights \union {0}]
    /\ wCount \in [Configured -> Nat] /\ total \in Nat /\ counter \in Int
    /\ started \in BOOLEAN /\ appCount \in Int
    /\ last \in Configured \union {Nobody, Idle} /\ given \in [Configured -> Nat]
    /\ whole \in BOOLEAN

\* Whatever the order of silence, keepalives, returns and removals, the count that
\* decides whether a listener is sent to is the number of its children that live.
AliveExact == \A l \in Listeners : alive[l] = Cardinality((here \ dead) \intersect Kids(l))

\* The total is the weight of the callers, destroyed ones included, and of the
\* listeners that have a child, dead or not.
TotalExact ==
    total = Total((Callers \intersect (Listed \union destroyed))
                      \union {l \in Listeners : here \intersect Kids(l) # {}})

\* The application counts the peers it was told of: a peer is announced and
\* reported as gone in turns, so the count is never negative and never drifts.
EventsMatch == appCount = Cardinality(Connected)

\* A packet given to nobody although there was a weighted peer hands out new
\* turns to every one of them: as long as no weight is set, the next packet is not
\* lost in the same way.
NeverTwoSkipped == last = Nobody => \A c \in Electable : wCount[c] > 0

\* When all weighted peers took part from one handing out of turns to the next,
\* each of them was given as many packets as it weighs.
WeightedRound ==
    [][Send /\ whole /\ Regular /\ HandsOut
          => \A c \in Listed : Given[c] = weight[c]]_vars

\* A weighted peer that can be sent to is given a packet again and again, if
\* nothing happens but sending.
NoStarvation ==
    \A c \in Configured :
        <>[][Send]_vars /\ <>[](started /\ c \in Electable) => []<>(last = c)
=============================================================================
