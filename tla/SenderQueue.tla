---------------------------- MODULE SenderQueue ----------------------------
(***************************************************************************)
(* The queue of a librist sender: the application's thread writes packets  *)
(* into a ring, the protocol thread sends them, keeps them for             *)
(* retransmission while they are young, and answers NACKs through a second *)
(* ring of retry requests.  Both rings are indexed modulo their size and   *)
(* a packet is found again by its sequence number through seq_index.       *)
(*                                                                         *)
(* The packets are numbered; a sequence number is that number modulo       *)
(* SeqMod.  Ages are in ticks and held at the largest value a test can     *)
(* tell apart.                                                             *)
(***************************************************************************)
EXTENDS Integers, FiniteSets

CONSTANTS
    Slots,        \* size of the packet ring, 8 * 2^16
    SeqMod,       \* number of sequence numbers, 2^16
    RetrySlots,   \* size of the retry ring, 4 * 2^16
    Peers,        \* receivers that send NACKs
    Null,         \* no packet in a slot, no peer in a retry entry
    MinTime,      \* sender_recover_min_time: younger packets are kept
    ShrinkTime,   \* 1.1 * MinTime: an older one shrinks the buffer
    Rtt,          \* the clamped round trip time that spaces requests
    SearchPeriod, \* how far back requests are compared, 4 * Rtt
    RetryTime,    \* recovery_length_max: an older request is not answered
    MaxRetries,   \* max_retries
    PerLoop,      \* packets sent in one turn of the loop, 101
    TooMany,      \* waiting packets that keep requests waiting, 10
    CongestionOff,\* RIST_CONGESTION_CONTROL_MODE_OFF
    MaxPackets,   \* bound: packets written
    MaxRequests   \* bound: requests accepted

VARIABLES
    queue,       \* sender_queue
    writeIdx,    \* sender_queue_write_index
    readIdx,     \* sender_queue_read_index: the last packet sent
    deleteIdx,   \* sender_queue_delete_index
    queueSize,   \* sender_queue_size (and, for packets of one byte, bytesize)
    bufferSize,  \* the static buffer_size of sender_send_data
    seqIndex,    \* seq_index
    written,     \* packets written so far, and age of each
    age,
    sent,        \* history: number of the last packet sent
    lapped,      \* history: a packet was overwritten in its slot
    retry,       \* sender_retry_queue
    retryWrite,  \* sender_retry_queue_write_index
    retryRead,   \* sender_retry_queue_read_index: the last one taken
    accepted,    \* requests accepted so far
    retryLapped, \* history: the requests that waited were lost in their ring
    listed,      \* peer_lst
    pc,          \* place of the protocol thread
    burst        \* packets or requests handled in this turn

ring == <<queue, writeIdx, readIdx, deleteIdx, queueSize, bufferSize, seqIndex, sent, lapped>>
requests == <<retry, retryWrite, retryRead, accepted, retryLapped>>
thread == <<pc, burst>>
vars == <<ring, written, age, requests, listed, thread>>

Slot == 0 .. Slots - 1
RetrySlot == 0 .. RetrySlots - 1
SeqOf(id) == id % SeqMod
Larger(a, b) == IF a > b THEN a ELSE b
OldestPacket == ShrinkTime + 1
OldestEntry == 1 + Larger(Larger(SearchPeriod, RetryTime), Rtt)
NeverAsked == Rtt + 1

\* Index arithmetic, "& (size - 1)" in the code.
Forward(i, n) == IF i + n < Slots THEN i + n ELSE i + n - Slots
Back(i, n) == IF i >= n THEN i - n ELSE i - n + Slots
RetryForward(i) == IF i + 1 < RetrySlots THEN i + 1 ELSE 0
RetryBack(i, n) == IF i >= n THEN i - n ELSE i - n + RetrySlots

\* Requests that wait.
Pending == {i \in RetrySlot :
               IF retryRead < retryWrite THEN retryRead < i /\ i < retryWrite
               ELSE i > retryRead \/ i < retryWrite}

Packets == [id : 1 .. MaxPackets, asked : 0 .. NeverAsked, flagged : BOOLEAN,
            count : 0 .. MaxRetries]
\* In an entry, id is a history: the packet its number stood for when it was asked for.
Entries == [seq : 0 .. SeqMod - 1, id : 0 .. MaxPackets, peer : Peers \union {Null}, age : 0 .. OldestEntry,
            active : BOOLEAN]
NoEntry == [seq |-> 0, id |-> 0, peer |-> Null, age |-> OldestEntry, active |-> FALSE]

ASSUME SenderQueueAssumption ==
    /\ Slots \in Nat \ {0, 1} /\ SeqMod \in Nat \ {0} /\ RetrySlots \in Nat \ {0, 1}
    /\ MinTime \in Nat \ {0} /\ ShrinkTime \in Nat /\ MinTime <= ShrinkTime
    /\ Rtt \in Nat /\ SearchPeriod \in Nat /\ RetryTime \in Nat
    /\ MaxRetries \in Nat /\ PerLoop \in Nat \ {0}
    /\ TooMany \in 1 .. Slots
    /\ CongestionOff \in BOOLEAN /\ MaxPackets \in Nat
    /\ MaxRequests \in Nat
    /\ Peers # {} /\ Null \notin Peers /\ Null \notin Packets

----------------------------------------------------------------------------
\* The application's thread.

\* The test that reports "Sender queue is full".
Full == writeIdx > 0 /\ Forward(deleteIdx, queueSize) > writeIdx

NewPacket(n) == [id |-> n, asked |-> NeverAsked, flagged |-> FALSE, count |-> 0]

\* Requests wait for milliseconds: no number is used again while one for it waits.
NumberFree == \A i \in Pending : retry[i].seq # SeqOf(written + 1)

\* rist_sender_enqueue; a packet that is refused changes nothing.  The model stops
\* when the writer has gone round the ring and overwritten a packet.
Write ==
    /\ pc = "poll" /\ ~lapped /\ written < MaxPackets /\ NumberFree
    /\ ~Full
    /\ lapped' = (queue[writeIdx] # Null)
    /\ queue' = [queue EXCEPT ![writeIdx] = NewPacket(written + 1)]
    /\ written' = written + 1
    /\ age' = [age EXCEPT ![written + 1] = 0]
    /\ queueSize' = queueSize + 1
    /\ writeIdx' = Forward(writeIdx, 1)
    /\ UNCHANGED <<readIdx, deleteIdx, bufferSize, seqIndex, sent, requests, listed, thread>>

----------------------------------------------------------------------------
\* sender_send_data, one packet at a time.

Unsent == Forward(readIdx, 1) # writeIdx
AgeAt(slot) == age[queue[slot].id]

\* What is left of the ring when slot d has been emptied.
Emptied(q, d) == [q EXCEPT ![d] = Null]

\* A plausible bug: the buffer is not counted up.
GrowMutant(d) ==
    /\ AgeAt(d) < MinTime
    /\ deleteIdx' = d
    /\ UNCHANGED <<queue, queueSize, bufferSize, pc>>

\* The packet at d is too young to go: the buffer grows by one.
Grow(d) ==
    /\ AgeAt(d) < MinTime
    /\ deleteIdx' = d /\ bufferSize' = bufferSize + 1
    /\ UNCHANGED <<queue, queueSize, pc>>

\* A plausible bug: a packet is deleted before its time.
DeleteMutant(d) ==
    /\ AgeAt(d) + 1 >= MinTime
    /\ deleteIdx' = d /\ queue' = Emptied(queue, d) /\ queueSize' = queueSize - 1
    /\ UNCHANGED <<bufferSize, pc>>

\* It is old enough, and not so old that the buffer should shrink.
Delete(d) ==
    /\ AgeAt(d) >= MinTime
    /\ AgeAt(d) <= ShrinkTime \/ bufferSize = 0
    /\ deleteIdx' = d /\ queue' = Emptied(queue, d) /\ queueSize' = queueSize - 1
    /\ UNCHANGED <<bufferSize, pc>>

\* It is too old: the buffer shrinks by one and the next packet is looked at,
\* in the same way except that the buffer does not shrink twice.  An empty slot
\* there would keep the loop going for ever.
Shrink(d) ==
    /\ AgeAt(d) > ShrinkTime /\ bufferSize > 0
    /\ IF queueSize = 1
       THEN /\ deleteIdx' = d /\ queue' = Emptied(queue, d) /\ queueSize' = 0
            /\ bufferSize' = bufferSize - 1 /\ UNCHANGED pc
       ELSE LET e == Forward(d, 1) IN
            /\ deleteIdx' = e
            /\ IF queue[e] = Null
               THEN /\ queue' = Emptied(queue, d) /\ queueSize' = queueSize - 1
                    /\ bufferSize' = bufferSize - 1 /\ pc' = "hung"
               ELSE IF AgeAt(e) < MinTime
                    THEN /\ queue' = Emptied(queue, d) /\ queueSize' = queueSize - 1
                         /\ UNCHANGED <<bufferSize, pc>>
                    ELSE /\ queue' = Emptied(Emptied(queue, d), e)
                         /\ queueSize' = queueSize - 2
                         /\ bufferSize' = bufferSize - 1 /\ UNCHANGED pc

Trim(idx) ==
    LET d == Back(idx, bufferSize) IN
    IF queue[d] = Null
    THEN deleteIdx' = d /\ UNCHANGED <<queue, queueSize, bufferSize, pc>>
    ELSE Grow(d) \/ Delete(d) \/ Shrink(d)

SendData ==
    /\ pc = "data" /\ ~lapped /\ Unsent /\ burst < PerLoop
    /\ burst' = burst + 1
    /\ LET idx == Forward(readIdx, 1) IN
       /\ readIdx' = idx
       /\ IF queue[idx] = Null   \* "This should never happen!"
          THEN /\ queueSize' = queueSize - 1
               /\ UNCHANGED <<queue, deleteIdx, bufferSize, seqIndex, sent, pc>>
          ELSE /\ sent' = queue[idx].id
               /\ seqIndex' = [seqIndex EXCEPT ![SeqOf(queue[idx].id)] = idx]
               /\ Trim(idx)
    /\ UNCHANGED <<writeIdx, lapped, written, age, requests, listed>>


----------------------------------------------------------------------------
\* NACKs: rist_retry_enqueue, called from the socket loop.

Single == Cardinality(listed) = 1

\* A plausible bug: either is enough.
AcceptSingleMutant(b) == ~b.flagged \/ b.asked >= Rtt

\* One peer: the packet itself says whether and when it was asked for.
AcceptSingle(b) == ~b.flagged /\ (b.asked = NeverAsked \/ b.asked >= Rtt)

\* Several peers: backwards through the retry ring for an entry of the same peer
\* and number, until one is too old or the ring has been gone round.
Entry(n) == retry[RetryBack(retryWrite, n)]
Matches(e, p, s) == e.seq = s /\ e.peer = p
Found(p, s) ==
    LET Stops(n) == Matches(Entry(n), p, s) \/ Entry(n).age > SearchPeriod
        stops == {n \in 1 .. RetrySlots - 1 : Stops(n)}
    IN  IF stops = {} THEN RetrySlots
        ELSE CHOOSE n \in stops : \A k \in stops : n <= k

AcceptAmongMany(p, s) ==
    LET e == Entry(Found(p, s)) IN
    Matches(e, p, s) => ~e.active /\ e.age >= Rtt

Accept(p, s) ==
    \/ CongestionOff
    \/ IF Single THEN AcceptSingle(queue[seqIndex[s]]) ELSE AcceptAmongMany(p, s)

\* With one peer a packet is flagged from its second request on.
Flags(b) == b.flagged \/ (~CongestionOff /\ Single /\ b.asked # NeverAsked)

\* A receiver asks for numbers that have been sent, and before 2^16 more packets are
\* written.  Nothing keeps the write index from the one that is read: when it comes
\* past it, the ring looks empty and all that waited is lost.  There the model takes
\* no more requests.
Nack(p, s) ==
    /\ pc = "poll" /\ p \in listed /\ accepted < MaxRequests /\ ~retryLapped
    /\ \E id \in 1 .. sent : SeqOf(id) = s /\ id > written - SeqMod
    /\ queue[seqIndex[s]] # Null
    /\ Accept(p, s)
    /\ queue' = [queue EXCEPT ![seqIndex[s]] = [@ EXCEPT !.flagged = Flags(queue[seqIndex[s]]),
                                                        !.asked = 0]]
    /\ retry' = [retry EXCEPT ![retryWrite] =
                    [seq |-> s, id |-> queue[seqIndex[s]].id, peer |-> p, age |-> 0, active |-> TRUE]]
    /\ retryLapped' = (retryWrite = retryRead)
    /\ retryWrite' = RetryForward(retryWrite)
    /\ accepted' = accepted + 1
    /\ UNCHANGED <<writeIdx, readIdx, deleteIdx, queueSize, bufferSize, seqIndex, sent,
                   lapped, written, age, retryRead, listed, thread>>

----------------------------------------------------------------------------
\* sender_send_nacks: one rist_retry_dequeue at a time.

NextRetry == RetryForward(retryRead)
NoRetries == NextRetry = retryWrite

\* (write - read) & sender_queue_max keeps one bit: set when the write index is
\* round the ring and the read index is not.
QueuedItems == IF writeIdx >= readIdx THEN 0 ELSE Slots
Yields == QueuedItems >= TooMany

Taken == retry[NextRetry]
TakenSlot == seqIndex[Taken.seq]
Available == queue[TakenSlot] # Null /\ SeqOf(queue[TakenSlot].id) = Taken.seq

Take ==
    /\ pc = "nacks" /\ ~Yields /\ ~NoRetries
    /\ burst' = 1
    /\ retryRead' = NextRetry
    /\ UNCHANGED <<writeIdx, readIdx, deleteIdx, queueSize, bufferSize, seqIndex, sent,
                   lapped, written, age, retryWrite, accepted, retryLapped, listed, pc>>

\* The packet is gone, or its slot holds another.
DequeueGone == Take /\ ~Available /\ UNCHANGED <<queue, retry>>

\* A plausible bug: the mark stays.
ConsumeMutant(again) ==
    /\ queue' = [queue EXCEPT ![TakenSlot] = [@ EXCEPT !.count = @ + again]]
    /\ retry' = [retry EXCEPT ![NextRetry] = [@ EXCEPT !.active = FALSE]]

Consume(again) ==
    /\ LET b == queue[TakenSlot] IN
       queue' = [queue EXCEPT ![TakenSlot] =
                    [b EXCEPT !.flagged = FALSE, !.count = b.count + again]]
    /\ retry' = [retry EXCEPT ![NextRetry] = [@ EXCEPT !.active = FALSE]]

\* Not sent again: too much bandwidth in use, asked for too long ago, sent too
\* often, refused for want of a selection, or an error of the socket.
DequeueSkip == Take /\ Available /\ Consume(0)

Resend ==
    /\ Take /\ Available
    /\ Taken.age <= RetryTime /\ queue[TakenSlot].count < MaxRetries
    /\ Consume(1)

----------------------------------------------------------------------------
\* The loop of sender_pthread_protocol.

Goto(place) == pc' = place /\ burst' = 0

\* queue_lock is taken; nothing is done while there is no data.
StartLoop ==
    /\ pc = "poll" /\ queueSize > 0 /\ Goto("data")
    /\ UNCHANGED <<ring, written, age, requests, listed>>

DataDone == pc = "data" /\ (~Unsent \/ burst = PerLoop)

\* The time for NACKs, once per rist_max_jitter, has come ...
StartNacks ==
    /\ DataDone /\ Goto("nacks")
    /\ UNCHANGED <<ring, written, age, requests, listed>>

\* ... or not yet.
SkipNacks ==
    /\ DataDone /\ Goto("poll")
    /\ UNCHANGED <<ring, written, age, requests, listed>>

\* The loop ends when there is nothing to do and, by the number of packets or the
\* time it took, after any request.
EndNacks ==
    /\ pc = "nacks" /\ (Yields \/ NoRetries \/ burst = 1) /\ Goto("poll")
    /\ UNCHANGED <<ring, written, age, requests, listed>>

\* A receiver connects or is added: peer_lst_len grows.
AddPeer(p) ==
    /\ pc = "poll" /\ p \notin listed
    /\ listed' = listed \union {p}
    /\ UNCHANGED <<ring, written, age, requests, thread>>

Older(n, top) == IF n < top THEN n + 1 ELSE n

\* A request that has been taken and is too old to compare with is like none.
Aged(e) == IF e.age + 1 >= OldestEntry /\ ~e.active THEN NoEntry
           ELSE [e EXCEPT !.age = Older(@, OldestEntry)]

Tick ==
    /\ pc = "poll"
    /\ age' = [id \in DOMAIN age |-> IF id <= written THEN Older(age[id], OldestPacket) ELSE 0]
    /\ queue' = [k \in Slot |-> IF queue[k] = Null \/ queue[k].asked >= Rtt THEN queue[k]
                                ELSE [queue[k] EXCEPT !.asked = @ + 1]]
    /\ retry' = [i \in RetrySlot |-> Aged(retry[i])]
    /\ UNCHANGED <<writeIdx, readIdx, deleteIdx, queueSize, bufferSize, seqIndex, sent,
                   lapped, written, retryWrite, retryRead, accepted, retryLapped, listed,
                   thread>>

Init ==
    /\ queue = [k \in Slot |-> Null]
    /\ writeIdx = 1 /\ readIdx = 0 /\ deleteIdx = 1
    /\ queueSize = 0 /\ bufferSize = 0
    /\ seqIndex = [s \in 0 .. SeqMod - 1 |-> 0]
    /\ written = 0 /\ age = [id \in 1 .. MaxPackets |-> 0]
    /\ sent = 0 /\ lapped = FALSE
    /\ retry = [i \in RetrySlot |-> NoEntry]
    /\ retryWrite = 1 /\ retryRead = 0 /\ accepted = 0 /\ retryLapped = FALSE
    /\ listed = {CHOOSE p \in Peers : TRUE}
    /\ pc = "poll" /\ burst = 0

\* A plausible bug: a request for a packet that is gone stays where it is.
DequeueMutant == DequeueSkip \/ Resend

Dequeue == DequeueGone \/ DequeueSkip \/ Resend

Next ==
    \/ Write \/ SendData
    \/ \E p \in Peers, s \in 0 .. SeqMod - 1 : Nack(p, s)
    \/ Dequeue
    \/ StartLoop \/ StartNacks \/ SkipNacks \/ EndNacks
    \/ \E p \in Peers : AddPeer(p)
    \/ Tick

Spec == Init /\ [][Next]_vars

\* The protocol thread goes round its loop and the time for NACKs comes again
\* and again; nobody has to write, to ask or to connect.
FairSpec ==
    /\ Spec
    /\ WF_vars(StartLoop) /\ WF_vars(SendData) /\ WF_vars(Dequeue)
    /\ WF_vars(StartNacks \/ SkipNacks) /\ SF_vars(StartNacks)
    /\ WF_vars(EndNacks)

\* Another sender in the same process changes the same buffer_size.
OtherSender ==
    /\ bufferSize' \in {bufferSize - 1, bufferSize + 1} \intersect Slot
    /\ UNCHANGED <<queue, writeIdx, readIdx, deleteIdx, queueSize, seqIndex, sent, lapped,
                   written, age, requests, listed, thread>>

SharedSpec == Init /\ [][Next \/ OtherSender]_vars

----------------------------------------------------------------------------

Occupied == {k \in Slot : queue[k] # Null}
Distance(i, j) == IF i <= j THEN j - i ELSE j - i + Slots
Oldest == Back(Forward(readIdx, 1), bufferSize)

\* Every variable holds a value of its type.
TypeOK ==
    /\ queue \in [Slot -> Packets \union {Null}]
    /\ writeIdx \in Slot /\ readIdx \in Slot /\ deleteIdx \in Slot
    /\ queueSize \in 0 .. Slots + 1 /\ bufferSize \in 0 .. Slots
    /\ seqIndex \in [0 .. SeqMod - 1 -> Slot]
    /\ written \in 0 .. MaxPackets /\ age \in [1 .. MaxPackets -> 0 .. OldestPacket]
    /\ sent \in 0 .. MaxPackets /\ lapped \in BOOLEAN
    /\ retry \in [RetrySlot -> Entries]
    /\ retryWrite \in RetrySlot /\ retryRead \in RetrySlot /\ accepted \in 0 .. MaxRequests
    /\ retryLapped \in BOOLEAN /\ listed \subseteq Peers
    /\ pc \in {"poll", "data", "nacks", "hung"} /\ burst \in 0 .. PerLoop

\* As long as the writer has not gone round the ring, the packets in it are one
\* unbroken run from the oldest one kept to the newest one written, the size
\* counts them, buffer_size counts those that have been sent, and the place
\* deleted last is next to the oldest.
RingInv ==
    ~lapped => /\ queueSize \in 0 .. Slots /\ bufferSize \in 0 .. queueSize
               /\ writeIdx = Forward(Oldest, queueSize)
               /\ \A k \in Slot : queue[k] # Null <=> Distance(Oldest, k) < queueSize
               /\ deleteIdx \in {Oldest, Back(Oldest, 1)}
               /\ pc # "hung"

\* A packet is reported as dropped because the queue is full only when it is.
RefusedOnlyWhenFull == Full => Cardinality(Occupied) >= Slots - 1

\* A packet younger than sender_recover_min_time that has been sent, and whose
\* number has not been used again, is found by its number.
Findable ==
    ~lapped => \A id \in 1 .. sent :
                  id > sent - SeqMod /\ age[id] < MinTime
                      => LET b == queue[seqIndex[SeqOf(id)]] IN b # Null /\ b.id = id

\* The inductive strengthening of Findable: the packets of the run have consecutive
\* numbers up to the last one written, those before them have reached their age, and
\* seq_index points to each packet that was sent and whose number is still its own.
First == written - queueSize + 1
NumberInv ==
    ~lapped => /\ sent = First + bufferSize - 1
               /\ \A k \in Slot : Distance(Oldest, k) < queueSize
                                    => queue[k].id = First + Distance(Oldest, k)
               /\ \A id \in 1 .. written : age[id] < MinTime => id >= First
               /\ \A k \in Slot : /\ Distance(Oldest, k) < bufferSize
                                  /\ queue[k].id > sent - SeqMod
                                  => seqIndex[SeqOf(queue[k].id)] = k

\* A packet marked as queued for retransmission is queued, until the requests lap
\* their ring: a mark without a request would keep it from ever being asked for again.
FlaggedIsPending ==
    \A s \in 0 .. SeqMod - 1 :
        LET b == queue[seqIndex[s]] IN
        ~lapped /\ ~retryLapped /\ b # Null /\ b.flagged
            => \E i \in Pending : retry[i].id = b.id

\* The inductive strengthening of FlaggedIsPending, first part: packet n is sent from
\* the place n steps round the ring, and seq_index keeps that place as long as the
\* packet's number is its own.
PlaceInv ==
    ~lapped => /\ readIdx = sent % Slots
               /\ \A id \in 1 .. sent :
                     id > sent - SeqMod => seqIndex[SeqOf(id)] = id % Slots

\* Second part: each request that waits names a packet whose number is still its own,
\* and each packet that is marked is named by a request that waits.
RequestInv ==
    ~lapped /\ ~retryLapped =>
        /\ \A i \in Pending : /\ retry[i].active
                             /\ retry[i].id \in 1 .. sent
                             /\ retry[i].id > written - SeqMod
                             /\ retry[i].seq = SeqOf(retry[i].id)
        /\ \A k \in Slot : queue[k] # Null /\ queue[k].flagged
                              => \E i \in Pending : retry[i].id = queue[k].id

\* However often a peer asks, no more than two of its requests for one packet wait that
\* the search for an equal one looks at.  It ends at an entry older than SearchPeriod:
\* when requests wait as long as that, older ones for the same packet can pile up.
NoRecentFlood ==
    ~CongestionOff /\ ~lapped => \A p \in Peers, id \in 1 .. sent :
        Cardinality({i \in Pending : /\ retry[i].peer = p /\ retry[i].id = id
                                     /\ retry[i].age <= SearchPeriod}) <= 2

\* Not with one peer, where the packet itself is marked: there it is two, however old.
NoFloodAlone ==
    ~CongestionOff /\ ~lapped /\ Single => \A id \in 1 .. sent :
        Cardinality({i \in Pending : retry[i].id = id}) <= 2

\* Both ways of holding back repeated requests.
NoFlood == NoRecentFlood /\ NoFloodAlone

\* A request that has been accepted is taken up, unless requests lap their ring, the
\* packets are gone or the write index stays round the ring where the masked
\* comparison stops the loop.
Stalled == Yields \/ queueSize = 0 \/ lapped
RequestsHandled ==
    \A i \in RetrySlot : i \in Pending ~> (retryRead = i \/ retryLapped \/ []Stalled)
=============================================================================
