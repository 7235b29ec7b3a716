------------------------- MODULE SenderQueueProofs -------------------------
(***************************************************************************)
(* Theorems about the sender's queue, for every size of its rings.         *)
(***************************************************************************)
EXTENDS SenderQueue, FiniteSetTheorems, TLAPS

USE SenderQueueAssumption

\* Index arithmetic stays in the ring.
LEMMA ForwardType ==
    ASSUME NEW i \in Slot, NEW n \in 0 .. Slots PROVE Forward(i, n) \in Slot
  BY SMT DEF Forward, Slot

LEMMA BackType ==
    ASSUME NEW i \in Slot, NEW n \in 0 .. Slots PROVE Back(i, n) \in Slot
  BY SMT DEF Back, Slot

LEMMA RetryForwardType == ASSUME NEW i \in RetrySlot PROVE RetryForward(i) \in RetrySlot
  BY SMT DEF RetryForward, RetrySlot

LEMMA SeqOfType == ASSUME NEW id \in Nat PROVE SeqOf(id) \in 0 .. SeqMod - 1
  BY SMT DEF SeqOf

\* A packet written is a packet, and what a request changes in it leaves it one.
LEMMA NewPacketType ==
    ASSUME NEW n \in 1 .. MaxPackets PROVE NewPacket(n) \in Packets
  BY SMT DEF NewPacket, Packets, NeverAsked

LEMMA AskedType ==
    ASSUME NEW b \in Packets, NEW f \in BOOLEAN, NEW a \in 0 .. NeverAsked
    PROVE  /\ [b EXCEPT !.flagged = f, !.asked = a] \in Packets
           /\ [b EXCEPT !.asked = a] \in Packets
  BY DEF Packets

LEMMA SentAgainType ==
    ASSUME NEW b \in Packets, NEW n \in {0, 1}, b.count + n <= MaxRetries
    PROVE  [b EXCEPT !.flagged = FALSE, !.count = b.count + n] \in Packets
<1>1. b.count + n \in 0 .. MaxRetries
  BY SMT DEF Packets
<1>2. QED
  BY <1>1 DEF Packets

----------------------------------------------------------------------------

Inv == TypeOK /\ RingInv

LEMMA SlotType == 0 \in Slot /\ 1 \in Slot /\ 0 \in RetrySlot /\ 1 \in RetrySlot
  BY SMT DEF Slot, RetrySlot

LEMMA NoEntryType == NoEntry \in Entries
  BY SMT DEF NoEntry, Entries, OldestEntry, Larger

\* The queue starts empty.
LEMMA InitInv == Init => Inv
<1> SUFFICES ASSUME Init PROVE Inv
  OBVIOUS
<1>1. listed \subseteq Peers
  BY DEF Init
<1>2. queue \in [Slot -> Packets \union {Null}]
  BY DEF Init
<1>3. retry \in [RetrySlot -> Entries] /\ retryWrite \in RetrySlot /\ retryRead \in RetrySlot
  BY NoEntryType, SlotType DEF Init
<1>4. age \in [1 .. MaxPackets -> 0 .. OldestPacket]
  BY SMT DEF OldestPacket, Init
<1>5. seqIndex \in [0 .. SeqMod - 1 -> Slot]
  BY SlotType DEF Init
<1>6. writeIdx \in Slot /\ readIdx \in Slot /\ deleteIdx \in Slot
  BY SlotType DEF Init
<1>7. /\ queueSize = 0 /\ bufferSize = 0 /\ written = 0 /\ sent = 0 /\ lapped = FALSE
      /\ accepted = 0 /\ pc = "poll" /\ burst = 0 /\ retryLapped = FALSE
  BY DEF Init
<1>8. TypeOK
  <2>1. /\ queueSize \in 0 .. Slots + 1 /\ bufferSize \in 0 .. Slots
        /\ written \in 0 .. MaxPackets /\ sent \in 0 .. MaxPackets
        /\ accepted \in 0 .. MaxRequests /\ burst \in 0 .. PerLoop
    BY <1>7, SMT
  <2>2. lapped \in BOOLEAN /\ retryLapped \in BOOLEAN /\ pc \in {"poll", "data", "nacks", "hung"}
    BY <1>7
  <2>3. QED
    BY <1>1, <1>2, <1>3, <1>4, <1>5, <1>6, <2>1, <2>2 DEF TypeOK
<1>9. RingInv
  <2>1. readIdx = 0 /\ writeIdx = 1 /\ deleteIdx = 1 /\ queueSize = 0 /\ bufferSize = 0 /\ pc = "poll"
    BY DEF Init
  <2>2. \A k \in Slot : queue[k] = Null
    BY DEF Init
  <2>3. \A k \in Slot : ~(Distance(Oldest, k) < queueSize)
    BY <2>1, SMT DEF Distance, Oldest, Forward, Back, Slot
  <2>4. Oldest = 1
    BY <2>1, SMT DEF Oldest, Forward, Back
  <2>5. writeIdx = Forward(Oldest, queueSize)
    BY <2>1, <2>4, SMT DEF Forward
  <2>6. QED
    BY <2>1, <2>2, <2>3, <2>4, <2>5, SMT DEF RingInv
<1>10. QED
  BY <1>8, <1>9 DEF Inv

----------------------------------------------------------------------------
\* What the steps of the two threads do to the run of packets in the ring, as
\* arithmetic: o is the oldest place, n the number of packets, b how many have
\* been sent, r the place sent last.

LEMMA RunStart ==
    ASSUME NEW r \in Slot, NEW b \in 0 .. Slots
    PROVE  Back(Forward(r, 1), b) \in Slot /\ Forward(r, 1) \in Slot
  BY SMT DEF Slot, Forward, Back

\* The slot the writer is to fill is the first one after the run.
LEMMA AfterRun ==
    ASSUME NEW o \in Slot, NEW n \in 0 .. Slots
    PROVE  /\ n < Slots => Distance(o, Forward(o, n)) = n
           /\ n = Slots => Forward(o, n) = o
           /\ n < Slots => Forward(Forward(o, n), 1) = Forward(o, n + 1)
           /\ n < Slots => \A k \in Slot : Distance(o, k) < n + 1
                                           <=> Distance(o, k) < n \/ k = Forward(o, n)
  BY SMT DEF Slot, Forward, Distance

\* Sending: the place to look at is the oldest one, and it stays the oldest when
\* the buffer grows.
LEMMA Growing ==
    ASSUME NEW r \in Slot, NEW b \in 0 .. Slots - 1
    PROVE  Back(Forward(Forward(r, 1), 1), b + 1) = Back(Forward(r, 1), b)
  BY SMT DEF Slot, Forward, Back

\* It moves on by one when the oldest is deleted, by two when the buffer shrinks too.
LEMMA Moving ==
    ASSUME NEW r \in Slot, NEW b \in 0 .. Slots - 1
    PROVE  /\ Back(Forward(Forward(r, 1), 1), b) = Forward(Back(Forward(r, 1), b), 1)
           /\ b > 0 => Back(Forward(Forward(r, 1), 1), b - 1)
                        = Forward(Forward(Back(Forward(r, 1), b), 1), 1)
  BY SMT DEF Slot, Forward, Back

\* The run without its first place.
LEMMA WithoutFirst ==
    ASSUME NEW o \in Slot, NEW n \in 1 .. Slots
    PROVE  /\ Forward(o, 1) \in Slot /\ Back(Forward(o, 1), 1) = o
           /\ Forward(Forward(o, 1), n - 1) = Forward(o, n)
           /\ Distance(o, o) = 0
           /\ \A k \in Slot : Distance(Forward(o, 1), k) < n - 1
                              <=> Distance(o, k) < n /\ k # o
  BY SMT DEF Slot, Forward, Back, Distance

----------------------------------------------------------------------------

\* The writer fills the place after the run, or laps.
LEMMA WriteRing == TypeOK /\ RingInv /\ Write => RingInv'
<1> SUFFICES ASSUME TypeOK, RingInv, Write, ~lapped' PROVE RingInv'
  BY DEF RingInv
<1>1. /\ ~lapped /\ queue[writeIdx] = Null
      /\ queue' = [queue EXCEPT ![writeIdx] = NewPacket(written + 1)]
      /\ queueSize' = queueSize + 1 /\ writeIdx' = Forward(writeIdx, 1)
      /\ UNCHANGED <<readIdx, deleteIdx, bufferSize>> /\ pc' = pc
  BY DEF Write, thread
<1>2. /\ queueSize \in 0 .. Slots /\ bufferSize \in 0 .. queueSize
      /\ writeIdx = Forward(Oldest, queueSize)
      /\ \A k \in Slot : queue[k] # Null <=> Distance(Oldest, k) < queueSize
      /\ deleteIdx \in {Oldest, Back(Oldest, 1)} /\ pc # "hung"
  BY <1>1 DEF RingInv
<1>3. Oldest \in Slot /\ writeIdx \in Slot /\ queue \in [Slot -> Packets \union {Null}]
  BY RunStart DEF Oldest, TypeOK
<1>4. Oldest' = Oldest
  BY <1>1 DEF Oldest
<1>5. queueSize < Slots
  <2>1. queueSize = Slots => Distance(Oldest, writeIdx) < queueSize
    BY <1>2, <1>3, AfterRun, SMT DEF Distance, Slot
  <2>2. QED
    BY <1>1, <1>2, <1>3, <2>1, SMT
<1>6. NewPacket(written + 1) # Null
  <2>1. written + 1 \in 1 .. MaxPackets
    BY SMT DEF Write, TypeOK
  <2>2. QED
    BY <2>1, NewPacketType
<1>7. \A k \in Slot : queue'[k] # Null <=> queue[k] # Null \/ k = writeIdx
  BY <1>1, <1>3, <1>6
<1>8. \A k \in Slot : queue'[k] # Null <=> Distance(Oldest, k) < queueSize + 1
  BY <1>2, <1>3, <1>5, <1>7, AfterRun, SMT
<1>9. writeIdx' = Forward(Oldest, queueSize + 1)
  BY <1>1, <1>2, <1>3, <1>5, AfterRun
<1>10. queueSize' \in 0 .. Slots /\ bufferSize' \in 0 .. queueSize'
  BY <1>1, <1>2, <1>5, SMT
<1>11. QED
  BY <1>1, <1>2, <1>4, <1>8, <1>9, <1>10 DEF RingInv

\* A place whose packet is taken out leaves the run one shorter.
LEMMA EmptiedRun ==
    ASSUME NEW q \in [Slot -> Packets \union {Null}], NEW o \in Slot, NEW n \in 1 .. Slots,
           \A k \in Slot : q[k] # Null <=> Distance(o, k) < n
    PROVE  \A k \in Slot : Emptied(q, o)[k] # Null <=> Distance(Forward(o, 1), k) < n - 1
<1>1. \A k \in Slot : Emptied(q, o)[k] # Null <=> q[k] # Null /\ k # o
  BY DEF Emptied
<1>2. QED
  BY <1>1, WithoutFirst

\* Where a sending step looks: at a place that holds a packet, the oldest one.
LEMMA OldestIsThere ==
    ASSUME TypeOK, RingInv, SendData
    PROVE  LET idx == Forward(readIdx, 1)
               o == Back(idx, bufferSize)
           IN  /\ ~lapped /\ lapped' = lapped /\ writeIdx' = writeIdx /\ readIdx' = idx
               /\ queueSize \in 1 .. Slots /\ bufferSize \in 0 .. queueSize - 1
               /\ writeIdx = Forward(o, queueSize)
               /\ \A k \in Slot : queue[k] # Null <=> Distance(o, k) < queueSize
               /\ readIdx \in Slot /\ idx \in Slot /\ o \in Slot
               /\ queue \in [Slot -> Packets \union {Null}]
               /\ queue[idx] # Null
               /\ Grow(o) \/ Delete(o) \/ Shrink(o)
<1> DEFINE idx == Forward(readIdx, 1)
           o == Back(idx, bufferSize)
<1>1. /\ ~lapped /\ lapped' = lapped /\ writeIdx' = writeIdx /\ readIdx' = idx /\ idx # writeIdx
  BY DEF SendData, Unsent
<1>2. /\ queueSize \in 0 .. Slots /\ bufferSize \in 0 .. queueSize
      /\ writeIdx = Forward(o, queueSize)
      /\ \A k \in Slot : queue[k] # Null <=> Distance(o, k) < queueSize
      /\ pc # "hung"
  BY <1>1 DEF RingInv, Oldest
<1>3. readIdx \in Slot /\ queue \in [Slot -> Packets \union {Null}]
  BY DEF TypeOK
<1>4. o \in Slot /\ idx \in Slot
  BY <1>2, <1>3, RunStart
<1>5. bufferSize < queueSize /\ queueSize \in 1 .. Slots
  <2>1. idx = Forward(o, bufferSize)
    BY <1>2, <1>3, SMT DEF Forward, Back, Slot
  <2>2. bufferSize # queueSize
    BY <1>1, <1>2, <2>1
  <2>3. QED
    BY <1>2, <2>2, SMT
<1>6. Distance(o, idx) < queueSize /\ Distance(o, o) < queueSize
  BY <1>2, <1>3, <1>5, SMT DEF Forward, Back, Slot, Distance
<1>7. queue[idx] # Null /\ queue[o] # Null
  BY <1>2, <1>4, <1>6
<1>8. Grow(o) \/ Delete(o) \/ Shrink(o)
  BY <1>7 DEF SendData, Trim
<1>9. bufferSize \in 0 .. queueSize - 1
  BY <1>2, <1>5, SMT
<1>10. QED
  BY <1>1, <1>2, <1>3, <1>4, <1>5, <1>7, <1>8, <1>9

\* Sending a packet keeps the run: the place looked at is the oldest one, and it
\* stays, goes, or goes with the next.
LEMMA SendRing == TypeOK /\ RingInv /\ SendData => RingInv'
<1> SUFFICES ASSUME TypeOK, RingInv, SendData PROVE RingInv'
  OBVIOUS
<1> DEFINE idx == Forward(readIdx, 1)
           o == Back(idx, bufferSize)
<1>1. /\ ~lapped /\ lapped' = lapped /\ writeIdx' = writeIdx /\ readIdx' = idx
      /\ Grow(o) \/ Delete(o) \/ Shrink(o)
  BY OldestIsThere
<1>2. /\ queueSize \in 1 .. Slots /\ bufferSize \in 0 .. queueSize - 1
      /\ writeIdx = Forward(o, queueSize)
      /\ \A k \in Slot : queue[k] # Null <=> Distance(o, k) < queueSize
  BY OldestIsThere
<1>3. readIdx \in Slot /\ queue \in [Slot -> Packets \union {Null}] /\ pc # "hung"
  BY <1>1, OldestIsThere DEF RingInv
<1>4. o \in Slot /\ idx \in Slot
  BY OldestIsThere
<1>5. bufferSize \in 0 .. Slots - 1 /\ bufferSize < queueSize
  BY <1>2, SMT
<1>9. CASE Grow(o)
  <2>1. /\ deleteIdx' = o /\ bufferSize' = bufferSize + 1 /\ queue' = queue
        /\ queueSize' = queueSize /\ pc' = pc
    BY <1>9 DEF Grow
  <2>2. Oldest' = o
    BY <1>1, <1>2, <1>3, <1>5, <2>1, Growing, SMT DEF Oldest
  <2>3. bufferSize' \in 0 .. queueSize'
    BY <1>2, <1>5, <2>1, SMT
  <2>4. QED
    BY <1>1, <1>2, <2>1, <2>2, <2>3 DEF RingInv
<1>10. CASE Delete(o)
  <2>1. /\ deleteIdx' = o /\ queue' = Emptied(queue, o) /\ queueSize' = queueSize - 1
        /\ bufferSize' = bufferSize /\ pc' = pc
    BY <1>10 DEF Delete
  <2>2. Oldest' = Forward(o, 1)
    BY <1>1, <1>2, <1>3, <1>5, <2>1, Moving, SMT DEF Oldest
  <2>3. queueSize' \in 0 .. Slots /\ bufferSize' \in 0 .. queueSize'
    BY <1>2, <1>5, <2>1, SMT
  <2>4. \A k \in Slot : queue'[k] # Null <=> Distance(Oldest', k) < queueSize'
    BY <1>2, <1>3, <1>4, <1>5, <2>1, <2>2, EmptiedRun
  <2>5. writeIdx' = Forward(Oldest', queueSize') /\ deleteIdx' \in {Oldest', Back(Oldest', 1)}
    BY <1>1, <1>2, <1>4, <1>5, <2>1, <2>2, WithoutFirst
  <2>6. QED
    BY <1>1, <1>2, <2>1, <2>3, <2>4, <2>5 DEF RingInv
<1>11. CASE Shrink(o)
  <2> DEFINE e == Forward(o, 1)
  <2>1. bufferSize > 0 /\ queueSize \in 2 .. Slots
    BY <1>2, <1>5, <1>11, SMT DEF Shrink
  <2>2. e \in Slot /\ Distance(o, e) < queueSize
    BY <1>4, <2>1, SMT DEF Slot, Forward, Distance
  <2>3. queue[e] # Null
    BY <1>2, <2>2
  <2>4. /\ deleteIdx' = e /\ pc' = pc
        /\ \/ /\ queue' = Emptied(queue, o) /\ queueSize' = queueSize - 1
              /\ bufferSize' = bufferSize
           \/ /\ queue' = Emptied(Emptied(queue, o), e) /\ queueSize' = queueSize - 2
              /\ bufferSize' = bufferSize - 1
    <3>1. queueSize # 1
      BY <2>1, SMT
    <3>2. QED
      BY <1>11, <2>3, <3>1 DEF Shrink
  <2>5. CASE /\ queue' = Emptied(queue, o) /\ queueSize' = queueSize - 1
             /\ bufferSize' = bufferSize
    <3>1. Oldest' = e
      BY <1>1, <1>2, <1>3, <1>5, <2>5, Moving, SMT DEF Oldest
    <3>2. queueSize' \in 0 .. Slots /\ bufferSize' \in 0 .. queueSize'
      BY <1>2, <1>5, <2>5, SMT
    <3>3. \A k \in Slot : queue'[k] # Null <=> Distance(Oldest', k) < queueSize'
      BY <1>2, <1>3, <1>4, <1>5, <2>5, <3>1, EmptiedRun
    <3>4. writeIdx' = Forward(Oldest', queueSize')
      BY <1>1, <1>2, <1>4, <1>5, <2>5, <3>1, WithoutFirst
    <3>5. QED
      BY <1>1, <1>2, <2>4, <3>1, <3>2, <3>3, <3>4 DEF RingInv
  <2>6. CASE /\ queue' = Emptied(Emptied(queue, o), e) /\ queueSize' = queueSize - 2
             /\ bufferSize' = bufferSize - 1
    <3>1. Oldest' = Forward(e, 1)
      BY <1>1, <1>2, <1>3, <1>5, <2>1, <2>6, Moving, SMT DEF Oldest
    <3>2. queueSize' \in 0 .. Slots /\ bufferSize' \in 0 .. queueSize'
      BY <1>2, <1>5, <2>1, <2>6, SMT
    <3>3. /\ Emptied(queue, o) \in [Slot -> Packets \union {Null}]
          /\ \A k \in Slot : Emptied(queue, o)[k] # Null <=> Distance(e, k) < queueSize - 1
      <4>1. Emptied(queue, o) \in [Slot -> Packets \union {Null}]
        BY <1>3 DEF Emptied
      <4>2. QED
        BY <1>2, <1>3, <1>4, <1>5, <4>1, EmptiedRun
    <3>4. queueSize - 1 \in 1 .. Slots /\ (queueSize - 1) - 1 = queueSize - 2
      BY <2>1, SMT
    <3>5. \A k \in Slot : queue'[k] # Null <=> Distance(Oldest', k) < queueSize'
      <4> HIDE DEF e, o
      <4>1. \A k \in Slot : Emptied(Emptied(queue, o), e)[k] # Null
                               <=> Distance(Forward(e, 1), k) < (queueSize - 1) - 1
        BY <2>2, <3>3, <3>4, EmptiedRun
      <4>2. QED
        BY <2>6, <3>1, <3>4, <4>1
    <3>6. writeIdx' = Forward(Oldest', queueSize') /\ deleteIdx' \in {Oldest', Back(Oldest', 1)}
      <4> HIDE DEF e, o
      <4>1. Forward(Forward(e, 1), (queueSize - 1) - 1) = Forward(e, queueSize - 1)
        BY <2>2, <3>4, WithoutFirst
      <4>2. Forward(e, queueSize - 1) = Forward(o, queueSize)
        BY <1>2, <1>4, WithoutFirst DEF e
      <4>3. Back(Forward(e, 1), 1) = e
        BY <2>2, <3>4, WithoutFirst
      <4>4. QED
        BY <1>1, <1>2, <2>4, <2>6, <3>1, <3>4, <4>1, <4>2, <4>3
    <3>7. QED
      BY <1>1, <1>2, <2>4, <3>2, <3>5, <3>6 DEF RingInv
  <2>7. QED
    BY <2>4, <2>5, <2>6
<1>12. QED
  BY <1>1, <1>9, <1>10, <1>11
----------------------------------------------------------------------------
\* Types.

LEMMA WriteType == TypeOK /\ RingInv /\ Write => TypeOK'
<1> SUFFICES ASSUME TypeOK, RingInv, Write PROVE TypeOK'
  OBVIOUS
<1>1. /\ ~lapped /\ written < MaxPackets
      /\ lapped' = (queue[writeIdx] # Null)
      /\ queue' = [queue EXCEPT ![writeIdx] = NewPacket(written + 1)]
      /\ written' = written + 1 /\ age' = [age EXCEPT ![written + 1] = 0]
      /\ queueSize' = queueSize + 1 /\ writeIdx' = Forward(writeIdx, 1)
  BY DEF Write
<1>2. UNCHANGED <<readIdx, deleteIdx, bufferSize, seqIndex, sent, requests, listed, thread>>
  BY DEF Write
<1>3. /\ writeIdx \in Slot /\ queue \in [Slot -> Packets \union {Null}]
      /\ age \in [1 .. MaxPackets -> 0 .. OldestPacket] /\ written \in 0 .. MaxPackets
  BY DEF TypeOK
<1>4. written + 1 \in 1 .. MaxPackets
  BY <1>1, <1>3, SMT
<1>5. queue' \in [Slot -> Packets \union {Null}]
  BY <1>1, <1>3, <1>4, NewPacketType
<1>6. writeIdx' \in Slot
  BY <1>1, <1>3, ForwardType, SMT
<1>7. age' \in [1 .. MaxPackets -> 0 .. OldestPacket]
  BY <1>1, <1>3, SMT DEF OldestPacket
<1>8. queueSize' \in 0 .. Slots + 1 /\ written' \in 0 .. MaxPackets /\ lapped' \in BOOLEAN
  <2>1. queueSize \in 0 .. Slots
    BY <1>1 DEF RingInv
  <2>2. QED
    BY <1>1, <1>4, <2>1, SMT
<1>9. QED
  BY <1>2, <1>5, <1>6, <1>7, <1>8 DEF TypeOK, requests, thread

LEMMA EmptiedType ==
    ASSUME NEW q \in [Slot -> Packets \union {Null}], NEW d \in Slot
    PROVE  Emptied(q, d) \in [Slot -> Packets \union {Null}]
  BY DEF Emptied

LEMMA TrimType ==
    ASSUME TypeOK, RingInv, ~lapped, NEW d \in Slot, bufferSize < queueSize,
           Grow(d) \/ Delete(d) \/ Shrink(d)
    PROVE  /\ queue' \in [Slot -> Packets \union {Null}] /\ deleteIdx' \in Slot
           /\ queueSize' \in 0 .. Slots + 1 /\ bufferSize' \in 0 .. Slots
           /\ pc' \in {"poll", "data", "nacks", "hung"}
<1>1. /\ queueSize \in 0 .. Slots /\ bufferSize \in 0 .. queueSize
      /\ queue \in [Slot -> Packets \union {Null}]
      /\ pc \in {"poll", "data", "nacks", "hung"}
  BY DEF RingInv, TypeOK
<1>2. CASE Grow(d)
  <2>1. queue' = queue /\ deleteIdx' = d /\ queueSize' = queueSize /\ bufferSize' = bufferSize + 1
        /\ pc' = pc
    BY <1>2 DEF Grow
  <2>2. QED
    BY <1>1, <2>1, SMT
<1>3. CASE Delete(d)
  <2>1. queue' = Emptied(queue, d) /\ deleteIdx' = d /\ queueSize' = queueSize - 1
        /\ bufferSize' = bufferSize /\ pc' = pc
    BY <1>3 DEF Delete
  <2>2. queueSize' \in 0 .. Slots + 1 /\ bufferSize' \in 0 .. Slots
    BY <1>1, <2>1, SMT
  <2>3. QED
    BY <1>1, <2>1, <2>2, EmptiedType
<1>4. CASE Shrink(d)
  <2> DEFINE e == Forward(d, 1)
  <2>1. e \in Slot
    BY ForwardType, SMT
  <2>2. /\ deleteIdx' \in {d, e}
        /\ queue' \in {Emptied(queue, d), Emptied(Emptied(queue, d), e)}
        /\ pc' \in {pc, "hung"} /\ bufferSize' \in {bufferSize, bufferSize - 1}
        /\ \/ queueSize' = 0 \/ queueSize' = queueSize - 1
           \/ queueSize # 1 /\ queueSize' = queueSize - 2
    BY <1>4 DEF Shrink
  <2>3. bufferSize > 0
    BY <1>4 DEF Shrink
  <2>4. queueSize' \in 0 .. Slots + 1 /\ bufferSize' \in 0 .. Slots
    BY <1>1, <2>2, <2>3, SMT
  <2>5. QED
    BY <1>1, <2>1, <2>2, <2>4, EmptiedType
<1>5. QED
  BY <1>2, <1>3, <1>4

LEMMA SendType == TypeOK /\ RingInv /\ SendData => TypeOK'
<1> SUFFICES ASSUME TypeOK, RingInv, SendData PROVE TypeOK'
  OBVIOUS
<1> DEFINE idx == Forward(readIdx, 1)
           o == Back(idx, bufferSize)
<1>1. /\ ~lapped /\ burst < PerLoop /\ burst' = burst + 1 /\ readIdx' = idx
      /\ UNCHANGED <<writeIdx, lapped, written, age, requests, listed>>
  BY OldestIsThere DEF SendData
<1>3. /\ queue \in [Slot -> Packets \union {Null}] /\ burst \in 0 .. PerLoop
      /\ seqIndex \in [0 .. SeqMod - 1 -> Slot]
  BY DEF TypeOK
<1>4. o \in Slot /\ idx \in Slot
  BY OldestIsThere
<1>5. bufferSize < queueSize
  <2>1. queueSize \in 1 .. Slots /\ bufferSize \in 0 .. queueSize - 1
    BY OldestIsThere
  <2>2. QED
    BY <2>1, SMT
<1>7. queue[idx] # Null
  BY OldestIsThere
<1>8. /\ Grow(o) \/ Delete(o) \/ Shrink(o)
      /\ sent' = queue[idx].id
      /\ seqIndex' = [seqIndex EXCEPT ![SeqOf(queue[idx].id)] = idx]
  BY <1>7, OldestIsThere DEF SendData
<1>9. sent' \in 0 .. MaxPackets
  <2>1. queue[idx] \in Packets
    BY <1>3, <1>4, <1>7
  <2>2. queue[idx].id \in 1 .. MaxPackets
    BY <2>1 DEF Packets
  <2>3. QED
    BY <1>8, <2>2, SMT
<1>10. seqIndex' \in [0 .. SeqMod - 1 -> Slot]
  BY <1>3, <1>4, <1>8
<1>11. burst' \in 0 .. PerLoop
  BY <1>1, <1>3, SMT
<1>12. /\ queue' \in [Slot -> Packets \union {Null}] /\ deleteIdx' \in Slot
       /\ queueSize' \in 0 .. Slots + 1 /\ bufferSize' \in 0 .. Slots
       /\ pc' \in {"poll", "data", "nacks", "hung"}
  BY <1>1, <1>4, <1>5, <1>8, TrimType
<1>13. QED
  BY <1>1, <1>4, <1>9, <1>10, <1>11, <1>12 DEF TypeOK, requests
\* A request changes a packet that is there, and adds an entry.
LEMMA NackKeeps ==
    ASSUME TypeOK, RingInv, NEW p \in Peers, NEW s \in 0 .. SeqMod - 1, Nack(p, s)
    PROVE  TypeOK' /\ RingInv'
<1> DEFINE k == seqIndex[s]
           b == queue[k]
           c == [b EXCEPT !.flagged = Flags(b), !.asked = 0]
<1>1. /\ b # Null /\ queue' = [queue EXCEPT ![k] = c]
      /\ retry' = [retry EXCEPT ![retryWrite] =
                     [seq |-> s, id |-> b.id, peer |-> p, age |-> 0, active |-> TRUE]]
      /\ retryWrite' = RetryForward(retryWrite) /\ accepted' = accepted + 1
      /\ accepted < MaxRequests /\ retryLapped' = (retryWrite = retryRead)
      /\ UNCHANGED <<writeIdx, readIdx, deleteIdx, queueSize, bufferSize, seqIndex, sent,
                     lapped, written, age, retryRead, listed, thread>>
  BY DEF Nack
<1>2. /\ queue \in [Slot -> Packets \union {Null}] /\ k \in Slot
      /\ retry \in [RetrySlot -> Entries] /\ retryWrite \in RetrySlot
      /\ accepted \in 0 .. MaxRequests
  BY DEF TypeOK
<1>3. b \in Packets /\ b.id \in 1 .. MaxPackets /\ b.flagged \in BOOLEAN
  BY <1>1, <1>2 DEF Packets
<1>4. c \in Packets
  <2>1. Flags(b) \in BOOLEAN
    BY <1>3 DEF Flags
  <2>2. 0 \in 0 .. NeverAsked
    BY SMT DEF NeverAsked
  <2>3. QED
    BY <1>3, <2>1, <2>2, AskedType
<1>5. queue' \in [Slot -> Packets \union {Null}] /\ \A j \in Slot : queue'[j] # Null <=> queue[j] # Null
  BY <1>1, <1>2, <1>4
<1>6. retry' \in [RetrySlot -> Entries]
  <2>1. 0 \in 0 .. OldestEntry /\ b.id \in 0 .. MaxPackets
    BY <1>3, SMT DEF OldestEntry, Larger
  <2>2. [seq |-> s, id |-> b.id, peer |-> p, age |-> 0, active |-> TRUE] \in Entries
    BY <2>1 DEF Entries
  <2>3. QED
    BY <1>1, <1>2, <2>2
<1>7. retryWrite' \in RetrySlot /\ accepted' \in 0 .. MaxRequests
  <2>1. accepted' \in 0 .. MaxRequests
    BY <1>1, <1>2, SMT
  <2>2. QED
    BY <1>1, <1>2, <2>1, RetryForwardType
<1>8. TypeOK'
  BY <1>1, <1>5, <1>6, <1>7 DEF TypeOK, thread
<1>9. RingInv'
  <2>1. Oldest' = Oldest /\ pc' = pc
    BY <1>1 DEF Oldest, thread
  <2>2. QED
    BY <1>1, <1>5, <2>1 DEF RingInv
<1>10. QED
  BY <1>8, <1>9

\* Taking a request does not take the packet.
LEMMA DequeueKeeps == TypeOK /\ RingInv /\ Dequeue => TypeOK' /\ RingInv'
<1> SUFFICES ASSUME TypeOK, RingInv, Dequeue PROVE TypeOK' /\ RingInv'
  OBVIOUS
<1>1. Take
  BY DEF Dequeue, DequeueGone, DequeueSkip, Resend
<1>2. /\ burst' = 1 /\ retryRead' = NextRetry /\ pc' = pc
      /\ UNCHANGED <<writeIdx, readIdx, deleteIdx, queueSize, bufferSize, seqIndex, sent,
                     lapped, written, age, retryWrite, accepted, retryLapped, listed>>
  BY <1>1 DEF Take
<1>3. /\ queue \in [Slot -> Packets \union {Null}] /\ seqIndex \in [0 .. SeqMod - 1 -> Slot]
      /\ retry \in [RetrySlot -> Entries] /\ retryRead \in RetrySlot
  BY DEF TypeOK
<1>4. retryRead' \in RetrySlot /\ burst' \in 0 .. PerLoop
  <2>1. 1 \in 0 .. PerLoop
    BY SMT
  <2>2. QED
    BY <1>2, <1>3, <2>1, RetryForwardType DEF NextRetry
<1>5. /\ queue' \in [Slot -> Packets \union {Null}]
      /\ \A j \in Slot : queue'[j] # Null <=> queue[j] # Null
      /\ retry' \in [RetrySlot -> Entries]
  <2>1. CASE DequeueGone
    BY <1>3, <2>1 DEF DequeueGone
  <2>2. ASSUME NEW n \in {0, 1}, Available, Consume(n),
               n = 1 => queue[TakenSlot].count < MaxRetries
        PROVE  /\ queue' \in [Slot -> Packets \union {Null}]
               /\ \A j \in Slot : queue'[j] # Null <=> queue[j] # Null
               /\ retry' \in [RetrySlot -> Entries]
    <3> DEFINE b == queue[TakenSlot]
    <3>1. NextRetry \in RetrySlot
      BY <1>3, RetryForwardType DEF NextRetry
    <3>2. Taken \in Entries /\ Taken.seq \in 0 .. SeqMod - 1
      BY <1>3, <3>1 DEF Taken, Entries
    <3>3. TakenSlot \in Slot
      BY <1>3, <3>2 DEF TakenSlot
    <3>4. b \in Packets /\ b.count \in 0 .. MaxRetries
      BY <1>3, <2>2, <3>3 DEF Available, Packets
    <3>5. b.count + n <= MaxRetries
      BY <2>2, <3>4, SMT
    <3>6. [b EXCEPT !.flagged = FALSE, !.count = b.count + n] \in Packets
      BY <3>4, <3>5, SentAgainType
    <3>7. queue' = [queue EXCEPT ![TakenSlot] = [b EXCEPT !.flagged = FALSE, !.count = b.count + n]]
      BY <2>2 DEF Consume
    <3>8. retry' = [retry EXCEPT ![NextRetry] = [Taken EXCEPT !.active = FALSE]]
      BY <2>2 DEF Consume, Taken
    <3>9. [Taken EXCEPT !.active = FALSE] \in Entries
      BY <3>2 DEF Entries
    <3>10. retry' \in [RetrySlot -> Entries]
      BY <1>3, <3>1, <3>8, <3>9
    <3>11. QED
      <4> HIDE DEF b
      <4>1. queue[TakenSlot] # Null
        BY <2>2 DEF Available
      <4>2. QED
        BY <1>3, <3>3, <3>6, <3>7, <3>10, <4>1
  <2>3. CASE DequeueSkip
    BY <2>2, <2>3 DEF DequeueSkip
  <2>4. CASE Resend
    BY <2>2, <2>4 DEF Resend
  <2>5. QED
    BY <2>1, <2>3, <2>4 DEF Dequeue
<1>6. TypeOK'
  BY <1>2, <1>4, <1>5 DEF TypeOK
<1>7. RingInv'
  <2>1. Oldest' = Oldest
    BY <1>2 DEF Oldest
  <2>2. QED
    BY <1>2, <1>5, <2>1 DEF RingInv
<1>8. QED
  BY <1>6, <1>7
\* The steps of the loop between packets and requests, a receiver that connects,
\* and a step that changes nothing.
Loop == StartLoop \/ StartNacks \/ SkipNacks \/ EndNacks

LEMMA LoopKeeps == TypeOK /\ RingInv /\ Loop => TypeOK' /\ RingInv'
<1> SUFFICES ASSUME TypeOK, RingInv, Loop PROVE TypeOK' /\ RingInv'
  OBVIOUS
<1>1. /\ UNCHANGED <<ring, written, age, requests, listed>>
      /\ pc' \in {"poll", "data", "nacks"} /\ burst' = 0
  BY DEF Loop, StartLoop, StartNacks, SkipNacks, EndNacks, Goto
<1>2. burst' \in 0 .. PerLoop
  BY <1>1, SMT
<1>3. Oldest' = Oldest
  BY <1>1 DEF Oldest, ring
<1>4. TypeOK'
  BY <1>1, <1>2 DEF TypeOK, ring, requests
<1>5. RingInv'
  BY <1>1, <1>3 DEF RingInv, ring
<1>6. QED
  BY <1>4, <1>5

LEMMA StillKeeps ==
    TypeOK /\ RingInv /\ ((\E p \in Peers : AddPeer(p)) \/ UNCHANGED vars) => TypeOK' /\ RingInv'
<1> SUFFICES ASSUME TypeOK, RingInv, (\E p \in Peers : AddPeer(p)) \/ UNCHANGED vars
             PROVE  TypeOK' /\ RingInv'
  OBVIOUS
<1>1. UNCHANGED <<ring, written, age, requests, thread>> /\ listed' \subseteq Peers
  BY DEF AddPeer, vars, TypeOK
<1>2. Oldest' = Oldest
  BY <1>1 DEF Oldest, ring
<1>3. TypeOK'
  BY <1>1 DEF TypeOK, ring, requests, thread
<1>4. RingInv'
  BY <1>1, <1>2 DEF RingInv, ring, thread
<1>5. QED
  BY <1>3, <1>4

LEMMA OlderType ==
    ASSUME NEW top \in Nat, NEW n \in 0 .. top PROVE Older(n, top) \in 0 .. top
  BY SMT DEF Older

LEMMA AgedType == ASSUME NEW e \in Entries PROVE Aged(e) \in Entries
<1>1. OldestEntry \in Nat /\ e.age \in 0 .. OldestEntry
  <2>1. e.age \in 0 .. OldestEntry
    BY DEF Entries
  <2>2. OldestEntry \in Nat
    BY SMT DEF OldestEntry, Larger
  <2>3. QED
    BY <2>1, <2>2
<1>2. Older(e.age, OldestEntry) \in 0 .. OldestEntry
  BY <1>1, OlderType
<1>3. [e EXCEPT !.age = Older(@, OldestEntry)] \in Entries
  BY <1>2 DEF Entries
<1>4. QED
  BY <1>3, NoEntryType DEF Aged

\* Time passes: everything gets older and nothing else.
LEMMA TickKeeps == TypeOK /\ RingInv /\ Tick => TypeOK' /\ RingInv'
<1> SUFFICES ASSUME TypeOK, RingInv, Tick PROVE TypeOK' /\ RingInv'
  OBVIOUS
<1>1. /\ age' = [id \in DOMAIN age |-> IF id <= written THEN Older(age[id], OldestPacket) ELSE 0]
      /\ queue' = [k \in Slot |-> IF queue[k] = Null \/ queue[k].asked >= Rtt THEN queue[k]
                                  ELSE [queue[k] EXCEPT !.asked = @ + 1]]
      /\ retry' = [i \in RetrySlot |-> Aged(retry[i])]
      /\ UNCHANGED <<writeIdx, readIdx, deleteIdx, queueSize, bufferSize, seqIndex, sent,
                     lapped, written, retryWrite, retryRead, accepted, retryLapped, listed,
                     thread>>
  BY DEF Tick
<1>2. age' \in [1 .. MaxPackets -> 0 .. OldestPacket]
  <2>1. OldestPacket \in Nat /\ 0 \in 0 .. OldestPacket
    BY SMT DEF OldestPacket
  <2>2. age \in [1 .. MaxPackets -> 0 .. OldestPacket]
    BY DEF TypeOK
  <2>3. QED
    BY <1>1, <2>1, <2>2, OlderType
<1>3. retry' \in [RetrySlot -> Entries]
  <2>1. retry \in [RetrySlot -> Entries]
    BY DEF TypeOK
  <2>2. QED
    BY <1>1, <2>1, AgedType
<1>4. \A k \in Slot : /\ queue'[k] \in Packets \union {Null}
                      /\ queue'[k] # Null <=> queue[k] # Null
  <2> SUFFICES ASSUME NEW k \in Slot
               PROVE  /\ queue'[k] \in Packets \union {Null}
                      /\ queue'[k] # Null <=> queue[k] # Null
    OBVIOUS
  <2>1. queue[k] \in Packets \union {Null}
    BY DEF TypeOK
  <2>2. CASE queue[k] = Null \/ queue[k].asked >= Rtt
    BY <1>1, <2>1, <2>2
  <2>3. CASE queue[k] # Null /\ ~(queue[k].asked >= Rtt)
    <3>1. queue[k] \in Packets /\ queue[k].asked \in 0 .. NeverAsked
      BY <2>1, <2>3 DEF Packets
    <3>2. queue[k].asked + 1 \in 0 .. NeverAsked
      BY <2>3, <3>1, SMT DEF NeverAsked
    <3>3. [queue[k] EXCEPT !.asked = queue[k].asked + 1] \in Packets
      BY <3>1, <3>2, AskedType
    <3>4. queue'[k] = [queue[k] EXCEPT !.asked = queue[k].asked + 1]
      BY <1>1, <2>3
    <3>5. QED
      BY <2>3, <3>3, <3>4
  <2>4. QED
    BY <2>2, <2>3
<1>5. queue' \in [Slot -> Packets \union {Null}]
  BY <1>1, <1>4
<1>6. Oldest' = Oldest
  BY <1>1 DEF Oldest
<1>7. TypeOK'
  BY <1>1, <1>2, <1>3, <1>5 DEF TypeOK, thread
<1>8. RingInv'
  BY <1>1, <1>4, <1>6 DEF RingInv, thread
<1>9. QED
  BY <1>7, <1>8

\* No step breaks the run in the ring.
LEMMA NextInv == Inv /\ [Next]_vars => Inv'
<1> SUFFICES ASSUME TypeOK, RingInv, [Next]_vars PROVE TypeOK' /\ RingInv'
  BY DEF Inv
<1>1. CASE Write
  BY <1>1, WriteType, WriteRing
<1>2. CASE SendData
  BY <1>2, SendType, SendRing
<1>3. CASE \E p \in Peers, s \in 0 .. SeqMod - 1 : Nack(p, s)
  BY <1>3, NackKeeps
<1>4. CASE Dequeue
  BY <1>4, DequeueKeeps
<1>5. CASE Loop
  BY <1>5, LoopKeeps
<1>6. CASE Tick
  BY <1>6, TickKeeps
<1>7. CASE (\E p \in Peers : AddPeer(p)) \/ UNCHANGED vars
  BY <1>7, StillKeeps
<1>8. QED
  BY <1>1, <1>2, <1>3, <1>4, <1>5, <1>6, <1>7 DEF Next, Loop

----------------------------------------------------------------------------

\* The types and the run in the ring, always.
THEOREM QueueInv == Spec => []Inv
  BY InitInv, NextInv, PTL DEF Spec

\* Every variable keeps its type.
THEOREM QueueTypeCorrect == Spec => []TypeOK
  BY QueueInv, PTL DEF Inv

\* The packets in the ring stay one unbroken run between the indices.
THEOREM RingCorrect == Spec => []RingInv
  BY QueueInv, PTL DEF Inv

\* A sender that is alone in its process never reports a full queue: before the
\* test could find one, the writer has gone round the ring.
NeverRefuses == ~lapped => ~Full

LEMMA RoomLeft == Inv => NeverRefuses
<1> SUFFICES ASSUME TypeOK, RingInv, ~lapped, writeIdx > 0 PROVE ~(Forward(deleteIdx, queueSize) > writeIdx)
  BY DEF Inv, NeverRefuses, Full
<1>1. /\ queueSize \in 0 .. Slots /\ Oldest \in Slot /\ writeIdx = Forward(Oldest, queueSize)
      /\ deleteIdx \in {Oldest, Back(Oldest, 1)}
  BY RunStart DEF RingInv, Oldest, TypeOK
<1>2. QED
  BY <1>1, SMT DEF Forward, Back, Slot

\* So a full queue is never reported.
THEOREM NeverFull == Spec => []NeverRefuses
  BY QueueInv, RoomLeft, PTL

----------------------------------------------------------------------------
\* Which packet is where: a young packet that was sent is found by its number.

\* Two packets less than SeqMod apart have different sequence numbers.
LEMMA NumbersDiffer ==
    ASSUME NEW a \in Nat, NEW b \in Nat, a < b, b - a < SeqMod
    PROVE  SeqOf(a) # SeqOf(b)
<1> DEFINE m == SeqMod
           p == a \div m
           q == b \div m
<1>1. m \in Nat /\ m > 0
  OBVIOUS
<1>2. p \in Int /\ q \in Int /\ a = m * p + (a % m) /\ b = m * q + (b % m)
  BY <1>1
<1> HIDE DEF m, p, q
<1> SUFFICES ASSUME a % m = b % m PROVE FALSE
  BY DEF SeqOf, m
<1>3. b - a = m * q - m * p
  BY <1>1, <1>2
<1>4. m * q - m * p = m * (q - p)
  BY <1>1, <1>2
<1>5. q - p \in Int /\ m * (q - p) > 0 /\ m * (q - p) < m
  BY <1>1, <1>2, <1>3, <1>4 DEF m
<1>6. q - p >= 1
  BY <1>1, <1>5
<1>7. m * (q - p) >= m
  BY <1>1, <1>5, <1>6
<1>8. QED
  BY <1>1, <1>5, <1>7

\* The place at distance n, and distances from a start that has moved on by m.
LEMMA PlaceAt ==
    ASSUME NEW o \in Slot, NEW n \in 0 .. Slots - 1
    PROVE  Forward(o, n) \in Slot /\ Distance(o, Forward(o, n)) = n
  BY SMT DEF Slot, Forward, Distance

LEMMA DistanceMoved ==
    ASSUME NEW o \in Slot, NEW n \in 0 .. Slots, NEW m \in 0 .. n, NEW k \in Slot,
           Distance(Forward(o, m), k) < n - m
    PROVE  Distance(o, k) = Distance(Forward(o, m), k) + m
  BY SMT DEF Slot, Forward, Distance

LEMMA DistanceType ==
    ASSUME NEW o \in Slot, NEW k \in Slot
    PROVE  Distance(o, k) \in 0 .. Slots - 1
  BY SMT DEF Slot, Distance

\* Only one place is at a given distance.
LEMMA SameDistance ==
    ASSUME NEW o \in Slot, NEW j \in Slot, NEW k \in Slot, Distance(o, j) = Distance(o, k)
    PROVE  j = k
  BY SMT DEF Slot, Distance

\* A step that leaves the packets where they are, and makes none younger.
LEMMA QuietNumbers ==
    ASSUME TypeOK, RingInv, NumberInv,
           UNCHANGED <<readIdx, bufferSize, queueSize, written, sent, seqIndex, lapped>>,
           \A k \in Slot : queue[k] # Null => queue'[k].id = queue[k].id,
           \A id \in 1 .. written : age'[id] < MinTime => age[id] < MinTime
    PROVE  NumberInv'
<1> SUFFICES ASSUME ~lapped PROVE NumberInv'
  BY DEF NumberInv
<1>1. /\ sent = First + bufferSize - 1
      /\ \A k \in Slot : Distance(Oldest, k) < queueSize
                            => queue[k].id = First + Distance(Oldest, k)
      /\ \A id \in 1 .. written : age[id] < MinTime => id >= First
      /\ \A k \in Slot : Distance(Oldest, k) < bufferSize /\ queue[k].id > sent - SeqMod
                            => seqIndex[SeqOf(queue[k].id)] = k
  BY DEF NumberInv
<1>2. /\ queueSize \in 0 .. Slots /\ bufferSize \in 0 .. queueSize /\ readIdx \in Slot
      /\ \A k \in Slot : queue[k] # Null <=> Distance(Oldest, k) < queueSize
  BY DEF RingInv, TypeOK
<1>3. Oldest' = Oldest /\ First' = First
  BY DEF Oldest, First
<1>4. \A k \in Slot : Distance(Oldest, k) < queueSize => queue'[k].id = queue[k].id
  BY <1>2
<1>5. \A k \in Slot : Distance(Oldest, k) < bufferSize => Distance(Oldest, k) < queueSize
  <2>1. Oldest \in Slot
    BY <1>2, RunStart DEF Oldest
  <2>2. QED
    BY <1>2, <2>1, DistanceType, SMT
<1>6. QED
  BY <1>1, <1>3, <1>4, <1>5 DEF NumberInv

\* A written packet gets the next number and the place after the run.
LEMMA WriteNumbers ==
    ASSUME TypeOK, RingInv, NumberInv, Write
    PROVE  NumberInv'
<1> SUFFICES ASSUME ~lapped' PROVE NumberInv'
  BY DEF NumberInv
<1>1. /\ ~lapped /\ queue[writeIdx] = Null /\ written < MaxPackets
      /\ queue' = [queue EXCEPT ![writeIdx] = NewPacket(written + 1)]
      /\ written' = written + 1 /\ age' = [age EXCEPT ![written + 1] = 0]
      /\ queueSize' = queueSize + 1
      /\ UNCHANGED <<readIdx, bufferSize, seqIndex, sent>>
  BY DEF Write
<1>2. /\ queueSize \in 0 .. Slots /\ bufferSize \in 0 .. queueSize
      /\ \A k \in Slot : queue[k] # Null <=> Distance(Oldest, k) < queueSize
      /\ writeIdx = Forward(Oldest, queueSize)
  BY <1>1 DEF RingInv
<1>3. /\ sent = First + bufferSize - 1
      /\ \A k \in Slot : Distance(Oldest, k) < queueSize
                            => queue[k].id = First + Distance(Oldest, k)
      /\ \A id \in 1 .. written : age[id] < MinTime => id >= First
      /\ \A k \in Slot : Distance(Oldest, k) < bufferSize /\ queue[k].id > sent - SeqMod
                            => seqIndex[SeqOf(queue[k].id)] = k
  BY <1>1 DEF NumberInv
<1>4. /\ Oldest \in Slot /\ writeIdx \in Slot /\ queue \in [Slot -> Packets \union {Null}]
      /\ written \in 0 .. MaxPackets /\ age \in [1 .. MaxPackets -> 0 .. OldestPacket]
  BY <1>2, RunStart DEF Oldest, TypeOK
<1>5. Oldest' = Oldest
  BY <1>1 DEF Oldest
<1>6. First' = First /\ First \in Int /\ written = First + queueSize - 1
  BY <1>1, <1>2, <1>4, SMT DEF First
<1>7. \A k \in Slot : Distance(Oldest, k) \in Nat
  BY <1>4, DistanceType, SMT
<1>8. Distance(Oldest, writeIdx) >= queueSize /\ queueSize < Slots
  <2>1. ~(Distance(Oldest, writeIdx) < queueSize)
    BY <1>1, <1>2, <1>4
  <2>2. queueSize = Slots => Distance(Oldest, writeIdx) < queueSize
    BY <1>4, DistanceType, SMT
  <2>3. QED
    BY <1>2, <1>4, <1>7, <2>1, <2>2, SMT
<1>9. /\ Distance(Oldest, writeIdx) = queueSize
      /\ \A k \in Slot : Distance(Oldest, k) < queueSize + 1
                            <=> Distance(Oldest, k) < queueSize \/ k = writeIdx
  BY <1>2, <1>4, <1>8, AfterRun
<1>10. /\ queue'[writeIdx].id = written + 1
       /\ \A k \in Slot : Distance(Oldest, k) < queueSize => queue'[k] = queue[k]
  <2>1. queue'[writeIdx] = NewPacket(written + 1)
    BY <1>1, <1>4
  <2>2. \A k \in Slot : Distance(Oldest, k) < queueSize => k # writeIdx
    BY <1>1, <1>2
  <2>3. QED
    BY <1>1, <1>4, <2>1, <2>2 DEF NewPacket
<1>11. sent' = First' + bufferSize' - 1
  BY <1>1, <1>3, <1>6
<1>12. ASSUME NEW k \in Slot, Distance(Oldest, k) < queueSize + 1
       PROVE  queue'[k].id = First + Distance(Oldest, k)
  <2>1. CASE Distance(Oldest, k) < queueSize
    BY <1>3, <1>10, <2>1
  <2>2. CASE k = writeIdx
    <3>1. written + 1 = First + queueSize
      BY <1>2, <1>4, <1>6, SMT
    <3>2. QED
      BY <1>9, <1>10, <2>2, <3>1
  <2>3. QED
    BY <1>9, <1>12, <2>1, <2>2
<1>13. ASSUME NEW id \in 1 .. written', age'[id] < MinTime
       PROVE  id >= First
  <2>1. CASE id = written + 1
    BY <1>2, <1>4, <1>6, <2>1, SMT
  <2>2. CASE id # written + 1
    <3>1. id \in 1 .. written
      BY <1>1, <1>4, <2>2, SMT
    <3>2. age'[id] = age[id]
      BY <1>1, <1>4, <2>2
    <3>3. QED
      BY <1>3, <1>13, <3>1, <3>2
  <2>3. QED
    BY <2>1, <2>2
<1>14. ASSUME NEW k \in Slot, Distance(Oldest, k) < bufferSize, queue'[k].id > sent - SeqMod
       PROVE  seqIndex[SeqOf(queue'[k].id)] = k
  <2>1. Distance(Oldest, k) < queueSize
    BY <1>2, <1>7, <1>14, SMT
  <2>2. QED
    BY <1>3, <1>10, <1>14, <2>1
<1>15. QED
  BY <1>1, <1>5, <1>6, <1>11, <1>12, <1>13, <1>14 DEF NumberInv

\* What sending a packet does to the run: m packets, all old enough, leave its start.
SendEffect(o, m) ==
    /\ queueSize' = queueSize - m /\ bufferSize' = bufferSize + 1 - m
    /\ Oldest' = Forward(o, m)
    /\ \A k \in Slot : queue'[k] # Null => queue'[k] = queue[k]
    /\ \A k \in Slot : Distance(o, k) < m => AgeAt(k) >= MinTime

LEMMA SendMoves ==
    ASSUME TypeOK, RingInv, SendData
    PROVE  \E m \in 0 .. 2 : m <= queueSize
                             /\ SendEffect(Back(Forward(readIdx, 1), bufferSize), m)
<1> DEFINE idx == Forward(readIdx, 1)
           o == Back(idx, bufferSize)
           e == Forward(o, 1)
<1>1. /\ readIdx' = idx /\ readIdx \in Slot /\ o \in Slot
      /\ queueSize \in 1 .. Slots /\ bufferSize \in 0 .. queueSize - 1
      /\ queue \in [Slot -> Packets \union {Null}]
      /\ \A k \in Slot : queue[k] # Null <=> Distance(o, k) < queueSize
      /\ Grow(o) \/ Delete(o) \/ Shrink(o)
  BY OldestIsThere
<1>2. /\ bufferSize \in 0 .. Slots - 1
      /\ Forward(o, 0) = o /\ e \in Slot /\ Forward(e, 1) = Forward(o, 2)
      /\ \A k \in Slot : /\ ~(Distance(o, k) < 0)
                         /\ Distance(o, k) < 1 => k = o
                         /\ Distance(o, k) < 2 => k = o \/ k = e
  <2>1. bufferSize \in 0 .. Slots - 1
    BY <1>1, SMT
  <2>2. o \in Slot
    BY <1>1
  <2> HIDE DEF o
  <2>3. Forward(o, 0) = o /\ e \in Slot /\ Forward(e, 1) = Forward(o, 2)
    BY <2>2, SMT DEF Slot, Forward
  <2>4. \A k \in Slot : Distance(o, k) < 2 => k = o \/ k = e
    BY <2>2, SMT DEF Slot, Forward, Distance
  <2>5. \A k \in Slot : ~(Distance(o, k) < 0) /\ (Distance(o, k) < 1 => k = o)
    BY <2>2, SMT DEF Slot, Distance
  <2>6. QED
    BY <2>1, <2>3, <2>4, <2>5
<1>3. \A d \in Slot : queue[d] # Null => AgeAt(d) \in Int
  <2> SUFFICES ASSUME NEW d \in Slot, queue[d] # Null PROVE AgeAt(d) \in Int
    OBVIOUS
  <2>1. queue[d].id \in 1 .. MaxPackets
    BY <1>1 DEF Packets
  <2>2. age[queue[d].id] \in 0 .. OldestPacket
    BY <2>1 DEF TypeOK
  <2>3. QED
    BY <2>2, SMT DEF AgeAt, OldestPacket
<1>4. queue[o] # Null
  <2>1. Distance(o, o) = 0
    BY <1>1, WithoutFirst
  <2>2. QED
    BY <1>1, <2>1, SMT
<1>5. ASSUME NEW q \in [Slot -> Packets \union {Null}], NEW d \in Slot,
             \A k \in Slot : q[k] # Null => q[k] = queue[k]
      PROVE  \A k \in Slot : Emptied(q, d)[k] # Null => Emptied(q, d)[k] = queue[k]
  BY <1>5 DEF Emptied
<1>6. CASE Grow(o)
  <2>1. bufferSize' = bufferSize + 1 /\ queue' = queue /\ queueSize' = queueSize
    BY <1>6 DEF Grow
  <2>2. Oldest' = o
    BY <1>1, <1>2, <2>1, Growing DEF Oldest
  <2>3. queueSize' = queueSize - 0 /\ bufferSize' = bufferSize + 1 - 0 /\ 0 <= queueSize
    BY <1>1, <1>2, <2>1, SMT
  <2>4. SendEffect(o, 0)
    BY <1>2, <2>1, <2>2, <2>3 DEF SendEffect
  <2>5. QED
    BY <2>3, <2>4
<1>7. ASSUME AgeAt(o) >= MinTime, queue' = Emptied(queue, o),
             queueSize' = queueSize - 1, bufferSize' = bufferSize
      PROVE  SendEffect(o, 1)
  <2>1. Oldest' = e
    BY <1>1, <1>2, <1>7, Moving DEF Oldest
  <2>2. bufferSize' = bufferSize + 1 - 1
    BY <1>2, <1>7, SMT
  <2>3. QED
    BY <1>1, <1>2, <1>5, <1>7, <2>1, <2>2 DEF SendEffect
<1>8. CASE Delete(o)
  <2>1. SendEffect(o, 1)
    BY <1>7, <1>8 DEF Delete
  <2>2. 1 <= queueSize
    BY <1>1, SMT
  <2>3. QED
    BY <2>1, <2>2
<1>9. CASE Shrink(o)
  <2>1. AgeAt(o) > ShrinkTime /\ bufferSize > 0
    BY <1>9 DEF Shrink
  <2>2. AgeAt(o) >= MinTime /\ queueSize # 1 /\ 2 <= queueSize
    BY <1>1, <1>2, <1>3, <1>4, <2>1, SMT
  <2>3. queue[e] # Null
    <3>1. Distance(o, e) < queueSize
      BY <1>1, <2>2, SMT DEF Slot, Forward, Distance
    <3>2. QED
      BY <1>1, <1>2, <3>1
  <2>4. CASE AgeAt(e) < MinTime
    <3>1. SendEffect(o, 1)
      BY <1>7, <1>9, <2>2, <2>3, <2>4 DEF Shrink
    <3>2. 1 <= queueSize
      BY <1>1, SMT
    <3>3. QED
      BY <3>1, <3>2
  <2>5. CASE ~(AgeAt(e) < MinTime)
    <3>1. /\ queue' = Emptied(Emptied(queue, o), e) /\ queueSize' = queueSize - 2
          /\ bufferSize' = bufferSize - 1
      BY <1>9, <2>2, <2>3, <2>5 DEF Shrink
    <3>2. Oldest' = Forward(o, 2)
      BY <1>1, <1>2, <2>1, <3>1, Moving DEF Oldest
    <3>3. AgeAt(e) >= MinTime
      BY <1>2, <1>3, <2>3, <2>5, SMT
    <3>4. \A k \in Slot : queue'[k] # Null => queue'[k] = queue[k]
      <4>1. Emptied(queue, o) \in [Slot -> Packets \union {Null}]
        BY <1>1, EmptiedType
      <4>2. \A k \in Slot : Emptied(queue, o)[k] # Null => Emptied(queue, o)[k] = queue[k]
        BY <1>1, <1>5
      <4>3. QED
        <5> HIDE DEF o, e
        <5>1. QED BY <1>2, <1>5, <3>1, <4>1, <4>2
    <3>5. bufferSize' = bufferSize + 1 - 2
      BY <1>2, <3>1, SMT
    <3>6. SendEffect(o, 2)
      BY <1>2, <2>2, <3>1, <3>2, <3>3, <3>4, <3>5 DEF SendEffect
    <3>7. QED
      BY <2>2, <3>6
  <2>6. QED
    BY <2>4, <2>5
<1>10. QED
  BY <1>1, <1>6, <1>8, <1>9

\* Sending gives the packet's number its place; only packets that are old enough go.
LEMMA SendNumbers ==
    ASSUME TypeOK, RingInv, NumberInv, SendData
    PROVE  NumberInv'
<1> DEFINE idx == Forward(readIdx, 1)
           o == Back(idx, bufferSize)
<1>1. /\ ~lapped /\ lapped' = lapped /\ queue[idx] # Null /\ o \in Slot /\ idx \in Slot
      /\ readIdx \in Slot
      /\ queueSize \in 1 .. Slots /\ bufferSize \in 0 .. queueSize - 1
      /\ queue \in [Slot -> Packets \union {Null}]
      /\ \A k \in Slot : queue[k] # Null <=> Distance(o, k) < queueSize
  BY OldestIsThere
<1>2. /\ sent' = queue[idx].id /\ written' = written /\ age' = age
      /\ seqIndex' = [seqIndex EXCEPT ![SeqOf(queue[idx].id)] = idx]
  BY <1>1 DEF SendData
<1>3. PICK m \in 0 .. 2 : m <= queueSize /\ SendEffect(o, m)
  BY SendMoves
<1>4. /\ queueSize' = queueSize - m /\ bufferSize' = bufferSize + 1 - m
      /\ Oldest' = Forward(o, m)
      /\ \A k \in Slot : queue'[k] # Null => queue'[k] = queue[k]
      /\ \A k \in Slot : Distance(o, k) < m => AgeAt(k) >= MinTime
  BY <1>3 DEF SendEffect
<1>5. /\ sent = First + bufferSize - 1
      /\ \A k \in Slot : Distance(o, k) < queueSize => queue[k].id = First + Distance(o, k)
      /\ \A id \in 1 .. written : age[id] < MinTime => id >= First
      /\ \A k \in Slot : Distance(o, k) < bufferSize /\ queue[k].id > sent - SeqMod
                            => seqIndex[SeqOf(queue[k].id)] = k
  BY <1>1 DEF NumberInv, Oldest
<1>6. /\ queueSize' \in 0 .. Slots /\ bufferSize' \in 0 .. queueSize'
      /\ \A k \in Slot : queue'[k] # Null <=> Distance(Oldest', k) < queueSize'
  BY <1>1, SendRing DEF RingInv
<1>7. /\ written \in Nat /\ First \in Int /\ First' = First + m
      /\ seqIndex \in [0 .. SeqMod - 1 -> Slot]
      /\ \A id \in 1 .. written : age[id] \in Int
  <2>1. /\ written \in 0 .. MaxPackets /\ age \in [1 .. MaxPackets -> 0 .. OldestPacket]
        /\ seqIndex \in [0 .. SeqMod - 1 -> Slot]
    BY DEF TypeOK
  <2>2. OldestPacket \in Nat
    BY SMT DEF OldestPacket
  <2>3. QED
    BY <1>1, <1>2, <1>4, <2>1, <2>2, SMT DEF First
<1>8. Distance(o, idx) = bufferSize
  BY <1>1, SMT DEF Slot, Forward, Back, Distance
<1>9. \A k \in Slot : Distance(o, k) \in 0 .. Slots - 1
  BY <1>1, DistanceType
<1> HIDE DEF o, idx
<1>10. queue[idx].id = First + bufferSize /\ sent' = sent + 1
  BY <1>1, <1>2, <1>5, <1>7, <1>8, SMT
<1>11. sent' = First' + bufferSize' - 1
  BY <1>1, <1>2, <1>4, <1>7, <1>10, SMT
<1>12. ASSUME NEW k \in Slot, Distance(Oldest', k) < queueSize'
       PROVE  /\ queue'[k] = queue[k]
              /\ Distance(o, k) = Distance(Oldest', k) + m
              /\ Distance(o, k) < queueSize
              /\ Distance(Oldest', k) \in Int
  <2>1. queue'[k] = queue[k] /\ queue[k] # Null
    BY <1>4, <1>6, <1>12
  <2>2. Distance(o, k) < queueSize
    BY <1>1, <2>1
  <2>3. queueSize \in 0 .. Slots /\ m \in 0 .. queueSize
    BY <1>1, <1>3, SMT
  <2>4. Distance(Forward(o, m), k) < queueSize - m
    BY <1>4, <1>12
  <2>5. Distance(o, k) = Distance(Forward(o, m), k) + m
    BY <1>1, <2>3, <2>4, DistanceMoved
  <2>6. Forward(o, m) \in Slot
    BY <1>1, <2>3, ForwardType, SMT
  <2>7. Distance(Forward(o, m), k) \in Int
    BY <2>6, DistanceType, SMT
  <2>8. QED
    BY <1>4, <2>1, <2>2, <2>5, <2>7
<1>13. ASSUME NEW k \in Slot, Distance(Oldest', k) < queueSize'
       PROVE  queue'[k].id = First' + Distance(Oldest', k)
  <2>1. queue'[k].id = First + Distance(o, k)
    BY <1>5, <1>12, <1>13
  <2>2. QED
    BY <1>7, <1>12, <1>13, <2>1, SMT
<1>14. ASSUME NEW id \in 1 .. written, age[id] < MinTime
       PROVE  id >= First'
  <2>1. id >= First
    BY <1>5, <1>14
  <2> SUFFICES ASSUME id < First' PROVE FALSE
    BY <1>7, SMT
  <2> DEFINE k == Forward(o, id - First)
  <2>2. id - First \in 0 .. Slots - 1 /\ id - First < m /\ id - First < queueSize
    BY <1>1, <1>3, <1>7, <2>1, SMT
  <2>3. k \in Slot /\ Distance(o, k) = id - First
    BY <1>1, <2>2, PlaceAt
  <2>4. queue[k].id = First + (id - First)
    BY <1>5, <2>2, <2>3
  <2>5. queue[k].id = id
    BY <1>7, <2>4, SMT
  <2>6. age[id] >= MinTime
    BY <1>4, <2>2, <2>3, <2>5 DEF AgeAt
  <2>7. QED
    BY <1>7, <1>14, <2>6, SMT
<1>15. ASSUME NEW k \in Slot, Distance(Oldest', k) < bufferSize', queue'[k].id > sent' - SeqMod
       PROVE  seqIndex'[SeqOf(queue'[k].id)] = k
  <2>1. Distance(Oldest', k) < queueSize'
    <3>1. Oldest' \in Slot
      <4>1. m \in 0 .. Slots
        BY <1>1, <1>3, SMT
      <4>2. QED
        BY <1>1, <1>4, <4>1, ForwardType
    <3>2. Distance(Oldest', k) \in Int
      BY <3>1, DistanceType, SMT
    <3>3. QED
      BY <1>6, <1>15, <3>2, SMT
  <2>2. /\ queue'[k] = queue[k] /\ Distance(o, k) = Distance(Oldest', k) + m
        /\ Distance(o, k) < queueSize /\ Distance(Oldest', k) \in Int
    BY <1>12, <2>1
  <2>3. Distance(o, k) < bufferSize + 1
    BY <1>1, <1>4, <1>15, <2>2, SMT
  <2>4. queue[k] \in Packets /\ queue[k].id \in Nat /\ queue[idx].id \in Nat
    <3>1. queue[k] # Null
      BY <1>1, <2>2
    <3>2. queue[k] \in Packets /\ queue[idx] \in Packets
      BY <1>1, <3>1
    <3>3. queue[k].id \in 1 .. MaxPackets /\ queue[idx].id \in 1 .. MaxPackets
      BY <3>2 DEF Packets
    <3>4. QED
      BY <3>2, <3>3, SMT
  <2>5. CASE Distance(o, k) = bufferSize
    <3>1. k = idx
      BY <1>1, <1>8, <2>5, SameDistance
    <3>2. SeqOf(queue[idx].id) \in 0 .. SeqMod - 1
      BY <2>4, SeqOfType
    <3>3. QED
      BY <1>2, <1>7, <2>2, <3>1, <3>2
  <2>6. CASE Distance(o, k) # bufferSize
    <3>1. Distance(o, k) < bufferSize
      BY <1>1, <1>9, <2>3, <2>6, SMT
    <3>2. queue[k].id = First + Distance(o, k)
      BY <1>5, <2>2
    <3>3. queue[k].id < queue[idx].id /\ queue[k].id > queue[idx].id - SeqMod
      BY <1>1, <1>2, <1>7, <1>9, <1>10, <1>15, <2>2, <3>1, <3>2, SMT
    <3>4. queue[k].id > sent - SeqMod
      BY <1>2, <1>10, <2>4, <3>3, SMT DEF TypeOK
    <3>5. seqIndex[SeqOf(queue[k].id)] = k
      BY <1>5, <3>1, <3>4
    <3>6. SeqOf(queue[k].id) # SeqOf(queue[idx].id)
      <4>1. queue[idx].id - queue[k].id < SeqMod
        BY <2>4, <3>3, SMT
      <4>2. QED
        BY <2>4, <3>3, <4>1, NumbersDiffer
    <3>7. SeqOf(queue[k].id) \in 0 .. SeqMod - 1
      BY <2>4, SeqOfType
    <3>8. QED
      BY <1>2, <1>7, <2>2, <3>5, <3>6, <3>7
  <2>7. QED
    BY <2>5, <2>6
<1>16. QED
  BY <1>2, <1>11, <1>13, <1>14, <1>15 DEF NumberInv

\* Young packets stay young only by their own age: Tick makes none younger.
LEMMA TickNumbers ==
    ASSUME TypeOK, RingInv, NumberInv, Tick
    PROVE  NumberInv'
<1>1. /\ UNCHANGED <<readIdx, bufferSize, queueSize, written, sent, seqIndex, lapped>>
      /\ age' = [id \in DOMAIN age |-> IF id <= written THEN Older(age[id], OldestPacket) ELSE 0]
      /\ queue' = [k \in Slot |-> IF queue[k] = Null \/ queue[k].asked >= Rtt THEN queue[k]
                                  ELSE [queue[k] EXCEPT !.asked = @ + 1]]
  BY DEF Tick
<1>2. \A k \in Slot : queue[k] # Null => queue'[k].id = queue[k].id
  BY <1>1 DEF TypeOK, Packets
<1>3. ASSUME NEW id \in 1 .. written, age'[id] < MinTime
      PROVE  age[id] < MinTime
  <2>1. /\ id \in 1 .. MaxPackets /\ id <= written
        /\ age \in [1 .. MaxPackets -> 0 .. OldestPacket]
    BY SMT DEF TypeOK
  <2>2. age'[id] = Older(age[id], OldestPacket) /\ age[id] \in 0 .. OldestPacket
    BY <1>1, <2>1
  <2>3. QED
    BY <1>3, <2>2, SMT DEF Older, OldestPacket
<1>4. QED
  BY <1>1, <1>2, <1>3, QuietNumbers

\* A request and an answer change what is remembered of a packet, not its number.
LEMMA NackNumbers ==
    ASSUME TypeOK, RingInv, NumberInv, NEW p \in Peers, NEW s \in 0 .. SeqMod - 1, Nack(p, s)
    PROVE  NumberInv'
<1> DEFINE k == seqIndex[s]
           b == queue[k]
<1>1. /\ b # Null
      /\ queue' = [queue EXCEPT ![k] = [b EXCEPT !.flagged = Flags(b), !.asked = 0]]
      /\ UNCHANGED <<readIdx, bufferSize, queueSize, written, sent, seqIndex, lapped, age>>
  BY DEF Nack
<1>2. \A j \in Slot : queue[j] # Null => queue'[j].id = queue[j].id
  BY <1>1 DEF TypeOK, Packets
<1>3. QED
  BY <1>1, <1>2, QuietNumbers

LEMMA DequeueNumbers ==
    ASSUME TypeOK, RingInv, NumberInv, Dequeue
    PROVE  NumberInv'
<1>1. UNCHANGED <<readIdx, bufferSize, queueSize, written, sent, seqIndex, lapped, age>>
  BY DEF Dequeue, DequeueGone, DequeueSkip, Resend, Take
<1>2. \A j \in Slot : queue[j] # Null => queue'[j].id = queue[j].id
  <2>1. CASE DequeueGone
    BY <2>1 DEF DequeueGone
  <2>2. ASSUME NEW n, Available, Consume(n)
        PROVE  \A j \in Slot : queue[j] # Null => queue'[j].id = queue[j].id
    BY <2>2 DEF Consume, Available, TypeOK, Packets
  <2>3. QED
    BY <2>1, <2>2 DEF Dequeue, DequeueSkip, Resend
<1>3. QED
  BY <1>1, <1>2, QuietNumbers

LEMMA OtherNumbers ==
    ASSUME TypeOK, RingInv, NumberInv,
           Loop \/ (\E p \in Peers : AddPeer(p)) \/ UNCHANGED vars
    PROVE  NumberInv'
<1>1. UNCHANGED <<ring, written, age>>
  BY DEF Loop, StartLoop, StartNacks, SkipNacks, EndNacks, AddPeer, vars
<1>2. QED
  BY <1>1, QuietNumbers DEF ring

\* Until the writer has gone round the ring, its packets are numbered one by one.
THEOREM NumberInvariant == Spec => []NumberInv
<1>1. Init => NumberInv
  <2> SUFFICES ASSUME Init PROVE NumberInv
    OBVIOUS
  <2>1. /\ written = 0 /\ queueSize = 0 /\ bufferSize = 0 /\ sent = 0 /\ readIdx = 0
    BY DEF Init
  <2>2. Oldest \in Slot
    BY <2>1, SMT DEF Oldest, Forward, Back, Slot
  <2>3. \A k \in Slot : ~(Distance(Oldest, k) < 0)
    BY <2>2, DistanceType, SMT
  <2>4. First = 1
    BY <2>1 DEF First
  <2>5. QED
    BY <2>1, <2>3, <2>4, SMT DEF NumberInv
<1>2. Inv /\ NumberInv /\ [Next]_vars => NumberInv'
  <2> SUFFICES ASSUME TypeOK, RingInv, NumberInv, [Next]_vars PROVE NumberInv'
    BY DEF Inv
  <2>1. CASE Write
    BY <2>1, WriteNumbers
  <2>2. CASE SendData
    BY <2>2, SendNumbers
  <2>3. CASE \E p \in Peers, s \in 0 .. SeqMod - 1 : Nack(p, s)
    BY <2>3, NackNumbers
  <2>4. CASE Dequeue
    BY <2>4, DequeueNumbers
  <2>5. CASE Tick
    BY <2>5, TickNumbers
  <2>6. CASE Loop \/ (\E p \in Peers : AddPeer(p)) \/ UNCHANGED vars
    BY <2>6, OtherNumbers
  <2>7. QED
    BY <2>1, <2>2, <2>3, <2>4, <2>5, <2>6 DEF Next, Loop
<1>3. QED
  BY <1>1, <1>2, QueueInv, PTL DEF Spec

\* A young packet that was sent is still in the run, and seq_index points to it.
LEMMA YoungIsFound ==
    ASSUME TypeOK, RingInv, NumberInv
    PROVE  Findable
<1> SUFFICES ASSUME ~lapped, NEW id \in 1 .. sent, id > sent - SeqMod, age[id] < MinTime
             PROVE  LET b == queue[seqIndex[SeqOf(id)]] IN b # Null /\ b.id = id
  BY DEF Findable
<1> DEFINE k == Forward(Oldest, id - First)
<1>1. /\ queueSize \in 0 .. Slots /\ bufferSize \in 0 .. queueSize
      /\ \A j \in Slot : queue[j] # Null <=> Distance(Oldest, j) < queueSize
  BY DEF RingInv
<1>2. /\ sent = First + bufferSize - 1
      /\ \A j \in Slot : Distance(Oldest, j) < queueSize
                            => queue[j].id = First + Distance(Oldest, j)
      /\ \A n \in 1 .. written : age[n] < MinTime => n >= First
      /\ \A j \in Slot : Distance(Oldest, j) < bufferSize /\ queue[j].id > sent - SeqMod
                            => seqIndex[SeqOf(queue[j].id)] = j
  BY DEF NumberInv
<1>3. written \in Nat /\ sent \in Nat /\ First \in Int /\ sent <= written
  <2>1. written \in 0 .. MaxPackets /\ sent \in 0 .. MaxPackets
    BY DEF TypeOK
  <2>2. QED
    BY <1>1, <1>2, <2>1, SMT DEF First
<1>4. id >= First
  <2>1. id \in 1 .. written
    BY <1>3, SMT
  <2>2. QED
    BY <1>2, <2>1
<1>5. /\ id - First \in 0 .. Slots - 1
      /\ id - First < bufferSize /\ id - First < queueSize
  BY <1>1, <1>2, <1>3, <1>4, SMT
<1>6. Oldest \in Slot
  BY <1>1, RunStart, SMT DEF Oldest, TypeOK
<1>7. k \in Slot /\ Distance(Oldest, k) = id - First
  BY <1>5, <1>6, PlaceAt
<1>8. queue[k].id = id
  <2>1. queue[k].id = First + (id - First)
    BY <1>2, <1>5, <1>7
  <2>2. QED
    BY <1>3, <2>1, SMT
<1>9. queue[k] # Null /\ seqIndex[SeqOf(id)] = k
  BY <1>1, <1>2, <1>5, <1>7, <1>8
<1>10. QED
  BY <1>8, <1>9

\* What a receiver may still ask for is there: Findable holds for every ring, every
\* numbering and every way the buffer grows and shrinks.
THEOREM YoungFindable == Spec => []Findable
  BY QueueInv, NumberInvariant, YoungIsFound, PTL DEF Inv

----------------------------------------------------------------------------
\* Where a packet was sent from, even when it is gone.

\* The remainder is the only number below m that differs from a by a multiple of m.
LEMMA Remainder ==
    ASSUME NEW m \in Nat \ {0}, NEW a \in Nat
    PROVE  /\ a % m \in 0 .. m - 1
           /\ \E q \in Int : a = m * q + (a % m)
           /\ \A r \in 0 .. m - 1, k \in Int : a = m * k + r => a % m = r
<1> DEFINE q == a \div m
           t == a % m
<1>1. q \in Int /\ t \in 0 .. m - 1 /\ a = m * q + t
  OBVIOUS
<1> HIDE DEF q
<1>2. ASSUME NEW r \in 0 .. m - 1, NEW k \in Int, a = m * k + r
      PROVE  t = r
  <2> HIDE DEF t
  <2>1. m * (k - q) = t - r
    BY <1>1, <1>2
  <2>2. k - q \in Int /\ t - r < m /\ t - r > -m
    BY <1>1, <1>2
  <2>3. k - q >= 1 => m * (k - q) >= m
    BY <2>2
  <2>4. k - q <= -1 => m * (k - q) <= -m
    BY <2>2
  <2>5. k - q = 0
    BY <1>1, <2>1, <2>2, <2>3, <2>4
  <2>6. QED
    BY <1>1, <2>1, <2>5
<1>3. QED
  BY <1>1, <1>2

LEMMA RemainderIs ==
    ASSUME NEW m \in Nat \ {0}, NEW a \in Nat, NEW r \in 0 .. m - 1, NEW k \in Int, a = m * k + r
    PROVE  a % m = r
  BY Remainder

\* Counting on by one is a step round the ring, and counting back is stepping back.
LEMMA NextRound == ASSUME NEW a \in Nat PROVE Forward(a % Slots, 1) = (a + 1) % Slots
<1> DEFINE r == a % Slots
<1>1. PICK q \in Int : r \in 0 .. Slots - 1 /\ a = Slots * q + r
  BY Remainder
<1> HIDE DEF r
<1>2. a + 1 \in Nat /\ q + 1 \in Int /\ Slots \in Nat \ {0}
  OBVIOUS
<1>3. CASE r + 1 < Slots
  <2>1. r + 1 \in 0 .. Slots - 1 /\ a + 1 = Slots * q + (r + 1)
    BY <1>1, <1>3
  <2>2. (a + 1) % Slots = r + 1
    BY <1>2, <2>1, Remainder
  <2>3. QED
    BY <1>3, <2>2 DEF Forward, r
<1>4. CASE r + 1 = Slots
  <2>1. 0 \in 0 .. Slots - 1 /\ a + 1 = Slots * (q + 1) + 0
    BY <1>1, <1>4
  <2>2. (a + 1) % Slots = 0
    <3> DEFINE c == a + 1
               k == q + 1
    <3>1. c \in Nat /\ k \in Int /\ c = Slots * k + 0
      BY <1>2, <2>1
    <3> HIDE DEF c, k
    <3>2. c % Slots = 0
      BY <1>2, <2>1, <3>1, RemainderIs
    <3>3. QED
      BY <3>2 DEF c
  <2>3. Forward(r, 1) = 0
    BY <1>1, <1>4, SMT DEF Forward
  <2>4. QED
    BY <2>2, <2>3 DEF r
<1>5. QED
  BY <1>1, <1>3, <1>4

LEMMA BackRound ==
    ASSUME NEW a \in Nat, NEW d \in 0 .. Slots - 1, d <= a
    PROVE  (a - d) % Slots = Back(a % Slots, d)
<1> DEFINE r == a % Slots
<1>1. PICK q \in Int : r \in 0 .. Slots - 1 /\ a = Slots * q + r
  BY Remainder
<1> HIDE DEF r
<1>2. a - d \in Nat /\ q - 1 \in Int /\ Slots \in Nat \ {0}
  OBVIOUS
<1>3. CASE r >= d
  <2>1. r - d \in 0 .. Slots - 1 /\ a - d = Slots * q + (r - d)
    BY <1>1, <1>3
  <2>2. (a - d) % Slots = r - d
    <3> DEFINE c == a - d
               k == q
               t == r - d
    <3>1. c \in Nat /\ k \in Int /\ t \in 0 .. Slots - 1 /\ c = Slots * k + t
      BY <1>1, <1>2, <2>1
    <3> HIDE DEF c, k, t
    <3>2. c % Slots = t
      BY <1>2, <3>1, RemainderIs
    <3>3. QED
      BY <3>2 DEF c, t
  <2>3. QED
    BY <1>3, <2>2 DEF Back, r
<1>4. CASE ~(r >= d)
  <2>1. r - d + Slots \in 0 .. Slots - 1 /\ a - d = Slots * (q - 1) + (r - d + Slots)
    BY <1>1, <1>4
  <2>2. (a - d) % Slots = r - d + Slots
    <3> DEFINE c == a - d
               k == q - 1
               t == r - d + Slots
    <3>1. c \in Nat /\ k \in Int /\ t \in 0 .. Slots - 1 /\ c = Slots * k + t
      BY <1>1, <1>2, <2>1
    <3> HIDE DEF c, k, t
    <3>2. c % Slots = t
      BY <1>2, <3>1, RemainderIs
    <3>3. QED
      BY <3>2 DEF c, t
  <2>3. QED
    BY <1>4, <2>2 DEF Back, r
<1>5. QED
  BY <1>3, <1>4

\* A number comes again after SeqMod packets.
LEMMA NumberAgain == ASSUME NEW a \in Nat PROVE SeqOf(a + SeqMod) = SeqOf(a)
<1>1. PICK q \in Int : a % SeqMod \in 0 .. SeqMod - 1 /\ a = SeqMod * q + (a % SeqMod)
  BY Remainder
<1>2. a + SeqMod = SeqMod * (q + 1) + (a % SeqMod) /\ a + SeqMod \in Nat /\ q + 1 \in Int
  BY <1>1
<1>3. QED
  BY <1>1, <1>2, Remainder DEF SeqOf

\* The packet that is sent is the next one.
LEMMA SendNext ==
    ASSUME TypeOK, RingInv, NumberInv, SendData
    PROVE  /\ ~lapped /\ sent \in Nat /\ sent' = sent + 1 /\ readIdx' = Forward(readIdx, 1)
           /\ seqIndex' = [seqIndex EXCEPT ![SeqOf(sent')] = readIdx']
<1> DEFINE idx == Forward(readIdx, 1)
           o == Back(idx, bufferSize)
<1>1. /\ ~lapped /\ queue[idx] # Null /\ o \in Slot /\ idx \in Slot /\ readIdx \in Slot
      /\ queueSize \in 1 .. Slots /\ bufferSize \in 0 .. queueSize - 1 /\ readIdx' = idx
  BY OldestIsThere
<1>2. sent' = queue[idx].id /\ seqIndex' = [seqIndex EXCEPT ![SeqOf(queue[idx].id)] = idx]
  BY <1>1 DEF SendData
<1>3. /\ sent = First + bufferSize - 1
      /\ \A k \in Slot : Distance(o, k) < queueSize => queue[k].id = First + Distance(o, k)
  BY <1>1 DEF NumberInv, Oldest
<1>4. Distance(o, idx) = bufferSize
  BY <1>1, SMT DEF Slot, Forward, Back, Distance
<1>5. written \in Nat /\ sent \in Nat /\ First \in Int
  <2>1. written \in 0 .. MaxPackets /\ sent \in 0 .. MaxPackets
    BY DEF TypeOK
  <2>2. QED
    BY <1>1, <2>1, SMT DEF First
<1> HIDE DEF idx, o
<1>6. queue[idx].id = First + bufferSize
  BY <1>1, <1>3, <1>4, SMT
<1>7. sent' = sent + 1
  BY <1>1, <1>2, <1>3, <1>5, <1>6, SMT
<1>8. QED
  BY <1>1, <1>2, <1>5, <1>7 DEF idx

LEMMA SendPlace == TypeOK /\ RingInv /\ NumberInv /\ PlaceInv /\ SendData => PlaceInv'
<1> SUFFICES ASSUME TypeOK, RingInv, NumberInv, PlaceInv, SendData PROVE PlaceInv'
  OBVIOUS
<1>1. /\ ~lapped /\ sent \in Nat /\ sent' = sent + 1 /\ readIdx' = Forward(readIdx, 1)
      /\ seqIndex' = [seqIndex EXCEPT ![SeqOf(sent')] = readIdx']
  BY SendNext
<1>2. /\ readIdx = sent % Slots
      /\ \A id \in 1 .. sent : id > sent - SeqMod => seqIndex[SeqOf(id)] = id % Slots
  BY <1>1 DEF PlaceInv
<1>3. readIdx' = sent' % Slots
  BY <1>1, <1>2, NextRound
<1>4. seqIndex \in [0 .. SeqMod - 1 -> Slot]
  BY DEF TypeOK
<1>5. ASSUME NEW id \in 1 .. sent', id > sent' - SeqMod
      PROVE  seqIndex'[SeqOf(id)] = id % Slots
  <2>1. id \in Nat /\ SeqOf(id) \in 0 .. SeqMod - 1
    <3>1. id \in Nat
      BY <1>1, SMT
    <3>2. QED
      BY <3>1, SeqOfType
  <2>2. CASE id = sent'
    BY <1>1, <1>3, <1>4, <2>1, <2>2
  <2>3. CASE id # sent'
    <3>1. id \in 1 .. sent /\ id > sent - SeqMod /\ id < sent' /\ sent' - id < SeqMod
      BY <1>1, <1>5, <2>3, SMT
    <3>2. SeqOf(id) # SeqOf(sent')
      BY <1>1, <2>1, <3>1, NumbersDiffer
    <3>3. QED
      BY <1>1, <1>2, <1>4, <2>1, <3>1, <3>2
  <2>4. QED
    BY <2>2, <2>3
<1>6. QED
  BY <1>3, <1>5 DEF PlaceInv

\* Only sending a packet moves the place that is sent from.
THEOREM PlaceInvariant == Spec => []PlaceInv
<1>1. Init => PlaceInv
  <2> SUFFICES ASSUME Init PROVE PlaceInv
    OBVIOUS
  <2>1. readIdx = 0 /\ sent = 0
    BY DEF Init
  <2>2. 0 % Slots = 0
    <3>1. 0 = Slots * 0 + 0 /\ 0 \in 0 .. Slots - 1
      BY SMT
    <3>2. QED
      BY <3>1, Remainder
  <2>3. QED
    BY <2>1, <2>2, SMT DEF PlaceInv
<1>2. Inv /\ NumberInv /\ PlaceInv /\ [Next]_vars => PlaceInv'
  <2> SUFFICES ASSUME TypeOK, RingInv, NumberInv, PlaceInv, [Next]_vars PROVE PlaceInv'
    BY DEF Inv
  <2>1. CASE SendData
    BY <2>1, SendPlace
  <2>2. ASSUME UNCHANGED <<readIdx, seqIndex, sent>>, ~lapped' => ~lapped
        PROVE  PlaceInv'
    BY <2>2 DEF PlaceInv
  <2>3. CASE Write
    BY <2>2, <2>3 DEF Write
  <2>4. CASE \E p \in Peers, s \in 0 .. SeqMod - 1 : Nack(p, s)
    BY <2>2, <2>4 DEF Nack
  <2>5. CASE Dequeue
    BY <2>2, <2>5 DEF Dequeue, DequeueGone, DequeueSkip, Resend, Take
  <2>6. CASE Tick
    BY <2>2, <2>6 DEF Tick
  <2>7. CASE Loop \/ (\E p \in Peers : AddPeer(p)) \/ UNCHANGED vars
    BY <2>2, <2>7 DEF Loop, StartLoop, StartNacks, SkipNacks, EndNacks, AddPeer, vars, ring
  <2>8. QED
    BY <2>1, <2>3, <2>4, <2>5, <2>6, <2>7 DEF Next, Loop
<1>3. QED
  BY <1>1, <1>2, QueueInv, NumberInvariant, PTL DEF Spec

----------------------------------------------------------------------------
\* A mark is backed by a request.  The ring has room for all numbers.

Wide == SeqMod <= Slots

\* What seq_index holds for a number that is still its packet's own: the packet, or,
\* when that is gone, an empty place; and a packet that is there is found.
LEMMA OwnPlace ==
    ASSUME Wide, TypeOK, RingInv, NumberInv, PlaceInv, ~lapped,
           NEW id \in 1 .. sent, id > written - SeqMod
    PROVE  /\ SeqOf(id) \in 0 .. SeqMod - 1 /\ seqIndex[SeqOf(id)] \in Slot
           /\ queue[seqIndex[SeqOf(id)]] # Null => queue[seqIndex[SeqOf(id)]].id = id
           /\ \A k \in Slot : queue[k] # Null /\ queue[k].id = id => seqIndex[SeqOf(id)] = k
<1> DEFINE d == sent - id
           k == seqIndex[SeqOf(id)]
<1>1. /\ queueSize \in 0 .. Slots /\ bufferSize \in 0 .. queueSize /\ readIdx \in Slot
      /\ \A j \in Slot : queue[j] # Null <=> Distance(Oldest, j) < queueSize
  BY DEF RingInv, TypeOK
<1>2. /\ sent = First + bufferSize - 1
      /\ \A j \in Slot : Distance(Oldest, j) < queueSize
                            => queue[j].id = First + Distance(Oldest, j)
      /\ \A j \in Slot : Distance(Oldest, j) < bufferSize /\ queue[j].id > sent - SeqMod
                            => seqIndex[SeqOf(queue[j].id)] = j
  BY DEF NumberInv
<1>3. /\ readIdx = sent % Slots
      /\ id > sent - SeqMod => k = id % Slots
  BY DEF PlaceInv
<1>4. /\ written \in Nat /\ sent \in Nat /\ id \in Nat /\ First \in Int
      /\ written = First + queueSize - 1 /\ SeqMod \in Nat
  <2>1. written \in 0 .. MaxPackets /\ sent \in 0 .. MaxPackets
    BY DEF TypeOK
  <2>2. QED
    BY <1>1, <2>1, SMT DEF First
<1>5. d \in 0 .. Slots - 1 /\ d <= sent /\ id > sent - SeqMod
      /\ d < sent - written + SeqMod
  BY <1>1, <1>2, <1>4, SMT DEF Wide
<1>6. k = Back(readIdx, d)
  <2>1. (sent - d) % Slots = Back(sent % Slots, d)
    BY <1>4, <1>5, BackRound
  <2>2. sent - d = id
    BY <1>4, SMT
  <2>3. QED
    BY <1>3, <1>5, <2>1, <2>2
<1>7. SeqOf(id) \in 0 .. SeqMod - 1 /\ k \in Slot
  <2>1. SeqOf(id) \in 0 .. SeqMod - 1
    BY <1>4, SeqOfType
  <2>2. QED
    BY <2>1 DEF TypeOK
<1>8. Oldest \in Slot
  BY <1>1, RunStart, SMT DEF Oldest
<1> HIDE DEF d, k
<1>9. Distance(Oldest, k) = IF d < bufferSize THEN bufferSize - 1 - d
                            ELSE bufferSize - 1 - d + Slots
  BY <1>1, <1>5, <1>6, SMT DEF Oldest, Forward, Back, Slot, Distance
<1>10. queue[k] # Null => queue[k].id = id
  <2> SUFFICES ASSUME queue[k] # Null PROVE queue[k].id = id
    OBVIOUS
  <2>1. Distance(Oldest, k) < queueSize /\ queue[k].id = First + Distance(Oldest, k)
    BY <1>1, <1>2, <1>7
  <2>2. d < bufferSize
    BY <1>1, <1>2, <1>4, <1>5, <1>9, <2>1, SMT DEF Wide
  <2>3. QED
    BY <1>1, <1>2, <1>4, <1>5, <1>9, <2>1, <2>2, SMT DEF d
<1>11. ASSUME NEW j \in Slot, queue[j] # Null, queue[j].id = id
       PROVE  k = j
  <2>1. id = First + Distance(Oldest, j) /\ Distance(Oldest, j) \in Int
    BY <1>1, <1>2, <1>8, <1>11, DistanceType, SMT
  <2>2. Distance(Oldest, j) < bufferSize
    BY <1>1, <1>2, <1>4, <2>1, SMT
  <2>3. QED
    BY <1>2, <1>5, <1>11, <2>2 DEF k
<1>12. QED
  BY <1>7, <1>10, <1>11 DEF k

\* A step that leaves the requests that wait, and marks nothing.
LEMMA QuietRequests ==
    ASSUME TypeOK, RequestInv, sent' \in Nat, sent <= sent',
           UNCHANGED <<written, lapped, retryWrite, retryRead, retryLapped>>,
           \A k \in Slot : queue'[k] # Null
                             => /\ queue[k] # Null /\ queue'[k].id = queue[k].id
                                /\ queue'[k].flagged => queue[k].flagged,
           \A i \in RetrySlot : retry[i].active
                             => /\ retry'[i].active /\ retry'[i].id = retry[i].id
                                /\ retry'[i].seq = retry[i].seq
    PROVE  RequestInv'
<1> SUFFICES ASSUME ~lapped, ~retryLapped PROVE RequestInv'
  BY DEF RequestInv
<1>1. /\ \A i \in Pending : /\ retry[i].active /\ retry[i].id \in 1 .. sent
                            /\ retry[i].id > written - SeqMod
                            /\ retry[i].seq = SeqOf(retry[i].id)
      /\ \A k \in Slot : queue[k] # Null /\ queue[k].flagged
                           => \E i \in Pending : retry[i].id = queue[k].id
  BY DEF RequestInv
<1>2. Pending' = Pending /\ Pending \subseteq RetrySlot
  BY DEF Pending
<1>3. sent \in Nat
  <2>1. sent \in 0 .. MaxPackets
    BY DEF TypeOK
  <2>2. QED
    BY <2>1, SMT
<1>4. \A n \in 1 .. sent : n \in 1 .. sent'
  BY <1>3, SMT
<1>5. \A i \in Pending : /\ retry'[i].active /\ retry'[i].id = retry[i].id
                         /\ retry'[i].seq = retry[i].seq
  BY <1>1, <1>2
<1>6. \A i \in Pending' : /\ retry'[i].active /\ retry'[i].id \in 1 .. sent'
                          /\ retry'[i].id > written' - SeqMod
                          /\ retry'[i].seq = SeqOf(retry'[i].id)
  BY <1>1, <1>2, <1>4, <1>5
<1>7. \A k \in Slot : queue'[k] # Null /\ queue'[k].flagged
                        => \E i \in Pending' : retry'[i].id = queue'[k].id
  BY <1>1, <1>2, <1>5
<1>8. QED
  BY <1>6, <1>7 DEF RequestInv

\* A packet is written unmarked, and under a number no waiting request is for.
LEMMA WriteRequests ==
    ASSUME TypeOK, RingInv, RequestInv, Write
    PROVE  RequestInv'
<1> SUFFICES ASSUME ~lapped', ~retryLapped' PROVE RequestInv'
  BY DEF RequestInv
<1>1. /\ ~lapped /\ ~retryLapped
      /\ queue' = [queue EXCEPT ![writeIdx] = NewPacket(written + 1)]
      /\ written' = written + 1 /\ NumberFree
      /\ UNCHANGED <<sent, retry, retryWrite, retryRead>>
  BY DEF Write, requests
<1>2. /\ \A i \in Pending : /\ retry[i].active /\ retry[i].id \in 1 .. sent
                            /\ retry[i].id > written - SeqMod
                            /\ retry[i].seq = SeqOf(retry[i].id)
      /\ \A k \in Slot : queue[k] # Null /\ queue[k].flagged
                           => \E i \in Pending : retry[i].id = queue[k].id
  BY <1>1 DEF RequestInv
<1>3. Pending' = Pending
  BY <1>1 DEF Pending
<1>4. /\ queue \in [Slot -> Packets \union {Null}] /\ writeIdx \in Slot
      /\ written \in Nat /\ sent \in Nat
  <2>1. written \in 0 .. MaxPackets /\ sent \in 0 .. MaxPackets
    BY DEF TypeOK
  <2>2. QED
    BY <2>1, SMT DEF TypeOK
<1>5. ASSUME NEW i \in Pending
      PROVE  retry[i].id > (written + 1) - SeqMod
  <2>1. retry[i].id \in Nat /\ retry[i].id > written - SeqMod
    BY <1>2, SMT
  <2>2. CASE retry[i].id + SeqMod = written + 1
    <3>1. SeqOf(written + 1) = SeqOf(retry[i].id)
      BY <2>1, <2>2, NumberAgain
    <3>2. QED
      BY <1>1, <1>2, <3>1 DEF NumberFree
  <2>3. QED
    BY <1>4, <2>1, <2>2, SMT
<1>6. \A k \in Slot : queue'[k] # Null /\ queue'[k].flagged
                        => queue[k] # Null /\ queue[k].flagged /\ queue'[k] = queue[k]
  BY <1>1, <1>4 DEF NewPacket
<1>7. \A i \in Pending' : /\ retry'[i].active /\ retry'[i].id \in 1 .. sent'
                          /\ retry'[i].id > written' - SeqMod
                          /\ retry'[i].seq = SeqOf(retry'[i].id)
  BY <1>1, <1>2, <1>3, <1>5
<1>8. \A k \in Slot : queue'[k] # Null /\ queue'[k].flagged
                        => \E i \in Pending' : retry'[i].id = queue'[k].id
  BY <1>1, <1>2, <1>3, <1>6
<1>9. QED
  BY <1>7, <1>8 DEF RequestInv

\* Sending takes packets out of the run; what it leaves is as it was.
LEMMA SendRequests ==
    ASSUME TypeOK, RingInv, NumberInv, RequestInv, SendData
    PROVE  RequestInv'
<1>1. sent \in Nat /\ sent' = sent + 1
  BY SendNext
<1>2. PICK m \in 0 .. 2 : SendEffect(Back(Forward(readIdx, 1), bufferSize), m)
  BY SendMoves
<1>3. \A k \in Slot : queue'[k] # Null => queue'[k] = queue[k]
  BY <1>2 DEF SendEffect
<1>4. UNCHANGED <<written, lapped, retry, retryWrite, retryRead, retryLapped>>
  BY DEF SendData, requests
<1>5. sent' \in Nat /\ sent <= sent'
  BY <1>1, SMT
<1>6. QED
  BY <1>3, <1>4, <1>5, QuietRequests

\* Everything gets older: a request that waits is still in use and keeps its entry.
LEMMA TickRequests ==
    ASSUME TypeOK, RequestInv, Tick
    PROVE  RequestInv'
<1>1. /\ queue' = [k \in Slot |-> IF queue[k] = Null \/ queue[k].asked >= Rtt THEN queue[k]
                                  ELSE [queue[k] EXCEPT !.asked = @ + 1]]
      /\ retry' = [i \in RetrySlot |-> Aged(retry[i])]
      /\ UNCHANGED <<written, sent, lapped, retryWrite, retryRead, retryLapped>>
  BY DEF Tick
<1>2. sent' \in Nat /\ sent <= sent'
  <2>1. sent \in 0 .. MaxPackets
    BY DEF TypeOK
  <2>2. QED
    BY <1>1, <2>1, SMT
<1>3. ASSUME NEW k \in Slot, queue'[k] # Null
      PROVE  /\ queue[k] # Null /\ queue'[k].id = queue[k].id
             /\ queue'[k].flagged => queue[k].flagged
  <2>1. queue[k] \in Packets \union {Null}
    BY DEF TypeOK
  <2>2. CASE queue'[k] = queue[k]
    BY <1>3, <2>2
  <2>3. CASE queue[k] # Null /\ queue'[k] = [queue[k] EXCEPT !.asked = @ + 1]
    BY <2>1, <2>3 DEF Packets
  <2>4. QED
    BY <1>1, <2>2, <2>3
<1>4. ASSUME NEW i \in RetrySlot, retry[i].active
      PROVE  /\ retry'[i].active /\ retry'[i].id = retry[i].id
             /\ retry'[i].seq = retry[i].seq
  <2>1. retry[i] \in Entries
    BY DEF TypeOK
  <2>2. retry'[i] = [retry[i] EXCEPT !.age = Older(@, OldestEntry)]
    BY <1>1, <1>4 DEF Aged
  <2>3. QED
    BY <1>4, <2>1, <2>2 DEF Entries
<1>5. QED
  BY <1>1, <1>2, <1>3, <1>4, QuietRequests

LEMMA OtherRequests ==
    ASSUME TypeOK, RequestInv, Loop \/ (\E p \in Peers : AddPeer(p)) \/ UNCHANGED vars
    PROVE  RequestInv'
<1>1. UNCHANGED <<ring, written, age, requests>>
  BY DEF Loop, StartLoop, StartNacks, SkipNacks, EndNacks, AddPeer, vars
<1>2. sent' \in Nat /\ sent <= sent'
  <2>1. sent \in 0 .. MaxPackets
    BY DEF TypeOK
  <2>2. QED
    BY <1>1, <2>1, SMT DEF ring
<1>3. UNCHANGED <<queue, written, lapped, retry, retryWrite, retryRead, retryLapped>>
  BY <1>1 DEF ring, requests
<1>4. QED
  BY <1>2, <1>3, QuietRequests

\* The places that wait, when the ring does not lap: one more, and one fewer.
LEMMA PendingAdded ==
    ASSUME TypeOK, retryWrite' = RetryForward(retryWrite), retryRead' = retryRead,
           retryWrite # retryRead
    PROVE  Pending' = Pending \union {retryWrite} /\ retryWrite \notin Pending
<1>1. retryWrite \in RetrySlot /\ retryRead \in RetrySlot
  BY DEF TypeOK
<1>2. \A i \in RetrySlot : i \in Pending' <=> i \in Pending \/ i = retryWrite
  BY <1>1, SMT DEF Pending, RetryForward, RetrySlot
<1>3. retryWrite \notin Pending
  BY <1>1, SMT DEF Pending, RetrySlot
<1>4. Pending \subseteq RetrySlot /\ Pending' \subseteq RetrySlot
  BY DEF Pending
<1>5. QED
  BY <1>1, <1>2, <1>3, <1>4

LEMMA PendingTaken ==
    ASSUME TypeOK, retryWrite' = retryWrite, retryRead' = NextRetry, NextRetry # retryWrite
    PROVE  NextRetry \in Pending /\ Pending' = Pending \ {NextRetry}
<1>1. retryWrite \in RetrySlot /\ retryRead \in RetrySlot
  BY DEF TypeOK
<1>2. \A i \in RetrySlot : i \in Pending' <=> i \in Pending /\ i # NextRetry
  BY <1>1, SMT DEF Pending, NextRetry, RetryForward, RetrySlot
<1>3. NextRetry \in Pending
  BY <1>1, SMT DEF Pending, NextRetry, RetryForward, RetrySlot
<1>4. Pending \subseteq RetrySlot /\ Pending' \subseteq RetrySlot
  BY DEF Pending
<1>5. QED
  BY <1>2, <1>3, <1>4

\* A request is added for the packet it marks, if it marks it.
LEMMA NackRequests ==
    ASSUME Wide, TypeOK, RingInv, NumberInv, PlaceInv, RequestInv,
           NEW p \in Peers, NEW s \in 0 .. SeqMod - 1, Nack(p, s)
    PROVE  RequestInv'
<1> SUFFICES ASSUME ~lapped', ~retryLapped' PROVE RequestInv'
  BY DEF RequestInv
<1> DEFINE k == seqIndex[s]
           b == queue[k]
<1>1. /\ ~lapped /\ ~retryLapped /\ retryWrite # retryRead /\ b # Null
      /\ queue' = [queue EXCEPT ![k] = [b EXCEPT !.flagged = Flags(b), !.asked = 0]]
      /\ retry' = [retry EXCEPT ![retryWrite] =
                     [seq |-> s, id |-> b.id, peer |-> p, age |-> 0, active |-> TRUE]]
      /\ retryWrite' = RetryForward(retryWrite) /\ retryRead' = retryRead
      /\ written' = written /\ sent' = sent
  BY DEF Nack
<1>2. /\ \A i \in Pending : /\ retry[i].active /\ retry[i].id \in 1 .. sent
                            /\ retry[i].id > written - SeqMod
                            /\ retry[i].seq = SeqOf(retry[i].id)
      /\ \A j \in Slot : queue[j] # Null /\ queue[j].flagged
                           => \E i \in Pending : retry[i].id = queue[j].id
  BY <1>1 DEF RequestInv
<1>3. PICK n \in 1 .. sent : SeqOf(n) = s /\ n > written - SeqMod
  BY DEF Nack
<1>4. k \in Slot /\ b.id = n
  BY <1>1, <1>3, OwnPlace
<1>5. /\ queue \in [Slot -> Packets \union {Null}] /\ b \in Packets
      /\ retry \in [RetrySlot -> Entries] /\ retryWrite \in RetrySlot
  BY <1>1, <1>4 DEF TypeOK
<1>6. Pending' = Pending \union {retryWrite} /\ retryWrite \notin Pending
  BY <1>1, PendingAdded
<1>7. /\ retry'[retryWrite] = [seq |-> s, id |-> n, peer |-> p, age |-> 0, active |-> TRUE]
      /\ \A i \in Pending : retry'[i] = retry[i]
  <2>1. Pending \subseteq RetrySlot
    BY DEF Pending
  <2>2. QED
    BY <1>1, <1>4, <1>5, <1>6, <2>1
<1>8. \A j \in Slot : /\ queue'[j] # Null => queue[j] # Null /\ queue'[j].id = queue[j].id
                      /\ j # k => queue'[j] = queue[j]
  BY <1>1, <1>4, <1>5 DEF Packets
<1> HIDE DEF k, b
<1>9. \A i \in Pending' : /\ retry'[i].active /\ retry'[i].id \in 1 .. sent'
                          /\ retry'[i].id > written' - SeqMod
                          /\ retry'[i].seq = SeqOf(retry'[i].id)
  <2> SUFFICES ASSUME NEW i \in Pending'
               PROVE  /\ retry'[i].active /\ retry'[i].id \in 1 .. sent
                      /\ retry'[i].id > written - SeqMod
                      /\ retry'[i].seq = SeqOf(retry'[i].id)
    BY <1>1
  <2>1. CASE i = retryWrite
    BY <1>3, <1>7, <2>1
  <2>2. CASE i \in Pending
    BY <1>2, <1>7, <2>2
  <2>3. QED
    BY <1>6, <2>1, <2>2
<1>10. ASSUME NEW j \in Slot, queue'[j] # Null, queue'[j].flagged
       PROVE  \E i \in Pending' : retry'[i].id = queue'[j].id
  <2>1. CASE j = k
    <3>1. queue'[j].id = n
      BY <1>4, <1>8, <1>10, <2>1 DEF b
    <3>2. QED
      BY <1>6, <1>7, <3>1
  <2>2. CASE j # k
    <3>1. PICK i \in Pending : retry[i].id = queue[j].id
      BY <1>2, <1>8, <1>10, <2>2
    <3>2. QED
      BY <1>6, <1>7, <1>8, <2>2, <3>1
  <2>3. QED
    BY <2>1, <2>2
<1>11. QED
  BY <1>9, <1>10 DEF RequestInv

\* A request that is taken up unmarks its packet; when that is gone, nothing is marked.
LEMMA DequeueRequests ==
    ASSUME Wide, TypeOK, RingInv, NumberInv, PlaceInv, RequestInv, Dequeue
    PROVE  RequestInv'
<1> SUFFICES ASSUME ~lapped', ~retryLapped' PROVE RequestInv'
  BY DEF RequestInv
<1>1. /\ Take
      /\ DequeueGone \/ (Available /\ \E a \in {0, 1} : Consume(a))
  BY DEF Dequeue, DequeueGone, DequeueSkip, Resend
<1>2. /\ ~lapped /\ ~retryLapped /\ retryWrite' = retryWrite /\ retryRead' = NextRetry
      /\ NextRetry # retryWrite /\ written' = written /\ sent' = sent
  BY <1>1 DEF Take, NoRetries
<1>3. /\ \A i \in Pending : /\ retry[i].active /\ retry[i].id \in 1 .. sent
                            /\ retry[i].id > written - SeqMod
                            /\ retry[i].seq = SeqOf(retry[i].id)
      /\ \A j \in Slot : queue[j] # Null /\ queue[j].flagged
                           => \E i \in Pending : retry[i].id = queue[j].id
  BY <1>2 DEF RequestInv
<1>4. NextRetry \in Pending /\ Pending' = Pending \ {NextRetry} /\ Pending \subseteq RetrySlot
  BY <1>2, PendingTaken DEF Pending
<1>5. /\ queue \in [Slot -> Packets \union {Null}] /\ retry \in [RetrySlot -> Entries]
  BY DEF TypeOK
<1>6. /\ Taken.id \in 1 .. sent /\ TakenSlot \in Slot /\ Taken.seq = SeqOf(Taken.id)
      /\ \A j \in Slot : queue[j] # Null /\ queue[j].id = Taken.id => TakenSlot = j
  BY <1>2, <1>3, <1>4, OwnPlace DEF Taken, TakenSlot
<1>7. \A i \in Pending' : retry'[i] = retry[i]
  <2>1. CASE DequeueGone
    BY <2>1 DEF DequeueGone
  <2>2. CASE \E a \in {0, 1} : Consume(a)
    BY <1>4, <1>5, <2>2 DEF Consume
  <2>3. QED
    BY <1>1, <2>1, <2>2
<1>8. \A j \in Slot : queue'[j] # Null /\ queue'[j].flagged
                        => /\ queue[j] # Null /\ queue'[j] = queue[j]
                           /\ queue[j].id # Taken.id
  <2>1. CASE DequeueGone
    <3>1. queue' = queue /\ ~Available
      BY <2>1 DEF DequeueGone
    <3>2. \A j \in Slot : queue[j] # Null => queue[j].id # Taken.id
      BY <1>6, <3>1 DEF Available
    <3>3. QED
      BY <3>1, <3>2
  <2>2. ASSUME NEW a, Available, Consume(a)
        PROVE  \A j \in Slot : queue'[j] # Null /\ queue'[j].flagged
                                 => /\ queue[j] # Null /\ queue'[j] = queue[j]
                                    /\ queue[j].id # Taken.id
    <3>1. queue' = [queue EXCEPT ![TakenSlot] =
                      [queue[TakenSlot] EXCEPT !.flagged = FALSE,
                                               !.count = queue[TakenSlot].count + a]]
      BY <2>2 DEF Consume
    <3>2. queue[TakenSlot] \in Packets
      BY <1>5, <1>6, <2>2 DEF Available
    <3>3. queue'[TakenSlot].flagged = FALSE
      BY <1>5, <1>6, <3>1, <3>2 DEF Packets
    <3>4. \A j \in Slot : j # TakenSlot => queue'[j] = queue[j]
      BY <1>5, <1>6, <3>1
    <3>5. QED
      BY <1>6, <3>3, <3>4
  <2>3. QED
    BY <1>1, <2>1, <2>2
<1>9. \A i \in Pending' : /\ retry'[i].active /\ retry'[i].id \in 1 .. sent'
                          /\ retry'[i].id > written' - SeqMod
                          /\ retry'[i].seq = SeqOf(retry'[i].id)
  BY <1>2, <1>3, <1>4, <1>7
<1>10. ASSUME NEW j \in Slot, queue'[j] # Null, queue'[j].flagged
       PROVE  \E i \in Pending' : retry'[i].id = queue'[j].id
  <2>1. PICK i \in Pending : retry[i].id = queue[j].id
    BY <1>3, <1>8, <1>10
  <2>2. i # NextRetry
    BY <1>8, <1>10, <2>1 DEF Taken
  <2>3. QED
    BY <1>4, <1>7, <1>8, <1>10, <2>1, <2>2
<1>11. QED
  BY <1>9, <1>10 DEF RequestInv

\* Until a ring laps, each packet that is marked is named by a request that waits.
THEOREM RequestInvariant == Wide => (Spec => []RequestInv)
<1> SUFFICES ASSUME Wide PROVE Spec => []RequestInv
  OBVIOUS
<1>1. Init => RequestInv
  <2> SUFFICES ASSUME Init PROVE RequestInv
    OBVIOUS
  <2>1. /\ \A k \in Slot : queue[k] = Null
        /\ retryWrite = 1 /\ retryRead = 0
    BY DEF Init
  <2>2. Pending = {}
    BY <2>1, SMT DEF Pending, RetrySlot
  <2>3. QED
    BY <2>1, <2>2 DEF RequestInv
<1>2. Inv /\ NumberInv /\ PlaceInv /\ RequestInv /\ [Next]_vars => RequestInv'
  <2> SUFFICES ASSUME TypeOK, RingInv, NumberInv, PlaceInv, RequestInv, [Next]_vars
               PROVE  RequestInv'
    BY DEF Inv
  <2>1. CASE Write
    BY <2>1, WriteRequests
  <2>2. CASE SendData
    BY <2>2, SendRequests
  <2>3. CASE \E p \in Peers, s \in 0 .. SeqMod - 1 : Nack(p, s)
    BY <2>3, NackRequests
  <2>4. CASE Dequeue
    BY <2>4, DequeueRequests
  <2>5. CASE Tick
    BY <2>5, TickRequests
  <2>6. CASE Loop \/ (\E p \in Peers : AddPeer(p)) \/ UNCHANGED vars
    BY <2>6, OtherRequests
  <2>7. QED
    BY <2>1, <2>2, <2>3, <2>4, <2>5, <2>6 DEF Next, Loop
<1>3. QED
  BY <1>1, <1>2, QueueInv, NumberInvariant, PlaceInvariant, PTL DEF Spec

LEMMA MarksAreNamed == ASSUME TypeOK, RequestInv PROVE FlaggedIsPending
<1>1. \A s \in 0 .. SeqMod - 1 : seqIndex[s] \in Slot
  BY DEF TypeOK
<1>2. QED
  BY <1>1 DEF RequestInv, FlaggedIsPending

\* A packet that is marked as queued for retransmission is queued: no mark is left
\* behind that would keep it from being asked for again, in a ring with room for all
\* numbers and until requests lap theirs.
THEOREM NoMarkLeftBehind == Wide => (Spec => []FlaggedIsPending)
<1> SUFFICES ASSUME Wide PROVE Spec => []FlaggedIsPending
  OBVIOUS
<1>1. QED
  BY RequestInvariant, QueueInv, MarksAreNamed, PTL DEF Inv

----------------------------------------------------------------------------
\* No more than two requests for one packet wait that the search looks at.  The requests of one peer and
\* those of several are held back in two ways, and one goes over into the other
\* when a second peer is added.

\* Requests that wait for a packet, and places back from the one that is written
\* next to one that waits.
Asking(id) == {i \in Pending : retry[i].id = id}
AskingNow(p, id) == {i \in Pending : /\ retry[i].peer = p /\ retry[i].id = id
                                     /\ retry[i].age <= SearchPeriod}
StepsBack(i) == IF i < retryWrite THEN retryWrite - i ELSE retryWrite - i + RetrySlots

\* The last request is the youngest.
YoungestLast ==
    \A i, j \in Pending : StepsBack(i) <= StepsBack(j) => retry[i].age <= retry[j].age

\* With one peer, an unmarked packet has at most one request that waits, one that
\* was never asked for has none, and no packet has more than two.
SingleInv ==
    /\ \A id \in 1 .. sent : Cardinality(Asking(id)) <= 2
    /\ \A k \in Slot, id \in 1 .. MaxPackets : queue[k] # Null /\ queue[k].id = id =>
          /\ ~queue[k].flagged => Cardinality(Asking(id)) <= 1
          /\ queue[k].asked = NeverAsked => Asking(id) = {}

FloodInv ==
    /\ IsFiniteSet(listed) /\ listed # {}
    /\ retryLapped => Pending = {}
    /\ ~CongestionOff /\ ~lapped /\ ~retryLapped => YoungestLast /\ (Single => SingleInv)
    /\ NoRecentFlood

LEMMA AskingFinite ==
    ASSUME NEW S \in SUBSET RetrySlot
    PROVE  IsFiniteSet(S) /\ Cardinality(S) \in Nat
<1>1. IsFiniteSet(0 .. RetrySlots - 1)
  BY FS_Interval, SenderQueueAssumption
<1> QED BY <1>1, FS_Subset, FS_CardinalityType DEF RetrySlot

\* Fewer requests.
LEMMA Fewer ==
    ASSUME NEW S \in SUBSET RetrySlot, NEW T \in SUBSET S
    PROVE  Cardinality(T) <= Cardinality(S)
BY AskingFinite, FS_Subset

LEMMA RecentFloodIs ==
    NoRecentFlood <=> (~CongestionOff /\ ~lapped =>
                   \A p \in Peers, id \in 1 .. sent : Cardinality(AskingNow(p, id)) <= 2)
BY DEF NoRecentFlood, AskingNow

LEMMA PendingSlots == Pending \subseteq RetrySlot /\ \A id : Asking(id) \subseteq Pending
BY DEF Pending, Asking

\* What waits stays in its order, and what is asked for again is still asked for no
\* more than before.
LEMMA QuietFlood ==
    ASSUME RequestInv, FloodInv, sent \in Nat, sent' \in Nat, sent <= sent',
           retryLapped' = retryLapped, ~lapped' => ~lapped,
           IsFiniteSet(listed') /\ listed' # {}, Single' => Single,
           Pending' \subseteq Pending, ~retryLapped => YoungestLast \/ CongestionOff \/ lapped,
           \A i \in Pending' : /\ retry'[i].id = retry[i].id /\ retry'[i].peer = retry[i].peer
                               /\ retry'[i].age <= SearchPeriod => retry[i].age <= SearchPeriod,
           ~CongestionOff /\ ~lapped' /\ ~retryLapped => YoungestLast',
           \A k \in Slot, id \in 1 .. MaxPackets :
              queue'[k] # Null /\ queue'[k].id = id /\ ~lapped' /\ ~retryLapped =>
                 \/ Asking(id) = {}
                 \/ /\ queue[k] # Null /\ queue[k].id = id
                    /\ queue'[k].asked = NeverAsked => queue[k].asked = NeverAsked
                    /\ \/ ~queue'[k].flagged => ~queue[k].flagged
                       \/ SingleInv => Cardinality(Asking(id)') <= 1
    PROVE  FloodInv'
<1>1. Pending' \subseteq RetrySlot /\ Pending \subseteq RetrySlot
  BY PendingSlots
<1>2. \A id : Asking(id)' \subseteq Asking(id) /\ Asking(id) \subseteq RetrySlot
  BY <1>1 DEF Asking
<1>3. \A id : Cardinality(Asking(id)') <= Cardinality(Asking(id))
  BY <1>2, Fewer
<1>4. \A id : /\ Cardinality(Asking(id)) \in Nat /\ Cardinality(Asking(id)') \in Nat
              /\ Asking(id) = {} => Cardinality(Asking(id)) = 0
  BY <1>2, AskingFinite, FS_EmptySet
<1>5. retryLapped' => Pending' = {}
  BY DEF FloodInv
<1>6. ASSUME ~lapped', ~retryLapped'
      PROVE  \A id \in 1 .. sent' : id \notin 1 .. sent => Asking(id) = {}
  BY <1>6 DEF RequestInv, Asking
<1>7. ASSUME ~CongestionOff, ~lapped', ~retryLapped', Single' PROVE SingleInv'
  <2>0. SingleInv
    BY <1>7 DEF FloodInv
  <2>1. ASSUME NEW id \in 1 .. sent' PROVE Cardinality(Asking(id)') <= 2
    <3>1. CASE id \in 1 .. sent
      <4>1. Cardinality(Asking(id)) <= 2
        BY <2>0, <3>1 DEF SingleInv
      <4> QED BY <1>3, <1>4, <4>1
    <3>2. CASE id \notin 1 .. sent
      <4>1. Cardinality(Asking(id)) = 0
        BY <1>4, <1>6, <1>7, <2>1, <3>2
      <4> QED BY <1>3, <1>4, <4>1
    <3> QED BY <3>1, <3>2
  <2>2. ASSUME NEW k \in Slot, NEW id \in 1 .. MaxPackets,
               queue'[k] # Null, queue'[k].id = id
        PROVE  /\ ~queue'[k].flagged => Cardinality(Asking(id)') <= 1
               /\ queue'[k].asked = NeverAsked => Asking(id)' = {}
    <3>1. CASE Asking(id) = {}
      <4>1. Cardinality(Asking(id)) = 0 /\ Asking(id)' = {}
        BY <1>2, <1>4, <3>1
      <4>2. Cardinality(Asking(id)') <= 1
        <5>1. /\ Cardinality(Asking(id)') <= Cardinality(Asking(id))
              /\ Cardinality(Asking(id)') \in Nat
          BY <1>3, <1>4, Zenon
        <5> QED BY <4>1, <5>1
      <4> QED BY <4>1, <4>2
    <3>2. CASE /\ queue[k] # Null /\ queue[k].id = id
               /\ queue'[k].asked = NeverAsked => queue[k].asked = NeverAsked
               /\ \/ ~queue'[k].flagged => ~queue[k].flagged
                  \/ SingleInv => Cardinality(Asking(id)') <= 1
      <4>1. queue'[k].asked = NeverAsked => Asking(id)' = {}
        BY <1>2, <2>0, <2>2, <3>2 DEF SingleInv
      <4>2. ASSUME ~queue'[k].flagged PROVE Cardinality(Asking(id)') <= 1
        <5>1. CASE SingleInv => Cardinality(Asking(id)') <= 1
          BY <2>0, <5>1
        <5>2. CASE ~queue'[k].flagged => ~queue[k].flagged
          <6>1. Cardinality(Asking(id)) <= 1
            BY <2>0, <2>2, <3>2, <4>2, <5>2 DEF SingleInv
          <6> QED BY <1>3, <1>4, <6>1
        <5> QED BY <3>2, <5>1, <5>2
      <4> QED BY <4>1, <4>2
    <3> QED BY <1>7, <2>2, <3>1, <3>2
  <2> QED BY <2>1, <2>2 DEF SingleInv
<1>8. ASSUME ~CongestionOff, ~lapped', NEW p \in Peers, NEW id \in 1 .. sent'
      PROVE  Cardinality(AskingNow(p, id)') <= 2
  <2>1. /\ AskingNow(p, id)' \subseteq AskingNow(p, id) /\ AskingNow(p, id) \subseteq RetrySlot
        /\ AskingNow(p, id) \subseteq Asking(id)
    BY <1>1 DEF Asking, AskingNow
  <2>2. CASE id \in 1 .. sent
    <3>1. Cardinality(AskingNow(p, id)) <= 2
      BY <1>8, <2>2, RecentFloodIs DEF FloodInv
    <3>2. /\ Cardinality(AskingNow(p, id)') <= Cardinality(AskingNow(p, id))
          /\ Cardinality(AskingNow(p, id)') \in Nat /\ Cardinality(AskingNow(p, id)) \in Nat
      BY <2>1, Fewer, AskingFinite
    <3> QED BY <3>1, <3>2
  <2>3. CASE id \notin 1 .. sent
    <3>1. AskingNow(p, id)' = {}
      <4>1. CASE retryLapped'
        BY <1>5, <4>1 DEF AskingNow
      <4>2. CASE ~retryLapped'
        BY <1>6, <1>8, <2>1, <2>3, <4>2
      <4> QED BY <4>1, <4>2
    <3> QED BY <3>1, FS_EmptySet
  <2> QED BY <2>2, <2>3
<1>9. NoRecentFlood'
  BY <1>8 DEF NoRecentFlood, AskingNow
<1> QED BY <1>5, <1>7, <1>9 DEF FloodInv

LEMMA Numbers ==
    ASSUME TypeOK
    PROVE  /\ sent \in Nat /\ sent <= MaxPackets /\ written \in Nat
           /\ retryWrite \in RetrySlot /\ retryRead \in RetrySlot
           /\ Pending \subseteq RetrySlot
           /\ \A i \in RetrySlot : retry[i].age \in Nat
<1>1. \A i \in RetrySlot : retry[i].age \in 0 .. OldestEntry
  BY DEF TypeOK, Entries
<1>2. sent \in 0 .. MaxPackets /\ written \in 0 .. MaxPackets
  BY DEF TypeOK
<1>3. \A i \in RetrySlot : retry[i].age \in Nat
  BY <1>1 DEF OldestEntry
<1> QED BY <1>2, <1>3, PendingSlots DEF TypeOK

\* Nobody has asked for the packet that is written.
LEMMA WriteFlood ==
    ASSUME TypeOK, RingInv, NumberInv, RequestInv, FloodInv, Write
    PROVE  FloodInv'
<1>1. /\ ~lapped /\ queue' = [queue EXCEPT ![writeIdx] = NewPacket(written + 1)]
      /\ UNCHANGED <<sent, retry, retryWrite, retryRead, retryLapped, listed>>
  BY DEF Write, requests
<1>2. Pending' = Pending /\ (YoungestLast => YoungestLast') /\ Single' = Single
  BY <1>1 DEF Pending, YoungestLast, StepsBack, Single
<1>3. sent <= written
  BY <1>1, Numbers, SMT DEF NumberInv, RingInv, First
<1>4. ASSUME ~retryLapped PROVE Asking(written + 1) = {}
  BY <1>1, <1>3, <1>4, Numbers DEF RequestInv, Asking
<1>5. queue \in [Slot -> Packets \union {Null}]
  BY DEF TypeOK
<1>6. ASSUME NEW k \in Slot, NEW id \in 1 .. MaxPackets, queue'[k] # Null, queue'[k].id = id,
             ~retryLapped
      PROVE  Asking(id) = {} \/ (queue[k] # Null /\ queue'[k] = queue[k])
  <2>1. CASE k = writeIdx
    <3>1. queue'[k] = NewPacket(written + 1)
      BY <1>1, <1>5, <2>1
    <3>2. id = written + 1
      BY <1>6, <3>1 DEF NewPacket
    <3> QED BY <1>4, <1>6, <3>2
  <2>2. CASE k # writeIdx
    BY <1>1, <1>5, <1>6, <2>2
  <2> QED BY <2>1, <2>2
<1>7. IsFiniteSet(listed') /\ listed' # {} /\ sent <= sent' /\ sent \in Nat /\ sent' \in Nat
  BY <1>1, Numbers DEF FloodInv
<1> QED BY <1>1, <1>2, <1>6, <1>7, QuietFlood DEF FloodInv

\* Packets that are sent or dropped are as they were.
LEMMA SendFlood ==
    ASSUME TypeOK, RingInv, NumberInv, RequestInv, FloodInv, SendData
    PROVE  FloodInv'
<1>1. sent \in Nat /\ sent' = sent + 1
  BY SendNext
<1>2. PICK m \in 0 .. 2 : SendEffect(Back(Forward(readIdx, 1), bufferSize), m)
  BY SendMoves
<1>3. UNCHANGED <<lapped, retry, retryWrite, retryRead, retryLapped, listed>>
  BY DEF SendData, requests
<1>4. Pending' = Pending /\ (YoungestLast => YoungestLast') /\ Single' = Single
  BY <1>3 DEF Pending, YoungestLast, StepsBack, Single
<1>5. \A k \in Slot : queue'[k] # Null => queue'[k] = queue[k]
  BY <1>2 DEF SendEffect
<1>6. IsFiniteSet(listed') /\ listed' # {} /\ sent <= sent' /\ sent' \in Nat
  BY <1>1, <1>3 DEF FloodInv
<1> QED BY <1>1, <1>3, <1>4, <1>5, <1>6, QuietFlood DEF FloodInv

\* Time does not change who asked last.
LEMMA TickFlood ==
    ASSUME TypeOK, RequestInv, FloodInv, Tick
    PROVE  FloodInv'
<1>1. /\ queue' = [k \in Slot |-> IF queue[k] = Null \/ queue[k].asked >= Rtt THEN queue[k]
                                  ELSE [queue[k] EXCEPT !.asked = @ + 1]]
      /\ retry' = [i \in RetrySlot |-> Aged(retry[i])]
      /\ UNCHANGED <<sent, lapped, retryWrite, retryRead, retryLapped, listed>>
  BY DEF Tick
<1>2. Pending' = Pending /\ Single' = Single
  BY <1>1 DEF Pending, Single
<1>3. ASSUME NEW i \in Pending, ~lapped, ~retryLapped
      PROVE  /\ retry'[i].id = retry[i].id /\ retry'[i].peer = retry[i].peer
             /\ retry'[i].age = Older(retry[i].age, OldestEntry)
  <2>1. i \in RetrySlot /\ retry[i].active
    BY <1>3, PendingSlots DEF RequestInv
  <2>2. retry[i] \in Entries
    BY <2>1 DEF TypeOK
  <2>3. retry'[i] = [retry[i] EXCEPT !.age = Older(@, OldestEntry)]
    BY <1>1, <2>1 DEF Aged
  <2> QED BY <2>2, <2>3 DEF Entries
<1>4. \A a, b \in Nat : /\ a <= b => Older(a, OldestEntry) <= Older(b, OldestEntry)
                        /\ a <= Older(a, OldestEntry) /\ Older(a, OldestEntry) \in Nat
  BY SMT DEF Older, OldestEntry, Larger
<1>5. ASSUME NEW i \in Pending, ~retryLapped, ~lapped
      PROVE  /\ retry[i].age \in Nat
             /\ retry'[i].age <= SearchPeriod => retry[i].age <= SearchPeriod
  <2>1. retry[i].age \in Nat
    BY Numbers
  <2> QED BY <1>3, <1>4, <1>5, <2>1, SMT
<1>6. ASSUME ~CongestionOff, ~lapped, ~retryLapped PROVE YoungestLast'
  <2>1. YoungestLast
    BY <1>6 DEF FloodInv
  <2> SUFFICES ASSUME NEW i \in Pending, NEW j \in Pending, StepsBack(i) <= StepsBack(j)
               PROVE  retry'[i].age <= retry'[j].age
    BY <1>1, <1>2 DEF YoungestLast, StepsBack
  <2>2. retry[i].age <= retry[j].age
    BY <2>1 DEF YoungestLast
  <2> QED BY <1>3, <1>4, <1>5, <1>6, <2>2
<1>7. ASSUME NEW k \in Slot, queue'[k] # Null
      PROVE  /\ queue[k] # Null /\ queue[k].id = queue'[k].id
             /\ queue'[k].asked = NeverAsked => queue[k].asked = NeverAsked
             /\ ~queue'[k].flagged => ~queue[k].flagged
  <2>1. queue[k] \in Packets \union {Null}
    BY DEF TypeOK
  <2>2. CASE queue'[k] = queue[k]
    BY <1>7, <2>2
  <2>3. CASE queue[k] # Null /\ queue[k].asked < Rtt /\ queue'[k] = [queue[k] EXCEPT !.asked = @ + 1]
    <3>1. /\ queue[k].asked \in 0 .. NeverAsked /\ queue'[k].id = queue[k].id
          /\ queue'[k].asked = queue[k].asked + 1 /\ queue'[k].flagged = queue[k].flagged
      BY <2>1, <2>3 DEF Packets
    <3>2. queue'[k].asked # NeverAsked
      BY <2>3, <3>1 DEF NeverAsked
    <3> QED BY <2>3, <3>1, <3>2
  <2>4. queue[k] # Null => queue[k].asked >= Rtt \/ queue[k].asked < Rtt
    BY <2>1 DEF Packets, NeverAsked
  <2> QED BY <1>1, <2>2, <2>3, <2>4
<1>8. IsFiniteSet(listed') /\ listed' # {} /\ sent <= sent' /\ sent \in Nat /\ sent' \in Nat
  BY <1>1, Numbers DEF FloodInv
<1>9. CASE lapped \/ retryLapped
  <2>1. retryLapped => Pending = {}
    BY DEF FloodInv
  <2>2. ASSUME retryLapped, NEW p \in Peers, NEW id PROVE Cardinality(AskingNow(p, id)') <= 2
    <3>1. AskingNow(p, id)' = {}
      BY <1>2, <2>1, <2>2 DEF AskingNow
    <3> QED BY <3>1, FS_EmptySet
  <2>3. ~lapped => NoRecentFlood'
    BY <1>9, <2>2 DEF NoRecentFlood, AskingNow
  <2> QED BY <1>1, <1>2, <1>8, <1>9, <2>1, <2>3 DEF FloodInv, NoRecentFlood
<1>10. CASE ~lapped /\ ~retryLapped
  <2>1. CongestionOff \/ YoungestLast'
    BY <1>6, <1>10
  <2> QED BY <1>1, <1>2, <1>3, <1>5, <1>7, <1>8, <1>10, <2>1, QuietFlood DEF FloodInv
<1> QED BY <1>9, <1>10

\* Another receiver leaves the sender with several.
LEMMA OtherFlood ==
    ASSUME TypeOK, RequestInv, FloodInv, Loop \/ (\E p \in Peers : AddPeer(p)) \/ UNCHANGED vars
    PROVE  FloodInv'
<1>1. UNCHANGED <<ring, written, age, requests>> /\ \E p : listed' \in {listed, listed \union {p}}
  BY DEF Loop, StartLoop, StartNacks, SkipNacks, EndNacks, AddPeer, vars
<1>2. UNCHANGED <<queue, sent, lapped, retry, retryWrite, retryRead, retryLapped>>
  BY <1>1 DEF ring, requests
<1>3. Pending' = Pending /\ (YoungestLast => YoungestLast')
  BY <1>2 DEF Pending, YoungestLast, StepsBack
<1>4. IsFiniteSet(listed') /\ listed' # {} /\ listed \subseteq listed'
  BY <1>1, FS_AddElement DEF FloodInv
<1>5. Single' => Single
  <2> SUFFICES ASSUME Cardinality(listed') = 1 PROVE Cardinality(listed) = 1
    BY DEF Single
  <2>1. PICK x : listed' = {x}
    <3>1. PICK x : listed' = {x}
      BY <1>4, FS_Singleton
    <3> QED BY <3>1
  <2>2. listed' = listed
    BY <1>4, <2>1 DEF FloodInv
  <2> QED BY <2>2
<1>6. sent <= sent' /\ sent \in Nat /\ sent' \in Nat
  BY <1>2, Numbers
<1> QED BY <1>2, <1>3, <1>4, <1>5, <1>6, QuietFlood DEF FloodInv

\* A packet that is unmarked has lost the request that was taken.
LEMMA DequeueFlood ==
    ASSUME Wide, TypeOK, RingInv, NumberInv, PlaceInv, RequestInv, FloodInv, Dequeue
    PROVE  FloodInv'
<1>1. /\ Take
      /\ DequeueGone \/ (Available /\ \E a \in {0, 1} : Consume(a))
  BY DEF Dequeue, DequeueGone, DequeueSkip, Resend
<1>2. /\ lapped' = lapped /\ retryLapped' = retryLapped /\ retryWrite' = retryWrite
      /\ retryRead' = NextRetry /\ NextRetry # retryWrite /\ sent' = sent /\ listed' = listed
  BY <1>1 DEF Take, NoRetries
<1>3. NextRetry \in Pending /\ Pending' = Pending \ {NextRetry} /\ Pending \subseteq RetrySlot
  BY <1>2, PendingTaken DEF Pending
<1>4. queue \in [Slot -> Packets \union {Null}] /\ retry \in [RetrySlot -> Entries]
  BY DEF TypeOK
<1>5. ~retryLapped
  BY <1>3 DEF FloodInv
<1>6. \A i \in Pending' : retry'[i] = retry[i]
  <2>1. CASE DequeueGone
    BY <2>1 DEF DequeueGone
  <2>2. CASE \E a \in {0, 1} : Consume(a)
    BY <1>3, <1>4, <2>2 DEF Consume
  <2> QED BY <1>1, <2>1, <2>2
<1>7. YoungestLast => YoungestLast'
  BY <1>2, <1>3, <1>6 DEF YoungestLast, StepsBack
<1>8. ASSUME NEW k \in Slot, NEW id \in 1 .. MaxPackets, queue'[k] # Null, queue'[k].id = id, ~lapped
      PROVE  /\ queue[k] # Null /\ queue[k].id = id
             /\ queue'[k].asked = NeverAsked => queue[k].asked = NeverAsked
             /\ \/ ~queue'[k].flagged => ~queue[k].flagged
                \/ SingleInv => Cardinality(Asking(id)') <= 1
  <2>1. CASE queue'[k] = queue[k]
    BY <1>8, <2>1
  <2>2. CASE queue'[k] # queue[k]
    <3>1. PICK a \in {0, 1} : Available /\ Consume(a)
      BY <1>1, <2>2 DEF DequeueGone
    <3>2. /\ Taken.id \in 1 .. sent /\ Taken.id > written - SeqMod
          /\ Taken.seq = SeqOf(Taken.id)
      BY <1>3, <1>5, <1>8 DEF RequestInv, Taken
    <3>3. TakenSlot \in Slot /\ (queue[TakenSlot] # Null => queue[TakenSlot].id = Taken.id)
      BY <1>8, <3>2, OwnPlace DEF TakenSlot
    <3>4. queue[TakenSlot] \in Packets
      BY <1>4, <3>1, <3>3 DEF Available
    <3>5. queue' = [queue EXCEPT ![TakenSlot] =
                      [queue[TakenSlot] EXCEPT !.flagged = FALSE,
                                               !.count = queue[TakenSlot].count + a]]
      BY <3>1 DEF Consume
    <3>6. k = TakenSlot
      BY <1>4, <2>2, <3>3, <3>5
    <3>7. /\ queue'[k].id = queue[k].id /\ queue'[k].asked = queue[k].asked
      BY <1>4, <3>3, <3>4, <3>5, <3>6 DEF Packets
    <3>8. queue[k] # Null /\ id = Taken.id
      BY <1>8, <3>1, <3>3, <3>6, <3>7 DEF Available
    <3>9. Asking(id)' = Asking(id) \ {NextRetry} /\ NextRetry \in Asking(id)
      BY <1>3, <1>6, <3>8 DEF Asking, Taken
    <3>10. Asking(id) \subseteq RetrySlot
      BY <1>3 DEF Asking
    <3>11. /\ Cardinality(Asking(id)') = Cardinality(Asking(id)) - 1
           /\ Cardinality(Asking(id)) \in Nat
      BY <3>9, <3>10, AskingFinite, FS_RemoveElement
    <3>12. SingleInv => Cardinality(Asking(id)) <= 2
      BY <3>2, <3>8 DEF SingleInv
    <3>13. SingleInv => Cardinality(Asking(id)') <= 1
      BY <3>11, <3>12
    <3> QED BY <1>8, <3>7, <3>8, <3>13
  <2> QED BY <2>1, <2>2
<1>9. \A i \in Pending' : /\ retry'[i].id = retry[i].id /\ retry'[i].peer = retry[i].peer
                          /\ retry'[i].age <= SearchPeriod => retry[i].age <= SearchPeriod
  BY <1>6
<1>10. IsFiniteSet(listed') /\ listed' # {} /\ sent <= sent' /\ sent \in Nat /\ sent' \in Nat
  BY <1>2, Numbers DEF FloodInv
<1>11. (Single' => Single) /\ (~lapped' => ~lapped) /\ Pending' \subseteq Pending
  BY <1>2, <1>3 DEF Single
<1>12. CongestionOff \/ lapped \/ (YoungestLast /\ YoungestLast')
  BY <1>5, <1>7 DEF FloodInv
<1> QED BY <1>2, <1>5, <1>8, <1>9, <1>10, <1>11, <1>12, QuietFlood

\* A nonempty set of numbers has a smallest.
LEMMA SmallestOne ==
    ASSUME NEW B \in SUBSET Nat, B # {}
    PROVE  \E n \in B : \A m \in B : n <= m
<1>1. PICK n \in B : \A m \in B : ~ (<<m, n>> \in OpToRel(<, Nat))
  BY NatLessThanWellFounded, WFMin, Zenon
<1>2. ASSUME NEW m \in B PROVE n <= m
  <2>1. ~ (m < n)
    BY <1>1 DEF OpToRel
  <2> QED BY <2>1
<1> QED BY <1>2

\* Where a place lies that waits, and that all nearer to the end wait too.
LEMMA BackAndForth ==
    ASSUME TypeOK, NEW i \in Pending
    PROVE  /\ StepsBack(i) \in 1 .. RetrySlots - 1
           /\ RetryBack(retryWrite, StepsBack(i)) = i
           /\ \A n \in 1 .. StepsBack(i) :
                 /\ RetryBack(retryWrite, n) \in Pending
                 /\ StepsBack(RetryBack(retryWrite, n)) = n
<1>1. retryWrite \in RetrySlot /\ retryRead \in RetrySlot /\ i \in RetrySlot
  BY Numbers
<1>2. RetrySlots \in Nat
  OBVIOUS
<1> QED BY <1>1, <1>2, SMT DEF Pending, StepsBack, RetryBack, RetrySlot

\* The search goes back far enough: what it lets through, nobody waits for.
LEMMA SearchFinds ==
    ASSUME TypeOK, RequestInv, YoungestLast, ~lapped, ~retryLapped,
           NEW p \in Peers, NEW id \in 1 .. sent, AcceptAmongMany(p, SeqOf(id))
    PROVE  AskingNow(p, id) = {}
<1> SUFFICES ASSUME NEW i \in AskingNow(p, id) PROVE FALSE
  OBVIOUS
<1> DEFINE s == SeqOf(id)
           stops == {n \in 1 .. RetrySlots - 1 : Matches(Entry(n), p, s) \/ Entry(n).age > SearchPeriod}
           d == StepsBack(i)
           f == Found(p, s)
<1>1. /\ i \in Pending /\ retry[i].peer = p /\ retry[i].id = id /\ retry[i].age <= SearchPeriod
      /\ retry[i].seq = s
  BY DEF AskingNow, RequestInv
<1>2. d \in stops
  <2>1. d \in 1 .. RetrySlots - 1 /\ Entry(d) = retry[i]
    BY <1>1, BackAndForth DEF Entry
  <2> QED BY <1>1, <2>1 DEF Matches
<1>3. f \in stops /\ \A k \in stops : f <= k
  <2>1. f = CHOOSE n \in stops : \A k \in stops : n <= k
    BY <1>2, Zenon DEF Found
  <2>2. \E n \in stops : \A k \in stops : n <= k
    <3>1. stops \in SUBSET Nat /\ stops # {}
      BY <1>2
    <3> HIDE DEF stops
    <3> QED BY <3>1, SmallestOne
  <2> HIDE DEF stops, f
  <2> QED BY <2>1, <2>2
<1>4. f \in 1 .. d
  BY <1>2, <1>3
<1> DEFINE j == RetryBack(retryWrite, f)
<1>5. j \in Pending /\ StepsBack(j) <= StepsBack(i)
  <2> HIDE DEF f
  <2> QED BY <1>1, <1>4, BackAndForth
<1>6. /\ retry[j].age <= SearchPeriod /\ retry[j].active /\ Entry(f) = retry[j]
  <2>1. retry[j].age <= retry[i].age /\ retry[j].active /\ Entry(f) = retry[j]
    BY <1>1, <1>5 DEF YoungestLast, RequestInv, Entry
  <2>2. retry[i].age \in Nat /\ retry[j].age \in Nat
    BY <1>1, <1>5, Numbers
  <2> QED BY <1>1, <2>1, <2>2
<1>7. Matches(Entry(f), p, s)
  <2>1. ~ (retry[j].age > SearchPeriod)
    <3>1. retry[j].age \in Nat
      BY <1>5, Numbers
    <3> QED BY <1>6, <3>1
  <2> QED BY <1>3, <1>6, <2>1
<1> QED BY <1>6, <1>7 DEF AcceptAmongMany

\* The place that was written last is the nearest, the others are one further.
LEMMA OneFurther ==
    ASSUME retryWrite \in RetrySlot, retryWrite' = RetryForward(retryWrite)
    PROVE  /\ \A i \in RetrySlot : i = retryWrite => StepsBack(i)' = 1
           /\ \A i \in RetrySlot \ {retryWrite} : /\ StepsBack(i)' = StepsBack(i) + 1
                                                  /\ StepsBack(i) \in Nat /\ StepsBack(i) > 0
<1>1. ASSUME NEW i \in RetrySlot
      PROVE  StepsBack(i)' = IF i < retryWrite' THEN retryWrite' - i ELSE retryWrite' - i + RetrySlots
  BY DEF StepsBack
<1>2. RetrySlots \in Nat /\ RetrySlots > 1
  OBVIOUS
<1> QED BY <1>1, <1>2, SMT DEF StepsBack, RetryForward, RetrySlot

\* When the write index comes past the other, the ring looks empty.
LEMMA LappedEmpty ==
    ASSUME retryWrite \in RetrySlot, retryWrite = retryRead, retryRead' = retryRead,
           retryWrite' = RetryForward(retryWrite)
    PROVE  Pending' = {}
<1>1. \A i \in RetrySlot : i \notin Pending'
  BY SMT DEF Pending, RetrySlot, RetryForward
<1> QED BY <1>1 DEF Pending

\* The request that is added is the youngest, and its peer has asked at most once
\* before; when the requests lap their ring none of them waits.
LEMMA NackFlood ==
    ASSUME Wide, TypeOK, RingInv, NumberInv, PlaceInv, RequestInv, FloodInv,
           NEW p \in Peers, NEW s \in 0 .. SeqMod - 1, Nack(p, s)
    PROVE  FloodInv'
<1> DEFINE k == seqIndex[s]
           b == queue[k]
<1>1. /\ ~retryLapped /\ lapped' = lapped /\ b # Null /\ listed' = listed /\ sent' = sent
      /\ queue' = [queue EXCEPT ![k] = [b EXCEPT !.flagged = Flags(b), !.asked = 0]]
      /\ retry' = [retry EXCEPT ![retryWrite] =
                     [seq |-> s, id |-> b.id, peer |-> p, age |-> 0, active |-> TRUE]]
      /\ retryLapped' = (retryWrite = retryRead)
      /\ retryWrite' = RetryForward(retryWrite) /\ retryRead' = retryRead
      /\ Accept(p, s)
  BY DEF Nack
<1>2. /\ queue \in [Slot -> Packets \union {Null}] /\ retry \in [RetrySlot -> Entries]
      /\ retryWrite \in RetrySlot /\ retryRead \in RetrySlot /\ k \in Slot /\ b \in Packets
  BY <1>1 DEF TypeOK
<1>3. IsFiniteSet(listed') /\ listed' # {}
  BY <1>1 DEF FloodInv
<1>4. CASE lapped
  BY <1>1, <1>2, <1>3, <1>4, LappedEmpty DEF FloodInv, NoRecentFlood
<1>5. CASE ~lapped /\ retryWrite = retryRead
  <2>1. Pending' = {}
    BY <1>1, <1>2, <1>5, LappedEmpty
  <2>2. ASSUME NEW q \in Peers, NEW id PROVE Cardinality(AskingNow(q, id)') <= 2
    <3>1. AskingNow(q, id)' = {}
      BY <2>1 DEF AskingNow
    <3> QED BY <3>1, FS_EmptySet
  <2>3. NoRecentFlood'
    BY <2>2 DEF NoRecentFlood, AskingNow
  <2> QED BY <1>1, <1>3, <1>5, <2>1, <2>3 DEF FloodInv
<1>6. CASE ~lapped /\ retryWrite # retryRead /\ CongestionOff
  BY <1>1, <1>3, <1>6 DEF FloodInv, NoRecentFlood
<1>7. CASE ~lapped /\ retryWrite # retryRead /\ ~CongestionOff
  <2>1. Pending' = Pending \union {retryWrite} /\ retryWrite \notin Pending /\ Pending \subseteq RetrySlot
    BY <1>1, <1>7, PendingAdded, PendingSlots
  <2>2. PICK n \in 1 .. sent : SeqOf(n) = s /\ n > written - SeqMod
    BY DEF Nack
  <2>3. b.id = n /\ \A j \in Slot : queue[j] # Null /\ queue[j].id = n => j = k
    BY <1>1, <1>7, <2>2, OwnPlace
  <2>4. /\ retry'[retryWrite] = [seq |-> s, id |-> n, peer |-> p, age |-> 0, active |-> TRUE]
        /\ \A i \in Pending : retry'[i] = retry[i]
    BY <1>1, <1>2, <2>1, <2>3
  <2> HIDE DEF k, b
  <2>5. YoungestLast
    BY <1>1, <1>7 DEF FloodInv
  <2>6. YoungestLast'
    <3>1. /\ \A i \in RetrySlot : i = retryWrite => StepsBack(i)' = 1
          /\ \A i \in Pending : /\ StepsBack(i)' = StepsBack(i) + 1
                                 /\ StepsBack(i) \in Nat /\ StepsBack(i) > 0
      <4>1. Pending \subseteq RetrySlot \ {retryWrite}
        BY <2>1
      <4> QED BY <1>1, <1>2, <4>1, OneFurther
    <3>2. \A i \in Pending : retry[i].age \in Nat
      BY Numbers
    <3> SUFFICES ASSUME NEW i \in Pending', NEW j \in Pending', StepsBack(i)' <= StepsBack(j)'
                 PROVE  retry'[i].age <= retry'[j].age
      BY DEF YoungestLast
    <3>3. CASE i = retryWrite
      <4>1. retry'[i].age = 0
        BY <2>4, <3>3
      <4>2. retry'[j].age \in Nat
        BY <2>1, <2>4, <3>2
      <4> QED BY <4>1, <4>2
    <3>4. CASE i \in Pending /\ j \in Pending
      <4>1. StepsBack(i) <= StepsBack(j)
        BY <3>1, <3>4
      <4> QED BY <2>4, <2>5, <3>4, <4>1 DEF YoungestLast
    <3>5. CASE i \in Pending /\ j = retryWrite
      <4>1. StepsBack(j)' = 1 /\ StepsBack(i)' > 1
        BY <1>2, <3>1, <3>5
      <4> QED BY <3>1, <3>5, <4>1
    <3> QED BY <2>1, <3>3, <3>4, <3>5
  <2>7. /\ Asking(n)' = Asking(n) \union {retryWrite} /\ retryWrite \notin Asking(n)
        /\ \A id : id # n => Asking(id)' = Asking(id)
        /\ \A id : Asking(id) \in SUBSET RetrySlot
    BY <2>1, <2>4 DEF Asking
  <2>8. /\ Cardinality(Asking(n)') = Cardinality(Asking(n)) + 1
        /\ \A id : Cardinality(Asking(id)) \in Nat
    BY <2>7, AskingFinite, FS_AddElement
  <2>9. ASSUME Single PROVE SingleInv' /\ \A id \in 1 .. sent : Cardinality(Asking(id)') <= 2
    <3>1. SingleInv /\ AcceptSingle(b)
      BY <1>1, <1>7, <2>9 DEF FloodInv, Accept, b, k
    <3>2. n \in 1 .. MaxPackets /\ b # Null /\ b = queue[k] /\ k \in Slot
      BY <1>1, <1>2, Numbers DEF b, k
    <3>3. /\ ~b.flagged /\ Cardinality(Asking(n)) <= 1
          /\ b.asked = NeverAsked => Asking(n) = {}
      BY <2>3, <3>1, <3>2 DEF SingleInv, AcceptSingle
    <3>4. Cardinality(Asking(n)') <= 2 /\ (b.asked = NeverAsked => Cardinality(Asking(n)') <= 1)
      BY <2>8, <3>3, FS_EmptySet
    <3>5. \A id \in 1 .. sent : Cardinality(Asking(id)') <= 2
      BY <2>7, <3>1, <3>4 DEF SingleInv
    <3>6. /\ queue'[k] = [b EXCEPT !.flagged = Flags(b), !.asked = 0]
          /\ \A j \in Slot : j # k => queue'[j] = queue[j]
      BY <1>1, <1>2 DEF b, k
    <3>7. queue'[k].id = n /\ queue'[k].flagged = Flags(b) /\ queue'[k].asked = 0
      BY <1>2, <2>3, <3>6 DEF Packets
    <3>8. Flags(b) <=> b.asked # NeverAsked
      BY <1>7, <2>9, <3>3 DEF Flags
    <3>9. NeverAsked # 0
      BY DEF NeverAsked
    <3>10. ASSUME NEW j \in Slot, NEW id \in 1 .. MaxPackets, queue'[j] # Null, queue'[j].id = id
           PROVE  /\ ~queue'[j].flagged => Cardinality(Asking(id)') <= 1
                  /\ queue'[j].asked = NeverAsked => Asking(id)' = {}
      <4>1. CASE j = k
        BY <3>4, <3>7, <3>8, <3>9, <3>10, <4>1
      <4>2. CASE j # k
        <5>1. queue'[j] = queue[j] /\ id # n
          BY <2>3, <3>6, <3>10, <4>2
        <5> QED BY <2>7, <3>1, <3>10, <5>1 DEF SingleInv
      <4> QED BY <4>1, <4>2
    <3> QED BY <1>1, <3>5, <3>10 DEF SingleInv
  <2>10. ASSUME NEW q \in Peers, NEW id \in 1 .. sent
         PROVE  Cardinality(AskingNow(q, id)') <= 2
    <3>1. AskingNow(q, id)' \subseteq Asking(id)' /\ Asking(id)' \subseteq RetrySlot
      BY PendingSlots, <1>2, <2>1 DEF AskingNow, Asking
    <3>2. CASE Single
      <4>1. /\ Cardinality(AskingNow(q, id)') <= Cardinality(Asking(id)')
            /\ Cardinality(AskingNow(q, id)') \in Nat /\ Cardinality(Asking(id)') \in Nat
        BY <3>1, Fewer, AskingFinite
      <4> QED BY <2>9, <3>2, <4>1
    <3>3. CASE ~Single /\ q = p /\ id = n
      <4>1. AskingNow(p, n) = {}
        BY <1>1, <1>7, <2>2, <2>5, <3>3, SearchFinds DEF Accept
      <4>2. AskingNow(p, n)' \subseteq {retryWrite}
        BY <2>1, <2>4, <4>1 DEF AskingNow
      <4>3. Cardinality(AskingNow(p, n)') <= 1
        <5>1. Cardinality({retryWrite}) = 1 /\ {retryWrite} \subseteq RetrySlot
          BY <1>2, FS_Singleton
        <5> QED BY <4>2, <5>1, Fewer
      <4>4. Cardinality(AskingNow(p, n)') \in Nat
        BY <3>1, <3>3, AskingFinite
      <4> QED BY <3>3, <4>3, <4>4
    <3>4. CASE ~(q = p /\ id = n)
      <4>1. AskingNow(q, id)' = AskingNow(q, id)
        BY <2>1, <2>4, <3>4 DEF AskingNow
      <4> QED BY <1>7, <4>1, RecentFloodIs DEF FloodInv
    <3> QED BY <3>2, <3>3, <3>4
  <2>11. NoRecentFlood'
    BY <1>1, <2>10 DEF NoRecentFlood, AskingNow
  <2>12. Single' = Single
    BY <1>1 DEF Single
  <2> QED BY <1>1, <1>3, <1>7, <2>6, <2>9, <2>11, <2>12 DEF FloodInv
<1> QED BY <1>4, <1>5, <1>6, <1>7

\* No step breaks the invariant.
LEMMA FloodNext ==
    ASSUME Wide, TypeOK, RingInv, NumberInv, PlaceInv, RequestInv, FloodInv, [Next]_vars
    PROVE  FloodInv'
<1>1. CASE Write
  BY <1>1, WriteFlood
<1>2. CASE SendData
  BY <1>2, SendFlood
<1>3. CASE \E p \in Peers, s \in 0 .. SeqMod - 1 : Nack(p, s)
  BY <1>3, NackFlood
<1>4. CASE Dequeue
  BY <1>4, DequeueFlood
<1>5. CASE Tick
  BY <1>5, TickFlood
<1>6. CASE Loop \/ (\E p \in Peers : AddPeer(p)) \/ UNCHANGED vars
  BY <1>6, OtherFlood
<1> QED BY <1>1, <1>2, <1>3, <1>4, <1>5, <1>6 DEF Next, Loop

LEMMA InitFlood == Init => FloodInv
<1> SUFFICES ASSUME Init PROVE FloodInv
  OBVIOUS
<1>1. /\ \A k \in Slot : queue[k] = Null
      /\ retryWrite = 1 /\ retryRead = 0 /\ sent = 0 /\ \E p : listed = {p}
  BY DEF Init
<1>2. Pending = {}
  BY <1>1, SMT DEF Pending, RetrySlot
<1>3. IsFiniteSet(listed) /\ listed # {}
  <2>1. PICK p : listed = {p}
    BY <1>1
  <2> QED BY <2>1, FS_Singleton
<1>4. NoRecentFlood
  BY <1>1 DEF NoRecentFlood
<1>5. YoungestLast /\ SingleInv
  BY <1>1, <1>2 DEF YoungestLast, SingleInv
<1> QED BY <1>2, <1>3, <1>4, <1>5 DEF FloodInv

\* With one peer its requests for a packet, however old, are no more than two.
LEMMA AloneBounded == FloodInv => NoFloodAlone
<1> SUFFICES ASSUME FloodInv, ~CongestionOff, ~lapped, Single, NEW id \in 1 .. sent
             PROVE  Cardinality({i \in Pending : retry[i].id = id}) <= 2
  BY DEF NoFloodAlone
<1>1. CASE retryLapped
  <2>1. {i \in Pending : retry[i].id = id} = {}
    BY <1>1 DEF FloodInv
  <2> QED BY <2>1, FS_EmptySet
<1>2. CASE ~retryLapped
  BY <1>2 DEF FloodInv, SingleInv, Asking
<1> QED BY <1>1, <1>2

\* However often the receivers ask, and whether one is connected or a second joins:
\* of the requests of one receiver for one packet no more than two wait that are young
\* enough for the search, and while there is one receiver no more than two at all.
THEOREM NoFloodHolds == Wide => (Spec => []NoFlood)
<1> SUFFICES ASSUME Wide PROVE Spec => []NoFlood
  OBVIOUS
<1>1. Inv /\ NumberInv /\ PlaceInv /\ RequestInv /\ FloodInv /\ [Next]_vars => FloodInv'
  BY FloodNext DEF Inv
<1>2. FloodInv => NoFlood
  BY AloneBounded DEF FloodInv, NoFlood
<1> QED BY <1>1, <1>2, InitFlood, QueueInv, NumberInvariant, PlaceInvariant, RequestInvariant, PTL DEF Spec
=============================================================================
