---------------------------- MODULE ReceiverFlow ----------------------------
(***************************************************************************)
(* The receiver's recovery buffer: one rist_flow, written by the protocol  *)
(* thread (receiver_enqueue, receiver_nack_output) and drained by the data *)
(* output thread (receiver_output).                                        *)
(*                                                                         *)
(* Only the first-packet path of receiver_enqueue takes the flow's mutex;  *)
(* the output thread holds it for a whole call of receiver_output.  So the *)
(* rest of receiver_enqueue interleaves with the output thread on the ring *)
(* slots, receiver_queue_size, receiver_queue_has_items and                *)
(* receiver_queue_output_idx.  An enqueue is up to eight steps here: Admit, *)
(* Find, Displace, Publish (the slot points to the packet), Stamp (the     *)
(* packet gets its times, which memory fresh from malloc lacks), AddSize,  *)
(* and for a gap CheckLast, ReadLast and MarkGap.  The output of one packet *)
(* is three (Emit or DropStale, Subtract, Clear).  A thread's stores become *)
(* visible in the order of its program.                                    *)
(*                                                                         *)
(* Sequence numbers are 16 bits and the ring has 2^16 slots, so a slot is  *)
(* a sequence number; Q stands for 2^16.  A packet is its source time      *)
(* (distinct packets of a source have distinct times) with the sequence    *)
(* number SeqOf gives it.  All payloads have the same length, which counts *)
(* 1 in receiver_queue_size.  Time is in ticks shorter than the buffer; a  *)
(* handler finishes within the tick it started in.                         *)
(***************************************************************************)
EXTENDS Integers, Sequences, FiniteSets

CONSTANTS
  Q,              \* slots of the ring = number of sequence numbers
  Sources,        \* source times of the packets the sender emits
  SeqOf,          \* sequence number of the packet emitted at a source time
  Buffer,         \* recovery_buffer_ticks
  LateLimit,      \* 1.1 * recovery_buffer_ticks
  FirstNack,      \* delay before the first NACK (rtt / 2 or reorder buffer)
  NackGap,        \* delay between NACKs of one packet (1.1 * rtt)
  MaxRetries,     \* peer->config.max_retries
  MissingMax,     \* peer->missing_counter_max
  FullMax,        \* 100: buffer-full drops tolerated before a reset
  TooLateMax,     \* 100: stale packets tolerated before a reset
  Null,           \* the empty slot
  Junk,           \* what memory from malloc may hold where a time will be
  \* The surroundings of the flow, and the bounds of the exploration.
  Copies,         \* network: arrivals of one packet, retransmissions included
  MaxReorder,     \* network: greatest age of an original when it arrives
  MaxRetryAge,    \* network: greatest age of a retransmission when it arrives
  OutputJitter,   \* greatest delay of the output thread (max_output_jitter)
  Disruptions,    \* which of "stats", "dead", "flowid" happen
  MaxClock        \* bound: last tick explored

Slots == 0 .. Q - 1

\* struct rist_buffer: seq is the slot; time is the moment it was allocated.
Packet == [src : Sources, time : Nat, ptime : Int]

ASSUME FlowAssumption ==
  /\ Q \in Nat /\ Q > 1
  /\ Sources \subseteq Nat \ {0}
  /\ SeqOf \in [Sources -> Slots]
  /\ Buffer \in Nat \ {0}
  /\ LateLimit \in Buffer .. 2 * Buffer
  /\ FirstNack \in Nat /\ NackGap \in Nat
  /\ MaxRetries \in Nat /\ MissingMax \in Nat
  /\ FullMax \in Nat /\ TooLateMax \in Nat
  /\ Copies \in Nat /\ MaxReorder \in Nat /\ MaxRetryAge \in Nat
  /\ OutputJitter \in Nat \ {0} /\ MaxClock \in Nat
  /\ Disruptions \subseteq {"stats", "dead", "flowid"}
  /\ Junk \subseteq Int

ASSUME NullAssumption == Null \notin Packet

VARIABLES
  clock,
  copies,          \* network: arrivals each packet may still have
  queue,           \* receiver_queue
  queueSize,       \* receiver_queue_size (size_t: a negative value is its residue)
  hasItems,        \* receiver_queue_has_items
  outputIdx,       \* receiver_queue_output_idx
  timeOffset, maxSourceTime, lastPacketTs, lastSeqFound,
  received, droppedLate, droppedFull,       \* stats_instant
  missing,         \* the missing list; mark tells equal entries apart
  marks,           \* history: calls of receiver_mark_missing
  missingCounter,  \* missing_counter
  requested,       \* sequence numbers NACKed to the sender
  epc, epkt,       \* protocol thread: its place in receiver_enqueue, its packet
  lastTime,        \* packet_time_last of receiver_mark_missing
  lastSeqOutput, lastOutputTime, tooLateCtr, flowStart,
  dpc, dslot,      \* output thread: its place in receiver_output, its slot
  delivered,       \* history: blocks handed to the application, oldest first
  collided,        \* history: a packet took the slot of another one in the ring
  torn,            \* history: a packet was played before it was stamped
  uncounted        \* history: and before its length was added, which never was

ringVars == <<queue, queueSize, hasItems, outputIdx>>
sourceVars == <<timeOffset, maxSourceTime, lastPacketTs, lastSeqFound>>
statVars == <<received, droppedLate, droppedFull>>
nackVars == <<missing, marks, missingCounter, requested>>
enqueueVars == <<epc, epkt, lastTime>>
playVars == <<lastSeqOutput, lastOutputTime, tooLateCtr, flowStart, delivered>>
outputVars == <<dpc, dslot>>
raceVars == <<torn, uncounted>>
vars == <<clock, copies, ringVars, sourceVars, statVars, nackVars,
          enqueueVars, playVars, outputVars, collided, raceVars>>

-----------------------------------------------------------------------------
(* Ring arithmetic: "& (receiver_queue_max - 1)".                          *)

\* (Definitions named ...Mutant are what a slip in the code would make of the
\* definition that follows; each one breaks a property.)
NextSlot(i) == IF i = Q - 1 THEN 0 ELSE i + 1
PrevSlot(i) == IF i = 0 THEN Q - 1 ELSE i - 1
Dist(i, j) == IF j >= i THEN j - i ELSE j - i + Q    \* steps forward from i to j

Occupied == {i \in Slots : queue[i] # Null}

\* The occupied slots that come before slot i, looking forward from outputIdx.
Ahead(i) == {j \in Occupied : Dist(outputIdx, j) < Dist(outputIdx, i)}

-----------------------------------------------------------------------------
Entry == [seq : Slots, mark : Nat, insertion : Int, next : Nat, count : Nat]
Block == [src : Sources, disc : BOOLEAN, start : BOOLEAN]
Pending == [src : Sources, ptime : Int, retry : BOOLEAN, ooo : BOOLEAN]

\* The type of every variable.
TypeOK ==
  /\ clock \in Nat
  /\ copies \in [Sources -> Nat]
  /\ queue \in [Slots -> Packet \cup {Null}]
  /\ queueSize \in Int
  /\ hasItems \in BOOLEAN
  /\ outputIdx \in Slots
  /\ timeOffset \in Int /\ maxSourceTime \in Nat /\ lastPacketTs \in Int
  /\ lastSeqFound \in Slots
  /\ received \in Nat /\ droppedLate \in Nat /\ droppedFull \in Nat
  /\ missing \subseteq Entry /\ IsFiniteSet(missing) /\ marks \in Nat
  /\ missingCounter \in Int
  /\ requested \subseteq Slots
  /\ epc \in {"idle", "admitted", "found", "published", "stored", "counted",
             "checked", "timed", "noDupe", "noPacket", "noLast"}
  /\ epc # "idle" => epkt \in Pending
  /\ lastTime \in Int
  /\ lastSeqOutput \in Slots /\ lastOutputTime \in Nat /\ tooLateCtr \in Nat
  /\ flowStart \in BOOLEAN
  /\ dpc \in {"idle", "loop", "taken", "subtracted", "desync"}
  /\ dslot \in Slots
  /\ delivered \in Seq(Block)
  /\ collided \in BOOLEAN /\ torn \in BOOLEAN /\ uncounted \in BOOLEAN

Init ==
  /\ clock = 1
  /\ copies = [n \in Sources |-> Copies]
  /\ queue = [i \in Slots |-> Null]
  /\ queueSize = 0 /\ hasItems = FALSE /\ outputIdx = 0
  /\ timeOffset = 0 /\ maxSourceTime = 0 /\ lastPacketTs = 0
  /\ lastSeqFound = 0
  /\ received = 0 /\ droppedLate = 0 /\ droppedFull = 0
  /\ missing = {} /\ marks = 0 /\ missingCounter = 0 /\ requested = {}
  /\ epc = "idle" /\ epkt = Null /\ lastTime = 0
  /\ lastSeqOutput = 0 /\ lastOutputTime = 0 /\ tooLateCtr = 0
  /\ flowStart = FALSE
  /\ dpc = "idle" /\ dslot = 0
  /\ delivered = << >>
  /\ collided = FALSE /\ torn = FALSE /\ uncounted = FALSE

-----------------------------------------------------------------------------
(* The network: a copy of packet n reaches the protocol thread, the        *)
(* original over one of the bonded peers or an answer to a NACK.           *)

Arrives(n, retry) ==
  /\ epc = "idle"
  /\ copies[n] > 0
  /\ n <= clock
  /\ IF retry THEN SeqOf[n] \in requested /\ clock - n <= MaxRetryAge
              ELSE clock - n <= MaxReorder
  /\ copies' = [copies EXCEPT ![n] = @ - 1]

-----------------------------------------------------------------------------
(* receiver_enqueue.                                                       *)

Fresh(ptime, n) == [src |-> n, time |-> clock, ptime |-> ptime]

\* The slots empty_receiver_queue does not reach: it walks forward from
\* outputIdx until receiver_queue_size is 0 or the loop is complete.
Unreached == {i \in Occupied : /\ queueSize >= 0
                               /\ Cardinality(Ahead(i)) >= queueSize}

\* pthread_mutex_lock(&f->mutex): the output thread holds it in receiver_output.
MutexFree == dpc = "idle"

\* The first packet of a flow, or the first one after a reset: under the
\* flow's mutex.
ReceiveFirst(n) ==
  /\ Arrives(n, FALSE)
  /\ ~hasItems
  /\ MutexFree
  /\ timeOffset' = clock - n
  /\ lastSeqOutput' = PrevSlot(SeqOf[n])
  /\ lastSeqFound' = SeqOf[n]
  /\ maxSourceTime' = n
  /\ flowStart' = TRUE
  /\ missing' = {} /\ missingCounter' = 0
  /\ queue' = [i \in Slots |-> IF i = SeqOf[n] THEN Fresh(clock, n)
                               ELSE IF i \in Unreached THEN queue[i] ELSE Null]
  /\ queueSize' = queueSize - Cardinality(Occupied \ Unreached) + 1
  /\ collided' = (collided \/ SeqOf[n] \in Unreached)
  /\ outputIdx' = SeqOf[n]
  /\ received' = 0 /\ droppedLate' = 0 /\ droppedFull' = 0
  /\ hasItems' = TRUE
  /\ UNCHANGED <<clock, lastPacketTs, marks, requested, enqueueVars,
                 lastOutputTime, tooLateCtr, delivered, outputVars, raceVars>>

\* (last_seq_found + 1) & (UINT16_MAX - 1): the mask clears the lowest bit.
ExpectedSeq == NextSlot(lastSeqFound) - (NextSlot(lastSeqFound) % 2)

\* receiver_calculate_packet_time without a source clock wrap.
NewestTs(n) == IF n > maxSourceTime THEN n + timeOffset ELSE lastPacketTs

OutOfOrder(n) == n + timeOffset < NewestTs(n) /\ SeqOf[n] # ExpectedSeq
TooLate(n) == OutOfOrder(n) /\ clock > n + timeOffset + LateLimit
BufferFullMutant(n) == FALSE
BufferFull(n) == SeqOf[n] = PrevSlot(outputIdx)

SeePacketTime(n) == /\ lastPacketTs' = NewestTs(n)
                    /\ maxSourceTime' = IF n > maxSourceTime THEN n ELSE maxSourceTime

\* A late packet.  One is enough to reset the flow when the count exceeds five
\* times the packets received since the last statistics report; the threshold
\* of 100 in the condition that follows cannot matter any more.
DropLate(n, retry) ==
  /\ Arrives(n, retry)
  /\ hasItems /\ TooLate(n)
  /\ SeePacketTime(n)
  /\ droppedLate' = droppedLate + 1
  /\ hasItems' = (droppedLate + 1 <= 5 * received)
  /\ UNCHANGED <<clock, queue, queueSize, outputIdx, timeOffset, lastSeqFound,
                 received, droppedFull, nackVars, enqueueVars, playVars,
                 outputVars, collided, raceVars>>

\* The slot just behind the reader stands for a full ring.
DropFull(n, retry) ==
  /\ Arrives(n, retry)
  /\ hasItems /\ ~TooLate(n) /\ BufferFull(n)
  /\ SeePacketTime(n)
  /\ lastSeqFound' = IF n + timeOffset > NewestTs(n) THEN SeqOf[n] ELSE lastSeqFound
  /\ droppedFull' = droppedFull + 1
  /\ hasItems' = (droppedFull + 1 <= FullMax)
  /\ UNCHANGED <<clock, queue, queueSize, outputIdx, timeOffset, received,
                 droppedLate, nackVars, enqueueVars, playVars, outputVars,
                 collided, raceVars>>

Admit(n, retry) ==
  /\ Arrives(n, retry)
  /\ hasItems /\ ~TooLate(n) /\ ~BufferFull(n)
  /\ SeePacketTime(n)
  /\ epkt' = [src |-> n, ptime |-> n + timeOffset, retry |-> retry,
              ooo |-> OutOfOrder(n) /\ ~retry]
  /\ epc' = "admitted"
  /\ UNCHANGED <<clock, ringVars, timeOffset, lastSeqFound, statVars, nackVars,
                 lastTime, playVars, outputVars, collided, raceVars>>

InSlot == SeqOf[epkt.src]

\* "if (f->receiver_queue[idx])": there is a packet in the slot.
Find ==
  /\ epc = "admitted"
  /\ queue[InSlot] # Null
  /\ epc' = "found"
  /\ UNCHANGED <<clock, copies, ringVars, sourceVars, statVars, nackVars, epkt,
                 lastTime, playVars, outputVars, collided, raceVars>>

\* The slot is read again; the output thread may have emptied it, and the
\* process dies.
LoseDupe ==
  /\ epc = "found"
  /\ queue[InSlot] = Null
  /\ epc' = "noDupe"
  /\ UNCHANGED <<clock, copies, ringVars, sourceVars, statVars, nackVars, epkt,
                 lastTime, playVars, outputVars, collided, raceVars>>

\* The slot holds this packet already: a duplicate.
Duplicate ==
  /\ epc = "found"
  /\ queue[InSlot] # Null
  /\ queue[InSlot].src = epkt.src
  /\ epc' = "idle"
  /\ UNCHANGED <<clock, copies, ringVars, sourceVars, statVars, nackVars, epkt,
                 lastTime, playVars, outputVars, collided, raceVars>>

\* Another packet found there is freed ("Invalid Dupe"), but its length stays
\* in receiver_queue_size.
Displace ==
  /\ epc = "found"
  /\ queue[InSlot] # Null
  /\ queue[InSlot].src # epkt.src
  /\ queue' = [queue EXCEPT ![InSlot] = Null]
  /\ collided' = TRUE
  /\ epc' = "admitted"
  /\ UNCHANGED <<clock, copies, queueSize, hasItems, outputIdx, sourceVars,
                 statVars, nackVars, epkt, lastTime, playVars, outputVars,
                 raceVars>>

\* The empty slot gets the new packet, which has its number, length and source
\* time and no times of its own yet.
Publish ==
  /\ epc = "admitted"
  /\ queue[InSlot] = Null
  /\ \E j \in Junk : queue' = [queue EXCEPT ![InSlot] = Fresh(j, epkt.src)]
  /\ epc' = "published"
  /\ UNCHANGED <<clock, copies, queueSize, hasItems, outputIdx, sourceVars,
                 statVars, nackVars, epkt, lastTime, playVars, outputVars,
                 collided, raceVars>>

\* packet_time and target_output_time.
Stamp ==
  /\ epc = "published"
  /\ queue[InSlot] # Null
  /\ queue' = [queue EXCEPT ![InSlot] = [@ EXCEPT !.ptime = epkt.ptime]]
  /\ epc' = "stored"
  /\ UNCHANGED <<clock, copies, queueSize, hasItems, outputIdx, sourceVars,
                 statVars, nackVars, epkt, lastTime, playVars, outputVars,
                 collided, raceVars>>

\* The output thread was faster.  The test after the allocation takes the empty
\* slot for a lack of memory, the stores after the test kill the process.
LosePacket ==
  /\ epc = "published"
  /\ queue[InSlot] = Null
  /\ epc' \in {"idle", "noPacket"}
  /\ uncounted' = TRUE
  /\ UNCHANGED <<clock, copies, ringVars, sourceVars, statVars, nackVars, epkt,
                 lastTime, playVars, outputVars, collided, torn>>

AddSize ==
  /\ epc = "stored"
  /\ queueSize' = queueSize + 1
  /\ epc' = "counted"
  /\ UNCHANGED <<clock, copies, queue, hasItems, outputIdx, sourceVars,
                 statVars, nackVars, epkt, lastTime, playVars, outputVars,
                 collided, raceVars>>

-----------------------------------------------------------------------------
(* receiver_mark_missing and rist_receiver_missing.                        *)

\* Sequence numbers between last_seq_found and the packet, exclusive.  A packet
\* that repeats last_seq_found walks the whole ring.
GapSizeMutant(s) == IF s = lastSeqFound THEN Q - 1 ELSE Dist(lastSeqFound, s) - 2
GapSize(s) == IF s = lastSeqFound THEN Q - 1 ELSE Dist(lastSeqFound, s) - 1

\* A gap of more than half the ring is taken for a wrap-around, not a loss.
MarksGap(s) == /\ Dist(lastSeqFound, s) <= Q \div 2
               /\ missingCounter <= MissingMax

\* When the missing packet, k places after last_seq_found, should have come: on
\* the line between its neighbours, or now if that is in the future or older
\* than the buffer (an unsigned difference below 0 counts as the future).
Interpolated(k) ==
  lastTime + (k * (queue[InSlot].ptime - lastTime)) \div (Dist(lastSeqFound, InSlot) + 1)
Insertion(k) ==
  IF \/ queue[InSlot].ptime < lastTime
     \/ Interpolated(k) > clock
     \/ Interpolated(k) < clock - Buffer
  THEN clock ELSE Interpolated(k)

NewlyMissing ==
  {[seq |-> s, mark |-> marks, insertion |-> Insertion(Dist(lastSeqFound, s)),
    next |-> clock + FirstNack, count |-> 0] :
      s \in {t \in Slots : Dist(lastSeqFound, t) \in 1 .. GapSize(InSlot)}}

\* An original that is not out of order and does not follow the last one found.
ShowsGap == ~epkt.retry /\ ~epkt.ooo /\ PrevSlot(InSlot) # lastSeqFound

\* The end of receiver_enqueue for every other packet.
Finish ==
  /\ epc = "counted"
  /\ ~ShowsGap
  /\ received' = received + 1
  /\ lastSeqFound' = IF epkt.retry \/ epkt.ooo THEN lastSeqFound ELSE InSlot
  /\ epc' = "idle"
  /\ UNCHANGED <<clock, copies, ringVars, timeOffset, maxSourceTime,
                 lastPacketTs, droppedLate, droppedFull, nackVars, epkt,
                 lastTime, playVars, outputVars, collided, raceVars>>

\* receiver_mark_missing asks whether the last packet found is still in the ring;
\* its time is now if it is not.
CheckLast ==
  /\ epc = "counted"
  /\ ShowsGap
  /\ received' = received + 1
  /\ IF queue[lastSeqFound] = Null
       THEN epc' = "timed" /\ lastTime' = clock
       ELSE epc' = "checked" /\ lastTime' = lastTime
  /\ UNCHANGED <<clock, copies, ringVars, sourceVars, droppedLate, droppedFull,
                 nackVars, epkt, playVars, outputVars, collided, raceVars>>

\* It reads the slot again for the packet's time: if the output thread has
\* emptied it by now, the process dies.
ReadLast ==
  /\ epc = "checked"
  /\ IF queue[lastSeqFound] = Null
       THEN epc' = "noLast" /\ lastTime' = lastTime
       ELSE epc' = "timed" /\ lastTime' = queue[lastSeqFound].ptime
  /\ UNCHANGED <<clock, copies, ringVars, sourceVars, statVars, nackVars, epkt,
                 playVars, outputVars, collided, raceVars>>

\* It reads the new packet back from its slot, which kills the process if that is
\* empty, marks what is missing between the two, and the new packet is the last
\* one found.
MarkGap ==
  /\ epc = "timed"
  /\ lastTime' = 0
  /\ IF queue[InSlot] = Null
       THEN /\ epc' = "noPacket"
            /\ UNCHANGED <<missing, marks, lastSeqFound>>
       ELSE /\ epc' = "idle"
            /\ missing' = IF MarksGap(InSlot) THEN missing \cup NewlyMissing ELSE missing
            /\ marks' = IF MarksGap(InSlot) THEN marks + 1 ELSE marks
            /\ lastSeqFound' = InSlot
  /\ UNCHANGED <<clock, copies, ringVars, timeOffset, maxSourceTime,
                 lastPacketTs, statVars, missingCounter, requested, epkt,
                 playVars, outputVars, collided, raceVars>>

-----------------------------------------------------------------------------
(* receiver_nack_output and rist_process_nack, once over the whole list.   *)

Arrived(e) == queue[e.seq] # Null
GivenUp(e) == e.count >= MaxRetries \/ clock - e.insertion > LateLimit
Removed(e) == Arrived(e) \/ GivenUp(e)
Nacked(e) == ~Removed(e) /\ clock >= e.next

RenewedMutant(e) == IF Nacked(e) THEN [e EXCEPT !.next = clock + NackGap] ELSE e
Renewed(e) == IF Nacked(e) THEN [e EXCEPT !.next = clock + NackGap, !.count = @ + 1]
              ELSE e

\* rist_process_nack takes the mutex for every packet that is still missing.
NackOutput ==
  /\ epc = "idle"
  /\ missing # {}
  /\ MutexFree \/ \A e \in missing : Arrived(e)
  /\ LET kept == {e \in missing : ~Removed(e)}
         first == {e \in missing : Nacked(e) /\ e.count = 0}
         counted == {e \in missing \ kept : e.count # 0}
     IN /\ missing' = {Renewed(e) : e \in kept}
        /\ missingCounter' = missingCounter + Cardinality(first) - Cardinality(counted)
  /\ requested' = requested \cup {e.seq : e \in {f \in missing : Nacked(f)}}
  /\ UNCHANGED <<clock, copies, ringVars, sourceVars, statVars, marks,
                 enqueueVars, playVars, outputVars, collided, raceVars>>

-----------------------------------------------------------------------------
(* receiver_output.                                                        *)

\* A NULL pointer was dereferenced: no thread of the process goes on.
Dead == epc \in {"noDupe", "noPacket", "noLast"}

Age(i) == clock - queue[i].time
Stale(i) == Age(i) > 2 * Buffer
DueMutant(i) == queue[i].ptime <= clock
Due(i) == queue[i].ptime + Buffer <= clock

ReleasableUnsizedMutant(i) ==
  /\ i \in Occupied /\ Ahead(i) = {}
  /\ Stale(i) \/ Due(i) \/ (i = outputIdx /\ Age(i) > LateLimit)

ReleasableNoScanMutant(i) ==
  /\ queueSize # 0
  /\ i \in Occupied /\ i = outputIdx
  /\ Stale(i) \/ Due(i) \/ Age(i) > LateLimit

\* Slot i holds the packet the output thread looks at next, and it may go.  A
\* packet found past a hole is not released by its age alone.
Releasable(i) ==
  /\ queueSize # 0
  /\ i \in Occupied /\ Ahead(i) = {}
  /\ Stale(i) \/ Due(i) \/ (i = outputIdx /\ Age(i) > LateLimit)

\* Slot i points to the packet whose times are still to be written.
Unstamped(i) == epc = "published" /\ i = InSlot

\* Hand the packet to the application.
Emit(i) ==
  /\ ~Dead
  /\ dpc \in {"idle", "loop"}
  /\ Releasable(i) /\ ~Stale(i)
  /\ delivered' = Append(delivered,
                     [src |-> queue[i].src,
                      disc |-> i # outputIdx \/ i # NextSlot(lastSeqOutput),
                      start |-> flowStart])
  /\ flowStart' = FALSE
  /\ tooLateCtr' = 0
  /\ lastOutputTime' = clock
  /\ lastSeqOutput' = i
  /\ dslot' = i
  /\ dpc' = "taken"
  /\ torn' = (torn \/ Unstamped(i))
  /\ UNCHANGED <<clock, copies, ringVars, sourceVars, statVars, nackVars,
                 enqueueVars, collided, uncounted>>

\* A packet that waited twice the buffer is dropped; too many of them reset
\* the flow and leave the ring as it is (too_late_ctr goes on growing then; it
\* is only compared with TooLateMax, so it stops at TooLateMax + 1 here).
DropStale(i) ==
  /\ ~Dead
  /\ dpc \in {"idle", "loop"}
  /\ Releasable(i) /\ Stale(i)
  /\ tooLateCtr' = IF tooLateCtr > TooLateMax THEN tooLateCtr ELSE tooLateCtr + 1
  /\ IF tooLateCtr >= TooLateMax
       THEN hasItems' = FALSE /\ dpc' = "idle" /\ dslot' = dslot
       ELSE hasItems' = hasItems /\ dpc' = "taken" /\ dslot' = i
  /\ UNCHANGED <<clock, copies, queue, queueSize, outputIdx, sourceVars,
                 statVars, nackVars, enqueueVars, lastSeqOutput,
                 lastOutputTime, flowStart, delivered, collided, raceVars>>

SubtractMutant ==
  /\ ~Dead
  /\ dpc = "taken"
  /\ dpc' = "subtracted"
  /\ UNCHANGED <<clock, copies, ringVars, sourceVars, statVars, nackVars,
                 enqueueVars, playVars, dslot, collided, raceVars>>

Subtract ==
  /\ ~Dead
  /\ dpc = "taken"
  /\ queueSize' = queueSize - 1
  /\ dpc' = "subtracted"
  /\ UNCHANGED <<clock, copies, queue, hasItems, outputIdx, sourceVars,
                 statVars, nackVars, enqueueVars, playVars, dslot, collided, raceVars>>

\* Free the slot and move on; an empty queue ends the call, and resets the flow
\* when nothing has been output for longer than the buffer.
Clear ==
  /\ ~Dead
  /\ dpc = "subtracted"
  /\ queue' = [queue EXCEPT ![dslot] = Null]
  /\ outputIdx' = NextSlot(dslot)
  /\ IF queueSize = 0
       THEN /\ lastOutputTime' = IF lastOutputTime = 0 THEN clock ELSE lastOutputTime
            /\ hasItems' = (hasItems /\ clock - lastOutputTime' <= Buffer)
            /\ dpc' = "idle"
       ELSE lastOutputTime' = clock /\ hasItems' = hasItems /\ dpc' = "loop"
  /\ UNCHANGED <<clock, copies, queueSize, sourceVars, statVars, nackVars,
                 enqueueVars, lastSeqOutput, tooLateCtr, flowStart, delivered,
                 dslot, collided, raceVars>>

\* "This should never happen": the size says there is data and the ring has
\* none.  The reset is two steps, the scan and the store of 0.
FindNothing ==
  /\ ~Dead
  /\ dpc \in {"idle", "loop"}
  /\ queueSize # 0 /\ Occupied = {}
  /\ hasItems' = FALSE
  /\ dpc' = "desync"
  /\ UNCHANGED <<clock, copies, queue, queueSize, outputIdx, sourceVars,
                 statVars, nackVars, enqueueVars, playVars, dslot, collided, raceVars>>

ResetSize ==
  /\ ~Dead
  /\ dpc = "desync"
  /\ queueSize' = 0
  /\ dpc' = "idle"
  /\ UNCHANGED <<clock, copies, queue, hasItems, outputIdx, sourceVars,
                 statVars, nackVars, enqueueVars, playVars, dslot, collided, raceVars>>

\* Nothing is due: wait for the next call.
Return ==
  /\ ~Dead
  /\ dpc = "loop"
  /\ queueSize = 0 \/ (Occupied # {} /\ \A i \in Slots : ~Releasable(i))
  /\ dpc' = "idle"
  /\ UNCHANGED <<clock, copies, ringVars, sourceVars, statVars, nackVars,
                 enqueueVars, playVars, dslot, collided, raceVars>>

-----------------------------------------------------------------------------
(* What else happens to a flow, and time.                                  *)

\* rist_receiver_flow_statistics starts a new interval; it may find the link
\* dead and flush the missing list.  Its caller holds the mutex.
ReportStats ==
  /\ "stats" \in Disruptions
  /\ epc = "idle" /\ MutexFree
  /\ received' = 0 /\ droppedLate' = 0 /\ droppedFull' = 0
  /\ \/ UNCHANGED <<missing, missingCounter>>
     \/ "dead" \in Disruptions /\ missing' = {} /\ missingCounter' = 0
  /\ UNCHANGED <<clock, copies, ringVars, sourceVars, marks, requested,
                 enqueueVars, playVars, outputVars, collided, raceVars>>

\* rist_receiver_recv_data sees another flow id on the flow's peer.
FlowIdChange ==
  /\ "flowid" \in Disruptions
  /\ epc = "idle"
  /\ hasItems
  /\ hasItems' = FALSE
  /\ UNCHANGED <<clock, copies, queue, queueSize, outputIdx, sourceVars,
                 statVars, nackVars, enqueueVars, playVars, outputVars, collided, raceVars>>

\* The output thread is called at least every OutputJitter ticks: a packet it
\* can release does not wait longer than that.
InTime(i) == \/ clock < queue[i].ptime + Buffer + OutputJitter - 1
             \/ clock < queue[i].time + OutputJitter - 1

Tick ==
  /\ epc = "idle" /\ dpc = "idle"
  /\ clock < MaxClock
  /\ \A i \in Slots : Releasable(i) => InTime(i)
  /\ clock' = clock + 1
  /\ UNCHANGED <<copies, ringVars, sourceVars, statVars, nackVars, enqueueVars,
                 playVars, outputVars, collided, raceVars>>

Receive == \E n \in Sources : \E retry \in BOOLEAN :
             DropLate(n, retry) \/ DropFull(n, retry) \/ Admit(n, retry)
Enqueue == \/ Find \/ LoseDupe \/ Duplicate \/ Displace
           \/ Publish \/ Stamp \/ LosePacket \/ AddSize
           \/ Finish \/ CheckLast \/ ReadLast \/ MarkGap

Output == \/ \E i \in Slots : Emit(i) \/ DropStale(i)
          \/ Subtract \/ Clear \/ FindNothing \/ ResetSize \/ Return

Next == \/ \E n \in Sources : ReceiveFirst(n)
        \/ Receive
        \/ Enqueue
        \/ NackOutput
        \/ Output
        \/ ReportStats \/ FlowIdChange
        \/ Tick

Spec == Init /\ [][Next]_vars

\* Both threads run and time passes; nothing obliges the network to deliver.
FairSpec == Spec /\ WF_vars(Enqueue) /\ WF_vars(Output) /\ WF_vars(Tick)

-----------------------------------------------------------------------------
(* Properties.                                                             *)

\* receiver_queue_size counts the packets of the ring, up to the packet each
\* thread is busy with, as long as no packet took another one's slot and none was
\* given up when it had been played before it was counted.  The output thread
\* only looks at the ring when the size is not 0 and loops until it is, and
\* nothing but the order of the steps keeps the two in agreement.
Measured == ~collided /\ ~uncounted
SizeInSync ==
  Measured =>
    queueSize = Cardinality(Occupied)
                  - (IF epc \in {"published", "stored"} THEN 1 ELSE 0)
                  - (IF dpc = "subtracted" THEN 1 ELSE 0)

\* The log of receiver_output: "This should never happen, if this fires queue
\* size is out of sync with reality".
NeverDesynced == dpc # "desync"

\* Without such a packet the size never goes out of sync with the ring.
DesyncOnlyAfterCollision == Measured => NeverDesynced

\* The inductive strengthening of SizeInSync.  A packet the output thread is busy
\* with is still in its slot and counted, so the size never goes below 0, and a
\* size that is not 0 means there is something to find.
TakenSlotHeld == dpc \in {"taken", "subtracted"} => queue[dslot] # Null
SizeCoversTaken == queueSize >= (IF dpc = "taken" THEN 1 ELSE 0)
SizeInv == /\ SizeInSync
           /\ Measured => TakenSlotHeld /\ SizeCoversTaken
           /\ DesyncOnlyAfterCollision

\* missing_counter, which stops the marking of new gaps when it passes
\* missing_counter_max, is the number of missing packets NACKed and not settled.
Asked == {e \in missing : e.count > 0}
MissingCounterExact == missingCounter = Cardinality(Asked)

\* The inductive strengthening of MissingCounterExact.  A batch of gaps has each
\* sequence number once, so no two entries become one when they are renewed.
EntriesApart ==
  /\ \A e \in missing : e.mark < marks
  /\ \A d, e \in missing : d.seq = e.seq /\ d.mark = e.mark => d = e
CounterInv == MissingCounterExact /\ EntriesApart

\* receiver_enqueue reads slots the output thread may empty, the new packet's, a
\* duplicate's and that of the last packet found, and the last of these after a
\* test that may be out of date.  Unless a packet was played unstamped it finds
\* the new packet, and the duplicate; and the last packet found, unless that was
\* sent a whole buffer ago.
PacketFound == epc # "noPacket"
DupeFound == epc # "noDupe"
LastFound == epc = "noLast" =>
               \E n \in Sources : SeqOf[n] = lastSeqFound /\ n + Buffer <= clock
MarkFindsPacket == ~torn => PacketFound /\ DupeFound /\ LastFound

\* A packet the flow has not got, between two it has got, and that can still be
\* played in its place is on the missing list: its neighbours revealed the gap
\* and nothing removed the entry before its time.  (A packet that is played before
\* it is stamped is not looked at any more, nor is the gap before it.)
InRing(n) == \E i \in Slots : queue[i] # Null /\ queue[i].src = n
LastPlayed(n) == delivered # << >> /\ delivered[Len(delivered)].src = n
Wanted(n) ==
  /\ ~InRing(n)
  /\ \E m \in Sources : m < n /\ (InRing(m) \/ LastPlayed(m))
  /\ \E m \in Sources : m > n /\ InRing(m)
  /\ \A m \in Sources : LastPlayed(m) => m < n
  /\ clock <= n + timeOffset + Buffer
HolesAreTracked ==
  ~torn /\ epc = "idle" => \A n \in Sources :
                             Wanted(n) => \E e \in missing : e.seq = SeqOf[n]

\* The flow is re-initialised, and what is in the ring thrown away, only by
\* events the comments name: never while packets keep coming in time, unless one
\* was played unstamped.
NoReset == [][hasItems => hasItems' \/ torn']_vars

\* receiver_enqueue: "if this is the case" (the reader has progressed past the
\* packet) "we silently drop the packet as it would not be output in a valid
\* way anyway".
BehindReaderIsDropped ==
  [][Publish => \A k \in 1 .. Len(delivered) : delivered[k].src < epkt.src]_vars

\* The application sees the blocks in source order, once each, gaps flagged, up to
\* the first one that the output thread judged by times it did not have yet.
P == INSTANCE Playout WITH out <- delivered, broken <- torn
PlaysOut == P!Spec

\* Every packet of the ring is played or dropped some day, as long as the process
\* lives and the size is right: none is stranded by a size of 0 or behind the
\* reader.
NotStranded == \A n \in Sources :
  InRing(n) ~> (~InRing(n) \/ Dead \/ ~Measured)
=============================================================================
