------------------------- MODULE ReceiverFlowProofs -------------------------
(***************************************************************************)
(* Proofs about ReceiverFlow, for every ring size, buffer, set of packets, *)
(* numbering and network: its type invariant, the agreement of             *)
(* receiver_queue_size with the ring and of missing_counter with the       *)
(* missing list, and what receiver_enqueue finds in the slots it reads     *)
(* back; that a flow whose packets come in time is played in order and     *)
(* never reset, and that its holes stay on the missing list as long as     *)
(* they can be filled, up to the first packet that is played before it is  *)
(* stamped.                                                                *)
(***************************************************************************)
EXTENDS ReceiverFlow, FiniteSetTheorems, SequenceTheorems, WellFoundedInduction, TLAPS

USE FlowAssumption, NullAssumption

-----------------------------------------------------------------------------
(* Facts about the operators.                                              *)

\* The ring is finite and its arithmetic stays in it.
LEMMA SlotFacts ==
  /\ 0 \in Slots
  /\ IsFiniteSet(Slots)
  /\ \A i \in Slots : NextSlot(i) \in Slots /\ PrevSlot(i) \in Slots
  /\ \A i, j \in Slots : Dist(i, j) \in 0 .. Q - 1
  /\ \A n \in Sources : SeqOf[n] \in Slots
<1>1. IsFiniteSet(Slots)
  BY FS_Interval DEF Slots
<1>2. QED
  BY <1>1 DEF Slots, NextSlot, PrevSlot, Dist

\* A subset of the ring's slots has a size.
LEMMA SlotSubset ==
  ASSUME NEW S, S \subseteq Slots
  PROVE  IsFiniteSet(S) /\ Cardinality(S) \in Nat
BY SlotFacts, FS_Subset, FS_CardinalityType

\* What a function takes a finite set to is finite.
LEMMA ImageFinite ==
  ASSUME NEW S, IsFiniteSet(S), NEW f, NEW R,
         \A r \in R : \E x \in S : f[x] = r
  PROVE  IsFiniteSet(R)
<1> DEFINE D == {x \in S : f[x] \in R}
           g == [x \in D |-> f[x]]
<1>1. g \in Surjection(D, R)
  BY DEF Surjection
<1>2. IsFiniteSet(D)
  BY FS_Subset
<1>3. QED
  BY <1>1, <1>2, FS_Surjection

\* Integer division gives an integer.
LEMMA DivType ==
  ASSUME NEW a \in Int, NEW b \in Nat, b > 0
  PROVE  a \div b \in Int
OBVIOUS

\* A product of integers is an integer.
LEMMA ProductType ==
  ASSUME NEW a \in Int, NEW b \in Int
  PROVE  a * b \in Int
OBVIOUS

\* The estimated arrival of a missing packet is a time.
LEMMA InsertionType ==
  ASSUME TypeOK, epc = "timed", queue[InSlot] # Null, NEW k \in Nat
  PROVE  Insertion(k) \in Int
<1>0. InSlot \in Slots
  BY SlotFacts DEF TypeOK, InSlot, Pending
<1>1. /\ queue[InSlot].ptime \in Int
      /\ lastTime \in Int
      /\ Dist(lastSeqFound, InSlot) \in Nat
  <2>1. \A i \in Slots : queue[i] # Null => queue[i].ptime \in Int
    BY DEF TypeOK, Packet
  <2>2. lastTime \in Int
    BY DEF TypeOK
  <2>3. Dist(lastSeqFound, InSlot) \in Nat
    BY <1>0, SlotFacts DEF TypeOK
  <2>4. QED
    BY <1>0, <2>1, <2>2, <2>3
<1> DEFINE d == queue[InSlot].ptime - lastTime
           b == Dist(lastSeqFound, InSlot) + 1
<1>2. d \in Int /\ b \in Nat /\ b > 0
  BY <1>1
<1>3. k * d \in Int
  BY <1>2, ProductType
<1>4. (k * d) \div b \in Int
  BY <1>2, <1>3, DivType
<1>5. Interpolated(k) \in Int
  BY <1>1, <1>4 DEF Interpolated
<1>6. QED
  BY <1>5 DEF Insertion, TypeOK

-----------------------------------------------------------------------------
(* Type correctness.                                                       *)

\* What a batch of newly missing packets adds to the missing list.
LEMMA NewlyMissingType ==
  ASSUME TypeOK, epc = "timed", queue[InSlot] # Null
  PROVE  NewlyMissing \subseteq Entry /\ IsFiniteSet(NewlyMissing)
<1> DEFINE gap == {t \in Slots : Dist(lastSeqFound, t) \in 1 .. GapSize(InSlot)}
           entry(s) == [seq |-> s, mark |-> marks,
                        insertion |-> Insertion(Dist(lastSeqFound, s)),
                        next |-> clock + FirstNack, count |-> 0]
<1>1. IsFiniteSet(gap)
  BY SlotSubset
<1>2. NewlyMissing = {entry(s) : s \in gap}
  BY DEF NewlyMissing
<1>3. \A s \in gap : entry(s) \in Entry
  <2> TAKE s \in gap
  <2>1. Dist(lastSeqFound, s) \in Nat
    BY SlotFacts DEF TypeOK
  <2>2. Insertion(Dist(lastSeqFound, s)) \in Int
    BY <2>1, InsertionType
  <2>3. clock + FirstNack \in Nat
    BY DEF TypeOK
  <2>4. QED
    BY <2>2, <2>3 DEF Entry, TypeOK
<1>4. IsFiniteSet(NewlyMissing)
  <2> DEFINE f == [s \in gap |-> entry(s)]
  <2>1. \A r \in NewlyMissing : \E t \in gap : f[t] = r
    BY <1>2
  <2>2. QED
    <3> HIDE DEF f, gap
    <3> QED BY <1>1, <2>1, ImageFinite
<1>5. QED
  BY <1>2, <1>3, <1>4


\* Nothing a round of NACKs writes leaves its type.
LEMMA NackOutputType ==
  ASSUME TypeOK, NackOutput
  PROVE  TypeOK'
<1> DEFINE kept == {e \in missing : ~Removed(e)}
           first == {e \in missing : Nacked(e) /\ e.count = 0}
           counted == {e \in missing \ kept : e.count # 0}
           renewed == {Renewed(e) : e \in kept}
<1>1. \A e \in Entry : Renewed(e) \in Entry
  <2>1. clock + NackGap \in Nat
    BY DEF TypeOK
  <2>2. \A e \in Entry : [e EXCEPT !.next = clock + NackGap, !.count = @ + 1] \in Entry
    <3> TAKE e \in Entry
    <3>1. e.count + 1 \in Nat
      BY DEF Entry
    <3>2. [e EXCEPT !.next = clock + NackGap] \in Entry
      BY <2>1 DEF Entry
    <3>3. [e EXCEPT !.next = clock + NackGap, !.count = @ + 1]
            = [[e EXCEPT !.next = clock + NackGap] EXCEPT !.count = e.count + 1]
      BY DEF Entry
    <3>4. QED
      BY <3>1, <3>2, <3>3 DEF Entry
  <2>3. QED
    BY <2>2 DEF Renewed
<1>2. IsFiniteSet(missing) /\ missing \subseteq Entry
  BY DEF TypeOK
<1>3. Cardinality(first) \in Nat /\ Cardinality(counted) \in Nat
  BY <1>2, FS_Subset, FS_CardinalityType
<1>4. renewed \subseteq Entry
  BY <1>1, <1>2
<1>5. IsFiniteSet(renewed)
  <2> DEFINE f == [e \in kept |-> Renewed(e)]
  <2>1. \A r \in renewed : \E e \in kept : f[e] = r
    OBVIOUS
  <2>2. IsFiniteSet(kept)
    BY <1>2, FS_Subset
  <2>3. QED
    <3> HIDE DEF f, kept, renewed
    <3> QED BY <2>1, <2>2, ImageFinite
<1>6. missing' = renewed /\ missingCounter' = missingCounter + Cardinality(first) - Cardinality(counted)
  BY DEF NackOutput
<1>7. missingCounter' \in Int
  BY <1>3, <1>6 DEF TypeOK
<1>8. requested' \subseteq Slots
  BY <1>2 DEF NackOutput, TypeOK, Entry
<1>9. QED
  BY <1>4, <1>5, <1>6, <1>7, <1>8
  DEF TypeOK, NackOutput, ringVars, sourceVars, statVars, enqueueVars,
      playVars, outputVars, raceVars


\* The types of the parts an arrival and a stored packet are made of.
LEMMA ArrivalType ==
  ASSUME TypeOK, NEW n \in Sources
  PROVE  /\ n \in Nat /\ SeqOf[n] \in Slots
         /\ clock - n \in Int /\ n + timeOffset \in Int
         /\ NewestTs(n) \in Int
         /\ \A p \in Int : Fresh(p, n) \in Packet
         /\ \A retry \in BOOLEAN : Arrives(n, retry) => copies' \in [Sources -> Nat]
<1>1. \A retry \in BOOLEAN : Arrives(n, retry) => copies' \in [Sources -> Nat]
  BY DEF Arrives, TypeOK
<1>2. QED
  BY <1>1, SlotFacts DEF TypeOK, NewestTs, Fresh, Packet

\* The first packet of a flow, or of a flow that was reset, leaves the types.
LEMMA ReceiveFirstType ==
  ASSUME TypeOK, NEW n \in Sources, ReceiveFirst(n)
  PROVE  TypeOK'
<1>1. /\ n \in Nat /\ SeqOf[n] \in Slots /\ PrevSlot(SeqOf[n]) \in Slots
      /\ clock - n \in Int
      /\ Fresh(clock, n) \in Packet
      /\ copies' \in [Sources -> Nat]
  <2>1. Arrives(n, FALSE)
    BY DEF ReceiveFirst
  <2>2. clock \in Int
    BY DEF TypeOK
  <2>3. QED
    BY <2>1, <2>2, ArrivalType, SlotFacts
<1>2. queue' \in [Slots -> Packet \cup {Null}]
  BY <1>1 DEF TypeOK, ReceiveFirst
<1>3. queueSize' \in Int
  <2>1. Cardinality(Occupied \ Unreached) \in Nat
    BY SlotSubset DEF Occupied
  <2>2. QED
    BY <2>1 DEF TypeOK, ReceiveFirst
<1>4. IsFiniteSet({})
  BY FS_EmptySet
<1>5. QED
  BY <1>1, <1>2, <1>3, <1>4
  DEF TypeOK, ReceiveFirst, enqueueVars, outputVars, raceVars

\* What arrives in a running flow.
LEMMA ReceiveType ==
  ASSUME TypeOK, NEW n \in Sources, NEW retry \in BOOLEAN,
         DropLate(n, retry) \/ DropFull(n, retry) \/ Admit(n, retry)
  PROVE  TypeOK'
<1>1. /\ n \in Nat /\ SeqOf[n] \in Slots /\ n + timeOffset \in Int
      /\ NewestTs(n) \in Int
      /\ copies' \in [Sources -> Nat]
  BY ArrivalType DEF DropLate, DropFull, Admit
<1>2. lastPacketTs' \in Int /\ maxSourceTime' \in Nat
  BY <1>1 DEF DropLate, DropFull, Admit, SeePacketTime, TypeOK
<1>3. CASE DropLate(n, retry)
  BY <1>1, <1>2, <1>3
  DEF TypeOK, DropLate, nackVars, enqueueVars, playVars, outputVars, raceVars
<1>4. CASE DropFull(n, retry)
  BY <1>1, <1>2, <1>4
  DEF TypeOK, DropFull, nackVars, enqueueVars, playVars, outputVars, raceVars
<1>5. CASE Admit(n, retry)
  <2>1. epkt' \in Pending
    BY <1>1, <1>5 DEF Admit, Pending, OutOfOrder
  <2>2. QED
    BY <1>1, <1>2, <1>5, <2>1
    DEF TypeOK, Admit, ringVars, statVars, nackVars, playVars, outputVars, raceVars
<1>6. QED
  BY <1>3, <1>4, <1>5

\* The rest of receiver_enqueue.
LEMMA EnqueueType ==
  ASSUME TypeOK, Enqueue
  PROVE  TypeOK'
<1> USE DEF TypeOK, ringVars, sourceVars, statVars, nackVars, playVars,
            outputVars, raceVars
<1>0. epc # "idle" => epkt.src \in Sources /\ epkt.ptime \in Int /\ InSlot \in Slots
  BY SlotFacts DEF Pending, InSlot
<1>1. CASE Find
  BY <1>1 DEF Find
<1>2. CASE LoseDupe
  BY <1>2 DEF LoseDupe
<1>3. CASE Duplicate
  BY <1>3 DEF Duplicate
<1>4. CASE Displace
  BY <1>4 DEF Displace
<1>5. CASE Publish
  <2>1. \A j \in Junk : Fresh(j, epkt.src) \in Packet
    BY <1>0, <1>5, ArrivalType DEF Publish
  <2>2. queue' \in [Slots -> Packet \cup {Null}]
    BY <1>0, <1>5, <2>1 DEF Publish
  <2>3. QED
    BY <1>5, <2>2 DEF Publish
<1>6. CASE Stamp
  <2>1. queue[InSlot] \in Packet
    BY <1>0, <1>6 DEF Stamp
  <2>2. [queue[InSlot] EXCEPT !.ptime = epkt.ptime] \in Packet
    BY <1>0, <1>6, <2>1 DEF Stamp, Packet
  <2>3. queue' \in [Slots -> Packet \cup {Null}]
    BY <1>0, <1>6, <2>2 DEF Stamp
  <2>4. QED
    BY <1>6, <2>3 DEF Stamp
<1>7. CASE LosePacket
  BY <1>7 DEF LosePacket
<1>8. CASE AddSize
  BY <1>8 DEF AddSize
<1>9. CASE Finish
  <2>1. lastSeqFound' \in Slots /\ received' \in Nat
    BY <1>0, <1>9 DEF Finish
  <2>2. QED
    BY <1>9, <2>1 DEF Finish
<1>10. CASE CheckLast
  <2>1. lastTime' \in Int /\ received' \in Nat /\ epc' \in {"checked", "timed"}
    BY <1>10 DEF CheckLast
  <2>2. QED
    BY <1>10, <2>1 DEF CheckLast
<1>11. CASE ReadLast
  <2>1. queue[lastSeqFound] # Null => queue[lastSeqFound].ptime \in Int
    BY DEF Packet
  <2>2. lastTime' \in Int /\ epc' \in {"noLast", "timed"}
    BY <1>11, <2>1 DEF ReadLast
  <2>3. QED
    BY <1>11, <2>2 DEF ReadLast
<1>12. CASE MarkGap
  <2>1. CASE queue[InSlot] = Null
    BY <1>12, <2>1 DEF MarkGap
  <2>2. CASE queue[InSlot] # Null
    <3>1. missing \subseteq Entry /\ IsFiniteSet(missing) /\ marks \in Nat
      OBVIOUS
    <3>2. NewlyMissing \subseteq Entry /\ IsFiniteSet(NewlyMissing)
      BY <1>12, <2>2, NewlyMissingType DEF MarkGap
    <3>3. IsFiniteSet(missing \cup NewlyMissing)
      BY <3>1, <3>2, FS_Union
    <3>4. /\ missing' = IF MarksGap(InSlot) THEN missing \cup NewlyMissing ELSE missing
          /\ marks' = IF MarksGap(InSlot) THEN marks + 1 ELSE marks
          /\ lastSeqFound' = InSlot /\ epc' = "idle" /\ lastTime' = 0
          /\ UNCHANGED <<clock, copies, ringVars, timeOffset, maxSourceTime,
                         lastPacketTs, statVars, missingCounter, requested, epkt,
                         playVars, outputVars, collided, raceVars>>
      BY <1>12, <2>2 DEF MarkGap
    <3>5. missing' \subseteq Entry /\ IsFiniteSet(missing') /\ marks' \in Nat
      BY <3>1, <3>2, <3>3, <3>4
    <3>6. InSlot \in Slots
      BY <1>0, <1>12 DEF MarkGap
    <3>7. QED
      BY <3>4, <3>5, <3>6
  <2>3. QED
    BY <2>1, <2>2
<1>13. QED
  BY <1>1, <1>2, <1>3, <1>4, <1>5, <1>6, <1>7, <1>8, <1>9, <1>10, <1>11, <1>12
  DEF Enqueue

\* receiver_output.
LEMMA OutputType ==
  ASSUME TypeOK, Output
  PROVE  TypeOK'
<1> USE DEF TypeOK, ringVars, sourceVars, statVars, nackVars, enqueueVars,
            playVars, raceVars
<1>1. ASSUME NEW i \in Slots, Emit(i) PROVE TypeOK'
  <2>1. queue[i] \in Packet
    BY <1>1 DEF Emit, Releasable, Occupied
  <2>2. [src |-> queue[i].src,
         disc |-> i # outputIdx \/ i # NextSlot(lastSeqOutput),
         start |-> flowStart] \in Block
    BY <2>1 DEF Packet, Block
  <2>3. delivered' \in Seq(Block)
    BY <1>1, <2>2 DEF Emit
  <2>4. QED
    BY <1>1, <2>3 DEF Emit
<1>2. ASSUME NEW i \in Slots, DropStale(i) PROVE TypeOK'
  <2>1. tooLateCtr' \in Nat
    BY <1>2 DEF DropStale
  <2>2. hasItems' \in BOOLEAN /\ dpc' \in {"idle", "taken"} /\ dslot' \in Slots
    BY <1>2 DEF DropStale
  <2>3. QED
    BY <1>2, <2>1, <2>2 DEF DropStale
<1>3. CASE Subtract
  BY <1>3 DEF Subtract
<1>4. CASE Clear
  <2>1. outputIdx' \in Slots
    BY <1>4, SlotFacts DEF Clear
  <2>2. queue' \in [Slots -> Packet \cup {Null}]
    BY <1>4 DEF Clear
  <2>3. lastOutputTime' \in Nat /\ hasItems' \in BOOLEAN
    BY <1>4 DEF Clear
  <2>4. QED
    BY <1>4, <2>1, <2>2, <2>3 DEF Clear
<1>5. CASE FindNothing
  BY <1>5 DEF FindNothing
<1>6. CASE ResetSize
  BY <1>6 DEF ResetSize
<1>7. CASE Return
  BY <1>7 DEF Return
<1>8. QED
  BY <1>1, <1>2, <1>3, <1>4, <1>5, <1>6, <1>7 DEF Output

\* Every variable keeps its type, whatever the network, the two threads and the
\* bounds: in particular the indices stay in the ring and the missing list finite.
THEOREM TypeCorrect == Spec => []TypeOK
<1>1. Init => TypeOK
  <2> SUFFICES ASSUME Init PROVE TypeOK
    OBVIOUS
  <2>1. IsFiniteSet({})
    BY FS_EmptySet
  <2>2. << >> \in Seq(Block)
    OBVIOUS
  <2>3. missing \subseteq Entry /\ IsFiniteSet(missing)
    BY <2>1 DEF Init
  <2>4. copies \in [Sources -> Nat] /\ queue \in [Slots -> Packet \cup {Null}]
    BY DEF Init
  <2>5. /\ outputIdx \in Slots /\ lastSeqFound \in Slots /\ lastSeqOutput \in Slots
        /\ dslot \in Slots /\ delivered \in Seq(Block) /\ requested \subseteq Slots
    BY <2>2, SlotFacts DEF Init
  <2>6. /\ clock \in Nat /\ queueSize \in Int /\ timeOffset \in Int
        /\ maxSourceTime \in Nat /\ lastPacketTs \in Int
        /\ received \in Nat /\ droppedLate \in Nat /\ droppedFull \in Nat
    BY DEF Init
  <2>7. /\ missingCounter \in Int /\ marks \in Nat
        /\ lastOutputTime \in Nat /\ tooLateCtr \in Nat
    BY DEF Init
  <2>8. /\ hasItems \in BOOLEAN /\ flowStart \in BOOLEAN
        /\ collided \in BOOLEAN /\ torn \in BOOLEAN /\ uncounted \in BOOLEAN
    BY DEF Init
  <2>9. epc = "idle" /\ dpc = "idle" /\ lastTime \in Int
    BY DEF Init
  <2>10. QED
    BY <2>3, <2>4, <2>5, <2>6, <2>7, <2>8, <2>9 DEF TypeOK
<1>2. TypeOK /\ [Next]_vars => TypeOK'
  <2> SUFFICES ASSUME TypeOK, [Next]_vars PROVE TypeOK'
    OBVIOUS
  <2>1. ASSUME NEW n \in Sources, ReceiveFirst(n) PROVE TypeOK'
    BY <2>1, ReceiveFirstType
  <2>2. CASE Receive
    BY <2>2, ReceiveType DEF Receive
  <2>3. CASE Enqueue
    BY <2>3, EnqueueType
  <2>4. CASE NackOutput
    BY <2>4, NackOutputType
  <2>5. CASE Output
    BY <2>5, OutputType
  <2>6. CASE ReportStats
    <3>1. IsFiniteSet({})
      BY FS_EmptySet
    <3>2. missing' \subseteq Entry /\ IsFiniteSet(missing') /\ missingCounter' \in Int
      <4>1. CASE UNCHANGED <<missing, missingCounter>>
        BY <4>1 DEF TypeOK
      <4>2. CASE missing' = {} /\ missingCounter' = 0
        BY <4>2, <3>1
      <4>3. QED
        BY <2>6, <4>1, <4>2 DEF ReportStats
    <3>3. QED
      BY <2>6, <3>2 DEF TypeOK, ReportStats, ringVars, sourceVars,
                        enqueueVars, playVars, outputVars, raceVars
  <2>7. CASE FlowIdChange
    BY <2>7 DEF TypeOK, FlowIdChange, sourceVars, statVars, nackVars,
                enqueueVars, playVars, outputVars, raceVars
  <2>8. CASE Tick
    BY <2>8 DEF TypeOK, Tick, ringVars, sourceVars, statVars, nackVars,
                enqueueVars, playVars, outputVars, raceVars
  <2>9. CASE UNCHANGED vars
    BY <2>9 DEF TypeOK, vars, ringVars, sourceVars, statVars, nackVars,
                 enqueueVars, playVars, outputVars, raceVars
  <2>10. QED
    BY <2>1, <2>2, <2>3, <2>4, <2>5, <2>6, <2>7, <2>8, <2>9 DEF Next
<1>3. QED
  BY <1>1, <1>2, PTL DEF Spec

-----------------------------------------------------------------------------
(* receiver_queue_size agrees with the ring.                               *)

\* A step that leaves the ring, the size and both threads' marks alone.
LEMMA SizeQuiet ==
  ASSUME SizeInv, UNCHANGED <<queue, queueSize, collided, uncounted, dslot>>,
         epc' \in {"published", "stored"} <=> epc \in {"published", "stored"},
         dpc' = "taken" <=> dpc = "taken",
         dpc' = "subtracted" <=> dpc = "subtracted",
         dpc' = "desync" <=> dpc = "desync"
  PROVE  SizeInv'
<1>1. Occupied' = Occupied
  BY DEF Occupied
<1>2. SizeInSync'
  BY <1>1 DEF SizeInv, SizeInSync, Measured
<1>3. Measured' => TakenSlotHeld' /\ SizeCoversTaken'
  BY DEF SizeInv, TakenSlotHeld, SizeCoversTaken, Measured
<1>4. DesyncOnlyAfterCollision'
  BY DEF SizeInv, DesyncOnlyAfterCollision, NeverDesynced, Measured
<1>5. QED
  BY <1>2, <1>3, <1>4 DEF SizeInv

\* Emptying the queue reaches every packet in the ring.
LEMMA ReachesAll ==
  ASSUME TypeOK, SizeInv, Measured, epc = "idle", dpc = "idle"
  PROVE  Unreached = {} /\ queueSize = Cardinality(Occupied)
<1>1. Occupied \subseteq Slots /\ queueSize = Cardinality(Occupied)
  <2>1. Cardinality(Occupied) \in Nat
    BY SlotSubset DEF Occupied
  <2>2. QED
    BY <2>1 DEF SizeInv, SizeInSync, Occupied, Measured
<1>2. Unreached = {}
  <2> SUFFICES ASSUME NEW i \in Occupied, Cardinality(Ahead(i)) >= queueSize
               PROVE  FALSE
    BY DEF Unreached
  <2>1. IsFiniteSet(Occupied) /\ Ahead(i) \subseteq Occupied
    BY <1>1, SlotSubset DEF Ahead
  <2>2. i \notin Ahead(i)
    BY <1>1, SlotFacts DEF Ahead, TypeOK
  <2>3. Cardinality(Ahead(i)) < Cardinality(Occupied)
    BY <2>1, <2>2, FS_Subset, FS_CardinalityType
  <2>4. QED
    BY <1>1, <2>1, <2>3, FS_Subset, FS_CardinalityType
<1>3. QED
  BY <1>1, <1>2

\* Emptying the queue for a first packet reaches every packet in the ring.
LEMMA ReceiveFirstSize ==
  ASSUME TypeOK, SizeInv, NEW n \in Sources, ReceiveFirst(n)
  PROVE  SizeInv'
<1> SUFFICES ASSUME Measured' PROVE SizeInv'
  <2>1. dpc' # "desync"
    BY DEF ReceiveFirst, MutexFree, outputVars
  <2>2. QED
    BY <2>1 DEF SizeInv, SizeInSync, DesyncOnlyAfterCollision, NeverDesynced, Measured
<1>1. Measured /\ epc = "idle" /\ dpc = "idle" /\ SeqOf[n] \in Slots
  BY SlotFacts DEF ReceiveFirst, Arrives, MutexFree, Measured, raceVars
<1>2. Occupied \subseteq Slots
  BY DEF Occupied
<1>3. Unreached = {} /\ queueSize = Cardinality(Occupied)
  BY <1>1, ReachesAll
<1>4. queueSize' = 1
  <2>1. Cardinality(Occupied) \in Nat /\ Occupied \ Unreached = Occupied
    BY <1>2, <1>3, SlotSubset
  <2>2. QED
    BY <1>3, <2>1 DEF ReceiveFirst
<1>5. Occupied' = {SeqOf[n]}
  <2>1. Fresh(clock, n) # Null
    BY ArrivalType DEF TypeOK
  <2>2. \A i \in Slots : queue'[i] # Null <=> i = SeqOf[n]
    BY <1>3, <2>1 DEF ReceiveFirst
  <2>3. QED
    BY <1>1, <2>2 DEF Occupied
<1>6. Cardinality(Occupied') = 1
  BY <1>5, FS_Singleton
<1>7. epc' = "idle" /\ dpc' = "idle"
  BY <1>1 DEF ReceiveFirst, enqueueVars, outputVars
<1>8. QED
  BY <1>4, <1>6, <1>7 DEF SizeInv, SizeInSync, TakenSlotHeld, SizeCoversTaken,
                          DesyncOnlyAfterCollision, NeverDesynced

\* Filling a slot with a packet that is not counted yet.
LEMMA PublishSize ==
  ASSUME TypeOK, SizeInv, Publish
  PROVE  SizeInv'
<1>1. PICK p \in Packet : queue' = [queue EXCEPT ![InSlot] = p]
  <2>1. PICK j \in Junk : queue' = [queue EXCEPT ![InSlot] = Fresh(j, epkt.src)]
    BY DEF Publish
  <2>2. epkt.src \in Sources
    BY DEF Publish, TypeOK, Pending
  <2>3. Fresh(j, epkt.src) \in Packet
    BY <2>2, ArrivalType
  <2>4. QED
    BY <2>1, <2>3
<1>2. /\ queue[InSlot] = Null /\ epc = "admitted" /\ epc' = "published"
      /\ UNCHANGED <<dpc, dslot, queueSize, collided, uncounted>>
  BY DEF Publish, outputVars, raceVars
<1>3. InSlot \in Slots /\ p # Null
  BY <1>2, SlotFacts DEF InSlot, TypeOK, Pending
<1>4. InSlot \notin Occupied /\ Occupied' = Occupied \cup {InSlot}
  BY <1>1, <1>2, <1>3 DEF Occupied, TypeOK
<1>5. /\ Cardinality(Occupied) \in Nat
      /\ Cardinality(Occupied') = Cardinality(Occupied) + 1
  <2>1. IsFiniteSet(Occupied) /\ Cardinality(Occupied) \in Nat
    BY SlotSubset DEF Occupied
  <2>2. QED
    BY <1>4, <2>1, FS_AddElement
<1>6. SizeInSync'
  BY <1>2, <1>5 DEF SizeInv, SizeInSync, TypeOK, Measured
<1>7. Measured' => TakenSlotHeld'
  BY <1>1, <1>2, <1>3 DEF SizeInv, TakenSlotHeld, TypeOK, Measured
<1>8. (Measured' => SizeCoversTaken') /\ DesyncOnlyAfterCollision'
  BY <1>2 DEF SizeInv, SizeCoversTaken, DesyncOnlyAfterCollision, NeverDesynced, Measured
<1>9. QED
  BY <1>6, <1>7, <1>8 DEF SizeInv

\* Stamping the packet of a slot leaves it there.
LEMMA StampSize ==
  ASSUME TypeOK, SizeInv, Stamp
  PROVE  SizeInv'
<1>1. /\ queue[InSlot] # Null /\ epc = "published" /\ epc' = "stored"
      /\ queue' = [queue EXCEPT ![InSlot] = [@ EXCEPT !.ptime = epkt.ptime]]
      /\ UNCHANGED <<dpc, dslot, queueSize, collided, uncounted>>
  BY DEF Stamp, outputVars, raceVars
<1>2. /\ InSlot \in Slots
      /\ [queue[InSlot] EXCEPT !.ptime = epkt.ptime] # Null
  <2>1. InSlot \in Slots /\ epkt.ptime \in Int /\ queue[InSlot] \in Packet
    BY <1>1, SlotFacts DEF InSlot, TypeOK, Pending
  <2>2. [queue[InSlot] EXCEPT !.ptime = epkt.ptime] \in Packet
    BY <2>1 DEF Packet
  <2>3. QED
    BY <2>1, <2>2
<1>3. \A i \in Slots : queue'[i] = Null <=> queue[i] = Null
  BY <1>1, <1>2 DEF TypeOK
<1>4. Occupied' = Occupied
  BY <1>3 DEF Occupied
<1>5. SizeInSync'
  BY <1>1, <1>4 DEF SizeInv, SizeInSync, Measured
<1>6. Measured' => TakenSlotHeld' /\ SizeCoversTaken'
  BY <1>1, <1>3 DEF SizeInv, TakenSlotHeld, SizeCoversTaken, TypeOK, Measured
<1>7. DesyncOnlyAfterCollision'
  BY <1>1 DEF SizeInv, DesyncOnlyAfterCollision, NeverDesynced, Measured
<1>8. QED
  BY <1>5, <1>6, <1>7 DEF SizeInv

\* The steps after which the size promises nothing any more.
LEMMA UnmeasuredSize ==
  ASSUME SizeInv, Displace \/ LosePacket
  PROVE  SizeInv'
<1>1. ~Measured'
  BY DEF Displace, LosePacket, Measured
<1>2. QED
  BY <1>1 DEF SizeInv, SizeInSync, DesyncOnlyAfterCollision, Measured

\* Counting a stored packet restores the sum.
LEMMA AddSizeSize ==
  ASSUME TypeOK, SizeInv, AddSize
  PROVE  SizeInv'
<1>1. /\ epc = "stored" /\ epc' = "counted" /\ queueSize' = queueSize + 1
      /\ UNCHANGED <<queue, dpc, dslot, collided, uncounted>>
  BY DEF AddSize, outputVars, raceVars
<1>2. Occupied' = Occupied /\ Cardinality(Occupied) \in Nat
  BY <1>1, SlotSubset DEF Occupied
<1>3. SizeInSync'
  BY <1>1, <1>2 DEF SizeInv, SizeInSync, TypeOK, Measured
<1>4. Measured' => TakenSlotHeld' /\ SizeCoversTaken'
  BY <1>1 DEF SizeInv, TakenSlotHeld, SizeCoversTaken, TypeOK, Measured
<1>5. DesyncOnlyAfterCollision'
  BY <1>1 DEF SizeInv, DesyncOnlyAfterCollision, NeverDesynced, Measured
<1>6. QED
  BY <1>3, <1>4, <1>5 DEF SizeInv

\* The output thread: what it takes is counted until it subtracts it, and it
\* frees exactly that.
LEMMA OutputSize ==
  ASSUME TypeOK, SizeInv, Output
  PROVE  SizeInv'
<1> DEFINE Quiet == UNCHANGED <<queue, collided, uncounted, epc>>
<1>1. ASSUME NEW i \in Slots, Emit(i) \/ DropStale(i)
      PROVE  SizeInv'
  <2>1. /\ Quiet /\ queueSize' = queueSize /\ queueSize # 0 /\ queue[i] # Null
        /\ dpc \in {"idle", "loop"}
        /\ \/ dpc' = "idle" /\ dslot' = dslot
           \/ dpc' = "taken" /\ dslot' = i
    BY <1>1 DEF Emit, DropStale, Releasable, Occupied, ringVars, enqueueVars, raceVars
  <2>2. Occupied' = Occupied
    BY <2>1 DEF Occupied
  <2>3. SizeInSync'
    BY <2>1, <2>2 DEF SizeInv, SizeInSync, Measured
  <2>4. Measured' => TakenSlotHeld' /\ SizeCoversTaken'
    BY <2>1 DEF SizeInv, TakenSlotHeld, SizeCoversTaken, TypeOK, Measured
  <2>5. DesyncOnlyAfterCollision'
    BY <2>1 DEF DesyncOnlyAfterCollision, NeverDesynced, Measured
  <2>6. QED
    BY <2>3, <2>4, <2>5 DEF SizeInv
<1>2. CASE Subtract
  <2>1. /\ Quiet /\ queueSize' = queueSize - 1 /\ dslot' = dslot
        /\ dpc = "taken" /\ dpc' = "subtracted"
    BY <1>2 DEF Subtract, enqueueVars, raceVars
  <2>2. Occupied' = Occupied /\ Cardinality(Occupied) \in Nat
    BY <2>1, SlotSubset DEF Occupied
  <2>3. SizeInSync'
    BY <2>1, <2>2 DEF SizeInv, SizeInSync, TypeOK, Measured
  <2>4. Measured' => TakenSlotHeld' /\ SizeCoversTaken'
    BY <2>1 DEF SizeInv, TakenSlotHeld, SizeCoversTaken, TypeOK, Measured
  <2>5. DesyncOnlyAfterCollision'
    BY <2>1 DEF DesyncOnlyAfterCollision, NeverDesynced, Measured
  <2>6. QED
    BY <2>3, <2>4, <2>5 DEF SizeInv
<1>3. CASE Clear
  <2>1. /\ queue' = [queue EXCEPT ![dslot] = Null] /\ queueSize' = queueSize
        /\ UNCHANGED <<collided, uncounted, epc>>
        /\ dpc = "subtracted" /\ dpc' \in {"idle", "loop"}
    BY <1>3 DEF Clear, enqueueVars, raceVars
  <2>2. Measured => dslot \in Occupied
    BY <2>1 DEF SizeInv, TakenSlotHeld, Occupied, TypeOK, Measured
  <2>3. Occupied' = Occupied \ {dslot}
    BY <2>1 DEF Occupied, TypeOK
  <2>4. /\ Cardinality(Occupied) \in Nat
        /\ Measured => Cardinality(Occupied') = Cardinality(Occupied) - 1
    <3>1. IsFiniteSet(Occupied) /\ Cardinality(Occupied) \in Nat
      BY SlotSubset DEF Occupied
    <3>2. QED
      BY <2>2, <2>3, <3>1, FS_RemoveElement
  <2>5. SizeInSync'
    BY <2>1, <2>4 DEF SizeInv, SizeInSync, TypeOK, Measured
  <2>6. Measured' => TakenSlotHeld' /\ SizeCoversTaken'
    BY <2>1 DEF SizeInv, TakenSlotHeld, SizeCoversTaken, Measured
  <2>7. DesyncOnlyAfterCollision'
    BY <2>1 DEF DesyncOnlyAfterCollision, NeverDesynced, Measured
  <2>8. QED
    BY <2>5, <2>6, <2>7 DEF SizeInv
<1>4. CASE FindNothing
  <2>1. /\ Quiet /\ queueSize' = queueSize /\ queueSize # 0 /\ Occupied = {}
        /\ dpc \in {"idle", "loop"} /\ dpc' = "desync"
    BY <1>4 DEF FindNothing, enqueueVars, raceVars
  <2>2. Cardinality(Occupied) = 0
    BY <2>1, FS_EmptySet
  <2>3. ~Measured
    BY <2>1, <2>2 DEF SizeInv, SizeInSync, SizeCoversTaken, TypeOK, Measured
  <2>4. QED
    BY <2>1, <2>3 DEF SizeInv, SizeInSync, DesyncOnlyAfterCollision, Measured
<1>5. CASE ResetSize
  <2>1. dpc = "desync" /\ dpc' = "idle" /\ UNCHANGED <<collided, uncounted>>
    BY <1>5 DEF ResetSize, raceVars
  <2>2. ~Measured
    BY <2>1 DEF SizeInv, DesyncOnlyAfterCollision, NeverDesynced, Measured
  <2>3. QED
    BY <2>1, <2>2 DEF SizeInv, SizeInSync, DesyncOnlyAfterCollision, Measured
<1>6. CASE Return
  <2>1. UNCHANGED <<queue, queueSize, collided, uncounted, dslot, epc>>
        /\ dpc = "loop" /\ dpc' = "idle"
    BY <1>6 DEF Return, ringVars, enqueueVars, raceVars
  <2>2. QED
    BY <2>1, SizeQuiet
<1>7. QED
  BY <1>1, <1>2, <1>3, <1>4, <1>5, <1>6 DEF Output

\* The steps that touch neither the ring, nor its size, nor a thread's place
\* between filling or freeing a slot and counting it.
LEMMA OtherSize ==
  ASSUME SizeInv,
         \/ Receive
         \/ Find \/ LoseDupe \/ Duplicate
         \/ Finish \/ CheckLast \/ ReadLast \/ MarkGap
         \/ NackOutput
         \/ ReportStats \/ FlowIdChange \/ Tick
         \/ UNCHANGED vars
  PROVE  SizeInv'
<1>1. /\ UNCHANGED <<queue, queueSize, collided, uncounted, dpc, dslot>>
      /\ epc' \in {"published", "stored"} <=> epc \in {"published", "stored"}
  BY DEF Receive, DropLate, DropFull, Admit, Arrives, Find, LoseDupe, Duplicate,
         Finish, CheckLast, ReadLast, MarkGap, NackOutput, ReportStats, FlowIdChange, Tick, vars,
         ringVars, enqueueVars, outputVars, raceVars
<1>2. QED
  BY <1>1, SizeQuiet

\* SizeInv is inductive: it holds from the start and every step of either thread
\* keeps it.
THEOREM SizeInvariant == Spec => []SizeInv
<1>1. Init => SizeInv
  <2> SUFFICES ASSUME Init PROVE SizeInv
    OBVIOUS
  <2>1. Occupied = {} /\ queueSize = 0 /\ epc = "idle" /\ dpc = "idle"
    BY DEF Init, Occupied
  <2>2. QED
    BY <2>1, FS_EmptySet DEF SizeInv, SizeInSync, TakenSlotHeld,
             SizeCoversTaken, DesyncOnlyAfterCollision, NeverDesynced
<1>2. TypeOK /\ SizeInv /\ [Next]_vars => SizeInv'
  <2> SUFFICES ASSUME TypeOK, SizeInv, [Next]_vars PROVE SizeInv'
    OBVIOUS
  <2>1. ASSUME NEW n \in Sources, ReceiveFirst(n) PROVE SizeInv'
    BY <2>1, ReceiveFirstSize
  <2>2. CASE Publish \/ Stamp \/ Displace \/ LosePacket
    BY <2>2, PublishSize, StampSize, UnmeasuredSize
  <2>3. CASE AddSize
    BY <2>3, AddSizeSize
  <2>4. CASE Output
    BY <2>4, OutputSize
  <2>5. CASE \/ Receive
             \/ Find \/ LoseDupe \/ Duplicate
             \/ Finish \/ CheckLast \/ ReadLast \/ MarkGap
             \/ NackOutput
             \/ ReportStats \/ FlowIdChange \/ Tick
             \/ UNCHANGED vars
    BY <2>5, OtherSize
  <2>6. QED
    BY <2>1, <2>2, <2>3, <2>4, <2>5 DEF Next, Enqueue
<1>3. QED
  BY <1>1, <1>2, TypeCorrect, PTL DEF Spec

\* receiver_queue_size counts the packets of the ring (up to the packet each
\* thread is busy with) in every flow in which no packet took another's slot and
\* none was played before it was counted.
THEOREM QueueSizeCorrect == Spec => []SizeInSync
<1>1. SizeInv => SizeInSync
  BY DEF SizeInv
<1>2. QED
  BY <1>1, SizeInvariant, PTL

\* The branch receiver_output calls impossible is reached only after a packet
\* took another one's slot ("Invalid Dupe"), or was played before it was stamped
\* and given up for that.
THEOREM DesyncNeedsCollision == Spec => []DesyncOnlyAfterCollision
<1>1. SizeInv => DesyncOnlyAfterCollision
  BY DEF SizeInv
<1>2. QED
  BY <1>1, SizeInvariant, PTL

-----------------------------------------------------------------------------
(* missing_counter counts the missing packets that were NACKed.            *)

\* A step that leaves the missing list and its counter alone.
LEMMA CounterQuiet ==
  ASSUME CounterInv, UNCHANGED nackVars
  PROVE  CounterInv'
BY DEF CounterInv, MissingCounterExact, EntriesApart, Asked, nackVars

\* An empty missing list with a counter of 0.
LEMMA CounterFlushed ==
  ASSUME missing' = {}, missingCounter' = 0
  PROVE  CounterInv'
<1>1. Asked' = {}
  BY DEF Asked
<1>2. QED
  BY <1>1, FS_EmptySet DEF CounterInv, MissingCounterExact, EntriesApart

\* New gaps come with a mark of their own and have not been asked for.
LEMMA MarkGapCounter ==
  ASSUME TypeOK, CounterInv, MarkGap
  PROVE  CounterInv'
<1>1. missingCounter' = missingCounter
  BY DEF MarkGap, nackVars
<1>2. CASE missing' = missing /\ marks' = marks
  BY <1>1, <1>2 DEF CounterInv, MissingCounterExact, EntriesApart, Asked
<1>3. CASE missing' = missing \cup NewlyMissing /\ marks' = marks + 1
  <2>1. \A e \in missing : e.mark < marks /\ e.mark \in Nat
    BY DEF CounterInv, EntriesApart, TypeOK, Entry
  <2>2. \A e \in NewlyMissing : e.mark = marks /\ e.count = 0
    BY DEF NewlyMissing
  <2>3. \A d, e \in NewlyMissing : d.seq = e.seq => d = e
    BY DEF NewlyMissing
  <2>4. marks \in Nat
    BY DEF TypeOK
  <2>5. Asked' = Asked
    BY <1>3, <2>2 DEF Asked
  <2>6. EntriesApart'
    <3>1. \A e \in missing' : e.mark < marks'
      BY <1>3, <2>1, <2>2, <2>4
    <3>2. ASSUME NEW d \in missing', NEW e \in missing',
                 d.seq = e.seq, d.mark = e.mark
          PROVE  d = e
      <4>1. CASE d \in missing /\ e \in missing
        BY <3>2, <4>1 DEF CounterInv, EntriesApart
      <4>2. CASE d \in NewlyMissing /\ e \in NewlyMissing
        BY <3>2, <4>2, <2>3
      <4>3. CASE d \in missing /\ e \in NewlyMissing
        BY <3>2, <4>3, <2>1, <2>2, <2>4
      <4>4. CASE d \in NewlyMissing /\ e \in missing
        BY <3>2, <4>4, <2>1, <2>2, <2>4
      <4>5. QED
        BY <1>3, <3>2, <4>1, <4>2, <4>3, <4>4
    <3>3. QED
      BY <3>1, <3>2 DEF EntriesApart
  <2>7. QED
    BY <1>1, <2>5, <2>6 DEF CounterInv, MissingCounterExact
<1>4. QED
  BY <1>2, <1>3 DEF MarkGap

\* What a round of NACKs does to an entry it keeps.
LEMMA RenewedFacts ==
  ASSUME TypeOK, NEW e \in missing
  PROVE  /\ Renewed(e).seq = e.seq /\ Renewed(e).mark = e.mark
         /\ Renewed(e).count > 0 <=> e.count > 0 \/ Nacked(e)
<1>1. e \in Entry
  BY DEF TypeOK
<1>2. CASE Nacked(e)
  BY <1>1, <1>2 DEF Renewed, Entry
<1>3. CASE ~Nacked(e)
  BY <1>1, <1>3 DEF Renewed, Entry
<1>4. QED
  BY <1>2, <1>3

\* A round of NACKs counts the entries it asks for the first time and forgets
\* those it removes after they were asked for.
LEMMA NackOutputCounter ==
  ASSUME TypeOK, CounterInv, NackOutput
  PROVE  CounterInv'
<1> DEFINE kept == {e \in missing : ~Removed(e)}
           first == {e \in missing : Nacked(e) /\ e.count = 0}
           counted == {e \in missing \ kept : e.count # 0}
           still == (Asked \ counted) \cup first
<1>1. /\ missing' = {Renewed(e) : e \in kept}
      /\ missingCounter' = missingCounter + Cardinality(first) - Cardinality(counted)
      /\ marks' = marks
  BY DEF NackOutput
<1>2. /\ \A e \in missing : e.count \in Nat
      /\ \A e \in missing : Nacked(e) => e \in kept
  BY DEF TypeOK, Entry, Nacked
<1>3. \A e \in kept : /\ Renewed(e).seq = e.seq /\ Renewed(e).mark = e.mark
                      /\ Renewed(e).count > 0 <=> e.count > 0 \/ Nacked(e)
  BY RenewedFacts
<1>4. EntriesApart'
  <2>1. \A e \in missing' : e.mark < marks'
    BY <1>1, <1>3 DEF CounterInv, EntriesApart
  <2>2. ASSUME NEW d \in missing', NEW e \in missing',
               d.seq = e.seq, d.mark = e.mark
        PROVE  d = e
    <3>1. PICK d0 \in kept : d = Renewed(d0)
      BY <1>1
    <3>2. PICK e0 \in kept : e = Renewed(e0)
      BY <1>1
    <3>3. d0.seq = e0.seq /\ d0.mark = e0.mark
      BY <1>3, <2>2, <3>1, <3>2
    <3>4. d0 = e0
      BY <3>3 DEF CounterInv, EntriesApart
    <3>5. QED
      BY <3>1, <3>2, <3>4
  <2>3. QED
    BY <2>1, <2>2 DEF EntriesApart
<1>5. still = {e \in kept : e.count > 0 \/ Nacked(e)}
  BY <1>2 DEF Asked
<1>6. Cardinality(Asked') = Cardinality(still)
  <2> DEFINE f == [e \in still |-> Renewed(e)]
  <2>1. \A e \in still : Renewed(e) \in Asked'
    BY <1>1, <1>3, <1>5 DEF Asked
  <2>2. \A r \in Asked' : \E e \in still : Renewed(e) = r
    BY <1>1, <1>3, <1>5 DEF Asked
  <2>3. ASSUME NEW d \in still, NEW e \in still, Renewed(d) = Renewed(e)
        PROVE  d = e
    <3>1. d.seq = e.seq /\ d.mark = e.mark
      BY <1>3, <1>5, <2>3
    <3>2. QED
      BY <1>5, <3>1 DEF CounterInv, EntriesApart
  <2>4. IsFiniteSet(still)
    BY <1>5, FS_Subset DEF TypeOK
  <2>5. f \in Bijection(still, Asked')
    <3>1. /\ f \in [still -> Asked']
          /\ \A e \in still : f[e] = Renewed(e)
      BY <2>1
    <3>2. \A d, e \in still : f[d] = f[e] => d = e
      BY <2>3, <3>1
    <3>3. \A r \in Asked' : \E e \in still : f[e] = r
      BY <2>2, <3>1
    <3>4. QED
      <4> HIDE DEF still, f
      <4> QED BY <3>1, <3>2, <3>3 DEF Bijection, Injection, Surjection, IsInjective
  <2>6. ExistsBijection(still, Asked')
    BY <2>5 DEF ExistsBijection
  <2>7. QED
    <3> HIDE DEF still
    <3> QED BY <2>4, <2>6, FS_Bijection
<1>7. Cardinality(still) = Cardinality(Asked) - Cardinality(counted) + Cardinality(first)
  <2>1. IsFiniteSet(Asked) /\ IsFiniteSet(first) /\ IsFiniteSet(counted)
    BY FS_Subset DEF TypeOK, Asked
  <2>2. counted \subseteq Asked /\ Asked \cap first = {}
    BY <1>2 DEF Asked
  <2>3. Cardinality(Asked \ counted) = Cardinality(Asked) - Cardinality(counted)
    <3>1. Asked \cap counted = counted
      BY <2>2
    <3>2. QED
      <4> HIDE DEF counted
      <4> QED BY <2>1, <3>1, FS_Difference
  <2>4. Cardinality(still) = Cardinality(Asked \ counted) + Cardinality(first)
    <3>1. IsFiniteSet(Asked \ counted)
      BY <2>1, FS_Subset
    <3>2. (Asked \ counted) \cap first = {}
      BY <2>2
    <3>3. Cardinality((Asked \ counted) \cap first) = 0
      BY <3>2, FS_EmptySet
    <3>4. Cardinality(Asked \ counted) \in Nat /\ Cardinality(first) \in Nat
      BY <2>1, <3>1, FS_CardinalityType
    <3>5. Cardinality((Asked \ counted) \cup first)
            = Cardinality(Asked \ counted) + Cardinality(first)
                - Cardinality((Asked \ counted) \cap first)
      <4> HIDE DEF first, counted
      <4> QED BY <2>1, <3>1, FS_Union
    <3>6. QED
      <4> HIDE DEF first, counted
      <4> QED BY <3>3, <3>4, <3>5
  <2>5. QED
    BY <2>3, <2>4
<1>8. MissingCounterExact'
  <2>1. /\ Cardinality(Asked) \in Nat /\ Cardinality(first) \in Nat
        /\ Cardinality(counted) \in Nat
    <3>1. IsFiniteSet(Asked) /\ IsFiniteSet(first) /\ IsFiniteSet(counted)
      BY FS_Subset DEF TypeOK, Asked
    <3>2. QED
      BY <3>1, FS_CardinalityType
  <2>2. missingCounter = Cardinality(Asked)
    BY DEF CounterInv, MissingCounterExact
  <2>3. QED
    <3> HIDE DEF first, counted, still
    <3> QED BY <1>1, <1>6, <1>7, <2>1, <2>2 DEF MissingCounterExact
<1>9. QED
  BY <1>4, <1>8 DEF CounterInv

\* CounterInv is inductive.
THEOREM CounterInvariant == Spec => []CounterInv
<1>1. Init => CounterInv
  <2> SUFFICES ASSUME Init PROVE CounterInv
    OBVIOUS
  <2>1. Asked = {} /\ missing = {} /\ missingCounter = 0
    BY DEF Init, Asked
  <2>2. QED
    BY <2>1, FS_EmptySet DEF CounterInv, MissingCounterExact, EntriesApart
<1>2. TypeOK /\ CounterInv /\ [Next]_vars => CounterInv'
  <2> SUFFICES ASSUME TypeOK, CounterInv, [Next]_vars PROVE CounterInv'
    OBVIOUS
  <2>1. ASSUME NEW n \in Sources, ReceiveFirst(n) PROVE CounterInv'
    BY <2>1, CounterFlushed DEF ReceiveFirst
  <2>2. CASE MarkGap
    BY <2>2, MarkGapCounter
  <2>3. CASE NackOutput
    BY <2>3, NackOutputCounter
  <2>4. CASE ReportStats
    <3>1. CASE missing' = {} /\ missingCounter' = 0
      BY <3>1, CounterFlushed
    <3>2. CASE UNCHANGED <<missing, missingCounter>>
      BY <2>4, <3>2, CounterQuiet DEF ReportStats, nackVars
    <3>3. QED
      BY <2>4, <3>1, <3>2 DEF ReportStats
  <2>5. CASE \/ Receive
             \/ Find \/ LoseDupe \/ Duplicate \/ Displace \/ Publish \/ Stamp
             \/ LosePacket \/ AddSize \/ Finish \/ CheckLast \/ ReadLast
             \/ Output \/ FlowIdChange \/ Tick \/ UNCHANGED vars
    <3>1. UNCHANGED nackVars
      BY <2>5 DEF Receive, DropLate, DropFull, Admit, Find, LoseDupe, Duplicate,
             Displace, Publish, Stamp, LosePacket, AddSize, Finish, CheckLast,
             ReadLast, Output, Emit, DropStale, Subtract, Clear, FindNothing, ResetSize,
             Return, FlowIdChange, Tick, vars
    <3>2. QED
      BY <3>1, CounterQuiet
  <2>6. QED
    BY <2>1, <2>2, <2>3, <2>4, <2>5 DEF Next, Enqueue
<1>3. QED
  BY <1>1, <1>2, TypeCorrect, PTL DEF Spec

\* missing_counter, the limit on what may still be marked missing, is exact for
\* every ring, network and interleaving: it neither drifts nor goes negative.
THEOREM MissingCounterCorrect == Spec => []MissingCounterExact
<1>1. CounterInv => MissingCounterExact
  BY DEF CounterInv
<1>2. QED
  BY <1>1, CounterInvariant, PTL

-----------------------------------------------------------------------------
(* receiver_enqueue finds the packets it reads.                            *)

\* The packets of the flow have sequence numbers of their own, and each lies in the
\* slot of its number.
OwnNumbers == \A m, n \in Sources : SeqOf[m] = SeqOf[n] => m = n
InPlace == \A i \in Slots : queue[i] # Null => SeqOf[queue[i].src] = i

\* An original comes before its time to be played, so the packet the protocol thread
\* is busy with is not released before the thread has done with it.
NotDue == epkt.ptime + Buffer > clock
Held == /\ queue[InSlot] # Null
        /\ queue[InSlot].time = clock
        /\ epc # "published" => queue[InSlot].ptime = epkt.ptime
        /\ dpc \in {"taken", "subtracted"} => dslot # InSlot

\* A packet number whose packet was sent a whole buffer ago.
Old(s) == \E n \in Sources : SeqOf[n] = s /\ n + Buffer <= clock

\* No packet of the ring claims to have come, or to belong, before it was sent.
RingSound ==
  \A i \in Slots : queue[i] # Null =>
    /\ queue[i].src <= queue[i].time
    /\ queue[i].src <= queue[i].ptime \/ Unstamped(i)

\* The packet the protocol thread is busy with is new, and the one it has not stamped
\* yet; that of the output thread is old.
BusySound ==
  /\ epc # "idle" => /\ epkt.src <= clock /\ epkt.src <= epkt.ptime
                     /\ epkt.retry \/ NotDue
  /\ epc = "published" /\ queue[InSlot] # Null => queue[InSlot].src = epkt.src
Storing == \/ epc = "published"
           \/ epc \in {"stored", "counted", "checked", "timed"} /\ ~epkt.retry
NewHeld == Storing => Held
TakenOld ==
  dpc \in {"taken", "subtracted"} => queue[dslot] # Null /\ Old(dslot)
LastHeld ==
  epc = "checked" => queue[lastSeqFound] # Null \/ Old(lastSeqFound)

BusyInv ==
  /\ timeOffset >= 0 /\ InPlace /\ RingSound /\ BusySound
  /\ epc \in {"checked", "timed"} => ~epkt.retry /\ ~epkt.ooo
  /\ uncounted => collided \/ torn
  /\ \/ collided \/ torn
     \/ NewHeld /\ TakenOld /\ LastHeld /\ PacketFound /\ LastFound

\* The types of what is in the ring and on its way there.
LEMMA BusyTypes ==
  ASSUME TypeOK
  PROVE  /\ clock \in Nat /\ timeOffset \in Int /\ lastSeqFound \in Slots /\ dslot \in Slots
         /\ \A i \in Slots : queue[i] # Null =>
              queue[i].src \in Sources /\ queue[i].src \in Nat
              /\ queue[i].time \in Nat /\ queue[i].ptime \in Int
         /\ epc # "idle" => /\ epkt.src \in Sources /\ epkt.src \in Nat
                            /\ epkt.ptime \in Int /\ InSlot \in Slots
<1>1. \A i \in Slots : queue[i] # Null => queue[i] \in Packet
  BY DEF TypeOK
<1>2. epc # "idle" => epkt \in Pending
  BY DEF TypeOK
<1>3. epc # "idle" => InSlot \in Slots
  BY <1>2, SlotFacts DEF Pending, InSlot
<1>4. QED
  BY <1>1, <1>2, <1>3 DEF Packet, Pending, TypeOK

\* A packet that is released by its own times was sent a whole buffer ago.
LEMMA ReleasedOld ==
  ASSUME TypeOK, InPlace, RingSound, NEW i \in Slots, Releasable(i), ~Unstamped(i)
  PROVE  queue[i] # Null /\ queue[i].src + Buffer <= clock /\ Old(i)
<1>1. queue[i] # Null
  BY DEF Releasable, Occupied
<1>2. /\ clock \in Nat /\ queue[i].src \in Sources /\ queue[i].src \in Nat
      /\ queue[i].time \in Nat /\ queue[i].ptime \in Int
      /\ queue[i].src <= queue[i].time /\ queue[i].src <= queue[i].ptime
  BY <1>1, BusyTypes DEF RingSound
<1>3. Stale(i) \/ Due(i) \/ Age(i) > LateLimit
  BY DEF Releasable
<1>4. queue[i].src + Buffer <= clock
  <2>1. Buffer \in Nat /\ LateLimit \in Nat /\ LateLimit >= Buffer
    OBVIOUS
  <2>2. QED
    BY <1>2, <1>3, <2>1 DEF Stale, Due, Age
<1>5. QED
  BY <1>1, <1>2, <1>4 DEF Old, InPlace

\* A packet that has just been stored is not released by its own times.
LEMMA HeldNotReleased ==
  ASSUME TypeOK, Held, epc # "idle", epc = "published" \/ NotDue,
         Releasable(InSlot) /\ (Stale(InSlot) \/ ~Unstamped(InSlot))
  PROVE  FALSE
<1>1. /\ queue[InSlot] # Null /\ queue[InSlot].time = clock
      /\ epc # "published" => queue[InSlot].ptime = epkt.ptime
  BY DEF Held
<1>2. clock \in Nat /\ epkt.ptime \in Int /\ InSlot \in Slots
  BY BusyTypes
<1>3. Age(InSlot) = 0
  BY <1>1, <1>2 DEF Age
<1>4. Buffer \in Nat /\ LateLimit \in Nat
  OBVIOUS
<1>5. ~Stale(InSlot)
  BY <1>3, <1>4 DEF Stale
<1>6. epc # "published"
  BY <1>5 DEF Unstamped
<1>7. ~Due(InSlot)
  BY <1>1, <1>2, <1>4, <1>6 DEF Due, NotDue
<1>8. QED
  BY <1>3, <1>4, <1>5, <1>7 DEF Releasable

\* What no step of the output thread touches.
LEMMA OutputFrame ==
  ASSUME Output
  PROVE  /\ UNCHANGED <<clock, copies, sourceVars, statVars, nackVars, enqueueVars, collided,
                        uncounted>>
         /\ InSlot' = InSlot
         /\ torn => torn'
         /\ UNCHANGED torn \/ \E i \in Slots : Emit(i)
         /\ queue' = queue \/ Clear
<1>1. ASSUME NEW i \in Slots, Emit(i)
      PROVE  /\ UNCHANGED <<clock, copies, sourceVars, statVars, nackVars, enqueueVars, collided,
                            uncounted>>
             /\ torn => torn'
             /\ queue' = queue
  BY <1>1 DEF Emit, ringVars
<1>2. CASE \/ \E i \in Slots : DropStale(i)
           \/ Subtract \/ Clear \/ FindNothing \/ ResetSize \/ Return
  <2>1. /\ UNCHANGED <<clock, copies, sourceVars, statVars, nackVars, enqueueVars, collided,
                       raceVars>>
        /\ queue' = queue \/ Clear
    BY <1>2 DEF DropStale, Subtract, Clear, FindNothing, ResetSize, Return, ringVars
  <2>2. QED
    BY <2>1 DEF raceVars, enqueueVars, InSlot
<1>3. QED
  BY <1>1, <1>2 DEF Output, enqueueVars, InSlot

\* A step of neither thread that concerns the packet.
LEMMA BusyQuiet ==
  ASSUME BusyInv,
         UNCHANGED <<clock, timeOffset, queue, dpc, dslot, collided, raceVars, epc, epkt>>,
         epc = "idle" \/ lastSeqFound' = lastSeqFound
  PROVE  BusyInv'
<1>1. UNCHANGED <<InPlace, RingSound, BusySound, NewHeld, TakenOld, PacketFound>>
  BY DEF InPlace, RingSound, BusySound, NewHeld, Storing, TakenOld, PacketFound, NotDue, Held,
         Old, Unstamped, InSlot
<1>2. LastHeld => LastHeld'
  BY DEF LastHeld, Old
<1>3. LastFound => LastFound'
  BY DEF LastFound
<1>4. QED
  BY <1>1, <1>2, <1>3 DEF BusyInv, raceVars

\* The protocol thread comes back from receiver_enqueue.
LEMMA BusyDone ==
  ASSUME BusyInv, epc' = "idle", epc # "published",
         UNCHANGED <<clock, timeOffset, queue, dpc, dslot, collided, raceVars>>
  PROVE  BusyInv'
<1>1. InPlace' /\ RingSound'
  BY DEF BusyInv, InPlace, RingSound, Unstamped
<1>2. TakenOld => TakenOld'
  BY DEF TakenOld, Old
<1>3. QED
  BY <1>1, <1>2 DEF BusyInv, BusySound, NewHeld, Storing, LastHeld, PacketFound, LastFound, raceVars

\* An emptied flow gets its first packet: nothing is left in the ring.
LEMMA BusyFirst ==
  ASSUME TypeOK, SizeInv, BusyInv, NEW n \in Sources, ReceiveFirst(n)
  PROVE  BusyInv'
<1>1. /\ epc = "idle" /\ epc' = "idle" /\ dpc = "idle" /\ dpc' = "idle"
      /\ timeOffset' = clock - n /\ clock' = clock /\ n <= clock
      /\ UNCHANGED raceVars
  BY DEF ReceiveFirst, Arrives, MutexFree, enqueueVars, outputVars
<1>2. n \in Nat /\ clock \in Nat
  BY DEF TypeOK
<1>3. timeOffset' >= 0
  BY <1>1, <1>2
<1>4. ASSUME NEW i \in Slots, queue'[i] # Null
      PROVE  (queue'[i] = Fresh(clock, n) /\ i = SeqOf[n]) \/ queue'[i] = queue[i]
  BY <1>4 DEF ReceiveFirst
<1>5. InPlace'
  BY <1>4 DEF BusyInv, InPlace, Fresh
<1>6. RingSound'
  <2> SUFFICES ASSUME NEW i \in Slots, queue'[i] # Null
               PROVE  queue'[i].src <= queue'[i].time /\ queue'[i].src <= queue'[i].ptime
    BY DEF RingSound
  <2>1. CASE queue'[i] = Fresh(clock, n)
    BY <1>1, <2>1 DEF Fresh
  <2>2. CASE queue'[i] = queue[i]
    BY <1>1, <2>2 DEF BusyInv, RingSound, Unstamped
  <2>3. QED
    BY <1>4, <2>1, <2>2
<1>7. uncounted' => collided' \/ torn'
  <2>1. collided => collided'
    BY DEF ReceiveFirst
  <2>2. uncounted => collided \/ torn
    BY DEF BusyInv
  <2>3. QED
    BY <1>1, <2>1, <2>2 DEF raceVars
<1>8. QED
  BY <1>1, <1>3, <1>5, <1>6, <1>7
  DEF BusyInv, BusySound, NewHeld, Storing, TakenOld, LastHeld, PacketFound, LastFound

\* A packet is admitted.
LEMMA BusyAdmit ==
  ASSUME MaxReorder < Buffer, TypeOK, BusyInv, NEW n \in Sources, NEW retry \in BOOLEAN,
         Admit(n, retry)
  PROVE  BusyInv'
<1>1. /\ epc = "idle" /\ epc' = "admitted" /\ epkt'.retry = retry
      /\ epkt'.src = n /\ epkt'.ptime = n + timeOffset
      /\ n <= clock /\ (~retry => clock - n <= MaxReorder)
      /\ UNCHANGED <<clock, timeOffset, queue, dpc, dslot, collided, raceVars>>
  BY DEF Admit, Arrives, ringVars, outputVars
<1>2. clock \in Nat /\ timeOffset \in Int /\ timeOffset >= 0 /\ n \in Nat
  BY DEF TypeOK, BusyInv
<1>3. BusySound'
  <2>1. Buffer \in Nat /\ MaxReorder \in Nat
    OBVIOUS
  <2>2. ~retry => n + timeOffset + Buffer > clock
    BY <1>1, <1>2, <2>1
  <2>3. QED
    BY <1>1, <1>2, <2>2 DEF BusySound, NotDue
<1>4. InPlace' /\ RingSound'
  BY <1>1 DEF BusyInv, InPlace, RingSound, Unstamped
<1>5. TakenOld => TakenOld'
  BY <1>1 DEF TakenOld, Old
<1>6. QED
  BY <1>1, <1>3, <1>4, <1>5 DEF BusyInv, NewHeld, Storing, LastHeld, PacketFound, LastFound, raceVars

\* It is in the ring, without its times.
LEMMA BusyPublish ==
  ASSUME TypeOK, BusyInv, Publish
  PROVE  BusyInv'
<1>1. /\ epc = "admitted" /\ epc' = "published" /\ queue[InSlot] = Null
      /\ UNCHANGED <<clock, timeOffset, epkt, dpc, dslot, collided, raceVars>>
      /\ InSlot' = InSlot
  BY DEF Publish, sourceVars, outputVars, InSlot
<1>2. PICK j \in Junk : queue' = [queue EXCEPT ![InSlot] = Fresh(j, epkt.src)]
  BY DEF Publish
<1>3. /\ epkt.src \in Sources /\ InSlot \in Slots
      /\ InSlot = SeqOf[epkt.src] /\ epkt.src <= clock
  BY <1>1, BusyTypes DEF InSlot, BusyInv, BusySound
<1>4. Fresh(j, epkt.src) # Null
  BY <1>3, ArrivalType
<1>5. /\ queue'[InSlot] = Fresh(j, epkt.src)
      /\ \A i \in Slots : i # InSlot => queue'[i] = queue[i]
  BY <1>2, <1>3 DEF TypeOK
<1>6. InPlace'
  <2>1. SeqOf[queue'[InSlot].src] = InSlot
    BY <1>3, <1>5 DEF Fresh
  <2>2. QED
    BY <1>5, <2>1 DEF BusyInv, InPlace
<1>7. RingSound'
  <2> SUFFICES ASSUME NEW i \in Slots, queue'[i] # Null
               PROVE  /\ queue'[i].src <= queue'[i].time
                      /\ queue'[i].src <= queue'[i].ptime \/ Unstamped(i)'
    BY DEF RingSound
  <2>1. CASE i = InSlot
    BY <1>1, <1>3, <1>5, <2>1 DEF Fresh, Unstamped
  <2>2. CASE i # InSlot
    BY <1>1, <1>5, <2>2 DEF BusyInv, RingSound, Unstamped
  <2>3. QED
    BY <2>1, <2>2
<1>8. BusySound'
  BY <1>1, <1>5 DEF BusyInv, BusySound, NotDue, Fresh
<1>9. TakenOld => TakenOld' /\ NewHeld'
  <2> SUFFICES ASSUME TakenOld PROVE TakenOld' /\ NewHeld'
    OBVIOUS
  <2>1. dpc \in {"taken", "subtracted"} => dslot # InSlot /\ dslot \in Slots
    BY <1>1, BusyTypes DEF TakenOld
  <2>2. TakenOld'
    BY <1>1, <1>5, <2>1 DEF TakenOld, Old
  <2>3. Held'
    BY <1>1, <1>4, <1>5, <2>1 DEF Held, Fresh
  <2>4. QED
    BY <2>2, <2>3 DEF NewHeld, Storing
<1>10. QED
  BY <1>1, <1>6, <1>7, <1>8, <1>9 DEF BusyInv, LastHeld, PacketFound, LastFound, raceVars

\* It has its times.
LEMMA BusyStamp ==
  ASSUME TypeOK, BusyInv, Stamp
  PROVE  BusyInv'
<1> DEFINE p == [queue[InSlot] EXCEPT !.ptime = epkt.ptime]
<1>1. /\ epc = "published" /\ epc' = "stored" /\ queue[InSlot] # Null
      /\ queue' = [queue EXCEPT ![InSlot] = p]
      /\ UNCHANGED <<clock, timeOffset, epkt, dpc, dslot, collided, raceVars>>
      /\ InSlot' = InSlot
  BY DEF Stamp, sourceVars, outputVars, InSlot
<1>2. /\ InSlot \in Slots /\ queue[InSlot] \in Packet /\ epkt.ptime \in Int
  BY <1>1, BusyTypes DEF TypeOK
<1>3. /\ p # Null /\ p.src = queue[InSlot].src /\ p.time = queue[InSlot].time
      /\ p.ptime = epkt.ptime
  <2>1. p \in Packet
    BY <1>2 DEF Packet
  <2>2. QED
    BY <1>2, <2>1 DEF Packet
<1> HIDE DEF p
<1>4. /\ queue'[InSlot] = p
      /\ \A i \in Slots : i # InSlot => queue'[i] = queue[i]
  BY <1>1, <1>2 DEF TypeOK
<1>5. InPlace'
  BY <1>1, <1>3, <1>4 DEF BusyInv, InPlace
<1>6. RingSound'
  <2> SUFFICES ASSUME NEW i \in Slots, queue'[i] # Null
               PROVE  /\ queue'[i].src <= queue'[i].time
                      /\ queue'[i].src <= queue'[i].ptime \/ Unstamped(i)'
    BY DEF RingSound
  <2>1. CASE i = InSlot
    <3>1. queue[i].src <= queue[i].time
      BY <1>1, <2>1 DEF BusyInv, RingSound
    <3>2. queue[i].src <= epkt.ptime
      BY <1>1, <2>1 DEF BusyInv, BusySound
    <3>3. QED
      BY <1>3, <1>4, <2>1, <3>1, <3>2
  <2>2. CASE i # InSlot
    BY <1>1, <1>4, <2>2 DEF BusyInv, RingSound, Unstamped
  <2>3. QED
    BY <2>1, <2>2
<1>7. BusySound'
  BY <1>1 DEF BusyInv, BusySound, NotDue
<1>8. TakenOld => TakenOld'
  BY <1>1, <1>3, <1>4 DEF TakenOld, Old
<1>9. Held => Held'
  BY <1>1, <1>3, <1>4 DEF Held
<1>10. QED
  BY <1>1, <1>5, <1>6, <1>7, <1>8, <1>9
  DEF BusyInv, NewHeld, Storing, LastHeld, PacketFound, LastFound, raceVars

\* The steps after which nothing is promised any more.
LEMMA BusyLost ==
  ASSUME TypeOK, BusyInv, LosePacket \/ Displace
  PROVE  BusyInv'
<1>1. CASE LosePacket
  <2>1. /\ epc = "published" /\ queue[InSlot] = Null /\ epc' \in {"idle", "noPacket"}
        /\ UNCHANGED <<clock, timeOffset, queue, epkt, dpc, dslot, collided, torn>>
        /\ InSlot' = InSlot
    BY <1>1 DEF LosePacket, sourceVars, outputVars, ringVars, InSlot
  <2>2. collided \/ torn
    BY <2>1 DEF BusyInv, NewHeld, Storing, Held
  <2>3. InPlace' /\ RingSound'
    BY <2>1 DEF BusyInv, InPlace, RingSound, Unstamped
  <2>4. BusySound'
    BY <2>1 DEF BusyInv, BusySound, NotDue
  <2>5. QED
    BY <2>1, <2>2, <2>3, <2>4 DEF BusyInv
<1>2. CASE Displace
  <2>1. /\ epc = "found" /\ epc' = "admitted" /\ collided'
        /\ queue' = [queue EXCEPT ![InSlot] = Null]
        /\ UNCHANGED <<clock, timeOffset, epkt>>
    BY <1>2 DEF Displace, sourceVars
  <2>2. \A i \in Slots : queue'[i] # Null => queue[i] # Null /\ queue'[i] = queue[i]
    BY <2>1 DEF TypeOK
  <2>3. InPlace' /\ RingSound'
    BY <2>1, <2>2 DEF BusyInv, InPlace, RingSound, Unstamped
  <2>4. BusySound'
    BY <2>1 DEF BusyInv, BusySound, NotDue
  <2>5. QED
    BY <2>1, <2>3, <2>4 DEF BusyInv
<1>3. QED
  BY <1>1, <1>2

\* The other steps of receiver_enqueue, which only read the ring.
LEMMA BusyReads ==
  ASSUME TypeOK, BusyInv,
         Find \/ LoseDupe \/ AddSize \/ CheckLast \/ ReadLast \/ (MarkGap /\ queue[InSlot] = Null)
  PROVE  BusyInv'
<1>1. /\ epc \notin {"idle", "published"} /\ epc' # "published"
      /\ UNCHANGED <<clock, timeOffset, queue, epkt, lastSeqFound, dpc, dslot, collided, raceVars>>
      /\ InSlot' = InSlot
  BY DEF Find, LoseDupe, AddSize, CheckLast, ReadLast, MarkGap, sourceVars, outputVars,
         ringVars, InSlot
<1>2. InPlace' /\ RingSound' /\ BusySound'
  BY <1>1 DEF BusyInv, InPlace, RingSound, Unstamped, BusySound, NotDue
<1>3. TakenOld => TakenOld'
  BY <1>1 DEF TakenOld, Old
<1>4. /\ epc' \in {"stored", "counted", "checked", "timed"} =>
           \/ epc \in {"stored", "counted", "checked", "timed"}
      /\ epc' \in {"checked", "timed"} => ~epkt.retry /\ ~epkt.ooo
  BY DEF BusyInv, Find, LoseDupe, AddSize, CheckLast, ReadLast, MarkGap, ShowsGap
<1>5. NewHeld => NewHeld'
  BY <1>1, <1>4 DEF NewHeld, Storing, Held
<1>6. LastHeld => LastHeld' /\ LastFound'
  <2>1. epc' = "checked" => queue[lastSeqFound] # Null
    BY DEF Find, LoseDupe, AddSize, CheckLast, ReadLast, MarkGap
  <2>2. epc' = "noLast" => epc = "checked" /\ queue[lastSeqFound] = Null
    BY DEF Find, LoseDupe, AddSize, CheckLast, ReadLast, MarkGap
  <2>3. QED
    BY <1>1, <2>1, <2>2 DEF LastHeld, LastFound, Old
<1>7. NewHeld => PacketFound'
  <2>1. epc' = "noPacket" => epc = "timed" /\ queue[InSlot] = Null
    BY DEF Find, LoseDupe, AddSize, CheckLast, ReadLast, MarkGap
  <2>2. QED
    BY <2>1 DEF NewHeld, Storing, Held, PacketFound, BusyInv
<1>8. QED
  BY <1>1, <1>2, <1>3, <1>4, <1>5, <1>6, <1>7 DEF BusyInv, raceVars

\* The output thread takes old packets only, and not the one that is being stored.
LEMMA BusyOutput ==
  ASSUME TypeOK, BusyInv, Output
  PROVE  BusyInv'
<1>1. /\ UNCHANGED <<clock, timeOffset, collided, uncounted, epc, epkt, lastSeqFound>>
      /\ InSlot' = InSlot
      /\ torn => torn'
  BY OutputFrame DEF sourceVars, enqueueVars
<1>2. \A i \in Slots : queue'[i] # Null => queue[i] # Null /\ queue'[i] = queue[i]
  BY DEF Output, Emit, DropStale, Subtract, Clear, FindNothing, ResetSize, Return, ringVars,
         TypeOK
<1>3. InPlace' /\ RingSound'
  BY <1>1, <1>2 DEF BusyInv, InPlace, RingSound, Unstamped
<1>4. BusySound'
  <2>1. epc # "idle" => InSlot \in Slots
    BY BusyTypes
  <2>2. QED
    BY <1>1, <1>2, <2>1 DEF BusyInv, BusySound, NotDue
<1>5. CASE collided \/ torn'
  BY <1>1, <1>3, <1>4, <1>5 DEF BusyInv
<1>6. CASE ~collided /\ ~torn'
  <2>1. NewHeld /\ TakenOld /\ LastHeld /\ PacketFound /\ LastFound
    BY <1>1, <1>6 DEF BusyInv
  <2>2. PacketFound' /\ (LastFound => LastFound')
    BY <1>1, <2>1 DEF PacketFound, LastFound
  <2>3. ASSUME NEW i \in Slots, Emit(i) \/ DropStale(i)
        PROVE  NewHeld' /\ TakenOld' /\ LastHeld'
    <3>1. /\ queue' = queue /\ Releasable(i) /\ (Stale(i) \/ ~Unstamped(i))
          /\ (dpc' = "taken" /\ dslot' = i) \/ (dpc' = "idle" /\ dslot' = dslot)
      BY <1>6, <2>3 DEF Emit, DropStale, ringVars
    <3>2. Storing => i # InSlot /\ Held
      <4> SUFFICES ASSUME Storing PROVE i # InSlot /\ Held
        OBVIOUS
      <4>1. Held
        BY <2>1 DEF NewHeld
      <4>2. epc # "idle" /\ (epc = "published" \/ NotDue)
        BY DEF Storing, BusyInv, BusySound
      <4>3. QED
        BY <3>1, <4>1, <4>2, HeldNotReleased
    <3>3. NewHeld'
      <4>1. Storing' <=> Storing
        BY <1>1 DEF Storing
      <4>2. Storing => Held'
        BY <1>1, <3>1, <3>2 DEF Held
      <4>3. QED
        BY <4>1, <4>2 DEF NewHeld
    <3>4. ~Unstamped(i)
      BY <3>2 DEF Unstamped, Storing
    <3>5. Old(i) /\ queue[i] # Null
      BY <3>1, <3>4, ReleasedOld DEF BusyInv
    <3>6. TakenOld'
      BY <1>1, <3>1, <3>5 DEF TakenOld, Old
    <3>7. LastHeld'
      BY <1>1, <2>1, <3>1 DEF LastHeld, Old
    <3>8. QED
      BY <3>3, <3>6, <3>7
  <2>4. ASSUME Clear PROVE NewHeld' /\ TakenOld' /\ LastHeld'
    <3>1. /\ dpc = "subtracted" /\ queue' = [queue EXCEPT ![dslot] = Null]
          /\ dpc' \in {"idle", "loop"}
      BY <2>4 DEF Clear
    <3>2. dslot \in Slots /\ lastSeqFound \in Slots /\ Old(dslot)
      BY <2>1, <3>1, BusyTypes DEF TakenOld
    <3>3. \A i \in Slots : i # dslot => queue'[i] = queue[i]
      BY <3>1 DEF TypeOK
    <3>4. epc # "idle" => InSlot \in Slots
      BY BusyTypes
    <3>5. NewHeld'
      <4>1. Storing' <=> Storing
        BY <1>1 DEF Storing
      <4>2. Storing => Held'
        BY <1>1, <2>1, <3>1, <3>3, <3>4 DEF NewHeld, Storing, Held
      <4>3. QED
        BY <4>1, <4>2 DEF NewHeld
    <3>6. Old(dslot)' /\ (Old(lastSeqFound) => Old(lastSeqFound)')
      <4>1. dslot' = dslot
        BY <2>4 DEF Clear
      <4>2. QED
        BY <1>1, <3>2, <4>1 DEF Old
    <3>7. LastHeld'
      <4>1. lastSeqFound = dslot => Old(lastSeqFound)
        BY <3>2
      <4>2. QED
        BY <1>1, <2>1, <3>2, <3>3, <3>6, <4>1 DEF LastHeld
    <3>8. TakenOld'
      BY <3>1 DEF TakenOld
    <3>9. QED
      BY <3>5, <3>7, <3>8
  <2>5. ASSUME Subtract \/ FindNothing \/ ResetSize \/ Return
        PROVE  NewHeld' /\ TakenOld' /\ LastHeld'
    <3>1. /\ queue' = queue /\ dslot' = dslot
          /\ dpc' \in {"taken", "subtracted"} => dpc \in {"taken", "subtracted"}
      BY <2>5 DEF Subtract, FindNothing, ResetSize, Return, ringVars
    <3>2. NewHeld'
      <4>1. Storing' <=> Storing
        BY <1>1 DEF Storing
      <4>2. Storing => Held'
        BY <1>1, <2>1, <3>1 DEF NewHeld, Held
      <4>3. QED
        BY <4>1, <4>2 DEF NewHeld
    <3>3. TakenOld' /\ LastHeld'
      BY <1>1, <2>1, <3>1 DEF TakenOld, LastHeld, Old
    <3>4. QED
      BY <3>2, <3>3
  <2>6. NewHeld' /\ TakenOld' /\ LastHeld'
    BY <2>3, <2>4, <2>5 DEF Output
  <2>7. QED
    BY <1>1, <1>3, <1>4, <1>6, <2>1, <2>2, <2>6 DEF BusyInv
<1>7. QED
  BY <1>5, <1>6

\* BusyInv is inductive when originals come within the buffer's time.
LEMMA BusyNext ==
  ASSUME MaxReorder < Buffer, TypeOK, SizeInv, BusyInv, [Next]_vars
  PROVE  BusyInv'
<1>1. ASSUME NEW n \in Sources, ReceiveFirst(n) PROVE BusyInv'
  BY <1>1, BusyFirst
<1>2. ASSUME NEW n \in Sources, NEW retry \in BOOLEAN,
             DropLate(n, retry) \/ DropFull(n, retry) \/ Admit(n, retry)
      PROVE  BusyInv'
  <2>1. CASE Admit(n, retry)
    BY <2>1, BusyAdmit
  <2>2. CASE DropLate(n, retry) \/ DropFull(n, retry)
    <3>1. /\ epc = "idle"
          /\ UNCHANGED <<clock, timeOffset, queue, dpc, dslot, collided, raceVars, epc, epkt>>
      BY <2>2 DEF DropLate, DropFull, Arrives, outputVars, enqueueVars
    <3>2. QED
      BY <3>1, BusyQuiet
  <2>3. QED
    BY <1>2, <2>1, <2>2
<1>3. CASE Duplicate \/ Finish \/ (MarkGap /\ queue[InSlot] # Null)
  <2>1. /\ epc' = "idle" /\ epc # "published"
        /\ UNCHANGED <<clock, timeOffset, queue, dpc, dslot, collided, raceVars>>
    BY <1>3 DEF Duplicate, Finish, MarkGap, sourceVars, ringVars, outputVars
  <2>2. QED
    BY <2>1, BusyDone
<1>4. CASE Find \/ LoseDupe \/ AddSize \/ CheckLast \/ ReadLast
           \/ (MarkGap /\ queue[InSlot] = Null)
  BY <1>4, BusyReads
<1>5. CASE Publish \/ Stamp
  BY <1>5, BusyPublish, BusyStamp
<1>6. CASE LosePacket \/ Displace
  BY <1>6, BusyLost
<1>7. CASE Output
  BY <1>7, BusyOutput
<1>8. CASE Tick
  <2>1. /\ epc = "idle" /\ epc' = "idle" /\ dpc = "idle" /\ dpc' = "idle"
        /\ UNCHANGED <<timeOffset, queue, collided, raceVars>>
    BY <1>8 DEF Tick, enqueueVars, sourceVars, ringVars, outputVars
  <2>2. InPlace' /\ RingSound'
    BY <2>1 DEF BusyInv, InPlace, RingSound, Unstamped
  <2>3. QED
    BY <2>1, <2>2 DEF BusyInv, BusySound, NewHeld, Storing, TakenOld, LastHeld, PacketFound, LastFound,
                      raceVars
<1>9. CASE NackOutput \/ ReportStats \/ FlowIdChange \/ UNCHANGED vars
  <2>1. /\ UNCHANGED <<clock, timeOffset, queue, dpc, dslot, collided, raceVars, epc, epkt>>
        /\ lastSeqFound' = lastSeqFound
    BY <1>9 DEF NackOutput, ReportStats, FlowIdChange, vars, ringVars, sourceVars, outputVars,
                enqueueVars
  <2>2. QED
    BY <2>1, BusyQuiet
<1>10. QED
  BY <1>1, <1>2, <1>3, <1>4, <1>5, <1>6, <1>7, <1>8, <1>9 DEF Next, Receive, Enqueue

\* Where originals come within the time of the buffer, and however the output thread runs
\* in between, the protocol thread reads its packet back from the ring, and the last one
\* found unless that was sent a whole buffer ago: unless a packet took another one's slot
\* or was played before it was stamped.
THEOREM MarkNeedsCollision ==
  MaxReorder < Buffer => (Spec => [](collided \/ torn \/ (PacketFound /\ LastFound)))
<1> SUFFICES ASSUME MaxReorder < Buffer
             PROVE  Spec => [](collided \/ torn \/ (PacketFound /\ LastFound))
  OBVIOUS
<1>1. Init => BusyInv
  BY DEF Init, BusyInv, InPlace, RingSound, BusySound, NewHeld, Storing, TakenOld, LastHeld, PacketFound,
         LastFound
<1>2. TypeOK /\ SizeInv /\ BusyInv /\ [Next]_vars => BusyInv'
  BY BusyNext
<1>3. BusyInv => collided \/ torn \/ (PacketFound /\ LastFound)
  BY DEF BusyInv
<1>4. QED
  BY <1>1, <1>2, <1>3, TypeCorrect, SizeInvariant, PTL DEF Spec

\* In a flow whose packets have numbers of their own, a packet stays in its slot from the
\* moment it is put there until it is stamped, or it is played unstamped.
OwnInv ==
  /\ InPlace
  /\ torn \/ Measured
  /\ torn \/ (epc = "published" =>
                /\ queue[InSlot] # Null /\ queue[InSlot].time = clock
                /\ dpc \in {"taken", "subtracted"} => dslot # InSlot)

\* Each step keeps it.
LEMMA OwnNext ==
  ASSUME OwnNumbers, TypeOK, SizeInv, OwnInv, [Next]_vars
  PROVE  OwnInv'
<1>1. ASSUME NEW n \in Sources, ReceiveFirst(n) PROVE OwnInv'
  <2>1. /\ SeqOf[n] \in Slots /\ Fresh(clock, n).src = n /\ epc = "idle" /\ epc' = "idle"
        /\ dpc = "idle" /\ UNCHANGED raceVars
    BY <1>1, SlotFacts DEF Fresh, ReceiveFirst, Arrives, MutexFree, enqueueVars
  <2>2. Measured => Unreached = {}
    BY <2>1, ReachesAll
  <2>3. InPlace'
    BY <1>1, <2>1 DEF ReceiveFirst, OwnInv, InPlace
  <2>4. torn' \/ Measured'
    <3>1. collided' = (collided \/ SeqOf[n] \in Unreached)
      BY <1>1 DEF ReceiveFirst
    <3>2. Measured => ~collided'
      BY <2>2, <3>1 DEF Measured
    <3>3. QED
      BY <2>1, <3>2 DEF OwnInv, Measured, raceVars
  <2>5. QED
    BY <2>1, <2>3, <2>4 DEF OwnInv
<1>2. CASE Publish
  <2>1. /\ epc = "admitted" /\ epc' = "published" /\ queue[InSlot] = Null
        /\ UNCHANGED <<clock, epkt, dpc, dslot, collided, raceVars>> /\ InSlot' = InSlot
    BY <1>2 DEF Publish, outputVars, InSlot
  <2>2. PICK j \in Junk : queue' = [queue EXCEPT ![InSlot] = Fresh(j, epkt.src)]
    BY <1>2 DEF Publish
  <2>3. /\ epkt.src \in Sources /\ InSlot \in Slots /\ InSlot = SeqOf[epkt.src]
        /\ Fresh(j, epkt.src) # Null
    BY <2>1, BusyTypes, ArrivalType DEF InSlot
  <2>4. /\ queue'[InSlot] = Fresh(j, epkt.src)
        /\ \A i \in Slots : i # InSlot => queue'[i] = queue[i]
    BY <2>2, <2>3 DEF TypeOK
  <2>5. InPlace'
    BY <2>3, <2>4 DEF OwnInv, InPlace, Fresh
  <2>6. Measured /\ dpc \in {"taken", "subtracted"} => dslot # InSlot
    BY <2>1 DEF SizeInv, TakenSlotHeld
  <2>7. torn \/ Measured
    BY DEF OwnInv
  <2>8. QED
    BY <2>1, <2>3, <2>4, <2>5, <2>6, <2>7 DEF OwnInv, Measured, Fresh, raceVars
<1>3. CASE Stamp
  <2>1. /\ epc = "published" /\ epc' = "stored" /\ queue[InSlot] # Null
        /\ queue' = [queue EXCEPT ![InSlot] = [queue[InSlot] EXCEPT !.ptime = epkt.ptime]]
        /\ UNCHANGED <<collided, raceVars>>
    BY <1>3 DEF Stamp
  <2>2. InSlot \in Slots /\ queue[InSlot] \in Packet
    BY <2>1, BusyTypes DEF TypeOK
  <2>3. [queue[InSlot] EXCEPT !.ptime = epkt.ptime].src = queue[InSlot].src
    BY <2>2 DEF Packet
  <2>4. InPlace'
    BY <2>1, <2>2, <2>3 DEF OwnInv, InPlace, TypeOK
  <2>5. QED
    BY <2>1, <2>4 DEF OwnInv, Measured, raceVars
<1>4. CASE LosePacket
  <2>1. epc = "published" /\ queue[InSlot] = Null /\ queue' = queue /\ torn' = torn
    BY <1>4 DEF LosePacket, ringVars
  <2>2. QED
    BY <2>1 DEF OwnInv, InPlace
<1>5. CASE Displace
  <2>1. epc = "found" /\ queue[InSlot] # Null /\ queue[InSlot].src # epkt.src
    BY <1>5 DEF Displace
  <2>2. epkt.src \in Sources /\ InSlot \in Slots /\ queue[InSlot].src \in Sources
    BY <2>1, BusyTypes
  <2>3. SeqOf[queue[InSlot].src] = SeqOf[epkt.src]
    BY <2>1, <2>2 DEF OwnInv, InPlace, InSlot
  <2>4. QED
    BY <2>1, <2>2, <2>3 DEF OwnNumbers
<1>6. CASE Output
  <2>1. /\ UNCHANGED <<clock, collided, uncounted, epc, epkt>> /\ InSlot' = InSlot
        /\ torn => torn'
    BY <1>6, OutputFrame DEF enqueueVars
  <2>2. \A i \in Slots : queue'[i] # Null => queue[i] # Null /\ queue'[i] = queue[i]
    BY <1>6 DEF Output, Emit, DropStale, Subtract, Clear, FindNothing, ResetSize, Return,
                ringVars, TypeOK
  <2>3. InPlace'
    BY <2>2 DEF OwnInv, InPlace
  <2>4. torn' \/ Measured'
    BY <2>1 DEF OwnInv, Measured
  <2>5. ASSUME epc = "published", ~torn'
        PROVE  /\ queue'[InSlot] # Null /\ queue'[InSlot].time = clock
               /\ dpc' \in {"taken", "subtracted"} => dslot' # InSlot
    <3>1. /\ queue[InSlot] # Null /\ queue[InSlot].time = clock
          /\ dpc \in {"taken", "subtracted"} => dslot # InSlot
          /\ InSlot \in Slots /\ clock \in Nat
      BY <2>1, <2>5, BusyTypes DEF OwnInv
    <3>2. ~Stale(InSlot)
      BY <3>1 DEF Stale, Age
    <3>3. ASSUME NEW i \in Slots, Emit(i) \/ DropStale(i)
          PROVE  /\ i # InSlot /\ queue' = queue
                 /\ (dpc' = "taken" /\ dslot' = i) \/ (dpc' = "idle" /\ dslot' = dslot)
      BY <2>5, <3>2, <3>3 DEF Emit, DropStale, Unstamped, ringVars
    <3>4. CASE Clear
      <4>1. dpc = "subtracted" /\ queue' = [queue EXCEPT ![dslot] = Null] /\ dpc' \in {"idle", "loop"}
        BY <3>4 DEF Clear
      <4>2. queue'[InSlot] = queue[InSlot]
        BY <3>1, <4>1 DEF TypeOK
      <4>3. QED
        BY <3>1, <4>1, <4>2
    <3>5. CASE Subtract \/ FindNothing \/ ResetSize \/ Return
      <4>1. /\ queue' = queue /\ dslot' = dslot
            /\ dpc' \in {"taken", "subtracted"} => dpc \in {"taken", "subtracted"}
        BY <3>5 DEF Subtract, FindNothing, ResetSize, Return, ringVars
      <4>2. QED
        BY <3>1, <4>1
    <3>6. QED
      BY <1>6, <3>1, <3>3, <3>4, <3>5 DEF Output
  <2>6. QED
    BY <2>1, <2>3, <2>4, <2>5 DEF OwnInv
<1>7. CASE \/ Receive
           \/ Find \/ LoseDupe \/ Duplicate \/ AddSize
           \/ Finish \/ CheckLast \/ ReadLast \/ MarkGap
           \/ Tick
  <2>1. epc' # "published" /\ UNCHANGED <<queue, collided, raceVars>>
    BY <1>7 DEF Receive, DropLate, DropFull, Admit, Arrives, Find, LoseDupe, Duplicate, AddSize,
                Finish, CheckLast, ReadLast, MarkGap, Tick, enqueueVars, ringVars
  <2>2. QED
    BY <2>1 DEF OwnInv, InPlace, Measured, raceVars
<1>8. CASE NackOutput \/ ReportStats \/ FlowIdChange \/ UNCHANGED vars
  <2>1. UNCHANGED <<queue, collided, raceVars, clock, epc, epkt, dpc, dslot>>
    BY <1>8 DEF NackOutput, ReportStats, FlowIdChange, vars, enqueueVars, outputVars, ringVars
  <2>2. QED
    BY <2>1 DEF OwnInv, InPlace, Measured, raceVars, InSlot
<1>9. QED
  BY <1>1, <1>2, <1>3, <1>4, <1>5, <1>6, <1>7, <1>8 DEF Next, Enqueue

\* A flow in which no two packets have one number knows no collision, and counts each
\* packet, so all that depends on it holds of that flow: until a packet is played before
\* it is stamped.
THEOREM NeverCollides == OwnNumbers => (Spec => [](torn \/ Measured))
<1> SUFFICES ASSUME OwnNumbers PROVE Spec => [](torn \/ Measured)
  OBVIOUS
<1>1. Init => OwnInv
  BY DEF Init, OwnInv, InPlace, Measured
<1>2. TypeOK /\ SizeInv /\ OwnInv /\ [Next]_vars => OwnInv'
  BY OwnNext
<1>3. OwnInv => torn \/ Measured
  BY DEF OwnInv
<1>4. QED
  BY <1>1, <1>2, <1>3, TypeCorrect, SizeInvariant, PTL DEF Spec

\* In such a flow, when copies come within the buffer's time, a duplicate is found in the
\* slot it was seen in.
DupeInv ==
  /\ epc # "idle" => clock < epkt.src + Buffer
  /\ torn \/ ((epc = "found" => queue[InSlot] # Null) /\ DupeFound)

\* Each step keeps it: what the output thread takes is too old to be the duplicate.
LEMMA DupeNext ==
  ASSUME OwnNumbers, MaxReorder < Buffer, MaxRetryAge < Buffer,
         TypeOK, BusyInv, torn \/ Measured, DupeInv, [Next]_vars
  PROVE  DupeInv'
<1>1. ASSUME NEW n \in Sources, NEW retry \in BOOLEAN, Admit(n, retry) PROVE DupeInv'
  <2>1. /\ epc' = "admitted" /\ epkt'.src = n /\ clock' = clock
        /\ clock - n <= MaxReorder \/ clock - n <= MaxRetryAge
    BY <1>1 DEF Admit, Arrives
  <2>2. n \in Nat /\ clock \in Nat /\ Buffer \in Nat /\ MaxReorder \in Nat /\ MaxRetryAge \in Nat
    BY DEF TypeOK
  <2>3. clock < n + Buffer
    BY <2>1, <2>2
  <2>4. QED
    BY <2>1, <2>3 DEF DupeInv, DupeFound
<1>2. CASE Output
  <2>1. UNCHANGED <<clock, epc, epkt>> /\ InSlot' = InSlot /\ (torn => torn')
    BY <1>2, OutputFrame DEF enqueueVars
  <2>2. CASE ~Clear \/ epc # "found" \/ torn
    <3>1. Clear \/ queue' = queue
      BY <1>2, OutputFrame
    <3>2. QED
      BY <2>1, <2>2, <3>1 DEF DupeInv, DupeFound
  <2>3. CASE Clear /\ epc = "found" /\ ~torn
    <3>1. dpc = "subtracted" /\ queue' = [queue EXCEPT ![dslot] = Null]
      BY <2>3 DEF Clear
    <3>2. queue[dslot] # Null /\ Old(dslot)
      BY <2>3, <3>1 DEF BusyInv, TakenOld, Measured
    <3>3. PICK n \in Sources : SeqOf[n] = dslot /\ n + Buffer <= clock
      BY <3>2 DEF Old
    <3>4. dslot # InSlot
      <4> SUFFICES ASSUME dslot = InSlot PROVE FALSE
        OBVIOUS
      <4>1. epkt.src \in Sources
        BY <2>3, BusyTypes
      <4>2. n = epkt.src
        <5>1. SeqOf[n] = SeqOf[epkt.src]
          BY <3>3 DEF InSlot
        <5>2. QED
          BY <4>1, <5>1 DEF OwnNumbers
      <4>3. n \in Nat /\ clock \in Nat /\ Buffer \in Nat
        BY DEF TypeOK
      <4>4. clock < n + Buffer
        BY <2>3, <4>2 DEF DupeInv
      <4>5. QED
        BY <3>3, <4>3, <4>4
    <3>5. InSlot \in Slots
      BY <2>3, BusyTypes
    <3>6. queue'[InSlot] = queue[InSlot]
      BY <3>1, <3>4, <3>5 DEF TypeOK
    <3>7. QED
      BY <2>1, <2>3, <3>6 DEF DupeInv, DupeFound
  <2>4. QED
    BY <2>2, <2>3
<1>3. CASE Find \/ LoseDupe
  BY <1>3 DEF Find, LoseDupe, DupeInv, DupeFound, InSlot, ringVars, raceVars
<1>4. CASE \/ Duplicate \/ Displace \/ Publish \/ Stamp \/ LosePacket \/ AddSize
           \/ Finish \/ CheckLast \/ ReadLast \/ MarkGap
  <2>1. /\ epc # "idle" /\ epc' \notin {"found", "noDupe"}
        /\ UNCHANGED <<clock, epkt, torn>>
    BY <1>4 DEF Duplicate, Displace, Publish, Stamp, LosePacket, AddSize, Finish, CheckLast,
                ReadLast, MarkGap, raceVars
  <2>2. QED
    BY <2>1 DEF DupeInv, DupeFound
<1>5. CASE \/ \E n \in Sources : ReceiveFirst(n)
           \/ \E n \in Sources : \E retry \in BOOLEAN : DropLate(n, retry) \/ DropFull(n, retry)
           \/ Tick
  <2>1. epc' = "idle"
    BY <1>5 DEF ReceiveFirst, DropLate, DropFull, Arrives, Tick, enqueueVars
  <2>2. QED
    BY <2>1 DEF DupeInv, DupeFound
<1>6. CASE NackOutput \/ ReportStats \/ FlowIdChange \/ UNCHANGED vars
  <2>1. UNCHANGED <<queue, raceVars, clock, epc, epkt>>
    BY <1>6 DEF NackOutput, ReportStats, FlowIdChange, vars, enqueueVars, ringVars
  <2>2. QED
    BY <2>1 DEF DupeInv, DupeFound, InSlot, raceVars
<1>7. QED
  BY <1>1, <1>2, <1>3, <1>4, <1>5, <1>6 DEF Next, Receive, Enqueue

\* So in such a flow the protocol thread finds in the ring what it reads there.
THEOREM MarkFinds ==
  OwnNumbers /\ MaxReorder < Buffer /\ MaxRetryAge < Buffer => (Spec => []MarkFindsPacket)
<1> SUFFICES ASSUME OwnNumbers, MaxReorder < Buffer, MaxRetryAge < Buffer
             PROVE  Spec => []MarkFindsPacket
  OBVIOUS
<1>1. Init => BusyInv /\ DupeInv
  BY DEF Init, BusyInv, InPlace, RingSound, BusySound, NewHeld, Storing, TakenOld, LastHeld,
         PacketFound, LastFound, DupeInv, DupeFound
<1>2. TypeOK /\ SizeInv /\ BusyInv /\ [Next]_vars => BusyInv'
  BY BusyNext
<1>3. TypeOK /\ BusyInv /\ (torn \/ Measured) /\ DupeInv /\ [Next]_vars => DupeInv'
  BY DupeNext
<1>4. BusyInv /\ DupeInv /\ (torn \/ Measured) => MarkFindsPacket
  BY DEF BusyInv, DupeInv, Measured, MarkFindsPacket
<1>5. QED
  BY <1>1, <1>2, <1>3, <1>4, NeverCollides, TypeCorrect, SizeInvariant, PTL DEF Spec

-----------------------------------------------------------------------------
(* A flow whose packets come in time is played in order and never reset.   *)

\* The longest a packet of such a flow is on its way, from its source time until it is
\* played.
Span == MaxReorder + Buffer + OutputJitter

\* Packets that are at most w ticks apart are numbered one round of the ring in order:
\* the numbers go up with the source times and do not come back to the first one.
InOrder(w) ==
  \A m, n \in Sources : m < n /\ n - m <= w =>
    /\ Dist(SeqOf[m], SeqOf[n]) \in 1 .. Q - 2
    /\ \A k \in Sources : n < k /\ k - m <= w =>
         Dist(SeqOf[m], SeqOf[k]) = Dist(SeqOf[m], SeqOf[n]) + Dist(SeqOf[n], SeqOf[k])

\* The network lets a packet overtake the one before it, but no more.
Neighbours ==
  \A m, n \in Sources : m < n /\ n - m <= MaxReorder => SeqOf[n] = NextSlot(SeqOf[m])

\* Originals and retransmissions come before their time to be played, the output thread
\* runs before a packet has waited twice the buffer, the sender keeps its flow id, and
\* one packet is not duplicated so often that it alone counts as a full queue.
Timely ==
  /\ MaxReorder < Buffer /\ MaxRetryAge < Buffer
  /\ MaxReorder + OutputJitter <= Buffer + 1
  /\ "flowid" \notin Disruptions
  /\ Copies <= FullMax
  /\ Neighbours

\* No pause of the flow is longer than Outage.
Fed(Outage) == hasItems => clock - maxSourceTime <= Outage

\* The last block played; what is not after it, or was sent before the first packet that
\* came; the packets that are in the ring or about to be.
LastOut == delivered[Len(delivered)].src
Active == dpc \in {"taken", "subtracted"}
Early(n) == IF delivered = << >> THEN n < queue[outputIdx].src ELSE n <= LastOut
Coming(n) == InRing(n) \/ (epc \in {"admitted", "found"} /\ epkt.src = n)

NotStarted ==
  /\ \A i \in Slots : queue[i] = Null
  /\ delivered = << >> /\ dpc = "idle" /\ epc = "idle"
  /\ missing = {} /\ requested = {} /\ lastPacketTs = 0

\* Each packet of the ring is in the slot of its number, came in time, and is neither
\* overdue nor behind what was played; the one exception is the packet being taken.  It
\* is to be played as long after its source time as every other one, once it is stamped.
RingInTime ==
  \A i \in Slots : queue[i] # Null =>
    /\ SeqOf[queue[i].src] = i
    /\ queue[i].src <= queue[i].time /\ queue[i].time <= clock
    /\ queue[i].time < queue[i].src + Buffer
    /\ Unstamped(i) \/ queue[i].ptime = queue[i].src + timeOffset
    /\ clock < queue[i].src + timeOffset + Buffer + OutputJitter
    /\ queue[i].src <= maxSourceTime
    /\ Early(queue[i].src) => Active /\ i = dslot

\* So is the packet the protocol thread is busy with; a duplicate stays in the ring as
\* long as it looks at it.
BusyInTime ==
  /\ epc # "idle" =>
       /\ ~Early(epkt.src)
       /\ epkt.src <= clock /\ clock < epkt.src + Buffer
       /\ epkt.ptime = epkt.src + timeOffset
       /\ epkt.src <= maxSourceTime
  /\ epc = "found" => queue[InSlot] # Null

\* The output thread stands behind the last block it played, or at the first packet.
ReaderInPlace ==
  /\ dpc # "desync"
  /\ delivered = << >> => queue[outputIdx] # Null /\ flowStart /\ ~Active
  /\ delivered # << >> => /\ lastSeqOutput = SeqOf[LastOut]
                          /\ LastOut + Buffer <= clock
                          /\ LastOut <= maxSourceTime
                          /\ ~Active => outputIdx = NextSlot(SeqOf[LastOut])
  /\ Active => /\ dslot = SeqOf[LastOut]
               /\ queue[dslot] # Null /\ queue[dslot].src = LastOut
               /\ lastOutputTime = clock
               /\ \A n \in Sources : LastOut < n /\ n <= clock =>
                                       SeqOf[n] # PrevSlot(outputIdx)

\* The newest packet is on its way or played, and the next one to play is not far from
\* the last one that was.
NothingFar(Outage) ==
  /\ maxSourceTime \in Sources /\ maxSourceTime <= clock
  /\ Coming(maxSourceTime) \/ (delivered # << >> /\ maxSourceTime = LastOut)
  /\ delivered # << >> /\ maxSourceTime # LastOut =>
       \E n \in Sources : LastOut < n /\ n - LastOut <= Outage + Span /\ Coming(n)

\* While nothing has been played: nothing that was sent before the first packet is asked
\* for, and it is refused, as the packet that stands for a full queue, when it comes.
NoneBeforeFirst ==
  \A n \in Sources : n < queue[outputIdx].src =>
    /\ clock < n + Buffer => SeqOf[n] \notin requested /\ \A e \in missing : e.seq # SeqOf[n]
    /\ queue[outputIdx].src - n <= MaxReorder => droppedFull + copies[n] <= Copies
FirstBlock ==
  delivered = << >> =>
    /\ lastSeqFound = PrevSlot(outputIdx) \/ queue[lastSeqFound] # Null
    /\ \/ lastPacketTs = maxSourceTime + timeOffset
       \/ lastPacketTs = 0 /\ maxSourceTime = queue[outputIdx].src
    /\ epc \in {"published", "stored", "counted", "checked", "timed"} => InSlot # lastSeqFound
    /\ epc # "idle" /\ ~epkt.retry /\ ~epkt.ooo /\ queue[lastSeqFound] # Null
         => queue[lastSeqFound].src <= epkt.src
    /\ NoneBeforeFirst

PlayInv(Outage) ==
  /\ Measured /\ ~torn
  /\ 0 <= timeOffset /\ timeOffset <= MaxReorder
  /\ \A n \in Sources : copies[n] <= Copies
  /\ ~hasItems => NotStarted
  /\ hasItems => /\ RingInTime /\ BusyInTime /\ ReaderInPlace
                 /\ NothingFar(Outage) /\ FirstBlock

\* Steps around the ring.
LEMMA DistFacts ==
  ASSUME NEW i \in Slots, NEW j \in Slots
  PROVE  /\ Dist(i, j) \in 0 .. Q - 1
         /\ Dist(i, j) = 0 <=> i = j
         /\ Dist(i, PrevSlot(i)) = Q - 1
         /\ i # j => Dist(j, i) = Q - Dist(i, j)
         /\ i # j => Dist(NextSlot(i), j) = Dist(i, j) - 1
         /\ j # PrevSlot(i) => Dist(PrevSlot(i), j) = Dist(i, j) + 1
         /\ Dist(i, NextSlot(i)) = 1
         /\ j = NextSlot(i) <=> i = PrevSlot(j)
BY DEF Slots, Dist, NextSlot, PrevSlot

\* A step forward and back.
LEMMA PrevNext ==
  ASSUME NEW i \in Slots
  PROVE  PrevSlot(NextSlot(i)) = i
BY DEF Slots, NextSlot, PrevSlot

\* From one packet on, the numbers go up with the source times.
LEMMA Ascending ==
  ASSUME NEW w \in Nat, InOrder(w), NEW b \in Sources, NEW m \in Sources, NEW n \in Sources,
         b <= m, m < n, n - b <= w
  PROVE  /\ Dist(SeqOf[b], SeqOf[m]) < Dist(SeqOf[b], SeqOf[n])
         /\ Dist(SeqOf[b], SeqOf[n]) \in 1 .. Q - 2
         /\ Dist(SeqOf[m], SeqOf[n]) \in 1 .. Q - 2
         /\ SeqOf[m] # SeqOf[n]
<1>1. b \in Nat /\ m \in Nat /\ n \in Nat
  OBVIOUS
<1>2. SeqOf[b] \in Slots /\ SeqOf[m] \in Slots /\ SeqOf[n] \in Slots
  BY SlotFacts
<1>3. Dist(SeqOf[b], SeqOf[n]) \in 1 .. Q - 2
  BY <1>1 DEF InOrder
<1>4. Dist(SeqOf[m], SeqOf[n]) \in 1 .. Q - 2
  BY <1>1 DEF InOrder
<1>5. SeqOf[m] # SeqOf[n]
  BY <1>2, <1>4, DistFacts
<1>6. CASE b = m
  BY <1>2, <1>3, <1>4, <1>5, <1>6, DistFacts
<1>7. CASE b < m
  <2>1. Dist(SeqOf[b], SeqOf[n]) = Dist(SeqOf[b], SeqOf[m]) + Dist(SeqOf[m], SeqOf[n])
    BY <1>1, <1>7 DEF InOrder
  <2>2. Dist(SeqOf[b], SeqOf[m]) \in 0 .. Q - 1
    BY <1>2, DistFacts
  <2>3. QED
    BY <1>3, <1>4, <1>5, <2>1, <2>2
<1>8. QED
  BY <1>1, <1>6, <1>7

\* The packets of the ring, and the times.
LEMMA RingTypes ==
  ASSUME TypeOK
  PROVE  /\ clock \in Nat /\ timeOffset \in Int /\ maxSourceTime \in Nat /\ outputIdx \in Slots
         /\ \A i \in Slots : queue[i] # Null =>
              queue[i].src \in Sources /\ queue[i].src \in Nat
              /\ queue[i].time \in Nat /\ queue[i].ptime \in Int
         /\ epc # "idle" => /\ epkt.src \in Sources /\ epkt.src \in Nat
                            /\ epkt.ptime \in Int /\ InSlot \in Slots
         /\ delivered # << >> => LastOut \in Sources /\ LastOut \in Nat
         /\ Span \in Nat
<1>1. \A i \in Slots : queue[i] # Null => queue[i] \in Packet
  BY DEF TypeOK
<1>2. epc # "idle" => epkt \in Pending
  BY DEF TypeOK
<1>3. delivered # << >> => Len(delivered) \in 1 .. Len(delivered)
  BY EmptySeq, LenProperties DEF TypeOK
<1>4. delivered # << >> => delivered[Len(delivered)] \in Block
  BY <1>3, ElementOfSeq DEF TypeOK
<1>5. clock \in Nat /\ timeOffset \in Int /\ maxSourceTime \in Nat /\ outputIdx \in Slots
  BY DEF TypeOK
<1>6. Span \in Nat
  BY DEF Span
<1>7. epc # "idle" => InSlot \in Slots
  BY <1>2, SlotFacts DEF Pending, InSlot
<1>8. QED
  BY <1>1, <1>2, <1>4, <1>5, <1>6, <1>7 DEF Packet, Pending, Block, LastOut

\* All that is under way is within one window of time.
LEMMA Horizon ==
  ASSUME NEW Outage \in Nat, Timely, TypeOK, PlayInv(Outage), Fed(Outage), hasItems
  PROVE  /\ \A i \in Slots : queue[i] # Null => clock - queue[i].src < Span
         /\ epc # "idle" => clock - epkt.src < Span
         /\ delivered = << >> => /\ queue[outputIdx].src \in Sources
                                 /\ SeqOf[queue[outputIdx].src] = outputIdx
                                 /\ queue[outputIdx].src <= clock
                                 /\ queue[outputIdx].src <= maxSourceTime
                                 /\ clock - queue[outputIdx].src <= Outage + 2 * Span
         /\ delivered # << >> => clock - LastOut <= Outage + 2 * Span
<1>1. RingInTime /\ BusyInTime /\ ReaderInPlace /\ NothingFar(Outage)
      /\ timeOffset \in 0 .. MaxReorder /\ clock - maxSourceTime <= Outage
  BY RingTypes DEF PlayInv, Fed
<1>2. ASSUME NEW i \in Slots, queue[i] # Null
      PROVE  clock - queue[i].src < Span /\ queue[i].src <= clock
  <2>1. /\ queue[i].src \in Nat /\ queue[i].time \in Nat /\ clock \in Nat
        /\ queue[i].src <= queue[i].time /\ queue[i].time <= clock
    BY <1>1, <1>2, RingTypes DEF RingInTime
  <2>2. clock < queue[i].src + timeOffset + Buffer + OutputJitter
    BY <1>1, <1>2 DEF RingInTime
  <2>3. QED
    BY <1>1, <2>1, <2>2 DEF Span
<1>3. epc # "idle" => clock - epkt.src < Span
  <2> SUFFICES ASSUME epc # "idle" PROVE clock - epkt.src < Span
    OBVIOUS
  <2>1. epkt.src \in Nat /\ clock \in Nat
    BY RingTypes
  <2>2. BusyInTime
    BY <1>1
  <2>3. QED
    BY <1>1, <2>1, <2>2 DEF BusyInTime, Span
<1>4. CASE delivered = << >>
  <2>1. queue[outputIdx] # Null
    BY <1>1, <1>4 DEF ReaderInPlace
  <2>2. queue[outputIdx].src \in Sources /\ clock - queue[outputIdx].src < Span
    BY <1>2, <2>1, RingTypes
  <2>3. SeqOf[queue[outputIdx].src] = outputIdx /\ queue[outputIdx].src <= maxSourceTime
    BY <1>1, <2>1, RingTypes DEF RingInTime
  <2>4. /\ outputIdx \in Slots /\ clock \in Nat /\ Span \in Nat /\ Outage \in Nat
        /\ queue[outputIdx].src \in Nat
    BY <2>2, RingTypes DEF Span
  <2>5. queue[outputIdx].src <= clock
    BY <1>2, <2>1, <2>4
  <2>6. clock - queue[outputIdx].src <= Outage + 2 * Span
    BY <2>2, <2>4
  <2>7. QED
    BY <1>2, <1>3, <1>4, <2>2, <2>3, <2>5, <2>6
<1>5. CASE delivered # << >>
  <2>1. CASE maxSourceTime = LastOut
    BY <1>1, <1>2, <1>3, <1>5, <2>1, RingTypes
  <2>2. CASE maxSourceTime # LastOut
    <3>1. PICK n \in Sources : n - LastOut <= Outage + Span /\ Coming(n)
      BY <1>1, <1>5, <2>2 DEF NothingFar
    <3>2. clock - n < Span
      BY <1>2, <1>3, <3>1 DEF Coming, InRing
    <3>3. n \in Nat /\ LastOut \in Nat /\ clock \in Nat /\ Span \in Nat
      BY <1>5, RingTypes
    <3>4. clock - LastOut <= Outage + 2 * Span
      BY <3>1, <3>2, <3>3
    <3>5. QED
      BY <1>2, <1>3, <1>5, <3>4
  <2>3. QED
    BY <2>1, <2>2
<1>6. QED
  BY <1>4, <1>5

\* Looking forward from the reader, packets come in the order of their source times, and
\* none is where a full queue would be.
LEMMA ReaderOrder ==
  ASSUME NEW Outage \in Nat, Timely, InOrder(Outage + 2 * Span),
         TypeOK, PlayInv(Outage), Fed(Outage), hasItems, ~Active,
         NEW n \in Sources, ~Early(n), n <= clock
  PROVE  /\ SeqOf[n] # PrevSlot(outputIdx)
         /\ Dist(outputIdx, SeqOf[n]) \in 0 .. Q - 2
         /\ \A m \in Sources : ~Early(m) /\ m < n =>
              Dist(outputIdx, SeqOf[m]) < Dist(outputIdx, SeqOf[n])
<1> DEFINE w == Outage + 2 * Span
<1>1. w \in Nat /\ InOrder(w) /\ clock \in Nat /\ n \in Nat /\ ReaderInPlace
  <2>1. Span \in Nat /\ clock \in Nat
    BY RingTypes
  <2>2. InOrder(w)
    OBVIOUS
  <2>3. QED
    BY <2>1, <2>2 DEF PlayInv
<1> HIDE DEF w
<1>2. \A m \in Sources : m \in Nat /\ SeqOf[m] \in Slots
  BY SlotFacts
<1>3. CASE delivered = << >>
  <2>1. PICK b \in Sources : b = queue[outputIdx].src
    BY <1>3, Horizon
  <2>2. SeqOf[b] = outputIdx /\ clock - b <= w
    BY <1>3, <2>1, Horizon DEF w
  <2>3. \A m \in Sources : ~Early(m) <=> b <= m
    BY <1>2, <1>3, <2>1 DEF Early
  <2>4. n - b <= w
    BY <1>1, <1>2, <2>2
  <2>5. Dist(outputIdx, SeqOf[n]) \in 0 .. Q - 2
    <3>1. CASE n = b
      BY <1>2, <2>2, <3>1, DistFacts
    <3>2. CASE b < n
      BY <1>1, <2>2, <2>4, <3>2, Ascending
    <3>3. QED
      BY <1>1, <1>2, <2>3, <3>1, <3>2
  <2>6. \A m \in Sources : ~Early(m) /\ m < n =>
              Dist(outputIdx, SeqOf[m]) < Dist(outputIdx, SeqOf[n])
    BY <1>1, <2>2, <2>3, <2>4, Ascending
  <2>7. QED
    BY <1>1, <1>2, <2>2, <2>5, <2>6, DistFacts
<1>4. CASE delivered # << >>
  <2>1. PICK b \in Sources : b = LastOut
    BY <1>4, RingTypes
  <2>2. outputIdx = NextSlot(SeqOf[b]) /\ clock - b <= w
    BY <1>1, <1>4, <2>1, Horizon DEF w, ReaderInPlace
  <2>3. \A m \in Sources : ~Early(m) <=> b < m
    BY <1>2, <1>4, <2>1 DEF Early
  <2>4. n - b <= w /\ b < n
    BY <1>1, <1>2, <2>2, <2>3
  <2>5. \A m \in Sources : b < m /\ m - b <= w =>
          /\ Dist(SeqOf[b], SeqOf[m]) \in 1 .. Q - 2
          /\ Dist(outputIdx, SeqOf[m]) = Dist(SeqOf[b], SeqOf[m]) - 1
    <3> SUFFICES ASSUME NEW m \in Sources, b < m, m - b <= w
                 PROVE  /\ Dist(SeqOf[b], SeqOf[m]) \in 1 .. Q - 2
                        /\ Dist(outputIdx, SeqOf[m]) = Dist(SeqOf[b], SeqOf[m]) - 1
      OBVIOUS
    <3>1. Dist(SeqOf[b], SeqOf[m]) \in 1 .. Q - 2 /\ SeqOf[b] # SeqOf[m]
      BY <1>1, <1>2, Ascending
    <3>2. QED
      BY <1>2, <2>2, <3>1, DistFacts
  <2>6. \A m \in Sources : b < m /\ m < n =>
          Dist(SeqOf[b], SeqOf[m]) < Dist(SeqOf[b], SeqOf[n])
    BY <1>1, <1>2, <2>4, Ascending
  <2>7. \A m \in Sources : b < m /\ m < n => m - b <= w
    BY <1>1, <1>2, <2>4
  <2>8. Dist(outputIdx, SeqOf[n]) \in 0 .. Q - 2
    BY <2>4, <2>5
  <2>9. SeqOf[n] # PrevSlot(outputIdx)
    <3>1. outputIdx \in Slots
      BY RingTypes
    <3>2. QED
      BY <1>2, <2>8, <3>1, DistFacts
  <2>10. \A m \in Sources : ~Early(m) /\ m < n =>
              Dist(outputIdx, SeqOf[m]) < Dist(outputIdx, SeqOf[n])
    BY <2>3, <2>4, <2>5, <2>6, <2>7
  <2>11. QED
    BY <2>8, <2>9, <2>10
<1>5. QED
  BY <1>3, <1>4


\* The first packet.
LEMMA FirstPlay ==
  ASSUME NEW Outage \in Nat, Timely, TypeOK, PlayInv(Outage), NEW n \in Sources, ReceiveFirst(n)
  PROVE  PlayInv(Outage)'
<1>1. /\ NotStarted /\ Measured /\ ~torn
      /\ \A m \in Sources : copies[m] <= Copies /\ copies[m] \in Nat
  BY DEF PlayInv, ReceiveFirst, TypeOK
<1>2. /\ clock \in Nat /\ n \in Nat /\ n <= clock /\ clock - n <= MaxReorder /\ SeqOf[n] \in Slots
      /\ clock' = clock
  BY SlotFacts, RingTypes DEF ReceiveFirst, Arrives
<1>3. Unreached = {}
  BY <1>1 DEF NotStarted, Unreached, Occupied
<1>4. /\ queue'[SeqOf[n]] = Fresh(clock, n)
      /\ \A i \in Slots : queue'[i] # Null => i = SeqOf[n]
  BY <1>1, <1>2, <1>3 DEF ReceiveFirst, NotStarted
<1>5. /\ outputIdx' = SeqOf[n] /\ lastSeqFound' = SeqOf[n] /\ maxSourceTime' = n
      /\ timeOffset' = clock - n /\ hasItems' /\ flowStart' /\ Measured' /\ ~torn'
      /\ delivered' = << >> /\ dpc' = "idle" /\ epc' = "idle" /\ missing' = {}
      /\ requested' = {} /\ lastPacketTs' = 0 /\ droppedFull' = 0
      /\ copies' = [copies EXCEPT ![n] = @ - 1]
  BY <1>1, <1>3 DEF NotStarted, ReceiveFirst, Arrives, enqueueVars, outputVars, raceVars,
                    Measured
<1>6. Fresh(clock, n) # Null
  BY <1>2, ArrivalType
<1>7. \A m \in Sources : copies'[m] <= Copies
  BY <1>1, <1>5 DEF TypeOK
<1>8. RingInTime'
  <2>1. ~(Early(n)')
    BY <1>2, <1>4, <1>5 DEF Early, Fresh
  <2>2. \A i \in Slots : queue'[i] # Null => queue'[i] = Fresh(clock, n) /\ i = SeqOf[n]
    BY <1>4
  <2>3. MaxReorder < Buffer
    BY DEF Timely
  <2>4. clock < n + Buffer /\ clock < clock + Buffer + OutputJitter /\ clock = n + (clock - n)
    BY <1>2, <2>3
  <2>5. clock = n + timeOffset' /\ clock < n + timeOffset' + Buffer + OutputJitter
    BY <1>2, <1>5, <2>4
  <2> SUFFICES ASSUME NEW i \in Slots, queue'[i] # Null
               PROVE  /\ SeqOf[queue'[i].src] = i
                      /\ queue'[i].src <= queue'[i].time /\ queue'[i].time <= clock
                      /\ queue'[i].time < queue'[i].src + Buffer
                      /\ queue'[i].ptime = queue'[i].src + timeOffset'
                      /\ clock < queue'[i].src + timeOffset' + Buffer + OutputJitter
                      /\ queue'[i].src <= maxSourceTime'
                      /\ ~(Early(queue[i].src)')
    BY <1>2 DEF RingInTime
  <2>6. queue'[i].src = n /\ queue'[i].time = clock /\ queue'[i].ptime = clock /\ i = SeqOf[n]
    BY <2>2 DEF Fresh
  <2>7. ~(Early(queue[i].src)')
    BY <2>1, <2>6 DEF Early
  <2>8. n <= n /\ clock <= clock
    BY <1>2
  <2>9. QED
    BY <1>2, <1>5, <2>4, <2>5, <2>6, <2>7, <2>8
<1>9. BusyInTime'
  BY <1>5 DEF BusyInTime
<1>10. ReaderInPlace'
  BY <1>4, <1>5, <1>6 DEF ReaderInPlace, Active
<1>11. NothingFar(Outage)'
  <2>1. InRing(n)'
    BY <1>2, <1>4, <1>6 DEF InRing, Fresh
  <2>2. Coming(maxSourceTime)'
    BY <1>5, <2>1 DEF Coming
  <2>3. QED
    BY <1>2, <1>5, <2>2 DEF NothingFar
<1>12. FirstBlock'
  <2>1. queue'[lastSeqFound'] # Null
    BY <1>4, <1>5, <1>6
  <2>2. queue'[outputIdx'].src = n
    BY <1>4, <1>5 DEF Fresh
  <2>3. NoneBeforeFirst'
    BY <1>5, <1>7 DEF NoneBeforeFirst, TypeOK
  <2>4. QED
    BY <1>5, <2>1, <2>2, <2>3 DEF FirstBlock
<1>13. 0 <= timeOffset' /\ timeOffset' <= MaxReorder
  BY <1>2, <1>5
<1>14. QED
  BY <1>5, <1>7, <1>8, <1>9, <1>10, <1>11, <1>12, <1>13 DEF PlayInv

\* What arrives comes before its time, after what was played, and it was not sent before
\* the first packet unless it is refused.
LEMMA ArrivalPlay ==
  ASSUME NEW Outage \in Nat, Timely, InOrder(Outage + 2 * Span),
         TypeOK, PlayInv(Outage), Fed(Outage), hasItems,
         NEW n \in Sources, NEW retry \in BOOLEAN, Arrives(n, retry)
  PROVE  /\ epc = "idle" /\ n \in Nat /\ n <= clock /\ clock < n + Buffer
         /\ ~TooLate(n)
         /\ ~Early(n) => ~BufferFull(n)
         /\ Early(n) => /\ BufferFull(n) /\ delivered = << >> /\ n < queue[outputIdx].src
                        /\ queue[outputIdx].src - n <= MaxReorder
<1>1. /\ epc = "idle" /\ n \in Nat /\ n <= clock /\ clock < n + Buffer /\ clock \in Nat
      /\ ~retry => clock - n <= MaxReorder
      /\ retry => SeqOf[n] \in requested
  BY RingTypes DEF Arrives, Timely
<1>2. ReaderInPlace /\ FirstBlock /\ timeOffset >= 0 /\ timeOffset \in Int
  BY RingTypes DEF PlayInv
<1>3. ~TooLate(n)
  BY <1>1, <1>2 DEF TooLate
<1>4. ASSUME ~Early(n) PROVE ~BufferFull(n)
  <2>1. CASE ~Active
    BY <1>1, <1>4, <2>1, ReaderOrder DEF BufferFull
  <2>2. CASE Active
    <3>1. delivered # << >> /\ LastOut \in Nat
      BY <1>2, <2>2, RingTypes DEF ReaderInPlace
    <3>2. LastOut < n
      BY <1>1, <1>4, <3>1 DEF Early
    <3>3. QED
      BY <1>1, <1>2, <2>2, <3>2 DEF BufferFull, ReaderInPlace
  <2>3. QED
    BY <2>1, <2>2
<1>5. ASSUME Early(n)
      PROVE  /\ BufferFull(n) /\ delivered = << >> /\ n < queue[outputIdx].src
             /\ queue[outputIdx].src - n <= MaxReorder
  <2>1. delivered = << >>
    <3> SUFFICES ASSUME delivered # << >> PROVE FALSE
      OBVIOUS
    <3>1. LastOut \in Nat /\ LastOut + Buffer <= clock /\ n <= LastOut
      BY <1>2, <1>5, RingTypes DEF ReaderInPlace, Early
    <3>2. QED
      BY <1>1, <3>1
  <2>2. PICK f \in Sources : f = queue[outputIdx].src /\ SeqOf[f] = outputIdx /\ f <= clock
    BY <2>1, Horizon
  <2>3. n < f /\ f \in Nat
    BY <1>5, <2>1, <2>2 DEF Early
  <2>4. ~retry
    BY <1>1, <1>2, <2>1, <2>2, <2>3 DEF FirstBlock, NoneBeforeFirst
  <2>5. f - n <= MaxReorder
    BY <1>1, <2>2, <2>3, <2>4
  <2>6. outputIdx = NextSlot(SeqOf[n])
    BY <2>2, <2>3, <2>5 DEF Timely, Neighbours
  <2>7. BufferFull(n)
    <3>1. SeqOf[n] \in Slots /\ outputIdx \in Slots
      BY SlotFacts, RingTypes
    <3>2. QED
      BY <2>6, <3>1, DistFacts DEF BufferFull
  <2>8. QED
    BY <2>1, <2>2, <2>3, <2>5, <2>7
<1>6. QED
  BY <1>1, <1>3, <1>4, <1>5

\* The packet before the first one is refused.
LEMMA DropFullPlay ==
  ASSUME NEW Outage \in Nat, Timely, InOrder(Outage + 2 * Span),
         TypeOK, PlayInv(Outage), Fed(Outage),
         NEW n \in Sources, NEW retry \in BOOLEAN, DropFull(n, retry)
  PROVE  PlayInv(Outage)' /\ hasItems'
<1>1. hasItems /\ Arrives(n, retry) /\ BufferFull(n)
  BY DEF DropFull
<1>2. /\ epc = "idle" /\ n \in Nat /\ delivered = << >> /\ n < queue[outputIdx].src
      /\ queue[outputIdx].src - n <= MaxReorder
  BY <1>1, ArrivalPlay
<1>3. RingInTime /\ BusyInTime /\ ReaderInPlace /\ NothingFar(Outage) /\ FirstBlock
  BY <1>1 DEF PlayInv
<1>4. PICK f \in Sources : /\ f = queue[outputIdx].src /\ SeqOf[f] = outputIdx
                           /\ f <= maxSourceTime
  BY <1>1, <1>2, Horizon
<1>5. f \in Nat /\ n < f /\ maxSourceTime \in Nat
  BY <1>2, <1>4, RingTypes
<1>6. NewestTs(n) = lastPacketTs /\ maxSourceTime' = maxSourceTime /\ lastPacketTs' = lastPacketTs
  <2>1. ~(n > maxSourceTime)
    BY <1>4, <1>5
  <2>2. QED
    BY <2>1 DEF DropFull, SeePacketTime, NewestTs
<1>7. /\ lastSeqFound' = PrevSlot(outputIdx) \/ lastSeqFound' = lastSeqFound
      /\ droppedFull' = droppedFull + 1
      /\ copies' = [copies EXCEPT ![n] = @ - 1] /\ copies[n] > 0
      /\ hasItems' = (droppedFull + 1 <= FullMax)
      /\ UNCHANGED <<clock, queue, outputIdx, timeOffset, missing, requested, epc, epkt,
                     lastSeqOutput, lastOutputTime, flowStart, delivered, dpc, dslot, collided, torn, uncounted>>
  BY DEF DropFull, Arrives, BufferFull, nackVars, enqueueVars, playVars, outputVars, raceVars
<1>8. NoneBeforeFirst /\ droppedFull + copies[n] <= Copies
  BY <1>2, <1>3 DEF FirstBlock, NoneBeforeFirst
<1>9. hasItems'
  <2>1. Copies <= FullMax /\ copies[n] \in Nat /\ droppedFull \in Nat
    BY DEF Timely, TypeOK
  <2>2. droppedFull + 1 <= FullMax
    BY <1>7, <1>8, <2>1
  <2>3. QED
    BY <1>7, <2>2
<1>10. \A m \in Sources : m < f /\ f - m <= MaxReorder => m = n
  <2> SUFFICES ASSUME NEW m \in Sources, m < f, f - m <= MaxReorder, m # n PROVE FALSE
    OBVIOUS
  <2>1. SeqOf[m] \in Slots /\ SeqOf[n] \in Slots /\ outputIdx \in Slots /\ m \in Nat
    BY SlotFacts, RingTypes
  <2>2. outputIdx = NextSlot(SeqOf[m]) /\ outputIdx = NextSlot(SeqOf[n])
    BY <1>2, <1>4, <1>5 DEF Timely, Neighbours
  <2>3. SeqOf[m] = SeqOf[n]
    <3>1. PrevSlot(NextSlot(SeqOf[m])) = SeqOf[m] /\ PrevSlot(NextSlot(SeqOf[n])) = SeqOf[n]
      BY <2>1, PrevNext
    <3>2. QED
      BY <2>2, <3>1
  <2> DEFINE w == Outage + 2 * Span
  <2>4. w \in Nat /\ InOrder(w) /\ MaxReorder <= w
    <3>1. Span \in Nat /\ MaxReorder <= Span
      BY DEF Span
    <3>2. w \in Nat /\ MaxReorder <= w
      BY <3>1
    <3>3. QED
      BY <3>2
  <2> HIDE DEF w
  <2>5. n - m <= w /\ m - n <= w
    BY <1>2, <1>4, <1>5, <2>1, <2>4
  <2>6. m < n \/ n < m
    BY <1>2, <2>1
  <2>7. QED
    BY <2>3, <2>4, <2>5, <2>6, Ascending
<1>11. NoneBeforeFirst'
  <2>1. \A m \in Sources : m < f /\ f - m <= MaxReorder => droppedFull' + copies'[m] <= Copies
    BY <1>7, <1>8, <1>10 DEF TypeOK
  <2>2. QED
    BY <1>4, <1>7, <1>8, <2>1 DEF NoneBeforeFirst
<1>12. FirstBlock'
  BY <1>2, <1>3, <1>6, <1>7, <1>11 DEF FirstBlock
<1>13. RingInTime' /\ BusyInTime' /\ ReaderInPlace' /\ NothingFar(Outage)'
  BY <1>3, <1>6, <1>7 DEF RingInTime, BusyInTime, ReaderInPlace, NothingFar, Early, Active,
                          Coming, InRing, LastOut, Unstamped, InSlot
<1>14. \A m \in Sources : copies'[m] <= Copies
  BY <1>7 DEF PlayInv, TypeOK
<1>15. QED
  BY <1>7, <1>9, <1>12, <1>13, <1>14 DEF PlayInv, Measured

\* A packet is let in.
LEMMA AdmitPlay ==
  ASSUME NEW Outage \in Nat, Timely, InOrder(Outage + 2 * Span),
         TypeOK, PlayInv(Outage), Fed(Outage),
         NEW n \in Sources, NEW retry \in BOOLEAN, Admit(n, retry)
  PROVE  PlayInv(Outage)' /\ hasItems'
<1>1. hasItems /\ Arrives(n, retry) /\ ~BufferFull(n)
  BY DEF Admit
<1>2. epc = "idle" /\ n \in Nat /\ ~Early(n) /\ n <= clock /\ clock < n + Buffer
  BY <1>1, ArrivalPlay
<1>3. RingInTime /\ ReaderInPlace /\ NothingFar(Outage) /\ FirstBlock
  BY <1>1 DEF PlayInv
<1>4. /\ clock \in Nat /\ maxSourceTime \in Nat /\ timeOffset \in Int
      /\ \A i \in Slots : queue[i] # Null => queue[i].src \in Nat
      /\ delivered # << >> => LastOut \in Nat
  BY RingTypes
<1>5. /\ epc' = "admitted" /\ epkt'.src = n /\ epkt'.ptime = n + timeOffset
      /\ epkt'.retry = retry /\ epkt'.ooo = (OutOfOrder(n) /\ ~retry)
      /\ maxSourceTime' = (IF n > maxSourceTime THEN n ELSE maxSourceTime)
      /\ lastPacketTs' = NewestTs(n)
      /\ copies' = [copies EXCEPT ![n] = @ - 1]
      /\ UNCHANGED <<clock, queue, outputIdx, hasItems, timeOffset, lastSeqFound, droppedFull,
                     missing, requested, lastSeqOutput, lastOutputTime, flowStart, delivered,
                     dpc, dslot, collided, torn, uncounted>>
  BY DEF Admit, Arrives, SeePacketTime, ringVars, statVars, nackVars, playVars, outputVars,
         raceVars
<1>6. maxSourceTime' >= maxSourceTime /\ maxSourceTime' >= n /\ maxSourceTime' \in Nat
  BY <1>2, <1>4, <1>5
<1>7. RingInTime'
  <2>1. \A i \in Slots : queue[i] # Null => queue[i].src <= maxSourceTime'
    BY <1>3, <1>4, <1>6 DEF RingInTime
  <2>2. QED
    BY <1>2, <1>3, <1>5, <2>1 DEF RingInTime, Early, Active, LastOut, Unstamped
<1>8. BusyInTime'
  BY <1>2, <1>5, <1>6 DEF BusyInTime, Early, LastOut
<1>9. ReaderInPlace'
  <2>1. delivered # << >> => LastOut <= maxSourceTime'
    BY <1>3, <1>4, <1>6 DEF ReaderInPlace
  <2>2. QED
    BY <1>3, <1>5, <2>1 DEF ReaderInPlace, Active, LastOut
<1>10. NothingFar(Outage)'
  <2>1. Coming(n)'
    BY <1>5 DEF Coming
  <2>2. \A m \in Sources : Coming(m) => Coming(m)'
    BY <1>2, <1>5 DEF Coming, InRing
  <2>3. LastOut' = LastOut /\ (delivered' = << >> <=> delivered = << >>)
    BY <1>5 DEF LastOut
  <2>4. maxSourceTime' \in Sources /\ maxSourceTime' <= clock'
    BY <1>2, <1>3, <1>5 DEF NothingFar
  <2>5. Coming(maxSourceTime)' \/ (delivered' # << >> /\ maxSourceTime' = LastOut')
    <3>1. CASE maxSourceTime' = n
      <4>1. \A m : m = n => (Coming(n)' => Coming(m)')
        OBVIOUS
      <4>2. QED
        BY <1>5, <2>1, <3>1 DEF Coming
    <3>2. CASE maxSourceTime' = maxSourceTime
      BY <1>2, <1>3, <1>5, <2>3, <3>2 DEF NothingFar, Coming, InRing
    <3>3. QED
      BY <1>5, <3>1, <3>2
  <2>6. ASSUME delivered' # << >>, maxSourceTime' # LastOut'
        PROVE  \E m \in Sources : LastOut' < m /\ m - LastOut' <= Outage + Span /\ Coming(m)'
    <3>1. CASE maxSourceTime = LastOut
      <4>1. LastOut < n /\ n - LastOut <= Outage
        BY <1>1, <1>2, <1>4, <2>3, <2>6, <3>1 DEF Early, Fed
      <4>2. n - LastOut <= Outage + Span
        BY <1>2, <1>4, <2>3, <2>6, <4>1, RingTypes
      <4>3. QED
        BY <2>1, <2>3, <4>1, <4>2
    <3>2. CASE maxSourceTime # LastOut
      BY <1>3, <2>2, <2>3, <2>6, <3>2 DEF NothingFar
    <3>3. QED
      BY <3>1, <3>2
  <2>7. QED
    BY <2>4, <2>5, <2>6 DEF NothingFar
<1>11. FirstBlock'
  <2> SUFFICES ASSUME delivered = << >>
               PROVE  /\ lastSeqFound = PrevSlot(outputIdx) \/ queue[lastSeqFound] # Null
                      /\ \/ lastPacketTs' = maxSourceTime' + timeOffset
                         \/ lastPacketTs' = 0 /\ maxSourceTime' = queue[outputIdx].src
                      /\ ~epkt'.retry /\ ~epkt'.ooo /\ queue[lastSeqFound] # Null
                           => queue[lastSeqFound].src <= n
                      /\ NoneBeforeFirst'
    BY <1>5 DEF FirstBlock
  <2>1. PICK f \in Sources : /\ f = queue[outputIdx].src /\ SeqOf[f] = outputIdx
                             /\ clock - f <= Outage + 2 * Span
    BY <1>1, Horizon
  <2>2. f \in Nat /\ f <= n
    BY <1>2, <2>1 DEF Early
  <2>3. \/ lastPacketTs' = maxSourceTime' + timeOffset
        \/ lastPacketTs' = 0 /\ maxSourceTime' = queue[outputIdx].src
    <3>1. CASE n > maxSourceTime
      BY <1>5, <3>1 DEF NewestTs
    <3>2. CASE ~(n > maxSourceTime)
      BY <1>3, <1>5, <3>2 DEF NewestTs, FirstBlock
    <3>3. QED
      BY <3>1, <3>2
  <2>4. ASSUME ~retry, ~OutOfOrder(n), queue[lastSeqFound] # Null
        PROVE  queue[lastSeqFound].src <= n
    <3>1. PICK h \in Sources : h = queue[lastSeqFound].src
      BY <2>4, RingTypes DEF TypeOK
    <3>2. lastSeqFound \in Slots /\ SeqOf[h] = lastSeqFound /\ h <= maxSourceTime /\ h <= clock
          /\ ~Early(h) /\ h \in Nat /\ clock - h < Span
      <4>1. lastSeqFound \in Slots
        BY DEF TypeOK
      <4>2. ~Active /\ clock - h < Span
        BY <1>1, <1>3, <2>4, <3>1, <4>1, Horizon DEF ReaderInPlace
      <4>3. queue[lastSeqFound].time \in Nat
        BY <2>4, <4>1, RingTypes
      <4>4. SeqOf[h] = lastSeqFound /\ h <= maxSourceTime /\ h <= clock /\ ~Early(h)
        BY <1>3, <1>4, <2>4, <3>1, <4>1, <4>2, <4>3 DEF RingInTime
      <4>5. QED
        BY <4>1, <4>2, <4>4
    <3>3. CASE n > maxSourceTime
      BY <1>2, <1>4, <3>1, <3>2, <3>3
    <3>4. CASE ~(n > maxSourceTime) /\ ~(n + timeOffset < NewestTs(n))
      <4>1. NewestTs(n) = lastPacketTs
        BY <3>4 DEF NewestTs
      <4>2. CASE lastPacketTs = maxSourceTime + timeOffset
        BY <1>2, <1>4, <3>1, <3>2, <3>4, <4>1, <4>2
      <4>3. CASE maxSourceTime = queue[outputIdx].src
        BY <1>2, <1>4, <2>1, <2>2, <3>1, <3>2, <4>3
      <4>4. QED
        BY <1>3, <4>2, <4>3 DEF FirstBlock
    <3>5. CASE SeqOf[n] = ExpectedSeq
      <4>1. NextSlot(lastSeqFound) \in Slots
        BY <3>2, SlotFacts
      <4>2. ExpectedSeq = NextSlot(lastSeqFound) \/ ExpectedSeq = lastSeqFound
        BY <3>2, <4>1 DEF ExpectedSeq, NextSlot, Slots
      <4>3. SUFFICES ASSUME n < h PROVE FALSE
        BY <1>2, <3>1, <3>2
      <4> DEFINE w == Outage + 2 * Span
      <4>4. w \in Nat /\ InOrder(w) /\ Span <= w
        <5>1. Span \in Nat
          BY RingTypes
        <5>2. w \in Nat /\ Span <= w
          BY <5>1
        <5>3. QED
          BY <5>2
      <4> HIDE DEF w
      <4>5. h - n <= w
        <5>1. clock - n < Span /\ Span \in Nat
          BY <1>2, <1>4, RingTypes DEF Span
        <5>2. QED
          BY <1>2, <1>4, <3>2, <4>4, <5>1
      <4>6. Dist(SeqOf[n], SeqOf[h]) \in 1 .. Q - 2 /\ SeqOf[n] # SeqOf[h]
        BY <1>2, <4>3, <4>4, <4>5, Ascending
      <4>7. SeqOf[n] \in Slots /\ SeqOf[h] \in Slots
        BY SlotFacts
      <4>8. Dist(SeqOf[h], SeqOf[n]) = Q - Dist(SeqOf[n], SeqOf[h])
        BY <4>6, <4>7, DistFacts
      <4>9. SeqOf[n] = NextSlot(SeqOf[h])
        BY <3>2, <3>5, <4>2, <4>6
      <4>10. Dist(SeqOf[h], SeqOf[n]) = 1
        BY <4>7, <4>9, DistFacts
      <4>11. QED
        BY <4>6, <4>8, <4>10
    <3>6. QED
      BY <2>4, <3>3, <3>4, <3>5 DEF OutOfOrder
  <2>5. NoneBeforeFirst'
    <3>1. \A m \in Sources : copies'[m] <= copies[m] /\ copies'[m] \in Int /\ copies[m] \in Int
      BY <1>5 DEF TypeOK
    <3>2. droppedFull \in Nat
      BY DEF TypeOK
    <3>3. NoneBeforeFirst
      BY <1>3 DEF FirstBlock
    <3>4. QED
      BY <1>5, <3>1, <3>2, <3>3 DEF NoneBeforeFirst
  <2>6. QED
    BY <1>3, <1>5, <2>3, <2>4, <2>5 DEF FirstBlock
<1>12. \A m \in Sources : copies'[m] <= Copies
  BY <1>5 DEF PlayInv, TypeOK
<1>13. QED
  BY <1>1, <1>5, <1>7, <1>8, <1>9, <1>10, <1>11, <1>12 DEF PlayInv, Measured


\* A step that leaves alone all that PlayInv is about.
LEMMA PlayQuiet ==
  ASSUME NEW Outage \in Nat, PlayInv(Outage),
         UNCHANGED <<clock, copies, queue, hasItems, outputIdx, sourceVars, droppedFull,
                     missing, requested, enqueueVars, lastSeqOutput, lastOutputTime,
                     flowStart, delivered, outputVars, collided, torn, uncounted>>
  PROVE  PlayInv(Outage)'
<1>1. UNCHANGED <<NotStarted, RingInTime, BusyInTime, ReaderInPlace, FirstBlock>>
  BY DEF sourceVars, enqueueVars, outputVars, NotStarted, RingInTime, BusyInTime,
         ReaderInPlace, FirstBlock, NoneBeforeFirst, Early, Active, LastOut, InSlot, Unstamped
<1>2. NothingFar(Outage)' = NothingFar(Outage)
  BY DEF sourceVars, enqueueVars, NothingFar, Coming, InRing, LastOut
<1>3. QED
  BY <1>1, <1>2 DEF PlayInv, Measured, sourceVars

\* The packet is there already.
LEMMA DuplicatePlay ==
  ASSUME NEW Outage \in Nat, TypeOK, PlayInv(Outage), Duplicate
  PROVE  PlayInv(Outage)' /\ hasItems'
<1>1. /\ epc = "found" /\ epc' = "idle" /\ epkt' = epkt /\ queue[InSlot] # Null
      /\ queue[InSlot].src = epkt.src
      /\ UNCHANGED <<clock, copies, queue, outputIdx, hasItems, timeOffset, maxSourceTime,
                     lastPacketTs, lastSeqFound, droppedFull,
                     missing, requested, lastSeqOutput, lastOutputTime, flowStart, delivered,
                     dpc, dslot, collided, torn, uncounted>>
  BY DEF Duplicate, ringVars, sourceVars, statVars, nackVars, playVars, outputVars, raceVars
<1>2. hasItems /\ RingInTime /\ ReaderInPlace /\ NothingFar(Outage) /\ FirstBlock
  BY <1>1 DEF PlayInv, NotStarted
<1>3. InRing(epkt.src)
  BY <1>1, RingTypes DEF InRing
<1>4. \A n \in Sources : Coming(n) => Coming(n)'
  BY <1>1, <1>3 DEF Coming, InRing
<1>5. NothingFar(Outage)'
  BY <1>1, <1>2, <1>4 DEF NothingFar, LastOut
<1>6. RingInTime' /\ BusyInTime' /\ ReaderInPlace' /\ FirstBlock'
  BY <1>1, <1>2 DEF RingInTime, BusyInTime, ReaderInPlace, FirstBlock, NoneBeforeFirst, Early,
                    Active, LastOut, Unstamped
<1>7. QED
  BY <1>1, <1>2, <1>5, <1>6 DEF PlayInv, Measured

\* No packet under way has the number of another one.
LEMMA NoneDisplaced ==
  ASSUME NEW Outage \in Nat, Timely, InOrder(Outage + 2 * Span),
         TypeOK, PlayInv(Outage), Fed(Outage), hasItems,
         epc # "idle", queue[InSlot] # Null
  PROVE  queue[InSlot].src = epkt.src
<1>1. RingInTime /\ BusyInTime
  BY DEF PlayInv
<1>2. /\ epkt.src \in Sources /\ epkt.src \in Nat /\ InSlot \in Slots
      /\ clock \in Nat /\ SeqOf[epkt.src] = InSlot /\ epkt.src <= clock
  BY <1>1, RingTypes DEF InSlot, BusyInTime
<1>3. SUFFICES ASSUME queue[InSlot].src # epkt.src PROVE FALSE
  OBVIOUS
<1>4. PICK m \in Sources : m = queue[InSlot].src
  BY <1>2, RingTypes
<1>5. /\ m \in Nat /\ m <= clock /\ SeqOf[m] = InSlot /\ clock - m < Span /\ m # epkt.src
      /\ clock - epkt.src < Span
  <2>1. queue[InSlot].time \in Nat
    BY <1>2, RingTypes
  <2>2. /\ m <= queue[InSlot].time /\ queue[InSlot].time <= clock
        /\ SeqOf[m] = InSlot /\ m \in Nat
    BY <1>1, <1>2, <1>4 DEF RingInTime
  <2>3. QED
    BY <1>2, <1>3, <1>4, <2>1, <2>2, Horizon
<1> DEFINE w == Outage + 2 * Span
<1>6. w \in Nat /\ InOrder(w) /\ Span <= w /\ Span \in Nat
  <2>1. Span \in Nat
    BY RingTypes
  <2>2. w \in Nat /\ Span <= w
    BY <2>1
  <2>3. QED
    BY <2>1, <2>2
<1> HIDE DEF w
<1>7. m - epkt.src <= w /\ epkt.src - m <= w
  BY <1>2, <1>5, <1>6
<1>8. m < epkt.src \/ epkt.src < m
  BY <1>2, <1>5
<1>9. QED
  BY <1>2, <1>5, <1>6, <1>7, <1>8, Ascending

\* The packet fills its slot.
LEMMA PublishPlay ==
  ASSUME NEW Outage \in Nat, Timely, InOrder(Outage + 2 * Span),
         TypeOK, PlayInv(Outage), Fed(Outage), Publish
  PROVE  PlayInv(Outage)' /\ hasItems'
<1>0. PICK j \in Junk : queue' = [queue EXCEPT ![InSlot] = Fresh(j, epkt.src)]
  BY DEF Publish
<1>1. /\ epc = "admitted" /\ epc' = "published" /\ epkt' = epkt /\ InSlot' = InSlot
      /\ queue[InSlot] = Null
      /\ UNCHANGED <<clock, copies, outputIdx, hasItems, timeOffset, maxSourceTime,
                     lastPacketTs, lastSeqFound, droppedFull,
                     missing, requested, lastSeqOutput, lastOutputTime, flowStart, delivered,
                     dpc, dslot, collided, torn, uncounted>>
  BY DEF Publish, sourceVars, statVars, nackVars, playVars, outputVars, raceVars, InSlot
<1>2. /\ hasItems /\ RingInTime /\ BusyInTime /\ ReaderInPlace /\ NothingFar(Outage)
      /\ FirstBlock /\ timeOffset >= 0 /\ timeOffset \in Int
  BY <1>1, RingTypes DEF PlayInv, NotStarted
<1>3. /\ epkt.src \in Sources /\ epkt.src \in Nat /\ epkt.ptime \in Int /\ InSlot \in Slots
      /\ outputIdx \in Slots /\ clock \in Nat /\ SeqOf[epkt.src] = InSlot
  BY <1>1, RingTypes DEF InSlot
<1>4. /\ epkt.src <= clock /\ clock < epkt.src + Buffer /\ ~Early(epkt.src)
      /\ epkt.ptime = epkt.src + timeOffset /\ epkt.src <= maxSourceTime
  BY <1>1, <1>2 DEF BusyInTime
<1>6. /\ queue'[InSlot] = Fresh(j, epkt.src) /\ Fresh(j, epkt.src) # Null
      /\ \A i \in Slots : i # InSlot => queue'[i] = queue[i]
  <2>1. Fresh(j, epkt.src) # Null
    BY <1>3, ArrivalType
  <2>2. QED
    BY <1>0, <1>3, <2>1 DEF TypeOK
<1>7. LastOut' = LastOut /\ Active' = Active
  BY <1>1 DEF LastOut, Active
<1>8. /\ delivered = << >> => InSlot # outputIdx
      /\ Active => InSlot # dslot /\ delivered # << >>
      /\ \A n : Early(n)' <=> Early(n)
  <2>1. /\ delivered = << >> => InSlot # outputIdx
        /\ Active => InSlot # dslot /\ delivered # << >>
    BY <1>1, <1>2 DEF ReaderInPlace
  <2>2. QED
    BY <1>1, <1>3, <1>6, <1>7, <2>1 DEF Early
<1>9. RingInTime'
  <2> SUFFICES ASSUME NEW i \in Slots, queue'[i] # Null
               PROVE  /\ SeqOf[queue'[i].src] = i
                      /\ queue'[i].src <= queue'[i].time /\ queue'[i].time <= clock
                      /\ queue'[i].time < queue'[i].src + Buffer
                      /\ Unstamped(i)' \/ queue'[i].ptime = queue'[i].src + timeOffset
                      /\ clock < queue'[i].src + timeOffset + Buffer + OutputJitter
                      /\ queue'[i].src <= maxSourceTime
                      /\ Early(queue'[i].src) => Active /\ i = dslot
    BY <1>1, <1>7, <1>8 DEF RingInTime
  <2>1. CASE i = InSlot
    <3>1. queue'[i].src = epkt.src /\ queue'[i].time = clock /\ Unstamped(i)'
      BY <1>1, <1>6, <2>1 DEF Fresh, Unstamped
    <3>2. clock < epkt.src + timeOffset + Buffer + OutputJitter
      BY <1>2, <1>3, <1>4
    <3>3. QED
      BY <1>3, <1>4, <2>1, <3>1, <3>2
  <2>2. CASE i # InSlot
    BY <1>1, <1>2, <1>6, <2>2 DEF RingInTime, Unstamped
  <2>3. QED
    BY <2>1, <2>2
<1>10. BusyInTime'
  BY <1>1, <1>2, <1>8 DEF BusyInTime
<1>11. ReaderInPlace'
  <2>1. delivered = << >> => queue'[outputIdx] # Null
    BY <1>2, <1>3, <1>6, <1>8 DEF ReaderInPlace
  <2>2. Active => queue'[dslot] = queue[dslot]
    <3>1. dslot \in Slots
      BY DEF TypeOK
    <3>2. QED
      BY <1>6, <1>8, <3>1
  <2>3. QED
    BY <1>1, <1>2, <1>7, <2>1, <2>2 DEF ReaderInPlace
<1>12. NothingFar(Outage)'
  <2>1. \A n \in Sources : Coming(n) => InRing(n)'
    <3> SUFFICES ASSUME NEW n \in Sources, Coming(n) PROVE InRing(n)'
      OBVIOUS
    <3>1. CASE InRing(n)
      <4>1. PICK i \in Slots : queue[i] # Null /\ queue[i].src = n
        BY <3>1 DEF InRing
      <4>2. queue'[i] = queue[i]
        BY <1>1, <1>6, <4>1
      <4>3. QED
        BY <4>1, <4>2 DEF InRing
    <3>2. CASE n = epkt.src
      <4>1. queue'[InSlot].src = n
        BY <1>6, <3>2 DEF Fresh
      <4>2. QED
        BY <1>3, <1>6, <4>1 DEF InRing
    <3>3. QED
      BY <3>1, <3>2 DEF Coming
  <2>2. \A n \in Sources : Coming(n) => Coming(n)'
    BY <2>1 DEF Coming
  <2>3. QED
    BY <1>1, <1>2, <1>7, <2>2 DEF NothingFar
<1>13. FirstBlock'
  <2> SUFFICES ASSUME delivered = << >> PROVE FirstBlock'
    BY <1>1 DEF FirstBlock
  <2>1. queue'[outputIdx] = queue[outputIdx]
    BY <1>3, <1>6, <1>8
  <2>2. lastSeqFound \in Slots
    BY DEF TypeOK
  <2>3. InSlot # lastSeqFound
    <3>1. CASE queue[lastSeqFound] # Null
      BY <1>1, <3>1
    <3>2. CASE lastSeqFound = PrevSlot(outputIdx)
      <4>1. ~Active
        BY <1>2 DEF ReaderInPlace
      <4>2. QED
        BY <1>2, <1>3, <1>4, <3>2, <4>1, ReaderOrder
    <3>3. QED
      BY <1>2, <3>1, <3>2 DEF FirstBlock
  <2>4. queue'[lastSeqFound] = queue[lastSeqFound]
    BY <1>6, <2>2, <2>3
  <2>5. InSlot' = InSlot
    BY <1>1 DEF InSlot
  <2>6. NoneBeforeFirst'
    BY <1>1, <1>2, <2>1 DEF FirstBlock, NoneBeforeFirst
  <2>7. QED
    BY <1>1, <1>2, <2>1, <2>3, <2>4, <2>5, <2>6 DEF FirstBlock
<1>14. QED
  BY <1>1, <1>2, <1>9, <1>10, <1>11, <1>12, <1>13 DEF PlayInv, Measured

\* The packet gets its times.
LEMMA StampPlay ==
  ASSUME NEW Outage \in Nat, TypeOK, PlayInv(Outage), BusyInv, Stamp
  PROVE  PlayInv(Outage)' /\ hasItems'
<1> DEFINE p == [queue[InSlot] EXCEPT !.ptime = epkt.ptime]
<1>1. /\ epc = "published" /\ epc' = "stored" /\ epkt' = epkt /\ InSlot' = InSlot
      /\ queue[InSlot] # Null /\ queue' = [queue EXCEPT ![InSlot] = p]
      /\ UNCHANGED <<clock, copies, outputIdx, hasItems, timeOffset, maxSourceTime,
                     lastPacketTs, lastSeqFound, droppedFull,
                     missing, requested, lastSeqOutput, lastOutputTime, flowStart, delivered,
                     dpc, dslot, collided, torn, uncounted>>
  BY DEF Stamp, sourceVars, statVars, nackVars, playVars, outputVars, raceVars, InSlot
<1>2. /\ hasItems /\ RingInTime /\ BusyInTime /\ ReaderInPlace /\ NothingFar(Outage) /\ FirstBlock
  BY <1>1 DEF PlayInv, NotStarted
<1>3. /\ InSlot \in Slots /\ queue[InSlot] \in Packet /\ epkt.ptime \in Int
      /\ outputIdx \in Slots /\ lastSeqFound \in Slots /\ dslot \in Slots
      /\ queue[InSlot].src = epkt.src /\ epkt.ptime = epkt.src + timeOffset
  BY <1>1, <1>2, RingTypes DEF TypeOK, BusyInv, BusySound, BusyInTime
<1>4. /\ p # Null /\ p.src = queue[InSlot].src /\ p.time = queue[InSlot].time
      /\ p.ptime = epkt.ptime
  <2>1. p \in Packet
    BY <1>3 DEF Packet
  <2>2. QED
    BY <1>3, <2>1 DEF Packet
<1> HIDE DEF p
<1>5. /\ queue'[InSlot] = p
      /\ \A i \in Slots : i # InSlot => queue'[i] = queue[i]
  BY <1>1, <1>3 DEF TypeOK
<1>6. \A i \in Slots : /\ queue'[i] # Null <=> queue[i] # Null
                       /\ queue'[i].src = queue[i].src
                       /\ queue'[i].time = queue[i].time
  BY <1>1, <1>4, <1>5
<1>7. LastOut' = LastOut /\ Active' = Active /\ \A n : Early(n)' <=> Early(n)
  BY <1>1, <1>3, <1>6 DEF LastOut, Active, Early
<1>8. RingInTime'
  <2> SUFFICES ASSUME NEW i \in Slots, queue'[i] # Null
               PROVE  queue'[i].ptime = queue'[i].src + timeOffset
    BY <1>1, <1>2, <1>6, <1>7 DEF RingInTime
  <2>1. CASE i = InSlot
    BY <1>3, <1>4, <1>5, <2>1
  <2>2. CASE i # InSlot
    BY <1>2, <1>5, <1>6, <2>2 DEF RingInTime, Unstamped
  <2>3. QED
    BY <2>1, <2>2
<1>9. BusyInTime'
  BY <1>1, <1>2, <1>7 DEF BusyInTime
<1>10. ReaderInPlace'
  BY <1>1, <1>2, <1>3, <1>6, <1>7 DEF ReaderInPlace
<1>11. NothingFar(Outage)'
  <2>1. \A n \in Sources : Coming(n) => Coming(n)'
    BY <1>1, <1>6 DEF Coming, InRing
  <2>2. QED
    BY <1>1, <1>2, <1>7, <2>1 DEF NothingFar
<1>12. FirstBlock'
  BY <1>1, <1>2, <1>3, <1>6 DEF FirstBlock, NoneBeforeFirst
<1>13. QED
  BY <1>1, <1>2, <1>8, <1>9, <1>10, <1>11, <1>12 DEF PlayInv, Measured

\* The protocol thread goes on to its next step with the packet.
LEMMA MovePlay ==
  ASSUME NEW Outage \in Nat, PlayInv(Outage), Find \/ AddSize \/ CheckLast \/ ReadLast
  PROVE  PlayInv(Outage)' /\ hasItems'
<1>1. /\ UNCHANGED <<clock, copies, queue, outputIdx, hasItems, timeOffset, maxSourceTime,
                     lastPacketTs, lastSeqFound, droppedFull, epkt,
                     missing, requested, lastSeqOutput, lastOutputTime, flowStart, delivered,
                     dpc, dslot, collided, torn, uncounted>>
      /\ InSlot' = InSlot
  BY DEF Find, AddSize, CheckLast, ReadLast, ringVars, sourceVars, statVars, nackVars, playVars,
         outputVars, raceVars, InSlot
<1>2. /\ epc \notin {"idle", "published"} /\ epc' # "idle"
      /\ epc \in {"admitted", "found"} => epc' \in {"admitted", "found"}
      /\ epc' \in {"published", "stored", "counted", "checked", "timed"} =>
           epc \in {"published", "stored", "counted", "checked", "timed"}
      /\ epc' = "found" => queue[InSlot] # Null
  BY DEF Find, AddSize, CheckLast, ReadLast
<1>3. /\ hasItems /\ RingInTime /\ BusyInTime /\ ReaderInPlace /\ NothingFar(Outage) /\ FirstBlock
  BY <1>2 DEF PlayInv, NotStarted
<1>4. RingInTime' /\ BusyInTime' /\ ReaderInPlace'
  BY <1>1, <1>2, <1>3 DEF RingInTime, BusyInTime, ReaderInPlace, Early, Active, LastOut, Unstamped
<1>5. FirstBlock'
  BY <1>1, <1>2, <1>3 DEF FirstBlock, NoneBeforeFirst
<1>6. NothingFar(Outage)'
  <2>1. \A n \in Sources : Coming(n) => Coming(n)'
    BY <1>1, <1>2 DEF Coming, InRing
  <2>2. QED
    BY <1>1, <1>3, <2>1 DEF NothingFar, LastOut
<1>7. QED
  BY <1>1, <1>3, <1>4, <1>5, <1>6 DEF PlayInv, Measured

\* The protocol thread has done with the packet.  When it marks the gap before it as
\* missing, that has no number from before the first packet.
LEMMA MarkGapPlay ==
  ASSUME NEW Outage \in Nat, Timely, InOrder(Outage + 2 * Span),
         TypeOK, PlayInv(Outage), BusyInv, Fed(Outage), Finish \/ MarkGap
  PROVE  PlayInv(Outage)' /\ hasItems'
<1>1. /\ epc \in {"counted", "timed"} /\ epkt' = epkt
      /\ UNCHANGED <<clock, copies, queue, outputIdx, hasItems, timeOffset, maxSourceTime,
                     lastPacketTs, droppedFull, requested, lastSeqOutput, lastOutputTime,
                     flowStart, delivered, dpc, dslot, collided, torn, uncounted>>
  BY DEF Finish, MarkGap, ringVars, statVars, nackVars, playVars, outputVars, raceVars
<1>2. /\ hasItems /\ RingInTime /\ BusyInTime /\ ReaderInPlace /\ NothingFar(Outage)
      /\ FirstBlock /\ Measured /\ ~torn
  BY <1>1 DEF PlayInv, NotStarted
<1>3. ~epkt.retry => queue[InSlot] # Null
  BY <1>1, <1>2 DEF BusyInv, NewHeld, Storing, Held, Measured
<1>4. /\ epc' = "idle"
      /\ \/ missing' = missing /\ lastSeqFound' = lastSeqFound
         \/ /\ ~epkt.retry /\ ~epkt.ooo /\ lastSeqFound' = InSlot
            /\ missing' = missing \/ missing' = missing \cup NewlyMissing
  <2>1. CASE Finish
    BY <2>1 DEF Finish, nackVars
  <2>2. CASE MarkGap
    <3>1. epc = "timed" /\ ~epkt.retry /\ ~epkt.ooo
      BY <2>2 DEF MarkGap, BusyInv
    <3>2. QED
      BY <1>3, <2>2, <3>1 DEF MarkGap
  <2>3. QED
    BY <2>1, <2>2
<1>5. RingInTime' /\ ReaderInPlace' /\ BusyInTime'
  BY <1>1, <1>2, <1>4 DEF RingInTime, ReaderInPlace, BusyInTime, Early, Active, LastOut,
                          Unstamped
<1>6. NothingFar(Outage)'
  BY <1>1, <1>2, <1>4 DEF NothingFar, Coming, InRing, LastOut
<1>7. ASSUME delivered = << >>, ~epkt.retry, ~epkt.ooo,
             NEW n \in Sources, n < queue[outputIdx].src, clock < n + Buffer,
             NEW e \in NewlyMissing, e.seq = SeqOf[n]
      PROVE  FALSE
  <2>1. PICK f \in Sources : /\ f = queue[outputIdx].src /\ SeqOf[f] = outputIdx /\ f <= clock
    BY <1>2, <1>7, Horizon
  <2>2. PICK m \in Sources : m = epkt.src /\ SeqOf[m] = InSlot /\ f <= m /\ m <= clock
    <3>1. epkt.src \in Sources /\ epkt.src \in Nat /\ f \in Nat
      BY <1>1, RingTypes
    <3>2. ~Early(epkt.src) /\ epkt.src <= clock
      BY <1>1, <1>2 DEF BusyInTime
    <3>3. f <= epkt.src
      BY <1>7, <2>1, <3>1, <3>2 DEF Early
    <3>4. QED
      BY <3>1, <3>2, <3>3 DEF InSlot
  <2>3. n \in Nat /\ f \in Nat /\ m \in Nat /\ clock \in Nat /\ n < f
    BY <1>7, <2>1, RingTypes
  <2> DEFINE w == Outage + 2 * Span
  <2>4. w \in Nat /\ InOrder(w) /\ m - n <= w
    <3>1. Span \in Nat /\ Buffer <= Span
      BY DEF Span
    <3>2. w \in Nat /\ Buffer <= w
      BY <3>1
    <3>3. QED
      BY <1>7, <2>2, <2>3, <3>2
  <2> HIDE DEF w
  <2>5. /\ SeqOf[n] \in Slots /\ SeqOf[f] \in Slots /\ SeqOf[m] \in Slots
        /\ lastSeqFound \in Slots
    BY SlotFacts DEF TypeOK
  <2>6. InSlot # lastSeqFound
    BY <1>1, <1>2, <1>7 DEF FirstBlock
  <2>7. Dist(lastSeqFound, SeqOf[n]) \in 1 .. Dist(lastSeqFound, SeqOf[m]) - 1
    BY <1>7, <2>2, <2>6 DEF NewlyMissing, GapSize
  <2>8. CASE queue[lastSeqFound] # Null
    <3>1. PICK h \in Sources : h = queue[lastSeqFound].src
      BY <2>5, <2>8, RingTypes
    <3>2. h \in Nat /\ SeqOf[h] = lastSeqFound /\ ~Early(h)
      BY <1>2, <1>7, <2>5, <2>8, <3>1 DEF RingInTime, ReaderInPlace
    <3>3. f <= h
      BY <1>7, <2>1, <2>3, <3>2 DEF Early
    <3>4. h <= m
      BY <1>1, <1>2, <1>7, <2>2, <2>8, <3>1 DEF FirstBlock
    <3>5. h < m
      BY <2>2, <2>3, <2>6, <3>2, <3>4
    <3>6. Dist(SeqOf[n], SeqOf[m]) = Dist(SeqOf[n], SeqOf[h]) + Dist(SeqOf[h], SeqOf[m])
          /\ Dist(SeqOf[n], SeqOf[m]) \in 1 .. Q - 2
      <4>1. h - n <= w /\ n < h /\ n < m
        BY <2>3, <2>4, <3>2, <3>3, <3>5
      <4>2. QED
        BY <2>4, <3>5, <4>1 DEF InOrder
    <3>7. Dist(SeqOf[h], SeqOf[n]) = Q - Dist(SeqOf[n], SeqOf[h])
      <4>1. SeqOf[n] # SeqOf[h]
        BY <2>3, <2>4, <2>5, <2>7, <3>2, DistFacts
      <4>2. QED
        BY <2>5, <3>2, <4>1, DistFacts
    <3>8. /\ Dist(SeqOf[n], SeqOf[h]) \in 0 .. Q - 1 /\ Dist(SeqOf[h], SeqOf[m]) \in 0 .. Q - 1
      BY <2>5, <3>2, DistFacts
    <3>9. QED
      BY <2>7, <3>2, <3>6, <3>7, <3>8
  <2>9. CASE lastSeqFound = PrevSlot(outputIdx)
    <3>1. /\ Dist(SeqOf[n], SeqOf[f]) \in 1 .. Q - 2 /\ SeqOf[n] # SeqOf[f]
      <4>1. f - n <= w
        BY <2>2, <2>3, <2>4
      <4>2. QED
        BY <2>3, <2>4, <4>1, Ascending
    <3>2. Dist(SeqOf[f], SeqOf[n]) = Q - Dist(SeqOf[n], SeqOf[f])
      BY <2>5, <3>1, DistFacts
    <3>3. SeqOf[n] # PrevSlot(SeqOf[f])
      BY <2>1, <2>5, <2>7, <2>9, DistFacts
    <3>4. Dist(lastSeqFound, SeqOf[n]) = Dist(SeqOf[f], SeqOf[n]) + 1
      BY <2>1, <2>5, <2>9, <3>3, DistFacts
    <3>5. Dist(lastSeqFound, SeqOf[m]) = Dist(SeqOf[f], SeqOf[m]) + 1
      BY <2>1, <2>2, <2>5, <2>6, <2>9, DistFacts
    <3>6. Dist(SeqOf[n], SeqOf[f]) + Dist(SeqOf[f], SeqOf[m]) <= Q - 2
      <4>1. CASE f = m
        BY <2>5, <3>1, <4>1, DistFacts
      <4>2. CASE f < m
        <5>1. Dist(SeqOf[n], SeqOf[m]) = Dist(SeqOf[n], SeqOf[f]) + Dist(SeqOf[f], SeqOf[m])
              /\ Dist(SeqOf[n], SeqOf[m]) \in 1 .. Q - 2
          <6>1. f - n <= w /\ n < m
            BY <2>2, <2>3, <2>4
          <6>2. QED
            BY <2>3, <2>4, <4>2, <6>1 DEF InOrder
        <5>2. QED
          BY <5>1
      <4>3. QED
        BY <2>2, <2>3, <4>1, <4>2
    <3>7. Dist(SeqOf[f], SeqOf[m]) \in 0 .. Q - 1
      BY <2>5, DistFacts
    <3>8. QED
      BY <2>7, <3>1, <3>2, <3>4, <3>5, <3>6, <3>7
  <2>10. QED
    BY <1>2, <1>7, <2>8, <2>9 DEF FirstBlock
<1>8. FirstBlock'
  <2> SUFFICES ASSUME delivered = << >> PROVE FirstBlock'
    BY <1>1 DEF FirstBlock
  <2>1. NoneBeforeFirst'
    <3>1. \A n \in Sources : n < queue[outputIdx].src /\ clock < n + Buffer =>
            \A e \in missing' : e.seq # SeqOf[n]
      BY <1>2, <1>4, <1>7 DEF FirstBlock, NoneBeforeFirst
    <3>2. QED
      BY <1>1, <1>2, <3>1 DEF FirstBlock, NoneBeforeFirst
  <2>2. lastSeqFound' = PrevSlot(outputIdx) \/ queue[lastSeqFound'] # Null
    BY <1>2, <1>3, <1>4 DEF FirstBlock
  <2>3. QED
    BY <1>1, <1>2, <1>4, <2>1, <2>2 DEF FirstBlock
<1>9. QED
  BY <1>1, <1>2, <1>5, <1>6, <1>8 DEF PlayInv, Measured

\* What is missing is asked for.
LEMMA NackPlay ==
  ASSUME NEW Outage \in Nat, TypeOK, PlayInv(Outage), NackOutput
  PROVE  PlayInv(Outage)' /\ hasItems'
<1>1. /\ missing # {} /\ missing' = {Renewed(e) : e \in {d \in missing : ~Removed(d)}}
      /\ requested' = requested \cup {e.seq : e \in {d \in missing : Nacked(d)}}
      /\ UNCHANGED <<clock, copies, queue, outputIdx, hasItems, timeOffset, maxSourceTime,
                     lastPacketTs, lastSeqFound, droppedFull, epc, epkt, lastSeqOutput,
                     lastOutputTime, flowStart, delivered, dpc, dslot, collided, torn, uncounted>>
  BY DEF NackOutput, ringVars, sourceVars, statVars, enqueueVars, playVars, outputVars, raceVars
<1>2. /\ hasItems /\ RingInTime /\ BusyInTime /\ ReaderInPlace /\ NothingFar(Outage) /\ FirstBlock
  BY <1>1 DEF PlayInv, NotStarted
<1>3. RingInTime' /\ BusyInTime' /\ ReaderInPlace'
  BY <1>1, <1>2 DEF RingInTime, BusyInTime, ReaderInPlace, Early, Active, LastOut, InSlot, Unstamped
<1>4. NothingFar(Outage)'
  BY <1>1, <1>2 DEF NothingFar, Coming, InRing, LastOut
<1>5. FirstBlock'
  <2>1. \A e \in missing' : \E d \in missing : e.seq = d.seq
    BY <1>1, RenewedFacts
  <2>2. \A s \in requested' : s \in requested \/ \E d \in missing : s = d.seq
    BY <1>1
  <2>3. NoneBeforeFirst => NoneBeforeFirst'
    BY <1>1, <2>1, <2>2 DEF NoneBeforeFirst
  <2>4. QED
    BY <1>1, <1>2, <2>3 DEF FirstBlock, InSlot
<1>6. QED
  BY <1>1, <1>2, <1>3, <1>4, <1>5 DEF PlayInv, Measured

\* The packet the output thread takes is the oldest one, in time, and it goes on with the
\* next one: nothing older is on its way.
LEMMA EmitPlay ==
  ASSUME NEW Outage \in Nat, Timely, InOrder(Outage + 2 * Span),
         TypeOK, PlayInv(Outage), Fed(Outage), NEW i \in Slots, Emit(i), ~torn'
  PROVE  /\ PlayInv(Outage)' /\ hasItems'
         /\ P!Next
<1>1. /\ dpc \in {"idle", "loop"} /\ Releasable(i) /\ ~Stale(i)
      /\ delivered' = Append(delivered,
                     [src |-> queue[i].src,
                      disc |-> i # outputIdx \/ i # NextSlot(lastSeqOutput),
                      start |-> flowStart])
      /\ lastOutputTime' = clock /\ lastSeqOutput' = i /\ dslot' = i /\ dpc' = "taken"
      /\ UNCHANGED <<clock, copies, queue, outputIdx, hasItems, timeOffset, maxSourceTime,
                     lastPacketTs, lastSeqFound, droppedFull, missing, requested, epc, epkt,
                     collided, torn, uncounted>>
      /\ InSlot' = InSlot /\ ~Unstamped(i)
  <2>1. torn = FALSE /\ torn' = (torn \/ Unstamped(i))
    BY DEF TypeOK, PlayInv, Emit
  <2>2. ~Unstamped(i) /\ torn' = torn
    BY <2>1
  <2>3. QED
    BY <2>2 DEF Emit, ringVars, sourceVars, statVars, nackVars, enqueueVars, InSlot
<1>2. queue[i] # Null /\ Ahead(i) = {}
  BY <1>1 DEF Releasable, Occupied
<1>3. /\ hasItems /\ RingInTime /\ BusyInTime /\ ReaderInPlace /\ NothingFar(Outage)
      /\ timeOffset >= 0 /\ timeOffset \in Int /\ ~Active
  BY <1>1, <1>2, RingTypes DEF PlayInv, NotStarted, Active
<1>4. PICK x \in Sources : x = queue[i].src
  BY <1>2, RingTypes
<1>5. /\ x \in Nat /\ SeqOf[x] = i /\ ~Early(x) /\ x <= maxSourceTime /\ clock \in Nat
      /\ queue[i].time \in Nat /\ x <= queue[i].time /\ queue[i].time <= clock
      /\ queue[i].ptime = x + timeOffset
  BY <1>1, <1>2, <1>3, <1>4, RingTypes DEF RingInTime
<1>6. x + Buffer <= clock
  <2>1. CASE Due(i)
    BY <1>3, <1>5, <2>1 DEF Due
  <2>2. CASE Age(i) > LateLimit
    <3>1. LateLimit \in Nat /\ Buffer <= LateLimit
      OBVIOUS
    <3>2. QED
      BY <1>5, <2>2, <3>1 DEF Age
  <2>3. QED
    BY <1>1, <2>1, <2>2 DEF Releasable
<1>7. x <= clock /\ clock - x < Span
  BY <1>2, <1>3, <1>4, <1>5, Horizon
<1>8. ASSUME NEW j \in Slots, queue[j] # Null, j # i
      PROVE  x < queue[j].src
  <2>1. PICK y \in Sources : y = queue[j].src
    BY <1>8, RingTypes
  <2>2. y \in Nat /\ SeqOf[y] = j /\ ~Early(y)
    BY <1>3, <1>8, <2>1 DEF RingInTime
  <2>3. SUFFICES ASSUME y <= x PROVE FALSE
    BY <1>5, <2>1, <2>2
  <2>4. y < x
    BY <1>5, <1>8, <2>2, <2>3
  <2>5. Dist(outputIdx, SeqOf[y]) < Dist(outputIdx, SeqOf[x])
    BY <1>3, <1>5, <1>7, <2>2, <2>4, ReaderOrder
  <2>6. j \in Ahead(i)
    BY <1>5, <1>8, <2>2, <2>5 DEF Ahead, Occupied
  <2>7. QED
    BY <1>2, <2>6
<1> DEFINE b == [src |-> x, disc |-> i # outputIdx \/ i # NextSlot(lastSeqOutput),
                 start |-> flowStart]
<1>9. /\ delivered \in Seq(Block) /\ b \in Block /\ flowStart \in BOOLEAN
      /\ delivered' = Append(delivered, b)
  BY <1>1, <1>4 DEF TypeOK, Block
<1>10. delivered' # << >> /\ Len(delivered') = Len(delivered) + 1 /\ delivered'[Len(delivered) + 1] = b
  BY <1>9, AppendProperties
<1>11. LastOut' = x /\ Active'
  BY <1>1, <1>10 DEF LastOut, Active
<1>12. RingInTime'
  <2>1. \A j \in Slots : queue'[j] # Null /\ Early(queue[j].src)' => j = i
    <3> SUFFICES ASSUME NEW j \in Slots, queue[j] # Null, Early(queue[j].src)', j # i
                 PROVE  FALSE
      BY <1>1
    <3>1. queue[j].src \in Nat /\ x < queue[j].src
      BY <1>8, RingTypes
    <3>2. queue[j].src <= x
      BY <1>1, <1>10, <1>11 DEF Early
    <3>3. QED
      BY <1>5, <3>1, <3>2
  <2>2. QED
    BY <1>1, <1>3, <1>11, <2>1 DEF RingInTime, Unstamped
<1>13. BusyInTime'
  <2> SUFFICES ASSUME epc # "idle" PROVE BusyInTime'
    BY <1>1 DEF BusyInTime
  <2>1. epkt.src \in Nat /\ clock < epkt.src + Buffer
    BY <1>3, RingTypes DEF BusyInTime
  <2>2. x < epkt.src
    BY <1>5, <1>6, <2>1
  <2>3. ~(Early(epkt.src)')
    BY <1>1, <1>5, <1>10, <1>11, <2>1, <2>2 DEF Early
  <2>4. QED
    BY <1>1, <1>3, <2>3 DEF BusyInTime
<1>14. ReaderInPlace'
  <2>1. ASSUME NEW n \in Sources, x < n, n <= clock PROVE SeqOf[n] # PrevSlot(outputIdx)
    <3>1. n \in Nat
      OBVIOUS
    <3>2. ~Early(n)
      <4>1. CASE delivered = << >>
        <5>1. queue[outputIdx].src \in Nat
          BY <1>3, <4>1, RingTypes DEF ReaderInPlace
        <5>2. QED
          BY <1>5, <2>1, <3>1, <4>1, <5>1 DEF Early
      <4>2. CASE delivered # << >>
        BY <1>5, <2>1, <3>1, <4>2, RingTypes DEF Early
      <4>3. QED
        BY <4>1, <4>2
    <3>3. QED
      BY <1>3, <2>1, <3>2, ReaderOrder
  <2>2. QED
    BY <1>1, <1>2, <1>4, <1>5, <1>6, <1>10, <1>11, <2>1 DEF ReaderInPlace
<1>15. NothingFar(Outage)'
  <2>1. \A n \in Sources : Coming(n)' <=> Coming(n)
    BY <1>1 DEF Coming, InRing
  <2>2. Coming(maxSourceTime)
    <3> SUFFICES ASSUME delivered # << >>, maxSourceTime = LastOut PROVE FALSE
      BY <1>3 DEF NothingFar
    <3>1. QED
      BY <1>5, RingTypes DEF Early
  <2>3. ASSUME maxSourceTime # x
        PROVE  x < maxSourceTime /\ maxSourceTime - x <= Outage + Span
    <3>1. maxSourceTime \in Nat /\ maxSourceTime <= clock /\ Span \in Nat
      BY <1>3, RingTypes DEF NothingFar
    <3>2. QED
      BY <1>5, <1>7, <2>3, <3>1
  <2>4. maxSourceTime \in Sources /\ maxSourceTime <= clock
    BY <1>3 DEF NothingFar
  <2>5. Coming(maxSourceTime)'
    BY <1>1, <2>2 DEF Coming, InRing
  <2>6. QED
    BY <1>1, <1>11, <2>1, <2>2, <2>3, <2>4, <2>5 DEF NothingFar
<1>16. FirstBlock'
  BY <1>10 DEF FirstBlock
<1>17. PlayInv(Outage)' /\ hasItems'
  BY <1>1, <1>3, <1>12, <1>13, <1>14, <1>15, <1>16 DEF PlayInv, Measured
<1>18. P!Next
  <2>1. delivered = << >> => b.start
    BY <1>3 DEF ReaderInPlace
  <2>2. ASSUME delivered # << >> PROVE P!Follows(b)
    <3>1. PICK l \in Sources : l = LastOut /\ l \in Nat /\ l < x
      BY <1>5, <2>2, RingTypes DEF Early
    <3>2. SUFFICES ASSUME NEW s \in Sources, l < s, s < x, i = outputIdx, i = NextSlot(lastSeqOutput)
                   PROVE  FALSE
      BY <3>1 DEF P!Follows, LastOut
    <3>3. i = NextSlot(SeqOf[l])
      BY <1>3, <2>2, <3>1, <3>2 DEF ReaderInPlace
    <3> DEFINE w == Outage + 2 * Span
    <3>4. w \in Nat /\ InOrder(w) /\ x - l <= w
      <4>1. Span \in Nat /\ clock - l <= w
        BY <1>3, <2>2, <3>1, Horizon, RingTypes
      <4>2. w \in Nat /\ x - l <= w
        BY <1>5, <1>7, <3>1, <4>1
      <4>3. QED
        BY <4>2
    <3> HIDE DEF w
    <3>5. s \in Nat /\ s - l <= w /\ x - s <= w
      BY <1>5, <3>1, <3>2, <3>4
    <3>6. /\ Dist(SeqOf[l], SeqOf[x]) = Dist(SeqOf[l], SeqOf[s]) + Dist(SeqOf[s], SeqOf[x])
          /\ Dist(SeqOf[l], SeqOf[s]) \in 1 .. Q - 2
          /\ Dist(SeqOf[s], SeqOf[x]) \in 1 .. Q - 2
      BY <3>1, <3>2, <3>4, <3>5 DEF InOrder
    <3>7. Dist(SeqOf[l], SeqOf[x]) = 1
      <4>1. SeqOf[l] \in Slots
        BY SlotFacts
      <4>2. QED
        BY <1>5, <3>3, <4>1, DistFacts
    <3>8. QED
      BY <3>6, <3>7
  <2>3. b \in P!Block
    BY <1>9 DEF Block, P!Block
  <2>4. QED
    BY <1>1, <1>9, <2>1, <2>2, <2>3 DEF P!Next
<1>19. QED
  BY <1>17, <1>18

\* No packet waits until it is stale.
LEMMA NeverStale ==
  ASSUME NEW Outage \in Nat, Timely, TypeOK, PlayInv(Outage), NEW i \in Slots, DropStale(i)
  PROVE  FALSE
<1>1. queue[i] # Null /\ Stale(i)
  BY DEF DropStale, Releasable, Occupied
<1>2. RingInTime /\ timeOffset \in 0 .. MaxReorder
  BY <1>1, RingTypes DEF PlayInv, NotStarted
<1>3. /\ clock \in Nat /\ queue[i].src \in Nat /\ queue[i].time \in Nat
      /\ queue[i].src <= queue[i].time
      /\ clock < queue[i].src + timeOffset + Buffer + OutputJitter
  BY <1>1, <1>2, RingTypes DEF RingInTime
<1>4. MaxReorder + OutputJitter <= Buffer + 1
  BY DEF Timely
<1>5. QED
  BY <1>1, <1>2, <1>3, <1>4 DEF Stale, Age

\* The output thread frees the slot and moves on.
LEMMA ClearPlay ==
  ASSUME NEW Outage \in Nat, Timely, InOrder(Outage + 2 * Span),
         TypeOK, PlayInv(Outage), Fed(Outage), Clear
  PROVE  PlayInv(Outage)' /\ hasItems'
<1>1. /\ dpc = "subtracted" /\ dpc' \in {"idle", "loop"}
      /\ queue' = [queue EXCEPT ![dslot] = Null] /\ outputIdx' = NextSlot(dslot)
      /\ UNCHANGED <<clock, copies, timeOffset, maxSourceTime,
                     lastPacketTs, lastSeqFound, droppedFull, missing, requested, epc, epkt,
                     lastSeqOutput, flowStart, delivered, dslot, collided, torn, uncounted>>
      /\ InSlot' = InSlot
  BY DEF Clear, sourceVars, statVars, nackVars, enqueueVars, raceVars, InSlot
<1>2. /\ hasItems /\ RingInTime /\ BusyInTime /\ ReaderInPlace /\ NothingFar(Outage) /\ Active
  BY <1>1 DEF PlayInv, NotStarted, Active
<1>3. /\ delivered # << >> /\ dslot = SeqOf[LastOut] /\ queue[dslot].src = LastOut
      /\ queue[dslot] # Null /\ lastOutputTime = clock /\ dslot \in Slots /\ clock \in Nat
  BY <1>2 DEF ReaderInPlace, TypeOK
<1>4. hasItems'
  <2>1. clock - clock <= Buffer
    BY <1>3
  <2>2. CASE queueSize = 0
    <3>1. lastOutputTime' = clock /\ hasItems' = (hasItems /\ clock - lastOutputTime' <= Buffer)
      BY <1>3, <2>2 DEF Clear
    <3>2. QED
      BY <1>2, <2>1, <3>1
  <2>3. CASE queueSize # 0
    BY <1>2, <2>3 DEF Clear
  <2>4. QED
    BY <2>2, <2>3
<1>5. LastOut' = LastOut /\ ~(Active')
  BY <1>1 DEF LastOut, Active
<1>6. \A j \in Slots : queue'[j] # Null => j # dslot /\ queue'[j] = queue[j]
  BY <1>1, <1>3 DEF TypeOK
<1>7. \A n : Early(n)' <=> Early(n)
  BY <1>1, <1>3, <1>5 DEF Early
<1>8. RingInTime'
  BY <1>1, <1>2, <1>6, <1>7 DEF RingInTime, Unstamped
<1>9. BusyInTime'
  <2>1. epc = "found" => InSlot # dslot
    <3> SUFFICES ASSUME epc = "found", InSlot = dslot PROVE FALSE
      OBVIOUS
    <3>1. queue[InSlot].src = epkt.src
      BY <1>2, <1>3, NoneDisplaced
    <3>2. ~Early(epkt.src)
      BY <1>2 DEF BusyInTime
    <3>3. LastOut \in Nat
      BY <1>3, RingTypes
    <3>4. QED
      BY <1>3, <3>1, <3>2, <3>3 DEF Early
  <2>2. epc = "found" => queue'[InSlot] # Null
    <3>1. epc = "found" => InSlot \in Slots
      BY RingTypes
    <3>2. QED
      BY <1>1, <1>2, <2>1, <3>1 DEF BusyInTime, TypeOK
  <2>3. QED
    BY <1>1, <1>2, <1>7, <2>2 DEF BusyInTime
<1>10. ReaderInPlace'
  BY <1>1, <1>2, <1>3, <1>5 DEF ReaderInPlace
<1>11. NothingFar(Outage)'
  <2>1. \A n \in Sources : n # LastOut /\ Coming(n) => Coming(n)'
    <3> SUFFICES ASSUME NEW n \in Sources, n # LastOut, InRing(n) PROVE InRing(n)'
      BY <1>1 DEF Coming
    <3>1. PICK j \in Slots : queue[j] # Null /\ queue[j].src = n
      BY DEF InRing
    <3>2. queue'[j] = queue[j]
      BY <1>1, <1>3, <3>1 DEF TypeOK
    <3>3. QED
      BY <3>1, <3>2 DEF InRing
  <2>2. LastOut \in Nat
    BY <1>3, RingTypes
  <2>3. PICK m \in Sources : m = maxSourceTime
    BY <1>2 DEF NothingFar
  <2>4. maxSourceTime \in Sources /\ maxSourceTime <= clock
    BY <1>2 DEF NothingFar
  <2>5. ASSUME maxSourceTime # LastOut
        PROVE  \E n \in Sources : LastOut < n /\ n - LastOut <= Outage + Span /\ Coming(n)'
    <3>1. PICK n \in Sources : LastOut < n /\ n - LastOut <= Outage + Span /\ Coming(n)
      BY <1>2, <1>3, <2>5 DEF NothingFar
    <3>2. n # LastOut
      BY <2>2, <3>1
    <3>3. QED
      BY <2>1, <3>1, <3>2
  <2>6. Coming(maxSourceTime)' \/ (delivered' # << >> /\ maxSourceTime' = LastOut')
    <3>1. CASE maxSourceTime = LastOut
      BY <1>1, <1>3, <1>5, <3>1
    <3>2. CASE maxSourceTime # LastOut
      <4>1. Coming(m)
        BY <1>2, <2>3, <3>2 DEF NothingFar
      <4>2. Coming(m)' /\ maxSourceTime' = m
        BY <1>1, <2>1, <2>3, <3>2, <4>1
      <4>3. QED
        BY <4>2 DEF Coming, InRing
    <3>3. QED
      BY <3>1, <3>2
  <2>7. QED
    BY <1>1, <1>5, <2>4, <2>5, <2>6 DEF NothingFar
<1>12. FirstBlock'
  BY <1>1, <1>3 DEF FirstBlock
<1>13. QED
  BY <1>1, <1>2, <1>4, <1>8, <1>9, <1>10, <1>11, <1>12 DEF PlayInv, Measured

\* A set of natural numbers has a smallest one.
LEMMA SmallestNumber ==
  ASSUME NEW T, T \subseteq Nat, T # {}
  PROVE  \E y \in T : \A z \in T : y <= z
<1>1. PICK y \in T : \A z \in T : ~(<<z, y>> \in OpToRel(<, Nat))
  BY NatLessThanWellFounded, WFMin, Zenon
<1>2. ASSUME NEW z \in T PROVE y <= z
  <2>1. ~(z < y)
    BY <1>1 DEF OpToRel
  <2>2. QED
    BY <2>1
<1>3. QED
  BY <1>2

\* Time does not pass a packet that may go: the oldest one in the ring is the one that may
\* go, and the output thread is called for it.
LEMMA TickPlay ==
  ASSUME NEW Outage \in Nat, Timely, InOrder(Outage + 2 * Span),
         TypeOK, SizeInv, PlayInv(Outage), Fed(Outage), Tick
  PROVE  PlayInv(Outage)'
<1>1. /\ epc = "idle" /\ dpc = "idle" /\ clock' = clock + 1
      /\ \A i \in Slots : Releasable(i) => InTime(i)
      /\ UNCHANGED <<copies, queue, outputIdx, hasItems, timeOffset, maxSourceTime,
                     lastPacketTs, lastSeqFound, droppedFull, missing, requested, epc, epkt,
                     lastSeqOutput, lastOutputTime, flowStart, delivered, dpc, dslot, collided, torn,
                     uncounted>>
  BY DEF Tick, ringVars, sourceVars, statVars, nackVars, enqueueVars, playVars, outputVars, raceVars
<1>2. CASE ~hasItems
  BY <1>1, <1>2 DEF PlayInv, Measured, NotStarted
<1>3. CASE hasItems
  <2>1. /\ RingInTime /\ BusyInTime /\ ReaderInPlace /\ NothingFar(Outage) /\ FirstBlock
        /\ timeOffset >= 0 /\ timeOffset \in Int /\ ~Active /\ Measured /\ clock \in Nat
    BY <1>1, <1>3, RingTypes DEF PlayInv, Active
  <2>2. ASSUME NEW i \in Slots, queue[i] # Null
        PROVE  clock + 1 < queue[i].src + timeOffset + Buffer + OutputJitter
    <3> DEFINE T == {queue[j].src : j \in Occupied}
    <3>1. T \subseteq Nat /\ queue[i].src \in T
      BY <2>2, RingTypes DEF Occupied, T
    <3> HIDE DEF T
    <3>2. PICK y \in T : \A z \in T : y <= z
      BY <3>1, SmallestNumber
    <3>3. PICK j \in Occupied : queue[j].src = y
      BY <3>2 DEF T
    <3>4. j \in Slots /\ queue[j] # Null /\ y \in Nat
      BY <3>1, <3>3 DEF Occupied
    <3>6. /\ SeqOf[y] = j /\ y <= queue[j].time /\ queue[j].time <= clock
          /\ queue[j].time < y + Buffer /\ queue[j].time \in Nat
          /\ queue[j].ptime = y + timeOffset /\ ~Early(y) /\ y \in Sources
      BY <1>1, <2>1, <3>3, <3>4, RingTypes DEF RingInTime, Unstamped
    <3>7. Ahead(j) = {}
      <4> SUFFICES ASSUME NEW k \in Occupied, Dist(outputIdx, k) < Dist(outputIdx, j) PROVE FALSE
        BY DEF Ahead
      <4>1. PICK z \in Sources : z = queue[k].src
        BY RingTypes DEF Occupied
      <4>2. k \in Slots /\ queue[k] # Null /\ z \in Nat /\ z \in T
        BY <4>1, RingTypes DEF Occupied, T
      <4>3. SeqOf[z] = k /\ ~Early(z) /\ z <= clock
        <5>1. queue[k].time \in Nat /\ z <= queue[k].time /\ queue[k].time <= clock
          BY <2>1, <4>1, <4>2, RingTypes DEF RingInTime
        <5>2. QED
          BY <2>1, <4>1, <4>2, <5>1 DEF RingInTime
      <4>4. y < z
        <5>1. y # z
          <6> SUFFICES ASSUME y = z PROVE FALSE
            OBVIOUS
          <6>1. k = j
            BY <3>6, <4>3
          <6>2. Dist(outputIdx, j) \in Int
            BY <3>4, SlotFacts DEF TypeOK
          <6>3. QED
            BY <6>1, <6>2
        <5>2. y <= z
          BY <3>2, <4>2
        <5>3. QED
          BY <3>4, <4>2, <5>1, <5>2
      <4>5. Dist(outputIdx, SeqOf[y]) < Dist(outputIdx, SeqOf[z])
        BY <1>3, <2>1, <3>6, <4>3, <4>4, ReaderOrder
      <4>6. Dist(outputIdx, j) \in Int /\ Dist(outputIdx, k) \in Int
        BY <3>4, <4>2, SlotFacts DEF TypeOK
      <4>7. QED
        BY <3>6, <4>3, <4>5, <4>6
    <3>8. queueSize # 0
      <4>1. IsFiniteSet(Occupied)
        BY SlotSubset DEF Occupied
      <4>2. Cardinality(Occupied) # 0
        BY <3>3, <4>1, FS_EmptySet
      <4>3. Cardinality(Occupied) \in Nat
        BY <4>1, FS_CardinalityType
      <4>4. QED
        BY <1>1, <2>1, <4>2, <4>3 DEF SizeInv, SizeInSync
    <3>9. SUFFICES ASSUME ~(clock + 1 < queue[i].src + timeOffset + Buffer + OutputJitter)
                   PROVE  FALSE
      OBVIOUS
    <3>10. queue[i].src \in Nat /\ y <= queue[i].src
      BY <3>1, <3>2
    <3>11. ~(clock + 1 < y + timeOffset + Buffer + OutputJitter)
      BY <2>1, <3>4, <3>9, <3>10
    <3>12. Due(j)
      BY <2>1, <3>4, <3>6, <3>11 DEF Due
    <3>13. InTime(j)
      BY <1>1, <3>3, <3>4, <3>7, <3>8, <3>12 DEF Releasable
    <3>14. QED
      BY <2>1, <3>4, <3>6, <3>11, <3>13 DEF InTime
  <2>3. RingInTime'
    <3> SUFFICES ASSUME NEW i \in Slots, queue[i] # Null
                 PROVE  /\ SeqOf[queue[i].src] = i
                        /\ queue[i].src <= queue[i].time /\ queue[i].time <= clock + 1
                        /\ queue[i].time < queue[i].src + Buffer
                        /\ queue[i].ptime = queue[i].src + timeOffset
                        /\ clock + 1 < queue[i].src + timeOffset + Buffer + OutputJitter
                        /\ queue[i].src <= maxSourceTime
                        /\ ~Early(queue[i].src)
      BY <1>1 DEF RingInTime, Early, Active, LastOut
    <3>1. queue[i].time \in Nat
      BY RingTypes
    <3>2. QED
      BY <1>1, <2>1, <2>2, <3>1 DEF RingInTime, Unstamped
  <2>4. BusyInTime'
    BY <1>1 DEF BusyInTime
  <2>5. ReaderInPlace'
    <3>1. delivered # << >> => LastOut + Buffer <= clock + 1
      BY <2>1, RingTypes DEF ReaderInPlace
    <3>2. QED
      BY <1>1, <2>1, <3>1 DEF ReaderInPlace, Active, LastOut
  <2>6. NothingFar(Outage)'
    <3>1. maxSourceTime \in Sources /\ maxSourceTime <= clock + 1
      BY <2>1, RingTypes DEF NothingFar
    <3>2. QED
      BY <1>1, <2>1, <3>1 DEF NothingFar, Coming, InRing, LastOut
  <2>7. FirstBlock'
    <3>1. NoneBeforeFirst => NoneBeforeFirst'
      <4>1. \A n \in Sources : clock + 1 < n + Buffer => clock < n + Buffer
        BY <2>1
      <4>2. QED
        BY <1>1, <4>1 DEF NoneBeforeFirst
    <3>2. QED
      BY <1>1, <2>1, <3>1 DEF FirstBlock, InSlot
  <2>8. QED
    BY <1>1, <1>3, <2>1, <2>3, <2>4, <2>5, <2>6, <2>7 DEF PlayInv, Measured
<1>4. QED
  BY <1>2, <1>3

\* Steps that only move a thread on, or begin a new interval of the statistics.
LEMMA OtherPlay ==
  ASSUME NEW Outage \in Nat, TypeOK, PlayInv(Outage), Subtract \/ Return \/ ReportStats
  PROVE  PlayInv(Outage)'
<1>1. /\ UNCHANGED <<clock, copies, queue, outputIdx, hasItems, timeOffset, maxSourceTime,
                     lastPacketTs, lastSeqFound, requested, epc, epkt, lastSeqOutput,
                     lastOutputTime, flowStart, delivered, dslot, collided, torn, uncounted>>
      /\ dpc' # "desync" \/ dpc' = dpc
      /\ Active' = Active
      /\ missing' \subseteq missing
      /\ dpc = "idle" => dpc' = "idle"
      /\ droppedFull' = droppedFull \/ droppedFull' = 0
  BY DEF Subtract, Return, ReportStats, Active, ringVars, sourceVars, statVars, nackVars,
         enqueueVars, playVars, outputVars, raceVars
<1>2. CASE ~hasItems
  BY <1>1, <1>2 DEF PlayInv, Measured, NotStarted
<1>3. CASE hasItems
  <2>1. RingInTime /\ BusyInTime /\ ReaderInPlace /\ NothingFar(Outage) /\ FirstBlock
    BY <1>3 DEF PlayInv
  <2>2. RingInTime' /\ BusyInTime' /\ ReaderInPlace'
    BY <1>1, <2>1 DEF RingInTime, BusyInTime, ReaderInPlace, Early, LastOut, InSlot, Unstamped
  <2>3. NothingFar(Outage)'
    BY <1>1, <2>1 DEF NothingFar, Coming, InRing, LastOut
  <2>4. FirstBlock'
    <3>1. \A n \in Sources : copies[n] \in Nat /\ copies[n] <= Copies
      BY DEF PlayInv, TypeOK
    <3>2. \A n \in Sources : droppedFull + copies[n] <= Copies => droppedFull' + copies[n] <= Copies
      BY <1>1, <3>1
    <3>3. NoneBeforeFirst => NoneBeforeFirst'
      BY <1>1, <3>2 DEF NoneBeforeFirst
    <3>4. QED
      BY <1>1, <2>1, <3>3 DEF FirstBlock, InSlot
  <2>5. QED
    BY <1>1, <1>3, <2>2, <2>3, <2>4 DEF PlayInv, Measured
<1>4. QED
  BY <1>2, <1>3

\* A flow that has not started: only its first packet, time and statistics.
LEMMA NotStartedSteps ==
  ASSUME TypeOK, SizeInv, NotStarted, ~hasItems, Measured, Next
  PROVE  (\E n \in Sources : ReceiveFirst(n)) \/ ReportStats \/ Tick
<1>1. ~Receive
  BY DEF Receive, DropLate, DropFull, Admit
<1>2. ~Enqueue
  BY DEF NotStarted, Enqueue, Find, LoseDupe, Duplicate, Displace, Publish,
         Stamp, LosePacket, AddSize, Finish, CheckLast, ReadLast, MarkGap
<1>3. ~NackOutput
  BY DEF NotStarted, NackOutput
<1>4. Occupied = {}
  BY DEF NotStarted, Occupied
<1>5. queueSize = 0
  BY <1>4, FS_EmptySet DEF NotStarted, SizeInv, SizeInSync
<1>6. ~Output
  BY <1>4, <1>5 DEF Output, NotStarted, Emit, DropStale, Subtract, Clear, FindNothing, ResetSize,
                    Return, Releasable
<1>7. ~FlowIdChange
  BY DEF FlowIdChange
<1>8. QED
  BY <1>1, <1>2, <1>3, <1>6, <1>7 DEF Next

\* Only a packet that is played shows the application anything.
LEMMA PlayedOnly ==
  ASSUME [Next]_vars
  PROVE  UNCHANGED <<delivered, torn>> \/ \E i \in Slots : Emit(i)
<1>1. CASE UNCHANGED vars
  BY <1>1 DEF vars, playVars, raceVars
<1>2. CASE \E n \in Sources : ReceiveFirst(n)
  BY <1>2 DEF ReceiveFirst, raceVars
<1>3. CASE Receive
  BY <1>3 DEF Receive, DropLate, DropFull, Admit, playVars, raceVars
<1>4. CASE Find \/ LoseDupe \/ Duplicate \/ Displace \/ Publish \/ Stamp
  BY <1>4 DEF Find, LoseDupe, Duplicate, Displace, Publish, Stamp, playVars, raceVars
<1>5. CASE LosePacket \/ AddSize \/ Finish \/ CheckLast \/ ReadLast \/ MarkGap
  BY <1>5 DEF LosePacket, AddSize, Finish, CheckLast, ReadLast, MarkGap, playVars, raceVars
<1>6. CASE NackOutput \/ ReportStats \/ FlowIdChange \/ Tick
  BY <1>6 DEF NackOutput, ReportStats, FlowIdChange, Tick, playVars, raceVars
<1>7. CASE Output
  BY <1>7 DEF Output, DropStale, Subtract, Clear, FindNothing, ResetSize, Return, playVars, raceVars
<1>8. QED
  BY <1>1, <1>2, <1>3, <1>4, <1>5, <1>6, <1>7 DEF Next, Enqueue

\* A packet that is played when one was played unstamped, itself perhaps, may be any one.
LEMMA PlayedUnstamped ==
  ASSUME TypeOK, NEW i \in Slots, Emit(i), torn'
  PROVE  P!Next
<1>1. queue[i].src \in Sources
  BY RingTypes DEF Emit, Releasable, Occupied
<1>2. PICK b : /\ b = [src |-> queue[i].src,
                       disc |-> i # outputIdx \/ i # NextSlot(lastSeqOutput),
                       start |-> flowStart]
               /\ delivered' = Append(delivered, b)
  BY DEF Emit
<1>3. b \in P!Block
  BY <1>1, <1>2 DEF TypeOK, P!Block
<1>4. QED
  BY <1>2, <1>3 DEF P!Next

\* The protocol thread finds its slot as it left it.
LEMMA OnTime ==
  ASSUME NEW Outage \in Nat, Timely, InOrder(Outage + 2 * Span),
         TypeOK, BusyInv, PlayInv(Outage), Fed(Outage), hasItems
  PROVE  ~LoseDupe /\ ~Displace /\ ~LosePacket
<1>1. ~LoseDupe
  BY DEF LoseDupe, PlayInv, BusyInTime
<1>2. ~Displace
  BY NoneDisplaced DEF Displace
<1>3. ~LosePacket
  BY DEF LosePacket, BusyInv, NewHeld, Storing, Held, PlayInv, Measured
<1>4. QED
  BY <1>1, <1>2, <1>3

\* In a flow whose packets come in time, and none of which is played unstamped, each step
\* keeps PlayInv, does not reset the flow, and is one of Playout or shows the application
\* nothing.
LEMMA PlayStep ==
  ASSUME NEW Outage \in Nat, Timely, InOrder(Outage + 2 * Span),
         TypeOK, SizeInv, BusyInv, PlayInv(Outage), Fed(Outage), [Next]_vars, ~torn'
  PROVE  /\ PlayInv(Outage)'
         /\ hasItems => hasItems'
         /\ [P!Next]_<<delivered, torn>>
<1>1. ASSUME NEW n \in Sources, ReceiveFirst(n)
      PROVE  PlayInv(Outage)' /\ hasItems' /\ UNCHANGED <<delivered, torn>>
  BY <1>1, FirstPlay DEF ReceiveFirst, raceVars
<1>2. CASE ReportStats
  BY <1>2, OtherPlay DEF ReportStats, ringVars, playVars, raceVars
<1>3. CASE Tick
  BY <1>3, TickPlay DEF Tick, ringVars, playVars, raceVars
<1>4. CASE UNCHANGED vars
  <2>1. /\ UNCHANGED <<clock, copies, queue, hasItems, outputIdx, sourceVars, droppedFull,
                       missing, requested, enqueueVars, lastSeqOutput, lastOutputTime,
                       flowStart, delivered, outputVars, collided, torn, uncounted>>
    BY <1>4 DEF vars, ringVars, statVars, nackVars, playVars, raceVars
  <2>2. QED
    BY <2>1, PlayQuiet
<1>5. CASE ~hasItems /\ Next
  <2>1. NotStarted /\ Measured
    BY <1>5 DEF PlayInv
  <2>2. QED
    BY <1>1, <1>2, <1>3, <1>5, <2>1, NotStartedSteps
<1>6. CASE hasItems /\ Next
  <2>1. ASSUME NEW n \in Sources, NEW retry \in BOOLEAN,
               DropLate(n, retry) \/ DropFull(n, retry) \/ Admit(n, retry)
        PROVE  PlayInv(Outage)' /\ hasItems' /\ UNCHANGED <<delivered, torn>>
    <3>1. ~DropLate(n, retry)
      BY <1>6, ArrivalPlay DEF DropLate
    <3>2. CASE DropFull(n, retry)
      BY <3>2, DropFullPlay DEF DropFull, playVars, raceVars
    <3>3. CASE Admit(n, retry)
      BY <3>3, AdmitPlay DEF Admit, playVars, raceVars
    <3>4. QED
      BY <2>1, <3>1, <3>2, <3>3
  <2>2. CASE Enqueue
    <3>1. UNCHANGED <<delivered, torn>>
      BY <2>2 DEF Enqueue, Find, LoseDupe, Duplicate, Displace, Publish, Stamp, LosePacket,
                  AddSize, Finish, CheckLast, ReadLast, MarkGap, playVars, raceVars
    <3>2. CASE Duplicate
      BY <3>1, <3>2, DuplicatePlay
    <3>3. CASE Publish
      BY <3>1, <3>3, PublishPlay
    <3>4. CASE Stamp
      BY <3>1, <3>4, StampPlay
    <3>5. CASE Find \/ AddSize \/ CheckLast \/ ReadLast
      BY <3>1, <3>5, MovePlay
    <3>6. CASE Finish \/ MarkGap
      BY <3>1, <3>6, MarkGapPlay
    <3>7. ~LoseDupe /\ ~Displace /\ ~LosePacket
      BY <1>6, OnTime
    <3>8. QED
      BY <2>2, <3>2, <3>3, <3>4, <3>5, <3>6, <3>7 DEF Enqueue
  <2>3. CASE NackOutput
    BY <2>3, NackPlay DEF NackOutput, playVars, raceVars
  <2>4. CASE Output
    <3>1. ASSUME NEW i \in Slots, Emit(i) PROVE PlayInv(Outage)' /\ hasItems' /\ P!Next
      BY <3>1, EmitPlay
    <3>2. ASSUME NEW i \in Slots, DropStale(i) PROVE FALSE
      BY <3>2, NeverStale
    <3>3. CASE Clear
      BY <3>3, ClearPlay DEF Clear, raceVars
    <3>4. CASE Subtract \/ Return
      BY <1>6, <3>4, OtherPlay DEF Subtract, Return, ringVars, playVars, raceVars
    <3>5. ~FindNothing
      <4> SUFFICES ASSUME FindNothing PROVE FALSE
        OBVIOUS
      <4>1. Cardinality(Occupied) = 0 /\ queueSize # 0 /\ dpc \in {"idle", "loop"}
        BY FS_EmptySet DEF FindNothing
      <4>2. Measured /\ queueSize \in Int
        BY DEF PlayInv, TypeOK
      <4>3. QED
        BY <4>1, <4>2 DEF SizeInv, SizeInSync, SizeCoversTaken
    <3>6. ~ResetSize
      BY <1>6 DEF ResetSize, PlayInv, ReaderInPlace
    <3>7. QED
      BY <2>4, <3>1, <3>2, <3>3, <3>4, <3>5, <3>6 DEF Output
  <2>5. ~FlowIdChange
    BY DEF FlowIdChange, Timely
  <2>6. QED
    BY <1>1, <1>2, <1>3, <1>6, <2>1, <2>2, <2>3, <2>4, <2>5 DEF Next, Receive
<1>7. QED
  BY <1>4, <1>5, <1>6

\* In a flow whose packets come in time, PlayInv holds until a packet is played unstamped,
\* no step before that resets the flow, and each step is one of Playout.
LEMMA PlayNext ==
  ASSUME NEW Outage \in Nat, Timely, InOrder(Outage + 2 * Span),
         TypeOK, SizeInv, BusyInv, torn \/ PlayInv(Outage), Fed(Outage), [Next]_vars
  PROVE  /\ torn' \/ PlayInv(Outage)'
         /\ hasItems => hasItems' \/ torn'
         /\ [P!Next]_<<delivered, torn>>
<1>1. CASE torn'
  BY <1>1, PlayedOnly, PlayedUnstamped
<1>2. CASE ~torn'
  <2>1. ~torn
    BY <1>2, PlayedOnly DEF Emit
  <2>2. QED
    BY <1>2, <2>1, PlayStep
<1>3. QED
  BY <1>1, <1>2

\* The flow has not started.
LEMMA PlayInit ==
  ASSUME NEW Outage \in Nat, Init
  PROVE  PlayInv(Outage) /\ BusyInv /\ P!Init
<1>1. NotStarted /\ Measured /\ ~torn /\ timeOffset = 0 /\ \A n \in Sources : copies[n] <= Copies
  BY DEF Init, NotStarted, Measured
<1>2. BusyInv
  BY DEF Init, BusyInv, InPlace, RingSound, BusySound, NewHeld, Storing, TakenOld, LastHeld,
         PacketFound, LastFound
<1>3. QED
  BY <1>1, <1>2 DEF Init, PlayInv, P!Init

\* Where packets come in time and in order and the flow does not pause for longer than
\* Outage, the application is handed the blocks as Playout promises, in order, once each,
\* gaps flagged, however the two threads interleave and whatever is lost, duplicated,
\* delayed or asked for again; and the flow is never reset.  Both promises end with the
\* first packet that the output thread plays before it is stamped.
THEOREM PlaysInOrder ==
  ASSUME NEW Outage \in Nat, Timely, InOrder(Outage + 2 * Span)
  PROVE  Spec /\ []Fed(Outage) => PlaysOut /\ NoReset
<1> DEFINE F == Fed(Outage)
           I == torn \/ PlayInv(Outage)
<1>1. Init => I /\ BusyInv /\ P!Init
  BY PlayInit
<1>2. MaxReorder < Buffer
  BY DEF Timely
<1>3. TypeOK /\ SizeInv /\ BusyInv /\ [Next]_vars => BusyInv'
  BY <1>2, BusyNext
<1>4. TypeOK /\ SizeInv /\ BusyInv /\ I /\ F /\ [Next]_vars => I'
  BY PlayNext
<1>5. TypeOK /\ SizeInv /\ BusyInv /\ I /\ F /\ [Next]_vars => [P!Next]_<<delivered, torn>>
  BY PlayNext
<1>6. TypeOK /\ SizeInv /\ BusyInv /\ I /\ F /\ [Next]_vars => [hasItems => hasItems' \/ torn']_vars
  BY PlayNext
<1>7. QED
  BY <1>1, <1>3, <1>4, <1>5, <1>6, TypeCorrect, SizeInvariant, PTL
     DEF Spec, PlaysOut, NoReset, P!Spec

\* When all the packets of the flow are numbered in one round of the ring, pauses do no
\* harm: there is no second round that could be taken for the first.
THEOREM OneRoundPlays == Timely /\ (\A w \in Nat : InOrder(w)) => (Spec => PlaysOut /\ NoReset)
<1> SUFFICES ASSUME Timely, \A w \in Nat : InOrder(w) PROVE Spec => PlaysOut /\ NoReset
  OBVIOUS
<1>1. PICK Outage \in Nat : Outage = MaxClock + 1
  OBVIOUS
<1>2. MaxReorder < Buffer /\ InOrder(Outage + 2 * Span)
  BY DEF Timely, Span
<1> DEFINE F == clock <= Outage
           I == torn \/ PlayInv(Outage)
<1>3. Init => I /\ BusyInv /\ P!Init /\ F
  <2>1. Init => F
    BY <1>1 DEF Init
  <2>2. QED
    BY <2>1, PlayInit
<1>4. TypeOK /\ F /\ [Next]_vars => F'
  <2> SUFFICES ASSUME TypeOK, F, [Next]_vars PROVE F'
    OBVIOUS
  <2>1. CASE Tick
    BY <1>1, <2>1 DEF Tick, TypeOK
  <2>2. CASE ~Tick
    <3>1. clock' = clock
      <4>1. CASE Enqueue
        BY <4>1 DEF Enqueue, Find, LoseDupe, Duplicate, Displace, Publish, Stamp, LosePacket,
                    AddSize, Finish, CheckLast, ReadLast, MarkGap
      <4>2. CASE ~Enqueue
        BY <2>2, <4>2 DEF Next, ReceiveFirst, Receive, DropLate, DropFull, Admit, NackOutput,
           Output, Emit, DropStale, Subtract, Clear, FindNothing, ResetSize, Return,
           ReportStats, FlowIdChange, vars
      <4>3. QED
        BY <4>1, <4>2
    <3>2. QED
      BY <3>1
  <2>3. QED
    BY <2>1, <2>2
<1>5. TypeOK /\ SizeInv /\ BusyInv /\ [Next]_vars => BusyInv'
  BY <1>2, BusyNext
<1>6. TypeOK /\ F => Fed(Outage)
  BY DEF TypeOK, Fed
<1>7. TypeOK /\ SizeInv /\ BusyInv /\ I /\ F /\ [Next]_vars => I'
  BY <1>2, <1>6, PlayNext
<1>8. TypeOK /\ SizeInv /\ BusyInv /\ I /\ F /\ [Next]_vars => [P!Next]_<<delivered, torn>>
  BY <1>2, <1>6, PlayNext
<1>9. TypeOK /\ SizeInv /\ BusyInv /\ I /\ F /\ [Next]_vars => [hasItems => hasItems' \/ torn']_vars
  BY <1>2, <1>6, PlayNext
<1>10. QED
  BY <1>3, <1>4, <1>5, <1>7, <1>8, <1>9, TypeCorrect, SizeInvariant, PTL
     DEF Spec, PlaysOut, NoReset, P!Spec

-----------------------------------------------------------------------------
(* What can still be played is on the missing list.                        *)

\* The source sends a packet a tick and numbers them one after the other, in one round of
\* the ring; numbers and ticks may be left out together.
Steady ==
  \A m, n \in Sources : m < n => Dist(SeqOf[m], SeqOf[n]) = n - m /\ n - m < Q - 1

\* An entry is not given up, by its age or by the number of its NACKs, before the time of
\* its packet is over, and the list is not flushed.
Patient ==
  /\ LateLimit > Buffer /\ LateLimit >= Buffer + MaxReorder
  /\ MaxRetries > 0
  /\ FirstNack + (MaxRetries - 1) * NackGap >= Buffer + MaxReorder
  /\ "dead" \notin Disruptions

\* Packet n has an entry that lasts.
Tracked(n) ==
  \E e \in missing :
    /\ e.seq = SeqOf[n]
    /\ n + timeOffset + Buffer <= e.insertion + LateLimit
    /\ n + 1 + FirstNack + e.count * NackGap <= e.next
    /\ e.count > 0 => e.next - NackGap <= clock
Accounted(n) == Early(n) \/ Coming(n) \/ clock > n + timeOffset + Buffer \/ Tracked(n)

\* The protocol thread is busy with a packet that will move last_seq_found on.
NewBusy == /\ epc # "idle" /\ ~epkt.retry /\ ~epkt.ooo
           /\ ~(epc \in {"admitted", "found"} /\ InRing(epkt.src))

\* The time receiver_mark_missing takes for that of packet h.
LastTimed(h) == epc = "timed" => lastTime = clock \/ lastTime = h + timeOffset

\* last_seq_found is the number of the newest packet, or of the one before it if that came
\* after the first packet of the flow; up to there all packets are accounted for.
FoundInv(h) ==
  /\ lastSeqFound = SeqOf[h] /\ h <= maxSourceTime
  /\ NewBusy => h < epkt.src /\ epkt.src - h <= Q \div 2
  /\ ~NewBusy => h = maxSourceTime \/ (h = maxSourceTime - 1 /\ Early(h))
  /\ epc # "idle" /\ ~epkt.retry /\ ~epkt.ooo => epkt.src = maxSourceTime
  /\ \A n \in Sources : n <= h => Accounted(n)
  /\ \/ lastPacketTs = maxSourceTime + timeOffset
     \/ \A n \in Sources : n < maxSourceTime => Early(n)
  /\ \A n \in Sources : SeqOf[n] \in requested \/ (\E e \in missing : e.seq = SeqOf[n])
                          => n < maxSourceTime
  /\ LastTimed(h)
HoleInv == hasItems => \E h \in Sources : FoundInv(h)

\* Numbers of a steady source.
LEMMA SteadyFacts ==
  ASSUME Steady, NEW m \in Sources, NEW n \in Sources
  PROVE  /\ m \in Nat /\ n \in Nat /\ SeqOf[m] \in Slots /\ SeqOf[n] \in Slots
         /\ SeqOf[m] = SeqOf[n] => m = n
         /\ m < n => Dist(SeqOf[m], SeqOf[n]) = n - m /\ Dist(SeqOf[n], SeqOf[m]) = Q - (n - m)
         /\ SeqOf[n] = NextSlot(SeqOf[m]) => n = m + 1
<1>1. m \in Nat /\ n \in Nat /\ SeqOf[m] \in Slots /\ SeqOf[n] \in Slots
  BY SlotFacts
<1>2. m < n => Dist(SeqOf[m], SeqOf[n]) = n - m /\ n - m < Q - 1
  BY DEF Steady
<1>3. n < m => Dist(SeqOf[n], SeqOf[m]) = m - n /\ m - n < Q - 1
  BY DEF Steady
<1>4. SeqOf[m] = SeqOf[n] => m = n
  BY <1>1, <1>2, <1>3, DistFacts
<1>5. m < n => Dist(SeqOf[n], SeqOf[m]) = Q - (n - m)
  BY <1>1, <1>2, <1>4, DistFacts
<1>6. SeqOf[n] = NextSlot(SeqOf[m]) => n = m + 1
  <2> SUFFICES ASSUME SeqOf[n] = NextSlot(SeqOf[m]) PROVE n = m + 1
    OBVIOUS
  <2>1. Dist(SeqOf[m], SeqOf[n]) = 1
    BY <1>1, DistFacts
  <2>2. CASE n < m
    <3>1. Dist(SeqOf[m], SeqOf[n]) = Q - (m - n)
      BY <1>1, <1>3, <2>2, DistFacts
    <3>2. QED
      BY <1>1, <1>3, <2>1, <2>2, <3>1
  <2>3. CASE n = m
    BY <1>1, <2>1, <2>3, DistFacts
  <2>4. QED
    BY <1>1, <1>2, <2>1, <2>2, <2>3
<1>7. QED
  BY <1>1, <1>2, <1>4, <1>5, <1>6

\* They are in order, whatever the window.
LEMMA SteadyOrder ==
  ASSUME Steady, NEW w \in Nat
  PROVE  InOrder(w)
<1> SUFFICES ASSUME NEW m \in Sources, NEW n \in Sources, m < n
             PROVE  /\ Dist(SeqOf[m], SeqOf[n]) \in 1 .. Q - 2
                    /\ \A k \in Sources : n < k =>
                         Dist(SeqOf[m], SeqOf[k]) = Dist(SeqOf[m], SeqOf[n]) + Dist(SeqOf[n], SeqOf[k])
  BY DEF InOrder
<1>1. m \in Nat /\ n \in Nat
  OBVIOUS
<1>2. Dist(SeqOf[m], SeqOf[n]) = n - m /\ n - m < Q - 1
  BY DEF Steady
<1>3. ASSUME NEW k \in Sources, n < k
      PROVE  Dist(SeqOf[m], SeqOf[k]) = Dist(SeqOf[m], SeqOf[n]) + Dist(SeqOf[n], SeqOf[k])
  <2>1. k \in Nat /\ m < k
    BY <1>1, <1>3
  <2>2. Dist(SeqOf[m], SeqOf[k]) = k - m /\ Dist(SeqOf[n], SeqOf[k]) = k - n
    BY <1>3, <2>1 DEF Steady
  <2>3. QED
    BY <1>1, <1>2, <2>1, <2>2
<1>4. QED
  BY <1>1, <1>2, <1>3

\* The NACKs of an entry take time.
LEMMA NackTime ==
  ASSUME NEW c \in Nat
  PROVE  /\ c * NackGap \in Nat
         /\ (c + 1) * NackGap = c * NackGap + NackGap
         /\ \A d \in Nat : c <= d => c * NackGap <= d * NackGap
<1>1. NackGap \in Nat
  OBVIOUS
<1>2. QED
  BY <1>1

\* The estimate of receiver_mark_missing is at most a tick early.
LEMMA LineEstimate ==
  ASSUME NEW D \in Nat, NEW k \in 1 .. D - 1
  PROVE  (k * D) \div (D + 1) >= k - 1
<1>1. k * D = (k - 1) * (D + 1) + (D + 1 - k)
  OBVIOUS
<1>2. (k * D) \div (D + 1) = k - 1
  OBVIOUS
<1>3. QED
  BY <1>2

\* The first packet.
LEMMA FirstHole ==
  ASSUME NEW Outage \in Nat, TypeOK, PlayInv(Outage), NEW n \in Sources, ReceiveFirst(n)
  PROVE  HoleInv'
<1>1. NotStarted
  BY DEF PlayInv, ReceiveFirst
<1>2. n \in Nat /\ clock \in Nat /\ SeqOf[n] \in Slots
  BY SlotFacts, RingTypes
<1>3. Unreached = {}
  BY <1>1 DEF NotStarted, Unreached, Occupied
<1>4. /\ queue'[SeqOf[n]] = Fresh(clock, n) /\ Fresh(clock, n) # Null
      /\ outputIdx' = SeqOf[n] /\ lastSeqFound' = SeqOf[n] /\ maxSourceTime' = n
      /\ delivered' = << >> /\ epc' = "idle" /\ missing' = {} /\ requested' = {}
  <2>1. Fresh(clock, n) # Null
    BY <1>2, ArrivalType
  <2>2. QED
    BY <1>1, <1>2, <1>3, <2>1 DEF NotStarted, ReceiveFirst, enqueueVars
<1>5. InRing(n)'
  BY <1>2, <1>4 DEF InRing, Fresh
<1>6. \A m \in Sources : m < n => Early(m)'
  BY <1>4 DEF Early, Fresh
<1>7. \A m \in Sources : m <= n => Accounted(m)'
  <2> SUFFICES ASSUME NEW m \in Sources, m <= n PROVE Accounted(m)'
    OBVIOUS
  <2>1. CASE m = n
    <3>1. InRing(m)'
      BY <1>5, <2>1 DEF InRing
    <3>2. QED
      BY <3>1 DEF Accounted, Coming
  <2>2. CASE m < n
    BY <1>6, <2>2 DEF Accounted
  <2>3. QED
    BY <1>2, <2>1, <2>2
<1>8. FoundInv(n)'
  BY <1>2, <1>4, <1>6, <1>7 DEF FoundInv, NewBusy, LastTimed
<1>9. QED
  BY <1>8 DEF HoleInv

\* A slot that holds anything holds the packet that has its number.
LEMMA SlotHolds ==
  ASSUME Steady, TypeOK, RingInTime, NEW n \in Sources
  PROVE  /\ queue[SeqOf[n]] # Null => queue[SeqOf[n]].src = n /\ InRing(n)
         /\ InRing(n) => queue[SeqOf[n]] # Null
<1>1. SeqOf[n] \in Slots
  BY SlotFacts
<1>2. ASSUME queue[SeqOf[n]] # Null PROVE queue[SeqOf[n]].src = n /\ InRing(n)
  <2>1. PICK m \in Sources : m = queue[SeqOf[n]].src
    BY <1>1, <1>2, RingTypes
  <2>2. SeqOf[m] = SeqOf[n]
    BY <1>1, <1>2, <2>1 DEF RingInTime
  <2>3. m = n
    BY <2>2, SteadyFacts
  <2>4. QED
    BY <1>1, <1>2, <2>1, <2>3 DEF InRing
<1>3. ASSUME InRing(n) PROVE queue[SeqOf[n]] # Null
  BY <1>3 DEF InRing, RingInTime
<1>4. QED
  BY <1>2, <1>3

\* As long as the list is left alone, packets stay accounted for.
LEMMA StillAccounted ==
  ASSUME TypeOK, clock' \in Nat, clock <= clock', timeOffset' = timeOffset, missing' = missing,
         NEW n \in Sources, Early(n) => Early(n)', Coming(n) => Coming(n)' \/ Early(n)',
         Accounted(n)
  PROVE  Accounted(n)'
<1>1. n \in Nat /\ clock \in Nat /\ timeOffset \in Int /\ missing \subseteq Entry
  BY DEF TypeOK
<1>2. CASE clock > n + timeOffset + Buffer
  BY <1>1, <1>2 DEF Accounted
<1>3. CASE Tracked(n)
  <2>1. PICK e \in missing :
          /\ e.seq = SeqOf[n]
          /\ n + timeOffset + Buffer <= e.insertion + LateLimit
          /\ n + 1 + FirstNack + e.count * NackGap <= e.next
          /\ e.count > 0 => e.next - NackGap <= clock
    BY <1>3 DEF Tracked
  <2>2. e.next - NackGap \in Int
    BY <1>1 DEF Entry
  <2>3. e.count > 0 => e.next - NackGap <= clock'
    BY <1>1, <2>1, <2>2
  <2>4. QED
    BY <2>1, <2>3 DEF Accounted, Tracked
<1>4. CASE Early(n) \/ Coming(n)
  BY <1>4 DEF Accounted
<1>5. QED
  BY <1>2, <1>3, <1>4 DEF Accounted

\* Steps that leave the source's side of the flow and the missing list alone.
LEMMA HoleQuiet ==
  ASSUME TypeOK, NEW h \in Sources, FoundInv(h),
         clock' \in Nat, clock <= clock', missing' = missing, requested' = requested,
         UNCHANGED <<timeOffset, maxSourceTime, lastPacketTs, lastSeqFound>>,
         NewBusy => NewBusy', NewBusy' => NewBusy,
         epc' # "idle" => epc # "idle" /\ epkt' = epkt,
         LastTimed(h)',
         \A n \in Sources : Early(n) => Early(n)',
         \A n \in Sources : Coming(n) => Coming(n)' \/ Early(n)'
  PROVE  FoundInv(h)'
<1>1. \A n \in Sources : n <= h => Accounted(n)'
  BY StillAccounted DEF FoundInv
<1>2. (NewBusy' => h < epkt'.src /\ epkt'.src - h <= Q \div 2)
  <2>1. NewBusy' => epkt' = epkt
    BY DEF NewBusy
  <2>2. QED
    BY <2>1 DEF FoundInv
<1>3. ~NewBusy' => h = maxSourceTime' \/ (h = maxSourceTime' - 1 /\ Early(h)')
  BY DEF FoundInv
<1>4. epc' # "idle" /\ ~epkt'.retry /\ ~epkt'.ooo => epkt'.src = maxSourceTime'
  BY DEF FoundInv
<1>5. /\ lastSeqFound' = SeqOf[h] /\ h <= maxSourceTime'
      /\ \/ lastPacketTs' = maxSourceTime' + timeOffset'
         \/ \A n \in Sources : n < maxSourceTime' => Early(n)'
      /\ \A n \in Sources : SeqOf[n] \in requested' \/ (\E e \in missing' : e.seq = SeqOf[n])
                          => n < maxSourceTime'
  BY DEF FoundInv
<1>6. QED
  BY <1>1, <1>2, <1>3, <1>4, <1>5 DEF FoundInv

\* A packet refused because the ring is taken for full: the one before the first.
LEMMA DropFullHole ==
  ASSUME NEW Outage \in Nat, Timely, Steady, TypeOK, PlayInv(Outage), Fed(Outage), hasItems,
         NEW h \in Sources, FoundInv(h),
         NEW n \in Sources, NEW retry \in BOOLEAN, DropFull(n, retry)
  PROVE  \E g \in Sources : FoundInv(g)'
<1>1. Arrives(n, retry) /\ InOrder(Outage + 2 * Span)
  <2>1. Outage + 2 * Span \in Nat
    BY RingTypes
  <2>2. QED
    BY <2>1, SteadyOrder DEF DropFull
<1>2. /\ epc = "idle" /\ n \in Nat /\ Early(n) /\ delivered = << >>
      /\ n < queue[outputIdx].src /\ queue[outputIdx].src - n <= MaxReorder
  <2>1. BufferFull(n)
    BY DEF DropFull
  <2>2. QED
    BY <1>1, <2>1, ArrivalPlay
<1>3. PICK f \in Sources : /\ f = queue[outputIdx].src /\ SeqOf[f] = outputIdx
                           /\ f <= maxSourceTime
  BY <1>2, Horizon
<1>4. /\ f \in Nat /\ n < f /\ maxSourceTime \in Nat /\ timeOffset \in Int /\ h \in Nat
      /\ ~Early(f)
  <2>1. f \in Nat /\ maxSourceTime \in Nat /\ timeOffset \in Int /\ h \in Nat
    BY RingTypes
  <2>2. QED
    BY <1>2, <1>3, <2>1 DEF Early
<1>5. NewestTs(n) = lastPacketTs /\ maxSourceTime' = maxSourceTime /\ lastPacketTs' = lastPacketTs
  <2>1. ~(n > maxSourceTime)
    BY <1>3, <1>4
  <2>2. QED
    BY <2>1 DEF DropFull, SeePacketTime, NewestTs
<1>6. /\ lastSeqFound' = (IF n + timeOffset > lastPacketTs THEN SeqOf[n] ELSE lastSeqFound)
      /\ UNCHANGED <<clock, queue, outputIdx, timeOffset, missing, requested, epc, epkt,
                     delivered>>
  BY <1>5 DEF DropFull, nackVars, enqueueVars, playVars
<1>7. /\ \A m \in Sources : (Early(m) <=> Early(m)') /\ (Coming(m) <=> Coming(m)')
      /\ ~NewBusy /\ ~NewBusy'
  BY <1>2, <1>6 DEF Early, Coming, InRing, LastOut, NewBusy
<1>8. CASE n + timeOffset > lastPacketTs
  <2>1. \A m \in Sources : m < maxSourceTime => Early(m)
    <3>1. lastPacketTs # maxSourceTime + timeOffset
      BY <1>2, <1>3, <1>4, <1>8
    <3>2. QED
      BY <3>1 DEF FoundInv
  <2>2. f = maxSourceTime
    BY <1>3, <1>4, <2>1
  <2>3. f = n + 1
    BY <1>2, <1>3, <1>4, SteadyFacts DEF Timely, Neighbours
  <2>4. \A m \in Sources : m <= n => Accounted(m)'
    <3> SUFFICES ASSUME NEW m \in Sources, m <= n PROVE Accounted(m)'
      OBVIOUS
    <3>1. m \in Nat
      BY SteadyFacts
    <3>2. m < f
      BY <1>2, <1>4, <3>1
    <3>3. Early(m)
      BY <1>2, <1>3, <3>2 DEF Early
    <3>4. QED
      BY <1>7, <3>3 DEF Accounted
  <2>5. FoundInv(n)'
    BY <1>2, <1>4, <1>5, <1>6, <1>7, <1>8, <2>1, <2>2, <2>3, <2>4 DEF FoundInv, LastTimed
  <2>6. QED
    BY <2>5
<1>9. CASE ~(n + timeOffset > lastPacketTs)
  <2>1. clock' \in Nat /\ clock <= clock'
    BY <1>6 DEF TypeOK
  <2>2. LastTimed(h)'
    BY <1>2, <1>6 DEF LastTimed
  <2>3. FoundInv(h)'
    BY <1>2, <1>5, <1>6, <1>7, <1>9, <2>1, <2>2, HoleQuiet
  <2>4. QED
    BY <2>3
<1>10. QED
  BY <1>8, <1>9

\* A packet is let in: it is newer than all others, or not taken for new.
LEMMA AdmitHole ==
  ASSUME NEW Outage \in Nat, Outage < Q \div 2, Timely, Steady,
         TypeOK, PlayInv(Outage), Fed(Outage), hasItems,
         NEW h \in Sources, FoundInv(h),
         NEW n \in Sources, NEW retry \in BOOLEAN, Admit(n, retry)
  PROVE  FoundInv(h)'
<1>1. Arrives(n, retry) /\ ~BufferFull(n) /\ InOrder(Outage + 2 * Span)
  <2>1. Outage + 2 * Span \in Nat
    BY RingTypes
  <2>2. QED
    BY <2>1, SteadyOrder DEF Admit
<1>2. epc = "idle" /\ n \in Nat /\ ~Early(n) /\ n <= clock
  BY <1>1, ArrivalPlay
<1>3. RingInTime /\ NothingFar(Outage) /\ clock - maxSourceTime <= Outage
  BY DEF PlayInv, Fed
<1>4. /\ clock \in Nat /\ maxSourceTime \in Nat /\ timeOffset \in Int /\ h \in Nat
      /\ lastPacketTs \in Int
  BY RingTypes DEF TypeOK
<1>5. /\ epc' = "admitted" /\ epkt'.src = n /\ epkt'.retry = retry
      /\ epkt'.ooo = (OutOfOrder(n) /\ ~retry)
      /\ maxSourceTime' = (IF n > maxSourceTime THEN n ELSE maxSourceTime)
      /\ lastPacketTs' = NewestTs(n)
      /\ UNCHANGED <<clock, queue, outputIdx, timeOffset, lastSeqFound, missing, requested,
                     delivered>>
  BY DEF Admit, SeePacketTime, ringVars, nackVars, playVars
<1>6. /\ \A m \in Sources : (Early(m) <=> Early(m)') /\ (Coming(m) => Coming(m)')
      /\ \A m \in Sources : InRing(m) <=> InRing(m)'
      /\ ~NewBusy /\ clock' \in Nat /\ clock <= clock'
  BY <1>2, <1>4, <1>5 DEF Early, Coming, InRing, LastOut, NewBusy
<1>7. \A m \in Sources : m <= h => Accounted(m)'
  BY <1>5, <1>6, StillAccounted DEF FoundInv
<1>8. h = maxSourceTime \/ (h = maxSourceTime - 1 /\ Early(h))
  BY <1>6 DEF FoundInv
<1>9. \A m \in Sources : SeqOf[m] \in requested \/ (\E e \in missing : e.seq = SeqOf[m])
                          => m < maxSourceTime
  BY DEF FoundInv
<1>10. LastTimed(h)'
  BY <1>5 DEF LastTimed
<1>11. CASE n > maxSourceTime
  <2>1. maxSourceTime' = n /\ lastPacketTs' = n + timeOffset
    BY <1>5, <1>11 DEF NewestTs
  <2>2. ~retry
    <3> SUFFICES ASSUME retry PROVE FALSE
      OBVIOUS
    <3>1. SeqOf[n] \in requested
      BY <1>1 DEF Arrives
    <3>2. QED
      BY <1>4, <1>9, <1>11, <3>1
  <2>3. ~OutOfOrder(n)
    BY <1>2, <1>4, <1>11 DEF OutOfOrder, NewestTs
  <2>4. ~(epkt'.retry) /\ ~(epkt'.ooo)
    BY <1>5, <2>2, <2>3, Zenon
  <2>5. NewBusy'
    <3>1. ~InRing(n)
      BY <1>3, <1>4, <1>11 DEF InRing, RingInTime
    <3>2. \A m \in Sources : m = n => (InRing(m)' <=> InRing(n)')
      OBVIOUS
    <3>3. epkt'.src \in Sources /\ epkt'.src = n
      BY <1>5
    <3>4. ~InRing(n)'
      BY <1>6, <3>1
    <3>5. ~(\E i \in Slots : queue'[i] # Null /\ queue'[i].src = epkt'.src)
      BY <1>5, <3>4 DEF InRing
    <3>6. QED
      BY <1>5, <2>4, <3>5 DEF NewBusy, InRing
  <2>6. h < n /\ n - h <= Q \div 2
    <3>1. n - h <= Outage + 1
      BY <1>2, <1>3, <1>4, <1>8
    <3>2. Q \div 2 \in Int
      OBVIOUS
    <3>3. QED
      BY <1>2, <1>4, <1>8, <1>11, <3>1, <3>2
  <2>7. \A m \in Sources : m < maxSourceTime => m < n
    BY <1>2, <1>4, <1>11
  <2>8. /\ lastSeqFound' = SeqOf[h] /\ h <= maxSourceTime' /\ epkt'.src = maxSourceTime'
        /\ lastPacketTs' = maxSourceTime' + timeOffset'
    BY <1>2, <1>4, <1>5, <2>1, <2>6 DEF FoundInv
  <2>9. \A m \in Sources : SeqOf[m] \in requested' \/ (\E e \in missing' : e.seq = SeqOf[m])
                          => m < maxSourceTime'
    BY <1>5, <1>9, <2>1, <2>7
  <2>10. epkt'.src = n
    BY <1>5
  <2>11. QED
    BY <1>7, <1>10, <2>5, <2>6, <2>8, <2>9, <2>10 DEF FoundInv
<1>12. CASE ~(n > maxSourceTime)
  <2>1. maxSourceTime' = maxSourceTime /\ NewestTs(n) = lastPacketTs /\ lastPacketTs' = lastPacketTs
    BY <1>5, <1>12 DEF NewestTs
  <2>2. ASSUME ~retry, ~OutOfOrder(n) PROVE n = maxSourceTime /\ InRing(n)
    <3>1. n = maxSourceTime
      <4>1. CASE ~(n + timeOffset < lastPacketTs)
        <5>1. CASE lastPacketTs = maxSourceTime + timeOffset
          BY <1>2, <1>4, <1>12, <4>1, <5>1
        <5>2. CASE \A m \in Sources : m < maxSourceTime => Early(m)
          BY <1>2, <1>4, <1>12, <5>2
        <5>3. QED
          BY <5>1, <5>2 DEF FoundInv
      <4>2. CASE SeqOf[n] = ExpectedSeq
        <5>1. lastSeqFound = SeqOf[h] /\ SeqOf[h] \in Slots /\ NextSlot(SeqOf[h]) \in Slots
          BY SlotFacts DEF FoundInv
        <5>2. ExpectedSeq = NextSlot(SeqOf[h]) \/ ExpectedSeq = SeqOf[h]
          BY <5>1 DEF ExpectedSeq, NextSlot, Slots
        <5>3. n = h \/ n = h + 1
          BY <4>2, <5>2, SteadyFacts
        <5>4. QED
          BY <1>2, <1>4, <1>8, <1>12, <5>3
      <4>3. QED
        BY <2>1, <2>2, <4>1, <4>2 DEF OutOfOrder
    <3>2. Coming(maxSourceTime) \/ (delivered # << >> /\ maxSourceTime = LastOut)
      BY <1>3 DEF NothingFar
    <3>3. InRing(maxSourceTime)
      BY <1>2, <3>1, <3>2 DEF Coming, Early
    <3>4. QED
      BY <3>1, <3>3
  <2>3. \A m \in Sources : m = n => (InRing(n)' => InRing(m)')
    OBVIOUS
  <2>4. ~NewBusy'
    <3>1. CASE epkt'.retry \/ epkt'.ooo
      BY <3>1 DEF NewBusy
    <3>2. CASE ~(epkt'.retry) /\ ~(epkt'.ooo)
      <4>1. ~retry /\ ~OutOfOrder(n)
        BY <1>5, <3>2, Zenon
      <4>2. InRing(n)'
        BY <1>6, <2>2, <4>1
      <4>3. \E i \in Slots : queue'[i] # Null /\ queue'[i].src = epkt'.src
        BY <1>5, <4>2 DEF InRing
      <4>4. QED
        BY <1>5, <4>3 DEF NewBusy, InRing
    <3>3. QED
      BY <3>1, <3>2
  <2>5. ~(epkt'.retry) /\ ~(epkt'.ooo) => epkt'.src = maxSourceTime'
    <3> SUFFICES ASSUME ~(epkt'.retry), ~(epkt'.ooo) PROVE epkt'.src = maxSourceTime'
      OBVIOUS
    <3>1. ~retry /\ ~OutOfOrder(n)
      BY <1>5, Zenon
    <3>2. QED
      BY <1>5, <2>1, <2>2, <3>1
  <2>6. /\ lastSeqFound' = SeqOf[h] /\ h <= maxSourceTime'
        /\ h = maxSourceTime' \/ (h = maxSourceTime' - 1 /\ Early(h)')
    BY <1>5, <1>6, <1>8, <2>1 DEF FoundInv
  <2>7. /\ \/ lastPacketTs' = maxSourceTime' + timeOffset'
           \/ \A m \in Sources : m < maxSourceTime' => Early(m)'
        /\ \A m \in Sources : SeqOf[m] \in requested' \/ (\E e \in missing' : e.seq = SeqOf[m])
                          => m < maxSourceTime'
    BY <1>5, <1>6, <1>9, <2>1 DEF FoundInv
  <2>8. QED
    BY <1>7, <1>10, <2>4, <2>5, <2>6, <2>7 DEF FoundInv
<1>13. QED
  BY <1>11, <1>12

\* A packet that is in its slot already.
LEMMA DuplicateHole ==
  ASSUME TypeOK, NEW h \in Sources, FoundInv(h), Duplicate
  PROVE  FoundInv(h)'
<1>1. /\ epc = "found" /\ epc' = "idle" /\ queue[InSlot] # Null
      /\ queue[InSlot].src = epkt.src
      /\ UNCHANGED <<clock, queue, outputIdx, timeOffset, maxSourceTime, lastPacketTs,
                     lastSeqFound, missing, requested, delivered>>
  BY DEF Duplicate, ringVars, sourceVars, nackVars, playVars
<1>2. InSlot \in Slots /\ clock' \in Nat /\ clock <= clock'
  BY <1>1, RingTypes
<1>3. InRing(epkt.src)
  BY <1>1, <1>2 DEF InRing
<1>4. ~NewBusy /\ ~NewBusy'
  BY <1>1, <1>3 DEF NewBusy
<1>5. ASSUME NEW n \in Sources PROVE (Early(n) => Early(n)') /\ (Coming(n) => Coming(n)')
  BY <1>1, <1>3 DEF Early, Coming, InRing, LastOut
<1>6. QED
  BY <1>1, <1>2, <1>4, <1>5, HoleQuiet DEF LastTimed

\* A packet is put into its empty slot.
LEMMA PublishHole ==
  ASSUME NEW Outage \in Nat, Steady, TypeOK, PlayInv(Outage), PlayInv(Outage)', hasItems,
         NEW h \in Sources, FoundInv(h), Publish
  PROVE  FoundInv(h)'
<1>0. PICK j \in Junk : queue' = [queue EXCEPT ![InSlot] = Fresh(j, epkt.src)]
  BY DEF Publish
<1>1. /\ epc = "admitted" /\ epc' = "published" /\ epkt' = epkt
      /\ UNCHANGED <<clock, outputIdx, timeOffset, maxSourceTime, lastPacketTs,
                     lastSeqFound, missing, requested, delivered>>
  BY DEF Publish, sourceVars, nackVars, playVars
<1>2. InSlot \in Slots /\ clock' \in Nat /\ clock <= clock' /\ epkt.src \in Sources
      /\ j \in Int /\ queue \in [Slots -> Packet \cup {Null}]
  BY <1>1, RingTypes DEF TypeOK
<1>3. queue[InSlot] = Null
  BY DEF Publish
<1>4. RingInTime /\ ReaderInPlace
  BY DEF PlayInv
<1>5. ~InRing(epkt.src)
  BY <1>2, <1>3, <1>4, SlotHolds DEF InSlot
<1>6. NewBusy <=> (~epkt.retry /\ ~epkt.ooo)
  BY <1>1, <1>5 DEF NewBusy
<1>7. NewBusy' <=> (~epkt.retry /\ ~epkt.ooo)
  BY <1>1 DEF NewBusy
<1>8. queue'[InSlot] # Null /\ queue'[InSlot].src = epkt.src
  BY <1>0, <1>2, ArrivalType DEF Fresh
<1>9. ASSUME NEW n \in Sources PROVE Early(n) => Early(n)'
  <2>1. delivered = << >> => outputIdx # InSlot
    BY <1>3, <1>4 DEF ReaderInPlace
  <2>2. delivered = << >> => queue'[outputIdx] = queue[outputIdx]
    BY <1>0, <1>2, <2>1, RingTypes
  <2>3. QED
    BY <1>1, <2>2 DEF Early, LastOut
<1>10. ASSUME NEW n \in Sources, Coming(n) PROVE Coming(n)'
  <2>1. CASE InRing(n)
    <3>1. PICK i \in Slots : queue[i] # Null /\ queue[i].src = n
      BY <2>1 DEF InRing
    <3>2. queue'[i] = queue[i]
      BY <1>0, <1>2, <1>3, <3>1
    <3>3. QED
      BY <3>1, <3>2 DEF Coming, InRing
  <2>2. CASE epkt.src = n
    BY <1>2, <1>8, <2>2 DEF Coming, InRing
  <2>3. QED
    BY <1>10, <2>1, <2>2 DEF Coming
<1>11. QED
  BY <1>1, <1>2, <1>6, <1>7, <1>9, <1>10, HoleQuiet DEF LastTimed

\* It gets its times.
LEMMA StampHole ==
  ASSUME TypeOK, NEW h \in Sources, FoundInv(h), Stamp
  PROVE  FoundInv(h)'
<1>1. /\ epc = "published" /\ epc' = "stored" /\ epkt' = epkt /\ queue[InSlot] # Null
      /\ queue' = [queue EXCEPT ![InSlot] = [@ EXCEPT !.ptime = epkt.ptime]]
      /\ UNCHANGED <<clock, outputIdx, timeOffset, maxSourceTime, lastPacketTs,
                     lastSeqFound, missing, requested, delivered>>
  BY DEF Stamp, sourceVars, nackVars, playVars
<1>2. /\ InSlot \in Slots /\ clock' \in Nat /\ clock <= clock' /\ epkt.ptime \in Int
      /\ queue[InSlot] \in Packet /\ queue \in [Slots -> Packet \cup {Null}]
      /\ outputIdx \in Slots
  <2>1. InSlot \in Slots /\ clock \in Nat /\ epkt.ptime \in Int
    BY <1>1, RingTypes
  <2>2. queue \in [Slots -> Packet \cup {Null}] /\ outputIdx \in Slots
    BY DEF TypeOK
  <2>3. queue[InSlot] \in Packet
    BY <1>1, <2>1, <2>2
  <2>4. QED
    BY <1>1, <2>1, <2>2, <2>3
<1> DEFINE p == [queue[InSlot] EXCEPT !.ptime = epkt.ptime]
<1>3. p \in Packet /\ p # Null /\ p.src = queue[InSlot].src /\ queue' = [queue EXCEPT ![InSlot] = p]
  BY <1>1, <1>2 DEF Packet
<1> HIDE DEF p
<1>4. \A i \in Slots : /\ queue'[i] # Null <=> queue[i] # Null
                       /\ queue'[i].src = queue[i].src
  BY <1>1, <1>2, <1>3
<1>5. ASSUME NEW n \in Sources PROVE (Early(n) => Early(n)') /\ (Coming(n) => Coming(n)')
  BY <1>1, <1>2, <1>4 DEF Early, Coming, InRing, LastOut
<1>6. NewBusy <=> NewBusy'
  BY <1>1 DEF NewBusy
<1>7. QED
  BY <1>1, <1>2, <1>5, <1>6, HoleQuiet DEF LastTimed

\* receiver_mark_missing finds out when the last packet found was due, or takes now.
LEMMA ReadLastHole ==
  ASSUME Steady, TypeOK, RingInTime, NEW h \in Sources, FoundInv(h), CheckLast \/ ReadLast
  PROVE  FoundInv(h)'
<1>1. /\ epc \in {"counted", "checked"} /\ epc' \in {"checked", "timed", "noLast"}
      /\ UNCHANGED <<clock, queue, outputIdx, timeOffset, maxSourceTime, lastPacketTs,
                     lastSeqFound, missing, requested, epkt, delivered>>
  BY DEF CheckLast, ReadLast, ringVars, sourceVars, nackVars, playVars
<1>2. clock' \in Nat /\ clock <= clock'
  BY <1>1 DEF TypeOK
<1>3. ASSUME NEW n \in Sources PROVE (Early(n) => Early(n)') /\ (Coming(n) => Coming(n)')
  BY <1>1 DEF Early, Coming, InRing, LastOut
<1>4. NewBusy <=> NewBusy'
  BY <1>1 DEF NewBusy, InRing
<1>5. LastTimed(h)'
  <2>1. CASE CheckLast
    BY <1>1, <2>1 DEF CheckLast, LastTimed
  <2>2. CASE ReadLast /\ queue[lastSeqFound] = Null
    BY <2>2 DEF ReadLast, LastTimed
  <2>3. CASE ReadLast /\ queue[lastSeqFound] # Null
    <3>1. lastTime' = queue[SeqOf[h]].ptime /\ queue[SeqOf[h]] # Null /\ SeqOf[h] \in Slots
      BY <2>3, SteadyFacts DEF ReadLast, FoundInv
    <3>2. queue[SeqOf[h]].ptime = h + timeOffset
      BY <1>1, <3>1, SlotHolds DEF RingInTime, Unstamped
    <3>3. QED
      BY <1>1, <3>1, <3>2 DEF LastTimed
  <2>4. QED
    BY <2>1, <2>2, <2>3
<1>6. QED
  BY <1>1, <1>2, <1>3, <1>4, <1>5, HoleQuiet

\* receiver_nack_output removes an entry only when its packet came or its time is over.
LEMMA NackHole ==
  ASSUME Patient, Steady, TypeOK, RingInTime, timeOffset <= MaxReorder,
         NEW h \in Sources, FoundInv(h), NackOutput
  PROVE  FoundInv(h)'
<1>1. /\ missing' = {Renewed(e) : e \in {e \in missing : ~Removed(e)}}
      /\ requested' = requested \cup {e.seq : e \in {f \in missing : Nacked(f)}}
      /\ UNCHANGED <<clock, queue, outputIdx, timeOffset, maxSourceTime, lastPacketTs,
                     lastSeqFound, epc, epkt, delivered>>
      /\ epc = "idle"
  BY DEF NackOutput, ringVars, sourceVars, enqueueVars, playVars
<1>2. /\ clock \in Nat /\ timeOffset \in Int /\ missing \subseteq Entry
      /\ \A n \in Sources : n \in Nat
  BY DEF TypeOK
<1>3. \A e \in Entry : Renewed(e).seq = e.seq
  BY DEF Renewed, Entry
<1>4. \A n \in Sources : SeqOf[n] \in requested' \/ (\E e \in missing' : e.seq = SeqOf[n])
                          => n < maxSourceTime'
  <2>1. \A n \in Sources : SeqOf[n] \in requested \/ (\E e \in missing : e.seq = SeqOf[n])
                          => n < maxSourceTime
    BY DEF FoundInv
  <2>2. \A n \in Sources : (\E e \in missing' : e.seq = SeqOf[n])
                             => \E e \in missing : e.seq = SeqOf[n]
    BY <1>1, <1>2, <1>3
  <2>3. \A n \in Sources : SeqOf[n] \in requested'
                             => SeqOf[n] \in requested \/ \E e \in missing : e.seq = SeqOf[n]
    BY <1>1
  <2>4. QED
    BY <1>1, <2>1, <2>2, <2>3
<1>5. \A m \in Sources : /\ (Early(m) <=> Early(m)') /\ (Coming(m) <=> Coming(m)')
                         /\ (InRing(m) <=> InRing(m)')
  BY <1>1 DEF Early, Coming, InRing, LastOut
<1>6. ASSUME NEW n \in Sources, Tracked(n) PROVE Accounted(n)'
  <2>1. PICK e \in missing :
          /\ e.seq = SeqOf[n]
          /\ n + timeOffset + Buffer <= e.insertion + LateLimit
          /\ n + 1 + FirstNack + e.count * NackGap <= e.next
          /\ e.count > 0 => e.next - NackGap <= clock
    BY <1>6 DEF Tracked
  <2>2. /\ e \in Entry /\ e.count \in Nat /\ e.next \in Nat /\ e.insertion \in Int /\ n \in Nat
        /\ e.count * NackGap \in Nat
    BY <1>2, NackTime DEF Entry
  <2>3. CASE Arrived(e)
    BY <1>5, <2>1, <2>3, SlotHolds DEF Arrived, Accounted, Coming
  <2>4. CASE clock - e.insertion > LateLimit
    BY <1>1, <1>2, <2>1, <2>2, <2>4 DEF Accounted
  <2>5. CASE e.count >= MaxRetries
    <3>1. MaxRetries - 1 \in Nat /\ e.count - 1 \in Nat /\ e.count > 0
          /\ MaxRetries - 1 <= e.count - 1
      BY <2>2, <2>5 DEF Patient
    <3>2. /\ (MaxRetries - 1) * NackGap <= (e.count - 1) * NackGap
          /\ (e.count - 1) * NackGap \in Nat /\ (MaxRetries - 1) * NackGap \in Nat
          /\ e.count * NackGap = (e.count - 1) * NackGap + NackGap
      <4>1. \A c \in Nat : c = e.count - 1 => (c + 1) * NackGap = c * NackGap + NackGap
        BY NackTime
      <4>2. (e.count - 1) + 1 = e.count
        BY <2>2
      <4>3. QED
        BY <3>1, <4>1, <4>2, NackTime
    <3>3. \A x, y, z \in Nat :
            /\ FirstNack + x >= Buffer + MaxReorder /\ x <= y /\ z = y + NackGap
            /\ n + 1 + FirstNack + z <= e.next /\ e.next - NackGap <= clock
            => clock > n + timeOffset + Buffer
      BY <1>2, <2>2
    <3>4. clock > n + timeOffset + Buffer
      <4>1. FirstNack + (MaxRetries - 1) * NackGap >= Buffer + MaxReorder
        BY DEF Patient
      <4>2. QED
        BY <2>1, <2>2, <3>1, <3>2, <3>3, <4>1
    <3>5. QED
      BY <1>1, <3>4 DEF Accounted
  <2>6. CASE ~Removed(e)
    <3>1. Renewed(e) \in missing'
      BY <1>1, <2>6
    <3>2. CASE Nacked(e)
      <4>1. /\ Renewed(e).seq = e.seq /\ Renewed(e).insertion = e.insertion
            /\ Renewed(e).next = clock + NackGap /\ Renewed(e).count = e.count + 1
        BY <2>2, <3>2 DEF Renewed, Entry
      <4>2. (e.count + 1) * NackGap = e.count * NackGap + NackGap
        BY <2>2, NackTime
      <4>3. clock >= e.next
        BY <3>2 DEF Nacked
      <4>4. \A x, y \in Nat : /\ y = x + NackGap /\ n + 1 + FirstNack + x <= e.next
                              => n + 1 + FirstNack + y <= clock + NackGap
        BY <1>2, <2>2, <4>3
      <4>5. n + 1 + FirstNack + (e.count + 1) * NackGap <= clock + NackGap
        <5>1. (e.count + 1) * NackGap \in Nat
          BY <2>2, <4>2
        <5>2. QED
          BY <2>1, <2>2, <4>2, <4>4, <5>1
      <4>6. (clock + NackGap) - NackGap <= clock
        BY <1>2
      <4>7. Tracked(n)'
        BY <1>1, <2>1, <3>1, <4>1, <4>5, <4>6 DEF Tracked
      <4>8. QED
        BY <4>7 DEF Accounted
    <3>3. CASE ~Nacked(e)
      <4>1. Renewed(e) = e
        BY <3>3 DEF Renewed
      <4>2. Tracked(n)'
        BY <1>1, <2>1, <3>1, <4>1 DEF Tracked
      <4>3. QED
        BY <4>2 DEF Accounted
    <3>4. QED
      BY <3>2, <3>3
  <2>7. QED
    BY <2>3, <2>4, <2>5, <2>6 DEF Removed, GivenUp
<1>7. \A n \in Sources : n <= h => Accounted(n)'
  <2> SUFFICES ASSUME NEW n \in Sources, n <= h PROVE Accounted(n)'
    OBVIOUS
  <2>1. Accounted(n)
    BY DEF FoundInv
  <2>2. CASE Early(n) \/ Coming(n) \/ clock > n + timeOffset + Buffer
    BY <1>1, <1>5, <2>2 DEF Accounted
  <2>3. QED
    BY <1>6, <2>1, <2>2 DEF Accounted
<1>8. NewBusy' <=> NewBusy
  BY <1>1 DEF NewBusy, InRing
<1>9. QED
  BY <1>1, <1>4, <1>5, <1>7, <1>8 DEF FoundInv, LastTimed

\* The estimate receiver_mark_missing makes for the k-th packet of a gap of a steady
\* source leaves its entry the time of the packet.
LEMMA EstimateLasts ==
  ASSUME Patient, Steady, TypeOK, RingInTime, timeOffset >= 0, timeOffset <= MaxReorder,
         NEW h \in Sources, NEW n \in Sources, NEW x \in Sources, h < n, n < x, x <= clock,
         lastSeqFound = SeqOf[h], InSlot = SeqOf[x],
         lastTime = clock \/ lastTime = h + timeOffset,
         queue[InSlot] # Null, queue[InSlot].ptime = x + timeOffset
  PROVE  n + timeOffset + Buffer <= Insertion(n - h) + LateLimit
<1>1. /\ h \in Nat /\ n \in Nat /\ x \in Nat /\ clock \in Nat /\ timeOffset \in Nat
      /\ n - h \in Nat /\ SeqOf[h] \in Slots
  BY SlotFacts DEF TypeOK
<1>2. n + timeOffset + Buffer <= clock + LateLimit
  BY <1>1 DEF Patient
<1>3. CASE Insertion(n - h) = clock
  BY <1>2, <1>3
<1>4. CASE Insertion(n - h) # clock
  <2>1. Insertion(n - h) = Interpolated(n - h) /\ ~(Interpolated(n - h) > clock)
        /\ ~(queue[InSlot].ptime < lastTime)
    BY <1>4 DEF Insertion
  <2>2. Dist(lastSeqFound, InSlot) = x - h
    BY <1>1, SteadyFacts
  <2>3. CASE lastTime = h + timeOffset
    <3>1. lastTime = h + timeOffset
      BY <2>3
    <3>2. PICK D \in Nat, k \in Nat : D = x - h /\ k = n - h
      BY <1>1
    <3>3. k \in 1 .. D - 1
      BY <1>1, <3>2
    <3>4. queue[InSlot].ptime - lastTime = D
      BY <1>1, <3>1, <3>2
    <3>5. Interpolated(n - h) = h + timeOffset + (k * D) \div (D + 1)
      BY <2>2, <3>1, <3>2, <3>4 DEF Interpolated
    <3>6. (k * D) \div (D + 1) >= k - 1
      BY <3>2, <3>3, LineEstimate
    <3>7. (k * D) \div (D + 1) \in Int
      OBVIOUS
    <3>8. \A y \in Int : y >= k - 1 => n + timeOffset + Buffer <= h + timeOffset + y + LateLimit
      BY <1>1, <3>2 DEF Patient
    <3>9. QED
      BY <2>1, <3>5, <3>6, <3>7, <3>8
  <2>4. CASE lastTime = clock
    <3>1. lastTime = clock
      BY <2>4
    <3>2. PICK D \in Nat, k \in Nat, E \in Nat : D = x - h /\ k = n - h /\ E = x + timeOffset - clock
      BY <1>1, <2>1, <3>1
    <3>3. Interpolated(n - h) = clock + (k * E) \div (D + 1)
      <4>1. queue[InSlot].ptime - lastTime = E
        BY <1>1, <3>1, <3>2
      <4>2. QED
        BY <2>2, <3>1, <3>2, <4>1 DEF Interpolated
    <3>4. (k * E) \div (D + 1) \in Nat
      <4>1. k * E \in Nat
        BY <3>2
      <4>2. \A y \in Nat, z \in Nat : y \div (z + 1) \in Nat
        OBVIOUS
      <4>3. QED
        BY <3>2, <4>1, <4>2
    <3>5. \A y \in Nat : n + timeOffset + Buffer <= clock + y + LateLimit
      BY <1>1, <1>2
    <3>6. QED
      BY <2>1, <3>3, <3>4, <3>5
  <2>5. QED
    BY <2>3, <2>4
<1>5. QED
  BY <1>3, <1>4

\* The newest packet is behind its gap: what is missing before it goes on the list.
LEMMA MarkGapHole ==
  ASSUME NEW Outage \in Nat, Timely, Steady, Patient, missingCounter <= MissingMax,
         TypeOK, BusyInv, PlayInv(Outage), hasItems, NEW h \in Sources, FoundInv(h),
         Finish \/ MarkGap
  PROVE  \E g \in Sources : FoundInv(g)'
<1>1. /\ epc \in {"counted", "timed"}
      /\ UNCHANGED <<clock, queue, outputIdx, timeOffset, maxSourceTime, lastPacketTs,
                     requested, delivered, epkt>>
  BY DEF Finish, MarkGap, ringVars, nackVars, playVars
<1>2. RingInTime /\ BusyInTime /\ NothingFar(Outage) /\ timeOffset >= 0
      /\ timeOffset <= MaxReorder /\ ~collided /\ ~torn
  BY DEF PlayInv, Measured
<1>3. /\ epkt.src \in Sources /\ InSlot = SeqOf[epkt.src] /\ InSlot \in Slots
      /\ clock \in Nat /\ clock' \in Nat /\ clock <= clock' /\ maxSourceTime \in Nat
      /\ h \in Nat /\ lastSeqFound = SeqOf[h]
  BY <1>1, RingTypes DEF InSlot, FoundInv
<1>4. \A m \in Sources : /\ (Early(m) <=> Early(m)') /\ (InRing(m) <=> InRing(m)')
                         /\ (Coming(m) => Coming(m)')
  BY <1>1 DEF Early, Coming, InRing, LastOut
<1>5. CASE epkt.retry \/ epkt.ooo
  <2>1. epc' = "idle" /\ missing' = missing /\ lastSeqFound' = lastSeqFound
    BY <1>5 DEF Finish, MarkGap, BusyInv, nackVars
  <2>2. ~NewBusy /\ ~NewBusy'
    BY <1>5, <2>1 DEF NewBusy
  <2>3. FoundInv(h)'
    BY <1>1, <1>3, <1>4, <2>1, <2>2, HoleQuiet DEF LastTimed
  <2>4. QED
    BY <2>3
<1>6. CASE ~epkt.retry /\ ~epkt.ooo
  <2>1. queue[InSlot] # Null /\ queue[InSlot].ptime = epkt.ptime
    BY <1>1, <1>2, <1>6 DEF BusyInv, NewHeld, Storing, Held
  <2>2. PICK x \in Sources : x = epkt.src
    BY <1>3
  <2>3. /\ x = maxSourceTime /\ h < x /\ x - h <= Q \div 2 /\ x \in Nat
        /\ queue[InSlot].ptime = x + timeOffset /\ x <= clock /\ InRing(x) /\ InSlot = SeqOf[x]
    <3>1. NewBusy
      BY <1>1, <1>6 DEF NewBusy
    <3>2. /\ x = maxSourceTime /\ h < x /\ x - h <= Q \div 2
      BY <1>1, <1>6, <2>2, <3>1 DEF FoundInv
    <3>3. InRing(x)
      BY <1>2, <1>3, <2>1, <2>2, SlotHolds
    <3>4. x <= clock /\ queue[InSlot].ptime = x + timeOffset
      BY <1>1, <1>2, <2>1, <2>2 DEF BusyInTime
    <3>5. QED
      BY <1>3, <2>2, <3>2, <3>3, <3>4
  <2>4. Dist(lastSeqFound, InSlot) = x - h /\ InSlot # lastSeqFound
    BY <1>3, <2>3, SteadyFacts
  <2>5. GapSize(InSlot) = x - h - 1
    BY <2>4 DEF GapSize
  <2>6. ASSUME NEW n \in Sources, h < n, n < x PROVE MarkGap /\ MarksGap(InSlot)
    <3>1. PrevSlot(InSlot) # lastSeqFound
      <4> SUFFICES ASSUME PrevSlot(InSlot) = lastSeqFound PROVE FALSE
        OBVIOUS
      <4>1. SeqOf[h] \in Slots
        BY SlotFacts
      <4>2. SeqOf[x] = NextSlot(SeqOf[h])
        BY <1>3, <2>3, <4>1, DistFacts
      <4>3. x = h + 1
        BY <4>2, SteadyFacts
      <4>4. n \in Nat
        OBVIOUS
      <4>5. QED
        BY <1>3, <2>3, <2>6, <4>3, <4>4
    <3>2. QED
      BY <1>6, <2>3, <2>4, <3>1 DEF MarksGap, Finish, ShowsGap
  <2>7. /\ epc' = "idle" /\ lastSeqFound' = InSlot
        /\ Finish => missing' = missing
        /\ MarkGap => missing' = IF MarksGap(InSlot) THEN missing \cup NewlyMissing ELSE missing
    BY <1>6, <2>1 DEF Finish, MarkGap, nackVars
  <2>8. missing \subseteq missing' /\ (MarkGap /\ MarksGap(InSlot) => NewlyMissing \subseteq missing')
    BY <2>7
  <2>9. ASSUME NEW n \in Sources, n <= h PROVE Accounted(n)'
    <3>1. Accounted(n)
      BY <2>9 DEF FoundInv
    <3>2. Tracked(n) => Tracked(n)'
      BY <1>1, <2>8 DEF Tracked
    <3>3. QED
      BY <1>1, <1>4, <3>1, <3>2 DEF Accounted
  <2>10. ASSUME NEW n \in Sources, h < n, n < x PROVE Accounted(n)'
    <3>1. n \in Nat /\ SeqOf[n] \in Slots /\ Dist(lastSeqFound, SeqOf[n]) = n - h
      BY <1>3, <2>10, SteadyFacts
    <3>2. Dist(lastSeqFound, SeqOf[n]) \in 1 .. GapSize(InSlot)
      BY <1>3, <2>3, <2>5, <2>10, <3>1
    <3>3. PICK e \in missing' :
            e = [seq |-> SeqOf[n], mark |-> marks,
                 insertion |-> Insertion(Dist(lastSeqFound, SeqOf[n])),
                 next |-> clock + FirstNack, count |-> 0]
      BY <2>6, <2>8, <2>10, <3>1, <3>2 DEF NewlyMissing
    <3>4. e.seq = SeqOf[n] /\ e.insertion = Insertion(n - h) /\ e.next = clock + FirstNack
          /\ e.count = 0
      BY <3>1, <3>3
    <3>5. n + timeOffset + Buffer <= e.insertion + LateLimit
      <4>1. lastTime = clock \/ lastTime = h + timeOffset
        BY <2>6, <2>10 DEF MarkGap, FoundInv, LastTimed
      <4>2. QED
        BY <1>2, <1>3, <2>1, <2>3, <2>10, <3>4, <4>1, EstimateLasts
    <3>6. n + 1 + FirstNack + e.count * NackGap <= e.next
      <4>1. 0 * NackGap = 0
        OBVIOUS
      <4>2. n + 1 + FirstNack + 0 <= clock + FirstNack
        BY <1>3, <2>3, <2>10, <3>1
      <4>3. QED
        BY <3>4, <4>1, <4>2
    <3>7. Tracked(n)'
      BY <1>1, <3>4, <3>5, <3>6 DEF Tracked
    <3>8. QED
      BY <3>7 DEF Accounted
  <2>11. \A n \in Sources : n <= x => Accounted(n)'
    <3> SUFFICES ASSUME NEW n \in Sources, n <= x PROVE Accounted(n)'
      OBVIOUS
    <3>1. n \in Nat
      OBVIOUS
    <3>2. CASE n = x
      <4>1. Coming(n)'
        BY <1>4, <2>3, <3>2 DEF Coming, InRing
      <4>2. QED
        BY <4>1 DEF Accounted
    <3>3. QED
      BY <1>3, <2>3, <2>9, <2>10, <3>1, <3>2
  <2>12. \A n \in Sources : SeqOf[n] \in requested' \/ (\E e \in missing' : e.seq = SeqOf[n])
                          => n < maxSourceTime'
    <3>1. ASSUME NEW n \in Sources, NEW e \in NewlyMissing, e.seq = SeqOf[n]
          PROVE  n < maxSourceTime
      <4>1. e.seq \in Slots /\ Dist(lastSeqFound, e.seq) \in 1 .. GapSize(InSlot)
        BY DEF NewlyMissing
      <4>2. n \in Nat /\ (h < n => Dist(SeqOf[h], SeqOf[n]) = n - h)
        BY SteadyFacts
      <4>3. QED
        BY <1>3, <2>3, <2>5, <3>1, <4>1, <4>2
    <3>2. missing' \subseteq missing \cup NewlyMissing
      BY <2>7
    <3>3. \A n \in Sources : SeqOf[n] \in requested \/ (\E e \in missing : e.seq = SeqOf[n])
                          => n < maxSourceTime
      BY DEF FoundInv
    <3>4. QED
      BY <1>1, <3>1, <3>2, <3>3
  <2>13. ~NewBusy'
    BY <2>7 DEF NewBusy
  <2>14. \/ lastPacketTs' = maxSourceTime' + timeOffset'
         \/ \A m \in Sources : m < maxSourceTime' => Early(m)'
    BY <1>1, <1>4 DEF FoundInv
  <2>15. lastSeqFound' = SeqOf[x] /\ x = maxSourceTime' /\ x <= maxSourceTime' /\ epc' = "idle"
    BY <1>1, <1>3, <2>3, <2>7
  <2>16. FoundInv(x)'
    BY <2>11, <2>12, <2>13, <2>14, <2>15 DEF FoundInv, LastTimed
  <2>17. QED
    BY <2>16
<1>7. QED
  BY <1>5, <1>6

\* The output thread plays and frees what is accounted for as played.
LEMMA EmitHole ==
  ASSUME NEW Outage \in Nat, TypeOK, PlayInv(Outage), hasItems, NEW h \in Sources, FoundInv(h),
         NEW i \in Slots, Emit(i)
  PROVE  FoundInv(h)'
<1>1. /\ dpc \in {"idle", "loop"} /\ queue[i] # Null /\ Ahead(i) = {}
      /\ delivered' = Append(delivered,
                     [src |-> queue[i].src,
                      disc |-> i # outputIdx \/ i # NextSlot(lastSeqOutput),
                      start |-> flowStart])
      /\ UNCHANGED <<clock, queue, timeOffset, maxSourceTime, lastPacketTs, lastSeqFound,
                     missing, requested, epc, epkt, lastTime>>
  BY DEF Emit, Releasable, Occupied, ringVars, sourceVars, nackVars, enqueueVars
<1>2. RingInTime /\ ReaderInPlace /\ ~Active
  BY <1>1 DEF PlayInv, Active
<1>3. queue[i].src \in Nat /\ ~Early(queue[i].src) /\ clock \in Nat
  BY <1>1, <1>2, RingTypes DEF RingInTime
<1>4. /\ Len(delivered') = Len(delivered) + 1 /\ delivered' # << >>
      /\ delivered'[Len(delivered')].src = queue[i].src
  <2>1. delivered \in Seq(Block)
    BY DEF TypeOK
  <2>2. Len(delivered') = Len(delivered) + 1
    BY <1>1, <2>1
  <2>3. delivered'[Len(delivered')].src = queue[i].src
    BY <1>1, <2>1, <2>2
  <2>4. delivered' # << >>
    BY <1>1, <2>1
  <2>5. QED
    BY <2>2, <2>3, <2>4
<1>5. ASSUME NEW n \in Sources, Early(n) PROVE Early(n)'
  <2>1. n < queue[i].src
    <3>1. CASE delivered = << >>
      <4>1. outputIdx \in Slots /\ queue[outputIdx] # Null
        BY <1>2, <3>1, RingTypes DEF ReaderInPlace
      <4>2. i = outputIdx
        <5>1. Dist(outputIdx, outputIdx) = 0
          BY <4>1, DistFacts
        <5>2. ~(Dist(outputIdx, outputIdx) < Dist(outputIdx, i))
          BY <1>1, <4>1 DEF Ahead, Occupied
        <5>3. Dist(outputIdx, i) = 0
          BY <4>1, <5>1, <5>2, DistFacts
        <5>4. QED
          BY <4>1, <5>3, DistFacts
      <4>3. QED
        BY <1>5, <3>1, <4>2 DEF Early
    <3>2. CASE delivered # << >>
      <4>1. n <= LastOut /\ LastOut < queue[i].src /\ LastOut \in Nat /\ n \in Nat
        BY <1>3, <1>5, <3>2, RingTypes DEF Early
      <4>2. QED
        BY <1>3, <4>1
    <3>3. QED
      BY <3>1, <3>2
  <2>2. n \in Nat
    OBVIOUS
  <2>3. QED
    BY <1>3, <1>4, <2>1, <2>2 DEF Early, LastOut
<1>6. /\ \A n \in Sources : Coming(n) => Coming(n)'
      /\ (NewBusy => NewBusy') /\ (NewBusy' => NewBusy)
  BY <1>1 DEF Coming, InRing, NewBusy
<1>7. clock' \in Nat /\ clock <= clock'
  BY <1>1, <1>3
<1>8. LastTimed(h)'
  BY <1>1 DEF FoundInv, LastTimed
<1>9. QED
  BY <1>1, <1>5, <1>6, <1>7, <1>8, HoleQuiet

\* The packet that leaves the ring was played.
LEMMA ClearHole ==
  ASSUME NEW Outage \in Nat, TypeOK, PlayInv(Outage), hasItems, NEW h \in Sources, FoundInv(h),
         Clear
  PROVE  FoundInv(h)'
<1>1. /\ dpc = "subtracted" /\ queue' = [queue EXCEPT ![dslot] = Null]
      /\ UNCHANGED <<clock, timeOffset, maxSourceTime, lastPacketTs, lastSeqFound,
                     missing, requested, epc, epkt, lastTime, delivered>>
  BY DEF Clear, sourceVars, nackVars, enqueueVars
<1>2. BusyInTime /\ ReaderInPlace /\ Active
  BY <1>1 DEF PlayInv, Active
<1>3. /\ delivered # << >> /\ queue[dslot].src = LastOut /\ LastOut \in Nat
      /\ clock' \in Nat /\ clock <= clock' /\ dslot \in Slots
      /\ queue \in [Slots -> Packet \cup {Null}]
  BY <1>1, <1>2, RingTypes DEF ReaderInPlace, TypeOK
<1>4. \A n \in Sources : Early(n) => Early(n)'
  BY <1>1, <1>3 DEF Early, LastOut
<1>5. ASSUME NEW n \in Sources, n # LastOut, InRing(n) PROVE InRing(n)'
  BY <1>1, <1>3, <1>5 DEF InRing
<1>6. ASSUME NEW n \in Sources, InRing(n)' PROVE InRing(n)
  BY <1>1, <1>3, <1>6 DEF InRing
<1>7. \A n \in Sources : Coming(n) => Coming(n)' \/ Early(n)'
  <2>1. \A n \in Sources : n = LastOut => Early(n)
    BY <1>3 DEF Early
  <2>2. QED
    BY <1>1, <1>4, <1>5, <2>1 DEF Coming
<1>8. (NewBusy => NewBusy') /\ (NewBusy' => NewBusy)
  <2>1. CASE epc = "idle"
    BY <1>1, <2>1 DEF NewBusy
  <2>2. CASE epc # "idle"
    <3>1. PICK x \in Sources : x = epkt.src
      BY <2>2, RingTypes
    <3>2. x # LastOut
      BY <1>2, <1>3, <2>2, <3>1 DEF BusyInTime, Early
    <3>3. (InRing(x) => InRing(x)') /\ (InRing(x)' => InRing(x))
      BY <1>5, <1>6, <3>2
    <3>4. (InRing(epkt.src) => InRing(epkt.src)') /\ (InRing(epkt.src)' => InRing(epkt.src))
      BY <1>1, <3>1, <3>3 DEF InRing
    <3>5. QED
      BY <1>1, <3>4 DEF NewBusy
  <2>3. QED
    BY <2>1, <2>2
<1>9. LastTimed(h)'
  BY <1>1 DEF FoundInv, LastTimed
<1>10. QED
  BY <1>1, <1>3, <1>4, <1>7, <1>8, <1>9, HoleQuiet

\* Steps that do not bear on it.
LEMMA OtherHole ==
  ASSUME Patient, TypeOK, NEW h \in Sources, FoundInv(h),
         Find \/ AddSize \/ Subtract \/ Return \/ ReportStats \/ Tick \/ UNCHANGED vars
  PROVE  FoundInv(h)'
<1>1. clock' \in Nat /\ clock <= clock'
  <2>1. clock \in Nat /\ (clock' = clock \/ clock' = clock + 1)
    BY DEF TypeOK, Find, AddSize, Subtract, Return, ReportStats, Tick, vars
  <2>2. QED
    BY <2>1
<1>2. /\ UNCHANGED <<queue, outputIdx, timeOffset, maxSourceTime, lastPacketTs, lastSeqFound,
                     missing, requested, epkt, delivered>>
      /\ \/ epc' = epc
         \/ epc = "admitted" /\ epc' = "found"
         \/ epc = "stored" /\ epc' = "counted"
  BY DEF Find, AddSize, Subtract, Return, ReportStats, Tick, vars, ringVars, sourceVars, nackVars,
         enqueueVars, playVars, Patient
<1>3. /\ \A n \in Sources : (Early(n) => Early(n)') /\ (Coming(n) => Coming(n)')
      /\ (NewBusy => NewBusy') /\ (NewBusy' => NewBusy)
      /\ epc' # "idle" => epc # "idle"
  BY <1>2 DEF Early, Coming, InRing, LastOut, NewBusy
<1>4. LastTimed(h)'
  <2>1. CASE epc' = "timed"
    <3>1. epc = "timed"
      BY <1>2, <2>1
    <3>2. clock' = clock /\ lastTime' = lastTime
      BY <3>1 DEF Find, AddSize, Subtract, Return, ReportStats, Tick, vars, enqueueVars
    <3>3. QED
      BY <1>2, <3>1, <3>2 DEF FoundInv, LastTimed
  <2>2. CASE epc' # "timed"
    BY <2>2 DEF LastTimed
  <2>3. QED
    BY <2>1, <2>2
<1>5. QED
  BY <1>1, <1>2, <1>3, <1>4, HoleQuiet

\* As long as PlayInv holds, HoleInv is inductive.
LEMMA HoleNext ==
  ASSUME NEW Outage \in Nat, Outage < Q \div 2, Timely, Steady, Patient,
         missingCounter <= MissingMax, Fed(Outage),
         TypeOK, SizeInv, BusyInv, PlayInv(Outage), PlayInv(Outage)', HoleInv, [Next]_vars
  PROVE  HoleInv'
<1>1. CASE ~hasItems
  <2>1. NotStarted /\ Measured
    BY <1>1 DEF PlayInv
  <2>2. CASE Next
    <3>1. CASE \E n \in Sources : ReceiveFirst(n)
      BY <3>1, FirstHole
    <3>2. CASE ReportStats \/ Tick
      BY <1>1, <3>2 DEF ReportStats, Tick, ringVars, HoleInv
    <3>3. QED
      BY <1>1, <2>1, <2>2, <3>1, <3>2, NotStartedSteps
  <2>3. CASE UNCHANGED vars
    BY <1>1, <2>3 DEF vars, ringVars, HoleInv
  <2>4. QED
    BY <2>2, <2>3
<1>2. CASE hasItems
  <2>1. PICK h \in Sources : FoundInv(h)
    BY <1>2 DEF HoleInv
  <2>2. SUFFICES \E g \in Sources : FoundInv(g)'
    BY DEF HoleInv
  <2>3. RingInTime /\ timeOffset <= MaxReorder /\ InOrder(Outage + 2 * Span)
    <3>1. Outage + 2 * Span \in Nat
      BY RingTypes
    <3>2. QED
      BY <1>2, <3>1, SteadyOrder DEF PlayInv
  <2>4. CASE Find \/ AddSize \/ Subtract \/ Return \/ ReportStats \/ Tick \/ UNCHANGED vars
    BY <2>1, <2>4, OtherHole
  <2>5. CASE Receive
    <3>1. PICK n \in Sources, retry \in BOOLEAN :
            DropLate(n, retry) \/ DropFull(n, retry) \/ Admit(n, retry)
      BY <2>5 DEF Receive
    <3>2. ~DropLate(n, retry)
      BY <1>2, <2>3, ArrivalPlay DEF DropLate
    <3>3. CASE DropFull(n, retry)
      BY <1>2, <2>1, <3>3, DropFullHole
    <3>4. CASE Admit(n, retry)
      BY <1>2, <2>1, <3>4, AdmitHole
    <3>5. QED
      BY <3>1, <3>2, <3>3, <3>4
  <2>6. CASE Enqueue
    <3>1. CASE Duplicate
      BY <2>1, <3>1, DuplicateHole
    <3>2. CASE Publish
      BY <1>2, <2>1, <3>2, PublishHole
    <3>3. CASE Stamp
      BY <2>1, <3>3, StampHole
    <3>4. CASE CheckLast \/ ReadLast
      BY <2>1, <2>3, <3>4, ReadLastHole
    <3>5. CASE Finish \/ MarkGap
      BY <1>2, <2>1, <3>5, MarkGapHole
    <3>6. ~LoseDupe /\ ~Displace /\ ~LosePacket
      BY <1>2, <2>3, OnTime
    <3>7. QED
      BY <2>4, <2>6, <3>1, <3>2, <3>3, <3>4, <3>5, <3>6 DEF Enqueue
  <2>7. CASE NackOutput
    BY <2>1, <2>3, <2>7, NackHole
  <2>8. CASE Output
    <3>1. ASSUME NEW i \in Slots, Emit(i) PROVE FoundInv(h)'
      BY <1>2, <2>1, <3>1, EmitHole
    <3>2. ASSUME NEW i \in Slots, DropStale(i) PROVE FALSE
      BY <3>2, NeverStale
    <3>3. CASE Clear
      BY <1>2, <2>1, <3>3, ClearHole
    <3>4. CASE FindNothing
      <4>1. hasItems' = FALSE
        BY <3>4 DEF FindNothing
      <4>2. hasItems'
        BY <1>2, <2>3, <3>4, PlayStep DEF Next, Output, PlayInv
      <4>3. QED
        BY <4>1, <4>2
    <3>5. ~ResetSize
      BY <1>2 DEF ResetSize, PlayInv, ReaderInPlace
    <3>6. QED
      BY <2>4, <2>8, <3>1, <3>2, <3>3, <3>4, <3>5 DEF Output
  <2>9. ~FlowIdChange /\ \A n \in Sources : ~ReceiveFirst(n)
    BY <1>2 DEF FlowIdChange, Timely, ReceiveFirst
  <2>10. QED
    BY <2>4, <2>5, <2>6, <2>7, <2>8, <2>9 DEF Next
<1>3. QED
  BY <1>1, <1>2

\* What is wanted is accounted for by an entry.
LEMMA HolesFollow ==
  ASSUME NEW Outage \in Nat, TypeOK, PlayInv(Outage), HoleInv
  PROVE  HolesAreTracked
<1> SUFFICES ASSUME epc = "idle", NEW n \in Sources, Wanted(n)
             PROVE  \E e \in missing : e.seq = SeqOf[n]
  BY DEF HolesAreTracked
<1>1. /\ ~InRing(n) /\ clock <= n + timeOffset + Buffer
      /\ \A m \in Sources : LastPlayed(m) => m < n
  BY DEF Wanted
<1>2. PICK x \in Sources : x > n /\ InRing(x)
  BY DEF Wanted
<1>3. PICK y \in Sources : y < n /\ (InRing(y) \/ LastPlayed(y))
  BY DEF Wanted
<1>4. hasItems /\ RingInTime /\ ReaderInPlace
  BY <1>2 DEF InRing, PlayInv, NotStarted
<1>5. PICK h \in Sources : FoundInv(h)
  BY <1>4 DEF HoleInv
<1>6. n \in Nat /\ x \in Nat /\ y \in Nat /\ h \in Nat /\ maxSourceTime \in Nat /\ clock \in Nat
      /\ timeOffset \in Int
  BY RingTypes
<1>7. n <= h
  <2>1. h = maxSourceTime \/ h = maxSourceTime - 1
    BY <1>5 DEF FoundInv, NewBusy
  <2>2. x <= maxSourceTime
    BY <1>2, <1>4 DEF InRing, RingInTime
  <2>3. QED
    BY <1>2, <1>6, <2>1, <2>2
<1>8. ~Early(n)
  <2>1. CASE delivered = << >>
    <3>1. PICK i \in Slots : queue[i] # Null /\ queue[i].src = y
      BY <1>3, <2>1 DEF InRing, LastPlayed
    <3>2. ~Early(y)
      BY <1>4, <2>1, <3>1 DEF RingInTime, ReaderInPlace
    <3>3. queue[outputIdx].src \in Nat
      BY <1>4, <2>1, RingTypes DEF ReaderInPlace
    <3>4. QED
      BY <1>3, <1>6, <2>1, <3>2, <3>3 DEF Early
  <2>2. CASE delivered # << >>
    <3>1. PICK z \in Sources : z = LastOut
      BY <2>2, RingTypes
    <3>2. z < n
      BY <1>1, <2>2, <3>1 DEF LastPlayed, LastOut
    <3>3. QED
      BY <1>6, <2>2, <3>1, <3>2, RingTypes DEF Early
  <2>3. QED
    BY <2>1, <2>2
<1>9. ~Coming(n)
  BY <1>1 DEF Coming
<1>10. Accounted(n)
  BY <1>5, <1>7 DEF FoundInv
<1>11. Tracked(n)
  BY <1>1, <1>6, <1>8, <1>9, <1>10 DEF Accounted
<1>12. QED
  BY <1>11 DEF Tracked

\* The flow of a steady source, with packets that come in time, pauses of less than half
\* the ring and entries that last: as long as missing_counter does not pass its limit,
\* every hole that can still be filled is on the missing list, however the two threads
\* interleave, whatever is lost, and also after the drop that moves last_seq_found; up to
\* the first packet that the output thread plays before it is stamped.
THEOREM HolesStayTracked ==
  ASSUME NEW Outage \in Nat, Outage < Q \div 2, Timely, Steady, Patient
  PROVE  Spec /\ []Fed(Outage) /\ [](missingCounter <= MissingMax) => []HolesAreTracked
<1> DEFINE F == Fed(Outage)
           L == missingCounter <= MissingMax
           I == torn \/ PlayInv(Outage)
           H == torn \/ HoleInv
<1>1. Init => I /\ BusyInv /\ H
  BY PlayInit DEF HoleInv, Init
<1>2. MaxReorder < Buffer
  BY DEF Timely
<1>3. InOrder(Outage + 2 * Span)
  <2>1. Outage + 2 * Span \in Nat
    BY DEF Span
  <2>2. QED
    BY <2>1, SteadyOrder
<1>4. TypeOK /\ SizeInv /\ BusyInv /\ [Next]_vars => BusyInv'
  BY <1>2, BusyNext
<1>5. TypeOK /\ SizeInv /\ BusyInv /\ I /\ F /\ [Next]_vars => I'
  BY <1>3, PlayNext
<1>6. TypeOK /\ SizeInv /\ BusyInv /\ I /\ I' /\ F /\ L /\ H /\ [Next]_vars => H'
  <2> SUFFICES ASSUME TypeOK, SizeInv, BusyInv, I, I', F, L, H, [Next]_vars, ~torn'
               PROVE  HoleInv'
    OBVIOUS
  <2>1. ~torn
    BY PlayedOnly DEF Emit
  <2>2. QED
    BY <2>1, HoleNext
<1>7. TypeOK /\ I /\ H => HolesAreTracked
  BY HolesFollow DEF HolesAreTracked
<1>8. QED
  BY <1>1, <1>4, <1>5, <1>6, <1>7, TypeCorrect, SizeInvariant, PTL DEF Spec
=============================================================================
