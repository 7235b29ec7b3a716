------------------------- MODULE MarkerSenderProofs -------------------------
(***************************************************************************)
(* Proofs about MarkerSender, for every input and every threshold.         *)
(***************************************************************************)
EXTENDS MarkerSender, FiniteSetTheorems, TLAPS

\* Remainders of the counters' widths.
LEMMA Remainder ==
  ASSUME NEW n \in Nat \ {0}, NEW a \in Int
  PROVE  a % n \in 0 .. n - 1
  BY SMT

\* What the receive loop takes from its datagram is a packet of the stream.
LEMMA TakenPacket ==
  ASSUME SenderTypeOK, NEW p \in Current, Takes(p)
  PROVE  /\ p \in Ts \cup Marker
         /\ input' \in Seq(Ts \cup Marker)
         /\ IsMarker(p) => p \in Marker
         /\ ~IsMarker(p) => p \in Ts
  <1> DEFINE S == Ts \cup Marker
  <1>1. input \in Seq(S) /\ input # << >>
    BY DEF SenderTypeOK, Takes
  <1>2. Head(input) \in S /\ Tail(input) \in Seq(S)
    <2> HIDE DEF S
    <2> QED BY <1>1
  <1>3. \A q \in Ts : q.kind # "marker"
    BY DEF Ts, Kinds
  <1>4. \A q \in Marker : q.kind = "marker"
    BY DEF Marker
  <1> QED BY <1>2, <1>3, <1>4 DEF Takes, IsMarker

\* The step of a packet, by cases: what is not a marker, and the ways through
\* process_marker.
Steps(p) == Buffer(p) \/ Discard(p) \/ ProcessMarker(p)

-----------------------------------------------------------------------------
(* Type correctness.                                                       *)

\* The block a marker begins is empty and counts the marker.
LEMMA NewBlockType ==
  ASSUME NewBlock
  PROVE  /\ block' \in Seq(Ts) /\ blockCount' \in Nat
         /\ blockNonNull' \in 0 .. CountMod - 1 /\ blockNull' \in 0 .. CountMod - 1
  <1>1. 1 % CountMod \in 0 .. CountMod - 1
    BY Remainder, StreamAssumption
  <1>2. 0 \in 0 .. CountMod - 1
    BY StreamAssumption
  <1> QED BY <1>1, <1>2 DEF NewBlock

\* record_validation_failure writes inside the ring, and its index stays there.
LEMMA RecordType ==
  ASSUME SenderTypeOK, Record
  PROVE  /\ failureAge' \in [Slots -> 0 .. Window + 1] /\ failureIndex' \in Slots
         /\ failureLog' \in [1 .. FailureThreshold -> 0 .. Window + 1]
  <1> USE BreakerAssumption
  <1>1. failureAge' \in [Slots -> 0 .. Window + 1]
    BY DEF SenderTypeOK, Record, Recorded, Slots
  <1>2. failureIndex' \in Slots
    BY DEF SenderTypeOK, Record, NextIndex, Slots
  <1>3. failureLog' \in [1 .. FailureThreshold -> 0 .. Window + 1]
    BY DEF SenderTypeOK, Record
  <1> QED BY <1>1, <1>2, <1>3

\* buffer_ts_packet buffers packets that are no markers.
LEMMA AppendType ==
  ASSUME NEW S, NEW s \in Seq(S), NEW e \in S
  PROVE  Append(s, e) \in Seq(S)
  OBVIOUS

\* What trigger_circuit_breaker clears.
LEMMA ClearedType ==
  /\ [i \in Slots |-> Window + 1] \in [Slots -> 0 .. Window + 1]
  /\ 0 \in Slots
  /\ [k \in 1 .. FailureThreshold |-> Window + 1]
       \in [1 .. FailureThreshold -> 0 .. Window + 1]
  /\ 0 \in 0 .. CountMod - 1 /\ 0 \in 0 .. MarkerMod - 1
  BY BreakerAssumption, StreamAssumption DEF Slots

\* trigger_circuit_breaker leaves a well-typed state, wherever it is called.
LEMMA TripType ==
  ASSUME SenderTypeOK, Trip
  PROVE  /\ circuitState' = "shutdown" /\ senderCtx' = FALSE
         /\ firstMarkerSeen' \in BOOLEAN /\ synchronized' \in BOOLEAN
         /\ block' \in Seq(Ts) /\ blockCount' \in Nat
         /\ blockNonNull' \in 0 .. CountMod - 1 /\ blockNull' \in 0 .. CountMod - 1
         /\ losses' \in 0 .. MarkerMod - 1
         /\ failureAge' \in [Slots -> 0 .. Window + 1] /\ failureIndex' \in Slots
         /\ failureLog' \in [1 .. FailureThreshold -> 0 .. Window + 1]
         /\ peerConnected' \in BOOLEAN /\ out' \in Sent \cup {Null}
         /\ goodBlocks' \in 0 .. GoodRequired /\ recoveryAge' \in 0 .. RecoveryTime
         /\ messageAge' \in 0 .. MessageInterval /\ restartAsked' \in BOOLEAN
  <1>1. /\ failureAge' \in [Slots -> 0 .. Window + 1] /\ failureIndex' \in Slots
        /\ failureLog' \in [1 .. FailureThreshold -> 0 .. Window + 1]
        /\ blockNonNull' \in 0 .. CountMod - 1 /\ blockNull' \in 0 .. CountMod - 1
        /\ losses' \in 0 .. MarkerMod - 1
    BY ClearedType DEF Trip
  <1>2. /\ circuitState' = "shutdown" /\ senderCtx' = FALSE
        /\ firstMarkerSeen' \in BOOLEAN /\ synchronized' \in BOOLEAN
        /\ block' = << >> /\ blockCount' \in Nat
    BY DEF Trip
  <1>3. << >> \in Seq(Ts)
    OBVIOUS
  <1>4. /\ peerConnected' \in BOOLEAN /\ out' \in Sent \cup {Null}
        /\ goodBlocks' \in 0 .. GoodRequired /\ recoveryAge' \in 0 .. RecoveryTime
        /\ messageAge' \in 0 .. MessageInterval /\ restartAsked' \in BOOLEAN
    BY DEF Trip, SenderTypeOK, recoveryVars
  <1> QED BY ONLY <1>1, <1>2, <1>3, <1>4

\* The uint32_t count of lost markers stays in its width.
LEMMA LossesType ==
  ASSUME SenderTypeOK, NEW m \in Marker
  PROVE  LossesWith(m) \in 0 .. MarkerMod - 1
  <1>1. ExpectedMarker \in 0 .. MarkerMod - 1
    BY Remainder, StreamAssumption DEF ExpectedMarker, SenderTypeOK
  <1>2. m.seq \in 0 .. MarkerMod - 1
    BY DEF Marker
  <1>3. losses + (m.seq - ExpectedMarker) \in Int
    BY <1>1, <1>2, StreamAssumption DEF SenderTypeOK
  <1> QED BY <1>3, Remainder, StreamAssumption DEF LossesWith

\* The first state of the process is well-typed.
LEMMA TypeInit == SenderInit => SenderTypeOK
  BY ClearedType, BreakerAssumption, StreamAssumption
  DEF SenderInit, SenderTypeOK, Slots

\* One packet, one case for every way it can go.
LEMMA TypePacket ==
  ASSUME SenderTypeOK, NEW p \in Current, Steps(p)
  PROVE  SenderTypeOK'
  <1> USE BreakerAssumption, StreamAssumption DEF SenderTypeOK
  <1>0. Takes(p)
    BY DEF Steps, Buffer, Discard, ProcessMarker, EnterRecovery, FirstMarker,
           TripOnLosses, MissInRecovery, Resync, Synchronize, EmptyBlock,
           SendBlock, GoodInRecovery, TripOnFailures, FailInRecovery, DropBlock,
           EndsBlock, Good, Gap, Receives
  <1>1. CASE Buffer(p)
    <2>1. p \in Ts /\ input' \in Seq(Ts \cup Marker)
      BY <1>0, <1>1, TakenPacket DEF Buffer
    <2>2. block' \in Seq(Ts)
      <3>1. block' = block \/ block' = Append(block, p)
        BY <1>1 DEF Buffer
      <3>2. block \in Seq(Ts)
        OBVIOUS
      <3>3. Append(block, p) \in Seq(Ts)
        BY ONLY <3>2, <2>1, AppendType
      <3> QED BY ONLY <3>1, <3>2, <3>3
    <2>3. /\ (blockNull + 1) % CountMod \in 0 .. CountMod - 1
          /\ (blockNonNull + 1) % CountMod \in 0 .. CountMod - 1
      <3>1. blockNull + 1 \in Int /\ blockNonNull + 1 \in Int
        OBVIOUS
      <3> QED BY <3>1, Remainder
    <2>4. Count(p)
      BY <1>1 DEF Buffer
    <2>5. blockCount' \in Nat /\ blockNull' \in 0 .. CountMod - 1
          /\ blockNonNull' \in 0 .. CountMod - 1
      BY <2>3, <2>4 DEF Count
    <2> QED BY <1>1, <2>1, <2>2, <2>5
      DEF Buffer, syncVars, breakerVars, failureVars, recoveryVars
  <1>2. CASE Discard(p)
    <2>1. input' \in Seq(Ts \cup Marker)
      BY <1>0, TakenPacket
    <2> QED BY <1>2, <2>1
      DEF Discard, syncVars, blockVars, breakerVars, failureVars, recoveryVars
  <1>3. CASE ProcessMarker(p)
    <2>0. p \in Marker /\ input' \in Seq(Ts \cup Marker)
      <3>1. IsMarker(p)
        BY <1>3 DEF ProcessMarker, EnterRecovery, FirstMarker,
             TripOnLosses, MissInRecovery, Resync, Synchronize, EmptyBlock,
             SendBlock, GoodInRecovery, TripOnFailures, FailInRecovery, DropBlock,
             EndsBlock, Good, Gap, Receives
      <3> QED BY <3>1, <1>0, TakenPacket
    <2>1. p.seq \in 0 .. MarkerMod - 1 /\ p.start \in 0 .. RtpMod - 1
      BY <2>0 DEF Marker
    <2>2. LossesWith(p) \in 0 .. MarkerMod - 1
      BY <2>0, LossesType
    <2>3. CASE EnterRecovery(p)
      <3>1. 0 \in 0 .. GoodRequired /\ 0 \in 0 .. RecoveryTime
            /\ MessageInterval \in 0 .. MessageInterval
        OBVIOUS
      <3> QED BY <2>0, <2>1, <2>3, <3>1, NewBlockType, ClearedType
        DEF EnterRecovery, failureVars
    <2>4. CASE FirstMarker(p)
      BY <2>0, <2>1, <2>4, NewBlockType DEF FirstMarker, failureVars, recoveryVars
    <2>5. CASE TripOnLosses(p)
      BY <2>0, <2>5, TripType DEF TripOnLosses
    <2>6. CASE MissInRecovery(p)
      BY <2>0, <2>2, <2>6
      DEF MissInRecovery, FallBack, blockVars, failureVars, recoveryVars
    <2>7. CASE Resync(p)
      BY <2>0, <2>1, <2>2, <2>7, NewBlockType DEF Resync, failureVars, recoveryVars
    <2>8. CASE Synchronize(p)
      BY <2>0, <2>1, <2>8, NewBlockType, ClearedType
      DEF Synchronize, Proceed, failureVars, recoveryVars
    <2>9. CASE EmptyBlock(p)
      BY <2>0, <2>1, <2>9, NewBlockType, ClearedType
      DEF EmptyBlock, Proceed, failureVars, recoveryVars
    <2>10. CASE SendBlock(p)
      <3>1. out' \in Sent \cup {Null}
        BY <2>1, <2>10 DEF SendBlock, Sent
      <3> QED BY <2>0, <2>1, <2>10, <3>1, NewBlockType, ClearedType
        DEF SendBlock, Proceed, failureVars, recoveryVars
    <2>11. CASE GoodInRecovery(p)
      <3>1. goodBlocks' \in 0 .. GoodRequired
        BY <2>11 DEF GoodInRecovery, CountGood
      <3>2. restartAsked' \in BOOLEAN /\ messageAge' \in 0 .. MessageInterval
        BY <2>11 DEF GoodInRecovery, AsksRestart
      <3> QED BY <2>0, <2>1, <2>11, <3>1, <3>2, NewBlockType, ClearedType
        DEF GoodInRecovery, Proceed, failureVars, recoveryVars
    <2>12. CASE TripOnFailures(p)
      BY <2>0, <2>1, <2>12, TripType DEF TripOnFailures
    <2>13. CASE FailInRecovery(p)
      BY <2>0, <2>1, <2>13, RecordType, ClearedType
      DEF FailInRecovery, FallBack, blockVars, recoveryVars
    <2>14. CASE DropBlock(p)
      BY <2>0, <2>1, <2>14, NewBlockType, RecordType, ClearedType
      DEF DropBlock, Proceed, recoveryVars
    <2> QED BY <1>3, <2>3, <2>4, <2>5, <2>6, <2>7, <2>8, <2>9, <2>10, <2>11,
               <2>12, <2>13, <2>14 DEF ProcessMarker
  <1> QED BY <1>1, <1>2, <1>3 DEF Steps

\* Every step keeps the types: a datagram that comes in, a packet that is
\* handled, a peer that comes or goes, time.
LEMMA TypeNext == SenderTypeOK /\ [SenderNext]_senderVars => SenderTypeOK'
  <1> SUFFICES ASSUME SenderTypeOK, [SenderNext]_senderVars
               PROVE  SenderTypeOK'
    OBVIOUS
  <1>1. CASE UNCHANGED senderVars
    BY <1>1 DEF SenderTypeOK, senderVars, syncVars, blockVars, breakerVars,
                failureVars, recoveryVars
  <1>2. ASSUME NEW p \in Ts \cup Marker, Arrive(<<p>>)
        PROVE  SenderTypeOK'
    BY <1>2 DEF Arrive, SenderTypeOK, syncVars, blockVars, breakerVars,
                failureVars, recoveryVars
  <1>3. CASE Handle
    BY <1>3, TypePacket DEF Handle, Steps
  <1>4. CASE PeerChange
    BY <1>4 DEF PeerChange, SenderTypeOK, syncVars, blockVars, failureVars,
                recoveryVars
  <1>5. CASE TickSender
    <2> USE BreakerAssumption
    <2>1. \A age \in 0 .. Window + 1 : Older(age, Window + 1) \in 0 .. Window + 1
      BY DEF Older
    <2>3. failureAge' \in [Slots -> 0 .. Window + 1]
      BY <1>5, <2>1 DEF TickSender, SenderTypeOK
    <2>4. failureLog' \in [1 .. FailureThreshold -> 0 .. Window + 1]
      BY <1>5, <2>1 DEF TickSender, SenderTypeOK
    <2>2. recoveryAge' \in 0 .. RecoveryTime /\ messageAge' \in 0 .. MessageInterval
      BY <1>5 DEF TickSender, Older, SenderTypeOK
    <2> QED BY <1>5, <2>2, <2>3, <2>4 DEF TickSender, SenderTypeOK, syncVars, blockVars
  <1> QED BY <1>1, <1>2, <1>3, <1>4, <1>5 DEF SenderNext

\* Type correctness: the process's state keeps its types whatever comes in.
THEOREM SenderTypeCorrect == SenderSpec => []SenderTypeOK
  <1>1. SenderInit => SenderTypeOK
    BY TypeInit
  <1>2. SenderTypeOK /\ [SenderNext]_senderVars => SenderTypeOK'
    BY TypeNext
  <1> QED BY <1>1, <1>2, PTL DEF SenderSpec

-----------------------------------------------------------------------------
(* The failures of the last Window and the breaker.                        *)

FailureInv == RingIsLog /\ LogSorted /\ FailuresTrip

\* A cleared history has no failure in it.
LEMMA Cleared ==
  ASSUME SenderTypeOK, Trip
  PROVE  FailureInv'
  <1> USE BreakerAssumption
  <1>1. /\ failureAge' = [i \in Slots |-> Window + 1] /\ failureIndex' = 0
        /\ failureLog' = [k \in 1 .. FailureThreshold |-> Window + 1]
    BY DEF Trip
  <1>2. \A k \in 1 .. FailureThreshold : Behind(k)' \in Slots
    BY <1>1 DEF Behind, Slots
  <1>3. RingIsLog'
    BY <1>1, <1>2 DEF RingIsLog
  <1>4. LogSorted' /\ FailuresTrip'
    BY <1>1 DEF LogSorted, FailuresTrip
  <1> QED BY <1>3, <1>4 DEF FailureInv

\* Slot i holds the failure of age log[k], for one k below the threshold unless
\* it is the slot that is written next.
LEMMA SlotInLog ==
  ASSUME SenderTypeOK, RingIsLog, NEW i \in Slots, i # failureIndex
  PROVE  \E k \in 1 .. FailureThreshold - 1 : failureAge[i] = failureLog[k]
  <1> USE BreakerAssumption
  <1> DEFINE k == IF i < failureIndex THEN failureIndex - i
                  ELSE failureIndex - i + FailureThreshold
  <1>1. failureIndex \in Slots
    BY DEF SenderTypeOK
  <1>2. k \in 1 .. FailureThreshold - 1
    BY <1>1 DEF Slots
  <1>3. Behind(k) = i
    BY <1>1 DEF Behind, Slots
  <1>4. failureAge[Behind(k)] = failureLog[k]
    BY <1>2 DEF RingIsLog
  <1> QED BY <1>2, <1>3, <1>4

\* record_validation_failure, when the window is not full: the ring still is the
\* log, and it still is not full.
LEMMA Recording ==
  ASSUME SenderTypeOK, FailureInv, Record, ~Catastrophic
  PROVE  FailureInv'
  <1> USE BreakerAssumption
  <1>0. /\ failureIndex \in Slots /\ failureAge \in [Slots -> 0 .. Window + 1]
        /\ failureLog \in [1 .. FailureThreshold -> 0 .. Window + 1]
    BY DEF SenderTypeOK
  <1>1. /\ failureAge' = Recorded /\ failureIndex' = NextIndex
        /\ failureLog' = [k \in 1 .. FailureThreshold |->
                            IF k = 1 THEN 0 ELSE failureLog[k - 1]]
    BY DEF Record
  <1>2. RingIsLog'
    <2> SUFFICES ASSUME NEW k \in 1 .. FailureThreshold
                 PROVE  failureAge'[Behind(k)'] = failureLog'[k]
      BY DEF RingIsLog
    <2>1. CASE k = 1
      <3>1. Behind(k)' = failureIndex
        BY <1>0, <1>1, <2>1 DEF Behind, NextIndex, Slots
      <3>2. failureAge'[failureIndex] = 0
        BY <1>0, <1>1 DEF Recorded
      <3>3. failureLog'[k] = 0
        BY <1>1, <2>1
      <3> QED BY <3>1, <3>2, <3>3
    <2>2. CASE k # 1
      <3>1. k - 1 \in 1 .. FailureThreshold - 1
        BY <2>2
      <3>2. Behind(k)' = Behind(k - 1)
        BY <1>0, <1>1, <2>2 DEF Behind, NextIndex, Slots
      <3>3. Behind(k - 1) \in Slots /\ Behind(k - 1) # failureIndex
        BY <1>0, <3>1 DEF Behind, Slots
      <3>4. failureAge'[Behind(k - 1)] = failureAge[Behind(k - 1)]
        BY <1>0, <1>1, <3>3 DEF Recorded
      <3>5. failureAge[Behind(k - 1)] = failureLog[k - 1]
        BY <3>1 DEF FailureInv, RingIsLog
      <3>6. failureLog'[k] = failureLog[k - 1]
        BY <1>1, <2>2
      <3> QED BY <3>2, <3>4, <3>5, <3>6
    <2> QED BY <2>1, <2>2
  <1>3. LogSorted'
    <2> SUFFICES ASSUME NEW j \in 1 .. FailureThreshold,
                        NEW k \in 1 .. FailureThreshold, j <= k
                 PROVE  failureLog'[j] <= failureLog'[k]
      BY DEF LogSorted
    <2>1. CASE j = 1
      BY <1>0, <1>1, <2>1
    <2>2. CASE j # 1
      <3>1. j - 1 \in 1 .. FailureThreshold /\ k - 1 \in 1 .. FailureThreshold
            /\ j - 1 <= k - 1
        BY <2>2
      <3>2. failureLog[j - 1] <= failureLog[k - 1]
        BY <3>1 DEF FailureInv, LogSorted
      <3> QED BY <1>1, <2>2, <3>1, <3>2
    <2> QED BY <2>1, <2>2
  <1>4. FailuresTrip'
    <2>1. PICK i \in Slots : ~(Recorded[i] <= Window)
      BY DEF Catastrophic
    <2>2. i # failureIndex
      BY <1>0, <2>1 DEF Recorded
    <2>3. failureAge[i] > Window
      BY <1>0, <2>1, <2>2 DEF Recorded
    <2>4. PICK k \in 1 .. FailureThreshold - 1 : failureAge[i] = failureLog[k]
      BY <2>2, SlotInLog DEF FailureInv
    <2>5. FailureThreshold - 1 \in 1 .. FailureThreshold /\ k \in 1 .. FailureThreshold
          /\ k <= FailureThreshold - 1
      BY <2>4
    <2>6. failureLog[k] <= failureLog[FailureThreshold - 1]
      BY <2>5 DEF FailureInv, LogSorted
    <2>7. failureLog'[FailureThreshold] = failureLog[FailureThreshold - 1]
      BY <1>1, <2>5
    <2>8. failureLog[FailureThreshold - 1] \in Int /\ failureLog[k] \in Int
      BY <1>0, <2>5
    <2> QED BY <2>3, <2>4, <2>6, <2>7, <2>8 DEF FailuresTrip
  <1> QED BY <1>2, <1>3, <1>4 DEF FailureInv

\* Time moves failures out of the window and changes nothing else.
LEMMA Aging ==
  ASSUME SenderTypeOK, FailureInv, TickSender
  PROVE  FailureInv'
  <1> USE BreakerAssumption
  <1>0. /\ failureIndex \in Slots /\ failureAge \in [Slots -> 0 .. Window + 1]
        /\ failureLog \in [1 .. FailureThreshold -> 0 .. Window + 1]
    BY DEF SenderTypeOK
  <1>1. /\ failureAge' = [i \in Slots |-> Older(failureAge[i], Window + 1)]
        /\ failureLog' = [k \in 1 .. FailureThreshold |-> Older(failureLog[k], Window + 1)]
        /\ failureIndex' = failureIndex
    BY DEF TickSender
  <1>2. RingIsLog'
    <2> SUFFICES ASSUME NEW k \in 1 .. FailureThreshold
                 PROVE  failureAge'[Behind(k)'] = failureLog'[k]
      BY DEF RingIsLog
    <2>1. Behind(k)' = Behind(k) /\ Behind(k) \in Slots
      BY <1>0, <1>1 DEF Behind, Slots
    <2>2. failureAge[Behind(k)] = failureLog[k]
      BY DEF FailureInv, RingIsLog
    <2> QED BY <1>1, <2>1, <2>2
  <1>3. LogSorted'
    <2> SUFFICES ASSUME NEW j \in 1 .. FailureThreshold,
                        NEW k \in 1 .. FailureThreshold, j <= k
                 PROVE  failureLog'[j] <= failureLog'[k]
      BY DEF LogSorted
    <2>1. failureLog[j] <= failureLog[k]
      BY DEF FailureInv, LogSorted
    <2>2. failureLog[j] \in 0 .. Window + 1 /\ failureLog[k] \in 0 .. Window + 1
      BY <1>0
    <2> QED BY <1>1, <2>1, <2>2 DEF Older
  <1>4. FailuresTrip'
    <2>1. failureLog[FailureThreshold] \in 0 .. Window + 1
      BY <1>0
    <2>2. failureLog[FailureThreshold] > Window
      BY DEF FailureInv, FailuresTrip
    <2> QED BY <1>1, <2>1, <2>2 DEF Older, FailuresTrip
  <1> QED BY <1>2, <1>3, <1>4 DEF FailureInv

\* Steps that do not write the history keep what is said of it.
LEMMA Untouched ==
  ASSUME FailureInv, UNCHANGED failureVars
  PROVE  FailureInv'
  BY DEF FailureInv, failureVars, RingIsLog, LogSorted, FailuresTrip, Behind

-----------------------------------------------------------------------------
(* The breaker's inductive invariant.                                      *)

\* BreakerInv holds when the process starts.
LEMMA InvInit == SenderInit => BreakerInv
  <1> SUFFICES ASSUME SenderInit PROVE BreakerInv
    OBVIOUS
  <1> USE BreakerAssumption
  <1>1. \A k \in 1 .. FailureThreshold : Behind(k) \in Slots
    BY DEF SenderInit, Behind, Slots
  <1>2. RingIsLog /\ LogSorted /\ FailuresTrip
    BY <1>1 DEF SenderInit, RingIsLog, LogSorted, FailuresTrip
  <1>3. BreakerConsistent
    BY DEF SenderInit, BreakerConsistent
  <1> QED BY <1>2, <1>3 DEF BreakerInv

\* Every way a packet can go keeps BreakerInv.
LEMMA InvPacket ==
  ASSUME SenderTypeOK, BreakerInv, NEW p \in Current, Steps(p)
  PROVE  BreakerInv'
  <1> USE BreakerAssumption
  <1>0. FailureInv /\ BreakerConsistent
    BY DEF BreakerInv, FailureInv
  <1>1. CASE Buffer(p) \/ Discard(p)
    <2>1. UNCHANGED failureVars
          /\ UNCHANGED <<circuitState, senderCtx, losses, firstMarkerSeen, synchronized>>
      BY <1>1 DEF Buffer, Discard, breakerVars, syncVars
    <2>2. BreakerConsistent'
      BY <1>0, <2>1 DEF BreakerConsistent
    <2> QED BY <1>0, <2>1, <2>2, Untouched DEF BreakerInv, FailureInv
  <1>2. CASE EnterRecovery(p)
    <2>1. BreakerConsistent'
      BY <1>0, <1>2 DEF EnterRecovery, BreakerConsistent
    <2> QED BY <1>0, <1>2, <2>1, Untouched DEF EnterRecovery, BreakerInv, FailureInv
  <1>3. CASE FirstMarker(p)
    <2>1. BreakerConsistent'
      BY <1>0, <1>3 DEF FirstMarker, BreakerConsistent
    <2> QED BY <1>0, <1>3, <2>1, Untouched DEF FirstMarker, BreakerInv, FailureInv
  <1>4. CASE TripOnLosses(p) \/ TripOnFailures(p)
    <2>1. Trip
      BY <1>4 DEF TripOnLosses, TripOnFailures
    <2>2. BreakerConsistent'
      BY <2>1 DEF Trip, BreakerConsistent
    <2> QED BY <2>1, <2>2, Cleared DEF BreakerInv, FailureInv
  <1>5. CASE MissInRecovery(p)
    <2>1. BreakerConsistent'
      BY <1>0, <1>5 DEF MissInRecovery, FallBack, BreakerConsistent
    <2> QED BY <1>0, <1>5, <2>1, Untouched DEF MissInRecovery, BreakerInv, FailureInv
  <1>6. CASE Resync(p)
    <2>1. BreakerConsistent'
      BY <1>0, <1>6 DEF Resync, Gap, BreakerConsistent
    <2> QED BY <1>0, <1>6, <2>1, Untouched DEF Resync, BreakerInv, FailureInv
  <1>7. CASE Synchronize(p) \/ EmptyBlock(p) \/ SendBlock(p) \/ GoodInRecovery(p)
    <2>1. Proceed(p) /\ UNCHANGED failureVars /\ firstMarkerSeen
      BY <1>7 DEF Synchronize, EmptyBlock, SendBlock, GoodInRecovery, EndsBlock, Good
    <2>2. BreakerConsistent'
      BY <1>0, <2>1 DEF Proceed, BreakerConsistent
    <2> QED BY <1>0, <2>1, <2>2, Untouched DEF BreakerInv, FailureInv
  <1>8. CASE FailInRecovery(p)
    <2>1. BreakerConsistent'
      BY <1>0, <1>8 DEF FailInRecovery, FallBack, BreakerConsistent
    <2>2. FailureInv'
      BY <1>0, <1>8, Recording DEF FailInRecovery
    <2> QED BY <2>1, <2>2 DEF BreakerInv, FailureInv
  <1>9. CASE DropBlock(p)
    <2>1. BreakerConsistent'
      BY <1>0, <1>9 DEF DropBlock, Proceed, BreakerConsistent
    <2>2. FailureInv'
      BY <1>0, <1>9, Recording DEF DropBlock
    <2> QED BY <2>1, <2>2 DEF BreakerInv, FailureInv
  <1> QED BY <1>1, <1>2, <1>3, <1>4, <1>5, <1>6, <1>7, <1>8, <1>9
      DEF Steps, ProcessMarker

\* And so does every other step.
LEMMA InvNext ==
  SenderTypeOK /\ BreakerInv /\ [SenderNext]_senderVars => BreakerInv'
  <1> SUFFICES ASSUME SenderTypeOK, BreakerInv, [SenderNext]_senderVars
               PROVE  BreakerInv'
    OBVIOUS
  <1>0. FailureInv /\ BreakerConsistent
    BY DEF BreakerInv, FailureInv
  <1>1. CASE UNCHANGED failureVars
              /\ UNCHANGED <<circuitState, senderCtx, losses, firstMarkerSeen, synchronized>>
    <2>1. BreakerConsistent'
      BY <1>0, <1>1 DEF BreakerConsistent
    <2> QED BY <1>0, <1>1, <2>1, Untouched DEF BreakerInv, FailureInv
  <1>2. CASE UNCHANGED senderVars
    BY <1>1, <1>2 DEF senderVars, breakerVars, syncVars
  <1>3. ASSUME NEW p \in Ts \cup Marker, Arrive(<<p>>)
        PROVE  BreakerInv'
    BY <1>1, <1>3 DEF Arrive, breakerVars, syncVars
  <1>4. CASE Handle
    BY <1>4, InvPacket DEF Handle, Steps
  <1>5. CASE PeerChange
    BY <1>1, <1>5 DEF PeerChange, syncVars
  <1>6. CASE TickSender
    <2>1. BreakerConsistent'
      BY <1>0, <1>6 DEF TickSender, syncVars, BreakerConsistent
    <2> QED BY <1>0, <1>6, <2>1, Aging DEF BreakerInv, FailureInv
  <1> QED BY <1>2, <1>3, <1>4, <1>5, <1>6 DEF SenderNext

\* The breaker's invariant: the ring of timestamps is the log of the failures,
\* a full window of failures never leaves the sender running, and the states
\* agree with the flags and the sender context.
THEOREM BreakerInvariant == SenderSpec => []BreakerInv
  <1>1. SenderInit => SenderTypeOK /\ BreakerInv
    BY TypeInit, InvInit
  <1>2. SenderTypeOK /\ BreakerInv /\ [SenderNext]_senderVars
          => SenderTypeOK' /\ BreakerInv'
    BY TypeNext, InvNext
  <1> QED BY <1>1, <1>2, PTL DEF SenderSpec

\* Only a full window of failures trips the breaker, whatever else came between
\* them.
LEMMA TripStep ==
  ASSUME SenderTypeOK, BreakerInv, NEW m \in Current, TripOnFailures(m),
         NEW k \in 1 .. FailureThreshold - 1
  PROVE  failureLog[k] <= Window
  <1> USE BreakerAssumption
  <1>1. failureIndex \in Slots /\ failureAge \in [Slots -> 0 .. Window + 1]
    BY DEF SenderTypeOK
  <1>2. Behind(k) \in Slots /\ Behind(k) # failureIndex
    BY <1>1 DEF Behind, Slots
  <1>3. Recorded[Behind(k)] <= Window
    BY <1>2 DEF TripOnFailures, Catastrophic
  <1>4. failureAge[Behind(k)] <= Window
    BY <1>1, <1>2, <1>3 DEF Recorded
  <1>5. k \in 1 .. FailureThreshold
    OBVIOUS
  <1> QED BY <1>4, <1>5 DEF BreakerInv, RingIsLog

\* The breaker is tripped by failures only when the last FailureThreshold of them
\* lie in the window: the ring buffer in the code counts what its comment says.
THEOREM FailuresTripOnly == SenderSpec => TripNeedsFailures
  <1>1. SenderTypeOK /\ BreakerInv =>
          [(\E m \in Current : TripOnFailures(m)) =>
             \A k \in 1 .. FailureThreshold - 1 : failureLog[k] <= Window]_senderVars
    BY TripStep
  <1>2. SenderSpec => []SenderTypeOK
    BY SenderTypeCorrect
  <1>3. SenderSpec => []BreakerInv
    BY BreakerInvariant
  <1> QED BY <1>1, <1>2, <1>3, PTL DEF TripNeedsFailures

-----------------------------------------------------------------------------
(* The counters of a block describe the buffer.                            *)

\* A remainder is the only number of its range that differs by a multiple.
LEMMA RemainderUnique ==
  ASSUME NEW m \in Nat \ {0}, NEW q \in Int, NEW r \in 0 .. m - 1, NEW x \in Int,
         x = m * q + r
  PROVE  x % m = r
  <1> DEFINE u == x \div m
             v == x % m
  <1>1. u \in Int /\ v \in 0 .. m - 1 /\ x = m * u + v
    <2>1. m \in Int /\ m > 0
      OBVIOUS
    <2>2. u \in Int /\ x = m * u + v
      BY <2>1
    <2> QED BY <2>2, Remainder
  <1> HIDE DEF u, v
  <1>2. m * (q - u) = v - r
    <2>1. m * (q - u) = m * q - m * u
      BY <1>1
    <2> QED BY <1>1, <2>1
  <1>3. q - u \in Int /\ m * (q - u) < m /\ m * (q - u) > -m
    BY <1>1, <1>2
  <1>4. ~(q - u >= 1)
    <2>1. q - u >= 1 => m * (q - u) >= m
      BY <1>3
    <2> QED BY <1>3, <2>1
  <1>5. ~(q - u <= -1)
    <2>1. q - u <= -1 => m * (q - u) <= -m
      BY <1>3
    <2> QED BY <1>3, <2>1
  <1>6. q - u = 0
    BY <1>3, <1>4, <1>5
  <1>7. m * (q - u) = 0
    BY <1>6
  <1> QED BY <1>1, <1>2, <1>7 DEF v

\* A counter of limited width counts on.
LEMMA CountsOn ==
  ASSUME NEW m \in Nat \ {0}, NEW a \in Nat
  PROVE  ((a % m) + 1) % m = (a + 1) % m
  <1> DEFINE q == a \div m
             r == a % m
  <1>1. q \in Int /\ r \in 0 .. m - 1 /\ a = m * q + r
    BY Remainder
  <1> HIDE DEF q, r
  <1>2. CASE r + 1 < m
    <2>1. (a + 1) % m = r + 1
      BY <1>1, <1>2, RemainderUnique
    <2>2. (r + 1) % m = r + 1
      <3>1. r + 1 = m * 0 + (r + 1)
        BY <1>1
      <3> QED BY <1>1, <1>2, <3>1, RemainderUnique
    <2> QED BY <2>1, <2>2 DEF r
  <1>3. CASE r + 1 = m
    <2>1. a + 1 = m * (q + 1) + 0
      BY <1>1, <1>3
    <2>2. (a + 1) % m = 0
      BY <1>1, <2>1, RemainderUnique
    <2>3. (r + 1) % m = 0
      <3>1. r + 1 = m * 1 + 0
        BY <1>1, <1>3
      <3> QED BY <1>1, <3>1, RemainderUnique
    <2> QED BY <2>2, <2>3 DEF r
  <1> QED BY <1>1, <1>2, <1>3

\* What appending a packet does to the number of packets of a kind.
LEMMA NumberAppended ==
  ASSUME block \in Seq(Ts), NEW p \in Ts, block' = Append(block, p), NEW kind
  PROVE  /\ NumberOf(kind) \in Nat
         /\ NumberOf(kind)' = IF p.kind = kind THEN NumberOf(kind) + 1 ELSE NumberOf(kind)
  <1> DEFINE n == Len(block)
             S == {i \in 1 .. n : block[i].kind = kind}
             T == {i \in 1 .. Len(block') : block'[i].kind = kind}
  <1>1. n \in Nat /\ Len(block') = n + 1 /\ block'[n + 1] = p
        /\ \A i \in 1 .. n : block'[i] = block[i]
    OBVIOUS
  <1>2. IsFiniteSet(S) /\ Cardinality(S) \in Nat
    <2>1. IsFiniteSet(1 .. n)
      BY <1>1, FS_Interval
    <2> QED BY <2>1, FS_Subset, FS_CardinalityType
  <1>3. n + 1 \notin S
    BY <1>1
  <1>4. T = IF p.kind = kind THEN S \cup {n + 1} ELSE S
    BY <1>1
  <1>5. NumberOf(kind) = Cardinality(S) /\ NumberOf(kind)' = Cardinality(T)
    BY DEF NumberOf
  <1> HIDE DEF S, T, n
  <1>6. Cardinality(S \cup {n + 1}) = Cardinality(S) + 1
    BY <1>2, <1>3, FS_AddElement
  <1> QED BY <1>2, <1>4, <1>5, <1>6

\* The marker that begins a block is the one packet counted.
LEMMA CountersOfNew ==
  ASSUME NewBlock
  PROVE  CountersMatch'
  <1>1. block' = << >> /\ blockCount' = 0 /\ blockNonNull' = 1 % CountMod /\ blockNull' = 0
    BY DEF NewBlock
  <1>2. NumberOf("data")' = 0 /\ NumberOf("null")' = 0
    BY <1>1, FS_EmptySet DEF NumberOf
  <1>3. 0 % CountMod = 0
    <2>1. 0 = CountMod * 0 + 0 /\ 0 \in 0 .. CountMod - 1
      BY StreamAssumption
    <2> QED BY <2>1, RemainderUnique, StreamAssumption
  <1> QED BY <1>1, <1>2, <1>3 DEF CountersMatch

\* A packet that is buffered is counted by its kind.
LEMMA CountersOfBuffered ==
  ASSUME SenderTypeOK, CountersMatch, NEW p \in Current, Buffer(p)
  PROVE  CountersMatch'
  <1> SUFFICES ASSUME circuitState' = "normal" /\ firstMarkerSeen'
               PROVE  CountersMatch'
    BY DEF CountersMatch
  <1>1. /\ circuitState = "normal" /\ firstMarkerSeen
        /\ Count(p) /\ block' = Append(block, p) /\ Takes(p) /\ ~IsMarker(p)
    BY DEF Buffer, breakerVars, syncVars
  <1>2. /\ blockCount = Len(block)
        /\ blockNull = NumberOf("null") % CountMod
        /\ blockNonNull = (1 + NumberOf("data")) % CountMod
    BY <1>1 DEF CountersMatch
  <1>3. p \in Ts /\ p.kind \in Kinds /\ block \in Seq(Ts)
    <2>1. p \in Ts
      BY <1>1, TakenPacket
    <2> QED BY <2>1 DEF Ts, SenderTypeOK
  <1>4. blockCount' = Len(block')
    BY <1>1, <1>2, <1>3 DEF Count
  <1>5. \A kind \in Kinds :
          /\ NumberOf(kind) \in Nat
          /\ NumberOf(kind)' = IF p.kind = kind THEN NumberOf(kind) + 1 ELSE NumberOf(kind)
    BY <1>1, <1>3, NumberAppended
  <1>6. blockNull' = NumberOf("null")' % CountMod
    <2>1. "null" \in Kinds
      BY DEF Kinds
    <2>2. CASE p.kind = "null"
      <3>1. blockNull' = (blockNull + 1) % CountMod
        BY <1>1, <2>2 DEF Count
      <3>2. ((NumberOf("null") % CountMod) + 1) % CountMod = (NumberOf("null") + 1) % CountMod
        BY <1>5, <2>1, CountsOn, StreamAssumption
      <3> QED BY <1>2, <1>5, <2>1, <2>2, <3>1, <3>2
    <2>3. CASE p.kind # "null"
      <3>1. blockNull' = blockNull
        BY <1>1, <2>3 DEF Count
      <3> QED BY <1>2, <1>5, <2>1, <2>3, <3>1
    <2> QED BY <2>2, <2>3
  <1>7. blockNonNull' = (1 + NumberOf("data")') % CountMod
    <2>1. "data" \in Kinds /\ "data" # "null"
      BY DEF Kinds
    <2>2. CASE p.kind = "data"
      <3>1. blockNonNull' = (blockNonNull + 1) % CountMod
        BY <1>1, <2>1, <2>2 DEF Count
      <3>2. 1 + NumberOf("data") \in Nat /\ NumberOf("data")' = NumberOf("data") + 1
        BY <1>5, <2>1, <2>2
      <3>3. (((1 + NumberOf("data")) % CountMod) + 1) % CountMod
              = ((1 + NumberOf("data")) + 1) % CountMod
        BY <3>2, CountsOn, StreamAssumption
      <3>4. (1 + NumberOf("data")) + 1 = 1 + NumberOf("data")'
        BY <1>5, <2>1, <3>2
      <3> QED BY <1>2, <3>1, <3>3, <3>4
    <2>3. CASE p.kind # "data"
      <3>1. p.kind = "null"
        BY <1>3, <2>3 DEF Kinds
      <3>2. blockNonNull' = blockNonNull
        BY <1>1, <3>1 DEF Count
      <3> QED BY <1>2, <1>5, <2>1, <2>3, <3>2
    <2> QED BY <2>2, <2>3
  <1> QED BY <1>4, <1>6, <1>7 DEF CountersMatch

\* A step that leaves the block alone and enters NORMAL from nowhere else.
LEMMA CountersQuiet ==
  ASSUME CountersMatch, UNCHANGED blockVars,
         circuitState' = "normal" /\ firstMarkerSeen' => circuitState = "normal" /\ firstMarkerSeen
  PROVE  CountersMatch'
  BY DEF CountersMatch, blockVars, NumberOf

\* Every way a packet can go keeps the counters true.
LEMMA CountersPacket ==
  ASSUME SenderTypeOK, CountersMatch, NEW p \in Current, Steps(p)
  PROVE  CountersMatch'
  <1>1. CASE Buffer(p)
    BY <1>1, CountersOfBuffered
  <1>2. CASE Discard(p)
    BY <1>2, CountersQuiet DEF Discard, breakerVars, syncVars
  <1>3. CASE EnterRecovery(p) \/ FirstMarker(p) \/ Resync(p)
    BY <1>3, CountersOfNew DEF EnterRecovery, FirstMarker, Resync
  <1>4. CASE \/ Synchronize(p) \/ EmptyBlock(p) \/ SendBlock(p) \/ GoodInRecovery(p)
             \/ DropBlock(p)
    <2>1. NewBlock
      BY <1>4 DEF Synchronize, EmptyBlock, SendBlock, GoodInRecovery, DropBlock, Proceed
    <2> QED BY <2>1, CountersOfNew
  <1>5. CASE TripOnLosses(p) \/ TripOnFailures(p) \/ MissInRecovery(p) \/ FailInRecovery(p)
    <2>1. circuitState' = "shutdown"
      BY <1>5 DEF TripOnLosses, TripOnFailures, MissInRecovery, FailInRecovery, Trip, FallBack
    <2> QED BY <2>1 DEF CountersMatch
  <1> QED BY <1>1, <1>2, <1>3, <1>4, <1>5 DEF Steps, ProcessMarker

\* In NORMAL the counters a marker is compared with are those of the block that
\* would be sent, whatever came in and however wide the counters are.
THEOREM CountersCorrect == SenderSpec => []CountersMatch
  <1>1. SenderInit => CountersMatch
    BY DEF SenderInit, CountersMatch
  <1>2. SenderTypeOK /\ CountersMatch /\ [SenderNext]_senderVars => CountersMatch'
    <2> SUFFICES ASSUME SenderTypeOK, CountersMatch, [SenderNext]_senderVars
                 PROVE  CountersMatch'
      OBVIOUS
    <2>1. CASE Handle
      BY <2>1, CountersPacket DEF Handle, Steps
    <2>2. ASSUME NEW p \in Ts \cup Marker, Arrive(<<p>>)
          PROVE  CountersMatch'
      BY <2>2, CountersQuiet DEF Arrive, breakerVars, syncVars
    <2>3. CASE PeerChange \/ TickSender \/ UNCHANGED senderVars
      BY <2>3, CountersQuiet DEF PeerChange, TickSender, senderVars, breakerVars, syncVars
    <2> QED BY <2>1, <2>2, <2>3 DEF SenderNext
  <1> QED BY <1>1, <1>2, SenderTypeCorrect, PTL DEF SenderSpec
=============================================================================
