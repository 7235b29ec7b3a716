------------------------- MODULE MarkerChainProofs --------------------------
(***************************************************************************)
(* Proofs about MarkerChain: the two programs keep their types and the     *)
(* sender its invariants whatever the path does, no block is cut short or  *)
(* patched together, and on a path that only loses the breaker is tripped  *)
(* by losses exactly when so many markers were lost and every block that   *)
(* is sent is one of the flow, for payloads, blocks and counters of any    *)
(* size.                                                                   *)
(***************************************************************************)
EXTENDS MarkerChain, MarkerSenderProofs, SequenceTheorems

-----------------------------------------------------------------------------
(* Sequences of packets and of datagrams.                                  *)

\* add_ts_to_udp_buffer: the full datagrams and the rest hold what was put in,
\* and the rest is no full datagram.
LEMMA Packing ==
  ASSUME NEW S, NEW ts \in Seq(S)
  PROVE  /\ Datagrams(ts) \in Seq(Seq(S))
         /\ LeftOver(ts) \in Seq(S) /\ Len(LeftOver(ts)) < PerRtp
  <1> DEFINE n == Len(ts)
             q == n \div PerRtp
             e(k) == SubSeq(ts, (k - 1) * PerRtp + 1, k * PerRtp)
  <1>1. n \in Nat /\ PerRtp \in Nat \ {0}
    BY StreamAssumption, LenProperties
  <1>2. q \in Nat /\ n = (PerRtp * q) + (n % PerRtp) /\ n % PerRtp \in 0 .. PerRtp - 1
    <2>1. q \in Int /\ n = (PerRtp * q) + (n % PerRtp) /\ n % PerRtp \in 0 .. PerRtp - 1
      BY <1>1, Remainder
    <2>2. q >= 0
      BY <1>1
    <2> QED BY <2>1, <2>2
  <1>3. PerRtp * q = q * PerRtp /\ q * PerRtp \in Nat /\ q * PerRtp <= n
        /\ n < q * PerRtp + PerRtp
    <2> HIDE DEF q
    <2>1. PerRtp * q = q * PerRtp /\ q * PerRtp \in Nat
      BY <1>1, <1>2
    <2> QED BY <1>1, <1>2, <2>1
  <1>4. \A i \in 1 .. n : ts[i] \in S
    BY ElementOfSeq
  <1>5. LeftOver(ts) \in Seq(S) /\ Len(LeftOver(ts)) < PerRtp
    <2>1. LeftOver(ts) = SubSeq(ts, q * PerRtp + 1, n)
      BY DEF LeftOver
    <2> HIDE DEF q, n
    <2>2. q * PerRtp + 1 \in Int /\ n \in Int /\ \A i \in q * PerRtp + 1 .. n : ts[i] \in S
      BY <1>1, <1>3, <1>4
    <2> QED BY <1>1, <1>3, <2>1, <2>2, SubSeqProperties
  <1>6. \A k \in 1 .. q : e(k) \in Seq(S)
    <2> SUFFICES ASSUME NEW k \in 1 .. q PROVE e(k) \in Seq(S)
      OBVIOUS
    <2> HIDE DEF q, n
    <2>1. k * PerRtp \in Nat /\ (k - 1) * PerRtp \in Nat /\ k * PerRtp <= q * PerRtp
      BY <1>1, <1>2
    <2>2. \A i \in (k - 1) * PerRtp + 1 .. k * PerRtp : ts[i] \in S
      BY <1>1, <1>3, <1>4, <2>1
    <2> QED BY <2>1, <2>2, SubSeqProperties
  <1>7. Datagrams(ts) = [k \in 1 .. q |-> e(k)]
    BY DEF Datagrams
  <1> HIDE DEF e, q
  <1>8. [k \in 1 .. q |-> e(k)] \in Seq(Seq(S))
    BY <1>2, <1>6, IsASeq
  <1> QED BY <1>5, <1>7, <1>8

\* What the path does to the datagrams on their way: it hands over the first,
\* loses it, or swaps the first two.
LEMMA Carried ==
  ASSUME NEW T, NEW w \in Seq(T), w # << >>
  PROVE  /\ Head(w) \in T /\ Tail(w) \in Seq(T)
         /\ Len(w) >= 2 => <<w[2], w[1]>> \o SubSeq(w, 3, Len(w)) \in Seq(T)
  <1>1. Head(w) \in T /\ Tail(w) \in Seq(T)
    BY HeadTailProperties
  <1>2. ASSUME Len(w) >= 2
        PROVE  <<w[2], w[1]>> \o SubSeq(w, 3, Len(w)) \in Seq(T)
    <2>1. Len(w) \in Nat /\ \A i \in 1 .. Len(w) : w[i] \in T
      BY LenProperties, ElementOfSeq
    <2>2. SubSeq(w, 3, Len(w)) \in Seq(T)
      BY <2>1, SubSeqProperties
    <2>3. <<w[2], w[1]>> \in Seq(T)
      BY <1>2, <2>1
    <2> QED BY <2>2, <2>3, ConcatProperties
  <1> QED BY <1>1, <1>2

-----------------------------------------------------------------------------
(* The inserter.                                                           *)

\* The packets of a payload.
LEMMA PayloadType ==
  ASSUME NEW s \in 0 .. RtpMod - 1, NEW kinds \in [1 .. PerRtp -> Kinds]
  PROVE  Packets(s, kinds) \in Seq(Ts)
  <1> DEFINE e(i) == [kind |-> kinds[i], rtp |-> s, pos |-> i]
  <1>1. PerRtp \in Nat /\ Len(kinds) = PerRtp
    BY StreamAssumption
  <1>2. \A i \in 1 .. PerRtp : e(i) \in Ts
    BY DEF Ts
  <1>3. Packets(s, kinds) = [i \in 1 .. PerRtp |-> e(i)]
    BY <1>1 DEF Packets
  <1> HIDE DEF e
  <1> QED BY <1>1, <1>2, <1>3, IsASeq

\* Every packet of a payload is a null packet or not.
LEMMA NumberType ==
  ASSUME NEW kinds \in [1 .. PerRtp -> Kinds]
  PROVE  /\ Number(kinds, "data") \in Nat /\ Number(kinds, "null") \in Nat
         /\ Number(kinds, "data") + Number(kinds, "null") = PerRtp
  <1> DEFINE D == {i \in 1 .. Len(kinds) : kinds[i] = "data"}
             N == {i \in 1 .. Len(kinds) : kinds[i] = "null"}
  <1>1. PerRtp \in Nat \ {0} /\ Len(kinds) = PerRtp
    BY StreamAssumption
  <1>2. IsFiniteSet(1 .. PerRtp) /\ Cardinality(1 .. PerRtp) = PerRtp
    BY <1>1, FS_Interval
  <1>3. D \subseteq 1 .. PerRtp /\ N \subseteq 1 .. PerRtp /\ D \cap N = {}
        /\ D \cup N = 1 .. PerRtp
    BY <1>1 DEF Kinds
  <1>4. Number(kinds, "data") = Cardinality(D) /\ Number(kinds, "null") = Cardinality(N)
    BY DEF Number
  <1> HIDE DEF D, N
  <1>5. IsFiniteSet(D) /\ IsFiniteSet(N) /\ Cardinality(D) \in Nat /\ Cardinality(N) \in Nat
    BY <1>2, <1>3, FS_Subset, FS_CardinalityType
  <1>6. Cardinality(D \cup N) = Cardinality(D) + Cardinality(N) - Cardinality(D \cap N)
    BY <1>5, FS_Union
  <1>7. Cardinality(D \cap N) = 0
    BY <1>3, FS_EmptySet
  <1>8. PerRtp = Cardinality(D) + Cardinality(N) - 0
    BY <1>2, <1>3, <1>6, <1>7
  <1> QED BY <1>4, <1>5, <1>8

\* The counters of a block stay in their width.
LEMMA WithType ==
  ASSUME InserterTypeOK, NEW kinds \in [1 .. PerRtp -> Kinds]
  PROVE  NonNullWith(kinds) \in 0 .. CountMod - 1 /\ NullWith(kinds) \in 0 .. CountMod - 1
  <1> USE StreamAssumption
  <1>1. Number(kinds, "data") \in Nat /\ Number(kinds, "null") \in Nat
    BY NumberType
  <1>2. /\ (IF rtpInBlock = 0 THEN FirstCount ELSE currentNonNull) \in Int
        /\ (IF rtpInBlock = 0 THEN 0 ELSE currentNull) \in Int
    BY DEF FirstCount, InserterTypeOK
  <1> DEFINE x == (IF rtpInBlock = 0 THEN FirstCount ELSE currentNonNull) + Number(kinds, "data")
             y == (IF rtpInBlock = 0 THEN 0 ELSE currentNull) + Number(kinds, "null")
  <1>3. x \in Int /\ y \in Int
    BY <1>1, <1>2
  <1>4. NonNullWith(kinds) = x % CountMod /\ NullWith(kinds) = y % CountMod
    BY DEF NonNullWith, NullWith
  <1> HIDE DEF x, y
  <1> QED BY <1>3, <1>4, Remainder

\* cb_recv keeps the types, and what it puts on the wire is made of the packets it
\* had, those of the payload and the marker.
LEMMA InsertType ==
  ASSUME InserterTypeOK, NEW s \in 0 .. RtpMod - 1, NEW kinds \in [1 .. PerRtp -> Kinds],
         Insert(s, kinds)
  PROVE  InserterTypeOK'
  <1> DEFINE S == Ts \cup Marker
             ends == rtpInBlock + 1 >= PerMarker
             marker == [kind |-> "marker", seq |-> markerSeq,
                        nonNull |-> NonNullWith(kinds), nulls |-> NullWith(kinds),
                        start |-> StartOf(s)]
             ts == udpBuffer \o Packets(s, kinds) \o (IF ends THEN <<marker>> ELSE << >>)
  <1> USE StreamAssumption
  <1>1. NonNullWith(kinds) \in 0 .. CountMod - 1 /\ NullWith(kinds) \in 0 .. CountMod - 1
    BY WithType
  <1>2. StartOf(s) \in 0 .. RtpMod - 1
    BY DEF StartOf, InserterTypeOK
  <1>3. marker \in Marker
    BY <1>1, <1>2 DEF InserterTypeOK, Marker
  <1>4. Packets(s, kinds) \in Seq(S)
    BY PayloadType, SeqMonotonic
  <1>5. ts \in Seq(S)
    <2>1. udpBuffer \in Seq(S)
      BY DEF InserterTypeOK
    <2>2. (IF ends THEN <<marker>> ELSE << >>) \in Seq(S)
      <3>1. marker \in S
        BY <1>3
      <3> HIDE DEF S, marker, ends
      <3>2. <<marker>> \in Seq(S) /\ << >> \in Seq(S)
        BY <3>1
      <3> QED BY <3>2
    <2> HIDE DEF S, marker, ends
    <2>3. udpBuffer \o Packets(s, kinds) \in Seq(S)
      BY <1>4, <2>1, ConcatProperties
    <2> QED BY <2>2, <2>3, ConcatProperties
  <1>6. udpBuffer' = LeftOver(ts) /\ wire' = wire \o Datagrams(ts)
    BY DEF Insert
  <1>7. /\ udpBuffer' \in Seq(S) /\ Len(udpBuffer') < PerRtp
        /\ wire' \in Seq(Seq(S))
    <2>1. wire \in Seq(Seq(S))
      BY DEF InserterTypeOK
    <2> HIDE DEF S, ts
    <2> QED BY <1>5, <1>6, <2>1, Packing, ConcatProperties
  <1>8. /\ rtpInBlock' \in 0 .. PerMarker - 1 /\ firstMarkerSent' \in BOOLEAN
        /\ blockStart' \in 0 .. RtpMod - 1 /\ markerSeq' \in 0 .. MarkerMod - 1
    <2>1. /\ (StartOf(s) + PerMarker) % RtpMod \in 0 .. RtpMod - 1
          /\ (markerSeq + 1) % MarkerMod \in 0 .. MarkerMod - 1
      <3>1. StartOf(s) + PerMarker \in Int /\ markerSeq + 1 \in Int
        BY <1>2 DEF InserterTypeOK
      <3> QED BY <3>1, Remainder
    <2>2. CASE ends
      BY <2>1, <2>2 DEF Insert
    <2>3. CASE ~ends
      BY <1>2, <2>3 DEF Insert, InserterTypeOK
    <2> QED BY <2>2, <2>3
  <1>9. currentNonNull' \in 0 .. CountMod - 1 /\ currentNull' \in 0 .. CountMod - 1
    BY <1>1 DEF Insert
  <1> QED BY <1>7, <1>8, <1>9 DEF InserterTypeOK

\* A stop flushes what is left, and a start begins anew.
LEMMA RestartInserterType ==
  ASSUME InserterTypeOK, RestartInserter
  PROVE  InserterTypeOK'
  <1> USE StreamAssumption
  <1>1. wire' \in Seq(Seq(Ts \cup Marker))
    <2>1. wire \in Seq(Seq(Ts \cup Marker)) /\ udpBuffer \in Seq(Ts \cup Marker)
      BY DEF InserterTypeOK
    <2>2. Append(wire, udpBuffer) \in Seq(Seq(Ts \cup Marker))
      BY <2>1, AppendType
    <2> QED BY <2>1, <2>2 DEF RestartInserter
  <1>2. 1 % MarkerMod \in 0 .. MarkerMod - 1
    BY Remainder
  <1>3. udpBuffer' = << >> /\ Len(udpBuffer') = 0
    BY DEF RestartInserter
  <1>4. udpBuffer' \in Seq(Ts \cup Marker) /\ Len(udpBuffer') < PerRtp
    BY <1>3
  <1>5. 0 \in 0 .. PerMarker - 1 /\ 0 \in 0 .. RtpMod - 1 /\ 0 \in 0 .. CountMod - 1
    OBVIOUS
  <1> QED BY <1>1, <1>2, <1>4, <1>5 DEF RestartInserter, InserterTypeOK

-----------------------------------------------------------------------------
(* The sender, with datagrams of any length and rist_watchdog's restart.   *)

SenderInv == SenderTypeOK /\ BreakerInv /\ CountersMatch

\* A step of the chain that leaves the sender alone.
LEMMA SenderQuiet ==
  ASSUME SenderInv, UNCHANGED senderVars
  PROVE  SenderInv'
  <1>1. SenderTypeOK' /\ BreakerInv'
    BY TypeNext, InvNext DEF SenderInv
  <1>2. CountersMatch'
    BY CountersQuiet DEF SenderInv, senderVars, breakerVars, syncVars
  <1> QED BY <1>1, <1>2 DEF SenderInv

\* A datagram that comes in.
LEMMA SenderArrive ==
  ASSUME SenderInv, NEW d \in Seq(Ts \cup Marker), Arrive(d)
  PROVE  SenderInv'
  <1>0. SenderTypeOK
    BY DEF SenderInv
  <1>1. SenderTypeOK'
    BY <1>0 DEF Arrive, SenderTypeOK, syncVars, blockVars, breakerVars,
           failureVars, recoveryVars
  <1>2. BreakerInv'
    BY Untouched DEF SenderInv, Arrive, BreakerInv, FailureInv, BreakerConsistent,
                     breakerVars, syncVars
  <1>3. CountersMatch'
    BY CountersQuiet DEF SenderInv, Arrive, breakerVars, syncVars
  <1> QED BY <1>1, <1>2, <1>3 DEF SenderInv

\* A packet, a peer that comes or goes, time.
LEMMA SenderStep ==
  ASSUME SenderInv, Handle \/ PeerChange \/ TickSender
  PROVE  SenderInv'
  <1>1. SenderTypeOK' /\ BreakerInv'
    BY TypeNext, InvNext DEF SenderInv, SenderNext
  <1>2. CASE Handle
    <2>1. CountersMatch'
      BY <1>2, CountersPacket DEF SenderInv, Handle, Steps
    <2> QED BY <1>1, <2>1 DEF SenderInv
  <1>3. CASE PeerChange \/ TickSender
    <2>1. CountersMatch'
      BY <1>3, CountersQuiet DEF SenderInv, PeerChange, TickSender, syncVars
    <2> QED BY <1>1, <2>1 DEF SenderInv
  <1> QED BY <1>2, <1>3

\* Each way a packet can go takes it from the datagram.
LEMMA StepTakes ==
  ASSUME NEW p \in Current, Steps(p)
  PROVE  Takes(p)
  BY DEF Steps, Buffer, Discard, ProcessMarker, EnterRecovery, FirstMarker,
         TripOnLosses, MissInRecovery, Resync, Synchronize, EmptyBlock,
         SendBlock, GoodInRecovery, TripOnFailures, FailInRecovery, DropBlock,
         EndsBlock, Good, Gap, Receives

\* A sender started by the watchdog is as good as a first one.
LEMMA SenderRestart ==
  ASSUME Restart
  PROVE  SenderInv'
  <1> USE BreakerAssumption, StreamAssumption
  <1>1. SenderTypeOK'
    <2>1. /\ 0 \in 0 .. GoodRequired /\ 0 \in 0 .. RecoveryTime
          /\ MessageInterval \in 0 .. MessageInterval
      OBVIOUS
    <2>2. /\ input' \in Seq(Ts \cup Marker) /\ block' \in Seq(Ts) /\ blockCount' \in Nat
      BY DEF Restart
    <2> QED BY <2>1, <2>2, ClearedType DEF Restart, SenderTypeOK
  <1>2. \A k \in 1 .. FailureThreshold : Behind(k)' \in Slots
    BY DEF Restart, Behind, Slots
  <1>3. RingIsLog'
    BY <1>2 DEF Restart, RingIsLog
  <1>4. LogSorted' /\ FailuresTrip' /\ BreakerConsistent'
    BY DEF Restart, LogSorted, FailuresTrip, BreakerConsistent
  <1>5. CountersMatch'
    BY DEF Restart, CountersMatch
  <1> QED BY <1>1, <1>3, <1>4, <1>5 DEF SenderInv, BreakerInv

-----------------------------------------------------------------------------
(* The chain.                                                              *)

\* Every step of the chain keeps the types of both programs and the sender's
\* invariants.
LEMMA ChainNext ==
  ASSUME ChainInv, [Next]_vars
  PROVE  ChainInv'
  <1> DEFINE S == Ts \cup Marker
  <1> USE StreamAssumption, ChainAssumption
  <1>0. /\ SenderInv /\ InserterTypeOK
        /\ nextRtp \in 0 .. RtpMod - 1 /\ troubled \in BOOLEAN /\ lossRun \in Nat
        /\ wire \in Seq(Seq(S))
    BY DEF ChainInv, ChainTypeOK, SenderInv, InserterTypeOK
  <1> SUFFICES /\ SenderInv' /\ InserterTypeOK'
               /\ nextRtp' \in 0 .. RtpMod - 1 /\ troubled' \in BOOLEAN /\ lossRun' \in Nat
    BY DEF ChainInv, ChainTypeOK, SenderInv
  <1>1. (nextRtp + 1) % RtpMod \in 0 .. RtpMod - 1
    BY <1>0, Remainder
  <1>2. UNCHANGED inserterVars /\ wire' \in Seq(Seq(S)) => InserterTypeOK'
    BY <1>0 DEF inserterVars, InserterTypeOK
  <1>3. wire # << >> => /\ Head(wire) \in Seq(S) /\ Tail(wire) \in Seq(Seq(S))
    <2> HIDE DEF S
    <2> QED BY <1>0, Carried
  <1>4. CASE Produce
    <2>1. PICK kinds \in Payloads : Insert(nextRtp, kinds)
      BY <1>4 DEF Produce
    <2>2. InserterTypeOK'
      BY <1>0, <2>1, InsertType
    <2> QED BY <1>0, <1>1, <1>4, <2>2, SenderQuiet DEF Produce
  <1>5. CASE FlowGap
    BY <1>0, <1>1, <1>2, <1>5, SenderQuiet DEF FlowGap
  <1>6. CASE StopInserter
    BY <1>0, <1>6, RestartInserterType, SenderQuiet DEF StopInserter, chainVars
  <1>7. CASE Lose
    BY <1>0, <1>2, <1>3, <1>7, SenderQuiet DEF Lose
  <1>8. CASE Swap
    <2>1. wire' \in Seq(Seq(S))
      <3>1. wire # << >> /\ Len(wire) >= 2
        BY <1>0, <1>8 DEF Swap
      <3> HIDE DEF S
      <3> QED BY <1>0, <1>8, <3>1, Carried DEF Swap
    <2> QED BY <1>0, <1>2, <1>8, <2>1, SenderQuiet DEF Swap, chainVars
  <1>9. CASE Deliver
    BY <1>0, <1>2, <1>3, <1>9, SenderArrive DEF Deliver, chainVars
  <1>10. CASE DeliverAgain
    BY <1>0, <1>2, <1>3, <1>10, SenderArrive DEF DeliverAgain, chainVars
  <1>11. CASE Settle
    BY <1>0, <1>2, <1>11, SenderQuiet DEF Settle
  <1>12. CASE Process
    BY <1>0, <1>2, <1>12, SenderStep DEF Process
  <1>13. CASE Connect \/ Disconnect \/ Tick
    BY <1>0, <1>2, <1>13, SenderStep DEF Connect, Disconnect, Tick, chainVars
  <1>14. CASE Restart
    BY <1>0, <1>2, <1>14, SenderRestart DEF Restart
  <1>15. CASE UNCHANGED vars
    BY <1>0, <1>2, <1>15, SenderQuiet DEF vars, chainVars
  <1> QED BY <1>4, <1>5, <1>6, <1>7, <1>8, <1>9, <1>10, <1>11, <1>12, <1>13, <1>14, <1>15
      DEF Next

\* The chain begins with both programs started.
LEMMA ChainInit == Init => ChainInv
  <1> SUFFICES ASSUME Init PROVE ChainInv
    OBVIOUS
  <1> USE StreamAssumption, ChainAssumption
  <1>1. SenderTypeOK /\ BreakerInv
    BY TypeInit, InvInit DEF Init
  <1>2. CountersMatch
    BY DEF Init, SenderInit, CountersMatch
  <1>3. InserterTypeOK
    <2>1. 1 % MarkerMod \in 0 .. MarkerMod - 1
      BY Remainder
    <2>2. /\ << >> \in Seq(Ts \cup Marker) /\ Len(<< >>) < PerRtp
          /\ << >> \in Seq(Seq(Ts \cup Marker))
      OBVIOUS
    <2>3. 0 \in 0 .. PerMarker - 1 /\ 0 \in 0 .. RtpMod - 1 /\ 0 \in 0 .. CountMod - 1
      OBVIOUS
    <2> QED BY <2>1, <2>2, <2>3 DEF Init, InserterInit, InserterTypeOK
  <1>4. nextRtp \in 0 .. RtpMod - 1 /\ troubled \in BOOLEAN /\ lossRun \in Nat
    BY DEF Init
  <1> QED BY <1>1, <1>2, <1>3, <1>4 DEF ChainInv, ChainTypeOK

\* The types of the whole chain, and the sender's invariants in it: whatever the
\* path does to its datagrams, the breaker stands where its failures put it and
\* the counters a marker is compared with are those of the block.
THEOREM ChainCorrect == Spec => []ChainInv
  <1>1. ChainInv /\ [Next]_vars => ChainInv'
    BY ChainNext
  <1> QED BY <1>1, ChainInit, PTL DEF Spec

-----------------------------------------------------------------------------
(* Blocks are whole.                                                       *)

\* A block and the marker before it fit the counters.
Fits == Whole + 1 < CountMod

\* A number that fits is its own remainder.
LEMMA OwnRemainder ==
  ASSUME NEW x \in Nat, x < CountMod
  PROVE  x % CountMod = x
  <1>1. x = CountMod * 0 + x /\ x \in 0 .. CountMod - 1
    BY StreamAssumption
  <1> QED BY <1>1, RemainderUnique, StreamAssumption

\* cb_recv counts all packets of its payload, and the marker before the block.
LEMMA InsertCounts ==
  ASSUME Fits, InserterTypeOK, Tally, NEW kinds \in [1 .. PerRtp -> Kinds]
  PROVE  NonNullWith(kinds) + NullWith(kinds) = ((rtpInBlock + 1) * PerRtp) + FirstCount
  <1> DEFINE a == IF rtpInBlock = 0 THEN FirstCount ELSE currentNonNull
             b == IF rtpInBlock = 0 THEN 0 ELSE currentNull
             d == Number(kinds, "data")
             n == Number(kinds, "null")
  <1>1. /\ rtpInBlock \in 0 .. PerMarker - 1 /\ PerRtp \in Nat \ {0} /\ PerMarker \in Nat \ {0}
        /\ FirstCount \in {0, 1} /\ a \in Nat /\ b \in Nat
    BY StreamAssumption DEF InserterTypeOK, FirstCount
  <1>2. a + b = (rtpInBlock * PerRtp) + FirstCount
    <2>1. CASE rtpInBlock = 0
      BY <1>1, <2>1
    <2>2. CASE rtpInBlock # 0
      BY <1>1, <2>2 DEF Tally
    <2> QED BY <2>1, <2>2
  <1>3. d \in Nat /\ n \in Nat /\ d + n = PerRtp
    BY NumberType
  <1>4. NonNullWith(kinds) = (a + d) % CountMod /\ NullWith(kinds) = (b + n) % CountMod
    BY DEF NonNullWith, NullWith
  <1> HIDE DEF a, b, d, n
  <1>5. (a + d) + (b + n) = ((rtpInBlock + 1) * PerRtp) + FirstCount
    <2>1. (rtpInBlock + 1) * PerRtp = (rtpInBlock * PerRtp) + PerRtp /\ rtpInBlock * PerRtp \in Nat
      BY <1>1
    <2> QED BY <1>1, <1>2, <1>3, <2>1
  <1>6. (a + d) + (b + n) < CountMod
    <2>1. (rtpInBlock + 1) * PerRtp <= PerMarker * PerRtp
      BY <1>1
    <2>2. PerMarker * PerRtp \in Nat /\ (rtpInBlock + 1) * PerRtp \in Nat
      BY <1>1
    <2> QED BY <1>1, <1>5, <2>1, <2>2, StreamAssumption DEF Fits, Whole
  <1>7. (a + d) % CountMod = a + d /\ (b + n) % CountMod = b + n
    <2>1. a + d \in Nat /\ b + n \in Nat /\ a + d < CountMod /\ b + n < CountMod
      BY <1>1, <1>3, <1>6, StreamAssumption
    <2> QED BY <2>1, OwnRemainder
  <1> QED BY <1>4, <1>5, <1>7

\* The marker of a finished block counts the whole of it.
LEMMA InsertTally ==
  ASSUME Fits, InserterTypeOK, Tally, UNCHANGED input,
         NEW s \in 0 .. RtpMod - 1, NEW kinds \in [1 .. PerRtp -> Kinds], Insert(s, kinds)
  PROVE  Tally'
  <1> DEFINE ends == rtpInBlock + 1 >= PerMarker
             marker == [kind |-> "marker", seq |-> markerSeq,
                        nonNull |-> NonNullWith(kinds), nulls |-> NullWith(kinds),
                        start |-> StartOf(s)]
             ts == udpBuffer \o Packets(s, kinds) \o (IF ends THEN <<marker>> ELSE << >>)
  <1> USE StreamAssumption
  <1>1. NonNullWith(kinds) + NullWith(kinds) = ((rtpInBlock + 1) * PerRtp) + FirstCount
    BY InsertCounts
  <1>2. ends => marker \in Tallied
    <2> SUFFICES ASSUME ends PROVE marker \in Tallied
      OBVIOUS
    <2>1. rtpInBlock + 1 = PerMarker
      BY DEF InserterTypeOK
    <2>2. marker.nonNull + marker.nulls \in {Whole, Whole + 1}
      <3>1. Whole \in Nat
        BY DEF Whole
      <3> QED BY <1>1, <2>1, <3>1 DEF Whole, FirstCount
    <2>3. marker \in Marker
      <3>1. StartOf(s) \in 0 .. RtpMod - 1
        BY DEF StartOf, InserterTypeOK
      <3>2. NonNullWith(kinds) \in 0 .. CountMod - 1 /\ NullWith(kinds) \in 0 .. CountMod - 1
        BY WithType
      <3> QED BY <3>1, <3>2 DEF InserterTypeOK, Marker
    <2> QED BY <2>2, <2>3 DEF Tallied
  <1>3. ts \in Seq(Tallied)
    <2>1. udpBuffer \in Seq(Tallied)
      BY DEF Tally
    <2>2. Packets(s, kinds) \in Seq(Tallied)
      <3>1. Ts \subseteq Tallied
        BY DEF Tallied
      <3> QED BY <3>1, PayloadType, SeqMonotonic
    <2> HIDE DEF marker, ends
    <2>3. (IF ends THEN <<marker>> ELSE << >>) \in Seq(Tallied)
      BY <1>2
    <2>4. udpBuffer \o Packets(s, kinds) \in Seq(Tallied)
      BY <2>1, <2>2, ConcatProperties
    <2> QED BY <2>3, <2>4, ConcatProperties
  <1>4. udpBuffer' = LeftOver(ts) /\ wire' = wire \o Datagrams(ts)
    BY DEF Insert
  <1>5. udpBuffer' \in Seq(Tallied) /\ wire' \in Seq(Seq(Tallied))
    <2>1. wire \in Seq(Seq(Tallied))
      BY DEF Tally
    <2> HIDE DEF ts
    <2> QED BY <1>3, <1>4, <2>1, Packing, ConcatProperties
  <1>6. rtpInBlock' > 0 =>
          currentNonNull' + currentNull' = (rtpInBlock' * PerRtp) + FirstCount'
    <2>1. CASE ends
      BY <2>1 DEF Insert
    <2>2. CASE ~ends
      BY <1>1, <2>2 DEF Insert, FirstCount
    <2> QED BY <2>1, <2>2
  <1>7. input' \in Seq(Tallied)
    BY DEF Tally
  <1> QED BY <1>5, <1>6, <1>7 DEF Tally

\* Nothing on the way makes a marker of its own: each step hands on what it got.
LEMMA TallyNext ==
  ASSUME Fits, ChainInv, Tally, [Next]_vars
  PROVE  Tally'
  <1> USE StreamAssumption, ChainAssumption
  <1>0. /\ InserterTypeOK /\ nextRtp \in 0 .. RtpMod - 1
        /\ udpBuffer \in Seq(Tallied) /\ wire \in Seq(Seq(Tallied)) /\ input \in Seq(Tallied)
    BY DEF ChainInv, ChainTypeOK, Tally
  <1>1. UNCHANGED inserterVars /\ wire' \in Seq(Seq(Tallied)) /\ input' \in Seq(Tallied)
          => Tally'
    BY DEF Tally, inserterVars, FirstCount
  <1>2. wire # << >> => /\ Head(wire) \in Seq(Tallied) /\ Tail(wire) \in Seq(Seq(Tallied))
    BY <1>0, Carried
  <1>3. CASE Produce
    <2>1. PICK kinds \in Payloads : Insert(nextRtp, kinds)
      BY <1>3 DEF Produce
    <2> QED BY <1>0, <1>3, <2>1, InsertTally DEF Produce, senderVars
  <1>4. CASE StopInserter
    <2>1. Append(wire, udpBuffer) \in Seq(Seq(Tallied))
      BY <1>0, AppendType
    <2>2. udpBuffer' = << >> /\ rtpInBlock' = 0 /\ wire' \in Seq(Seq(Tallied)) /\ input' = input
      BY <1>0, <1>4, <2>1 DEF StopInserter, RestartInserter, senderVars
    <2> QED BY <1>0, <2>2 DEF Tally
  <1>5. CASE Lose
    BY <1>0, <1>1, <1>2, <1>5 DEF Lose, senderVars
  <1>6. CASE Swap
    <2>1. wire' \in Seq(Seq(Tallied))
      <3>1. wire # << >> /\ Len(wire) >= 2
        BY <1>0, <1>6 DEF Swap
      <3> QED BY <1>0, <1>6, <3>1, Carried DEF Swap
    <2> QED BY <1>0, <1>1, <1>6, <2>1 DEF Swap, senderVars
  <1>7. CASE Deliver
    BY <1>0, <1>1, <1>2, <1>7 DEF Deliver, Arrive
  <1>8. CASE DeliverAgain
    BY <1>0, <1>1, <1>2, <1>8 DEF DeliverAgain, Arrive
  <1>9. CASE Process
    <2>1. PICK p \in Current : Steps(p)
      BY <1>9 DEF Process, Handle, Steps
    <2>2. input # << >> /\ input' = Tail(input)
      BY <2>1, StepTakes DEF Takes
    <2>3. input' \in Seq(Tallied)
      BY <1>0, <2>2, HeadTailProperties
    <2> QED BY <1>0, <1>1, <1>9, <2>3 DEF Process
  <1>10. CASE FlowGap \/ Settle \/ Connect \/ Disconnect \/ Tick \/ UNCHANGED vars
    <2>1. UNCHANGED <<inserterVars, wire, input>>
      BY <1>10 DEF FlowGap, Settle, Connect, Disconnect, Tick, vars, senderVars,
                   PeerChange, TickSender
    <2> QED BY <1>0, <1>1, <2>1
  <1>11. CASE Restart
    <2>1. << >> \in Seq(Tallied)
      OBVIOUS
    <2> QED BY <1>0, <1>1, <1>11, <2>1 DEF Restart
  <1> QED BY <1>3, <1>4, <1>5, <1>6, <1>7, <1>8, <1>9, <1>10, <1>11 DEF Next

\* A block that agrees with its marker is whole: one that lacks only the marker
\* before it would be a packet short of full datagrams.
LEMMA SentWhole ==
  ASSUME PerRtp > 1, ChainInv, Tally, NEW m \in Current, SendBlock(m)
  PROVE  BlocksWhole'
  <1> USE StreamAssumption
  <1>1. /\ circuitState = "normal" /\ firstMarkerSeen /\ Valid(m) /\ Takes(m) /\ IsMarker(m)
        /\ out' \in {Null, [start |-> m.start, block |-> block]}
    BY DEF SendBlock, EndsBlock, Good, Receives
  <1>2. blockCount = Len(block) /\ blockCount \in Nat
    BY <1>1 DEF ChainInv, CountersMatch, ChainTypeOK, SenderTypeOK
  <1>3. m.nonNull + m.nulls \in {Whole, Whole + 1}
    <2>1. m \in Tallied
      <3>1. input \in Seq(Tallied) /\ input # << >> /\ m = Head(input)
        BY <1>1 DEF Tally, Takes
      <3> QED BY <3>1, HeadTailProperties
    <2>2. m \notin Ts
      BY <1>1 DEF Ts, Kinds, IsMarker
    <2> QED BY <2>1, <2>2 DEF Tallied
  <1>4. blockCount + 1 \in {Whole, Whole + 1} /\ blockCount % PerRtp = 0
    BY <1>1, <1>3 DEF Valid
  <1>5. Whole \in Nat
    BY DEF Whole
  <1>6. blockCount + 1 # Whole
    <2> SUFFICES ASSUME blockCount + 1 = Whole PROVE FALSE
      OBVIOUS
    <2>1. blockCount = PerRtp * (PerMarker - 1) + (PerRtp - 1)
      <3>1. PerRtp * (PerMarker - 1) = (PerMarker * PerRtp) - PerRtp
        OBVIOUS
      <3>2. PerMarker * PerRtp \in Nat
        OBVIOUS
      <3> QED BY <1>2, <3>1, <3>2 DEF Whole
    <2>2. PerRtp - 1 \in 0 .. PerRtp - 1 /\ PerMarker - 1 \in Int
      OBVIOUS
    <2>3. blockCount % PerRtp = PerRtp - 1
      BY <1>2, <2>1, <2>2, RemainderUnique
    <2> QED BY <1>4, <2>3
  <1>7. Len(block) = Whole
    BY <1>2, <1>4, <1>5, <1>6
  <1> QED BY <1>1, <1>7 DEF BlocksWhole, Whole

\* And no other step sends a block.
LEMMA WholeNext ==
  ASSUME PerRtp > 1, ChainInv, Tally, BlocksWhole, [Next]_vars
  PROVE  BlocksWhole'
  <1>1. CASE UNCHANGED out
    BY <1>1 DEF BlocksWhole
  <1>2. CASE out' = Null
    BY <1>2 DEF BlocksWhole
  <1>3. CASE Process
    <2>1. PICK p \in Current : Steps(p)
      BY <1>3 DEF Process, Handle, Steps
    <2>2. SendBlock(p) \/ out' = Null
      BY <2>1 DEF Steps, Buffer, Discard, ProcessMarker, EnterRecovery, FirstMarker,
        TripOnLosses, MissInRecovery, Resync, Synchronize, EmptyBlock, GoodInRecovery,
        TripOnFailures, FailInRecovery, DropBlock, Trip, FallBack
    <2> QED BY <1>2, <2>2, SentWhole
  <1>4. UNCHANGED out \/ out' = Null \/ Process
    BY DEF Next, Produce, FlowGap, StopInserter, Lose, Swap, Deliver, DeliverAgain, Settle,
           Connect, Disconnect, Tick, Restart, Arrive, PeerChange, TickSender, senderVars, vars
  <1> QED BY <1>1, <1>2, <1>3, <1>4

\* No block is cut short or patched together: whatever the path loses, repeats or
\* swaps, and however often both programs are restarted, a block that is sent has
\* as many packets as the inserter puts between two markers.
THEOREM WholeBlocks == PerRtp > 1 /\ Fits => (Spec => []BlocksWhole)
  <1> SUFFICES ASSUME PerRtp > 1, Fits PROVE Spec => []BlocksWhole
    OBVIOUS
  <1>1. Init => Tally /\ BlocksWhole
    <2>1. << >> \in Seq(Tallied) /\ << >> \in Seq(Seq(Tallied))
      OBVIOUS
    <2> QED BY <2>1 DEF Init, InserterInit, SenderInit, Tally, BlocksWhole
  <1>2. ChainInv /\ Tally /\ BlocksWhole /\ [Next]_vars => Tally' /\ BlocksWhole'
    BY TallyNext, WholeNext
  <1> QED BY <1>1, <1>2, ChainCorrect, PTL DEF Spec

-----------------------------------------------------------------------------
(* Markers on a path that only loses.                                      *)

\* The path neither repeats nor swaps datagrams, and the inserter runs on.
OnlyLoses == Troubles \subseteq {"lose", "gap"}

\* Whole turns of a counter do not show.
LEMMA WholeTurns ==
  ASSUME NEW m \in Nat \ {0}, NEW x \in Int, NEW y \in Int, NEW k \in Int, x = y + m * k
  PROVE  x % m = y % m
  <1> DEFINE q == y \div m
             r == y % m
  <1>1. q \in Int /\ r \in 0 .. m - 1 /\ y = m * q + r
    <2>1. m \in Int /\ m > 0
      OBVIOUS
    <2>2. q \in Int /\ y = m * q + r
      BY <2>1
    <2> QED BY <2>2, Remainder
  <1> HIDE DEF q, r
  <1>2. x = m * (q + k) + r
    <2>1. m * (q + k) = m * q + m * k
      BY <1>1
    <2>2. m * q \in Int /\ m * k \in Int
      BY <1>1
    <2> QED BY <1>1, <2>1, <2>2
  <1>3. q + k \in Int
    BY <1>1
  <1>4. x % m = r
    BY <1>1, <1>2, <1>3, RemainderUnique
  <1> QED BY <1>4 DEF r

\* A remainder is off by whole turns.
LEMMA Turns ==
  ASSUME NEW m \in Nat \ {0}, NEW x \in Int
  PROVE  \E k \in Int : x % m = x + m * k
  <1>1. x \div m \in Int /\ x = m * (x \div m) + (x % m) /\ x % m \in Int
    <2>1. m \in Int /\ m > 0
      OBVIOUS
    <2> QED BY <2>1, Remainder
  <1> DEFINE q == x \div m
  <1> HIDE DEF q
  <1>2. x = m * q + (x % m) /\ q \in Int
    BY <1>1 DEF q
  <1>3. m * (-q) = -(m * q) /\ m * q \in Int /\ -q \in Int
    BY <1>2
  <1>4. x % m = x + m * (-q) /\ -q \in Int
    BY <1>1, <1>2, <1>3
  <1> QED BY <1>4

\* The n-th number after the one that x stands for.
LEMMA NumberAfter ==
  ASSUME NEW m \in Nat \ {0}, NEW x \in Int, NEW n \in Int
  PROVE  ((x % m) + n) % m = (x + n) % m
  <1> DEFINE u == (x % m) + n
             v == x + n
  <1>1. PICK a \in Int : x % m = x + m * a
    BY Turns
  <1>2. u = v + m * a /\ u \in Int /\ v \in Int
    <2>1. m * a \in Int
      OBVIOUS
    <2> QED BY <1>1, <2>1
  <1> HIDE DEF u, v
  <1>3. u % m = v % m
    BY <1>2, WholeTurns
  <1> QED BY <1>3 DEF u, v

\* What a marker that comes late by r - s numbers adds to the losses s.
LEMMA LateTells ==
  ASSUME NEW last \in Int, NEW r \in Int, NEW s \in Int
  PROVE  (s + (((last + 1 + (r - s)) % MarkerMod) - ((last + 1) % MarkerMod))) % MarkerMod
           = r % MarkerMod
  <1> DEFINE m == MarkerMod
             y == last + 1
             z == last + 1 + (r - s)
             u == s + ((z % m) - (y % m))
  <1>0. m \in Nat \ {0} /\ z \in Int /\ y \in Int /\ z = y + (r - s)
    BY StreamAssumption
  <1> HIDE DEF m, y, z
  <1>1. PICK c \in Int : z % m = z + m * c
    BY <1>0, Turns
  <1>2. PICK d \in Int : y % m = y + m * d
    BY <1>0, Turns
  <1> DEFINE e == c - d
  <1>3. u = r + m * e /\ u \in Int /\ e \in Int
    <2>1. m * c \in Int /\ m * d \in Int /\ m * e = m * c - m * d
      BY <1>0
    <2> QED BY <1>0, <1>1, <1>2, <2>1
  <1> HIDE DEF u, e
  <1>4. u % m = r % m
    BY <1>0, <1>3, WholeTurns
  <1> QED BY <1>4 DEF u, m, y, z

\* The number after a marker whose losses were counted.
LEMMA CountedAfter ==
  ASSUME NEW x \in Int, NEW r \in Int
  PROVE  (x + 1 + (r - (r % MarkerMod))) % MarkerMod = (x + 1) % MarkerMod
  <1> DEFINE m == MarkerMod
             u == x + 1 + (r - (r % m))
             v == x + 1
  <1>0. m \in Nat \ {0}
    BY StreamAssumption
  <1> HIDE DEF m
  <1>1. PICK b \in Int : r % m = r + m * b
    BY <1>0, Turns
  <1> DEFINE e == -b
  <1>2. u = v + m * e /\ u \in Int /\ v \in Int /\ e \in Int
    <2>1. m * b \in Int /\ m * e = -(m * b)
      BY <1>0
    <2> QED BY <1>1, <2>1
  <1> HIDE DEF u, v, e
  <1>3. u % m = v % m
    BY <1>0, <1>2, WholeTurns
  <1> QED BY <1>3 DEF u, v, m

\* A stream of markers, unit by unit: the numbers of those in each.  Each marker has
\* the number after the one before it, and the first one has number n.
Consecutive(F) ==
  \A j, k \in Nat : j < k /\ (\A i \in Nat : j < i /\ i < k => F[i] = {})
    => \A q \in F[j], r \in F[k] : r = (q + 1) % MarkerMod
Begins(F, n) == \A k \in Nat : (\A i \in Nat : i < k => F[i] = {}) => F[k] \subseteq {n}

\* The units move up by one.
LEMMA MovedUp ==
  ASSUME NEW F, NEW G, NEW n, F[0] = {}, \A k \in Nat : G[k] = F[k + 1]
  PROVE  /\ Consecutive(F) => Consecutive(G)
         /\ Begins(F, n) => Begins(G, n)
  <1>1. ASSUME Consecutive(F) PROVE Consecutive(G)
    <2> SUFFICES ASSUME NEW j \in Nat, NEW k \in Nat, j < k,
                        \A i \in Nat : j < i /\ i < k => G[i] = {},
                        NEW q \in G[j], NEW r \in G[k]
                 PROVE  r = (q + 1) % MarkerMod
      BY DEF Consecutive
    <2>1. ASSUME NEW i \in Nat, j + 1 < i, i < k + 1 PROVE F[i] = {}
      <3>1. i - 1 \in Nat /\ j < i - 1 /\ i - 1 < k /\ (i - 1) + 1 = i
        BY <2>1
      <3> QED BY <3>1
    <2>2. j + 1 \in Nat /\ k + 1 \in Nat /\ j + 1 < k + 1 /\ q \in F[j + 1] /\ r \in F[k + 1]
      OBVIOUS
    <2> QED BY <1>1, <2>1, <2>2 DEF Consecutive
  <1>2. ASSUME Begins(F, n) PROVE Begins(G, n)
    <2> SUFFICES ASSUME NEW k \in Nat, \A i \in Nat : i < k => G[i] = {}
                 PROVE  F[k + 1] \subseteq {n}
      BY DEF Begins
    <2>1. ASSUME NEW i \in Nat, i < k + 1 PROVE F[i] = {}
      <3>1. CASE i = 0
        BY <3>1
      <3>2. CASE i # 0
        <4>1. i - 1 \in Nat /\ i - 1 < k /\ (i - 1) + 1 = i
          BY <2>1, <3>2
        <4> QED BY <4>1
      <3> QED BY <3>1, <3>2
    <2> QED BY <1>2, <2>1 DEF Begins
  <1> QED BY <1>1, <1>2

\* The first marker is gone: the next one has the next number.
LEMMA FirstGone ==
  ASSUME NEW F, NEW G, NEW n, NEW j \in Nat, \A i \in Nat : i < j => F[i] = {},
         Consecutive(F), G[j] = {}, \A k \in Nat : k # j => G[k] = F[k]
  PROVE  /\ Consecutive(G)
         /\ n \in F[j] => Begins(G, (n + 1) % MarkerMod)
         /\ F[j] = {} /\ Begins(F, n) => Begins(G, n)
  <1>1. Consecutive(G)
    <2> SUFFICES ASSUME NEW a \in Nat, NEW k \in Nat, a < k,
                        \A i \in Nat : a < i /\ i < k => G[i] = {},
                        NEW q \in G[a], NEW r \in G[k]
                 PROVE  r = (q + 1) % MarkerMod
      BY DEF Consecutive
    <2>1. a # j /\ k # j /\ ~ (a < j)
      OBVIOUS
    <2>2. \A i \in Nat : a < i /\ i < k => F[i] = {}
      BY <2>1
    <2> QED BY <2>1, <2>2 DEF Consecutive
  <1>2. ASSUME n \in F[j] PROVE Begins(G, (n + 1) % MarkerMod)
    <2> SUFFICES ASSUME NEW k \in Nat, \A i \in Nat : i < k => G[i] = {}, NEW r \in G[k]
                 PROVE  r = (n + 1) % MarkerMod
      BY DEF Begins
    <2>1. k > j
      OBVIOUS
    <2>2. \A i \in Nat : j < i /\ i < k => F[i] = {}
      OBVIOUS
    <2> QED BY <1>2, <2>1, <2>2 DEF Consecutive
  <1>3. ASSUME F[j] = {}, Begins(F, n) PROVE Begins(G, n)
    <2>1. \A k \in Nat : G[k] = F[k]
      BY <1>3
    <2> QED BY <1>3, <2>1 DEF Begins
  <1> QED BY <1>1, <1>2, <1>3

\* A marker is put in: the one that was to come is there, and the next is to come.
LEMMA MarkerAdded ==
  ASSUME NEW F, NEW G, NEW e \in Nat, NEW d \in Nat, e < d, F[e] # {},
         \A k \in Nat : k > e => F[k] = {}, Consecutive(F),
         \A q \in F[e], r \in G[d] : r = (q + 1) % MarkerMod,
         \A k \in Nat : k # d => G[k] = F[k]
  PROVE  Consecutive(G) /\ (\A n : Begins(F, n) => Begins(G, n))
  <1>1. Consecutive(G)
    <2> SUFFICES ASSUME NEW a \in Nat, NEW k \in Nat, a < k,
                        \A i \in Nat : a < i /\ i < k => G[i] = {},
                        NEW x \in G[a], NEW r \in G[k]
                 PROVE  r = (x + 1) % MarkerMod
      BY DEF Consecutive
    <2>1. CASE k = d
      <3>1. a = e
        BY <2>1
      <3> QED BY <2>1, <3>1
    <2>2. CASE k # d
      <3>1. k <= e /\ a # d /\ \A i \in Nat : a < i /\ i < k => F[i] = {}
        BY <2>2
      <3> QED BY <2>2, <3>1 DEF Consecutive
    <2> QED BY <2>1, <2>2
  <1>2. ASSUME NEW n, Begins(F, n) PROVE Begins(G, n)
    <2> SUFFICES ASSUME NEW k \in Nat, \A i \in Nat : i < k => G[i] = {}
                 PROVE  G[k] \subseteq {n}
      BY DEF Begins
    <2>1. k <= e
      OBVIOUS
    <2>2. \A i \in Nat : i < k => F[i] = {}
      BY <2>1
    <2> QED BY <1>2, <2>1, <2>2 DEF Begins
  <1> QED BY <1>1, <1>2

\* None is put in: the next is still to come.
LEMMA NoneAdded ==
  ASSUME NEW F, NEW G, NEW e \in Nat, NEW d \in Nat, e < d,
         \A k \in Nat : k > e => F[k] = {}, Consecutive(F),
         G[d] = F[e], G[e] = {}, \A k \in Nat : k # d /\ k # e => G[k] = F[k]
  PROVE  Consecutive(G) /\ (\A n : Begins(F, n) => Begins(G, n))
  <1>1. Consecutive(G)
    <2> SUFFICES ASSUME NEW a \in Nat, NEW k \in Nat, a < k,
                        \A i \in Nat : a < i /\ i < k => G[i] = {},
                        NEW x \in G[a], NEW r \in G[k]
                 PROVE  r = (x + 1) % MarkerMod
      BY DEF Consecutive
    <2>1. a < e /\ x \in F[a]
      OBVIOUS
    <2>2. CASE k = d
      <3>1. \A i \in Nat : a < i /\ i < e => F[i] = {}
        BY <2>2
      <3> QED BY <2>1, <2>2, <3>1 DEF Consecutive
    <2>3. CASE k # d
      <3>1. k < e /\ r \in F[k] /\ \A i \in Nat : a < i /\ i < k => F[i] = {}
        BY <2>3
      <3> QED BY <2>1, <2>3, <3>1 DEF Consecutive
    <2> QED BY <2>2, <2>3
  <1>2. ASSUME NEW n, Begins(F, n) PROVE Begins(G, n)
    <2> SUFFICES ASSUME NEW k \in Nat, \A i \in Nat : i < k => G[i] = {}
                 PROVE  G[k] \subseteq {n}
      BY DEF Begins
    <2>1. CASE k < e
      <3>1. \A i \in Nat : i < k => F[i] = {}
        BY <2>1
      <3> QED BY <1>2, <2>1, <3>1 DEF Begins
    <2>2. CASE k = d
      <3>1. \A i \in Nat : i < e => F[i] = {}
        BY <2>2
      <3> QED BY <1>2, <2>2, <3>1 DEF Begins
    <2>3. CASE k >= e /\ k # d
      BY <2>3
    <2> QED BY <2>1, <2>2, <2>3
  <1> QED BY <1>1, <1>2

\* A stream of one or two datagrams, and what each of them holds.
LEMMA Packed ==
  ASSUME NEW S, NEW ts \in Seq(S), PerRtp <= Len(ts), Len(ts) <= 2 * PerRtp
  PROVE  /\ Datagrams(ts) \in Seq(Seq(S)) /\ LeftOver(ts) \in Seq(S)
         /\ Len(Datagrams(ts)[1]) = PerRtp
         /\ \A i \in 1 .. PerRtp : Datagrams(ts)[1][i] = ts[i]
         /\ Len(ts) < 2 * PerRtp =>
              /\ Len(Datagrams(ts)) = 1
              /\ Len(LeftOver(ts)) = Len(ts) - PerRtp
              /\ \A i \in 1 .. Len(ts) - PerRtp : LeftOver(ts)[i] = ts[PerRtp + i]
         /\ Len(ts) = 2 * PerRtp =>
              /\ Len(Datagrams(ts)) = 2 /\ Len(Datagrams(ts)[2]) = PerRtp
              /\ \A i \in 1 .. PerRtp : Datagrams(ts)[2][i] = ts[PerRtp + i]
              /\ LeftOver(ts) = << >>
  <1> DEFINE n == Len(ts)
             q == n \div PerRtp
             e(k) == SubSeq(ts, (k - 1) * PerRtp + 1, k * PerRtp)
  <1>0. n \in Nat /\ PerRtp \in Nat \ {0}
    BY StreamAssumption, LenProperties
  <1>1. n \in Nat /\ PerRtp \in Nat \ {0} /\ \A i \in 1 .. n : ts[i] \in S
    BY <1>0, ElementOfSeq
  <1>2. q \in Int /\ n = (PerRtp * q) + (n % PerRtp) /\ n % PerRtp \in 0 .. PerRtp - 1
    <2>1. n % PerRtp \in 0 .. PerRtp - 1
      BY <1>0, Remainder
    <2>2. PerRtp \in Int /\ PerRtp > 0 /\ n \in Int
      BY <1>0
    <2>3. q \in Int /\ n = (PerRtp * q) + (n % PerRtp)
      <3> HIDE DEF n
      <3> QED BY <2>2
    <2> QED BY <2>1, <2>3
  <1>3. /\ n < 2 * PerRtp => q = 1
        /\ n = 2 * PerRtp => q = 2
    <2> HIDE DEF q, n
    <2>1. q <= 0 => PerRtp * q <= 0
      BY <1>1, <1>2
    <2>2. q >= 2 => PerRtp * q >= 2 * PerRtp
      BY <1>1, <1>2
    <2>3. q >= 3 => PerRtp * q >= 3 * PerRtp
      BY <1>1, <1>2
    <2>4. q = 1 => PerRtp * q = PerRtp
      BY <1>1
    <2>5. PerRtp * q \in Int
      BY <1>1, <1>2
    <2>6. q >= 1
      BY <1>1, <1>2, <2>1, <2>5 DEF n
    <2>7. n < 2 * PerRtp => ~ (q >= 2)
      BY <1>1, <1>2, <2>2, <2>5 DEF n
    <2>8. n = 2 * PerRtp => ~ (q >= 3) /\ q # 1
      BY <1>1, <1>2, <2>3, <2>4, <2>5 DEF n
    <2> QED BY <1>2, <2>6, <2>7, <2>8
  <1>4. Datagrams(ts) = [k \in 1 .. q |-> e(k)] /\ LeftOver(ts) = SubSeq(ts, q * PerRtp + 1, n)
    BY DEF Datagrams, LeftOver
  <1>5. Datagrams(ts) \in Seq(Seq(S)) /\ LeftOver(ts) \in Seq(S)
    BY Packing
  <1>6. e(1) = SubSeq(ts, 1, PerRtp)
    BY <1>1
  <1>7. e(2) = SubSeq(ts, PerRtp + 1, 2 * PerRtp)
    BY <1>1
  <1>8. Len(e(1)) = PerRtp /\ \A i \in 1 .. PerRtp : e(1)[i] = ts[i]
    <2> HIDE DEF e, q
    <2>1. 1 \in Int /\ PerRtp \in Int /\ \A i \in 1 .. PerRtp : ts[i] \in S
      BY <1>1
    <2>2. /\ Len(SubSeq(ts, 1, PerRtp)) = IF 1 <= PerRtp THEN PerRtp - 1 + 1 ELSE 0
          /\ \A i \in 1 .. PerRtp - 1 + 1 : SubSeq(ts, 1, PerRtp)[i] = ts[1 + i - 1]
      BY <2>1, SubSeqProperties
    <2>3. PerRtp - 1 + 1 = PerRtp /\ 1 <= PerRtp /\ \A i \in 1 .. PerRtp : 1 + i - 1 = i
      BY <1>1
    <2> QED BY <1>6, <2>2, <2>3
  <1>9. ASSUME NEW b \in Nat, PerRtp <= b, b <= n
        PROVE  LET t == SubSeq(ts, PerRtp + 1, b)
               IN Len(t) = b - PerRtp /\ \A i \in 1 .. b - PerRtp : t[i] = ts[PerRtp + i]
    <2> DEFINE a == PerRtp + 1
    <2>1. a \in Int /\ b \in Int /\ \A i \in a .. b : ts[i] \in S
      BY <1>1, <1>9
    <2>2. b - a + 1 = b - PerRtp /\ (a <= b \/ b - PerRtp = 0)
          /\ \A i \in 1 .. b - PerRtp : a + i - 1 = PerRtp + i
      BY <1>1, <1>9
    <2> HIDE DEF a
    <2>3. /\ Len(SubSeq(ts, a, b)) = IF a <= b THEN b - a + 1 ELSE 0
          /\ \A i \in 1 .. b - a + 1 : SubSeq(ts, a, b)[i] = ts[a + i - 1]
      BY <2>1, SubSeqProperties
    <2>4. Len(SubSeq(ts, a, b)) = b - PerRtp
      BY <2>2, <2>3
    <2>5. \A i \in 1 .. b - PerRtp : SubSeq(ts, a, b)[i] = ts[PerRtp + i]
      BY <2>2, <2>3
    <2> QED BY <2>4, <2>5 DEF a
  <1>10. ASSUME n < 2 * PerRtp
         PROVE  /\ Len(Datagrams(ts)) = 1 /\ Datagrams(ts)[1] = e(1)
                /\ LeftOver(ts) = SubSeq(ts, PerRtp + 1, n)
    <2>1. q = 1
      BY <1>3, <1>10
    <2>2. q * PerRtp + 1 = PerRtp + 1
      BY <1>0, <2>1
    <2> HIDE DEF e, q, n
    <2>3. Datagrams(ts) = [k \in 1 .. 1 |-> e(k)]
      BY <1>4, <2>1
    <2>4. Len(Datagrams(ts)) = 1 /\ Datagrams(ts)[1] = e(1)
      BY <2>3
    <2>5. LeftOver(ts) = SubSeq(ts, PerRtp + 1, n)
      BY <1>4, <2>2, Zenon
    <2> QED BY <2>4, <2>5
  <1>11. ASSUME n = 2 * PerRtp
         PROVE  /\ Len(Datagrams(ts)) = 2 /\ Datagrams(ts)[1] = e(1) /\ Datagrams(ts)[2] = e(2)
                /\ LeftOver(ts) = << >>
    <2>1. q = 2
      BY <1>3, <1>11
    <2>2. n < 2 * PerRtp + 1 /\ n \in Int /\ 2 * PerRtp + 1 \in Int
      BY <1>1, <1>11
    <2> HIDE DEF e, q, n
    <2>3. LeftOver(ts) = SubSeq(ts, 2 * PerRtp + 1, n)
      BY <1>4, <2>1
    <2> QED BY <1>4, <2>1, <2>2, <2>3, SubSeqEmpty
  <1>12. n < 2 * PerRtp \/ n = 2 * PerRtp
    BY <1>1
  <1>13. Datagrams(ts)[1] = e(1)
    BY <1>10, <1>11, <1>12
  <1>14. ASSUME n < 2 * PerRtp
         PROVE  /\ Len(LeftOver(ts)) = n - PerRtp
                /\ \A i \in 1 .. n - PerRtp : LeftOver(ts)[i] = ts[PerRtp + i]
    <2>1. PerRtp <= n /\ n <= n
      BY <1>1
    <2> HIDE DEF n, e, q
    <2> QED BY <1>1, <1>9, <1>10, <1>14, <2>1
  <1>15. ASSUME n = 2 * PerRtp
         PROVE  /\ Len(Datagrams(ts)[2]) = PerRtp
                /\ \A i \in 1 .. PerRtp : Datagrams(ts)[2][i] = ts[PerRtp + i]
    <2> DEFINE b == 2 * PerRtp
    <2>1. b \in Nat /\ PerRtp <= b /\ b <= n /\ b - PerRtp = PerRtp
      BY <1>1, <1>15
    <2>2. Datagrams(ts)[2] = SubSeq(ts, PerRtp + 1, b)
      BY <1>7, <1>11, <1>15
    <2> HIDE DEF n, e, q, b
    <2>3. /\ Len(SubSeq(ts, PerRtp + 1, b)) = b - PerRtp
          /\ \A i \in 1 .. b - PerRtp : SubSeq(ts, PerRtp + 1, b)[i] = ts[PerRtp + i]
      BY <1>9, <2>1
    <2> QED BY <2>1, <2>2, <2>3
  <1> HIDE DEF e, q
  <1> QED BY <1>5, <1>8, <1>10, <1>11, <1>13, <1>14, <1>15

\* What cb_recv adds to the packets that wait.
MarkerOf(s, kinds) == [kind |-> "marker", seq |-> markerSeq, nonNull |-> NonNullWith(kinds),
                       nulls |-> NullWith(kinds), start |-> StartOf(s)]
Ends == rtpInBlock + 1 >= PerMarker
Line(s, kinds) == udpBuffer \o Packets(s, kinds) \o (IF Ends THEN <<MarkerOf(s, kinds)>> ELSE << >>)

LEMMA InsertIs ==
  ASSUME NEW s, NEW kinds, Insert(s, kinds)
  PROVE  /\ udpBuffer' = LeftOver(Line(s, kinds)) /\ wire' = wire \o Datagrams(Line(s, kinds))
         /\ Ends => markerSeq' = (markerSeq + 1) % MarkerMod /\ rtpInBlock' = 0
         /\ ~Ends => markerSeq' = markerSeq /\ rtpInBlock' = rtpInBlock + 1
  BY DEF Insert, Line, MarkerOf, Ends

\* The packets of the line, place by place.
LEMMA LineIs ==
  ASSUME InserterTypeOK, NEW s \in 0 .. RtpMod - 1, NEW kinds \in [1 .. PerRtp -> Kinds]
  PROVE  LET ts == Line(s, kinds)
             n == Len(udpBuffer)
         IN  /\ n \in 0 .. PerRtp - 1
             /\ ts \in Seq(Ts \cup Marker) /\ MarkerOf(s, kinds) \in Marker
             /\ Len(ts) = n + PerRtp + (IF Ends THEN 1 ELSE 0)
             /\ \A i \in 1 .. n : ts[i] = udpBuffer[i]
             /\ \A i \in n + 1 .. n + PerRtp : ts[i] = Packets(s, kinds)[i - n]
             /\ Ends => ts[n + PerRtp + 1] = MarkerOf(s, kinds)
  <1> DEFINE S == Ts \cup Marker
             n == Len(udpBuffer)
             pk == Packets(s, kinds)
             m == MarkerOf(s, kinds)
             last == IF Ends THEN <<m>> ELSE << >>
  <1>1. udpBuffer \in Seq(S) /\ n \in 0 .. PerRtp - 1 /\ PerRtp \in Nat \ {0}
    <2>1. udpBuffer \in Seq(S) /\ Len(udpBuffer) < PerRtp
      BY DEF InserterTypeOK
    <2>2. Len(udpBuffer) \in Nat
      BY <2>1, LenProperties
    <2> QED BY <2>1, <2>2, StreamAssumption
  <1>2. pk \in Seq(S) /\ Len(pk) = PerRtp
    <2>1. pk \in Seq(S)
      BY PayloadType, SeqMonotonic
    <2>2. Len(pk) = PerRtp
      BY <1>1 DEF Packets
    <2> QED BY <2>1, <2>2
  <1>3. m \in Marker
    <2>1. StartOf(s) \in 0 .. RtpMod - 1
      BY DEF StartOf, InserterTypeOK
    <2>2. NonNullWith(kinds) \in 0 .. CountMod - 1 /\ NullWith(kinds) \in 0 .. CountMod - 1
      BY WithType
    <2> QED BY <2>1, <2>2 DEF InserterTypeOK, Marker, MarkerOf
  <1>4. last \in Seq(S) /\ Len(last) = (IF Ends THEN 1 ELSE 0) /\ (Ends => last[1] = m)
    <2>1. m \in S
      BY <1>3
    <2> HIDE DEF m, S
    <2> QED BY <2>1
  <1>5. Line(s, kinds) = (udpBuffer \o pk) \o last
    BY DEF Line
  <1> HIDE DEF S, n, pk, m, last
  <1>6. /\ udpBuffer \o pk \in Seq(S) /\ Len(udpBuffer \o pk) = n + PerRtp
        /\ \A i \in 1 .. n + PerRtp :
              (udpBuffer \o pk)[i] = IF i <= n THEN udpBuffer[i] ELSE pk[i - n]
    BY <1>1, <1>2, ConcatProperties DEF n
  <1> DEFINE u == udpBuffer \o pk
             t == u \o last
  <1>7. /\ t \in Seq(S) /\ Len(t) = Len(u) + Len(last)
        /\ \A i \in 1 .. Len(u) + Len(last) : t[i] = IF i <= Len(u) THEN u[i] ELSE last[i - Len(u)]
    <2>1. u \in Seq(S)
      BY <1>6
    <2> HIDE DEF u
    <2> QED BY <1>4, <2>1, ConcatProperties
  <1> HIDE DEF u, t
  <1>8. Len(u) = n + PerRtp /\ \A i \in 1 .. n + PerRtp : u[i] = IF i <= n THEN udpBuffer[i] ELSE pk[i - n]
    BY <1>6 DEF u
  <1>9. \A i \in 1 .. n : t[i] = udpBuffer[i]
    <2> TAKE i \in 1 .. n
    <2>1. i \in 1 .. n + PerRtp /\ i \in 1 .. Len(u) + Len(last) /\ i <= n /\ i <= Len(u)
      BY <1>1, <1>4, <1>8
    <2> QED BY <1>7, <1>8, <2>1
  <1>10. \A i \in n + 1 .. n + PerRtp : t[i] = pk[i - n]
    <2> TAKE i \in n + 1 .. n + PerRtp
    <2>1. i \in 1 .. n + PerRtp /\ i \in 1 .. Len(u) + Len(last) /\ ~ (i <= n) /\ i <= Len(u)
      BY <1>1, <1>4, <1>8
    <2> QED BY <1>7, <1>8, <2>1
  <1>11. Ends => t[n + PerRtp + 1] = m
    <2> SUFFICES ASSUME Ends PROVE t[n + PerRtp + 1] = m
      OBVIOUS
    <2> DEFINE i == n + PerRtp + 1
    <2>1. i \in 1 .. Len(u) + Len(last) /\ ~ (i <= Len(u)) /\ i - Len(u) = 1
      BY <1>1, <1>4, <1>8
    <2> HIDE DEF i
    <2>2. t[i] = m
      BY <1>4, <1>7, <2>1
    <2> QED BY <2>2 DEF i
  <1>12. Len(t) = n + PerRtp + (IF Ends THEN 1 ELSE 0)
    BY <1>4, <1>7, <1>8
  <1>13. Line(s, kinds) = t
    BY <1>5 DEF t, u
  <1> QED BY <1>1, <1>3, <1>7, <1>9, <1>10, <1>11, <1>12, <1>13 DEF S, n, pk, m

\* The markers of a datagram; there is at most one, since a block is longer than a
\* datagram, and in the buffer it is the last packet of a finished block.
MarkersIn(d) == {q \in 0 .. MarkerMod - 1 : \E i \in 1 .. Len(d) : IsMarker(d[i]) /\ d[i].seq = q}
OneMarker(d) == \A i, j \in 1 .. Len(d) : IsMarker(d[i]) /\ IsMarker(d[j]) => i = j
BufferLast == \A i \in 1 .. Len(udpBuffer) :
                IsMarker(udpBuffer[i]) => i = Len(udpBuffer) /\ rtpInBlock = 0

\* The markers of a datagram that has one.
LEMMA MarkerAlone ==
  ASSUME NEW d, NEW i \in 1 .. Len(d), IsMarker(d[i]), d[i].seq \in 0 .. MarkerMod - 1,
         \A j \in 1 .. Len(d) : IsMarker(d[j]) => j = i
  PROVE  MarkersIn(d) = {d[i].seq}
  BY DEF MarkersIn

\* Where the markers of the line are.
LEMMA LineMarkers ==
  ASSUME InserterTypeOK, NEW s \in 0 .. RtpMod - 1, NEW kinds \in [1 .. PerRtp -> Kinds]
  PROVE  LET ts == Line(s, kinds)
             n == Len(udpBuffer)
         IN  /\ \A i \in 1 .. n : ts[i] = udpBuffer[i]
             /\ \A i \in n + 1 .. n + PerRtp : ~ IsMarker(ts[i])
             /\ Ends => IsMarker(ts[n + PerRtp + 1]) /\ ts[n + PerRtp + 1].seq = markerSeq
  <1>1. \A i \in 1 .. PerRtp : ~ IsMarker(Packets(s, kinds)[i])
    <2>1. PerRtp \in Nat /\ Len(kinds) = PerRtp
      BY StreamAssumption
    <2>2. \A i \in 1 .. PerRtp : Packets(s, kinds)[i].kind \in {"data", "null"}
      BY <2>1 DEF Packets, Kinds
    <2> QED BY <2>2 DEF IsMarker
  <1>2. \A i \in Len(udpBuffer) + 1 .. Len(udpBuffer) + PerRtp :
          i - Len(udpBuffer) \in 1 .. PerRtp /\ ~ IsMarker(Line(s, kinds)[i])
    <2>1. Len(udpBuffer) \in Nat /\ PerRtp \in Nat
      BY LineIs, StreamAssumption
    <2> TAKE i \in Len(udpBuffer) + 1 .. Len(udpBuffer) + PerRtp
    <2>2. i - Len(udpBuffer) \in 1 .. PerRtp
      BY <2>1
    <2>3. Line(s, kinds)[i] = Packets(s, kinds)[i - Len(udpBuffer)]
      BY LineIs
    <2> QED BY <1>1, <2>2, <2>3
  <1>3. IsMarker(MarkerOf(s, kinds)) /\ MarkerOf(s, kinds).seq = markerSeq
    BY DEF IsMarker, MarkerOf
  <1> QED BY <1>2, <1>3, LineIs

\* The datagram that becomes full takes what waited; a marker that is put in comes
\* one unit later, in a second datagram or in the buffer.
LEMMA InsertUnits ==
  ASSUME InserterTypeOK, BufferLast, NEW s \in 0 .. RtpMod - 1,
         NEW kinds \in [1 .. PerRtp -> Kinds], Insert(s, kinds)
  PROVE  LET n == Len(wire)
         IN  /\ Len(wire') \in {n + 1, n + 2} /\ \A k \in 1 .. n : wire'[k] = wire[k]
             /\ MarkersIn(wire'[n + 1]) = MarkersIn(udpBuffer) /\ OneMarker(wire'[n + 1])
             /\ ~Ends => Len(wire') = n + 1 /\ MarkersIn(udpBuffer') = {}
             /\ Ends /\ Len(wire') = n + 1 => MarkersIn(udpBuffer') = {markerSeq}
             /\ Ends /\ Len(wire') = n + 2 =>
                  /\ MarkersIn(wire'[n + 2]) = {markerSeq} /\ OneMarker(wire'[n + 2])
                  /\ MarkersIn(udpBuffer') = {}
             /\ BufferLast'
  <1> DEFINE S == Ts \cup Marker
             ts == Line(s, kinds)
             b == Len(udpBuffer)
             ds == Datagrams(ts)
             n == Len(wire)
  <1>1. /\ b \in 0 .. PerRtp - 1 /\ PerRtp \in Nat \ {0} /\ ts \in Seq(S)
        /\ Len(ts) = b + PerRtp + (IF Ends THEN 1 ELSE 0)
        /\ n \in Nat /\ wire \in Seq(Seq(S)) /\ markerSeq \in 0 .. MarkerMod - 1
    <2>1. wire \in Seq(Seq(S)) /\ n \in Nat
      <3>1. wire \in Seq(Seq(S))
        BY DEF InserterTypeOK
      <3> HIDE DEF S
      <3> QED BY <3>1, LenProperties
    <2> QED BY <2>1, LineIs, StreamAssumption DEF InserterTypeOK
  <1>2. /\ \A i \in 1 .. b : ts[i] = udpBuffer[i]
        /\ \A i \in b + 1 .. b + PerRtp : ~ IsMarker(ts[i])
        /\ Ends => IsMarker(ts[b + PerRtp + 1]) /\ ts[b + PerRtp + 1].seq = markerSeq
    BY LineMarkers
  <1>3. PerRtp <= Len(ts) /\ Len(ts) <= 2 * PerRtp
    BY <1>1
  <1>4. /\ udpBuffer' = LeftOver(ts) /\ wire' = wire \o ds /\ (Ends => rtpInBlock' = 0)
    BY InsertIs
  <1>5. /\ ds \in Seq(Seq(S)) /\ LeftOver(ts) \in Seq(S)
        /\ Len(ds[1]) = PerRtp
        /\ \A i \in 1 .. PerRtp : ds[1][i] = ts[i]
        /\ Len(ts) < 2 * PerRtp =>
             /\ Len(ds) = 1
             /\ Len(LeftOver(ts)) = Len(ts) - PerRtp
             /\ \A i \in 1 .. Len(ts) - PerRtp : LeftOver(ts)[i] = ts[PerRtp + i]
        /\ Len(ts) = 2 * PerRtp =>
             /\ Len(ds) = 2 /\ Len(ds[2]) = PerRtp
             /\ \A i \in 1 .. PerRtp : ds[2][i] = ts[PerRtp + i]
             /\ LeftOver(ts) = << >>
    <2> HIDE DEF S, ts
    <2> QED BY <1>1, <1>3, Packed
  <1> HIDE DEF S, ts, b, ds, n
  <1>6. /\ Len(wire') = n + Len(ds)
        /\ \A k \in 1 .. n : wire'[k] = wire[k]
        /\ \A k \in 1 .. Len(ds) : wire'[n + k] = ds[k]
    <2>1. /\ Len(wire \o ds) = n + Len(ds)
          /\ \A i \in 1 .. n + Len(ds) : (wire \o ds)[i] = IF i <= n THEN wire[i] ELSE ds[i - n]
      BY <1>1, <1>5, ConcatProperties DEF n
    <2>2. Len(ds) \in Nat
      BY <1>5, LenProperties
    <2>3. ASSUME NEW k \in 1 .. n PROVE wire'[k] = wire[k]
      <3>1. k \in 1 .. n + Len(ds) /\ k <= n
        BY <1>1, <2>2
      <3> QED BY <1>4, <2>1, <3>1
    <2>4. ASSUME NEW k \in 1 .. Len(ds) PROVE wire'[n + k] = ds[k]
      <3>1. n + k \in 1 .. n + Len(ds) /\ ~ (n + k <= n) /\ (n + k) - n = k
        BY <1>1, <2>2
      <3> DEFINE i == n + k
      <3> HIDE DEF i
      <3>2. (wire \o ds)[i] = ds[i - n]
        BY <2>1, <3>1 DEF i
      <3> QED BY <1>4, <3>1, <3>2 DEF i
    <2> QED BY <1>4, <2>1, <2>3, <2>4
  <1>7. \A i \in 1 .. b : IsMarker(udpBuffer[i]) => i = b
    BY DEF BufferLast, b
  <1>8. MarkersIn(ds[1]) = MarkersIn(udpBuffer) /\ OneMarker(ds[1])
    <2>1. \A i \in 1 .. PerRtp : /\ i \in 1 .. b => ds[1][i] = udpBuffer[i]
                                 /\ i \notin 1 .. b => ~ IsMarker(ds[1][i])
      <3> TAKE i \in 1 .. PerRtp
      <3>1. i \notin 1 .. b => i \in b + 1 .. b + PerRtp
        BY <1>1
      <3> QED BY <1>2, <1>5, <3>1
    <2>2. 1 .. b \subseteq 1 .. PerRtp
      BY <1>1
    <2>3. MarkersIn(ds[1]) = MarkersIn(udpBuffer)
      <3>1. MarkersIn(ds[1]) \subseteq MarkersIn(udpBuffer)
        BY <1>5, <2>1 DEF MarkersIn, b
      <3>2. MarkersIn(udpBuffer) \subseteq MarkersIn(ds[1])
        BY <1>5, <2>1, <2>2 DEF MarkersIn, b
      <3> QED BY <3>1, <3>2
    <2> QED BY <1>5, <1>7, <2>1, <2>3 DEF OneMarker
  <1>9. \A i \in 1 .. Len(ts) - PerRtp :
          /\ IsMarker(ts[PerRtp + i]) <=> Ends /\ i = b + 1
          /\ IsMarker(ts[PerRtp + i]) => ts[PerRtp + i].seq = markerSeq
    <2> TAKE i \in 1 .. Len(ts) - PerRtp
    <2>1. CASE Ends /\ i = b + 1
      <3>1. PerRtp + i = b + PerRtp + 1
        BY <1>1, <2>1
      <3> QED BY <1>2, <2>1, <3>1
    <2>2. CASE ~ (Ends /\ i = b + 1)
      <3>1. PerRtp + i \in b + 1 .. b + PerRtp
        BY <1>1, <2>2
      <3> QED BY <1>2, <2>2, <3>1
    <2> QED BY <2>1, <2>2
  <1>10. Ends => b + 1 \in 1 .. Len(ts) - PerRtp /\ b + 1 = Len(ts) - PerRtp
    BY <1>1
  <1>11. ~Ends => Len(ts) < 2 * PerRtp
    BY <1>1
  <1>12. CASE Len(ts) < 2 * PerRtp
    <2>1. /\ Len(udpBuffer') = Len(ts) - PerRtp
          /\ \A i \in 1 .. Len(ts) - PerRtp : udpBuffer'[i] = ts[PerRtp + i]
      BY <1>4, <1>5, <1>12
    <2>2. ~Ends => MarkersIn(udpBuffer') = {}
      BY <1>9, <2>1 DEF MarkersIn
    <2>3. Ends => MarkersIn(udpBuffer') = {markerSeq}
      <3> SUFFICES ASSUME Ends PROVE MarkersIn(udpBuffer') = {markerSeq}
        OBVIOUS
      <3> DEFINE i == b + 1
                 l == Len(ts) - PerRtp
      <3>1. i \in 1 .. l /\ IsMarker(udpBuffer'[i]) /\ udpBuffer'[i].seq = markerSeq
            /\ \A j \in 1 .. l : IsMarker(udpBuffer'[j]) => j = i
        BY <1>9, <1>10, <2>1
      <3> HIDE DEF i, l
      <3>2. Len(udpBuffer') = l
        BY <2>1 DEF l
      <3> QED BY <1>1, <3>1, <3>2, MarkerAlone
    <2>4. BufferLast'
      BY <1>4, <1>9, <1>10, <2>1 DEF BufferLast
    <2>5. Len(wire') = n + 1 /\ wire'[n + 1] = ds[1]
      <3>1. Len(ds) = 1 /\ 1 \in 1 .. 1
        BY <1>5, <1>12
      <3> QED BY <1>6, <3>1
    <2> QED BY <1>1, <1>6, <1>8, <2>2, <2>3, <2>4, <2>5 DEF n
  <1>13. CASE Len(ts) = 2 * PerRtp
    <2>1. udpBuffer' = << >>
      BY <1>4, <1>5, <1>13
    <2>2. MarkersIn(udpBuffer') = {} /\ BufferLast'
      BY <2>1 DEF MarkersIn, BufferLast
    <2>3. Ends
      BY <1>1, <1>11, <1>13
    <2>4. Len(ts) - PerRtp = PerRtp
      BY <1>1, <1>13
    <2>5. MarkersIn(ds[2]) = {markerSeq}
      <3> DEFINE i == b + 1
                 d == ds[2]
      <3>1. i \in 1 .. PerRtp /\ IsMarker(d[i]) /\ d[i].seq = markerSeq /\ Len(d) = PerRtp
            /\ \A j \in 1 .. PerRtp : IsMarker(d[j]) => j = i
        <4>1. i \in 1 .. PerRtp
          BY <1>10, <2>3, <2>4
        <4>2. \A j \in 1 .. PerRtp : d[j] = ts[PerRtp + j]
          BY <1>5, <1>13
        <4>3. \A j \in 1 .. PerRtp :
                /\ IsMarker(ts[PerRtp + j]) <=> j = i
                /\ IsMarker(ts[PerRtp + j]) => ts[PerRtp + j].seq = markerSeq
          BY <1>9, <2>3, <2>4
        <4>4. Len(d) = PerRtp
          BY <1>5, <1>13
        <4> HIDE DEF i, d
        <4> QED BY <4>1, <4>2, <4>3, <4>4
      <3> HIDE DEF i, d
      <3>2. i \in 1 .. Len(d) /\ d[i].seq \in 0 .. MarkerMod - 1
            /\ \A j \in 1 .. Len(d) : IsMarker(d[j]) => j = i
        BY <1>1, <3>1
      <3>3. MarkersIn(d) = {d[i].seq}
        BY <3>1, <3>2, MarkerAlone
      <3> QED BY <3>1, <3>3 DEF d
    <2>6. OneMarker(ds[2])
      BY <1>5, <1>9, <1>13, <2>4 DEF OneMarker
    <2>7. Len(wire') = n + 2 /\ wire'[n + 1] = ds[1] /\ wire'[n + 2] = ds[2]
      <3>1. Len(ds) = 2 /\ 1 \in 1 .. 2 /\ 2 \in 1 .. 2
        BY <1>5, <1>13
      <3> QED BY <1>6, <3>1
    <2> QED BY <1>1, <1>6, <1>8, <2>2, <2>3, <2>5, <2>6, <2>7 DEF n
  <1>14. Len(ts) < 2 * PerRtp \/ Len(ts) = 2 * PerRtp
    BY <1>1, <1>3
  <1> QED BY <1>12, <1>13, <1>14

\* The markers between the inserter and the sender, nearest first: those of the
\* datagram in hand, of the wire and of the buffer, and the one that is to be made.
Flight ==
  [k \in Nat |-> IF k = 0 THEN MarkersIn(input)
                 ELSE IF k <= Len(wire) THEN MarkersIn(wire[k])
                 ELSE IF k = Len(wire) + 1 THEN MarkersIn(udpBuffer)
                 ELSE IF k = Len(wire) + 2 THEN {markerSeq} ELSE {}]

\* The marker the sender would get next if none were lost any more.
Awaited == (lastMarkerSeq + 1 + (lossRun - losses)) % MarkerMod

\* The markers on their way are numbered one after the other, and the next one that
\* comes tells how many were lost.
FlightInv ==
  /\ OneMarker(input) /\ (\A k \in 1 .. Len(wire) : OneMarker(wire[k])) /\ BufferLast
  /\ Consecutive(Flight)
  /\ firstMarkerSeen => Begins(Flight, Awaited)
  /\ circuitState = "normal" /\ ~firstMarkerSeen => losses = 0

\* The stream from the sender's end to the inserter's.
LEMMA FlightAt ==
  ASSUME InserterTypeOK
  PROVE  /\ Len(wire) \in Nat /\ Flight[0] = MarkersIn(input)
         /\ \A k \in 1 .. Len(wire) : Flight[k] = MarkersIn(wire[k])
         /\ Flight[Len(wire) + 1] = MarkersIn(udpBuffer)
         /\ Flight[Len(wire) + 2] = {markerSeq}
         /\ \A k \in Nat : k > Len(wire) + 2 => Flight[k] = {}
  <1>1. Len(wire) \in Nat
    <2>1. wire \in Seq(Seq(Ts \cup Marker))
      BY DEF InserterTypeOK
    <2> QED BY <2>1, LenProperties
  <1> QED BY <1>1 DEF Flight

\* The numbers of markers and the losses are numbers.
LEMMA AwaitedType ==
  ASSUME ChainInv PROVE lastMarkerSeq \in Int /\ losses \in Int /\ lossRun \in Int /\ Awaited \in Int
  <1>1. lastMarkerSeq \in Int /\ losses \in Int /\ lossRun \in Int
    BY StreamAssumption DEF ChainInv, ChainTypeOK, SenderTypeOK
  <1> DEFINE x == lastMarkerSeq + 1 + (lossRun - losses)
  <1>2. x \in Int
    BY <1>1
  <1>3. x % MarkerMod \in 0 .. MarkerMod - 1
    <2> HIDE DEF x
    <2> QED BY <1>2, Remainder, StreamAssumption
  <1> QED BY <1>1, <1>3 DEF Awaited

\* The inserter hands on its packets and puts a marker in.
LEMMA ProduceFlight ==
  ASSUME ChainInv, FlightInv, Produce
  PROVE  FlightInv'
  <1> DEFINE n == Len(wire)
             F == Flight
             G == Flight'
  <1>1. PICK kinds \in Payloads : Insert(nextRtp, kinds)
    BY DEF Produce
  <1>2. /\ InserterTypeOK /\ BufferLast /\ nextRtp \in 0 .. RtpMod - 1
        /\ kinds \in [1 .. PerRtp -> Kinds]
    BY ChainAssumption DEF ChainInv, ChainTypeOK, FlightInv
  <1>3. UNCHANGED <<input, firstMarkerSeen, lastMarkerSeq, losses, circuitState, lossRun>>
    BY DEF Produce, senderVars, syncVars, breakerVars
  <1>4. /\ Len(wire') \in {n + 1, n + 2} /\ \A k \in 1 .. n : wire'[k] = wire[k]
        /\ MarkersIn(wire'[n + 1]) = MarkersIn(udpBuffer) /\ OneMarker(wire'[n + 1])
        /\ ~Ends => Len(wire') = n + 1 /\ MarkersIn(udpBuffer') = {}
        /\ Ends /\ Len(wire') = n + 1 => MarkersIn(udpBuffer') = {markerSeq}
        /\ Ends /\ Len(wire') = n + 2 =>
             /\ MarkersIn(wire'[n + 2]) = {markerSeq} /\ OneMarker(wire'[n + 2])
             /\ MarkersIn(udpBuffer') = {}
        /\ BufferLast'
    BY <1>1, <1>2, InsertUnits
  <1>5. /\ Ends => markerSeq' = (markerSeq + 1) % MarkerMod
        /\ ~Ends => markerSeq' = markerSeq
    BY <1>1, InsertIs
  <1>6. InserterTypeOK'
    BY <1>1, <1>2, InsertType
  <1>7. /\ n \in Nat /\ F[0] = MarkersIn(input)
        /\ \A k \in 1 .. n : F[k] = MarkersIn(wire[k])
        /\ F[n + 1] = MarkersIn(udpBuffer) /\ F[n + 2] = {markerSeq}
        /\ \A k \in Nat : k > n + 2 => F[k] = {}
    BY <1>2, FlightAt
  <1>8. /\ G[0] = MarkersIn(input')
        /\ \A k \in 1 .. Len(wire') : G[k] = MarkersIn(wire'[k])
        /\ G[Len(wire') + 1] = MarkersIn(udpBuffer') /\ G[Len(wire') + 2] = {markerSeq'}
        /\ \A k \in Nat : k > Len(wire') + 2 => G[k] = {}
    <2>1. (Len(wire) \in Nat)' /\ (Flight[0] = MarkersIn(input))'
      BY <1>6, FlightAt, PTL
    <2>2. /\ (\A k \in 1 .. Len(wire) : Flight[k] = MarkersIn(wire[k]))'
          /\ (Flight[Len(wire) + 1] = MarkersIn(udpBuffer))'
          /\ (Flight[Len(wire) + 2] = {markerSeq})'
          /\ (\A k \in Nat : k > Len(wire) + 2 => Flight[k] = {})'
      BY <1>6, FlightAt, PTL
    <2> QED BY <2>1, <2>2
  <1> HIDE DEF n, F, G
  <1>9. \A k \in 0 .. n + 1 : G[k] = F[k]
    <2>1. G[0] = F[0]
      BY <1>3, <1>7, <1>8
    <2>2. \A k \in 1 .. n : G[k] = F[k]
      BY <1>4, <1>7, <1>8
    <2>3. G[n + 1] = F[n + 1]
      BY <1>4, <1>7, <1>8
    <2> QED BY <1>7, <2>1, <2>2, <2>3
  <1> DEFINE e == n + 2
             d == Len(wire') + 2
  <1>10. e \in Nat /\ d \in Nat /\ e < d /\ F[e] = {markerSeq} /\ (\A k \in Nat : k > e => F[k] = {})
    BY <1>4, <1>7
  <1>11. /\ Consecutive(F)
         /\ firstMarkerSeen => Begins(F, Awaited)
    BY DEF FlightInv, F
  <1> DEFINE w == Awaited
             m == markerSeq
  <1>12. Consecutive(G) /\ (Begins(F, w) => Begins(G, w))
    <2>1. CASE Ends
      <3>1. G[d] = {(m + 1) % MarkerMod} /\ F[e] = {m}
        BY <1>5, <1>8, <1>10, <2>1
      <3>2. G[e] = {markerSeq}
        BY <1>4, <1>7, <1>8, <2>1
      <3>3. \A k \in Nat : k > e /\ k # d => G[k] = {}
        <4> TAKE k \in Nat
        <4>1. CASE k > Len(wire') + 2
          BY <1>8, <4>1
        <4>2. CASE k > e /\ k < d
          <5>1. Len(wire') = n + 2 /\ k = Len(wire') + 1
            BY <1>4, <1>7, <4>2
          <5> QED BY <1>4, <1>8, <2>1, <5>1
        <4> QED BY <1>4, <1>7, <4>1, <4>2
      <3>4. \A k \in Nat : k # d => G[k] = F[k]
        <4> TAKE k \in Nat
        <4> SUFFICES ASSUME k # d PROVE G[k] = F[k]
          OBVIOUS
        <4>1. k \in 0 .. n + 1 \/ k = e \/ k > e
          BY <1>7
        <4>2. k = e => G[k] = F[k]
          BY <1>10, <3>2
        <4>3. k > e => G[k] = F[k]
          BY <1>10, <3>3
        <4>4. k \in 0 .. n + 1 => G[k] = F[k]
          BY <1>9
        <4> QED BY <4>1, <4>2, <4>3, <4>4
      <3>5. e \in Nat /\ d \in Nat /\ e < d /\ (\A k \in Nat : k > e => F[k] = {})
            /\ Consecutive(F)
        BY <1>10, <1>11
      <3> HIDE DEF e, d, w, m
      <3>6. F[e] # {} /\ \A q \in F[e], r \in G[d] : r = (q + 1) % MarkerMod
        BY <3>1
      <3>7. Consecutive(G) /\ (\A v : Begins(F, v) => Begins(G, v))
        BY <3>4, <3>5, <3>6, MarkerAdded
      <3> QED BY <3>7
    <2>2. CASE ~Ends
      <3>1. d = n + 3 /\ Len(wire') = n + 1
        BY <1>4, <1>7, <2>2
      <3>2. G[d] = F[e] /\ G[e] = {}
        <4>1. G[d] = {markerSeq}
          BY <1>5, <1>8, <2>2
        <4>2. e = Len(wire') + 1
          BY <1>7, <3>1
        <4> QED BY <1>4, <1>8, <1>10, <2>2, <4>1, <4>2
      <3>3. \A k \in Nat : k # d /\ k # e => G[k] = F[k]
        <4> TAKE k \in Nat
        <4>1. k \in 0 .. n + 1 \/ k = e \/ k = d \/ k > d
          BY <1>7, <3>1
        <4>2. k > d => k > n + 2 /\ k > Len(wire') + 2
          BY <1>7, <3>1
        <4>3. k > d => G[k] = F[k]
          BY <1>7, <1>8, <4>2
        <4>4. k \in 0 .. n + 1 => G[k] = F[k]
          BY <1>9
        <4> QED BY <4>1, <4>3, <4>4
      <3>4. e < d /\ e \in Nat /\ d \in Nat /\ (\A k \in Nat : k > e => F[k] = {})
        BY <1>10
      <3>5. Consecutive(F) /\ G[d] = F[e] /\ G[e] = {}
        BY <1>11, <3>2
      <3> HIDE DEF e, d, w, m
      <3> QED BY <3>3, <3>4, <3>5, NoneAdded
    <2> QED BY <2>1, <2>2
  <1>13. Awaited' = Awaited
    BY <1>3 DEF Awaited
  <1>14. \A k \in 1 .. Len(wire') : OneMarker(wire'[k])
    <2> TAKE k \in 1 .. Len(wire')
    <2>1. CASE k \in 1 .. n
      BY <1>4, <2>1 DEF FlightInv, n
    <2>2. CASE k = n + 1
      BY <1>4, <2>2
    <2>3. CASE k = n + 2 /\ Len(wire') = n + 2
      BY <1>4, <1>7, <2>3
    <2> QED BY <1>4, <1>7, <2>1, <2>2, <2>3
  <1> QED BY <1>3, <1>4, <1>11, <1>12, <1>13, <1>14 DEF FlightInv, G

\* A datagram with a marker, and a datagram without.
LEMMA MarkerThere ==
  ASSUME NEW d \in Seq(Ts \cup Marker)
  PROVE  /\ HasMarker(d) <=> MarkersIn(d) # {}
         /\ \A i \in 1 .. Len(d) : IsMarker(d[i]) => d[i].seq \in MarkersIn(d)
  <1>1. \A i \in 1 .. Len(d) : IsMarker(d[i]) => d[i].seq \in 0 .. MarkerMod - 1
    <2> TAKE i \in 1 .. Len(d)
    <2>1. d[i] \in Ts \cup Marker
      BY ElementOfSeq
    <2>2. d[i] \in Ts => ~ IsMarker(d[i])
      BY DEF Ts, Kinds, IsMarker
    <2>3. d[i] \in Marker => d[i].seq \in 0 .. MarkerMod - 1
      BY DEF Marker
    <2> QED BY <2>1, <2>2, <2>3
  <1>2. \A i \in 1 .. Len(d) : IsMarker(d[i]) => d[i].seq \in MarkersIn(d)
    BY <1>1 DEF MarkersIn
  <1>3. MarkersIn(d) # {} => HasMarker(d)
    BY DEF MarkersIn, HasMarker
  <1> QED BY <1>2, <1>3 DEF HasMarker

\* The first datagram leaves the wire: what is behind it moves up.
LEMMA WireMoves ==
  ASSUME InserterTypeOK, wire # << >>, wire' = Tail(wire), UNCHANGED inserterVars
  PROVE  /\ Head(wire) = wire[1] /\ Head(wire) \in Seq(Ts \cup Marker)
         /\ Flight[1] = MarkersIn(Head(wire)) /\ 1 \in 1 .. Len(wire)
         /\ \A k \in 1 .. Len(wire') : k + 1 \in 1 .. Len(wire) /\ wire'[k] = wire[k + 1]
         /\ Flight'[0] = MarkersIn(input')
         /\ \A k \in Nat \ {0} : Flight'[k] = Flight[k + 1]
  <1> DEFINE S == Ts \cup Marker
             n == Len(wire)
             F == Flight
             G == Flight'
  <1>1. wire \in Seq(Seq(S))
    BY DEF InserterTypeOK
  <1>2. n \in Nat /\ n >= 1 /\ Head(wire) = wire[1] /\ Head(wire) \in Seq(S)
        /\ Tail(wire) \in Seq(Seq(S)) /\ Len(Tail(wire)) = n - 1
        /\ \A i \in 1 .. n - 1 : Tail(wire)[i] = wire[i + 1]
    <2> HIDE DEF S
    <2>1. n \in Nat /\ n # 0
      BY <1>1, EmptySeq, LenProperties
    <2>2. Head(wire) \in Seq(S) /\ Tail(wire) \in Seq(Seq(S))
      BY <1>1, Carried
    <2>3. Len(Tail(wire)) = n - 1 /\ \A i \in 1 .. n - 1 : Tail(wire)[i] = wire[i + 1]
      BY <1>1, HeadTailProperties
    <2>4. Head(wire) = wire[1]
      BY <1>1
    <2> QED BY <2>1, <2>2, <2>3, <2>4
  <1>3. InserterTypeOK'
    BY <1>2 DEF InserterTypeOK, inserterVars
  <1>4. /\ F[0] = MarkersIn(input)
        /\ \A k \in 1 .. n : F[k] = MarkersIn(wire[k])
        /\ F[n + 1] = MarkersIn(udpBuffer) /\ F[n + 2] = {markerSeq}
        /\ \A k \in Nat : k > n + 2 => F[k] = {}
    BY FlightAt
  <1>5. /\ G[0] = MarkersIn(input')
        /\ \A k \in 1 .. Len(wire') : G[k] = MarkersIn(wire'[k])
        /\ G[Len(wire') + 1] = MarkersIn(udpBuffer') /\ G[Len(wire') + 2] = {markerSeq'}
        /\ \A k \in Nat : k > Len(wire') + 2 => G[k] = {}
    <2>1. (Flight[0] = MarkersIn(input))' /\ (\A k \in 1 .. Len(wire) : Flight[k] = MarkersIn(wire[k]))'
      BY <1>3, FlightAt, PTL
    <2>2. /\ (Flight[Len(wire) + 1] = MarkersIn(udpBuffer))'
          /\ (Flight[Len(wire) + 2] = {markerSeq})'
          /\ (\A k \in Nat : k > Len(wire) + 2 => Flight[k] = {})'
      BY <1>3, FlightAt, PTL
    <2> QED BY <2>1, <2>2
  <1>6. Len(wire') = n - 1 /\ udpBuffer' = udpBuffer /\ markerSeq' = markerSeq
    BY <1>2 DEF inserterVars
  <1>7. \A k \in 1 .. n - 1 : wire'[k] = wire[k + 1] /\ k + 1 \in 1 .. n
    BY <1>2
  <1> HIDE DEF F, G, n
  <1>8. ASSUME NEW k \in Nat \ {0} PROVE G[k] = F[k + 1]
    <2>1. CASE k \in 1 .. n - 1
      BY <1>4, <1>5, <1>6, <1>7, <2>1
    <2>2. CASE k = n
      <3>1. n - 1 + 1 = n
        BY <1>2
      <3> QED BY <1>4, <1>5, <1>6, <2>2, <3>1
    <2>3. CASE k = n + 1
      <3>1. n - 1 + 2 = n + 1 /\ n + 1 + 1 = n + 2
        BY <1>2
      <3> QED BY <1>4, <1>5, <1>6, <2>3, <3>1
    <2>4. CASE k > n + 1
      <3>1. k > n - 1 + 2 /\ k + 1 > n + 2 /\ k + 1 \in Nat
        BY <1>2, <2>4
      <3> QED BY <1>4, <1>5, <1>6, <3>1
    <2> QED BY <1>2, <2>1, <2>2, <2>3, <2>4
  <1>9. 1 \in 1 .. n
    BY <1>2
  <1>10. F[1] = MarkersIn(Head(wire))
    BY <1>2, <1>4, <1>9
  <1> QED BY <1>2, <1>5, <1>6, <1>7, <1>8, <1>9, <1>10 DEF F, G, n

\* A datagram is lost: if it had a marker, the sender will get the one after it.
LEMMA LoseFlight ==
  ASSUME ChainInv, FlightInv, Lose
  PROVE  FlightInv'
  <1> DEFINE F == Flight
             G == Flight'
             w == Awaited
             H == [k \in Nat |-> IF k = 1 THEN {} ELSE F[k]]
             x == lastMarkerSeq + 1 + (lossRun - losses)
  <1>1. InserterTypeOK /\ x \in Int /\ w = x % MarkerMod
    BY AwaitedType DEF ChainInv, ChainTypeOK, Awaited
  <1>2. /\ wire # << >> /\ wire' = Tail(wire) /\ UNCHANGED inserterVars
        /\ UNCHANGED <<input, firstMarkerSeen, lastMarkerSeq, losses, circuitState>>
        /\ lossRun' = IF HasMarker(Head(wire)) THEN lossRun + 1 ELSE lossRun
        /\ input = << >>
    BY DEF Lose, senderVars, syncVars, breakerVars
  <1>3. /\ Head(wire) = wire[1] /\ Head(wire) \in Seq(Ts \cup Marker)
        /\ F[1] = MarkersIn(Head(wire)) /\ 1 \in 1 .. Len(wire)
        /\ \A k \in 1 .. Len(wire') : k + 1 \in 1 .. Len(wire) /\ wire'[k] = wire[k + 1]
        /\ G[0] = MarkersIn(input')
        /\ \A k \in Nat \ {0} : G[k] = F[k + 1]
    BY <1>1, <1>2, WireMoves
  <1>4. F[0] = {} /\ G[0] = {}
    <2>1. MarkersIn(input) = {}
      BY <1>2 DEF MarkersIn
    <2>2. F[0] = MarkersIn(input)
      BY <1>1, FlightAt
    <2> QED BY <1>2, <1>3, <2>1, <2>2
  <1>5. Consecutive(F) /\ (firstMarkerSeen => Begins(F, w))
    BY DEF FlightInv
  <1>6. HasMarker(Head(wire)) <=> F[1] # {}
    BY <1>3, MarkerThere
  <1>7. Awaited' = IF HasMarker(Head(wire)) THEN (w + 1) % MarkerMod ELSE w
    <2>1. CASE HasMarker(Head(wire))
      <3>1. Awaited' = (lastMarkerSeq + 1 + ((lossRun + 1) - losses)) % MarkerMod
        BY <1>2, <2>1 DEF Awaited
      <3>2. lastMarkerSeq + 1 + ((lossRun + 1) - losses) = x + 1
        BY AwaitedType
      <3>3. Awaited' = (x + 1) % MarkerMod
        BY <3>1, <3>2
      <3> HIDE DEF x
      <3>4. ((x % MarkerMod) + 1) % MarkerMod = (x + 1) % MarkerMod
        <4> DEFINE n == 1
                   m == MarkerMod
        <4>1. n \in Int /\ m \in Nat \ {0}
          BY StreamAssumption
        <4> HIDE DEF n, m
        <4>2. ((x % m) + n) % m = (x + n) % m
          BY <1>1, <4>1, NumberAfter
        <4> QED BY <4>2 DEF n, m
      <3> QED BY <1>1, <2>1, <3>3, <3>4
    <2>2. CASE ~ HasMarker(Head(wire))
      BY <1>2, <2>2 DEF Awaited
    <2> QED BY <2>1, <2>2
  <1> HIDE DEF F, G, w, x
  <1>8. /\ \A i \in Nat : i < 1 => F[i] = {}
        /\ H[1] = {} /\ \A k \in Nat : k # 1 => H[k] = F[k]
    BY <1>4
  <1>9. H[0] = {} /\ \A k \in Nat : G[k] = H[k + 1]
    <2>1. G[0] = H[1]
      BY <1>4
    <2>2. \A k \in Nat \ {0} : H[k + 1] = F[k + 1]
      OBVIOUS
    <2>3. H[0] = {} /\ 0 + 1 = 1
      BY <1>4
    <2> HIDE DEF H
    <2> QED BY <1>3, <2>1, <2>2, <2>3
  <1> DEFINE z == IF HasMarker(Head(wire)) THEN (w + 1) % MarkerMod ELSE w
  <1>10. Consecutive(H) /\ (Begins(F, w) => Begins(H, z))
    <2> HIDE DEF H
    <2>1. Consecutive(H)
      BY <1>5, <1>8, FirstGone
    <2>2. CASE HasMarker(Head(wire))
      <3> SUFFICES ASSUME Begins(F, w) PROVE Begins(H, (w + 1) % MarkerMod)
        BY <2>1, <2>2
      <3>1. w \in F[1]
        BY <1>6, <1>8, <2>2 DEF Begins
      <3> QED BY <1>5, <1>8, <3>1, FirstGone
    <2>3. CASE ~ HasMarker(Head(wire))
      <3>1. Begins(F, w) => Begins(H, w)
        BY <1>5, <1>6, <1>8, <2>3, FirstGone
      <3> QED BY <2>1, <2>3, <3>1
    <2> QED BY <2>2, <2>3
  <1>11. Consecutive(G) /\ (Begins(F, w) => Begins(G, z))
    <2> HIDE DEF H, z
    <2> QED BY <1>9, <1>10, MovedUp
  <1>12. Awaited' = z
    BY <1>7
  <1>13. OneMarker(input') /\ (\A k \in 1 .. Len(wire') : OneMarker(wire'[k])) /\ BufferLast'
    BY <1>2, <1>3 DEF FlightInv, BufferLast, inserterVars
  <1> QED BY <1>2, <1>5, <1>11, <1>12, <1>13 DEF FlightInv, G

\* A datagram comes in.
LEMMA DeliverFlight ==
  ASSUME ChainInv, FlightInv, Deliver
  PROVE  FlightInv'
  <1> DEFINE F == Flight
             G == Flight'
             w == Awaited
  <1>1. InserterTypeOK
    BY DEF ChainInv, ChainTypeOK
  <1>2. /\ wire # << >> /\ wire' = Tail(wire) /\ UNCHANGED inserterVars
        /\ UNCHANGED <<firstMarkerSeen, lastMarkerSeq, losses, circuitState, lossRun>>
        /\ input = << >> /\ input' = Head(wire)
    BY DEF Deliver, Arrive, chainVars, syncVars, breakerVars
  <1>3. /\ Head(wire) = wire[1]
        /\ F[1] = MarkersIn(Head(wire)) /\ 1 \in 1 .. Len(wire)
        /\ \A k \in 1 .. Len(wire') : k + 1 \in 1 .. Len(wire) /\ wire'[k] = wire[k + 1]
        /\ G[0] = MarkersIn(input')
        /\ \A k \in Nat \ {0} : G[k] = F[k + 1]
    BY <1>1, <1>2, WireMoves
  <1>4. F[0] = {}
    <2>1. MarkersIn(input) = {}
      BY <1>2 DEF MarkersIn
    <2> QED BY <1>1, <2>1, FlightAt
  <1>5. Consecutive(F) /\ (firstMarkerSeen => Begins(F, w))
    BY DEF FlightInv
  <1>6. \A k \in Nat : G[k] = F[k + 1]
    <2>1. G[0] = F[0 + 1]
      BY <1>2, <1>3
    <2> QED BY <1>3, <2>1
  <1>7. Consecutive(G) /\ (Begins(F, w) => Begins(G, w))
    <2> HIDE DEF F, G, w
    <2> QED BY <1>4, <1>5, <1>6, MovedUp
  <1>8. Awaited' = w
    BY <1>2 DEF Awaited
  <1>9. OneMarker(input') /\ (\A k \in 1 .. Len(wire') : OneMarker(wire'[k])) /\ BufferLast'
    BY <1>2, <1>3 DEF FlightInv, BufferLast, inserterVars
  <1> QED BY <1>2, <1>5, <1>7, <1>8, <1>9 DEF FlightInv

\* What a marker that is handled does to what the sender knows: the one after it is
\* awaited, whether it came in its turn or told of losses.
LEMMA MarkerKnown ==
  ASSUME ChainInv, FlightInv, Process, NEW m \in Current, ProcessMarker(m),
         m.seq \in Int, firstMarkerSeen => m.seq = Awaited
  PROVE  /\ firstMarkerSeen' => Awaited' = (m.seq + 1) % MarkerMod
         /\ circuitState' = "normal" /\ ~firstMarkerSeen' => losses' = 0
  <1>0. BreakerConsistent /\ circuitState \in {"normal", "shutdown", "recovery"}
    BY DEF ChainInv, ChainTypeOK, BreakerInv, SenderTypeOK
  <1>1. lossRun' = IF Accepts THEN 0 ELSE lossRun
    BY DEF Process
  <1>2. m.seq + 1 + (0 - 0) = m.seq + 1
    OBVIOUS
  <1>3. CASE EnterRecovery(m) \/ FirstMarker(m) \/ Good(m)
    <2>1. lossRun' = 0
      BY <1>1, <1>3 DEF Accepts
    <2>2. CASE EnterRecovery(m)
      <3>1. lastMarkerSeq' = m.seq /\ losses' = 0
        BY <2>2 DEF EnterRecovery
      <3> QED BY <1>2, <2>1, <3>1 DEF Awaited
    <2>3. CASE FirstMarker(m)
      <3>1. lastMarkerSeq' = m.seq /\ losses' = losses /\ firstMarkerSeen'
            /\ circuitState # "shutdown" /\ ~firstMarkerSeen
        BY <2>3 DEF FirstMarker
      <3>2. losses = 0
        BY <1>0, <3>1 DEF BreakerConsistent, FlightInv
      <3> QED BY <1>2, <2>1, <3>1, <3>2 DEF Awaited
    <2>4. CASE ~ EnterRecovery(m) /\ ~ FirstMarker(m)
      <3>1. CASE Synchronize(m) \/ EmptyBlock(m) \/ SendBlock(m) \/ GoodInRecovery(m)
                 \/ DropBlock(m)
        <4>1. lastMarkerSeq' = m.seq /\ losses' = 0
          BY <3>1 DEF Synchronize, EmptyBlock, SendBlock, GoodInRecovery, DropBlock, Proceed
        <4> QED BY <1>2, <2>1, <4>1 DEF Awaited
      <3>2. CASE TripOnFailures(m) \/ FailInRecovery(m)
        <4>1. circuitState' = "shutdown" /\ ~firstMarkerSeen'
          BY <3>2 DEF TripOnFailures, FailInRecovery, Trip, FallBack
        <4> QED BY <4>1
      <3>3. CASE TripOnLosses(m) \/ MissInRecovery(m) \/ Resync(m)
        BY <1>3, <2>4, <3>3 DEF TripOnLosses, MissInRecovery, Resync, Good, Gap
      <3> QED BY <2>4, <3>1, <3>2, <3>3 DEF ProcessMarker
    <2> QED BY <2>2, <2>3, <2>4
  <1>4. CASE TripOnLosses(m) \/ MissInRecovery(m)
    <2>1. circuitState' = "shutdown" /\ ~firstMarkerSeen'
      BY <1>4 DEF TripOnLosses, MissInRecovery, Trip, FallBack
    <2> QED BY <2>1
  <1>5. CASE Resync(m)
    <2>1. /\ circuitState = "normal" /\ firstMarkerSeen /\ m.seq # ExpectedMarker
          /\ losses' = LossesWith(m) /\ lastMarkerSeq' = m.seq
          /\ UNCHANGED firstMarkerSeen
      BY <1>5 DEF Resync, Gap
    <2>2. ~ Accepts
      <3>1. \A p \in Current : p = m
        BY DEF Current
      <3> QED BY <2>1, <3>1 DEF Accepts, EnterRecovery, FirstMarker, Good
    <2>3. lossRun' = lossRun /\ m.seq = Awaited
      BY <1>1, <2>1, <2>2
    <2> DEFINE last == lastMarkerSeq
               r == lossRun
               s == losses
               q == m.seq
    <2>4. last \in Int /\ r \in Int /\ s \in Int /\ q \in Int
      BY AwaitedType
    <2>5. q = (last + 1 + (r - s)) % MarkerMod
      BY <2>3 DEF Awaited
    <2>6. losses' = (s + (q - ((last + 1) % MarkerMod))) % MarkerMod
      BY <2>1 DEF LossesWith, ExpectedMarker
    <2>7. Awaited' = (q + 1 + (r - losses')) % MarkerMod
      BY <2>1, <2>3 DEF Awaited
    <2> HIDE DEF last, r, s, q
    <2>8. losses' = r % MarkerMod
      <3>1. (s + (((last + 1 + (r - s)) % MarkerMod) - ((last + 1) % MarkerMod))) % MarkerMod
              = r % MarkerMod
        BY <2>4, LateTells
      <3> QED BY <2>5, <2>6, <3>1
    <2>9. Awaited' = (q + 1) % MarkerMod
      <3>1. (q + 1 + (r - (r % MarkerMod))) % MarkerMod = (q + 1) % MarkerMod
        BY <2>4, CountedAfter
      <3> QED BY <2>7, <2>8, <3>1
    <2> QED BY <2>1, <2>9 DEF q
  <1> QED BY <1>3, <1>4, <1>5 DEF ProcessMarker, Synchronize, EmptyBlock, SendBlock,
        GoodInRecovery, TripOnFailures, FailInRecovery, DropBlock, EndsBlock

\* A packet is handled.
LEMMA ProcessFlight ==
  ASSUME ChainInv, FlightInv, Process
  PROVE  FlightInv'
  <1> DEFINE F == Flight
             G == Flight'
             w == Awaited
  <1>1. InserterTypeOK /\ input \in Seq(Ts \cup Marker)
    BY DEF ChainInv, ChainTypeOK, SenderTypeOK
  <1>2. PICK p \in Current : Buffer(p) \/ Discard(p) \/ ProcessMarker(p)
    BY DEF Process, Handle
  <1>3. input # << >> /\ p = Head(input) /\ input' = Tail(input)
    BY <1>2, StepTakes DEF Steps, Takes
  <1>4. /\ Len(input) \in Nat /\ 1 \in 1 .. Len(input) /\ p = input[1]
        /\ Len(input') = Len(input) - 1
        /\ \A i \in 1 .. Len(input') : input'[i] = input[i + 1]
    <2> DEFINE S == Ts \cup Marker
    <2> HIDE DEF S
    <2>0. input \in Seq(S)
      BY <1>1 DEF S
    <2>1. Len(input) \in Nat /\ Len(input) # 0
      BY <1>3, <2>0, EmptySeq, LenProperties
    <2>2. Len(Tail(input)) = Len(input) - 1
          /\ \A i \in 1 .. Len(input) - 1 : Tail(input)[i] = input[i + 1]
      BY <1>3, <2>0, HeadTailProperties
    <2>3. Head(input) = input[1]
      BY <1>3, <2>0
    <2> QED BY <1>3, <2>1, <2>2, <2>3
  <1>5. \A i \in 1 .. Len(input') : i + 1 \in 1 .. Len(input) /\ i + 1 # 1
    BY <1>4
  <1>6. OneMarker(input')
    <2>1. OneMarker(input)
      BY DEF FlightInv
    <2>2. ASSUME NEW i \in 1 .. Len(input'), NEW j \in 1 .. Len(input'),
                 IsMarker(input'[i]), IsMarker(input'[j])
          PROVE  i = j
      <3>1. i + 1 = j + 1
        BY <1>4, <1>5, <2>1, <2>2 DEF OneMarker
      <3>2. i \in Int /\ j \in Int
        OBVIOUS
      <3> QED BY <3>1, <3>2
    <2> QED BY <2>2 DEF OneMarker
  <1>7. UNCHANGED <<inserterVars, wire>>
    BY DEF Process
  <1>8. F[0] = MarkersIn(input) /\ G[0] = MarkersIn(input')
        /\ \A k \in Nat : k # 0 => G[k] = F[k]
    BY <1>7 DEF Flight, inserterVars
  <1>9. Consecutive(F) /\ (firstMarkerSeen => Begins(F, w))
    BY DEF FlightInv
  <1>10. (\A k \in 1 .. Len(wire') : OneMarker(wire'[k])) /\ BufferLast'
    BY <1>7 DEF FlightInv, BufferLast, inserterVars
  <1>11. CASE Buffer(p) \/ Discard(p)
    <2>1. ~ IsMarker(p)
          /\ UNCHANGED <<firstMarkerSeen, lastMarkerSeq, losses, circuitState>>
      BY <1>11 DEF Buffer, Discard, syncVars, breakerVars
    <2>2. ~ Accepts
      <3>1. \A q \in Current : q = p
        BY <1>2 DEF Current
      <3> QED BY <2>1, <3>1 DEF Accepts, EnterRecovery, FirstMarker, Good, Receives
    <2>3. lossRun' = lossRun
      BY <2>2 DEF Process
    <2>4. MarkersIn(input') = MarkersIn(input)
      <3>1. ASSUME NEW i \in 1 .. Len(input), IsMarker(input[i])
            PROVE  \E j \in 1 .. Len(input') : input'[j] = input[i]
        <4>1. i # 1
          BY <1>4, <2>1, <3>1
        <4>2. i - 1 \in 1 .. Len(input') /\ (i - 1) + 1 = i
          BY <1>4, <4>1
        <4>3. input'[i - 1] = input[i]
          BY <1>4, <4>2
        <4> QED BY <4>2, <4>3
      <3>2. ASSUME NEW j \in 1 .. Len(input')
            PROVE  \E i \in 1 .. Len(input) : input[i] = input'[j]
        BY <1>4, <1>5
      <3>3. MarkersIn(input) \subseteq MarkersIn(input')
        BY <3>1 DEF MarkersIn
      <3>4. MarkersIn(input') \subseteq MarkersIn(input)
        BY <3>2 DEF MarkersIn
      <3> QED BY <3>3, <3>4
    <2>5. \A k \in Nat : G[k] = F[k]
      BY <1>8, <2>4
    <2> HIDE DEF F, G
    <2>6. Consecutive(G) /\ (firstMarkerSeen => Begins(G, w))
      BY <1>9, <2>5 DEF Consecutive, Begins
    <2>7. Awaited' = w
      BY <2>1, <2>3 DEF Awaited
    <2> QED BY <1>6, <1>10, <2>1, <2>6, <2>7 DEF FlightInv, G
  <1>12. CASE ProcessMarker(p)
    <2>1. IsMarker(p)
      BY <1>12 DEF ProcessMarker, EnterRecovery, FirstMarker, TripOnLosses, MissInRecovery,
             Resync, Synchronize, EmptyBlock, SendBlock, GoodInRecovery, TripOnFailures,
             FailInRecovery, DropBlock, EndsBlock, Good, Gap, Receives
    <2>2. p.seq \in F[0] /\ p.seq \in Int
      <3>1. p.seq \in MarkersIn(input)
        BY <1>1, <1>4, <2>1, MarkerThere
      <3> QED BY <1>8, <3>1, StreamAssumption DEF MarkersIn
    <2>3. G[0] = {}
      <3>1. ASSUME NEW i \in 1 .. Len(input') PROVE ~ IsMarker(input'[i])
        <4>1. OneMarker(input) /\ i + 1 \in 1 .. Len(input) /\ i + 1 # 1 /\ input'[i] = input[i + 1]
          BY <1>4, <1>5 DEF FlightInv
        <4> QED BY <1>4, <2>1, <4>1 DEF OneMarker
      <3> QED BY <1>8, <3>1 DEF MarkersIn
    <2>4. firstMarkerSeen => p.seq = Awaited
      <3> HIDE DEF F
      <3> QED BY <1>9, <2>2 DEF Begins
    <2>5. /\ firstMarkerSeen' => Awaited' = (p.seq + 1) % MarkerMod
          /\ circuitState' = "normal" /\ ~firstMarkerSeen' => losses' = 0
      BY <1>12, <2>2, <2>4, MarkerKnown
    <2> HIDE DEF F, G
    <2>6. \A i \in Nat : i < 0 => F[i] = {}
      OBVIOUS
    <2>7. Consecutive(G) /\ Begins(G, (p.seq + 1) % MarkerMod)
      BY <1>8, <1>9, <2>2, <2>3, <2>6, FirstGone
    <2> QED BY <1>6, <1>10, <2>5, <2>7 DEF FlightInv, G
  <1> QED BY <1>2, <1>11, <1>12

\* The sender is started again and has yet to see a marker.
LEMMA RestartFlight ==
  ASSUME ChainInv, FlightInv, Restart
  PROVE  FlightInv'
  <1> DEFINE F == Flight
             G == Flight'
  <1>1. UNCHANGED <<inserterVars, wire>> /\ input' = << >> /\ ~firstMarkerSeen' /\ losses' = 0
    BY DEF Restart
  <1>2. G[0] = {} /\ \A k \in Nat : k # 0 => G[k] = F[k]
    BY <1>1 DEF Flight, inserterVars, MarkersIn
  <1>3. Consecutive(F)
    BY DEF FlightInv
  <1>4. OneMarker(input') /\ (\A k \in 1 .. Len(wire') : OneMarker(wire'[k])) /\ BufferLast'
    BY <1>1 DEF FlightInv, BufferLast, OneMarker, inserterVars
  <1> HIDE DEF F, G
  <1>5. \A i \in Nat : i < 0 => F[i] = {}
    OBVIOUS
  <1>6. Consecutive(G)
    BY <1>2, <1>3, <1>5, FirstGone
  <1> QED BY <1>1, <1>4, <1>6 DEF FlightInv, G

\* No step is one that disturbs the numbering of the markers.
LEMMA FlightNext ==
  ASSUME OnlyLoses, ChainInv, FlightInv, [Next]_vars
  PROVE  FlightInv'
  <1>1. ~ StopInserter /\ ~ Swap /\ ~ DeliverAgain
    BY DEF OnlyLoses, StopInserter, Swap, DeliverAgain, Trouble
  <1>2. CASE FlowGap \/ Settle \/ Connect \/ Disconnect \/ Tick \/ UNCHANGED vars
    <2>1. UNCHANGED <<inserterVars, wire, input, firstMarkerSeen, lastMarkerSeq, losses,
                      circuitState, lossRun>>
      BY <1>2 DEF FlowGap, Settle, Connect, Disconnect, Tick, PeerChange, TickSender, vars,
            chainVars, senderVars, syncVars, breakerVars
    <2>2. Flight' = Flight /\ Awaited' = Awaited /\ BufferLast' = BufferLast
      BY <2>1 DEF Flight, Awaited, BufferLast, inserterVars
    <2> QED BY <2>1, <2>2 DEF FlightInv
  <1> QED BY <1>1, <1>2, ProduceFlight, LoseFlight, DeliverFlight, ProcessFlight, RestartFlight
      DEF Next

\* In the beginning only the marker to be made is there.
LEMMA FlightInit == Init => FlightInv
  <1> SUFFICES ASSUME Init PROVE FlightInv
    OBVIOUS
  <1>1. input = << >> /\ wire = << >> /\ udpBuffer = << >> /\ ~firstMarkerSeen /\ losses = 0
        /\ Len(wire) = 0
    BY DEF Init, InserterInit, SenderInit
  <1>2. \A k \in Nat : k # 2 => Flight[k] = {}
    BY <1>1 DEF Flight, MarkersIn
  <1>3. Consecutive(Flight)
    <2> DEFINE F == Flight
    <2>1. \A k \in Nat : k # 2 => F[k] = {}
      BY <1>2
    <2> HIDE DEF F
    <2>2. Consecutive(F)
      BY <2>1 DEF Consecutive
    <2> QED BY <2>2 DEF F
  <1> QED BY <1>1, <1>3 DEF FlightInv, OneMarker, BufferLast

\* What a marker tells of the losses is at most what was lost, and all of it if the
\* numbers have not come round meanwhile.
LEMMA ToldLosses ==
  ASSUME ChainInv, FlightInv, NEW m \in Current, Receives(m), firstMarkerSeen
  PROVE  /\ LossesWith(m) = lossRun % MarkerMod
         /\ lossRun % MarkerMod <= lossRun
         /\ lossRun < MarkerMod => lossRun % MarkerMod = lossRun
  <1>1. InserterTypeOK /\ input \in Seq(Ts \cup Marker) /\ lossRun \in Nat
    BY DEF ChainInv, ChainTypeOK, SenderTypeOK
  <1>2. input # << >> /\ m = Head(input) /\ IsMarker(m) /\ firstMarkerSeen
    BY DEF Receives, Takes
  <1>3. 1 \in 1 .. Len(input) /\ m = input[1]
    <2> DEFINE S == Ts \cup Marker
    <2> HIDE DEF S
    <2>0. input \in Seq(S)
      BY <1>1 DEF S
    <2>1. Len(input) \in Nat /\ Len(input) # 0
      BY <1>2, <2>0, EmptySeq, LenProperties
    <2>2. Head(input) = input[1]
      BY <1>2, <2>0
    <2> QED BY <1>2, <2>1, <2>2
  <1>4. m.seq = Awaited
    <2>1. m.seq \in MarkersIn(input)
      BY <1>1, <1>2, <1>3, MarkerThere
    <2>2. Flight[0] = MarkersIn(input)
      BY <1>1, FlightAt
    <2>3. Begins(Flight, Awaited)
      BY <1>2 DEF FlightInv
    <2> DEFINE F == Flight
               w == Awaited
    <2> HIDE DEF F, w
    <2>4. m.seq \in F[0] /\ Begins(F, w)
      BY <2>1, <2>2, <2>3 DEF F, w
    <2>5. m.seq = w
      BY <2>4 DEF Begins
    <2> QED BY <2>5 DEF w
  <1> DEFINE last == lastMarkerSeq
             r == lossRun
             s == losses
             q == m.seq
  <1>5. last \in Int /\ r \in Int /\ s \in Int
    BY AwaitedType
  <1>6. q = (last + 1 + (r - s)) % MarkerMod
    BY <1>4 DEF Awaited
  <1>7. LossesWith(m) = (s + (q - ((last + 1) % MarkerMod))) % MarkerMod
    BY DEF LossesWith, ExpectedMarker
  <1>8. LossesWith(m) = r % MarkerMod
    <2> HIDE DEF last, r, s, q
    <2>1. (s + (((last + 1 + (r - s)) % MarkerMod) - ((last + 1) % MarkerMod))) % MarkerMod
            = r % MarkerMod
      BY <1>5, LateTells
    <2> QED BY <1>6, <1>7, <2>1
  <1>9. /\ r % MarkerMod <= r
        /\ r < MarkerMod => r % MarkerMod = r
    <2>1. r \in Nat /\ MarkerMod \in Nat \ {0}
      BY <1>1, StreamAssumption
    <2>2. r < MarkerMod => r % MarkerMod = r
      <3> HIDE DEF r
      <3> QED BY <2>1, OwnRemainder
    <2>3. r % MarkerMod \in 0 .. MarkerMod - 1
      <3> HIDE DEF r
      <3> QED BY <2>1, Remainder
    <2> HIDE DEF r
    <2> QED BY <2>1, <2>2, <2>3
  <1> QED BY <1>8, <1>9

\* On a path that only loses, the breaker is never tripped by losses unless so many
\* markers were lost.
THEOREM TripsOnlyOnLosses == OnlyLoses => (Spec => TripNeedsLosses)
  <1> SUFFICES ASSUME OnlyLoses PROVE Spec => TripNeedsLosses
    OBVIOUS
  <1>1. Init => FlightInv
    BY FlightInit
  <1>2. ChainInv /\ FlightInv /\ [Next]_vars => FlightInv'
    BY FlightNext
  <1>3. ChainInv /\ FlightInv /\ [Next]_vars
          => [(\E m \in Current : TripOnLosses(m)) => lossRun >= LossThreshold]_vars
    <2> SUFFICES ASSUME ChainInv, FlightInv, NEW m \in Current, TripOnLosses(m)
                 PROVE  lossRun >= LossThreshold
      OBVIOUS
    <2>1. Receives(m) /\ firstMarkerSeen /\ LossesWith(m) >= LossThreshold
      BY DEF TripOnLosses, Gap
    <2>2. LossesWith(m) = lossRun % MarkerMod /\ lossRun % MarkerMod <= lossRun
      BY <2>1, ToldLosses
    <2>3. lossRun \in Nat /\ LossThreshold \in Nat /\ MarkerMod \in Nat \ {0}
      BY StreamAssumption, BreakerAssumption DEF ChainInv, ChainTypeOK
    <2>4. lossRun % MarkerMod \in Int
      BY <2>3, Remainder
    <2> QED BY <2>1, <2>2, <2>3, <2>4
  <1> QED BY <1>1, <1>2, <1>3, ChainCorrect, PTL DEF Spec, TripNeedsLosses

\* The losses stay within the bound of the model.
LossBounded == lossRun <= MaxLossRun

\* A marker is lost only below the bound.
LEMMA BoundedNext ==
  ASSUME ChainInv, LossBounded, [Next]_vars
  PROVE  LossBounded'
  <1>1. lossRun \in Nat /\ MaxLossRun \in Nat
    BY ChainAssumption DEF ChainInv, ChainTypeOK
  <1>2. lossRun' = lossRun \/ lossRun' = 0 \/ (lossRun < MaxLossRun /\ lossRun' = lossRun + 1)
    BY DEF Next, Produce, FlowGap, StopInserter, Lose, Swap, Deliver, DeliverAgain, Settle,
           Process, Connect, Disconnect, Tick, Restart, vars, chainVars
  <1> QED BY <1>1, <1>2 DEF LossBounded

\* And as many as the threshold are never overlooked, as long as the numbers of the
\* markers have not come round.
THEOREM LossesAreNotMissed ==
  OnlyLoses /\ MaxLossRun < MarkerMod => (Spec => LossesTrip)
  <1> SUFFICES ASSUME OnlyLoses, MaxLossRun < MarkerMod PROVE Spec => LossesTrip
    OBVIOUS
  <1> DEFINE Trips == Process /\ circuitState # "shutdown" /\ firstMarkerSeen
                        /\ lossRun >= LossThreshold /\ IsMarker(Head(input))
                      => circuitState' = "shutdown"
  <1>1. Init => FlightInv /\ LossBounded
    BY FlightInit, ChainAssumption DEF Init, LossBounded
  <1>2. ChainInv /\ FlightInv /\ LossBounded /\ [Next]_vars => FlightInv' /\ LossBounded'
    BY FlightNext, BoundedNext
  <1>3. ChainInv /\ FlightInv /\ LossBounded /\ [Next]_vars => [Trips]_vars
    <2> SUFFICES ASSUME ChainInv, FlightInv, LossBounded, Process, circuitState # "shutdown",
                        firstMarkerSeen, lossRun >= LossThreshold, IsMarker(Head(input))
                 PROVE  circuitState' = "shutdown"
      OBVIOUS
    <2>1. PICK m \in Current : Buffer(m) \/ Discard(m) \/ ProcessMarker(m)
      BY DEF Process, Handle
    <2>2. IsMarker(m) /\ m = Head(input)
      BY DEF Current
    <2>3. ProcessMarker(m)
      BY <2>1, <2>2 DEF Buffer, Discard
    <2>4. /\ lossRun \in Nat /\ LossThreshold \in Nat \ {0} /\ MarkerMod \in Nat \ {0}
          /\ MaxLossRun \in Nat /\ lossRun < MarkerMod
          /\ losses \in Nat /\ losses < LossThreshold
          /\ circuitState \in {"normal", "shutdown", "recovery"}
      BY StreamAssumption, BreakerAssumption, ChainAssumption
         DEF ChainInv, ChainTypeOK, LossBounded, BreakerInv, BreakerConsistent, SenderTypeOK
    <2>5. Receives(m)
      BY <2>3 DEF ProcessMarker, EnterRecovery, FirstMarker, TripOnLosses, MissInRecovery,
         Resync, Synchronize, EmptyBlock, SendBlock, GoodInRecovery, TripOnFailures,
         FailInRecovery, DropBlock, EndsBlock, Good, Gap
    <2>6. LossesWith(m) = lossRun
      BY <2>4, <2>5, ToldLosses
    <2>7. ~ Good(m)
      <3> SUFFICES ASSUME Good(m) PROVE FALSE
        OBVIOUS
      <3>1. LossesWith(m) = losses % MarkerMod
        <4>1. m.seq = ExpectedMarker /\ ExpectedMarker \in Int
          <5>1. (lastMarkerSeq + 1) % MarkerMod \in 0 .. MarkerMod - 1
            <6>1. lastMarkerSeq + 1 \in Int
              BY AwaitedType
            <6> QED BY <2>4, <6>1, Remainder
          <5> QED BY <5>1 DEF Good, ExpectedMarker
        <4>2. losses + (m.seq - ExpectedMarker) = losses
          BY <2>4, <4>1
        <4> QED BY <4>2 DEF LossesWith
      <3>2. losses % MarkerMod = losses
        <4>1. losses < MarkerMod
          BY <2>4
        <4> QED BY <2>4, <4>1
      <3> QED BY <2>4, <2>6, <3>1, <3>2
    <2>8. TripOnLosses(m)
      <3>1. ~ MissInRecovery(m) /\ ~ Resync(m)
        <4>1. ~ (LossesWith(m) < LossThreshold)
          BY <2>4, <2>6
        <4> QED BY <4>1 DEF MissInRecovery, Resync
      <3>2. ~ EnterRecovery(m) /\ ~ FirstMarker(m)
        BY DEF EnterRecovery, FirstMarker
      <3> QED BY <2>3, <2>7, <3>1, <3>2 DEF ProcessMarker, Synchronize, EmptyBlock,
            SendBlock, GoodInRecovery, TripOnFailures, FailInRecovery, DropBlock, EndsBlock
    <2> QED BY <2>8 DEF TripOnLosses, Trip
  <1> QED BY <1>1, <1>2, <1>3, ChainCorrect, PTL DEF Spec, LossesTrip

-----------------------------------------------------------------------------
(* Blocks are intact.                                                      *)

\* The path only loses datagrams and the flow has no gaps.
OnlyDrops == Troubles \subseteq {"lose"}

\* The stream that the inserter makes, and of which the sender gets what was not
\* lost: in each block the packets of PerMarker payloads and the marker.  The t-th
\* packet of it, from 0 on, is in place PlaceOf(t) of block BlockOf(t).
Stride == Whole + 1
BlockOf(t) == t \div Stride
PlaceOf(t) == t % Stride
Payload(k, j) == (k * PerMarker + j) % RtpMod
IsAt(p, t) ==
  IF PlaceOf(t) = Whole THEN IsMarker(p) /\ p.start = Payload(BlockOf(t), 0)
  ELSE /\ ~IsMarker(p)
       /\ \E j \in 0 .. PerMarker - 1, i \in 1 .. PerRtp :
            /\ PlaceOf(t) = j * PerRtp + (i - 1)
            /\ p.rtp = Payload(BlockOf(t), j) /\ p.pos = i
Carries(d, t) == \A i \in 1 .. Len(d) : IsAt(d[i], t + (i - 1))

\* The place of the k-th datagram after place t.
Along(t, k) == t + ((k - 1) * PerRtp)

\* A block and its marker have at least two packets, and a datagram fits in.
LEMMA WholeIs ==
  /\ PerRtp \in Nat \ {0} /\ PerMarker \in Nat \ {0}
  /\ Whole \in Nat \ {0} /\ PerRtp <= Whole /\ Stride \in Nat \ {0} /\ Stride = Whole + 1
  <1>1. PerRtp \in Nat \ {0} /\ PerMarker \in Nat \ {0}
    BY StreamAssumption
  <1>2. PerMarker * PerRtp \in Nat /\ PerMarker * PerRtp >= PerRtp
    BY <1>1
  <1> QED BY <1>1, <1>2 DEF Whole, Stride

LEMMA AlongIs ==
  ASSUME NEW t \in Nat, NEW k \in Nat \ {0}
  PROVE  /\ Along(t, k) \in Nat /\ Along(t, 1) = t
         /\ Along(t, k + 1) = Along(t, k) + PerRtp
         /\ Along(t + PerRtp, k) = Along(t, k + 1)
  <1>1. PerRtp \in Nat
    BY WholeIs
  <1>2. /\ (k - 1) * PerRtp \in Nat
        /\ ((k + 1) - 1) * PerRtp = (k - 1) * PerRtp + PerRtp
        /\ (1 - 1) * PerRtp = 0
    BY <1>1
  <1> QED BY <1>1, <1>2 DEF Along

LEMMA AlongStarts ==
  ASSUME NEW t \in Nat
  PROVE  Along(t, 1) = t /\ Along(t, 2) = t + PerRtp /\ Along(t, 3) = t + 2 * PerRtp
  BY WholeIs DEF Along

\* Places and blocks are what they are called.
LEMMA PlaceIs ==
  ASSUME NEW k \in Nat, NEW o \in 0 .. Whole
  PROVE  k * Stride + o \in Nat /\ BlockOf(k * Stride + o) = k /\ PlaceOf(k * Stride + o) = o
  <1> DEFINE m == Stride
             x == k * m + o
             u == x \div m
             v == x % m
  <1>1. m \in Nat \ {0} /\ o \in 0 .. m - 1
    BY WholeIs
  <1> HIDE DEF m
  <1>2. x \in Nat /\ x = m * k + o
    <2>1. k * m = m * k /\ k * m \in Nat
      BY <1>1
    <2> QED BY <1>1, <2>1
  <1> HIDE DEF x
  <1>3. v = o
    BY <1>1, <1>2, RemainderUnique
  <1>4. u \in Int /\ x = m * u + v
    <2>1. m \in Int /\ m > 0 /\ x \in Int
      BY <1>1, <1>2
    <2> QED BY <2>1
  <1> HIDE DEF u, v
  <1>5. u = k
    <2>1. m * u = m * k
      <3>1. m * u \in Int /\ m * k \in Int
        BY <1>1, <1>4
      <3> QED BY <1>2, <1>3, <1>4, <3>1, <1>1
    <2>2. m * (u - k) = m * u - m * k
      BY <1>1, <1>4
    <2>3. m * (u - k) = 0
      <3>1. m * u \in Int /\ m * k \in Int
        BY <1>1, <1>4
      <3> QED BY <2>1, <2>2, <3>1
    <2>4. u - k = 0
      BY <1>1, <1>4, <2>3
    <2> QED BY <1>4, <2>4
  <1> QED BY <1>2, <1>3, <1>5 DEF x, u, v, m, BlockOf, PlaceOf

LEMMA PlaceType ==
  ASSUME NEW t \in Nat
  PROVE  BlockOf(t) \in Nat /\ PlaceOf(t) \in 0 .. Whole /\ t = BlockOf(t) * Stride + PlaceOf(t)
  <1> DEFINE m == Stride
             u == t \div m
             v == t % m
  <1>1. m \in Nat \ {0} /\ m - 1 = Whole
    BY WholeIs
  <1> HIDE DEF m
  <1>2. u \in Int /\ t = m * u + v /\ v \in 0 .. m - 1
    <2>1. m \in Int /\ m > 0
      BY <1>1
    <2>2. u \in Int /\ t = m * u + v
      BY <2>1
    <2> QED BY <1>1, <2>2, Remainder
  <1> HIDE DEF u, v
  <1>3. u >= 0
    <2> SUFFICES ASSUME u < 0 PROVE FALSE
      BY <1>2
    <2>1. m * u <= -m
      BY <1>1, <1>2
    <2>2. m * u \in Int
      BY <1>1, <1>2
    <2> QED BY <1>1, <1>2, <2>1, <2>2
  <1>4. m * u = u * m
    BY <1>1, <1>2
  <1> QED BY <1>1, <1>2, <1>3, <1>4 DEF u, v, m, BlockOf, PlaceOf

\* A few packets on: still in the block, or in the next one.
LEMMA MoveOn ==
  ASSUME NEW t \in Nat, NEW n \in 0 .. Stride
  PROVE  /\ PlaceOf(t) + n <= Whole =>
              BlockOf(t + n) = BlockOf(t) /\ PlaceOf(t + n) = PlaceOf(t) + n
         /\ PlaceOf(t) + n > Whole =>
              BlockOf(t + n) = BlockOf(t) + 1 /\ PlaceOf(t + n) = PlaceOf(t) + n - Stride
  <1> DEFINE k == BlockOf(t)
             o == PlaceOf(t)
             m == Stride
  <1>1. k \in Nat /\ o \in 0 .. Whole /\ t = k * m + o
    BY PlaceType
  <1>2. m \in Nat /\ m = Whole + 1
    BY WholeIs
  <1> HIDE DEF k, o
  <1>3. ASSUME o + n <= Whole PROVE BlockOf(t + n) = k /\ PlaceOf(t + n) = o + n
    <2> DEFINE r == o + n
    <2>1. r \in 0 .. Whole
      BY <1>1, <1>2, <1>3
    <2>2. t + n = k * Stride + r
      <3>1. k * m \in Nat
        BY <1>1, <1>2
      <3> QED BY <1>1, <1>2, <3>1
    <2> HIDE DEF r
    <2>3. BlockOf(k * Stride + r) = k /\ PlaceOf(k * Stride + r) = r
      BY <1>1, <2>1, PlaceIs
    <2> QED BY <2>2, <2>3 DEF r
  <1>4. ASSUME o + n > Whole PROVE BlockOf(t + n) = k + 1 /\ PlaceOf(t + n) = o + n - Stride
    <2> DEFINE r == o + n - Stride
               q == k + 1
    <2>1. r \in 0 .. Whole /\ q \in Nat
      <3>1. k \in Nat /\ o \in 0 .. Whole /\ n \in 0 .. Whole + 1 /\ Stride = Whole + 1
            /\ Whole \in Nat
        BY <1>1, <1>2, WholeIs
      <3> QED BY <1>4, <3>1
    <2>2. t + n = q * Stride + r
      <3>1. k * m \in Nat /\ (k + 1) * m = k * m + m
        BY <1>1, <1>2
      <3> QED BY <1>1, <1>2, <3>1
    <2> HIDE DEF r, q
    <2>3. BlockOf(q * Stride + r) = q /\ PlaceOf(q * Stride + r) = r
      BY <2>1, PlaceIs
    <2> QED BY <2>2, <2>3 DEF r, q
  <1> QED BY <1>3, <1>4 DEF k, o

\* Parts of what is carried are carried.
LEMMA CarriedPart ==
  ASSUME NEW d, NEW e, NEW t \in Nat, NEW n \in Nat, Carries(d, t), Len(e) \in Nat,
         n + Len(e) <= Len(d), Len(d) \in Nat, \A i \in 1 .. Len(e) : e[i] = d[n + i]
  PROVE  Carries(e, t + n)
  <1> SUFFICES ASSUME NEW i \in 1 .. Len(e) PROVE IsAt(e[i], t + n + (i - 1))
    BY DEF Carries
  <1> DEFINE l == n + i
  <1>1. l \in 1 .. Len(d) /\ t + (l - 1) = t + n + (i - 1) /\ e[i] = d[l]
    OBVIOUS
  <1> HIDE DEF l
  <1>2. IsAt(d[l], t + (l - 1))
    BY <1>1 DEF Carries
  <1> QED BY <1>1, <1>2

\* A datagram on the way has a marker if it reaches the end of a block.
LEMMA CarriesMarker ==
  ASSUME NEW d, NEW t \in Nat, Len(d) = PerRtp, Carries(d, t)
  PROVE  BlockOf(t + PerRtp) = IF HasMarker(d) THEN BlockOf(t) + 1 ELSE BlockOf(t)
  <1> USE WholeIs
  <1>1. BlockOf(t) \in Nat /\ PlaceOf(t) \in 0 .. Whole
    BY PlaceType
  <1>2. \A i \in 1 .. PerRtp : IsMarker(d[i]) <=> PlaceOf(t + (i - 1)) = Whole
    <2> TAKE i \in 1 .. PerRtp
    <2>1. IsAt(d[i], t + (i - 1))
      BY DEF Carries
    <2> QED BY <2>1 DEF IsAt
  <1>3. PerRtp \in 0 .. Stride
    OBVIOUS
  <1>4. CASE PlaceOf(t) + PerRtp <= Whole
    <2>1. BlockOf(t + PerRtp) = BlockOf(t)
      BY <1>3, <1>4, MoveOn
    <2>2. ASSUME NEW i \in 1 .. PerRtp PROVE ~ IsMarker(d[i])
      <3> DEFINE n == i - 1
      <3>1. n \in 0 .. Stride /\ PlaceOf(t) + n < Whole
        BY <1>1, <1>4
      <3> HIDE DEF n
      <3>2. PlaceOf(t + n) = PlaceOf(t) + n
        BY <1>1, <3>1, MoveOn
      <3>3. PlaceOf(t + n) # Whole
        BY <1>1, <3>1, <3>2
      <3> QED BY <1>2, <3>3 DEF n
    <2> QED BY <2>1, <2>2 DEF HasMarker
  <1>5. CASE PlaceOf(t) + PerRtp > Whole
    <2>1. BlockOf(t + PerRtp) = BlockOf(t) + 1
      BY <1>3, <1>5, MoveOn
    <2> DEFINE n == Whole - PlaceOf(t)
    <2>2. n \in 0 .. Stride /\ PlaceOf(t) + n = Whole /\ n + 1 \in 1 .. PerRtp /\ (n + 1) - 1 = n
      BY <1>1, <1>5
    <2> HIDE DEF n
    <2>3. PlaceOf(t + n) = Whole
      BY <1>1, <2>2, MoveOn
    <2>4. IsMarker(d[n + 1])
      BY <1>2, <2>2, <2>3
    <2> QED BY <2>1, <2>2, <2>4 DEF HasMarker
  <1> QED BY <1>1, <1>4, <1>5

\* The inserter's packets come in their places.
LEMMA LineCarries ==
  ASSUME InserterTypeOK, NEW u \in Nat, NEW b \in Nat, NEW kinds \in [1 .. PerRtp -> Kinds],
         nextRtp \in 0 .. RtpMod - 1,
         Carries(udpBuffer, u), u + Len(udpBuffer) = b * Stride + rtpInBlock * PerRtp,
         nextRtp = Payload(b, rtpInBlock), rtpInBlock > 0 => blockStart = Payload(b, 0)
  PROVE  Carries(Line(nextRtp, kinds), u)
  <1> DEFINE n == Len(udpBuffer)
             r == rtpInBlock
             rp == r * PerRtp
             bs == b * Stride
             ts == Line(nextRtp, kinds)
  <1>1. /\ n \in 0 .. PerRtp - 1
        /\ Len(ts) = n + PerRtp + (IF Ends THEN 1 ELSE 0)
        /\ \A i \in 1 .. n : ts[i] = udpBuffer[i]
        /\ \A i \in n + 1 .. n + PerRtp : ts[i] = Packets(nextRtp, kinds)[i - n]
        /\ Ends => ts[n + PerRtp + 1] = MarkerOf(nextRtp, kinds)
    BY LineIs
  <1>2. r \in 0 .. PerMarker - 1 /\ PerRtp \in Nat \ {0} /\ PerMarker \in Nat \ {0}
        /\ Whole \in Nat
    BY WholeIs DEF InserterTypeOK
  <1>3. rp \in Nat /\ rp + PerRtp <= Whole /\ (Ends => rp + PerRtp = Whole)
    <2>1. rp \in Nat /\ (r + 1) * PerRtp = rp + PerRtp
      BY <1>2
    <2>2. (r + 1) * PerRtp <= PerMarker * PerRtp
      BY <1>2
    <2>3. Ends => r + 1 = PerMarker
      BY <1>2 DEF Ends
    <2> QED BY <2>1, <2>2, <2>3 DEF Whole
  <1>9. u + n = bs + rp /\ bs \in Nat /\ n \in Nat
    BY <1>1, <1>2, WholeIs
  <1>4. \A i \in 1 .. PerRtp : /\ ~ IsMarker(Packets(nextRtp, kinds)[i])
                               /\ Packets(nextRtp, kinds)[i].rtp = nextRtp
                               /\ Packets(nextRtp, kinds)[i].pos = i
    <2>1. Len(kinds) = PerRtp
      BY <1>2
    <2> QED BY <2>1 DEF Packets, Kinds, IsMarker
  <1>5. ASSUME NEW i \in 1 .. n PROVE IsAt(ts[i], u + (i - 1))
    BY <1>1, <1>5 DEF Carries
  <1>6. ASSUME NEW i \in n + 1 .. n + PerRtp PROVE IsAt(ts[i], u + (i - 1))
    <2> DEFINE j == i - n
               o == rp + (j - 1)
               t == u + (i - 1)
               x == ts[i]
    <2>1. j \in 1 .. PerRtp
      <3>1. n \in Nat
        BY <1>9
      <3> HIDE DEF n, rp, bs, ts
      <3> QED BY <1>2, <3>1
    <2>2. t = b * Stride + o
      <3> HIDE DEF rp, bs, n
      <3> QED BY <1>3, <1>9 DEF bs
    <2>3. o \in 0 .. Whole /\ o # Whole
      <3> HIDE DEF rp, j
      <3> QED BY <1>2, <1>3, <2>1
    <2>4. x = Packets(nextRtp, kinds)[j]
      BY <1>1
    <2>5. ~ IsMarker(x) /\ x.rtp = Payload(b, r) /\ x.pos = j
      BY <1>4, <2>1, <2>4
    <2> HIDE DEF j, t, x, r
    <2>6. BlockOf(t) = b /\ PlaceOf(t) = o
      <3> HIDE DEF o
      <3> QED BY <2>2, <2>3, PlaceIs
    <2>7. IsAt(x, t)
      BY <1>2, <2>1, <2>3, <2>5, <2>6 DEF IsAt
    <2> QED BY <2>7 DEF x, t
  <1>7. ASSUME Ends PROVE IsAt(ts[n + PerRtp + 1], u + ((n + PerRtp + 1) - 1))
    <2> DEFINE t == u + ((n + PerRtp + 1) - 1)
               x == ts[n + PerRtp + 1]
    <2>1. t = b * Stride + Whole
      <3> HIDE DEF rp, bs, n
      <3> QED BY <1>2, <1>3, <1>7, <1>9 DEF bs
    <2>2. x = MarkerOf(nextRtp, kinds)
      BY <1>1, <1>7
    <2>3. IsMarker(x) /\ x.start = Payload(b, 0)
      <3>1. StartOf(nextRtp) = Payload(b, 0)
        <4>1. CASE rtpInBlock = 0
          BY <4>1 DEF StartOf
        <4>2. CASE rtpInBlock # 0
          BY <1>2, <4>2 DEF StartOf
        <4> QED BY <4>1, <4>2
      <3> QED BY <2>2, <3>1 DEF MarkerOf, IsMarker
    <2>4. Whole \in 0 .. Whole
      BY <1>2
    <2> HIDE DEF t, x
    <2>5. BlockOf(t) = b /\ PlaceOf(t) = Whole
      BY <2>1, <2>4, PlaceIs
    <2>6. IsAt(x, t)
      BY <2>3, <2>5 DEF IsAt
    <2> QED BY <2>6 DEF x, t
  <1> HIDE DEF n, ts
  <1>8. ASSUME NEW i \in 1 .. Len(ts) PROVE IsAt(ts[i], u + (i - 1))
    <2>1. i \in 1 .. n \/ i \in n + 1 .. n + PerRtp \/ (Ends /\ i = n + PerRtp + 1)
      BY <1>1, <1>2
    <2> QED BY <1>5, <1>6, <1>7, <2>1
  <1> QED BY <1>8 DEF Carries, ts

\* And they keep them in the datagrams and in the buffer.
LEMMA PackedCarries ==
  ASSUME NEW S, NEW ts \in Seq(S), PerRtp <= Len(ts), Len(ts) <= 2 * PerRtp,
         NEW u \in Nat, Carries(ts, u)
  PROVE  LET ds == Datagrams(ts)
             rest == LeftOver(ts)
         IN  /\ Len(ds) \in {1, 2}
             /\ \A j \in 1 .. Len(ds) : Len(ds[j]) = PerRtp /\ Carries(ds[j], Along(u, j))
             /\ Carries(rest, Along(u, Len(ds) + 1))
             /\ Along(u, Len(ds) + 1) + Len(rest) = u + Len(ts)
  <1> DEFINE ds == Datagrams(ts)
             rest == LeftOver(ts)
             P == PerRtp
  <1>1. P \in Nat \ {0} /\ Len(ts) \in Nat
    BY WholeIs, LenProperties
  <1>2. /\ Len(ds[1]) = P /\ \A i \in 1 .. P : ds[1][i] = ts[i]
        /\ Len(ts) < 2 * P =>
             /\ Len(ds) = 1 /\ Len(rest) = Len(ts) - P
             /\ \A i \in 1 .. Len(ts) - P : rest[i] = ts[P + i]
        /\ Len(ts) = 2 * P =>
             /\ Len(ds) = 2 /\ Len(ds[2]) = P /\ \A i \in 1 .. P : ds[2][i] = ts[P + i]
             /\ rest = << >>
    BY Packed
  <1>3. Along(u, 1) = u /\ Along(u, 2) = u + P /\ Along(u, 3) = u + 2 * P
    BY <1>1 DEF Along
  <1> HIDE DEF ds, rest, P
  <1>4. Carries(ds[1], u)
    BY <1>1, <1>2 DEF Carries
  <1>5. CASE Len(ts) < 2 * P
    <2>1. Carries(rest, u + P)
      <3>1. Len(rest) \in Nat /\ P + Len(rest) <= Len(ts) /\ \A i \in 1 .. Len(rest) : rest[i] = ts[P + i]
        BY <1>1, <1>2, <1>5 DEF P
      <3> QED BY <1>1, <3>1, CarriedPart
    <2>2. Len(ds) = 1 /\ Len(rest) = Len(ts) - P
      BY <1>2, <1>5
    <2>3. \A j \in 1 .. Len(ds) : Len(ds[j]) = P /\ Carries(ds[j], Along(u, j))
      BY <1>2, <1>3, <1>4, <2>2
    <2>4. Along(u, Len(ds) + 1) = u + P
      BY <1>3, <2>2
    <2> QED BY <1>1, <2>1, <2>2, <2>3, <2>4 DEF ds, rest, P
  <1>6. CASE Len(ts) = 2 * P
    <2>1. Carries(ds[2], u + P)
      <3>1. Len(ds[2]) \in Nat /\ P + Len(ds[2]) <= Len(ts)
            /\ \A i \in 1 .. Len(ds[2]) : ds[2][i] = ts[P + i]
        BY <1>1, <1>2, <1>6
      <3> QED BY <1>1, <3>1, CarriedPart
    <2>2. Len(ds) = 2 /\ rest = << >> /\ Len(rest) = 0
      BY <1>2, <1>6
    <2>3. \A j \in 1 .. Len(ds) : Len(ds[j]) = P /\ Carries(ds[j], Along(u, j))
      BY <1>2, <1>3, <1>4, <1>6, <2>1, <2>2
    <2>4. Along(u, Len(ds) + 1) = u + 2 * P
      BY <1>3, <2>2
    <2>5. Carries(rest, Along(u, Len(ds) + 1))
      BY <2>2 DEF Carries
    <2> QED BY <1>1, <1>6, <2>2, <2>3, <2>4, <2>5 DEF ds, rest, P
  <1>7. Len(ts) < 2 * P \/ Len(ts) = 2 * P
    BY <1>1 DEF P
  <1> QED BY <1>5, <1>6, <1>7

\* Where everything on its way is: the packets in hand begin at place h, and the
\* inserter is in block b.
StreamAt(h, b) ==
  /\ Carries(input, h)
  /\ \A k \in 1 .. Len(wire) : /\ Len(wire[k]) = PerRtp
                               /\ Carries(wire[k], Along(h + Len(input), k))
  /\ Carries(udpBuffer, Along(h + Len(input), Len(wire) + 1))
  /\ Along(h + Len(input), Len(wire) + 1) + Len(udpBuffer) = b * Stride + rtpInBlock * PerRtp
  /\ nextRtp = Payload(b, rtpInBlock)
  /\ rtpInBlock > 0 => blockStart = Payload(b, 0)

LEMMA ProduceStream ==
  ASSUME ChainInv, Produce, NEW h \in Nat, NEW b \in Nat, StreamAt(h, b)
  PROVE  \E c \in Nat : StreamAt(h, c)'
  <1> DEFINE S == Ts \cup Marker
             n == Len(wire)
             v == h + Len(input)
             u == Along(v, n + 1)
             r == rtpInBlock
  <1>1. PICK kinds \in Payloads : Insert(nextRtp, kinds)
    BY DEF Produce
  <1>2. /\ InserterTypeOK /\ nextRtp \in 0 .. RtpMod - 1 /\ kinds \in [1 .. PerRtp -> Kinds]
        /\ input \in Seq(S) /\ wire \in Seq(Seq(S)) /\ input' = input
        /\ nextRtp' = (nextRtp + 1) % RtpMod
    BY ChainAssumption DEF ChainInv, ChainTypeOK, InserterTypeOK, SenderTypeOK, Produce, senderVars
  <1>3. n \in Nat /\ v \in Nat
    <2> HIDE DEF S
    <2> QED BY <1>2, LenProperties
  <1>4. u \in Nat /\ Along(v, n + 2) = u + PerRtp /\ Along(v, n + 3) = u + 2 * PerRtp
    <2>1. n + 1 \in Nat \ {0} /\ n + 2 \in Nat \ {0} /\ (n + 1) + 1 = n + 2 /\ (n + 2) + 1 = n + 3
      BY <1>3
    <2> HIDE DEF v, n
    <2> QED BY <1>3, <2>1, WholeIs, AlongIs
  <1> DEFINE ts == Line(nextRtp, kinds)
             ds == Datagrams(ts)
             rest == LeftOver(ts)
             l == Len(udpBuffer)
  <1>5. /\ ts \in Seq(S) /\ l \in 0 .. PerRtp - 1
        /\ Len(ts) = l + PerRtp + (IF Ends THEN 1 ELSE 0)
    BY <1>2, LineIs
  <1>6. Carries(ts, u)
    BY <1>2, <1>4, LineCarries DEF StreamAt
  <1>7. PerRtp <= Len(ts) /\ Len(ts) <= 2 * PerRtp
    <2> HIDE DEF ts
    <2> QED BY <1>5, WholeIs
  <1>8. /\ Len(ds) \in {1, 2} /\ ds \in Seq(Seq(S))
        /\ \A j \in 1 .. Len(ds) : Len(ds[j]) = PerRtp /\ Carries(ds[j], Along(u, j))
        /\ Carries(rest, Along(u, Len(ds) + 1))
        /\ Along(u, Len(ds) + 1) + Len(rest) = u + Len(ts)
    <2> HIDE DEF S, ts, u
    <2> QED BY <1>4, <1>5, <1>6, <1>7, PackedCarries, Packing
  <1>9. udpBuffer' = rest /\ wire' = wire \o ds
    BY <1>1, InsertIs
  <1> HIDE DEF S, ts, ds, rest
  <1>10. /\ Len(wire') = n + Len(ds)
         /\ \A k \in 1 .. n : wire'[k] = wire[k]
         /\ \A j \in 1 .. Len(ds) : wire'[n + j] = ds[j]
    <2>1. /\ Len(wire \o ds) = n + Len(ds)
          /\ \A i \in 1 .. n + Len(ds) : (wire \o ds)[i] = IF i <= n THEN wire[i] ELSE ds[i - n]
      BY <1>2, <1>8, ConcatProperties DEF n
    <2> HIDE DEF n
    <2>2. ASSUME NEW k \in 1 .. n PROVE wire'[k] = wire[k]
      <3>1. k \in 1 .. n + Len(ds) /\ k <= n
        BY <1>3, <1>8
      <3> QED BY <1>9, <2>1, <3>1
    <2>3. ASSUME NEW j \in 1 .. Len(ds) PROVE wire'[n + j] = ds[j]
      <3> DEFINE i == n + j
      <3>1. i \in 1 .. n + Len(ds) /\ ~ (i <= n) /\ i - n = j
        BY <1>3, <1>8
      <3> HIDE DEF i
      <3>2. (wire \o ds)[i] = ds[j]
        BY <2>1, <3>1
      <3> QED BY <1>9, <3>2 DEF i
    <2> QED BY <1>9, <2>1, <2>2, <2>3
  <1>11. /\ Along(u, 1) = Along(v, n + 1) /\ Along(u, 2) = Along(v, n + 2)
         /\ Along(u, 3) = Along(v, n + 3)
    <2>1. u = Along(v, n + 1)
      OBVIOUS
    <2> HIDE DEF u
    <2>2. Along(u, 1) = u /\ Along(u, 2) = u + PerRtp /\ Along(u, 3) = u + 2 * PerRtp
      BY <1>4, WholeIs, AlongStarts
    <2> QED BY <1>4, <2>1, <2>2
  <1>12. v' = v
    BY <1>2
  <1>13. ASSUME NEW k \in 1 .. Len(wire')
         PROVE  Len(wire'[k]) = PerRtp /\ Carries(wire'[k], Along(v, k))
    <2>1. CASE k \in 1 .. n
      BY <1>10, <2>1 DEF StreamAt
    <2>2. CASE k = n + 1
      <3>1. 1 \in 1 .. Len(ds)
        <4>1. CASE Len(ds) = 1
          BY <4>1
        <4>2. CASE Len(ds) = 2
          BY <4>2
        <4> QED BY <1>8, <4>1, <4>2
      <3> HIDE DEF u, v, n
      <3> QED BY <1>8, <1>10, <1>11, <2>2, <3>1
    <2>3. CASE k = n + 2 /\ Len(ds) = 2
      <3>1. 2 \in 1 .. Len(ds)
        BY <2>3
      <3> HIDE DEF u, v, n
      <3> QED BY <1>8, <1>10, <1>11, <2>3, <3>1
    <2> HIDE DEF n
    <2>4. k \in 1 .. n \/ k = n + 1 \/ (k = n + 2 /\ Len(ds) = 2)
      <3>1. CASE Len(ds) = 1
        BY <1>3, <1>10, <3>1
      <3>2. CASE Len(ds) = 2
        BY <1>3, <1>10, <3>2
      <3> QED BY <1>8, <3>1, <3>2
    <2> QED BY <2>1, <2>2, <2>3, <2>4
  <1>14. Along(v, Len(wire') + 1) = Along(u, Len(ds) + 1)
    <2>1. CASE Len(ds) = 1
      <3>1. Len(wire') + 1 = n + 2 /\ Len(ds) + 1 = 2
        BY <1>3, <1>10, <2>1
      <3> QED BY <1>11, <3>1
    <2>2. CASE Len(ds) = 2
      <3>1. Len(wire') + 1 = n + 3 /\ Len(ds) + 1 = 3
        BY <1>3, <1>10, <2>2
      <3> QED BY <1>11, <3>1
    <2> QED BY <1>8, <2>1, <2>2
  <1>15. r \in 0 .. PerMarker - 1 /\ (Ends => r + 1 = PerMarker)
    <2>1. r \in 0 .. PerMarker - 1
      BY <1>2 DEF InserterTypeOK
    <2> QED BY <2>1, WholeIs DEF Ends
  <1>16. /\ Ends => rtpInBlock' = 0
         /\ ~Ends => rtpInBlock' = r + 1 /\ blockStart' = StartOf(nextRtp)
    BY <1>1 DEF Insert, Ends
  <1> DEFINE c == IF Ends THEN b + 1 ELSE b
  <1>17. u + Len(ts) = c * Stride + rtpInBlock' * PerRtp
    <2> DEFINE bs == b * Stride
               rp == r * PerRtp
    <2>1. bs \in Nat /\ rp \in Nat /\ (b + 1) * Stride = bs + Stride
          /\ (r + 1) * PerRtp = rp + PerRtp /\ PerMarker * PerRtp = Whole /\ 0 * PerRtp = 0
      BY <1>15, WholeIs DEF Whole
    <2>2. u + l = bs + rp
      BY DEF StreamAt
    <2>3. CASE Ends
      <3>1. rp + PerRtp = Whole
        BY <1>15, <2>1, <2>3
      <3>2. c * Stride = bs + Stride /\ rtpInBlock' * PerRtp = 0
        BY <1>16, <2>1, <2>3
      <3>3. u + Len(ts) = bs + rp + PerRtp + 1
        <4> HIDE DEF u, l, bs, rp
        <4> QED BY <1>4, <1>5, <2>1, <2>2, <2>3, WholeIs
      <3> HIDE DEF u, l, bs, rp, c
      <3> QED BY <2>1, <3>1, <3>2, <3>3, WholeIs
    <2>4. CASE ~Ends
      <3>1. c * Stride = bs /\ rtpInBlock' * PerRtp = rp + PerRtp
        BY <1>16, <2>1, <2>4
      <3>2. u + Len(ts) = bs + rp + PerRtp
        <4> HIDE DEF u, l, bs, rp
        <4> QED BY <1>4, <1>5, <2>1, <2>2, <2>4, WholeIs
      <3> HIDE DEF u, l, bs, rp, c
      <3> QED BY <2>1, <3>1, <3>2, WholeIs
    <2> QED BY <2>3, <2>4
  <1>18. nextRtp' = Payload(c, rtpInBlock')
    <2> DEFINE x == b * PerMarker + r
               y == c * PerMarker + rtpInBlock'
    <2>1. x \in Int /\ y = x + 1
      <3>1. b * PerMarker \in Nat /\ (b + 1) * PerMarker = b * PerMarker + PerMarker
        BY WholeIs
      <3>2. CASE Ends
        <4>1. c = b + 1 /\ rtpInBlock' = 0
          BY <1>16, <3>2
        <4> HIDE DEF c
        <4> QED BY <1>15, <3>1, <3>2, <4>1
      <3>3. CASE ~Ends
        <4>1. c = b /\ rtpInBlock' = r + 1
          BY <1>16, <3>3
        <4> HIDE DEF c
        <4> QED BY <1>15, <3>1, <4>1
      <3> QED BY <3>2, <3>3
    <2>2. nextRtp = x % RtpMod
      BY DEF StreamAt, Payload
    <2>3. Payload(c, rtpInBlock') = y % RtpMod
      BY DEF Payload
    <2>4. RtpMod \in Nat \ {0} /\ 1 \in Int
      BY StreamAssumption
    <2> HIDE DEF x, y, c
    <2>5. ((x % RtpMod) + 1) % RtpMod = (x + 1) % RtpMod
      <3> DEFINE one == 1
      <3>1. one \in Int
        OBVIOUS
      <3> HIDE DEF one
      <3>2. ((x % RtpMod) + one) % RtpMod = (x + one) % RtpMod
        BY <2>1, <2>4, <3>1, NumberAfter
      <3> QED BY <3>2 DEF one
    <2> QED BY <1>2, <2>1, <2>2, <2>3, <2>5
  <1>19. rtpInBlock' > 0 => blockStart' = Payload(c, 0)
    <2>1. CASE Ends
      BY <1>16, <2>1
    <2>2. CASE ~Ends
      <3>1. StartOf(nextRtp) = Payload(b, 0)
        <4>1. CASE rtpInBlock = 0
          BY <4>1 DEF StartOf, StreamAt
        <4>2. CASE rtpInBlock # 0
          BY <1>15, <4>2 DEF StartOf, StreamAt
        <4> QED BY <4>1, <4>2
      <3> QED BY <1>16, <2>2, <3>1
    <2> QED BY <2>1, <2>2
  <1>20. c \in Nat
    OBVIOUS
  <1>21. Carries(input', h)
    BY <1>2 DEF StreamAt
  <1>22. h + Len(input') = v
    BY <1>12
  <1>23. CASE Ends
    <2> DEFINE k == b + 1
    <2>1. k \in Nat /\ c = k
      BY <1>23
    <2> HIDE DEF u, v, n, k, c
    <2>2. StreamAt(h, k)'
      BY <1>8, <1>9, <1>13, <1>14, <1>17, <1>18, <1>19, <1>21, <1>22, <2>1 DEF StreamAt
    <2> QED BY <2>1, <2>2
  <1>24. CASE ~ Ends
    <2>1. c = b
      BY <1>24
    <2> HIDE DEF u, v, n, c
    <2>2. StreamAt(h, b)'
      BY <1>8, <1>9, <1>13, <1>14, <1>17, <1>18, <1>19, <1>21, <1>22, <2>1 DEF StreamAt
    <2> QED BY <2>2
  <1> QED BY <1>23, <1>24

\* The packet in hand is handled, or all of them are gone.
LEMMA InputStream ==
  ASSUME ChainInv, NEW h \in Nat, NEW b \in Nat, NEW n \in Nat, StreamAt(h, b),
         Len(input') \in Nat, n + Len(input') = Len(input),
         \A i \in 1 .. Len(input') : input'[i] = input[n + i],
         UNCHANGED <<inserterVars, wire, nextRtp>>
  PROVE  StreamAt(h + n, b)'
  <1>1. Len(input) \in Nat /\ (h + n) + Len(input') = h + Len(input)
    <2>1. \A l \in Nat : \A k : n + l = k => k \in Nat /\ (h + n) + l = h + k
      OBVIOUS
    <2> QED BY <2>1
  <1>2. Carries(input', h + n)
    <2>1. Carries(input, h) /\ n + Len(input') <= Len(input)
      BY <1>1 DEF StreamAt
    <2> QED BY <1>1, <2>1, CarriedPart
  <1>3. UNCHANGED <<wire, udpBuffer, nextRtp, rtpInBlock, blockStart>>
    BY DEF inserterVars
  <1> QED BY <1>1, <1>2, <1>3 DEF StreamAt

\* The first datagram leaves the wire, for the sender or not.
LEMMA WireStream ==
  ASSUME ChainInv, NEW h \in Nat, NEW b \in Nat, StreamAt(h, b),
         wire # << >>, wire' = Tail(wire), UNCHANGED <<inserterVars, nextRtp>>, input = << >>
  PROVE  /\ Len(Head(wire)) = PerRtp /\ Carries(Head(wire), h)
         /\ input' = Head(wire) => StreamAt(h, b)'
         /\ input' = << >> => StreamAt(h + PerRtp, b)'
  <1> DEFINE n == Len(wire)
  <1>1. InserterTypeOK
    BY DEF ChainInv, ChainTypeOK
  <1>2. /\ n \in Nat \ {0} /\ Head(wire) = wire[1] /\ Len(wire') = n - 1
        /\ \A k \in 1 .. n - 1 : wire'[k] = wire[k + 1]
    <2> DEFINE S == Seq(Ts \cup Marker)
    <2> HIDE DEF S
    <2>0. wire \in Seq(S)
      BY <1>1 DEF InserterTypeOK, S
    <2>1. n \in Nat /\ n # 0
      BY <2>0, EmptySeq, LenProperties
    <2>2. Len(Tail(wire)) = n - 1 /\ \A k \in 1 .. n - 1 : Tail(wire)[k] = wire[k + 1]
      BY <2>0, HeadTailProperties
    <2>3. Head(wire) = wire[1]
      BY <2>0
    <2> QED BY <2>1, <2>2, <2>3
  <1>3. Len(input) = 0 /\ h + Len(input) = h
    OBVIOUS
  <1> DEFINE v == h + PerRtp
  <1>4. /\ Along(h, 1) = h /\ \A k \in Nat \ {0} : Along(v, k) = Along(h, k + 1)
    BY WholeIs, AlongIs
  <1>5. /\ \A k \in 1 .. n : Len(wire[k]) = PerRtp /\ Carries(wire[k], Along(h, k))
        /\ Carries(udpBuffer, Along(h, n + 1))
        /\ Along(h, n + 1) + Len(udpBuffer) = b * Stride + rtpInBlock * PerRtp
        /\ nextRtp = Payload(b, rtpInBlock)
        /\ rtpInBlock > 0 => blockStart = Payload(b, 0)
    BY <1>3 DEF StreamAt
  <1>6. Len(Head(wire)) = PerRtp /\ Carries(Head(wire), h)
    <2>1. 1 \in 1 .. n
      BY <1>2
    <2> QED BY <1>2, <1>4, <1>5, <2>1
  <1>7. UNCHANGED <<udpBuffer, nextRtp, rtpInBlock, blockStart>>
    BY DEF inserterVars
  <1>8. \A k \in 1 .. Len(wire') : Len(wire'[k]) = PerRtp /\ Carries(wire'[k], Along(v, k))
    <2> TAKE k \in 1 .. Len(wire')
    <2>1. k \in 1 .. n - 1 /\ k + 1 \in 1 .. n /\ k \in Nat \ {0}
      BY <1>2
    <2> HIDE DEF v
    <2> QED BY <1>2, <1>4, <1>5, <2>1
  <1>9. Along(v, Len(wire') + 1) = Along(h, n + 1)
    <2>1. Len(wire') + 1 = n
      BY <1>2
    <2> HIDE DEF v
    <2> QED BY <1>2, <1>4, <2>1
  <1>10. ASSUME input' = Head(wire) PROVE StreamAt(h, b)'
    <2>1. h + Len(input') = v
      BY <1>6, <1>10
    <2> HIDE DEF v
    <2> QED BY <1>5, <1>6, <1>7, <1>8, <1>9, <1>10, <2>1 DEF StreamAt
  <1>11. ASSUME input' = << >> PROVE StreamAt(h + PerRtp, b)'
    <2>1. h + PerRtp + Len(input') = v
      BY <1>11, WholeIs
    <2>2. Carries(input', h + PerRtp)
      BY <1>11 DEF Carries
    <2> HIDE DEF v
    <2> QED BY <1>5, <1>7, <1>8, <1>9, <2>1, <2>2 DEF StreamAt
  <1> QED BY <1>6, <1>10, <1>11

\* What the sender has of block a when the packets in hand begin at place h: each
\* packet is no earlier in the stream than its place in the block, and no later than
\* the packets after it allow.  The losses it has not been told of are whole blocks.
BlockAt(h, a) ==
  circuitState = "normal" /\ firstMarkerSeen =>
    /\ BlockOf(h) = a + (lossRun - losses)
    /\ a * Stride + Len(block) <= h
    /\ \A i \in 1 .. Len(block) : \E t \in Nat :
         a * Stride + (i - 1) <= t /\ t + (Len(block) - i) < h /\ IsAt(block[i], t)

\* The packet in hand is the one at place h.
LEMMA HeadAt ==
  ASSUME ChainInv, NEW h \in Nat, NEW b \in Nat, StreamAt(h, b), NEW p \in Current, Takes(p),
         UNCHANGED <<inserterVars, wire, nextRtp>>
  PROVE  IsAt(p, h) /\ StreamAt(h + 1, b)'
  <1> DEFINE S == Ts \cup Marker
  <1>1. input \in Seq(S) /\ input # << >> /\ p = Head(input) /\ input' = Tail(input)
    BY DEF ChainInv, ChainTypeOK, SenderTypeOK, Takes
  <1> HIDE DEF S
  <1>2. /\ Len(input) \in Nat \ {0} /\ p = input[1] /\ Len(input') = Len(input) - 1
        /\ \A i \in 1 .. Len(input') : input'[i] = input[i + 1]
    <2>1. Len(input) \in Nat /\ Len(input) # 0
      BY <1>1, EmptySeq, LenProperties
    <2>2. Head(input) = input[1]
      BY <1>1
    <2> QED BY <1>1, <2>1, <2>2, HeadTailProperties
  <1>3. IsAt(p, h)
    <2>1. 1 \in 1 .. Len(input) /\ h + (1 - 1) = h
      BY <1>2
    <2>2. IsAt(input[1], h + (1 - 1))
      BY <2>1 DEF StreamAt, Carries
    <2> QED BY <1>2, <2>1, <2>2
  <1> DEFINE n == 1
  <1>4. /\ n \in Nat /\ Len(input') \in Nat /\ n + Len(input') = Len(input)
        /\ \A i \in 1 .. Len(input') : input'[i] = input[n + i]
    <2>1. \A i \in 1 .. Len(input') : i + 1 = n + i
      BY <1>2
    <2> QED BY <1>2, <2>1
  <1> HIDE DEF n
  <1>5. StreamAt(h + n, b)'
    BY <1>4, InputStream
  <1> QED BY <1>3, <1>5 DEF n

\* The block stays as it is while the stream moves on.
LEMMA BlockStays ==
  ASSUME NEW h \in Nat, NEW a \in Nat, NEW n \in Nat, BlockAt(h, a), ChainInv,
         circuitState' = "normal" /\ firstMarkerSeen' =>
           /\ circuitState = "normal" /\ firstMarkerSeen /\ block' = block /\ losses' = losses
           /\ lossRun' \in Nat /\ BlockOf(h + n) = BlockOf(h) + (lossRun' - lossRun)
  PROVE  BlockAt(h + n, a)'
  <1> SUFFICES ASSUME circuitState' = "normal", firstMarkerSeen'
               PROVE  /\ BlockOf(h + n) = a + (lossRun' - losses')
                      /\ a * Stride + Len(block') <= h + n
                      /\ \A i \in 1 .. Len(block') : \E t \in Nat :
                           a * Stride + (i - 1) <= t /\ t + (Len(block') - i) < h + n
                             /\ IsAt(block'[i], t)
    BY DEF BlockAt
  <1>1. /\ circuitState = "normal" /\ firstMarkerSeen /\ block' = block /\ losses' = losses
        /\ lossRun' \in Nat /\ BlockOf(h + n) = BlockOf(h) + (lossRun' - lossRun)
    OBVIOUS
  <1> DEFINE bs == a * Stride
             l == Len(block)
  <1>2. lossRun \in Int /\ losses \in Int
    BY AwaitedType
  <1>3. bs \in Nat /\ l \in Nat
    <2>1. block \in Seq(Ts)
      BY DEF ChainInv, ChainTypeOK, SenderTypeOK
    <2> QED BY <2>1, LenProperties, WholeIs
  <1>4. /\ BlockOf(h) = a + (lossRun - losses) /\ bs + l <= h
        /\ \A i \in 1 .. l : \E t \in Nat : bs + (i - 1) <= t /\ t + (l - i) < h /\ IsAt(block[i], t)
    BY <1>1 DEF BlockAt
  <1> HIDE DEF bs
  <1>5. BlockOf(h + n) = a + (lossRun' - losses')
    BY <1>1, <1>2, <1>4
  <1>6. bs + l <= h + n
    BY <1>3, <1>4
  <1>7. ASSUME NEW i \in 1 .. l
        PROVE  \E t \in Nat : bs + (i - 1) <= t /\ t + (l - i) < h + n /\ IsAt(block[i], t)
    <2>1. PICK t \in Nat : bs + (i - 1) <= t /\ t + (l - i) < h /\ IsAt(block[i], t)
      BY <1>4
    <2> HIDE DEF l
    <2>2. t + (l - i) < h + n
      BY <1>3, <2>1
    <2> QED BY <2>1, <2>2
  <1> QED BY <1>1, <1>5, <1>6, <1>7 DEF bs

\* A packet that is no marker is added at its place.
LEMMA BlockGrows ==
  ASSUME NEW h \in Nat, NEW a \in Nat, BlockAt(h, a), ChainInv, NEW p \in Ts,
         circuitState = "normal", firstMarkerSeen, IsAt(p, h), BlockOf(h + 1) = BlockOf(h),
         block' = Append(block, p), UNCHANGED <<lossRun, losses>>
  PROVE  BlockAt(h + 1, a)'
  <1> DEFINE bs == a * Stride
             l == Len(block)
  <1>1. lossRun \in Int /\ losses \in Int
    BY AwaitedType
  <1>2. block \in Seq(Ts)
    BY DEF ChainInv, ChainTypeOK, SenderTypeOK
  <1>3. bs \in Nat /\ l \in Nat
    BY <1>2, LenProperties, WholeIs
  <1>4. /\ BlockOf(h) = a + (lossRun - losses) /\ bs + l <= h
        /\ \A i \in 1 .. l : \E t \in Nat : bs + (i - 1) <= t /\ t + (l - i) < h /\ IsAt(block[i], t)
    BY DEF BlockAt
  <1>5. Len(block') = l + 1 /\ block'[l + 1] = p /\ \A i \in 1 .. l : block'[i] = block[i]
    <2> HIDE DEF l
    <2> QED BY <1>2, AppendProperties DEF l
  <1> HIDE DEF bs, l
  <1>6. ASSUME NEW i \in 1 .. l + 1
        PROVE  \E t \in Nat : bs + (i - 1) <= t /\ t + ((l + 1) - i) < h + 1 /\ IsAt(block'[i], t)
    <2>1. CASE i \in 1 .. l
      <3>1. PICK t \in Nat : bs + (i - 1) <= t /\ t + (l - i) < h /\ IsAt(block[i], t)
        BY <1>4, <2>1
      <3>2. t + ((l + 1) - i) < h + 1
        BY <1>3, <3>1
      <3>3. block'[i] = block[i]
        BY <1>5, <2>1
      <3> QED BY <3>1, <3>2, <3>3
    <2>2. CASE i = l + 1
      <3>1. bs + (i - 1) <= h /\ h + ((l + 1) - i) < h + 1
        BY <1>3, <1>4, <2>2
      <3>2. IsAt(block'[i], h)
        BY <1>5, <2>2
      <3> QED BY <3>1, <3>2
    <2>3. i \in 1 .. l \/ i = l + 1
      BY <1>3
    <2> QED BY <2>1, <2>2, <2>3
  <1>7. bs + (l + 1) <= h + 1
    BY <1>3, <1>4
  <1>8. BlockOf(h + 1) = a + (lossRun' - losses')
    BY <1>4
  <1> DEFINE n == l + 1
  <1>9. Len(block') = n /\ bs + n <= h + 1
        /\ \A i \in 1 .. n : \E t \in Nat : bs + (i - 1) <= t /\ t + (n - i) < h + 1 /\ IsAt(block'[i], t)
    BY <1>5, <1>6, <1>7
  <1> HIDE DEF n
  <1> QED BY <1>8, <1>9 DEF BlockAt, bs

\* A new block is the one the stream is in.
LEMMA BlockBegins ==
  ASSUME NEW h \in Nat,
         circuitState' = "normal" /\ firstMarkerSeen' =>
           block' = << >> /\ lossRun' = losses' /\ losses' \in Int
  PROVE  BlockAt(h, BlockOf(h))'
  <1> DEFINE a == BlockOf(h)
             bs == a * Stride
  <1>1. a \in Nat /\ bs \in Nat /\ bs <= h
    <2>1. a \in Nat /\ PlaceOf(h) \in 0 .. Whole /\ h = bs + PlaceOf(h)
      BY PlaceType
    <2>2. bs \in Nat
      BY <2>1, WholeIs
    <2> HIDE DEF a, bs
    <2> QED BY <2>1, <2>2, WholeIs
  <1> SUFFICES ASSUME circuitState' = "normal", firstMarkerSeen'
               PROVE  /\ a = a + (lossRun' - losses')
                      /\ bs + Len(block') <= h
                      /\ \A i \in 1 .. Len(block') : \E t \in Nat :
                           bs + (i - 1) <= t /\ t + (Len(block') - i) < h /\ IsAt(block'[i], t)
    BY DEF BlockAt
  <1>2. block' = << >> /\ lossRun' = losses' /\ losses' \in Int /\ Len(block') = 0
    OBVIOUS
  <1> HIDE DEF a, bs
  <1>3. a = a + (lossRun' - losses')
    <2>1. \A x \in Int : a = a + (x - x)
      BY <1>1
    <2> QED BY <1>2, <2>1
  <1>4. bs + Len(block') <= h
    BY <1>1, <1>2
  <1>5. \A i \in 1 .. Len(block') : FALSE
    BY <1>2
  <1> QED BY <1>3, <1>4, <1>5

\* A block is a stretch of the stream: what is in it is in its place.
BlockInv == \E h, b, a \in Nat : StreamAt(h, b) /\ BlockAt(h, a)

\* Quotient and remainder are unique.
LEMMA RemainderOf ==
  ASSUME NEW m \in Nat \ {0}
  PROVE  \A x \in Int : \A e \in 0 .. m - 1 : (m * x + e) % m = e
  <1> SUFFICES ASSUME NEW x \in Int, NEW e \in 0 .. m - 1 PROVE (m * x + e) % m = e
    OBVIOUS
  <1> DEFINE z == m * x + e
  <1>1. z \in Int /\ z = m * x + e
    OBVIOUS
  <1> HIDE DEF z
  <1>2. z % m = e
    BY <1>1, RemainderUnique
  <1> QED BY <1>2 DEF z

LEMMA DivisionUnique ==
  ASSUME NEW m \in Nat \ {0}, NEW x \in Int, NEW y \in Int, NEW e \in 0 .. m - 1,
         NEW f \in 0 .. m - 1, m * x + e = m * y + f
  PROVE  x = y /\ e = f
  <1>1. (m * x + e) % m = e
    BY RemainderOf
  <1>2. (m * y + f) % m = f
    BY RemainderOf
  <1>3. e = f
    BY <1>1, <1>2, Zenon
  <1>4. m * (x - y) = 0
    <2>1. m * x \in Int /\ m * y \in Int /\ m * (x - y) = m * x - m * y
      OBVIOUS
    <2> QED BY <1>3, <2>1
  <1>5. x - y = 0
    BY <1>4
  <1> QED BY <1>3, <1>5

\* The place of a payload's packet in its block.
LEMMA PlaceInBlock ==
  ASSUME NEW k \in 1 .. PerMarker, NEW i \in 1 .. PerRtp,
         NEW j \in 0 .. PerMarker - 1, NEW l \in 1 .. PerRtp,
         ((k - 1) * PerRtp + i) - 1 = j * PerRtp + (l - 1)
  PROVE  j = k - 1 /\ l = i
  <1> DEFINE P == PerRtp
             x == k - 1
             e == i - 1
             f == l - 1
  <1>1. P \in Nat \ {0} /\ x \in Int /\ j \in Int /\ e \in 0 .. P - 1 /\ f \in 0 .. P - 1
    BY WholeIs
  <1>2. x * P = P * x /\ j * P = P * j /\ P * x \in Int /\ P * j \in Int
    BY <1>1
  <1>3. P * x + e = P * j + f
    <2>1. ((x * P) + i) - 1 = j * P + f
      OBVIOUS
    <2>2. x * P \in Int /\ ((x * P) + i) - 1 = x * P + e
      BY <1>1
    <2> HIDE DEF x, e, f, P
    <2> QED BY <1>2, <2>1, <2>2
  <1> HIDE DEF P, x, e, f
  <1>4. x = j /\ e = f
    BY <1>1, <1>3, DivisionUnique
  <1>6. l = i
    BY <1>4 DEF e, f
  <1> QED BY <1>4, <1>6 DEF x

\* With whole blocks and all losses told, a block that is sent is the one before its marker.
LEMMA SentIntact ==
  ASSUME ChainInv, FlightInv, lossRun < MarkerMod, BlocksWhole', NEW m \in Current, SendBlock(m),
         NEW h \in Nat, NEW a \in Nat, IsAt(m, h), BlockAt(h, a)
  PROVE  BlocksIntact'
  <1>1. /\ circuitState = "normal" /\ firstMarkerSeen /\ Receives(m) /\ Takes(m) /\ IsMarker(m)
        /\ m.seq = ExpectedMarker
        /\ out' \in {Null, [start |-> m.start, block |-> block]}
    BY DEF SendBlock, EndsBlock, Good, Receives
  <1>2. CASE out' = Null
    BY <1>2 DEF BlocksIntact
  <1>3. CASE out' = [start |-> m.start, block |-> block] /\ out' # Null
    <2>1. lossRun = losses
      <3>1. LossesWith(m) = lossRun
        BY <1>1, ToldLosses
      <3>2. LossesWith(m) = losses % MarkerMod
        <4>1. ExpectedMarker \in Int /\ losses \in Int /\ lastMarkerSeq \in Int
          <5>1. lastMarkerSeq + 1 \in Int /\ losses \in Int /\ lastMarkerSeq \in Int
            BY AwaitedType
          <5> DEFINE x == lastMarkerSeq + 1
          <5>2. x \in Int
            BY <5>1
          <5> HIDE DEF x
          <5>3. x % MarkerMod \in 0 .. MarkerMod - 1
            BY <5>2, StreamAssumption, Remainder
          <5> QED BY <5>1, <5>3 DEF x, ExpectedMarker
        <4>2. losses + (m.seq - ExpectedMarker) = losses
          <5> DEFINE x == ExpectedMarker
          <5>1. x \in Int /\ m.seq = x
            BY <1>1, <4>1
          <5> HIDE DEF x
          <5> QED BY <4>1, <5>1 DEF x
        <4> QED BY <4>2 DEF LossesWith
      <3>3. losses % MarkerMod = losses
        <4>1. losses \in 0 .. MarkerMod - 1 /\ MarkerMod \in Nat \ {0}
          BY StreamAssumption DEF ChainInv, ChainTypeOK, SenderTypeOK
        <4>2. losses = MarkerMod * 0 + losses /\ losses \in Int
          BY <4>1
        <4> QED BY <4>1, <4>2, RemainderUnique
      <3> QED BY <3>1, <3>2, <3>3
    <2> DEFINE bs == a * Stride
    <2>2. Len(block) = Whole /\ PerMarker * PerRtp = Whole /\ bs \in Nat
      <3>1. out'.block = block
        BY <1>3
      <3> QED BY <1>3, <3>1, WholeIs DEF BlocksWhole, Whole
    <2>3. h = bs + Whole /\ BlockOf(h) = a
      <3>1. BlockOf(h) = a + (lossRun - losses) /\ lossRun \in Int
        BY <1>1, AwaitedType DEF BlockAt
      <3>2. BlockOf(h) = a
        BY <2>1, <3>1
      <3>3. PlaceOf(h) = Whole
        BY <1>1 DEF IsAt
      <3> QED BY <3>2, <3>3, PlaceType
    <2>4. m.start = Payload(a, 0)
      BY <1>1, <2>3 DEF IsAt
    <2>5. ASSUME NEW n \in 1 .. Whole PROVE IsAt(block[n], bs + (n - 1))
      <3>1. PICK t \in Nat : bs + (n - 1) <= t /\ t + (Len(block) - n) < h /\ IsAt(block[n], t)
        BY <1>1, <2>2, <2>5 DEF BlockAt
      <3>2. t = bs + (n - 1)
        <4> HIDE DEF bs
        <4> QED BY <2>2, <2>3, <2>5, <3>1, WholeIs
      <3> QED BY <3>1, <3>2
    <2>6. ASSUME NEW k \in 1 .. PerMarker, NEW i \in 1 .. PerRtp
          PROVE  LET ts == block[(k - 1) * PerRtp + i]
                 IN  ts.rtp = (m.start + k - 1) % RtpMod /\ ts.pos = i
      <3> DEFINE n == (k - 1) * PerRtp + i
                 o == n - 1
                 p == block[n]
      <3>1. n \in 1 .. Whole /\ o \in 0 .. Whole /\ o # Whole
        <4> DEFINE x == (k - 1) * PerRtp
        <4>1. x \in Nat /\ x + PerRtp = k * PerRtp
          BY WholeIs
        <4>2. k * PerRtp <= PerMarker * PerRtp
          BY WholeIs
        <4> HIDE DEF x
        <4>3. x + PerRtp <= Whole
          BY <2>2, <4>1, <4>2
        <4>4. x + i \in 1 .. Whole
          BY <4>1, <4>3, WholeIs
        <4>5. \A z \in 1 .. Whole : z - 1 \in 0 .. Whole /\ z - 1 # Whole
          BY WholeIs
        <4>6. n = x + i /\ o = n - 1
          BY DEF x
        <4> HIDE DEF n, o
        <4> QED BY <4>4, <4>5, <4>6
      <3> HIDE DEF n
      <3>2. IsAt(p, bs + o)
        BY <2>5, <3>1
      <3> HIDE DEF o, p
      <3>3. BlockOf(bs + o) = a /\ PlaceOf(bs + o) = o
        BY <3>1, PlaceIs
      <3>4. PICK j \in 0 .. PerMarker - 1, l \in 1 .. PerRtp :
              o = j * PerRtp + (l - 1) /\ p.rtp = Payload(a, j) /\ p.pos = l
        BY <3>1, <3>2, <3>3 DEF IsAt
      <3>5. j = k - 1 /\ l = i
        <4>1. ((k - 1) * PerRtp + i) - 1 = j * PerRtp + (l - 1)
          BY <3>4 DEF o, n
        <4> QED BY <4>1, PlaceInBlock
      <3>6. Payload(a, k - 1) = (m.start + k - 1) % RtpMod
        <4> DEFINE x == a * PerMarker
                   y == k - 1
        <4>1. x \in Int /\ y \in Int /\ x + 0 = x /\ RtpMod \in Nat \ {0}
          BY WholeIs, StreamAssumption
        <4>2. Payload(a, y) = (x + y) % RtpMod /\ Payload(a, 0) = (x + 0) % RtpMod
          BY DEF Payload
        <4>3. m.start = x % RtpMod
          BY <2>4, <4>1, <4>2
        <4>4. m.start + k - 1 = m.start + y
          OBVIOUS
        <4> HIDE DEF x, y
        <4>5. ((x % RtpMod) + y) % RtpMod = (x + y) % RtpMod
          BY <4>1, NumberAfter
        <4>6. Payload(a, y) = (m.start + y) % RtpMod
          BY <4>2, <4>3, <4>5
        <4> QED BY <4>4, <4>6 DEF y
      <3> QED BY <3>4, <3>5, <3>6 DEF p, n
    <2>7. Len(block) \div PerRtp = PerMarker
      <3>1. Whole = PerRtp * PerMarker /\ PerRtp \in Nat \ {0} /\ PerMarker \in Nat
        BY <2>2, WholeIs
      <3> QED BY <2>2, <3>1
    <2>8. out'.start = m.start /\ out'.block = block
      BY <1>3
    <2> QED BY <2>6, <2>7, <2>8 DEF BlocksIntact, PayloadIntact
  <1> QED BY <1>1, <1>2, <1>3

LEMMA BlockFound ==
  ASSUME NEW h \in Nat, NEW b \in Nat, NEW a \in Nat, StreamAt(h, b)', BlockAt(h, a)'
  PROVE  BlockInv'
  BY DEF BlockInv

\* The sender handles the packet in hand.
LEMMA ProcessBlock ==
  ASSUME ChainInv, FlightInv, lossRun < MarkerMod, BlockInv, Process
  PROVE  BlockInv'
  <1>1. PICK h \in Nat, b \in Nat, a \in Nat : StreamAt(h, b) /\ BlockAt(h, a)
    BY DEF BlockInv
  <1>2. PICK p \in Current : Buffer(p) \/ Discard(p) \/ ProcessMarker(p)
    BY DEF Process, Handle
  <1>3. UNCHANGED <<inserterVars, wire, nextRtp>> /\ Takes(p)
    BY <1>2, StepTakes DEF Process, Steps
  <1> DEFINE g == h + 1
  <1>4. IsAt(p, h) /\ StreamAt(g, b)'
    BY <1>1, <1>3, HeadAt
  <1>5. g \in Nat /\ BlockOf(g) \in Nat /\ BlockOf(h) \in Nat /\ PlaceOf(h) \in 0 .. Whole
    <2>1. g \in Nat
      OBVIOUS
    <2> HIDE DEF g
    <2> QED BY <2>1, PlaceType
  <1>6. lossRun \in Nat /\ lossRun \in Int /\ losses \in Int
    BY AwaitedType DEF ChainInv, ChainTypeOK
  <1>7. CASE ~ IsMarker(p)
    <2>1. BlockOf(h + 1) = BlockOf(h)
      <3>1. PlaceOf(h) # Whole
        BY <1>4, <1>7 DEF IsAt
      <3>2. PlaceOf(h) + 1 <= Whole /\ 1 \in 0 .. Stride
        BY <1>5, <3>1, WholeIs
      <3> QED BY <3>2, MoveOn
    <2>2. ~ Accepts /\ lossRun' = lossRun
      <3>1. \A m \in Current : m = p
        BY DEF Current
      <3> QED BY <1>7, <3>1 DEF Accepts, EnterRecovery, FirstMarker, Good, Receives, Process
    <2>3. CASE Buffer(p) /\ circuitState = "normal"
      <3>1. p \in Ts
        <4> DEFINE S == Ts \cup Marker
        <4>1. input \in Seq(S) /\ input # << >> /\ p = Head(input)
          BY <1>3 DEF ChainInv, ChainTypeOK, SenderTypeOK, Takes
        <4>2. p \in S
          <5> HIDE DEF S
          <5> QED BY <4>1, HeadTailProperties
        <4> QED BY <1>7, <4>2 DEF IsMarker, Marker
      <3>2. block' = Append(block, p) /\ firstMarkerSeen /\ UNCHANGED losses
        BY <2>3 DEF Buffer, breakerVars
      <3>3. BlockAt(h + 1, a)'
        BY <1>1, <1>4, <2>1, <2>2, <2>3, <3>1, <3>2, BlockGrows
      <3> QED BY <1>4, <1>5, <3>3, BlockFound
    <2>4. CASE Discard(p) \/ circuitState # "normal"
      <3>1. /\ UNCHANGED <<circuitState, firstMarkerSeen, losses>>
            /\ circuitState = "normal" => block' = block
        BY <1>2, <1>7, <2>4 DEF Buffer, Discard, ProcessMarker, EnterRecovery, FirstMarker,
             TripOnLosses, MissInRecovery, Resync, Synchronize, EmptyBlock, SendBlock,
             GoodInRecovery, TripOnFailures, FailInRecovery, DropBlock, EndsBlock, Good, Gap,
             Receives, breakerVars, syncVars, blockVars
      <3> DEFINE n == 1
      <3>2. n \in Nat /\ BlockOf(h + n) = BlockOf(h) + (lossRun' - lossRun)
        BY <1>5, <1>6, <2>1, <2>2
      <3> HIDE DEF n
      <3>3. BlockAt(h + n, a)'
        BY <1>1, <1>6, <2>2, <3>1, <3>2, BlockStays
      <3> QED BY <1>4, <1>5, <3>3, BlockFound DEF n
    <2> QED BY <1>2, <1>7, <2>3, <2>4 DEF ProcessMarker, EnterRecovery, FirstMarker,
         TripOnLosses, MissInRecovery, Resync, Synchronize, EmptyBlock, SendBlock,
         GoodInRecovery, TripOnFailures, FailInRecovery, DropBlock, EndsBlock, Good, Gap,
         Receives
  <1>8. CASE IsMarker(p)
    <2>1. ProcessMarker(p) /\ Receives(p) /\ \A m \in Current : m = p
      BY <1>2, <1>3, <1>8 DEF Buffer, Discard, Current, Receives
    <2>2. circuitState' = "normal" /\ firstMarkerSeen' =>
            block' = << >> /\ lossRun' = losses' /\ losses' \in Int
      <3> SUFFICES ASSUME circuitState' = "normal", firstMarkerSeen'
                   PROVE  block' = << >> /\ lossRun' = losses' /\ losses' \in Int
        OBVIOUS
      <3>1. FirstMarker(p) \/ Resync(p) \/ (Proceed(p) /\ Good(p))
        BY <2>1 DEF ProcessMarker, EnterRecovery, TripOnLosses, MissInRecovery, Synchronize,
             EmptyBlock, SendBlock, GoodInRecovery, TripOnFailures, FailInRecovery, DropBlock,
             EndsBlock, Trip, FallBack
      <3>2. CASE FirstMarker(p)
        <4>1. block' = << >> /\ losses' = losses /\ circuitState = "normal" /\ ~ firstMarkerSeen
          BY <3>2 DEF FirstMarker, NewBlock
        <4>2. losses = 0
          BY <4>1 DEF FlightInv
        <4>3. lossRun' = 0
          BY <3>2 DEF Accepts, Process
        <4> QED BY <4>1, <4>2, <4>3
      <3>3. CASE Proceed(p) /\ Good(p)
        <4>1. block' = << >> /\ losses' = 0
          BY <3>3 DEF Proceed, NewBlock
        <4>2. lossRun' = 0
          BY <3>3 DEF Accepts, Process
        <4> QED BY <4>1, <4>2
      <3>4. CASE Resync(p)
        <4>1. /\ block' = << >> /\ losses' = LossesWith(p) /\ circuitState = "normal"
              /\ firstMarkerSeen /\ Gap(p)
          BY <3>4 DEF Resync, Gap, NewBlock
        <4>2. LossesWith(p) = lossRun
          BY <2>1, <4>1, ToldLosses
        <4>3. ~ Accepts
          BY <2>1, <4>1 DEF Accepts, EnterRecovery, FirstMarker, Good, Gap
        <4>4. lossRun' = lossRun
          BY <4>3 DEF Process
        <4> QED BY <1>6, <4>1, <4>2, <4>4
      <3> QED BY <3>1, <3>2, <3>3, <3>4
    <2> HIDE DEF g
    <2>3. BlockAt(g, BlockOf(g))'
      BY <1>5, <2>2, BlockBegins
    <2> QED BY <1>4, <1>5, <2>3, BlockFound
  <1> QED BY <1>7, <1>8

\* What the sender keeps while it handles nothing.
LEMMA QuietBlock ==
  ASSUME ChainInv, NEW h \in Nat, NEW a \in Nat, BlockAt(h, a),
         UNCHANGED <<circuitState, firstMarkerSeen, block, losses, lossRun>>
  PROVE  BlockAt(h, a)'
  BY DEF BlockAt

LEMMA BlockNext ==
  ASSUME OnlyDrops, ChainInv, FlightInv, lossRun < MarkerMod, BlockInv, [Next]_vars
  PROVE  BlockInv'
  <1>1. PICK h \in Nat, b \in Nat, a \in Nat : StreamAt(h, b) /\ BlockAt(h, a)
    BY DEF BlockInv
  <1>2. ~ FlowGap /\ ~ StopInserter /\ ~ Swap /\ ~ DeliverAgain
    BY DEF OnlyDrops, FlowGap, StopInserter, Swap, DeliverAgain, Trouble
  <1>3. CASE Produce
    <2>1. PICK c \in Nat : StreamAt(h, c)'
      BY <1>1, <1>3, ProduceStream
    <2>2. BlockAt(h, a)'
      BY <1>1, <1>3, QuietBlock DEF Produce, senderVars, syncVars, blockVars, breakerVars
    <2> QED BY <2>1, <2>2, BlockFound
  <1>4. CASE Deliver
    <2>1. wire # << >> /\ wire' = Tail(wire) /\ input = << >> /\ input' = Head(wire)
          /\ UNCHANGED <<inserterVars, nextRtp>>
      BY <1>4 DEF Deliver, Arrive, chainVars
    <2>2. StreamAt(h, b)'
      BY <1>1, <2>1, WireStream
    <2>3. BlockAt(h, a)'
      BY <1>1, <1>4, QuietBlock DEF Deliver, Arrive, chainVars, syncVars, blockVars, breakerVars
    <2> QED BY <2>2, <2>3, BlockFound
  <1>5. CASE Lose
    <2>1. wire # << >> /\ wire' = Tail(wire) /\ input = << >> /\ input' = << >>
          /\ UNCHANGED <<inserterVars, nextRtp>>
          /\ UNCHANGED <<circuitState, firstMarkerSeen, block, losses>>
          /\ lossRun' = IF HasMarker(Head(wire)) THEN lossRun + 1 ELSE lossRun
      BY <1>5 DEF Lose, senderVars, syncVars, blockVars, breakerVars
    <2>2. Len(Head(wire)) = PerRtp /\ Carries(Head(wire), h) /\ StreamAt(h + PerRtp, b)'
      BY <1>1, <2>1, WireStream
    <2>3. BlockOf(h + PerRtp) = IF HasMarker(Head(wire)) THEN BlockOf(h) + 1 ELSE BlockOf(h)
      BY <2>2, CarriesMarker
    <2>4. lossRun' \in Nat /\ BlockOf(h + PerRtp) = BlockOf(h) + (lossRun' - lossRun)
      <3>1. lossRun \in Nat /\ BlockOf(h) \in Nat
        BY PlaceType DEF ChainInv, ChainTypeOK
      <3> QED BY <2>1, <2>3, <3>1
    <2>5. BlockAt(h + PerRtp, a)'
      BY <1>1, <2>1, <2>4, BlockStays, WholeIs
    <2>6. h + PerRtp \in Nat
      BY WholeIs
    <2> QED BY <2>2, <2>5, <2>6, BlockFound
  <1>6. CASE Process
    BY <1>6, ProcessBlock
  <1>7. CASE Settle \/ Connect \/ Disconnect \/ Tick \/ UNCHANGED vars
    <2>1. UNCHANGED <<inserterVars, wire, input, nextRtp, circuitState, firstMarkerSeen, block,
                      losses, lossRun>>
      BY <1>7 DEF Settle, Connect, Disconnect, Tick, PeerChange, TickSender, vars, chainVars,
           senderVars, syncVars, blockVars, breakerVars
    <2>2. BlockAt(h, a)'
      BY <1>1, <2>1, QuietBlock
    <2>3. StreamAt(h, b)'
      BY <1>1, <2>1 DEF StreamAt, inserterVars
    <2> QED BY <2>2, <2>3, BlockFound
  <1>8. CASE Restart
    <2>1. UNCHANGED <<inserterVars, wire, nextRtp>> /\ input' = << >> /\ ~ firstMarkerSeen'
      BY <1>8 DEF Restart
    <2>2. Len(input) \in Nat /\ Len(input') = 0
      <3>1. input \in Seq(Ts \cup Marker)
        BY DEF ChainInv, ChainTypeOK, SenderTypeOK
      <3> QED BY <2>1, <3>1, LenProperties
    <2>3. PICK n \in Nat : n = Len(input)
      BY <2>2
    <2>4. /\ Len(input') \in Nat /\ n + Len(input') = Len(input)
          /\ \A i \in 1 .. Len(input') : input'[i] = input[n + i]
      BY <2>2, <2>3
    <2>5. StreamAt(h + n, b)'
      BY <1>1, <2>1, <2>4, InputStream
    <2>6. BlockAt(h + n, a)'
      BY <2>1 DEF BlockAt
    <2>7. h + n \in Nat
      OBVIOUS
    <2> QED BY <2>5, <2>6, <2>7, BlockFound
  <1> QED BY <1>2, <1>3, <1>4, <1>5, <1>6, <1>7, <1>8 DEF Next

\* The inserter begins its first block, and nothing is on its way.
LEMMA BlockInit == Init => BlockInv
  <1> SUFFICES ASSUME Init PROVE BlockInv
    OBVIOUS
  <1>1. /\ input = << >> /\ wire = << >> /\ udpBuffer = << >> /\ nextRtp = 0 /\ rtpInBlock = 0
        /\ ~ firstMarkerSeen /\ Len(input) = 0 /\ Len(wire) = 0 /\ Len(udpBuffer) = 0
    BY DEF Init, InserterInit, SenderInit
  <1>2. BlockAt(0, 0)
    BY <1>1 DEF BlockAt
  <1>3. Payload(0, 0) = 0
    <2>1. 0 * PerMarker + 0 = 0
      BY WholeIs
    <2>2. 0 % RtpMod = 0
      <3>1. 0 \in 0 .. RtpMod - 1 /\ 0 = RtpMod * 0 + 0 /\ 0 \in Int
        BY StreamAssumption
      <3> QED BY <3>1, RemainderUnique, StreamAssumption
    <2> QED BY <2>1, <2>2 DEF Payload
  <1>4. Along(0, 1) = 0 /\ 0 * Stride + 0 * PerRtp = 0
    BY AlongStarts, WholeIs
  <1>5. StreamAt(0, 0)
    <2>1. Carries(<< >>, 0)
      BY DEF Carries
    <2>2. 0 + Len(input) = 0 /\ Len(wire) + 1 = 1
      BY <1>1
    <2> QED BY <1>1, <1>3, <1>4, <2>1, <2>2 DEF StreamAt
  <1> QED BY <1>2, <1>5 DEF BlockInv

\* Whatever datagrams are lost, a block that is sent is one of the flow it came from:
\* all its payloads are whole, in order and under their own sequence numbers, as long
\* as the numbers of the markers have not come round.
THEOREM BlocksAreIntact ==
  PerRtp > 1 /\ Fits /\ OnlyDrops /\ MaxLossRun < MarkerMod => (Spec => []BlocksIntact)
  <1> SUFFICES ASSUME PerRtp > 1, Fits, OnlyDrops, MaxLossRun < MarkerMod
               PROVE  Spec => []BlocksIntact
    OBVIOUS
  <1> DEFINE Inv == FlightInv /\ LossBounded /\ Tally /\ BlocksWhole /\ BlockInv /\ BlocksIntact
  <1>1. Init => Inv
    <2> SUFFICES ASSUME Init PROVE Inv
      OBVIOUS
    <2>1. << >> \in Seq(Tallied) /\ << >> \in Seq(Seq(Tallied))
      OBVIOUS
    <2>2. Tally /\ BlocksWhole /\ BlocksIntact
      BY <2>1 DEF Init, InserterInit, SenderInit, Tally, BlocksWhole, BlocksIntact
    <2>3. LossBounded
      BY ChainAssumption DEF Init, LossBounded
    <2> QED BY <2>2, <2>3, FlightInit, BlockInit
  <1>2. ChainInv /\ Inv /\ [Next]_vars => Inv'
    <2> SUFFICES ASSUME ChainInv, Inv, [Next]_vars PROVE Inv'
      OBVIOUS
    <2>1. OnlyLoses
      BY DEF OnlyDrops, OnlyLoses
    <2>2. FlightInv' /\ LossBounded' /\ Tally' /\ BlocksWhole'
      BY <2>1, FlightNext, BoundedNext, TallyNext, WholeNext
    <2>3. lossRun < MarkerMod
      BY StreamAssumption, ChainAssumption DEF LossBounded, ChainInv, ChainTypeOK
    <2>4. BlockInv'
      BY <2>3, BlockNext
    <2>5. BlocksIntact'
      <3>1. CASE out' = Null \/ UNCHANGED out
        BY <3>1 DEF BlocksIntact
      <3>2. CASE Process
        <4>1. PICK p \in Current : Steps(p)
          BY <3>2 DEF Process, Handle, Steps
        <4>2. SendBlock(p) \/ out' = Null
          BY <4>1 DEF Steps, Buffer, Discard, ProcessMarker, EnterRecovery, FirstMarker,
            TripOnLosses, MissInRecovery, Resync, Synchronize, EmptyBlock, GoodInRecovery,
            TripOnFailures, FailInRecovery, DropBlock, Trip, FallBack
        <4>3. CASE SendBlock(p)
          <5>1. PICK h \in Nat, b \in Nat, a \in Nat : StreamAt(h, b) /\ BlockAt(h, a)
            BY DEF BlockInv
          <5>2. Takes(p) /\ UNCHANGED <<inserterVars, wire, nextRtp>>
            BY <3>2, <4>1, StepTakes DEF Process
          <5>3. IsAt(p, h)
            BY <5>1, <5>2, HeadAt
          <5> QED BY <2>2, <2>3, <4>3, <5>1, <5>3, SentIntact
        <4> QED BY <3>1, <4>2, <4>3
      <3>3. UNCHANGED out \/ out' = Null \/ Process
        BY DEF Next, Produce, FlowGap, StopInserter, Lose, Swap, Deliver, DeliverAgain, Settle,
               Connect, Disconnect, Tick, Restart, Arrive, PeerChange, TickSender, senderVars,
               vars
      <3> QED BY <3>1, <3>2, <3>3
    <2> QED BY <2>2, <2>4, <2>5
  <1>3. Inv => BlocksIntact
    OBVIOUS
  <1> HIDE DEF Inv
  <1> QED BY <1>1, <1>2, <1>3, ChainCorrect, PTL DEF Spec
=============================================================================
