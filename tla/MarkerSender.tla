---------------------------- MODULE MarkerSender ----------------------------
(***************************************************************************)
(* ristsender_marker: TS packets come in over UDP, the ones between two    *)
(* markers make a block, and a block that agrees with the marker at its    *)
(* end is sent into a RIST flow under the sequence numbers it had in the   *)
(* flow it came from.  A circuit breaker gives up the RIST sender when     *)
(* markers are lost or blocks fail, watches the input recover, and asks    *)
(* (RESTART SENDER) for the process to be started again.                   *)
(*                                                                         *)
(* input_udp_recv handles a datagram packet by packet: each packet is a    *)
(* step here, so that connection_status_callback, on a librist thread, may *)
(* come in between.  Times are kept as ages in ticks, up to the age at     *)
(* which the code stops telling them apart.                                *)
(***************************************************************************)
EXTENDS MarkerStream

CONSTANTS
  LossThreshold,      \* CONSECUTIVE_MARKER_LOSS_THRESHOLD, 10
  FailureThreshold,   \* VALIDATION_FAILURE_THRESHOLD, 10
  Window,             \* VALIDATION_FAILURE_WINDOW_US, 10 s
  GoodRequired,       \* RECOVERY_GOOD_BLOCKS_REQUIRED, 10
  RecoveryTime,       \* RECOVERY_TIME_REQUIRED_US, 10 s
  MessageInterval,    \* RESTART_MESSAGE_INTERVAL_US, 5 s
  MaxBlock,           \* MAX_BLOCK_TS_PACKETS
  Null,               \* no block
  MaxCount            \* bound: packets between two markers

ASSUME BreakerAssumption ==
  /\ LossThreshold \in Nat \ {0} /\ FailureThreshold \in Nat \ {0}
  /\ Window \in Nat /\ GoodRequired \in Nat \ {0} /\ RecoveryTime \in Nat
  /\ MessageInterval \in Nat /\ MaxBlock \in Nat /\ MaxCount \in Nat

VARIABLES
  input,              \* the packets of a datagram still to be handled
  circuitState,
  senderCtx,          \* sender_ctx is not NULL
  peerConnected,      \* peer_connected_count is not 0
  firstMarkerSeen, synchronized, lastMarkerSeq,
  block,              \* block_buffer up to block_ts_count
  blockCount,         \* block_ts_count
  blockNonNull, blockNull,
  losses,             \* consecutive_marker_losses
  failureAge,         \* validation_failure_timestamps; 0 is Window + 1
  failureIndex,
  goodBlocks, recoveryAge,
  messageAge,         \* last_restart_message_time; 0 is MessageInterval
  restartAsked,       \* RESTART SENDER was printed since the process started
  out,                \* history: the block the last step sent, or Null
  failureLog          \* history: ages of the last failures, newest first

blockVars == <<block, blockCount, blockNonNull, blockNull>>
failureVars == <<failureAge, failureIndex, failureLog>>
breakerVars == <<circuitState, senderCtx, losses, failureVars>>
recoveryVars == <<goodBlocks, recoveryAge, messageAge, restartAsked>>
syncVars == <<firstMarkerSeen, synchronized, lastMarkerSeq>>
senderVars == <<input, peerConnected, syncVars, blockVars, breakerVars,
                recoveryVars, out>>

Sent == [start : 0 .. RtpMod - 1, block : Seq(Ts)]
Slots == 0 .. FailureThreshold - 1

\* The type of every variable.
SenderTypeOK ==
  /\ input \in Seq(Ts \cup Marker)
  /\ circuitState \in {"normal", "shutdown", "recovery"}
  /\ senderCtx \in BOOLEAN /\ peerConnected \in BOOLEAN
  /\ firstMarkerSeen \in BOOLEAN /\ synchronized \in BOOLEAN
  /\ lastMarkerSeq \in 0 .. MarkerMod - 1
  /\ block \in Seq(Ts) /\ blockCount \in Nat
  /\ blockNonNull \in 0 .. CountMod - 1 /\ blockNull \in 0 .. CountMod - 1
  /\ losses \in 0 .. MarkerMod - 1
  /\ failureAge \in [Slots -> 0 .. Window + 1] /\ failureIndex \in Slots
  /\ goodBlocks \in 0 .. GoodRequired /\ recoveryAge \in 0 .. RecoveryTime
  /\ messageAge \in 0 .. MessageInterval
  /\ restartAsked \in BOOLEAN
  /\ out \in Sent \cup {Null}
  /\ failureLog \in [1 .. FailureThreshold -> 0 .. Window + 1]

SenderInit ==
  /\ input = << >>
  /\ circuitState = "normal" /\ senderCtx = TRUE /\ peerConnected = FALSE
  /\ firstMarkerSeen = FALSE /\ synchronized = FALSE /\ lastMarkerSeq = 0
  /\ block = << >> /\ blockCount = 0 /\ blockNonNull = 0 /\ blockNull = 0
  /\ losses = 0
  /\ failureAge = [i \in Slots |-> Window + 1] /\ failureIndex = 0
  /\ goodBlocks = 0 /\ recoveryAge = 0 /\ messageAge = MessageInterval
  /\ restartAsked = FALSE
  /\ out = Null
  /\ failureLog = [k \in 1 .. FailureThreshold |-> Window + 1]

-----------------------------------------------------------------------------
(* Packets of the stream: input_udp_recv and buffer_ts_packet.             *)

\* A datagram is received once the one before it has been handled.
Arrive(datagram) ==
  /\ input = << >> /\ datagram # << >>
  /\ input' = datagram
  /\ out' = Null
  /\ UNCHANGED <<peerConnected, syncVars, blockVars, breakerVars, recoveryVars>>

Takes(p) == input # << >> /\ p = Head(input) /\ input' = Tail(input)
IsMarker(p) == p.kind = "marker"

Count(p) ==
  /\ blockCount' = blockCount + 1
  /\ IF p.kind = "null"
       THEN blockNull' = (blockNull + 1) % CountMod /\ blockNonNull' = blockNonNull
       ELSE blockNonNull' = (blockNonNull + 1) % CountMod /\ blockNull' = blockNull

\* In RECOVERY packets are only counted.
Buffer(p) ==
  /\ Takes(p) /\ ~IsMarker(p)
  /\ circuitState # "shutdown" /\ firstMarkerSeen
  /\ \/ circuitState = "recovery" /\ Count(p) /\ block' = block
     \/ /\ circuitState = "normal" /\ blockCount < MaxBlock
        /\ Count(p) /\ block' = Append(block, p)
  /\ out' = Null
  /\ UNCHANGED <<peerConnected, syncVars, breakerVars, recoveryVars>>

\* Nothing is kept in SHUTDOWN, before the first marker, or past MaxBlock.
Discard(p) ==
  /\ Takes(p) /\ ~IsMarker(p)
  /\ \/ circuitState = "shutdown" \/ ~firstMarkerSeen
     \/ circuitState = "normal" /\ blockCount >= MaxBlock
  /\ out' = Null
  /\ UNCHANGED <<peerConnected, syncVars, blockVars, breakerVars, recoveryVars>>

-----------------------------------------------------------------------------
(* process_marker, one action per way through it.                          *)

Receives(m) == Takes(m) /\ IsMarker(m)

\* The marker is the first packet of the next block.
NewBlockMutant == UNCHANGED blockVars
NewBlock == /\ block' = << >> /\ blockCount' = 0
            /\ blockNonNull' = 1 % CountMod /\ blockNull' = 0

\* SHUTDOWN: any marker may be the beginning of a recovery.
EnterRecovery(m) ==
  /\ Receives(m) /\ circuitState = "shutdown"
  /\ circuitState' = "recovery"
  /\ goodBlocks' = 0 /\ recoveryAge' = 0 /\ messageAge' = MessageInterval
  /\ synchronized' = FALSE /\ firstMarkerSeen' = TRUE /\ lastMarkerSeq' = m.seq
  /\ losses' = 0
  /\ NewBlock
  /\ out' = Null
  /\ UNCHANGED <<peerConnected, senderCtx, failureVars, restartAsked>>

\* The flow of the RIST sender is named after the marker's SSRC and started.
FirstMarker(m) ==
  /\ Receives(m) /\ circuitState # "shutdown" /\ ~firstMarkerSeen
  /\ firstMarkerSeen' = TRUE /\ synchronized' = FALSE /\ lastMarkerSeq' = m.seq
  /\ NewBlock
  /\ out' = Null
  /\ UNCHANGED <<peerConnected, circuitState, senderCtx, losses, failureVars,
                 recoveryVars>>

\* uint32_t differences: a marker that comes again, or late, is one with almost
\* 2^32 losses before it.
ExpectedMarker == (lastMarkerSeq + 1) % MarkerMod
LossesWithMutant(m) == (losses + (m.seq - ExpectedMarker) + 1) % MarkerMod
LossesWithOnceMutant(m) == (losses + 1) % MarkerMod
LossesWith(m) == (losses + (m.seq - ExpectedMarker)) % MarkerMod
Good(m) == Receives(m) /\ circuitState # "shutdown" /\ firstMarkerSeen
           /\ m.seq = ExpectedMarker
Gap(m) == Receives(m) /\ circuitState # "shutdown" /\ firstMarkerSeen
          /\ m.seq # ExpectedMarker

\* trigger_circuit_breaker: librist's sender is destroyed for good.
Trip ==
  /\ circuitState' = "shutdown" /\ senderCtx' = FALSE
  /\ firstMarkerSeen' = FALSE /\ synchronized' = FALSE
  /\ block' = << >> /\ blockCount' = 0 /\ blockNonNull' = 0 /\ blockNull' = 0
  /\ losses' = 0
  /\ failureAge' = [i \in Slots |-> Window + 1] /\ failureIndex' = 0
  /\ failureLog' = [k \in 1 .. FailureThreshold |-> Window + 1]
  /\ out' = Null
  /\ UNCHANGED <<peerConnected, recoveryVars>>

TripOnLosses(m) ==
  /\ Gap(m) /\ LossesWith(m) >= LossThreshold
  /\ Trip
  /\ UNCHANGED lastMarkerSeq

\* Back to SHUTDOWN: the input has not recovered yet.
FallBack == /\ circuitState' = "shutdown"
            /\ firstMarkerSeen' = FALSE /\ synchronized' = FALSE
            /\ out' = Null
            /\ UNCHANGED <<peerConnected, blockVars, senderCtx, recoveryVars>>

MissInRecovery(m) ==
  /\ Gap(m) /\ LossesWith(m) < LossThreshold
  /\ circuitState = "recovery"
  /\ losses' = LossesWith(m)
  /\ FallBack
  /\ UNCHANGED <<lastMarkerSeq, failureVars>>

Resync(m) ==
  /\ Gap(m) /\ LossesWith(m) < LossThreshold
  /\ circuitState = "normal"
  /\ losses' = LossesWith(m)
  /\ synchronized' = FALSE /\ lastMarkerSeq' = m.seq
  /\ NewBlock
  /\ out' = Null
  /\ UNCHANGED <<peerConnected, firstMarkerSeen, circuitState, senderCtx,
                 failureVars, recoveryVars>>

\* What a good marker does when it neither trips the breaker nor falls back.
Proceed(m) == /\ lastMarkerSeq' = m.seq /\ losses' = 0
              /\ NewBlock
              /\ UNCHANGED <<peerConnected, firstMarkerSeen, circuitState, senderCtx>>

\* The first good marker after a gap: the next block will be complete.
Synchronize(m) ==
  /\ Good(m) /\ ~synchronized
  /\ synchronized' = TRUE
  /\ Proceed(m)
  /\ out' = Null
  /\ UNCHANGED <<failureVars, recoveryVars>>

\* Two markers with nothing in between: neither a good block nor a failure.
EmptyBlock(m) ==
  /\ Good(m) /\ synchronized /\ blockCount = 0
  /\ Proceed(m)
  /\ out' = Null
  /\ UNCHANGED <<synchronized, failureVars, recoveryVars>>

ValidMutant(m) == blockCount % PerRtp = 0
Valid(m) == /\ blockNonNull = m.nonNull /\ blockNull = m.nulls
            /\ blockCount % PerRtp = 0
            /\ blockCount + 1 = m.nonNull + m.nulls
EndsBlock(m) == Good(m) /\ synchronized /\ blockCount > 0

\* send_block_to_rist, which does nothing while no peer is connected.
SendBlock(m) ==
  /\ EndsBlock(m) /\ Valid(m) /\ circuitState = "normal"
  /\ Proceed(m)
  /\ out' = IF peerConnected THEN [start |-> m.start, block |-> block] ELSE Null
  /\ UNCHANGED <<synchronized, failureVars, recoveryVars>>

\* print_restart_message, at most once in MessageInterval.
CountGood == IF goodBlocks < GoodRequired THEN goodBlocks + 1 ELSE goodBlocks
AsksRestartMutant == /\ CountGood >= GoodRequired /\ recoveryAge > RecoveryTime
                     /\ messageAge >= MessageInterval
AsksRestart == /\ CountGood >= GoodRequired /\ recoveryAge >= RecoveryTime
               /\ messageAge >= MessageInterval
GoodInRecovery(m) ==
  /\ EndsBlock(m) /\ Valid(m) /\ circuitState = "recovery"
  /\ Proceed(m)
  /\ goodBlocks' = CountGood
  /\ restartAsked' = (restartAsked \/ AsksRestart)
  /\ messageAge' = IF AsksRestart THEN 0 ELSE messageAge
  /\ out' = Null
  /\ UNCHANGED <<synchronized, failureVars, recoveryAge>>

\* record_validation_failure and check_validation_failure_threshold.
Recorded == [failureAge EXCEPT ![failureIndex] = 0]
NextIndexMutant == failureIndex
NextIndex == IF failureIndex = FailureThreshold - 1 THEN 0 ELSE failureIndex + 1
CatastrophicMutant == \E i \in Slots : i # failureIndex /\ Recorded[i] <= Window
Catastrophic == \A i \in Slots : Recorded[i] <= Window
Record ==
  /\ failureAge' = Recorded /\ failureIndex' = NextIndex
  /\ failureLog' = [k \in 1 .. FailureThreshold |->
                      IF k = 1 THEN 0 ELSE failureLog[k - 1]]

TripOnFailures(m) ==
  /\ EndsBlock(m) /\ ~Valid(m) /\ Catastrophic
  /\ lastMarkerSeq' = m.seq
  /\ Trip

FailInRecovery(m) ==
  /\ EndsBlock(m) /\ ~Valid(m) /\ ~Catastrophic
  /\ circuitState = "recovery"
  /\ lastMarkerSeq' = m.seq /\ losses' = 0
  /\ Record
  /\ FallBack

DropBlock(m) ==
  /\ EndsBlock(m) /\ ~Valid(m) /\ ~Catastrophic
  /\ circuitState = "normal"
  /\ Proceed(m)
  /\ Record
  /\ out' = Null
  /\ UNCHANGED <<synchronized, recoveryVars>>

-----------------------------------------------------------------------------
\* connection_status_callback.
PeerChange ==
  /\ circuitState = "normal"
  /\ peerConnected' = ~peerConnected
  /\ out' = Null
  /\ UNCHANGED <<input, syncVars, blockVars, circuitState, senderCtx, losses,
                 failureVars, recoveryVars>>

\* Time passes at any point: send_block_to_rist sleeps between payloads.
Older(age, last) == IF age < last THEN age + 1 ELSE age
TickSender ==
  /\ failureAge' = [i \in Slots |-> Older(failureAge[i], Window + 1)]
  /\ failureLog' = [k \in 1 .. FailureThreshold |-> Older(failureLog[k], Window + 1)]
  /\ recoveryAge' = Older(recoveryAge, RecoveryTime)
  /\ messageAge' = Older(messageAge, MessageInterval)
  /\ out' = Null
  /\ UNCHANGED <<input, peerConnected, syncVars, blockVars, circuitState,
                 senderCtx, losses, failureIndex, goodBlocks, restartAsked>>

ProcessMarker(m) ==
  \/ EnterRecovery(m) \/ FirstMarker(m)
  \/ TripOnLosses(m) \/ MissInRecovery(m) \/ Resync(m)
  \/ Synchronize(m) \/ EmptyBlock(m)
  \/ SendBlock(m) \/ GoodInRecovery(m)
  \/ TripOnFailures(m) \/ FailInRecovery(m) \/ DropBlock(m)

\* The packet the receive loop is at.
Current == IF input = << >> THEN {} ELSE {Head(input)}
Handle == \E p \in Current : Buffer(p) \/ Discard(p) \/ ProcessMarker(p)

\* Anything may come in: a datagram is as good as its packets one by one.
SenderNext == \/ \E p \in Ts \cup Marker :
                   (IsMarker(p) \/ blockCount < MaxCount) /\ Arrive(<<p>>)
              \/ Handle \/ PeerChange \/ TickSender
SenderSpec == SenderInit /\ [][SenderNext]_senderVars

-----------------------------------------------------------------------------
(* Properties.                                                             *)

\* "Trigger 2: 10 validation failures within 10 seconds": as many failures in
\* the window never leave the breaker as it was, ...
FailuresTrip == failureLog[FailureThreshold] > Window

\* ... and the breaker is tripped by failures only if the last ones, this one
\* with them, all lie in the window.
TripNeedsFailures ==
  [][(\E m \in Current : TripOnFailures(m)) =>
       \A k \in 1 .. FailureThreshold - 1 : failureLog[k] <= Window]_senderVars

\* The ring is the log: the slot before failureIndex has the newest failure.
Behind(k) == IF failureIndex >= k THEN failureIndex - k
             ELSE failureIndex - k + FailureThreshold
RingIsLog == \A k \in 1 .. FailureThreshold : failureAge[Behind(k)] = failureLog[k]

\* Where the breaker stands: librist's sender is there exactly in NORMAL, so that
\* a block is never sent without it; SHUTDOWN remembers no marker; the losses
\* counted stay below the threshold.
BreakerConsistent ==
  /\ senderCtx <=> circuitState = "normal"
  /\ circuitState = "shutdown" => ~firstMarkerSeen
  /\ circuitState = "recovery" => firstMarkerSeen
  /\ synchronized => firstMarkerSeen
  /\ losses < LossThreshold

\* In NORMAL the counters describe the buffer, so that the block a marker is
\* compared with is the block that is sent.
NumberOf(kind) == Cardinality({i \in 1 .. Len(block) : block[i].kind = kind})
CountersMatch ==
  circuitState = "normal" /\ firstMarkerSeen =>
    /\ blockCount = Len(block)
    /\ blockNull = NumberOf("null") % CountMod
    /\ blockNonNull = (1 + NumberOf("data")) % CountMod

\* The inductive strengthening of FailuresTrip.
LogSorted == \A j, k \in 1 .. FailureThreshold : j <= k => failureLog[j] <= failureLog[k]
BreakerInv == RingIsLog /\ LogSorted /\ FailuresTrip /\ BreakerConsistent
=============================================================================
