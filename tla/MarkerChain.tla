---------------------------- MODULE MarkerChain -----------------------------
(***************************************************************************)
(* The marker chain: a RIST flow is received and marked (MarkerInserter),  *)
(* carried as UDP datagrams over a satellite path, and validated and sent  *)
(* into another RIST flow (MarkerSender); rist_watchdog starts the sender  *)
(* again when it asks for it.                                              *)
(*                                                                         *)
(* While the path is troubled it may lose datagrams and do to them what    *)
(* Troubles names; one day it may settle for good.                         *)
(***************************************************************************)
EXTENDS MarkerInserter, MarkerSender

CONSTANTS
  Payloads,    \* what the payloads of the flow look like: sequences of kinds
  Troubles,    \* of "lose", "repeat", "swap", "gap", "restart"
  MaxLossRun,  \* bound: markers lost in a row
  MaxWire      \* bound: datagrams on their way

ASSUME ChainAssumption ==
  /\ Payloads \subseteq [1 .. PerRtp -> Kinds]
  /\ Troubles \subseteq {"lose", "repeat", "swap", "gap", "restart"}
  /\ MaxLossRun \in Nat /\ MaxWire \in Nat \ {0}

VARIABLES
  nextRtp,     \* sequence number of the next payload of the flow
  troubled,    \* the path has not settled
  lossRun      \* history: markers lost since one was accepted

chainVars == <<nextRtp, troubled, lossRun>>
vars == <<inserterVars, wire, senderVars, chainVars>>

Init ==
  /\ InserterInit /\ wire = << >> /\ SenderInit
  /\ nextRtp = 0 /\ troubled = TRUE /\ lossRun = 0

Trouble(t) == troubled /\ t \in Troubles /\ blockCount < MaxCount
HasMarker(d) == \E i \in 1 .. Len(d) : IsMarker(d[i])

\* The flow delivers its next payload, or one further on after a gap.
Produce ==
  /\ Len(wire) < MaxWire
  /\ \E kinds \in Payloads : Insert(nextRtp, kinds)
  /\ nextRtp' = (nextRtp + 1) % RtpMod
  /\ UNCHANGED <<senderVars, troubled, lossRun>>

FlowGap ==
  /\ Trouble("gap")
  /\ nextRtp' = (nextRtp + 1) % RtpMod
  /\ UNCHANGED <<inserterVars, wire, senderVars, troubled, lossRun>>

StopInserter ==
  /\ Trouble("restart") /\ Len(wire) < MaxWire
  /\ RestartInserter
  /\ UNCHANGED <<senderVars, chainVars>>

\* A loss is told when the datagram should have been received.
Lose ==
  /\ Trouble("lose") /\ wire # << >> /\ input = << >>
  /\ HasMarker(Head(wire)) => lossRun < MaxLossRun
  /\ wire' = Tail(wire)
  /\ lossRun' = IF HasMarker(Head(wire)) THEN lossRun + 1 ELSE lossRun
  /\ UNCHANGED <<inserterVars, senderVars, nextRtp, troubled>>

Swap ==
  /\ Trouble("swap") /\ Len(wire) >= 2
  /\ wire' = <<wire[2], wire[1]>> \o SubSeq(wire, 3, Len(wire))
  /\ UNCHANGED <<inserterVars, senderVars, chainVars>>

Deliver ==
  /\ wire # << >>
  /\ Arrive(Head(wire))
  /\ wire' = Tail(wire)
  /\ UNCHANGED <<inserterVars, chainVars>>

DeliverAgain ==
  /\ Trouble("repeat") /\ wire # << >>
  /\ Arrive(Head(wire))
  /\ UNCHANGED <<inserterVars, wire, chainVars>>

\* The sender accepts a marker as a start or as the next one.
Accepts == \E m \in Current : EnterRecovery(m) \/ FirstMarker(m) \/ Good(m)

Process ==
  /\ Handle
  /\ lossRun' = IF Accepts THEN 0 ELSE lossRun
  /\ UNCHANGED <<inserterVars, wire, nextRtp, troubled>>

Settle ==
  /\ troubled' = FALSE
  /\ troubled
  /\ UNCHANGED <<inserterVars, wire, senderVars, nextRtp, lossRun>>

Connect ==
  /\ ~peerConnected
  /\ PeerChange
  /\ UNCHANGED <<inserterVars, wire, chainVars>>

Disconnect ==
  /\ troubled /\ peerConnected
  /\ PeerChange
  /\ UNCHANGED <<inserterVars, wire, chainVars>>

Tick == TickSender /\ UNCHANGED <<inserterVars, wire, chainVars>>

\* rist_watchdog kills the sender that asked for it and starts another one;
\* what is in its socket is lost.
Restart ==
  /\ restartAsked
  /\ input' = << >>
  /\ circuitState' = "normal" /\ senderCtx' = TRUE /\ peerConnected' = FALSE
  /\ firstMarkerSeen' = FALSE /\ synchronized' = FALSE /\ lastMarkerSeq' = 0
  /\ block' = << >> /\ blockCount' = 0 /\ blockNonNull' = 0 /\ blockNull' = 0
  /\ losses' = 0
  /\ failureAge' = [i \in Slots |-> Window + 1] /\ failureIndex' = 0
  /\ failureLog' = [k \in 1 .. FailureThreshold |-> Window + 1]
  /\ goodBlocks' = 0 /\ recoveryAge' = 0 /\ messageAge' = MessageInterval
  /\ restartAsked' = FALSE
  /\ out' = Null
  /\ lossRun' = 0
  /\ UNCHANGED <<inserterVars, wire, nextRtp, troubled>>

Next == \/ Produce \/ FlowGap \/ StopInserter
        \/ Lose \/ Swap \/ Deliver \/ DeliverAgain \/ Settle
        \/ Process \/ Connect \/ Disconnect \/ Tick
        \/ Restart

Spec == Init /\ [][Next]_vars

\* The flow goes on, the path delivers what it does not lose, the sender and
\* the watchdog run, time passes, and receivers connect.
FairSpec == /\ Spec
            /\ WF_vars(Produce) /\ WF_vars(Deliver) /\ WF_vars(Process)
            /\ WF_vars(Connect) /\ WF_vars(Tick) /\ WF_vars(Restart)

-----------------------------------------------------------------------------
(* Properties.                                                             *)

\* Every payload leaves the sender whole, in order, and with the sequence number
\* it had in the flow it came from, whatever datagrams were lost: a receiver
\* merges the two flows by these numbers.
PayloadIntact(sent, k) ==
  \A i \in 1 .. PerRtp :
    LET ts == sent.block[(k - 1) * PerRtp + i]
    IN ts.rtp = (sent.start + k - 1) % RtpMod /\ ts.pos = i
BlocksIntact ==
  out # Null => \A k \in 1 .. Len(out.block) \div PerRtp : PayloadIntact(out, k)

\* No block is cut short: a block that is sent is all the packets the inserter
\* put between two markers.
BlocksWhole == out # Null => Len(out.block) = PerMarker * PerRtp

\* The inductive strengthening of BlocksWhole: a marker, wherever it is, counts a
\* block of PerMarker payloads, with or without the marker before it.
Whole == PerMarker * PerRtp
Tallied == Ts \cup {m \in Marker : m.nonNull + m.nulls \in {Whole, Whole + 1}}
Tally ==
  /\ udpBuffer \in Seq(Tallied) /\ wire \in Seq(Seq(Tallied)) /\ input \in Seq(Tallied)
  /\ rtpInBlock > 0 => currentNonNull + currentNull = (rtpInBlock * PerRtp) + FirstCount

\* What holds of the chain together: the types of both programs, the breaker's
\* invariant and the block counters.
ChainTypeOK == /\ InserterTypeOK /\ SenderTypeOK
               /\ nextRtp \in 0 .. RtpMod - 1 /\ troubled \in BOOLEAN /\ lossRun \in Nat
ChainInv == ChainTypeOK /\ BreakerInv /\ CountersMatch

\* "Trigger 1: 10 consecutive marker losses": the breaker is tripped by losses
\* only if that many markers were lost since one was accepted.
TripNeedsLosses ==
  [][(\E m \in Current : TripOnLosses(m)) => lossRun >= LossThreshold]_vars

\* And it does not take longer: a sender that has seen a marker never accepts
\* one after so many losses.
LossesTrip ==
  [][(Process /\ circuitState # "shutdown" /\ firstMarkerSeen /\ lossRun >= LossThreshold
       /\ IsMarker(Head(input))) => circuitState' = "shutdown"]_vars

\* A settled path is used again: the sender sends blocks, after a recovery and a
\* restart by the watchdog if its breaker was tripped.
SendsAgain == ~troubled ~> out # Null
=============================================================================
