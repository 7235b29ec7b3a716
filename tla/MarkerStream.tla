---------------------------- MODULE MarkerStream ----------------------------
(***************************************************************************)
(* The transport stream between ristreceiver_with_markers and              *)
(* ristsender_marker: TS packets in datagrams of PerRtp, and among them a  *)
(* marker after every PerMarker payloads of the RIST flow.                 *)
(*                                                                         *)
(* A TS packet is its kind and, to tell what became of it, the sequence    *)
(* number of the RTP payload it came in and its place there.  Of a         *)
(* marker's fields the sender uses four; its CRC is taken for granted.     *)
(***************************************************************************)
EXTENDS Integers, Sequences, FiniteSets

CONSTANTS
  PerRtp,      \* 7: TS packets of an RTP payload and of a UDP datagram
  PerMarker,   \* 5: RTP payloads between two markers
  RtpMod,      \* 2^16: RTP sequence numbers
  MarkerMod,   \* 2^32: marker sequence numbers
  CountMod     \* 2^16: the packet counters of a block

ASSUME StreamAssumption ==
  /\ PerRtp \in Nat \ {0} /\ PerMarker \in Nat \ {0}
  /\ RtpMod \in Nat \ {0} /\ MarkerMod \in Nat \ {0} /\ CountMod \in Nat \ {0}

Kinds == {"data", "null"}
Ts == [kind : Kinds, rtp : 0 .. RtpMod - 1, pos : 1 .. PerRtp]
Marker == [kind : {"marker"}, seq : 0 .. MarkerMod - 1,
           nonNull : 0 .. CountMod - 1, nulls : 0 .. CountMod - 1,
           start : 0 .. RtpMod - 1]
=============================================================================
