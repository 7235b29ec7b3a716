--------------------------- MODULE MarkerInserter ---------------------------
(***************************************************************************)
(* ristreceiver_with_markers: the payloads of a RIST flow leave as UDP     *)
(* datagrams of exactly PerRtp TS packets, with a marker put in after      *)
(* every PerMarker payloads.  A marker describes the block before it: the  *)
(* null and other packets between the previous marker, which counts as     *)
(* one, and this one, and the RTP sequence number the block began with.    *)
(* One thread; the RIST flow and the UDP socket are its surroundings.      *)
(***************************************************************************)
EXTENDS MarkerStream

VARIABLES
  rtpInBlock,        \* rtp_packets_in_block
  blockStart,        \* current_block_start_rtp_seq
  currentNonNull, currentNull,
  markerSeq,         \* marker_sequence
  firstMarkerSent,
  udpBuffer,         \* TS packets that wait for a full datagram
  wire               \* datagrams on their way, oldest first

inserterVars == <<rtpInBlock, blockStart, currentNonNull, currentNull,
                  markerSeq, firstMarkerSent, udpBuffer>>

\* The type of every variable; a full datagram never waits.
InserterTypeOK ==
  /\ rtpInBlock \in 0 .. PerMarker - 1
  /\ blockStart \in 0 .. RtpMod - 1
  /\ currentNonNull \in 0 .. CountMod - 1 /\ currentNull \in 0 .. CountMod - 1
  /\ markerSeq \in 0 .. MarkerMod - 1
  /\ firstMarkerSent \in BOOLEAN
  /\ udpBuffer \in Seq(Ts \cup Marker) /\ Len(udpBuffer) < PerRtp
  /\ wire \in Seq(Seq(Ts \cup Marker))

InserterInit ==
  /\ rtpInBlock = 0 /\ blockStart = 0
  /\ currentNonNull = 0 /\ currentNull = 0
  /\ markerSeq = 1 % MarkerMod /\ firstMarkerSent = FALSE
  /\ udpBuffer = << >>

\* The packets of a payload that has kinds[i] in place i.
Packets(s, kinds) ==
  [i \in 1 .. Len(kinds) |-> [kind |-> kinds[i], rtp |-> s, pos |-> i]]
Number(kinds, kind) == Cardinality({i \in 1 .. Len(kinds) : kinds[i] = kind})

\* add_ts_to_udp_buffer, packet after packet: the full datagrams of a stream
\* and the packets left over.
Datagrams(ts) == [k \in 1 .. Len(ts) \div PerRtp |->
                    SubSeq(ts, (k - 1) * PerRtp + 1, k * PerRtp)]
LeftOver(ts) == SubSeq(ts, (Len(ts) \div PerRtp) * PerRtp + 1, Len(ts))

\* cb_recv with the first payload of a block: the marker before it, if there
\* was one, is the first packet of the block.
FirstCount == IF firstMarkerSent THEN 1 ELSE 0
StartOf(s) == IF rtpInBlock = 0 THEN s ELSE blockStart
NonNullWith(kinds) ==
  ((IF rtpInBlock = 0 THEN FirstCount ELSE currentNonNull) + Number(kinds, "data"))
    % CountMod
NullWith(kinds) ==
  ((IF rtpInBlock = 0 THEN 0 ELSE currentNull) + Number(kinds, "null")) % CountMod

\* cb_recv: a payload with sequence number s.
Insert(s, kinds) ==
  LET ends == rtpInBlock + 1 >= PerMarker
      marker == [kind |-> "marker", seq |-> markerSeq,
                 nonNull |-> NonNullWith(kinds), nulls |-> NullWith(kinds),
                 start |-> StartOf(s)]
      ts == udpBuffer \o Packets(s, kinds) \o (IF ends THEN <<marker>> ELSE << >>)
  IN /\ udpBuffer' = LeftOver(ts)
     /\ wire' = wire \o Datagrams(ts)
     /\ currentNonNull' = NonNullWith(kinds)
     /\ currentNull' = NullWith(kinds)
     /\ IF ends
          THEN /\ firstMarkerSent' = TRUE
               /\ markerSeq' = (markerSeq + 1) % MarkerMod
               /\ rtpInBlock' = 0
               /\ blockStart' = (StartOf(s) + PerMarker) % RtpMod
          ELSE /\ rtpInBlock' = rtpInBlock + 1
               /\ blockStart' = StartOf(s)
               /\ UNCHANGED <<firstMarkerSent, markerSeq>>

\* The program is stopped, which flushes what it has, and started again.
RestartInserter ==
  /\ wire' = IF udpBuffer = << >> THEN wire ELSE Append(wire, udpBuffer)
  /\ rtpInBlock' = 0 /\ blockStart' = 0
  /\ currentNonNull' = 0 /\ currentNull' = 0
  /\ markerSeq' = 1 % MarkerMod /\ firstMarkerSent' = FALSE
  /\ udpBuffer' = << >>
=============================================================================
