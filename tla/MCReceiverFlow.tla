--------------------------- MODULE MCReceiverFlow ---------------------------
(* Instances of ReceiverFlow for TLC. *)
EXTENDS ReceiverFlow

\* Packets 1 .. 5, one a tick, numbered from Q - 2 on so that they wrap.
MCSources == 1 .. 5
MCSeqOf == [n \in MCSources |-> (Q - 3 + n) % Q]

\* Three packets; the first and the last share a slot, as packets 2^16 apart do,
\* or the packets of a source that restarted its numbering.
MCFew == 1 .. 3
MCFewSeqOf == [n \in MCFew |-> IF n = 2 THEN 3 ELSE 2]
\* Three packets without a wrap.
MCThree == 1 .. 3
MCThreeSeqOf == [n \in MCThree |-> n]

\* A time long past, as in memory of zeros, and one far in the future.
MCJunk == {-100, 100}
MCLongPast == {-100}
=============================================================================
