------------------------------ MODULE Playout ------------------------------
(***************************************************************************)
(* What an application is promised about the blocks of one flow: they come *)
(* in source order, none twice, and a block that does not follow the one   *)
(* before it says so, either with RIST_DATA_FLAGS_DISCONTINUITY (disc) or, *)
(* when the flow was re-initialised, with RIST_DATA_FLAGS_FLOW_BUFFER_START *)
(* (start).  The promise ends with the first block that is played without  *)
(* its times being known (broken); after that there are blocks in any order. *)
(***************************************************************************)
EXTENDS Integers, Sequences

CONSTANT Sources      \* source times of the packets the sender emits

VARIABLES out,        \* blocks handed to the application, oldest first
          broken      \* one of them was played without its times being known

Block == [src : Sources, disc : BOOLEAN, start : BOOLEAN]

Follows(b) == /\ b.src > out[Len(out)].src
              /\ (\E s \in Sources : out[Len(out)].src < s /\ s < b.src)
                    => b.disc \/ b.start

Init == out = << >> /\ broken = FALSE

\* The next block in order, or any block of a broken flow.
Next == \E b \in Block :
          /\ out' = Append(out, b)
          /\ \/ broken'
             \/ /\ UNCHANGED broken
                /\ IF out = << >> THEN b.start ELSE Follows(b)

Spec == Init /\ [][Next]_<<out, broken>>
=============================================================================
