--------------------------- MODULE WatchdogProofs ---------------------------
(* Proofs about rist_watchdog, for pipes of any length. *)
EXTENDS Watchdog, SequenceTheorems, TLAPS

\* ChildInv holds in the initial state.
LEMMA InitInv == Init => ChildInv
<1>1. << >> \in Seq(Pieces)
  OBVIOUS
<1> QED
  BY <1>1 DEF Init, ChildInv, Agreement, TypeOK

\* What the child writes is made of whole pieces.
LEMMA PipeType ==
  ASSUME TypeOK, Inside
  PROVE  Append(pipe, Rest) \in Seq(Pieces)
<1>1. Rest \in Pieces
  BY DEF Rest, Pieces
<1> QED
  BY <1>1 DEF TypeOK

\* A line is made of pieces too, and so is what is left of it.
LEMMA LineType ==
  ASSUME TypeOK
  PROVE  /\ pipe \o Line \in Seq(Pieces)
         /\ Append(pipe, Line[1]) \in Seq(Pieces)
<1>1. Line \in Seq(Pieces) /\ Line[1] \in Pieces
  <2>1. <<"r", "R">> \in Seq(Pieces) /\ <<"o", "O">> \in Seq(Pieces)
    BY DEF Pieces
  <2>2. Line = <<"r", "R">> \/ Line = <<"o", "O">>
    BY DEF Line
  <2>3. Line[1] \in Pieces
    BY <2>2 DEF Pieces
  <2> QED
    BY <2>1, <2>2, <2>3
<1>2. pipe \in Seq(Pieces)
  BY DEF TypeOK
<1>3. pipe \o Line \in Seq(Pieces)
  BY <1>1, <1>2
<1>4. Append(pipe, Line[1]) \in Seq(Pieces)
  BY <1>1, <1>2
<1> QED
  BY <1>3, <1>4

\* One turn of the monitoring loop: only what was read leaves the pipe, and a
\* child that was reaped is given up together with the loop.
LEMMA MonitorInv ==
  ASSUME ChildInv, NEW n \in Nat, Monitor(n)
  PROVE  ChildInv'
<1>1. pipe' \in Seq(Pieces)
  <2>1. pipe \in Seq(Pieces) /\ n + 1 \in Nat /\ n + 1 >= 1
    BY DEF ChildInv, TypeOK
  <2>2. Len(pipe) \in Nat
    BY <2>1
  <2>3. pipe' = SubSeq(pipe, n + 1, Len(pipe))
    BY DEF Monitor
  <2>4. \A i \in n + 1 .. Len(pipe) : pipe[i] \in Pieces
    BY <2>1
  <2> QED
    BY <2>1, <2>2, <2>3, <2>4
<1>2. linePos' \in BOOLEAN /\ missed' \in BOOLEAN /\ cut' \in BOOLEAN
  BY DEF Monitor, PosAfter, SeesTrigger, EndsInside, ChildInv, TypeOK
<1>3. /\ pc' \in {"kill", "returned", "monitor"}
      /\ pc' = "monitor" => child # "dead"
      /\ pc' = "returned" => child = "dead"
  BY DEF Monitor, AfterRead
<1>4. /\ pc = "monitor" /\ ~shouldExit
      /\ child' = IF child = "dead" THEN "none" ELSE child
      /\ childPid' = (pc' = "returned")
      /\ UNCHANGED <<shouldExit, phase, orphaned, selectFailed>>
  BY DEF Monitor
<1> QED
  BY <1>1, <1>2, <1>3, <1>4 DEF ChildInv, Agreement, TypeOK

\* Every other step of the watchdog, its child and the signals.
LEMMA NextInv ==
  ASSUME ChildInv, [Next]_vars
  PROVE  ChildInv'
<1> USE DEF ChildInv, Agreement, TypeOK, history
<1>1. CASE Start
  BY <1>1 DEF Start
<1>2. CASE StartFails
  BY <1>2 DEF StartFails, childVars
<1>3. CASE \E n \in 0 .. MaxPipe : Monitor(n)
  BY <1>3, MonitorInv
<1>4. CASE SelectFails
  BY <1>4 DEF SelectFails, childVars
<1>5. CASE StopMonitoring
  BY <1>5 DEF StopMonitoring, childVars
<1>6. CASE Kill \/ Delay \/ Exit
  BY <1>6 DEF Kill, Delay, Exit, childVars
<1>7. CASE Forget
  BY <1>7 DEF Forget
<1>8. CASE Write
  <2>1. pipe' \in Seq(Pieces)
    BY <1>8, LineType DEF Write
  <2>2. phase' \in {"fresh", "normal", "recovered"}
    BY <1>8 DEF Write
  <2>3. UNCHANGED <<pc, childPid, shouldExit, linePos, child, orphaned, history>>
    BY <1>8 DEF Write
  <2> QED
    BY <2>1, <2>2, <2>3
<1>9. CASE WriteRest
  BY <1>9, PipeType DEF WriteRest
<1>10. CASE Recover \/ ChildExits
  BY <1>10 DEF Recover, ChildExits
<1>11. CASE Signal
  BY <1>11 DEF Signal
<1>12. CASE UNCHANGED vars
  BY <1>12 DEF vars, childVars
<1> QED
  BY <1>1, <1>2, <1>3, <1>4, <1>5, <1>6, <1>7, <1>8, <1>9, <1>10, <1>11, <1>12
     DEF Next, Watch, Writes

\* main, start_child_process and the signal handler agree on the child.
THEOREM ChildFollowed == Spec => []ChildInv
<1>1. ChildInv /\ [Next]_vars => ChildInv'
  BY NextInv
<1> QED
  BY <1>1, InitInv, PTL DEF Spec

\* Two senders never run side by side, unless select failed.
THEOREM NeverTwo == Spec => []OneChild
<1>1. ChildInv => OneChild
  BY DEF ChildInv, Agreement, OneChild
<1> QED
  BY <1>1, ChildFollowed, PTL

-----------------------------------------------------------------------------
(* What is in the pipe, and what a read makes of it.                       *)

\* One turn of the loop: what is read and what is left, piece by piece.
LEMMA ReadFacts ==
  ASSUME TypeOK, NEW n \in Nat, n <= Len(pipe)
  PROVE  /\ SubSeq(pipe, 1, n) \in Seq(Pieces) /\ Len(SubSeq(pipe, 1, n)) = n
         /\ \A i \in 1 .. n : SubSeq(pipe, 1, n)[i] = pipe[i]
         /\ SubSeq(pipe, n + 1, Len(pipe)) \in Seq(Pieces)
         /\ Len(SubSeq(pipe, n + 1, Len(pipe))) = Len(pipe) - n
         /\ \A i \in 1 .. Len(pipe) - n : SubSeq(pipe, n + 1, Len(pipe))[i] = pipe[n + i]
<1>1. pipe \in Seq(Pieces) /\ Len(pipe) \in Nat
  BY DEF TypeOK
<1>2. \A i \in 1 .. Len(pipe) : pipe[i] \in Pieces
  BY <1>1
<1> QED
  BY <1>1, <1>2

\* A turn of the loop keeps PipeInv: it ends with the trigger only for a line the
\* present child wrote, and sees that line unless it reads part of one.
LEMMA MonitorPipe ==
  ASSUME TypeOK, PipeInv, NEW n \in Nat, Monitor(n)
  PROVE  PipeInv'
<1> DEFINE text == SubSeq(pipe, 1, n)
           seen == SeesTrigger(text, linePos)
<1>1. /\ pc = "monitor" /\ n <= Len(pipe) /\ Len(pipe) \in Nat
      /\ pipe # << >> => n >= 1
      /\ linePos' = PosAfter(text, linePos)
      /\ missed' = (missed \/ ((\E i \in 1 .. n : text[i] = "R") /\ ~seen))
      /\ cut' = (cut \/ EndsInside(text))
      /\ pc' = AfterRead(seen)
      /\ pipe' = SubSeq(pipe, n + 1, Len(pipe))
      /\ phase' = phase
  BY DEF Monitor, Readable, TypeOK
<1>2. /\ text \in Seq(Pieces) /\ Len(text) = n
      /\ \A i \in 1 .. n : text[i] = pipe[i]
      /\ pipe' \in Seq(Pieces) /\ Len(pipe') = Len(pipe) - n
      /\ \A i \in 1 .. Len(pipe) - n : pipe'[i] = pipe[n + i]
  BY <1>1, ReadFacts
<1> HIDE DEF text
<1>3. NoFalseRestart'
  <2> SUFFICES ASSUME pc' = "kill" PROVE phase = "recovered"
    BY <1>1 DEF NoFalseRestart
  <2>1. PICK i \in 1 .. n : text[i] = "r"
    BY <1>1, <1>2 DEF AfterRead, SeesTrigger
  <2>2. i \in 1 .. Len(pipe) /\ pipe[i] = "r"
    BY <1>1, <1>2, <2>1
  <2> QED
    BY <2>2 DEF PipeInv, OwnTrigger
<1>4. OwnTrigger'
  <2> SUFFICES ASSUME NEW i \in 1 .. Len(pipe'), pipe'[i] = "r"
               PROVE  phase = "recovered"
    BY <1>1 DEF OwnTrigger
  <2>1. n + i \in 1 .. Len(pipe) /\ pipe[n + i] = "r"
    BY <1>1, <1>2
  <2> QED
    BY <2>1 DEF PipeInv, OwnTrigger
<1>5. phase' = "fresh" => pipe' = << >>
  BY <1>1, <1>2 DEF PipeInv
<1>6. ASSUME ~cut' PROVE ~missed' /\ WholeLines' /\ FirstLineHarmless'
  <2>1. /\ ~cut /\ ~missed /\ WholeLines /\ FirstLineHarmless
        /\ n >= 1 => pipe[n] \notin {"r", "o"}
    <3>1. ~cut /\ ~EndsInside(text)
      BY <1>1, <1>6
    <3>2. n >= 1 => text # << >> /\ text[Len(text)] = pipe[n]
      BY <1>2
    <3> QED
      BY <3>1, <3>2 DEF PipeInv, EndsInside
  <2>2. ~missed'
    <3> SUFFICES ASSUME NEW i \in 1 .. n, text[i] = "R" PROVE seen
      BY <1>1, <2>1
    <3>1. pipe[i] = "R" /\ i \in 1 .. Len(pipe)
      BY <1>1, <1>2
    <3>2. i > 1 /\ pipe[i - 1] = "r"
      BY <2>1, <3>1 DEF WholeLines
    <3>3. i - 1 \in 1 .. n /\ text[i - 1] = "r" /\ text[(i - 1) + 1] = "R"
      BY <1>2, <3>2
    <3>4. ~linePos \/ i - 1 > 1
      <4>1. linePos => pipe[1] = "o"
        BY <1>1, <2>1, <3>1 DEF FirstLineHarmless
      <4> QED
        BY <3>2, <4>1
    <3>5. Whole(text, i - 1, linePos)
      BY <1>2, <3>3, <3>4 DEF Whole
    <3> QED
      BY <1>2, <3>3, <3>5 DEF SeesTrigger
  <2>3. WholeLines'
    <3> SUFFICES ASSUME NEW i \in 1 .. Len(pipe'), pipe'[i] = "R"
                 PROVE  i > 1 /\ pipe'[i - 1] = "r"
      BY DEF WholeLines
    <3>1. n + i \in 1 .. Len(pipe) /\ pipe[n + i] = "R"
      BY <1>1, <1>2
    <3>2. n + i > 1 /\ pipe[n + i - 1] = "r"
      BY <2>1, <3>1 DEF WholeLines
    <3>3. i > 1
      <4> SUFFICES ASSUME i = 1 PROVE FALSE
        OBVIOUS
      <4>1. n + i - 1 = n /\ n >= 1
        BY <3>2
      <4> QED
        BY <2>1, <3>2, <4>1
    <3>4. i - 1 \in 1 .. Len(pipe) - n /\ n + (i - 1) = n + i - 1
      BY <1>1, <1>2, <3>3
    <3> QED
      BY <1>2, <3>2, <3>3, <3>4
  <2>4. FirstLineHarmless'
    <3> SUFFICES ASSUME pc' = "monitor", linePos'
                 PROVE  pipe' = << >> /\ phase = "fresh"
      BY <1>1 DEF FirstLineHarmless
    <3>1. ~seen
      BY <1>1 DEF AfterRead
    <3>2. ~EndsInside(text)
      BY <1>1, <1>6
    <3>3. text = << >> /\ linePos
      BY <1>1, <3>1, <3>2 DEF PosAfter
    <3>4. pipe = << >>
      BY <1>1, <1>2, <3>3
    <3> QED
      BY <1>1, <1>2, <2>1, <3>3, <3>4 DEF FirstLineHarmless
  <2> QED
    BY <2>2, <2>3, <2>4
<1> QED
  BY <1>3, <1>4, <1>5, <1>6 DEF PipeInv

\* The child writes whole lines in turn, and the trigger only once it has recovered.
LEMMA WritePipe ==
  ASSUME TypeOK, PipeInv, Write \/ WriteRest
  PROVE  PipeInv'
<1>1. /\ pipe \in Seq(Pieces) /\ Len(pipe) \in Nat
      /\ UNCHANGED <<pc, linePos, cut, missed>>
      /\ phase' = IF Write /\ phase = "fresh" THEN "normal" ELSE phase
  BY DEF Write, WriteRest, history, TypeOK
<1>2. /\ Len(pipe') \in Nat /\ Len(pipe') > Len(pipe)
      /\ \A i \in 1 .. Len(pipe) : pipe'[i] = pipe[i]
      /\ \A i \in Len(pipe) + 1 .. Len(pipe') :
           /\ pipe'[i] = "r" => phase = "recovered"
           /\ pipe'[i] = "R" => i > 1 /\ pipe'[i - 1] = "r"
      /\ pipe = << >> => Write /\ pipe'[1] = Line[1]
  <2>1. CASE Write /\ pipe' = pipe \o Line
    <3>1. /\ Line \in Seq(Pieces) /\ Len(Line) = 2
          /\ Line[1] # "R" /\ Line[2] # "r"
          /\ Line[2] = "R" => Line[1] = "r"
          /\ Line[1] = "r" => phase = "recovered"
      <4>1. CASE Line = <<"r", "R">> /\ phase = "recovered"
        <5>1. <<"r", "R">> \in Seq(Pieces)
          BY DEF Pieces
        <5> QED
          BY <4>1, <5>1
      <4>2. CASE Line = <<"o", "O">>
        <5>1. <<"o", "O">> \in Seq(Pieces)
          BY DEF Pieces
        <5> QED
          BY <4>2, <5>1
      <4> QED
        BY <4>1, <4>2 DEF Line
    <3>2. /\ Len(pipe') = Len(pipe) + 2
          /\ \A i \in 1 .. Len(pipe) : pipe'[i] = pipe[i]
          /\ pipe'[Len(pipe) + 1] = Line[1] /\ pipe'[Len(pipe) + 2] = Line[2]
      <4>1. Len(pipe \o Line) = Len(pipe) + 2
        BY <1>1, <3>1, ConcatProperties
      <4>2. \A i \in 1 .. Len(pipe) + 2 :
              (pipe \o Line)[i] = IF i <= Len(pipe) THEN pipe[i] ELSE Line[i - Len(pipe)]
        BY <1>1, <3>1, <4>1, ConcatProperties
      <4>3. /\ (pipe \o Line)[Len(pipe) + 1] = Line[1]
            /\ (pipe \o Line)[Len(pipe) + 2] = Line[2]
        <5> DEFINE both == pipe \o Line
                   length == Len(pipe)
        <5>1. /\ length \in Nat
              /\ \A i \in 1 .. length + 2 :
                   both[i] = IF i <= length THEN pipe[i] ELSE Line[i - length]
          BY <1>1, <4>2
        <5> HIDE DEF both, length
        <5>2. length + 1 - length = 1 /\ length + 2 - length = 2
          BY <5>1
        <5>3. both[length + 1] = Line[1] /\ both[length + 2] = Line[2]
          BY <5>1, <5>2
        <5> QED
          BY <5>3 DEF both, length
      <4> QED
        BY <1>1, <2>1, <4>1, <4>2, <4>3
    <3>3. \A i \in Len(pipe) + 1 .. Len(pipe') : i = Len(pipe) + 1 \/ i = Len(pipe) + 2
      BY <1>1, <3>2
    <3>4. ASSUME NEW i \in Len(pipe) + 1 .. Len(pipe')
          PROVE  /\ pipe'[i] = "r" => phase = "recovered"
                 /\ pipe'[i] = "R" => i > 1 /\ pipe'[i - 1] = "r"
      <4>1. CASE i = Len(pipe) + 1
        BY <3>1, <3>2, <4>1
      <4>2. CASE i = Len(pipe) + 2
        <5>1. i - 1 = Len(pipe) + 1 /\ i > 1
          BY <1>1, <4>2
        <5> QED
          BY <3>1, <3>2, <4>2, <5>1
      <4> QED
        BY <3>3, <4>1, <4>2
    <3>5. pipe = << >> => pipe'[1] = Line[1]
      BY <3>2
    <3> QED
      BY <1>1, <2>1, <3>2, <3>4, <3>5
  <2>2. CASE Write /\ pipe' = Append(pipe, Line[1])
    <3>1. (Line[1] = "r" /\ phase = "recovered") \/ Line[1] = "o"
      BY DEF Line
    <3> QED
      BY <1>1, <2>2, <3>1, LineType
  <2>3. CASE WriteRest
    <3>1. Inside /\ pipe' = Append(pipe, Rest) /\ pipe # << >>
      BY <2>3 DEF WriteRest, Inside, EndsInside
    <3>2. (Rest = "R" /\ pipe[Len(pipe)] = "r") \/ Rest = "O"
      BY DEF Rest
    <3> QED
      BY <1>1, <3>1, <3>2
  <2> QED
    BY <2>1, <2>2, <2>3 DEF Write
<1>3. NoFalseRestart' /\ OwnTrigger'
  <2>1. (\E i \in 1 .. Len(pipe') : pipe'[i] = "r") => phase = "recovered"
    BY <1>1, <1>2 DEF PipeInv, OwnTrigger
  <2> QED
    BY <1>1, <2>1 DEF PipeInv, NoFalseRestart, OwnTrigger
<1>4. phase' = "fresh" => pipe' = << >>
  <2>1. WriteRest => pipe # << >>
    BY DEF WriteRest, Inside, EndsInside
  <2> QED
    BY <1>1, <2>1 DEF PipeInv
<1>5. ASSUME ~cut' PROVE ~missed' /\ WholeLines' /\ FirstLineHarmless'
  <2>1. ~cut /\ ~missed /\ WholeLines /\ FirstLineHarmless
    BY <1>1, <1>5 DEF PipeInv
  <2>2. WholeLines'
    <3> SUFFICES ASSUME NEW i \in 1 .. Len(pipe'), pipe'[i] = "R"
                 PROVE  i > 1 /\ pipe'[i - 1] = "r"
      BY DEF WholeLines
    <3>1. CASE i \in 1 .. Len(pipe)
      <4>1. i > 1 /\ pipe[i - 1] = "r"
        BY <1>2, <2>1, <3>1 DEF WholeLines
      <4> QED
        BY <1>2, <3>1, <4>1
    <3>2. CASE i \in Len(pipe) + 1 .. Len(pipe')
      BY <1>2, <3>2
    <3> QED
      BY <1>1, <1>2, <3>1, <3>2
  <2>3. FirstLineHarmless'
    <3> SUFFICES ASSUME pc = "monitor", linePos PROVE pipe' # << >> /\ pipe'[1] = "o"
      BY <1>1 DEF FirstLineHarmless
    <3>1. CASE pipe = << >>
      <4>1. phase = "fresh"
        BY <2>1, <3>1 DEF FirstLineHarmless
      <4> QED
        BY <1>1, <1>2, <3>1, <4>1 DEF Line
    <3>2. CASE pipe # << >>
      <4>1. pipe[1] = "o" /\ 1 \in 1 .. Len(pipe)
        BY <1>1, <2>1, <3>2 DEF FirstLineHarmless
      <4> QED
        BY <1>2, <4>1
    <3> QED
      BY <3>1, <3>2
  <2> QED
    BY <1>1, <2>1, <2>2, <2>3
<1> QED
  BY <1>3, <1>4, <1>5 DEF PipeInv

\* The steps of the watchdog, of its child and of the signals.
LEMMA NextPipe ==
  ASSUME TypeOK, PipeInv, [Next]_vars
  PROVE  PipeInv'
<1> USE DEF PipeInv, NoFalseRestart, OwnTrigger, WholeLines, FirstLineHarmless, history
<1>1. CASE Start
  <2>1. pipe' = << >> /\ phase' = "fresh" /\ pc' = "monitor" /\ UNCHANGED <<cut, missed>>
    BY <1>1 DEF Start
  <2> QED
    BY <2>1
<1>2. CASE \E n \in 0 .. MaxPipe : Monitor(n)
  BY <1>2, MonitorPipe
<1>3. CASE Write \/ WriteRest
  BY <1>3, WritePipe
<1>4. CASE StartFails \/ SelectFails \/ StopMonitoring \/ Kill \/ Delay \/ Exit \/ Forget
  <2>1. pc' \notin {"monitor", "kill"} /\ UNCHANGED <<pipe, phase, cut, missed>>
    BY <1>4 DEF StartFails, SelectFails, StopMonitoring, Kill, Delay, Exit, Forget,
                childVars
  <2> QED
    BY <2>1
<1>5. CASE Recover
  <2>1. /\ UNCHANGED <<pc, pipe, linePos, cut, missed>>
        /\ phase = "normal" /\ phase' = "recovered"
    BY <1>5 DEF Recover
  <2> QED
    BY <2>1
<1>6. CASE ChildExits \/ Signal \/ UNCHANGED vars
  <2>1. UNCHANGED <<pc, pipe, phase, linePos, cut, missed>>
    BY <1>6 DEF ChildExits, Signal, vars, childVars
  <2> QED
    BY <2>1
<1> QED
  BY <1>1, <1>2, <1>3, <1>4, <1>5, <1>6 DEF Next, Watch, Writes

\* PipeInv is inductive.
THEOREM PipeInvariant == Spec => []PipeInv
<1>1. Init => PipeInv
  BY DEF Init, PipeInv, NoFalseRestart, OwnTrigger, WholeLines, FirstLineHarmless
<1>2. TypeOK /\ PipeInv /\ [Next]_vars => PipeInv'
  BY NextPipe
<1>3. ChildInv => TypeOK
  BY DEF ChildInv
<1> QED
  BY <1>1, <1>2, <1>3, ChildFollowed, PTL DEF Spec

\* A healthy sender is never killed for text left in line_pos or in a pipe, for
\* reads and pipes of any length.
THEOREM OnlyAskersKilled == Spec => []NoFalseRestart
<1>1. PipeInv => NoFalseRestart
  BY DEF PipeInv
<1> QED
  BY <1>1, PipeInvariant, PTL

\* A request that was read goes unseen only if a read has ended inside a line.
THEOREM CutsAloneMiss == Spec => []OnlyCutMisses
<1>1. PipeInv => OnlyCutMisses
  BY DEF PipeInv, OnlyCutMisses
<1> QED
  BY <1>1, PipeInvariant, PTL
=============================================================================
