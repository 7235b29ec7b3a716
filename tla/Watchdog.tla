------------------------------ MODULE Watchdog ------------------------------
(***************************************************************************)
(* rist_watchdog: it starts ristsender_marker, reads what the child writes *)
(* and starts it again when it has exited or when a line with              *)
(* RESTART SENDER was read.  The child logs to stderr only, so the pipe    *)
(* of stdout is always empty and is left out.                              *)
(*                                                                         *)
(* A line is two pieces, the end of the line belonging to the second, so   *)
(* that a read may end inside it: "r" "R" are the pieces of a line with    *)
(* the trigger and "o" "O" those of another one.  What matters of the      *)
(* static line_pos is whether it is 0: line_buffer is cleared on every     *)
(* call of monitor_child_output, so text kept from an earlier call, or     *)
(* written behind a line_pos that is not 0, follows a NUL that ends the    *)
(* string for strstr.                                                      *)
(***************************************************************************)
EXTENDS Integers, Sequences, FiniteSets

CONSTANT MaxPipe  \* bound: pieces in a pipe

ASSUME WatchdogAssumption == MaxPipe \in Nat

Pieces == {"r", "R", "o", "O"}

VARIABLES
  pc,            \* main and start_child_process
  childPid,      \* child_pid is the child's, not 0
  shouldExit,
  linePos,       \* line_pos is not 0
  child,         \* the child the watchdog looks after: "none", "running", "dead"
  phase,         \* the child: "fresh", "normal", or "recovered" and asking
  pipe,          \* what was written and not read
  orphaned,      \* some child runs that nobody looks after
  cut,           \* history: a read ended inside a line
  missed,        \* history: a line with the trigger was read and went unseen
  selectFailed   \* history: select failed

childVars == <<child, phase, pipe>>
history == <<cut, missed, selectFailed>>
vars == <<pc, childPid, shouldExit, linePos, childVars, orphaned, history>>

\* The type of every variable.
TypeOK ==
  /\ pc \in {"start", "monitor", "kill", "delay", "returned", "done"}
  /\ childPid \in BOOLEAN /\ shouldExit \in BOOLEAN /\ linePos \in BOOLEAN
  /\ child \in {"none", "running", "dead"}
  /\ phase \in {"fresh", "normal", "recovered"}
  /\ pipe \in Seq(Pieces)
  /\ orphaned \in BOOLEAN
  /\ cut \in BOOLEAN /\ missed \in BOOLEAN /\ selectFailed \in BOOLEAN

Init ==
  /\ pc = "start" /\ childPid = FALSE /\ shouldExit = FALSE /\ linePos = FALSE
  /\ child = "none" /\ phase = "fresh" /\ pipe = << >>
  /\ orphaned = FALSE /\ cut = FALSE /\ missed = FALSE /\ selectFailed = FALSE

-----------------------------------------------------------------------------
(* The child.                                                              *)

\* It writes other lines first, and asks again and again once it has recovered.
Line == IF phase = "recovered" THEN <<"r", "R">> ELSE <<"o", "O">>
EndsInside(text) == text # << >> /\ text[Len(text)] \in {"r", "o"}
Inside == EndsInside(pipe)
Rest == IF pipe[Len(pipe)] = "r" THEN "R" ELSE "O"

Write ==
  /\ child = "running"
  /\ Len(pipe) + 2 <= MaxPipe
  /\ ~Inside
  /\ \/ pipe' = pipe \o Line
     \/ pipe' = Append(pipe, Line[1])
  /\ phase' = IF phase = "fresh" THEN "normal" ELSE phase
  /\ UNCHANGED <<pc, childPid, shouldExit, linePos, child, orphaned, history>>

\* The second half of a line, when the first one has not been read yet.
WriteRest ==
  /\ child = "running"
  /\ Inside
  /\ pipe' = Append(pipe, Rest)
  /\ UNCHANGED <<pc, childPid, shouldExit, linePos, child, phase, orphaned, history>>

Recover ==
  /\ child = "running" /\ phase = "normal"
  /\ phase' = "recovered"
  /\ UNCHANGED <<pc, childPid, shouldExit, linePos, child, pipe, orphaned, history>>

ChildExits ==
  /\ child = "running"
  /\ child' = "dead"
  /\ UNCHANGED <<pc, childPid, shouldExit, linePos, phase, pipe, orphaned, history>>

-----------------------------------------------------------------------------
(* monitor_child_output.                                                   *)

Readable == IF pipe = << >> THEN {0} ELSE 1 .. Len(pipe)

\* The line that begins with piece i of the text is complete and unspoilt.
Whole(text, i, pos) == /\ i < Len(text) /\ text[i + 1] = "R"
                       /\ ~pos \/ i > 1
SeesTriggerMutant(text, pos) == text # << >> /\ text[1] = "r" /\ Whole(text, 1, pos)
SeesTrigger(text, pos) ==
  \E i \in 1 .. Len(text) : text[i] = "r" /\ Whole(text, i, pos)

\* The return with the trigger comes before line_pos = 0.
PosAfterMutant(text, pos) == pos \/ text # << >>
PosAfter(text, pos) ==
  IF text = << >> THEN pos
  ELSE SeesTrigger(text, pos) \/ EndsInside(text)

-----------------------------------------------------------------------------
(* start_child_process.                                                    *)

\* The pipes of the child before were closed.  Between two calls main looks at should_exit only.
StartMutant ==
  /\ pc = "start" /\ ~shouldExit
  /\ child' = "running" /\ phase' = "fresh"
  /\ pc' = "monitor"
  /\ UNCHANGED <<childPid, shouldExit, linePos, pipe, orphaned, history>>
Start ==
  /\ pc = "start" /\ ~shouldExit
  /\ child' = "running" /\ phase' = "fresh" /\ pipe' = << >>
  /\ pc' = "monitor"
  /\ UNCHANGED <<childPid, shouldExit, linePos, orphaned, history>>

StartFails ==
  /\ pc = "start" /\ ~shouldExit
  /\ pc' = "done"
  /\ UNCHANGED <<childPid, shouldExit, linePos, childVars, orphaned, history>>

\* The loop ends with a trigger, or when waitpid finds that the child has exited.
AfterReadMutant(seen) == IF seen THEN "kill" ELSE "monitor"
AfterRead(seen) == IF seen THEN "kill"
                   ELSE IF child = "dead" THEN "returned" ELSE "monitor"

\* One turn of the loop: n pieces are read, then waitpid.
Monitor(n) ==
  /\ pc = "monitor" /\ ~shouldExit
  /\ n \in Readable
  /\ LET text == SubSeq(pipe, 1, n)
         seen == SeesTrigger(text, linePos)
         asked == \E i \in 1 .. n : text[i] = "R"
     IN /\ linePos' = PosAfter(text, linePos)
        /\ missed' = (missed \/ (asked /\ ~seen))
        /\ cut' = (cut \/ EndsInside(text))
        /\ pc' = AfterRead(seen)
  /\ pipe' = SubSeq(pipe, n + 1, Len(pipe))
  /\ child' = IF child = "dead" THEN "none" ELSE child
  /\ childPid' = (pc' = "returned")
  /\ UNCHANGED <<shouldExit, phase, orphaned, selectFailed>>

\* select fails for another reason than a signal: the child is taken for gone.
SelectFails ==
  /\ pc = "monitor" /\ ~shouldExit
  /\ pc' = "returned" /\ childPid' = TRUE
  /\ selectFailed' = TRUE
  /\ UNCHANGED <<shouldExit, linePos, childVars, orphaned, cut, missed>>

StopMonitoring ==
  /\ pc = "monitor" /\ shouldExit
  /\ pc' = "returned" /\ childPid' = TRUE
  /\ UNCHANGED <<shouldExit, linePos, childVars, orphaned, history>>

\* SIGTERM, a second later SIGKILL, and waitpid.
KillMutant ==
  /\ pc = "kill"
  /\ child' = "none" /\ orphaned' = (orphaned \/ child = "running")
  /\ pc' = "delay"
  /\ UNCHANGED <<childPid, shouldExit, linePos, phase, pipe, history>>
Kill ==
  /\ pc = "kill"
  /\ child' = "none"
  /\ pc' = "delay"
  /\ UNCHANGED <<childPid, shouldExit, linePos, phase, pipe, orphaned, history>>

-----------------------------------------------------------------------------
(* main and signal_handler.                                                *)

Delay ==
  /\ pc = "delay"
  /\ pc' = "start"
  /\ UNCHANGED <<childPid, shouldExit, linePos, childVars, orphaned, history>>

\* child_pid = 0: whatever child there is, it is not looked after any more.
ForgetMutant ==
  /\ pc = "returned"
  /\ orphaned' = (orphaned \/ child = "running")
  /\ child' = "none"
  /\ pc' = "start"
  /\ UNCHANGED <<childPid, shouldExit, linePos, phase, pipe, history>>
Forget ==
  /\ pc = "returned"
  /\ childPid' = FALSE
  /\ orphaned' = (orphaned \/ child = "running")
  /\ child' = "none"
  /\ pc' = "start"
  /\ UNCHANGED <<shouldExit, linePos, phase, pipe, history>>

Exit ==
  /\ pc = "start" /\ shouldExit
  /\ pc' = "done"
  /\ UNCHANGED <<childPid, shouldExit, linePos, childVars, orphaned, history>>

\* SIGINT or SIGTERM at any moment: only a child whose pid main has stored is
\* terminated, and main stores it when it stops looking after the child.
Signal ==
  /\ pc # "done"
  /\ shouldExit' = TRUE
  /\ child' = IF childPid /\ child = "running" THEN "dead" ELSE child
  /\ UNCHANGED <<pc, childPid, linePos, phase, pipe, orphaned, history>>

Watch == \/ Start
         \/ \E n \in 0 .. MaxPipe : Monitor(n)
         \/ StopMonitoring
         \/ Kill \/ Delay \/ Forget \/ Exit
Writes == Write \/ WriteRest

Next == Watch \/ StartFails \/ SelectFails \/ Writes \/ Recover \/ ChildExits \/ Signal

Spec == Init /\ [][Next]_vars

\* The watchdog runs, no system call has to fail, and a child that has recovered goes on asking.
FairSpec == /\ Spec
            /\ WF_vars(Watch)
            /\ WF_vars(Writes /\ phase = "recovered")

-----------------------------------------------------------------------------
(* Properties.                                                             *)

\* "Monitors both stdout and stderr for restart triggers": no line with the
\* trigger that was read goes unseen.
NoTriggerMissed == ~missed

\* Only reads that end inside a line make the watchdog miss a request: while
\* they end with lines, the position a trigger leaves behind in line_pos costs
\* the next child nothing but its first line.
OnlyCutMisses == missed => cut

\* Where main, start_child_process and the signal handler agree on the child, as
\* long as select does not fail: it is looked after from its start until it is
\* reaped, killed or forgotten; child_pid holds a pid only while main decides
\* what to do next, so that the handler never signals a pid that is long gone;
\* and a child is forgotten alive only on the way out.
Agreement ==
  /\ pc \in {"start", "delay", "done"} => child = "none"
  /\ pc = "monitor" => child # "none"
  /\ childPid => pc = "returned"
  /\ pc = "returned" /\ child = "running" => shouldExit
  /\ orphaned => shouldExit /\ pc \in {"start", "done"}
ChildInv == TypeOK /\ (Agreement \/ selectFailed)

\* A sender is started only when no other one runs, whatever the signals and the
\* children do and whenever fork fails, as long as select does not.
OneChild == child = "running" /\ orphaned => selectFailed

\* Only a child that has asked for it is terminated to be started again: text
\* that is left over in line_pos or in a pipe never restarts a healthy child.
NoFalseRestart == pc = "kill" => phase = "recovered"

\* The inductive strengthening of NoFalseRestart and OnlyCutMisses: a trigger in
\* the pipe is the present child's, and while reads end with lines the pipe starts
\* with one, and a line_pos that is not 0 meets the first line of a new child.
OwnTrigger == (\E i \in 1 .. Len(pipe) : pipe[i] = "r") => phase = "recovered"
WholeLines == \A i \in 1 .. Len(pipe) : pipe[i] = "R" => i > 1 /\ pipe[i - 1] = "r"
FirstLineHarmless ==
  pc = "monitor" /\ linePos => IF pipe = << >> THEN phase = "fresh" ELSE pipe[1] = "o"
PipeInv == /\ NoFalseRestart /\ OwnTrigger
           /\ phase = "fresh" => pipe = << >>
           /\ ~cut => ~missed /\ WholeLines /\ FirstLineHarmless

\* A child that asks for it is replaced, unless a read cut its lines, ...
AskedIsReplaced == (child = "running" /\ phase = "recovered")
                     ~> (phase = "fresh" \/ pc = "done" \/ cut)

\* ... and one that is gone is too, unless the watchdog is told to stop.
GoneIsReplaced == child = "dead" ~> (child = "running" \/ pc = "done")
=============================================================================
