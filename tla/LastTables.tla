---------------------------- MODULE LastTables ----------------------------
(***************************************************************************)
(* What a filter of programs should go by: the PAT and the CAT it was      *)
(* shown last, and the last PMT of each program since that PAT.  The last  *)
(* stream of a PMT may be overlooked when it has no descriptors.           *)
(***************************************************************************)
EXTENDS TransportStream

VARIABLES
    programs,   \* for each entry of the PAT its program, PMT PID and known PIDs
    emm         \* the EMM PIDs

Unknown(x) == [number |-> x.number, pmt |-> x.pmt, pids |-> {}]
Fresh(pat) == [i \in DOMAIN pat |-> Unknown(pat[i])]
Remembered == [i \in DOMAIN programs |-> [number |-> programs[i].number, pmt |-> programs[i].pmt]]

ShowPat(e) ==
    /\ programs' = IF Remembered = Lineups[e].pat THEN programs ELSE Fresh(Lineups[e].pat)
    /\ UNCHANGED emm

ShowCat(e) == emm' = Lineups[e].emm /\ UNCHANGED programs

\* A PMT counts when the PAT announced it on this PID.
ShowPmt(p) ==
    /\ \E overlooked \in SUBSET Bare(p.era, p.number) :
          programs' = [i \in DOMAIN programs |->
                         IF i \in FirstWithPmt(programs, p.pid) /\ programs[i].number = p.number
                         THEN [programs[i] EXCEPT !.pids = PidsOf(p.era, p.number) \ overlooked]
                         ELSE programs[i]]
    /\ UNCHANGED emm

Init == programs = <<>> /\ emm = {}
Next == \E e \in Eras : ShowPat(e) \/ ShowCat(e) \/ \E p \in Pmts(e) : ShowPmt(p)
Spec == Init /\ [][Next]_<<programs, emm>>
=============================================================================
