------------------------ MODULE MCProgramSelection ------------------------
EXTENDS ProgramSelection, TLC

Entry(n, pid) == [number |-> n, pmt |-> pid]

Stream(pid, info) == [pid |-> pid, info |-> info]

\* Program 1 changes its stream and gets another one without descriptors, then program 2
\* ends and program 1 takes its PMT's PID; the EMM PID is dropped on the way.
TwoPrograms == <<Entry(1, 2), Entry(2, 3)>>
Audio == <<Stream(5, 3)>>
LineupsConst == <<
    [pat |-> TwoPrograms, patVersion |-> 0, pcr |-> <<4, 5>>, streams |-> <<<<Stream(4, 0)>>, Audio>>,
     pmtVersion |-> <<0, 0>>, emm |-> {6}, catVersion |-> 0, other |-> {}],
    [pat |-> TwoPrograms, patVersion |-> 0, pcr |-> <<6, 5>>,
     streams |-> <<<<Stream(6, 0), Stream(7, 2)>>, Audio>>,
     pmtVersion |-> <<1, 0>>, emm |-> {}, catVersion |-> 1, other |-> {}],
    [pat |-> <<Entry(1, 3)>>, patVersion |-> 1, pcr |-> <<5, 5>>, streams |-> <<Audio, Audio>>,
     pmtVersion |-> <<2, 0>>, emm |-> {}, catVersion |-> 1, other |-> {4}] >>

Wish(ps, bs, pids, blocked) ==
    [programs |-> ps, blockedPrograms |-> bs, pids |-> pids, blockedPids |-> blocked]
RequestsConst == {Wish({1}, {}, <<>>, <<5>>), Wish({}, {2}, <<>>, <<4>>), Wish({}, {}, <<4>>, <<4>>)}
=============================================================================
