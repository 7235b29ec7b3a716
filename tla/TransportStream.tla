-------------------------- MODULE TransportStream --------------------------
(***************************************************************************)
(* The part of an MPEG transport stream that program-selection.c looks at. *)
(* A multiplex changes from line-up to line-up; a line-up has a PAT, a CAT *)
(* and a PMT for each program.  A table fits in one packet.                *)
(***************************************************************************)
EXTENDS Integers, Sequences

\* Lineups[e] is the line-up in era e:
\*   pat, patVersion        the programs in order, each with its PMT's PID
\*   pcr, streams           for each program its PCR PID and its elementary streams in
\*                          order, each with its PID and its ES_info_length
\*   pmtVersion             for each program
\*   emm, catVersion        the EMM PIDs
\*   other                  PIDs no table lists
CONSTANTS Lineups, Pids, Programs, Versions

PatPid == 0
CatPid == 1

Eras == DOMAIN Lineups

\* A PAT lists a program once, and a table gets a new version when, and only when, its
\* contents change.
ASSUME LineupsAssumption ==
    /\ Pids \subseteq Nat /\ Programs \subseteq Nat \ {0} /\ Versions \subseteq Nat
    /\ Lineups # <<>>
    /\ Lineups \in Seq([pat : Seq([number : Programs, pmt : Pids]), patVersion : Versions,
                        pcr : [Programs -> Pids], pmtVersion : [Programs -> Versions],
                        streams : [Programs -> Seq([pid : Pids, info : Nat])],
                        emm : SUBSET Pids, catVersion : Versions, other : SUBSET Pids])
    /\ \A e \in Eras : \A i, j \in DOMAIN Lineups[e].pat :
          Lineups[e].pat[i].number = Lineups[e].pat[j].number => i = j
    /\ \A d, e \in Eras :
          /\ Lineups[d].patVersion = Lineups[e].patVersion <=> Lineups[d].pat = Lineups[e].pat
          /\ Lineups[d].catVersion = Lineups[e].catVersion => Lineups[d].emm = Lineups[e].emm
          /\ \A p \in Programs : Lineups[d].pmtVersion[p] = Lineups[e].pmtVersion[p]
                                    => /\ Lineups[d].pcr[p] = Lineups[e].pcr[p]
                                       /\ Lineups[d].streams[p] = Lineups[e].streams[p]

PatEntries(e) == {Lineups[e].pat[i] : i \in DOMAIN Lineups[e].pat}

\* The PIDs of program n: its PCR's and its elementary streams'.
PidsOf(e, n) == {Lineups[e].pcr[n]} \union
                {Lineups[e].streams[n][i].pid : i \in DOMAIN Lineups[e].streams[n]}

\* The last stream's, if less than three bytes of descriptors follow it in the PMT.
Bare(e, n) == {Lineups[e].streams[n][i].pid :
                 i \in {Len(Lineups[e].streams[n])} \intersect
                       {j \in DOMAIN Lineups[e].streams[n] : Lineups[e].streams[n][j].info < 3}}

\* A packet: number is the program of a PMT, and 0 in any other packet.
Packet(e, pid, number) == [era |-> e, pid |-> pid, number |-> number]
Pat(e) == Packet(e, PatPid, 0)
Cat(e) == Packet(e, CatPid, 0)
Pmts(e) == {Packet(e, x.pmt, x.number) : x \in PatEntries(e)}
Content(e) == {Packet(e, pid, 0) : pid \in Lineups[e].emm \union Lineups[e].other
                                     \union UNION {PidsOf(e, x.number) : x \in PatEntries(e)}}
Packets == [e \in Eras |-> {Pat(e), Cat(e)} \union Pmts(e) \union Content(e)]

\* Where in a program list the first entry with a PMT PID, or a program number, is:
\* a set of one place or none.
Least(S) == {i \in S : \A j \in S : i <= j}
FirstWithPmt(list, pid) == Least({i \in DOMAIN list : list[i].pmt = pid})
FirstWithNumber(list, n) == Least({i \in DOMAIN list : list[i].number = n})
=============================================================================
