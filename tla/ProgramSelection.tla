------------------------- MODULE ProgramSelection -------------------------
(***************************************************************************)
(* Program selection of a sender: program-selection.c with the filtered    *)
(* sending and retransmission of udp.c.  Each receiver's keepalives carry  *)
(* what it wants; data and retransmissions for it are filtered.  What the  *)
(* programs consist of is learnt from the tables among the filtered        *)
(* packets, in one cache for the whole process.                            *)
(***************************************************************************)
EXTENDS TransportStream

CONSTANTS
    Receivers,
    Requests,   \* contentSelections that receivers send
    PsiMax,     \* 0x1F
    None        \* no selection, no version

VARIABLES
    want,       \* for each receiver the JSON its keepalives carry
    selection,  \* for each receiver what the sender stored of it
    live,       \* the receivers that are sent the stream, not only retransmissions
    era,        \* the line-up that is written now
    written,    \* the packets of it that have been written
    oldest,     \* the era of the oldest packet in the sender's queue
    programs,   \* psi_cache.programs, each with its PCR and elementary PIDs
    patVersion, \* psi_cache.pat_version, None if not valid
    emm, catVersion

psi_cache == <<programs, patVersion, emm, catVersion>>
source == <<era, written, oldest>>
peers == <<want, selection, live>>
vars == <<peers, source, psi_cache>>

ASSUME SelectionAssumption ==
    /\ PsiMax \in Nat \ {0} /\ None \notin Versions /\ None \notin Requests
    /\ Requests \subseteq [programs : SUBSET Programs, blockedPrograms : SUBSET Programs,
                           pids : Seq(Pids), blockedPids : Seq(Pids)]

----------------------------------------------------------------------------
\* What is stored.

\* A list of PIDs ends with a 0, so it ends at PID 0 if that is in it.
Listed(list) == {list[i] : i \in {j \in DOMAIN list : \A k \in 1 .. j : list[k] # 0}}

Stored(q) == [programs |-> q.programs, blockedPrograms |-> q.blockedPrograms,
              pidsGiven |-> q.pids # <<>>, pids |-> Listed(q.pids),
              blockedPids |-> Listed(q.blockedPids)]

\* rist_receiver_set_content_selection.
SetContentSelection(r, q) ==
    /\ want' = [want EXCEPT ![r] = q]
    /\ UNCHANGED <<selection, live, source, psi_cache>>

\* A keepalive without JSON changes nothing: what was selected stays selected.
Keepalive(r) ==
    /\ want[r] # None
    /\ selection' = [selection EXCEPT ![r] = Stored(want[r])]
    /\ UNCHANGED <<want, live, source, psi_cache>>

\* The sender's peer is removed; when the receiver comes back it has another id.
RemovePeer(r) ==
    /\ selection' = [selection EXCEPT ![r] = None]
    /\ live' = live \ {r}
    /\ UNCHANGED <<want, source, psi_cache>>

\* A recovery agent is sent the stream while it asks for it (Fsr).
SetLive(r) ==
    /\ live' \in {live \union {r}, live \ {r}}
    /\ UNCHANGED <<want, selection, source, psi_cache>>

----------------------------------------------------------------------------
\* The cache.

EntryOf(x) == [number |-> x.number, pmt |-> x.pmt, pids |-> {}, version |-> None]

\* A plausible bug: what is known of the programs outlives the PAT.
parse_pat_packetMutant(e) ==
    /\ patVersion' = Lineups[e].patVersion
    /\ programs' = IF patVersion = Lineups[e].patVersion THEN programs
                   ELSE [i \in DOMAIN Lineups[e].pat |->
                           IF i \in DOMAIN programs
                           THEN [EntryOf(Lineups[e].pat[i]) EXCEPT !.pids = programs[i].pids,
                                                                   !.version = programs[i].version]
                           ELSE EntryOf(Lineups[e].pat[i])]
    /\ UNCHANGED <<emm, catVersion>>

parse_pat_packet(e) ==
    /\ patVersion' = Lineups[e].patVersion
    /\ programs' = IF patVersion = Lineups[e].patVersion THEN programs
                   ELSE [i \in DOMAIN Lineups[e].pat |-> EntryOf(Lineups[e].pat[i])]
    /\ UNCHANGED <<emm, catVersion>>

parse_cat_packet(e) ==
    /\ catVersion' = Lineups[e].catVersion
    /\ emm' = IF catVersion = Lineups[e].catVersion THEN emm ELSE Lineups[e].emm
    /\ UNCHANGED <<programs, patVersion>>

\* Of the PCR PID and the streams of a PMT the loop reads all whose first five bytes end
\* three bytes before the CRC: the last one has to have descriptors.
Learnt(e, n) ==
    LET streams == Lineups[e].streams[n]
    IN  {Lineups[e].pcr[n]} \union
        {streams[i].pid : i \in {j \in DOMAIN streams : j < Len(streams) \/ streams[j].info >= 3}}

Parsed(x, p) == [x EXCEPT !.pids = Learnt(p.era, p.number),
                          !.version = Lineups[p.era].pmtVersion[p.number]]

\* A plausible bug: a PMT is parsed once, whatever its version.
parse_pmt_packetMutant(p) ==
    /\ programs' = [i \in DOMAIN programs |->
                      IF /\ i \in FirstWithPmt(programs, p.pid)
                         /\ programs[i].number = p.number /\ programs[i].version = None
                      THEN Parsed(programs[i], p) ELSE programs[i]]
    /\ UNCHANGED <<patVersion, emm, catVersion>>

\* The first program on this PID has to be the one the PMT is of.
parse_pmt_packet(p) ==
    /\ programs' = [i \in DOMAIN programs |->
                      IF /\ i \in FirstWithPmt(programs, p.pid)
                         /\ programs[i].number = p.number
                         /\ programs[i].version # Lineups[p.era].pmtVersion[p.number]
                      THEN Parsed(programs[i], p) ELSE programs[i]]
    /\ UNCHANGED <<patVersion, emm, catVersion>>

\* filter_transport_stream_pids looks at each packet before it decides.
Show(p) ==
    CASE p.pid = PatPid -> parse_pat_packet(p.era)
      [] p.pid = CatPid -> parse_cat_packet(p.era)
      [] p.pid \notin {PatPid, CatPid} /\ p.number # 0 -> parse_pmt_packet(p)
      [] OTHER -> UNCHANGED psi_cache

----------------------------------------------------------------------------
\* should_include_pid.

is_pmt_pid(pid) == \E i \in DOMAIN programs : programs[i].pmt = pid

pid_belongs_to_program(pid, n) ==
    \E i \in FirstWithNumber(programs, n) : pid \in programs[i].pids

\* A plausible bug: a blocked PID is looked for before a requested one.
should_include_pidMutant(pid, s) ==
    \/ pid <= PsiMax \/ is_pmt_pid(pid) \/ pid \in emm
    \/ /\ pid \notin s.blockedPids
       /\ \/ pid \in s.pids
          \/ IF s.programs # {} THEN \E n \in s.programs : pid_belongs_to_program(pid, n)
             ELSE /\ ~\E n \in s.blockedPrograms : pid_belongs_to_program(pid, n)
                  /\ ~s.pidsGiven

should_include_pid(pid, s) ==
    \/ pid <= PsiMax \/ is_pmt_pid(pid) \/ pid \in emm
    \/ pid \in s.pids
    \/ /\ pid \notin s.blockedPids
       /\ IF s.programs # {} THEN \E n \in s.programs : pid_belongs_to_program(pid, n)
          ELSE /\ ~\E n \in s.blockedPrograms : pid_belongs_to_program(pid, n)
               /\ ~s.pidsGiven

----------------------------------------------------------------------------
\* The stream.

Filtered == {r \in live : selection[r] # None}

\* A packet is written and sent to every receiver that is live.
Send(p) ==
    /\ p \in Packets[era]
    /\ written' = written \union {p}
    /\ IF Filtered # {} THEN Show(p) ELSE UNCHANGED psi_cache
    /\ UNCHANGED <<peers, era, oldest>>

\* The packets that can be sent again.
Queued == written \union UNION {Packets[e] : e \in oldest .. era - 1}

\* rist_retry_dequeue for a receiver with a selection.
Retransmit(r, p) ==
    /\ p \in Queued /\ selection[r] # None
    /\ Show(p)
    /\ UNCHANGED <<peers, source>>

\* The multiplex changes, long after its tables have been sent.
NewLineup ==
    /\ era + 1 \in Eras /\ written = Packets[era]
    /\ era' = era + 1 /\ written' = {}
    /\ UNCHANGED <<peers, oldest, psi_cache>>

\* The last packet of an era leaves the sender's queue.
Forget ==
    /\ oldest < era
    /\ oldest' = oldest + 1
    /\ UNCHANGED <<peers, era, written, psi_cache>>

Init ==
    /\ want = [r \in Receivers |-> None] /\ selection = [r \in Receivers |-> None]
    /\ live = {} /\ era = 1 /\ written = {} /\ oldest = 1
    /\ programs = <<>> /\ patVersion = None /\ emm = {} /\ catVersion = None

Next ==
    \/ \E r \in Receivers : \/ \E q \in Requests \union {None} : SetContentSelection(r, q)
                            \/ Keepalive(r) \/ RemovePeer(r) \/ SetLive(r)
                            \/ \E p \in Queued : Retransmit(r, p)
    \/ \E p \in Packets[era] : Send(p)
    \/ NewLineup \/ Forget

Spec == Init /\ [][Next]_vars

\* Keepalives arrive now and then, the source repeats its tables, and old packets
\* leave the queue.
FairSpec ==
    /\ Spec
    /\ \A r \in Receivers : WF_vars(Keepalive(r))
    /\ WF_vars(Send(Pat(era))) /\ WF_vars(Send(Cat(era)))
    /\ \A n \in Programs : WF_vars(\E p \in Pmts(era) : p.number = n /\ Send(p))
    /\ WF_vars(Forget)

----------------------------------------------------------------------------

Entries == [number : Programs, pmt : Pids, pids : SUBSET Pids, version : Versions \union {None}]
Selections == [programs : SUBSET Programs, blockedPrograms : SUBSET Programs,
               pidsGiven : BOOLEAN, pids : SUBSET Pids, blockedPids : SUBSET Pids]

\* Every variable holds a value of its type.
TypeOK ==
    /\ want \in [Receivers -> Requests \union {None}]
    /\ selection \in [Receivers -> Selections \union {None}]
    /\ live \subseteq Receivers
    /\ era \in Eras /\ oldest \in 1 .. era /\ written \subseteq Packets[era]
    /\ programs \in Seq(Entries) /\ patVersion \in Versions \union {None}
    /\ emm \subseteq Pids /\ catVersion \in Versions \union {None}

\* The cache without its versions.
Known == [i \in DOMAIN programs |-> [number |-> programs[i].number, pmt |-> programs[i].pmt,
                                     pids |-> programs[i].pids]]

Tables == INSTANCE LastTables WITH programs <- Known, emm <- emm

\* Comparing versions is as good as comparing tables: through retransmissions of old
\* tables, receivers that come and go and streams nobody filters, the cache is what
\* the tables shown last say, but for a last stream without descriptors.
RemembersTables == Tables!Spec

\* The cache is what the tables of the line-up on the air say.
InStep ==
    /\ Tables!Remembered = Lineups[era].pat
    /\ \A i \in DOMAIN programs : LET n == programs[i].number IN
          /\ programs[i].pids \subseteq PidsOf(era, n)
          /\ PidsOf(era, n) \subseteq programs[i].pids \union Bare(era, n)
    /\ emm = Lineups[era].emm

\* What README.md says a request q lets through of the line-up e, by the tables of the
\* line-up and not by the cache: tables always, requested PIDs, no blocked ones, the
\* PIDs of requested programs or, if there are none, all but those of blocked ones.
Consists(e, pid, ns) == \E x \in PatEntries(e) : x.number \in ns /\ pid \in PidsOf(e, x.number)
AskedFor(q, e, pid) ==
    LET mandatory == pid <= PsiMax \/ pid \in Lineups[e].emm \/ \E x \in PatEntries(e) : x.pmt = pid
        free == q.programs = {} /\ q.pids = <<>> /\ ~Consists(e, pid, q.blockedPrograms)
    IN  \/ mandatory
        \/ pid \in Listed(q.pids)
        \/ pid \notin Listed(q.blockedPids) /\ (free \/ Consists(e, pid, q.programs))

\* The PIDs that may be overlooked.
Overlooked(e) == UNION {Bare(e, x.number) : x \in PatEntries(e)}

\* When the cache is in step with the line-up and a receiver's last keepalive with its
\* wish, the receiver is sent what it asked for and nothing else, but for the PIDs that
\* may be overlooked.
Decided(r) == InStep /\ want[r] # None /\ selection[r] = Stored(want[r])
AsAsked(r, p) == should_include_pid(p.pid, selection[r]) <=> AskedFor(want[r], era, p.pid)
DecidesAsAsked ==
    \A r \in Receivers :
        Decided(r) => \A p \in Packets[era] : p.pid \in Overlooked(era) \/ AsAsked(r, p)

\* The same without the exception: parse_pmt_packet says "Exclude CRC" where it excludes
\* three bytes more.
EveryStreamDecided == \A r \in Receivers : Decided(r) => \A p \in Packets[era] : AsAsked(r, p)

\* A receiver that is sent the stream and keeps its wish is in the end filtered by this
\* wish and the tables of the line-up that is on the air, whatever was retransmitted.
Settles ==
    \A r \in Receivers, q \in Requests :
        <>[](r \in live /\ want[r] = q) => <>[](InStep /\ selection[r] = Stored(q))

\* A receiver that keeps its selection and is only sent what it asks for again in the end
\* gets what it selected.  (Deciding about a packet that is no PAT, CAT or PMT does not
\* change the cache.)
RecoveredIsWanted ==
    \A r \in Receivers, q \in Requests :
        <>[](selection[r] = Stored(q) /\ r \notin live)
            => <>[](\A p \in Packets[era] : p.number = 0 /\ AskedFor(q, era, p.pid)
                                             => should_include_pid(p.pid, Stored(q)))
=============================================================================
