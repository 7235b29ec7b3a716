---------------------- MODULE ProgramSelectionProofs ----------------------
(***************************************************************************)
(* For any line-ups, receivers and requests: the cache goes by versions    *)
(* alone and yet holds the tables it was shown last, and the filter that   *)
(* goes by the cache decides what the receiver asked for, both but for the *)
(* last stream of a PMT when that has no descriptors.                      *)
(***************************************************************************)
EXTENDS ProgramSelection, TLAPS

USE SelectionAssumption

----------------------------------------------------------------------------
\* Facts about sequences, line-ups and packets.

LEMMA SeqFacts ==
    ASSUME NEW S, NEW s \in Seq(S)
    PROVE  /\ DOMAIN s = 1 .. Len(s) /\ Len(s) \in Nat
           /\ \A i \in DOMAIN s : s[i] \in S
           /\ s # <<>> => 1 \in DOMAIN s
OBVIOUS

LEMMA MapOfSeq ==
    ASSUME NEW S, NEW T, NEW s \in Seq(S), NEW t, DOMAIN t = DOMAIN s, t = [i \in DOMAIN s |-> t[i]],
           \A i \in DOMAIN s : t[i] \in T
    PROVE  t \in Seq(T)
<1>1. Len(s) \in Nat /\ DOMAIN s = 1 .. Len(s)
  OBVIOUS
<1>2. t \in [1 .. Len(s) -> T]
  BY <1>1
<1> QED BY <1>1, <1>2

LEMMA LineupFacts ==
    /\ Eras = 1 .. Len(Lineups) /\ 1 \in Eras
    /\ \A e \in Eras :
          /\ Lineups[e].pat \in Seq([number : Programs, pmt : Pids])
          /\ Lineups[e].patVersion \in Versions /\ Lineups[e].catVersion \in Versions
          /\ Lineups[e].emm \in SUBSET Pids
          /\ \A n \in Programs : /\ Lineups[e].pcr[n] \in Pids
                                 /\ Lineups[e].streams[n] \in Seq([pid : Pids, info : Nat])
                                 /\ Lineups[e].pmtVersion[n] \in Versions
<1> DEFINE L == [pat : Seq([number : Programs, pmt : Pids]), patVersion : Versions,
                 pcr : [Programs -> Pids], pmtVersion : [Programs -> Versions],
                 streams : [Programs -> Seq([pid : Pids, info : Nat])],
                 emm : SUBSET Pids, catVersion : Versions, other : SUBSET Pids]
<1>1. Lineups \in Seq(L) /\ Lineups # <<>>
  BY LineupsAssumption
<1> HIDE DEF L
<1>2. Eras = 1 .. Len(Lineups) /\ 1 \in Eras
  BY <1>1, SeqFacts DEF Eras
<1>3. \A e \in Eras : Lineups[e] \in L
  BY <1>1, SeqFacts DEF Eras
<1> QED BY <1>2, <1>3 DEF L

\* What a version stands for.
LEMMA PatVersionFacts ==
    ASSUME NEW d \in Eras, NEW e \in Eras
    PROVE  Lineups[d].patVersion = Lineups[e].patVersion <=> Lineups[d].pat = Lineups[e].pat
BY LineupsAssumption, Zenon

LEMMA CatVersionFacts ==
    ASSUME NEW d \in Eras, NEW e \in Eras, Lineups[d].catVersion = Lineups[e].catVersion
    PROVE  Lineups[d].emm = Lineups[e].emm
BY LineupsAssumption, Zenon

LEMMA PmtVersionFacts ==
    ASSUME NEW d \in Eras, NEW e \in Eras, NEW n \in Programs,
           Lineups[d].pmtVersion[n] = Lineups[e].pmtVersion[n]
    PROVE  Learnt(d, n) = Learnt(e, n)
<1>1. Lineups[d].pcr[n] = Lineups[e].pcr[n] /\ Lineups[d].streams[n] = Lineups[e].streams[n]
  BY LineupsAssumption, Zenon
<1> QED BY <1>1, Zenon DEF Learnt

\* What is learnt of a program is all of it but, perhaps, its last stream.
LEMMA LearntFacts ==
    ASSUME NEW e \in Eras, NEW n \in Programs
    PROVE  /\ Learnt(e, n) \in SUBSET Pids /\ Learnt(e, n) \subseteq PidsOf(e, n)
           /\ PidsOf(e, n) \ Learnt(e, n) \in SUBSET Bare(e, n)
           /\ Learnt(e, n) = PidsOf(e, n) \ (PidsOf(e, n) \ Learnt(e, n))
<1> DEFINE streams == Lineups[e].streams[n]
<1>1. Lineups[e].pcr[n] \in Pids /\ streams \in Seq([pid : Pids, info : Nat])
  BY LineupFacts
<1>2. /\ DOMAIN streams = 1 .. Len(streams) /\ Len(streams) \in Nat
      /\ \A i \in DOMAIN streams : streams[i] \in [pid : Pids, info : Nat]
  BY <1>1, SeqFacts
<1> HIDE DEF streams
<1>3. /\ Learnt(e, n) = {Lineups[e].pcr[n]} \union
            {streams[i].pid : i \in {j \in DOMAIN streams : j < Len(streams) \/ streams[j].info >= 3}}
      /\ PidsOf(e, n) = {Lineups[e].pcr[n]} \union {streams[i].pid : i \in DOMAIN streams}
      /\ Bare(e, n) = {streams[i].pid : i \in {Len(streams)} \intersect
                                             {j \in DOMAIN streams : streams[j].info < 3}}
  BY DEF Learnt, PidsOf, Bare, streams
<1>4. Learnt(e, n) \in SUBSET Pids /\ Learnt(e, n) \subseteq PidsOf(e, n)
  BY <1>1, <1>2, <1>3
<1>5. ASSUME NEW x \in PidsOf(e, n), x \notin Learnt(e, n) PROVE x \in Bare(e, n)
  <2>1. PICK i \in DOMAIN streams : x = streams[i].pid
    BY <1>3, <1>5
  <2>2. ~(i < Len(streams)) /\ ~(streams[i].info >= 3)
    BY <1>3, <1>5, <2>1
  <2>3. i = Len(streams) /\ streams[i].info < 3
    BY <1>2, <2>2
  <2> QED BY <1>3, <2>1, <2>3
<1> QED BY <1>4, <1>5

LEMMA EntryFacts ==
    ASSUME NEW e \in Eras, NEW i \in DOMAIN Lineups[e].pat
    PROVE  /\ Lineups[e].pat[i].number \in Programs /\ Lineups[e].pat[i].pmt \in Pids
           /\ Lineups[e].pat[i] = [number |-> Lineups[e].pat[i].number, pmt |-> Lineups[e].pat[i].pmt]
<1>1. Lineups[e].pat \in Seq([number : Programs, pmt : Pids])
  BY LineupFacts
<1>2. Lineups[e].pat[i] \in [number : Programs, pmt : Pids]
  BY <1>1, SeqFacts
<1> QED BY <1>2

LEMMA PacketFacts ==
    ASSUME NEW e \in Eras, NEW p \in Packets[e]
    PROVE  /\ p.era = e
           /\ p.number # 0 => p \in Pmts(e) /\ p.number \in Programs
<1>1. p \in {Pat(e), Cat(e)} \union Pmts(e) \union Content(e)
  BY DEF Packets
<1>2. CASE p \in {Pat(e), Cat(e)}
  BY <1>2 DEF Pat, Cat, Packet
<1>3. CASE p \in Pmts(e)
  <2>1. PICK i \in DOMAIN Lineups[e].pat :
           p = Packet(e, Lineups[e].pat[i].pmt, Lineups[e].pat[i].number)
    BY <1>3 DEF Pmts, PatEntries
  <2>2. p.era = e /\ p.number = Lineups[e].pat[i].number
    BY <2>1 DEF Packet
  <2> QED BY <1>3, <2>2, EntryFacts
<1>4. CASE p \in Content(e)
  BY <1>4 DEF Content, Packet
<1> QED BY <1>1, <1>2, <1>3, <1>4

\* A packet in the queue is of some line-up.
LEMMA QueuedFacts ==
    ASSUME TypeOK, NEW p \in Queued
    PROVE  \E e \in Eras : p \in Packets[e]
<1>1. CASE p \in written
  BY <1>1 DEF TypeOK
<1>2. CASE p \notin written
  <2>1. PICK e \in oldest .. era - 1 : p \in Packets[e]
    BY <1>2 DEF Queued
  <2>2. e \in Eras
    BY LineupFacts DEF TypeOK
  <2> QED BY <2>1, <2>2
<1> QED BY <1>1, <1>2

----------------------------------------------------------------------------
\* Types.

CacheOK == /\ programs \in Seq(Entries) /\ patVersion \in Versions \union {None}
           /\ emm \subseteq Pids /\ catVersion \in Versions \union {None}

\* Whatever packet is looked at, the cache keeps its type.
LEMMA ShowType ==
    ASSUME CacheOK, NEW e \in Eras, NEW p \in Packets[e], Show(p)
    PROVE  CacheOK'
<1>1. CASE p.pid = PatPid
  <2>0. p.era = e
    BY PacketFacts
  <2>1. parse_pat_packet(p.era)
    BY <1>1 DEF Show, PatPid, CatPid
  <2>2. CASE patVersion = Lineups[e].patVersion
    BY <2>0, <2>1, <2>2, LineupFacts DEF parse_pat_packet, CacheOK
  <2>3. CASE patVersion # Lineups[e].patVersion
    <3>1. programs' = [i \in DOMAIN Lineups[e].pat |-> EntryOf(Lineups[e].pat[i])]
      BY <2>0, <2>1, <2>3 DEF parse_pat_packet
    <3>2. ASSUME NEW i \in DOMAIN Lineups[e].pat PROVE EntryOf(Lineups[e].pat[i]) \in Entries
      BY EntryFacts DEF EntryOf, Entries
    <3>3. Lineups[e].pat \in Seq([number : Programs, pmt : Pids])
      BY LineupFacts
    <3>4. /\ DOMAIN programs' = DOMAIN Lineups[e].pat
          /\ programs' = [i \in DOMAIN Lineups[e].pat |-> programs'[i]]
          /\ \A i \in DOMAIN Lineups[e].pat : programs'[i] \in Entries
      BY <3>1, <3>2
    <3>5. programs' \in Seq(Entries)
      BY <3>3, <3>4, MapOfSeq
    <3> QED BY <2>0, <2>1, <3>5, LineupFacts DEF parse_pat_packet, CacheOK
  <2> QED BY <2>2, <2>3
<1>2. CASE p.pid # PatPid /\ p.pid = CatPid
  <2>0. p.era = e
    BY PacketFacts
  <2>1. parse_cat_packet(p.era)
    BY <1>2 DEF Show, PatPid, CatPid
  <2> QED BY <2>0, <2>1, LineupFacts DEF parse_cat_packet, CacheOK
<1>3. CASE p.pid # PatPid /\ p.pid # CatPid /\ p.number # 0
  <2>1. parse_pmt_packet(p) /\ p.era = e /\ p.number \in Programs
    BY <1>3, PacketFacts DEF Show
  <2>2. ASSUME NEW i \in DOMAIN programs PROVE programs[i] \in Entries /\ Parsed(programs[i], p) \in Entries
    <3>1. programs[i] \in Entries
      BY DEF CacheOK
    <3>2. Learnt(p.era, p.number) \in SUBSET Pids /\ Lineups[p.era].pmtVersion[p.number] \in Versions
      BY <2>1, LineupFacts, LearntFacts
    <3> QED BY <3>1, <3>2 DEF Parsed, Entries
  <2>3. programs' \in Seq(Entries)
    <3>1. programs \in Seq(Entries)
      BY DEF CacheOK
    <3>2. /\ DOMAIN programs' = DOMAIN programs /\ programs' = [i \in DOMAIN programs |-> programs'[i]]
          /\ \A i \in DOMAIN programs : programs'[i] \in {programs[i], Parsed(programs[i], p)}
      BY <2>1 DEF parse_pmt_packet
    <3>3. \A i \in DOMAIN programs : programs'[i] \in Entries
      BY <2>2, <3>2
    <3> QED BY <3>1, <3>2, <3>3, MapOfSeq
  <2> QED BY <2>1, <2>3 DEF parse_pmt_packet, CacheOK
<1>4. CASE p.pid # PatPid /\ p.pid # CatPid /\ p.number = 0
  BY <1>4 DEF Show, CacheOK, psi_cache
<1> QED BY <1>1, <1>2, <1>3, <1>4

LEMMA StoredType == \A q \in Requests : Stored(q) \in Selections
<1> SUFFICES ASSUME NEW q \in Requests PROVE Stored(q) \in Selections
  OBVIOUS
<1>1. q \in [programs : SUBSET Programs, blockedPrograms : SUBSET Programs,
             pids : Seq(Pids), blockedPids : Seq(Pids)]
  OBVIOUS
<1>2. ASSUME NEW list \in Seq(Pids) PROVE Listed(list) \in SUBSET Pids
  BY DEF Listed
<1>3. Listed(q.pids) \in SUBSET Pids /\ Listed(q.blockedPids) \in SUBSET Pids
  BY <1>1, <1>2
<1>4. q.programs \in SUBSET Programs /\ q.blockedPrograms \in SUBSET Programs
  BY <1>1
<1>5. (q.pids # <<>>) \in BOOLEAN
  OBVIOUS
<1> QED BY <1>3, <1>4, <1>5 DEF Stored, Selections

\* Every variable keeps its type.
THEOREM TypeCorrect == Spec => []TypeOK
<1>1. Init => TypeOK
  <2> SUFFICES ASSUME Init PROVE TypeOK
    OBVIOUS
  <2>1. era \in Eras /\ oldest \in 1 .. era /\ written \subseteq Packets[era]
    BY LineupFacts DEF Init
  <2>2. programs \in Seq(Entries)
    BY DEF Init
  <2> QED BY <2>1, <2>2 DEF Init, TypeOK
<1>2. TypeOK /\ [Next]_vars => TypeOK'
  <2> SUFFICES ASSUME TypeOK, [Next]_vars PROVE TypeOK'
    OBVIOUS
  <2>0. CacheOK
    BY DEF TypeOK, CacheOK
  <2>1. ASSUME NEW r \in Receivers, NEW q \in Requests \union {None}, SetContentSelection(r, q) PROVE TypeOK'
    BY <2>1 DEF SetContentSelection, TypeOK, source, psi_cache
  <2>2. ASSUME NEW r \in Receivers, Keepalive(r) PROVE TypeOK'
    <3>1. want[r] \in Requests
      BY <2>2 DEF Keepalive, TypeOK
    <3>2. Stored(want[r]) \in Selections
      BY <3>1, StoredType
    <3> QED BY <2>2, <3>2 DEF Keepalive, TypeOK, source, psi_cache
  <2>3. ASSUME NEW r \in Receivers, RemovePeer(r) PROVE TypeOK'
    BY <2>3 DEF RemovePeer, TypeOK, source, psi_cache
  <2>4. ASSUME NEW r \in Receivers, SetLive(r) PROVE TypeOK'
    BY <2>4 DEF SetLive, TypeOK, source, psi_cache
  <2>5. ASSUME NEW r \in Receivers, NEW p \in Queued, Retransmit(r, p) PROVE TypeOK'
    <3>1. PICK e \in Eras : p \in Packets[e]
      BY QueuedFacts
    <3>2. CacheOK'
      BY <2>0, <2>5, <3>1, ShowType DEF Retransmit
    <3> QED BY <2>5, <3>2 DEF Retransmit, TypeOK, CacheOK, peers, source
  <2>6. ASSUME NEW p \in Packets[era], Send(p) PROVE TypeOK'
    <3>1. era \in Eras
      BY DEF TypeOK
    <3>2. CacheOK'
      <4>1. CASE Filtered # {}
        BY <2>0, <2>6, <3>1, <4>1, ShowType DEF Send
      <4>2. CASE Filtered = {}
        BY <2>0, <2>6, <4>2 DEF Send, CacheOK, psi_cache
      <4> QED BY <4>1, <4>2
    <3> QED BY <2>6, <3>2 DEF Send, TypeOK, CacheOK, peers
  <2>7. CASE NewLineup
    BY <2>7, LineupFacts DEF NewLineup, TypeOK, peers, psi_cache
  <2>8. CASE Forget
    BY <2>8, LineupFacts DEF Forget, TypeOK, peers, psi_cache
  <2>9. CASE UNCHANGED vars
    BY <2>9 DEF vars, peers, source, psi_cache, TypeOK
  <2> QED BY <2>1, <2>2, <2>3, <2>4, <2>5, <2>6, <2>7, <2>8, <2>9 DEF Next
<1> QED BY <1>1, <1>2, PTL DEF Spec

----------------------------------------------------------------------------
\* The cache and the tables.

\* A version in the cache is that of a table shown, and what is known is its contents.
CacheInv ==
    /\ IF patVersion = None THEN programs = <<>>
       ELSE \E e \in Eras : patVersion = Lineups[e].patVersion /\ Tables!Remembered = Lineups[e].pat
    /\ IF catVersion = None THEN emm = {}
       ELSE \E e \in Eras : catVersion = Lineups[e].catVersion /\ emm = Lineups[e].emm
    /\ \A i \in DOMAIN programs :
          IF programs[i].version = None THEN programs[i].pids = {}
          ELSE \E e \in Eras : /\ programs[i].version = Lineups[e].pmtVersion[programs[i].number]
                               /\ programs[i].pids = Learnt(e, programs[i].number)

IInv == TypeOK /\ CacheInv

\* The abstract specification's view of an unchanged cache and of an emptied one.
LEMMA SameView == UNCHANGED programs => Known' = Known
BY DEF Known

LEMMA RememberedIs ==
    Tables!Remembered = [i \in DOMAIN programs |-> [number |-> programs[i].number, pmt |-> programs[i].pmt]]
BY DEF Tables!Remembered, Known

\* A PAT that is parsed is the one remembered; a PAT not parsed was.
LEMMA PatStep ==
    ASSUME TypeOK, CacheInv, NEW e \in Eras, parse_pat_packet(e)
    PROVE  Tables!ShowPat(e) /\ CacheInv'
<1>0. /\ Lineups[e].patVersion \in Versions /\ Lineups[e].patVersion # None
      /\ patVersion' = Lineups[e].patVersion /\ UNCHANGED <<emm, catVersion>>
  BY LineupFacts DEF parse_pat_packet
<1>1. CASE patVersion = Lineups[e].patVersion
  <2>1. UNCHANGED programs /\ UNCHANGED patVersion
    BY <1>0, <1>1 DEF parse_pat_packet
  <2>2. PICK d \in Eras : patVersion = Lineups[d].patVersion /\ Tables!Remembered = Lineups[d].pat
    BY <1>0, <1>1 DEF CacheInv
  <2>3. Tables!Remembered = Lineups[e].pat
    <3>1. Lineups[d].patVersion = Lineups[e].patVersion
      BY <1>1, <2>2, Zenon
    <3>2. Lineups[d].pat = Lineups[e].pat
      BY <3>1, PatVersionFacts, Zenon
    <3> QED BY <2>2, <3>2, Zenon
  <2>4. Tables!ShowPat(e)
    BY <1>0, <2>1, <2>3, SameView DEF Tables!ShowPat
  <2>5. CacheInv'
    BY <1>0, <2>1 DEF CacheInv, Tables!Remembered, Known
  <2> QED BY <2>4, <2>5
<1>2. CASE patVersion # Lineups[e].patVersion
  <2>1. programs' = [i \in DOMAIN Lineups[e].pat |-> EntryOf(Lineups[e].pat[i])]
    BY <1>2 DEF parse_pat_packet
  <2>2. Known' = Tables!Fresh(Lineups[e].pat)
    BY <2>1 DEF Known, EntryOf, Tables!Fresh, Tables!Unknown
  <2>3. (Tables!Remembered)' = Lineups[e].pat
    <3>1. Lineups[e].pat \in Seq([number : Programs, pmt : Pids])
      BY LineupFacts
    <3>2. Lineups[e].pat = [i \in DOMAIN Lineups[e].pat |-> Lineups[e].pat[i]]
      BY <3>1
    <3>3. \A i \in DOMAIN Lineups[e].pat :
             Lineups[e].pat[i] = [number |-> Lineups[e].pat[i].number, pmt |-> Lineups[e].pat[i].pmt]
      BY EntryFacts
    <3>4. (Tables!Remembered)' = [i \in DOMAIN Lineups[e].pat |->
             [number |-> Lineups[e].pat[i].number, pmt |-> Lineups[e].pat[i].pmt]]
      BY <2>1 DEF Tables!Remembered, Known, EntryOf
    <3> QED BY <3>2, <3>3, <3>4
  <2>4. Tables!Remembered = Lineups[e].pat => Known = Tables!Fresh(Lineups[e].pat)
    <3>1. CASE patVersion = None
      <4>1. programs = <<>> /\ DOMAIN programs = {}
        BY <3>1 DEF CacheInv
      <4>2. ASSUME Tables!Remembered = Lineups[e].pat PROVE DOMAIN Lineups[e].pat = {}
        BY <4>1, <4>2, RememberedIs
      <4>3. ASSUME DOMAIN Lineups[e].pat = {} PROVE Known = Tables!Fresh(Lineups[e].pat)
        BY <4>1, <4>3 DEF Known, Tables!Fresh
      <4> QED BY <4>2, <4>3
    <3>2. CASE patVersion # None
      <4>1. PICK d \in Eras : patVersion = Lineups[d].patVersion /\ Tables!Remembered = Lineups[d].pat
        BY <3>2 DEF CacheInv
      <4>2. Lineups[d].pat # Lineups[e].pat
        BY <1>2, <4>1, PatVersionFacts, Zenon
      <4> QED BY <4>1, <4>2
    <3> QED BY <3>1, <3>2
  <2>5. Tables!ShowPat(e)
    BY <1>0, <2>2, <2>4 DEF Tables!ShowPat
  <2>6. \A i \in DOMAIN programs' : programs'[i].version = None /\ programs'[i].pids = {}
    BY <2>1 DEF EntryOf
  <2>7. CacheInv'
    BY <1>0, <2>3, <2>6 DEF CacheInv
  <2> QED BY <2>5, <2>7
<1> QED BY <1>1, <1>2

LEMMA CatStep ==
    ASSUME TypeOK, CacheInv, NEW e \in Eras, parse_cat_packet(e)
    PROVE  Tables!ShowCat(e) /\ CacheInv'
<1>0. /\ Lineups[e].catVersion \in Versions /\ Lineups[e].catVersion # None
      /\ catVersion' = Lineups[e].catVersion /\ UNCHANGED <<programs, patVersion>>
  BY LineupFacts DEF parse_cat_packet
<1>1. emm' = Lineups[e].emm
  <2>1. CASE catVersion = Lineups[e].catVersion
    <3>1. PICK d \in Eras : catVersion = Lineups[d].catVersion /\ emm = Lineups[d].emm
      BY <1>0, <2>1 DEF CacheInv
    <3>2. Lineups[d].emm = Lineups[e].emm
      <4>1. Lineups[d].catVersion = Lineups[e].catVersion
        BY <2>1, <3>1, Zenon
      <4> QED BY <4>1, CatVersionFacts, Zenon
    <3> QED BY <2>1, <3>1, <3>2 DEF parse_cat_packet
  <2>2. CASE catVersion # Lineups[e].catVersion
    BY <2>2 DEF parse_cat_packet
  <2> QED BY <2>1, <2>2
<1>2. Tables!ShowCat(e)
  BY <1>0, <1>1, SameView DEF Tables!ShowCat
<1>3. CacheInv'
  BY <1>0, <1>1 DEF CacheInv, Tables!Remembered, Known
<1> QED BY <1>2, <1>3

LEMMA PmtStep ==
    ASSUME TypeOK, CacheInv, NEW e \in Eras, NEW p, p.era = e, p.number \in Programs, parse_pmt_packet(p)
    PROVE  Tables!ShowPmt(p) /\ CacheInv'
<1> DEFINE pids == Learnt(e, p.number)
           version == Lineups[e].pmtVersion[p.number]
           Hit(i) == i \in FirstWithPmt(programs, p.pid) /\ programs[i].number = p.number
           overlooked == PidsOf(e, p.number) \ pids
<1>0. pids \in SUBSET Pids /\ version \in Versions /\ version # None
  BY LineupFacts, LearntFacts
<1>1. /\ UNCHANGED <<patVersion, emm, catVersion>>
      /\ programs' = [i \in DOMAIN programs |->
                        IF Hit(i) /\ programs[i].version # version THEN Parsed(programs[i], p) ELSE programs[i]]
  BY DEF parse_pmt_packet
<1>2. ASSUME NEW i \in DOMAIN programs
      PROVE  programs[i] \in Entries
  BY SeqFacts DEF TypeOK
<1>3. ASSUME NEW i \in DOMAIN programs
      PROVE  /\ programs'[i].number = programs[i].number /\ programs'[i].pmt = programs[i].pmt
             /\ Hit(i) => programs'[i].pids = pids /\ programs'[i].version = version
             /\ ~Hit(i) => programs'[i] = programs[i]
  <2>1. CASE Hit(i) /\ programs[i].version # version
    <3>1. programs'[i] = Parsed(programs[i], p)
      BY <1>1, <2>1
    <3>2. Parsed(programs[i], p) = [number |-> programs[i].number, pmt |-> programs[i].pmt,
                                    pids |-> pids, version |-> version]
      <4>1. programs[i] = [number |-> programs[i].number, pmt |-> programs[i].pmt,
                           pids |-> programs[i].pids, version |-> programs[i].version]
        BY <1>2 DEF Entries
      <4>2. Parsed(programs[i], p) = [programs[i] EXCEPT !.pids = pids, !.version = version]
        BY DEF Parsed
      <4> HIDE DEF pids, version
      <4> QED BY <4>1, <4>2
    <3> QED BY <2>1, <3>1, <3>2
  <2>2. CASE Hit(i) /\ programs[i].version = version
    <3>1. programs'[i] = programs[i]
      BY <1>1, <2>2
    <3>2. PICK d \in Eras : /\ programs[i].version = Lineups[d].pmtVersion[programs[i].number]
                            /\ programs[i].pids = Learnt(d, programs[i].number)
      BY <1>0, <2>2 DEF CacheInv
    <3>3. Learnt(d, p.number) = pids
      <4>1. Lineups[d].pmtVersion[p.number] = Lineups[e].pmtVersion[p.number]
        BY <2>2, <3>2
      <4> QED BY <1>0, <4>1, PmtVersionFacts, Zenon
    <3> QED BY <2>2, <3>1, <3>2, <3>3
  <2>3. CASE ~Hit(i)
    BY <1>1, <2>3
  <2> QED BY <2>1, <2>2, <2>3
<1>4. DOMAIN programs' = DOMAIN programs
  BY <1>1
<1>5. Tables!ShowPmt(p)
  <2>1. DOMAIN Known = DOMAIN programs
    BY DEF Known
  <2>2. ASSUME NEW i \in DOMAIN programs
        PROVE  i \in Tables!FirstWithPmt(Known, p.pid) <=> i \in FirstWithPmt(programs, p.pid)
    <3>1. {j \in DOMAIN Known : Known[j].pmt = p.pid} = {j \in DOMAIN programs : programs[j].pmt = p.pid}
      BY DEF Known
    <3> QED BY <3>1 DEF FirstWithPmt, Tables!FirstWithPmt, Least, Tables!Least
  <2>3. ASSUME NEW i \in DOMAIN programs
        PROVE  Known'[i] = IF i \in Tables!FirstWithPmt(Known, p.pid) /\ Known[i].number = p.number
                           THEN [Known[i] EXCEPT !.pids = pids] ELSE Known[i]
    <3>1. Known[i] = [number |-> programs[i].number, pmt |-> programs[i].pmt, pids |-> programs[i].pids]
      BY DEF Known
    <3>2. Known'[i] = [number |-> programs[i].number, pmt |-> programs[i].pmt, pids |-> programs'[i].pids]
      BY <1>3, <1>4 DEF Known
    <3>3. i \in Tables!FirstWithPmt(Known, p.pid) /\ Known[i].number = p.number <=> Hit(i)
      BY <2>2, <3>1
    <3>4. CASE Hit(i)
      BY <1>3, <3>1, <3>2, <3>3, <3>4
    <3>5. CASE ~Hit(i)
      BY <1>3, <3>1, <3>2, <3>3, <3>5
    <3> QED BY <3>4, <3>5
  <2>4. Known' = [i \in DOMAIN Known |-> Known'[i]]
    BY <1>4 DEF Known
  <2>5. Known' = [i \in DOMAIN Known |->
                   IF i \in Tables!FirstWithPmt(Known, p.pid) /\ Known[i].number = p.number
                   THEN [Known[i] EXCEPT !.pids = pids] ELSE Known[i]]
    BY <2>1, <2>3, <2>4
  <2>6. overlooked \in SUBSET Tables!Bare(e, p.number) /\ pids = Tables!PidsOf(e, p.number) \ overlooked
    BY LearntFacts DEF Bare, PidsOf, Tables!Bare, Tables!PidsOf
  <2> HIDE DEF pids, overlooked
  <2> QED BY <1>1, <2>5, <2>6 DEF Tables!ShowPmt
<1>6. CacheInv'
  <2>1. (Tables!Remembered)' = Tables!Remembered
    BY <1>3, <1>4 DEF Tables!Remembered, Known
  <2>2. programs = <<>> => programs' = <<>>
    BY <1>1
  <2>3. ASSUME NEW i \in DOMAIN programs'
        PROVE  (IF programs[i].version = None THEN programs[i].pids = {}
                ELSE \E d \in Eras : /\ programs[i].version = Lineups[d].pmtVersion[programs[i].number]
                                     /\ programs[i].pids = Learnt(d, programs[i].number))'
    <3>1. CASE Hit(i)
      BY <1>0, <1>3, <1>4, <3>1
    <3>2. CASE ~Hit(i)
      BY <1>3, <1>4, <3>2 DEF CacheInv
    <3> QED BY <3>1, <3>2
  <2> QED BY <1>1, <2>1, <2>2, <2>3 DEF CacheInv
<1> QED BY <1>5, <1>6

LEMMA ShowStep ==
    ASSUME TypeOK, CacheInv, NEW e \in Eras, NEW p \in Packets[e], Show(p)
    PROVE  CacheInv' /\ (Tables!Next \/ UNCHANGED <<Known, emm>>)
<1>0. p.era = e /\ (p.number # 0 => p \in Pmts(e) /\ p.number \in Programs)
  BY PacketFacts
<1>1. CASE p.pid = PatPid
  <2>1. parse_pat_packet(p.era)
    BY <1>1 DEF Show, PatPid, CatPid
  <2>2. Tables!ShowPat(p.era) /\ CacheInv'
    BY <1>0, <2>1, PatStep
  <2> QED BY <1>0, <2>2 DEF Tables!Next, Eras, Tables!Eras
<1>2. CASE p.pid = CatPid
  <2>1. parse_cat_packet(p.era)
    BY <1>2 DEF Show, PatPid, CatPid
  <2>2. Tables!ShowCat(p.era) /\ CacheInv'
    BY <1>0, <2>1, CatStep
  <2> QED BY <1>0, <2>2 DEF Tables!Next, Eras, Tables!Eras
<1>3. CASE p.pid \notin {PatPid, CatPid} /\ p.number # 0
  <2>1. parse_pmt_packet(p)
    BY <1>3 DEF Show
  <2>2. Tables!ShowPmt(p) /\ CacheInv'
    BY <1>0, <1>3, <2>1, PmtStep
  <2>3. p \in Tables!Pmts(e)
    BY <1>0, <1>3 DEF Pmts, Tables!Pmts, PatEntries, Tables!PatEntries, Packet, Tables!Packet
  <2> QED BY <2>2, <2>3 DEF Tables!Next, Eras, Tables!Eras
<1>4. CASE p.pid \notin {PatPid, CatPid} /\ p.number = 0
  <2>1. UNCHANGED psi_cache
    BY <1>4 DEF Show
  <2> QED BY <2>1 DEF psi_cache, CacheInv, Tables!Remembered, Known
<1> QED BY <1>1, <1>2, <1>3, <1>4

LEMMA SameCache ==
    ASSUME CacheInv, UNCHANGED psi_cache
    PROVE  CacheInv' /\ UNCHANGED <<Known, emm>>
BY DEF psi_cache, CacheInv, Tables!Remembered, Known

\* The invariant under the refinement, and the refinement of a step.
LEMMA StepRefines ==
    ASSUME TypeOK, CacheInv, [Next]_vars
    PROVE  CacheInv' /\ [Tables!Next]_<<Known, emm>>
<1>1. ASSUME NEW r \in Receivers, NEW p \in Queued, Retransmit(r, p)
      PROVE  CacheInv' /\ [Tables!Next]_<<Known, emm>>
  <2>1. PICK e \in Eras : p \in Packets[e]
    BY QueuedFacts
  <2> QED BY <1>1, <2>1, ShowStep DEF Retransmit
<1>2. ASSUME NEW p \in Packets[era], Send(p)
      PROVE  CacheInv' /\ [Tables!Next]_<<Known, emm>>
  <2>1. CASE Filtered # {}
    BY <1>2, <2>1, ShowStep DEF Send, TypeOK
  <2>2. CASE Filtered = {}
    BY <1>2, <2>2, SameCache DEF Send
  <2> QED BY <2>1, <2>2
<1>3. ASSUME UNCHANGED psi_cache PROVE CacheInv' /\ [Tables!Next]_<<Known, emm>>
  BY <1>3, SameCache
<1>4. ASSUME NEW r \in Receivers, NEW q \in Requests \union {None}, SetContentSelection(r, q)
      PROVE  UNCHANGED psi_cache
  BY <1>4 DEF SetContentSelection
<1>5. ASSUME NEW r \in Receivers, Keepalive(r) \/ RemovePeer(r) \/ SetLive(r) PROVE UNCHANGED psi_cache
  BY <1>5 DEF Keepalive, RemovePeer, SetLive
<1>6. ASSUME NewLineup \/ Forget \/ UNCHANGED vars PROVE UNCHANGED psi_cache
  BY <1>6 DEF NewLineup, Forget, vars
<1> QED BY <1>1, <1>2, <1>3, <1>4, <1>5, <1>6 DEF Next

\* The cache that goes by versions implements the specification that goes by tables.
THEOREM CacheRefinesTables == Spec => RemembersTables
<1>1. Init => CacheInv /\ Tables!Init
  <2> SUFFICES ASSUME Init PROVE CacheInv /\ Tables!Init
    OBVIOUS
  <2>1. programs = <<>> /\ DOMAIN programs = {} /\ emm = {} /\ patVersion = None /\ catVersion = None
    BY DEF Init
  <2>2. Known = <<>>
    BY <2>1 DEF Known
  <2> QED BY <2>1, <2>2 DEF CacheInv, Tables!Init
<1>2. TypeOK /\ CacheInv /\ [Next]_vars => CacheInv' /\ [Tables!Next]_<<Known, emm>>
  BY StepRefines
<1> QED BY <1>1, <1>2, TypeCorrect, PTL DEF Spec, RemembersTables, Tables!Spec

----------------------------------------------------------------------------
\* The decision.

\* A program of the line-up on the air is found in a cache that is in step with it, and
\* has there each of its PIDs that is not overlooked.
LEMMA InStepFacts ==
    ASSUME TypeOK, InStep, NEW pid, pid \notin Overlooked(era)
    PROVE  \A n : pid_belongs_to_program(pid, n) <=> Consists(era, pid, {n})
<1> DEFINE pat == Lineups[era].pat
<1>1. era \in Eras /\ pat \in Seq([number : Programs, pmt : Pids])
  BY LineupFacts DEF TypeOK
<1>2. /\ DOMAIN programs = DOMAIN pat
      /\ \A i \in DOMAIN pat : programs[i].number = pat[i].number /\ programs[i].pmt = pat[i].pmt
  BY RememberedIs DEF InStep
<1>3. PatEntries(era) = {pat[i] : i \in DOMAIN pat}
  BY DEF PatEntries
<1>4. ASSUME NEW i \in DOMAIN pat
      PROVE  pid \in programs[i].pids <=> pid \in PidsOf(era, pat[i].number)
  <2>1. pid \notin Bare(era, pat[i].number)
    BY <1>3 DEF Overlooked
  <2>2. /\ programs[i].pids \subseteq PidsOf(era, pat[i].number)
        /\ PidsOf(era, pat[i].number) \subseteq programs[i].pids \union Bare(era, pat[i].number)
    BY <1>2 DEF InStep
  <2> QED BY <2>1, <2>2
<1> SUFFICES ASSUME NEW n
             PROVE  pid_belongs_to_program(pid, n) <=> Consists(era, pid, {n})
  OBVIOUS
<1>5. FirstWithNumber(programs, n) = {i \in DOMAIN pat : pat[i].number = n}
  <2>1. {i \in DOMAIN programs : programs[i].number = n} = {i \in DOMAIN pat : pat[i].number = n}
    BY <1>2
  <2>2. \A i, j \in DOMAIN pat : pat[i].number = pat[j].number => i = j
    BY <1>1, LineupsAssumption
  <2>3. DOMAIN pat \subseteq Nat
    BY <1>1, SeqFacts
  <2>4. Least({i \in DOMAIN pat : pat[i].number = n}) = {i \in DOMAIN pat : pat[i].number = n}
    BY <2>2, <2>3 DEF Least
  <2> QED BY <2>1, <2>4 DEF FirstWithNumber
<1> HIDE DEF pat
<1>6. pid_belongs_to_program(pid, n) <=>
         \E i \in DOMAIN pat : pat[i].number = n /\ pid \in PidsOf(era, pat[i].number)
  BY <1>4, <1>5 DEF pid_belongs_to_program
<1>7. Consists(era, pid, {n}) <=>
         \E i \in DOMAIN pat : pat[i].number = n /\ pid \in PidsOf(era, pat[i].number)
  BY <1>3 DEF Consists
<1> QED BY <1>6, <1>7

\* The PMT PIDs are those of the line-up on the air.
LEMMA PmtPids ==
    ASSUME InStep, NEW pid
    PROVE  is_pmt_pid(pid) <=> \E x \in PatEntries(era) : x.pmt = pid
<1>1. /\ DOMAIN programs = DOMAIN Lineups[era].pat
      /\ \A i \in DOMAIN programs : programs[i].pmt = Lineups[era].pat[i].pmt
  BY RememberedIs DEF InStep
<1> QED BY <1>1 DEF is_pmt_pid, PatEntries

LEMMA ManyPrograms ==
    ASSUME NEW e, NEW pid, NEW ns
    PROVE  Consists(e, pid, ns) <=> \E n \in ns : Consists(e, pid, {n})
BY DEF Consists

LEMMA Decides == TypeOK => DecidesAsAsked
<1> SUFFICES ASSUME TypeOK, NEW r \in Receivers, InStep, want[r] # None, selection[r] = Stored(want[r]),
                    NEW p \in Packets[era], p.pid \notin Overlooked(era)
             PROVE  should_include_pid(p.pid, selection[r]) <=> AskedFor(want[r], era, p.pid)
  BY DEF DecidesAsAsked, Decided, AsAsked
<1> DEFINE q == want[r]
           s == selection[r]
           pid == p.pid
<1>1. /\ s.programs = q.programs /\ s.blockedPrograms = q.blockedPrograms
      /\ s.pidsGiven = (q.pids # <<>>) /\ s.pids = Listed(q.pids)
      /\ s.blockedPids = Listed(q.blockedPids)
  BY DEF Stored
<1>2. emm = Lineups[era].emm
  BY DEF InStep
<1>3. is_pmt_pid(pid) <=> \E x \in PatEntries(era) : x.pmt = pid
  BY PmtPids
<1>4. (\E n \in q.programs : pid_belongs_to_program(pid, n)) <=> Consists(era, pid, q.programs)
  BY InStepFacts, ManyPrograms
<1>5. (\E n \in q.blockedPrograms : pid_belongs_to_program(pid, n)) <=> Consists(era, pid, q.blockedPrograms)
  BY InStepFacts, ManyPrograms
<1>6. q.programs = {} => ~Consists(era, pid, q.programs)
  BY DEF Consists
<1> HIDE DEF q, s, pid
<1>7. should_include_pid(pid, s) <=> AskedFor(q, era, pid)
  BY <1>1, <1>2, <1>3, <1>4, <1>5, <1>6 DEF should_include_pid, AskedFor
<1> QED BY <1>7 DEF q, s, pid

\* With tables and wish in step, a receiver is sent what it asked for, but for the PIDs
\* that may be overlooked.
THEOREM DecisionCorrect == Spec => []DecidesAsAsked
BY TypeCorrect, Decides, PTL
=============================================================================
