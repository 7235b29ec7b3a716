# Models and proofs for the RIST Part 7 set-top-box tools

This directory is a verification development of the repository it lies in: TLA+
modules translated from the source, TLC configurations that check them on small
instances, and TLAPS proofs about them for every value of the constants.
`PROJECT.json` ties each definition to the lines it models, lists the runs, the
mutants (plausible slips that each property catches), the findings, the hazards
and the theorems.  Line numbers below are of the source as it is here.

## 1. The system

A headend `ristsender_marker` sends an MPEG transport stream over librist to
`ristreceiver_with_markers` and to set-top boxes.  librist is a fork with four
additions: marker packets, a satellite/recovery-agent architecture with full
stream requests (FSR), per-peer program selection, and a watchdog.

| Component | State | Operations | Hard behaviour |
|---|---|---|---|
| Receiver flow (`rist-common.c` 390-1050, 1171-1313, `flow.c`) | ring of 2^16 packets, its size, output index, missing list, counters | enqueue, mark missing, NACK output, playout, statistics | two threads, most of the enqueue path without the mutex; late, duplicate and reordered packets; resets |
| Marker inserter (`ristreceiver_with_markers.c`) | block buffer, counters, marker number | data callback, send | gaps in what it gets, restarts, short writes |
| Marker validation and circuit breaker (`ristsender_marker.c`) | block buffer, counters, three-state breaker, ring of failure times | per TS packet: data or marker; restart message | lost markers, lost packets, repeats, callbacks of librist's thread, timers |
| Watchdog (`rist_watchdog.c`) | child pid, line buffer, flags | start, read, kill, restart; signals | partial reads, children that exit by themselves, signals between any two steps |
| Full stream request (`rist-common.c` 4720-5021, 2371-2425, `udp.c` 70-183, 1195-1226, 1620-1676) | receiver: `fsr_active`, two timers; sender: list of peer ids | check each second, Enable, Disable, repeats; add, remove | unacknowledged datagrams, several agents, peers that vanish, restarts |
| Sender queue and retransmission (`rist-common.c` 3371-3530, `udp.c` 1060-1134, 1272-1437, 1530-1600) | ring of packets, retry ring, index by sequence number | write, send, age, NACK, answer | application thread against protocol thread, a second ring without a full test, indices counted back round the ring |
| Peers (`rist-common.c` 2579-2586, 2874-3230, 3751-3774, 4125-4177, `rist.c` 1067-1245, `udp.c` 1136-1270) | peer list, dead flags, alive counts, weights, turns | create, hear, kill, revive, remove, set a weight, elect | counts kept in step by hand in several places |
| Data-out FIFO (`rist-common.c` 975-1003, `rist.c` 150-217) | lock-free ring, overflow flag | write, read | several readers, stale counts |
| Program selection (`program-selection.c`, `udp.c` 197-301, 1398-1437) | per-peer selections, one PSI cache | parse keepalive, parse PAT/CAT/PMT, filter what is sent and sent again | tables of retransmitted packets, a cache that learns only from what it filters |
| GRE/RTP formats, EAP-SRP, PSK, event loop, logging, tools, web APIs, vendored code | - | - | see section 7 |

How they interact: the receiver flow hands blocks to the application (the
inserter's `data_callback`); the inserter's UDP datagrams are the sender's
input; the sender's log line is the watchdog's trigger, and the watchdog's kill
and restart is the sender's only way out of a tripped breaker.  The FSR check
reads the peer list the receiver's peers keep, and its requests change a list
that the sender's data loop asks for each packet.  In one process librist runs
an application thread, a protocol thread and, per flow, an output thread; they
share `peerlist_lock`, the flow's mutex, and a good deal without either.

What makes each component correct:

- receiver flow: the size agrees with the ring, holes that can be filled are
  asked for, blocks come out in order and once, nothing is stranded;
- inserter and validation: what is sent on is what was put in between two
  markers, the breaker trips only for the losses it is meant for and trips for
  those, a tripped process never sends, and the service comes back;
- watchdog: a request is never missed, only a sender that asked or is gone is
  replaced, two senders never run side by side;
- FSR: a satellite that is down brings the recovery stream, one that is healthy
  ends it, whatever the network does to the requests;
- sender queue: the packets kept are one unbroken run, a young packet is found by
  its number, requests do not pile up and each is taken up;
- peers: the counts that decide who is sent to and what the application is told are
  exact, and a round gives each peer its weight;
- program selection: the cache says what the tables shown last say, but for a stream the
  parser overlooks (section 6), and a receiver is sent what it asked for;
- FIFO (not modelled): each block is read once or dropped with the overflow flag.

## 2. Modules

| Module | Models | Extends / used by |
|---|---|---|
| `Playout` | what an application is promised about the blocks of a flow (abstract) | refined by `ReceiverFlow` |
| `ReceiverFlow` | one `rist_flow` with its protocol thread, output thread and network | `MCReceiverFlow` |
| `ReceiverFlowProofs` | theorems about it | |
| `MarkerStream` | packets and the arithmetic of counters both ends share | |
| `MarkerInserter` | `ristreceiver_with_markers` | `MarkerStream` |
| `MarkerSender` | `ristsender_marker`, for any input (`SenderSpec`) | `MarkerStream` |
| `MarkerChain` | inserter, network, sender and watchdog's restart composed | both; `MCMarkerChain` |
| `MarkerSenderProofs`, `MarkerChainProofs` | theorems about the sender, and about the chain | |
| `Watchdog`, `WatchdogProofs` | `rist_watchdog` with its child and the pipe between them | `MCWatchdog` |
| `Fsr`, `FsrProofs` | the receiver's check, the requests under way, the sender's list | `MCFsr` |
| `SenderQueue`, `SenderQueueProofs` | the sender's two rings between its two threads | `MCSenderQueue` |
| `SenderPeers`, `SenderPeersProofs` | a sender's peers, their weights and the election | `MCSenderPeers` |
| `TransportStream` | line-ups of a multiplex and the packets a filter looks at | the next two |
| `LastTables` | what a filter should go by: the tables shown last (abstract) | refined by `ProgramSelection` |
| `ProgramSelection`, `ProgramSelectionProofs` | selections, cache, filtered sending and retransmission | `MCProgramSelection` |

Definitions whose name ends in `Mutant` are what a slip in the code would make
of the definition that follows; they are used by nothing but the mutation runs.

### ReceiverFlow

Only the first-packet path of `receiver_enqueue` (`ReceiveFirst`) takes the mutex, so the
rest of it is a step for each line that touches what the output thread touches: `Admit` (or
`DropLate`, `DropFull`); `Find`, the test of the slot (671), and `Duplicate` or `Displace`,
which read it again; `Publish`, the slot points to the packet (436); `Stamp`, the packet gets
its times (437-443); `AddSize` (444); then `Finish`, or for a gap `CheckLast` (452),
`ReadLast` (458) and `MarkGap` (459 on).  The output of one packet is three steps, `Emit` or
`DropStale`, `Subtract`, `Clear`, all under the mutex.  `epc` and `dpc` say where each thread
is.  `NackOutput` is one step and needs the mutex unless every entry has arrived, as in the
code; `ReportStats` holds the mutex.  `FindNothing` and `ResetSize` are the branch commented
"this should never happen".

Between `Publish` and `Stamp` the packet's times are what malloc's memory holds (`Junk`), and
the output thread may judge it by them and play it at once (`torn`, a history).
If it has emptied the slot by the next line, the test at 437 takes that for a lack of memory
and gives the packet up before its length was added (`uncounted`), or a later line
dereferences NULL.  Such reads of an empty slot end the process: `epc` is then `noPacket`
(437-444 and 459), `noDupe` (672) or `noLast` (458), and no thread goes on (`Dead`).

Kept: the even-valued `expected_seq` (line 630 masks with `UINT16_MAX - 1`), the
double duplicate test, both drop paths with their resets, interpolation of the
times of missing packets, the retry limits, the stale-packet counter.

Abstracted: payload length 1; a 16-bit sequence number is the slot it maps to
(`Q` stands for 2^16); the missing list is a set whose members carry a `mark`;
`too_late_ctr` stops at the largest value its test tells apart; time is in
ticks and a handler ends in the tick it began in.  Left out: `RTC` and
`ARRIVAL` timing, 32-bit sequence numbers, buffer scaling, the clock-offset
median and clock wrap, NACK batching, `buffer_bloat_active` (never set).  The stores of a
thread are taken to be seen in the order of its program, and each read of a slot to be a load
of its own, as an unoptimised build does it; a packet that is freed between the load of its
pointer and the access to it is not told from one that is gone (section 7).

The network may lose packets, deliver each up to `Copies` times, originals up to
`MaxReorder` ticks and retransmissions up to `MaxRetryAge` ticks after they were
emitted.  `OutputJitter` bounds how late the output thread is called.

### MarkerStream, MarkerInserter, MarkerSender, MarkerChain

A step of the inserter is one packet of a callback, a step of the sender one TS
packet, so that the peer callbacks of librist's thread (`PeerChange`; of
`peer_connected_count` only whether it is 0 is kept) interleave with them.  The wire is
a sequence of datagrams; what may go wrong (`Troubles`) is a loss, a repetition, a swap
of neighbours, a gap in the flow the inserter gets, and a restart of the inserter.
Times are ages that stop growing where the tests no longer
tell them apart.  `Tick` may come between any two packets.

Abstracted: CRC, SSRC, marker continuity counter, RTP sequence number, the
sync-byte test, the result of `rist_start`.  Left out: several inputs in one
process, an uptime below 10 s (the subtraction wraps).

### Watchdog

The child writes log lines of two pieces into one pipe, whole or piece by piece; a
read takes any number of the pieces.  A signal may come between any two steps;
`fork` and `select` may fail.  A child nobody looks after any more lives on:
`orphaned`.  Two histories say under which conditions the promises hold: `cut`, a
read has ended inside a line, and `selectFailed`.

### Fsr

`Check` is the whole once-a-second block of the receiver's protocol thread, in
six disjuncts: `Enable`, `KeepEnabled`, `Disable`, `Repeat`, `StopRepeating`,
`Nothing`.  A request is a member of `wire`, a set: it may be lost and
overtaken, and two equal ones under way count as one.  The satellite peer is a
record (listed, dead, silence in seconds, time dead, class of its RTT); it may
be a child of a listening peer, which is removed some time after it died
(`SatIsChild`).  At the sender each agent has a peer with an id that is never
used twice; `RemoveChild` and `SenderRestarts` take the entry along.  `stalled` is a
history: the receiver's thread was late and a second passed without its check.  `own` is the
list of the receiver's own process, which the code keeps too.

An age of n ticks is an age between n - 1 and n seconds, so `age > SilentAfter`
is "> 2000 ms" and `age <= FreshWithin` "< 1000 ms".  Several agents: the live one
with the lowest RTT is any live one, anew in each check.  Left out: the parsing
of the request, authentication (any RTCP packet authenticates the peer at the
sender), `rist_send_common_rtcp` returning -1, duplication by the network, and the deletion of
a flow that has been dead for its timeout (`rist-common.c` 5026-5045), which takes satellite and
agent out of the flow at once: the model follows one flow while it lives.

### SenderQueue

`Write` is the application's thread; it and the socket loop (`Nack`, `AddPeer`, `Tick`)
run when the protocol thread is between two turns (`pc = "poll"`), because
`sender_send_data` and `sender_send_nacks` hold `queue_lock`.  `SendData` is one packet of
a turn with the growth, deletion or shrinking that follows it, `Take` with `DequeueGone`,
`DequeueSkip` or `Resend` one request.  `buffer_size` is a `static` of the function and the
model's `bufferSize`; `SharedSpec` adds another sender that changes it.  Both rings, their
arithmetic by masks, the test that reports a full queue, the one remaining bit of
`queued_items`, the two ways of recognising a repeated request (one peer: the packet;
several: a search back through the ring) are kept.

A packet is its number; a sequence number is that number modulo `SeqMod`, and no number
is used again while a request for it waits (`NumberFree`: 2^16 packets against
milliseconds).  `lapped` is a history: the writer has overwritten a packet, and there the
model stops.  `retryLapped` is another: the retry ring has no full test, and one request too
many makes the ring look empty; there the model takes no more requests.  Left out: sizes (each packet is one byte), bandwidth (`DequeueSkip` may always
happen), null packet suppression, RTCP.

### SenderPeers

The application's calls (`Create`, `SetWeight`, `Destroy`, `Start`), what receivers send
(`Keepalive`, `Other`, `Sdes`: the difference matters, a keepalive does not revive), the
checks of the protocol thread (`Kill`, `TimesOut`, `Remove`), and `Send`, one packet
through `rist_sender_send_data_balanced`: peers that cannot be sent to pass their turns
(`Passed`), the peer with most turns is elected, and turns are handed out again when the
counter is used up or nobody is elected.  A child of a listener is a pair of listener and
address.  `last`, `given` and `whole` are histories of the election.  `appCount` is
`ristsender_marker`'s `peer_connected_count`, fed by the connection events.

Left out: authentication (a peer that sends is authenticated), the simple profile,
multicast, a receiver's peers, and what a peer is sent (that is `ProgramSelection`).
`Drift` bounds the counter from below when weights are set again and again.

### TransportStream, LastTables, ProgramSelection

A multiplex is a sequence of line-ups, each with a PAT, a CAT and PMTs; a packet is its
era, its PID and, for a PMT, its program.  `Show` is what `filter_transport_stream_pids`
does with a packet before it decides: a live packet is shown when some receiver of the
stream has a selection (`Send`), a retransmitted one when the asking receiver has
(`Retransmit`), and the latter may be of an earlier line-up as long as the sender's
queue holds it (`oldest`).  `SetLive` is the gate of a recovery agent, `Fsr`.

A PMT is its PCR PID and its streams in order, each with the length of its descriptors:
`parse_pmt_packet` stops three bytes before the CRC (line 829 subtracts 4 where 1 would
do), so that it does not store a last stream with less than three bytes of them.
`Learnt` is what it stores, `PidsOf` all there is, and `Bare` the PID it may overlook.

`RemembersTables` is the refinement of `LastTables`, which compares tables where the
code compares versions, and which may overlook a `Bare` PID and nothing else.  It rests on
`LineupsAssumption`: a new version when, and only when, the table is new.  `DecidesAsAsked`
compares `should_include_pid` with `AskedFor`, which reads the line-up and the request, not
the cache and what was stored of it; PIDs that may be overlooked are excepted, also in
`InStep`, which is what `Settles` promises of the cache.

Left out: null packet deletion after the filter, the satellite mode in which peers of
weight 0 are not filtered, the refusal of peers without a selection, the caps of 64
programs, 32 PIDs and 16 EMM PIDs, tables that span packets, the use of a selection after
its lock was released.

## 3. Runs

All runs use the `Spec` or `FairSpec` of their module.

| Run | Checks | Shows |
|---|---|---|
| `receiver_timely` | `PlaysOut`, `HolesAreTracked`, `MarkFindsPacket`, `NoReset` | with packets that come in time, the flow implements `Playout`: in order, once, gaps flagged; fillable holes stay on the missing list; no reset; the slots read again hold what was found there, but for a last packet sent a buffer ago; all of this until a packet is played before it is stamped |
| `receiver_any` | `SizeInv`, `MissingCounterExact` | for any delays, packets that share a slot, statistics, dead-link flushes and flow id changes: the size counts the ring until one packet displaces another or is lost before it was counted, and the count of NACKed packets is exact |
| `receiver_live` | `NotStranded` | every packet leaves the ring, also one stored behind the reader, while the process lives and the size is right |
| `chain_any` | `BreakerInv`, `CountersMatch`, `BlocksWhole`, `TripNeedsFailures` | with swaps, gaps and an inserter that restarts: counters agree with buffers, a tripped breaker never sends and trips only with the failures in its window, a block goes out whole or not at all |
| `chain_losses` | `BlocksIntact`, `TripNeedsLosses`, `LossesTrip` | when datagrams are only lost, what is sent on is exactly what was put between two markers, and the loss trigger fires for its cause and always for it |
| `chain_again` | `SendsAgain` | after a trip, with the watchdog, packets flow again |
| `watchdog_any` | `ChildInv`, `OnlyCutMisses`, `OneChild`, `NoFalseRestart`, `AskedIsReplaced`, `GoneIsReplaced` | reads that end anywhere, signals, failing `fork` and `select`: only a request cut by a read is missed, only who asked is killed, who asked or is gone is replaced, and there are never two senders while `select` works |
| `fsr_any` | `ListedExist`, `StillReleasing`, `NoDisableWhileDown`, `Served`, `Released` | a satellite that comes and goes, requests lost and overtaken, missed checks, sender restarts: the list names existing peers, no check contradicts itself, nobody listed is forgotten, and a satellite that stays down or healthy ends in a stream or in none |
| `queue_any` | `RingInv`, `Findable`, `FlaggedIsPending`, `NoFlood`, `RequestsHandled` | an application that writes and receivers that ask whenever they like, rings that wrap, and that lap, while packets age out: until then what is kept is one unbroken run of the right size, a young packet is found by its number, marks agree with requests, of a peer's requests for a packet no more than two wait that the search still looks at (no more than two at all while it is the only peer), and each request is taken up |
| `peers_any` | `TypeOK`, `AliveExact`, `TotalExact`, `EventsMatch`, `NeverTwoSkipped`, `WeightedRound` | receivers that come, fall silent, return and are removed while weights are set and peers destroyed: the counts of librist and of the application are exact, no two packets in a row go to nobody, an undisturbed round gives each peer its weight |
| `programs_any` | `RemembersTables`, `DecidesAsAsked`, `Settles` | a multiplex that changes twice, a receiver that changes its wish, comes and goes and has old packets sent again: the cache implements `LastTables`, the decision is what was asked for, and a receiver that stays is in the end filtered by its wish and the tables on the air; excepted is a last stream without descriptors |
| `programs_retry` | `RecoveredIsWanted` | violated: section 6 |

Type invariants without a run of their own are proved (section 4).

### Bounds and why they suffice

- `ReceiverFlow`: `Q` = 8 with 5 packets that wrap round the ring, `Buffer` = 3,
  `LateLimit` = 4 (1.1 buffers, rounded up): room for a gap of two, a late
  retransmission, a reordering and a second copy.  `receiver_any` takes `Q` = 4
  with three packets, two on one slot, and delays beyond every limit.  `MaxClock`
  ends the exploration after the last packet's life; the state at the bound, and
  the reads that kill the process, are why deadlock is not checked there.  `Junk` is a
  time long past and one far in the future: a packet judged by it is due or is not.
- Markers: 1 or 2 payloads in a datagram, 1 or 2 datagrams in a block (7 and 5 in the
  code), marker numbers modulo 3 to 8 (2^32), thresholds of 1 to 3 (10): enough for a run
  that just misses a threshold and one that wraps.  `MaxCount`, `MaxBlock`, `MaxLossRun`
  and `MaxWire` bound counters, the block buffer, consecutive losses and the wire.
- Watchdog: a pipe of 4 or 6 pieces holds two or three lines, one in each half read.
  When the watchdog stops nothing may happen any more: deadlock is not checked.
- Fsr: timers of 2, 3 and 4 s keep the order of the code's 5 s and 30 s; `MaxIds` peers
  at the sender let an agent's peer be removed and created anew.  `fsr_any` has one
  agent: with two, `Released` does not hold (section 6).
- SenderQueue: a ring of 2 slots with 4 packets, so that indices wrap and the writer can
  overwrite, 2 sequence numbers, so that a number is used again, a retry ring of 4 with 4
  requests of 2 peers, so that requests lap their ring (both laps are reached); ages of 0,
  1 and more ticks tell young, old and shrinking apart.  When all packets are written and
  requests made nothing need happen, and the model stops when a packet was overwritten:
  deadlock is not checked.
- SenderPeers: a caller, a listener and two addresses; weights 0, 1, 2 and the recovery
  agent's; symmetric in the addresses.  `Drift` = 1.  When all peers
  were destroyed nothing can happen: deadlock is not checked.
- ProgramSelection: three line-ups of two programs in which a PMT, the CAT and then the
  PAT change and a PMT's PID is taken over; one receiver and three requests, one each with
  requested programs, blocked programs and requested PIDs; 3 versions of a table, so
  that none is used again (32 in the code: section 6).

### Fairness

- Receiver: the two threads run and time passes; the network owes nothing.
- Chain: the loop of the sender, the inserter's data, and the watchdog's restart.
- Watchdog: its loop goes on, while `StartFails` and `SelectFails` are never obliged
  to happen and the child is never obliged to write or to exit.
- Fsr: the protocol thread's loop (check, timeout check, time), and strong fairness
  of each request's delivery: a network that is handed a request again and again
  delivers one.  The code depends on it: it has no acknowledgement.
- SenderQueue: the protocol thread's loop; strong fairness of `StartNacks`, whose time
  comes once per `rist_max_jitter` between turns of the loop.
- ProgramSelection: keepalives are sent periodically, a multiplex repeats its tables, and
  packets age out of the sender's queue.  Nobody has to ask for a retransmission.

## 4. Proofs

| Theorem | Says, for every value of the constants |
|---|---|
| `ReceiverFlowProofs!TypeCorrect` | every variable keeps its type |
| `ReceiverFlowProofs!CounterInvariant`, `MissingCounterCorrect` | the count of NACKed packets is the number of entries of the missing list that were asked for |
| `ReceiverFlowProofs!SizeInvariant`, `QueueSizeCorrect`, `DesyncNeedsCollision` | `receiver_queue_size` is the number of packets in the ring less those each thread is busy with, as long as no packet displaced another or was lost before it was counted (`Measured`); the branch that should never happen needs one of the two |
| `ReceiverFlowProofs!MarkNeedsCollision`, `NeverCollides`, `MarkFinds` | while originals come within the time of the buffer, the protocol thread finds the packets it reads back from their slots, the new one and (`MarkFinds`) a duplicate, and the last one found unless that was sent a buffer ago, wherever between its lines the output thread runs, until a packet displaces another or is played unstamped (`torn`); none displaces another in a flow whose packets have numbers of their own |
| `ReceiverFlowProofs!PlaysInOrder`, `OneRoundPlays` | a flow whose packets come in time (`Timely`) implements `Playout` (blocks in source order, once each, gaps flagged) and is never reset, up to the first packet that is played unstamped; the numbers may go round the ring any number of times as long as they are in order within a window of the longest pause and twice a packet's life (`InOrder`, `Fed`), and pauses do no harm to a flow numbered in one round |
| `ReceiverFlowProofs!HolesStayTracked` | in one round of a steady source (`Steady`), with pauses below half the ring and entries that last (`Patient`), a hole that can still be filled is on the missing list as long as `missing_counter` does not pass its limit, up to the first packet that is played unstamped |
| `MarkerSenderProofs!SenderTypeCorrect`, `BreakerInvariant`, `FailuresTripOnly` | types; the breaker's state agrees with the destroyed sender, its counters and history; it trips only by a threshold |
| `MarkerSenderProofs!CountersCorrect` | in NORMAL the counters a marker is compared with are those of the block that would be sent, whatever their width |
| `MarkerChainProofs!ChainCorrect`, `WholeBlocks` | in the composed chain both programs keep their types and the sender its invariants, whatever the path does; and, when a block fits the counters and a datagram holds more than one packet, every block that is sent is as long as the one the inserter marked |
| `MarkerChainProofs!TripsOnlyOnLosses`, `LossesAreNotMissed` | on a path that only loses, with or without gaps in the flow (`OnlyLoses`), the breaker is tripped by losses only after the threshold of markers was lost, and always by the marker after so many (while fewer are lost in a row than there are marker numbers: 2^32 in the code) |
| `MarkerChainProofs!BlocksAreIntact` | on a path that only loses, and with a flow without gaps (`OnlyDrops`), every block that is sent is one of the flow's, packet for packet, under the sequence numbers it had there; with `PerRtp` > 1, a block that fits the counters, and fewer markers lost in a row than there are numbers |
| `WatchdogProofs!ChildFollowed`, `NeverTwo` | the watchdog knows the child it has, and two senders never run side by side, as long as `select` did not fail |
| `WatchdogProofs!PipeInvariant`, `OnlyAskersKilled`, `CutsAloneMiss` | only a sender that asked is terminated to be restarted; a request is missed only after a read that ended inside a line |
| `FsrProofs!TypeCorrect`, `NoStaleEntry`, `NoContradiction`, `NobodyForgotten` | types; the list names existing peers; a check that finds the satellite down sends no Disable; and, as long as no second passed without its check, a listed agent's receiver is active or still repeats its Disable (for `RemoveAfter` > 0) |
| `SenderQueueProofs!QueueTypeCorrect`, `RingCorrect`, `NeverFull` | types; until a packet is overwritten the ring holds one unbroken run of `queueSize` packets that starts `bufferSize` behind the read index, so the shrinking loop finds a packet; and the test that reports a full queue never fires before a packet has been overwritten |
| `SenderQueueProofs!NumberInvariant`, `YoungFindable` | until a packet is overwritten, one young enough to be asked for is found by its number |
| `SenderQueueProofs!PlaceInvariant`, `RequestInvariant`, `NoMarkLeftBehind` | until a packet is overwritten or the requests lap their ring, and when the ring has room for all sequence numbers (`Wide`), a packet marked as queued for retransmission is named by a request that waits |
| `SenderQueueProofs!NoFloodHolds` | under the same conditions, and with congestion control on, at most two requests of a peer for one packet wait that are not older than `SearchPeriod`, and at most two at all while there is one peer |
| `SenderPeersProofs!TypesCorrect`, `AliveCountCorrect`, `EventsCorrect` | types; `child_alive_count` is the number of live children of each listener; the application's count is the number of peers it was told of |
| `SenderPeersProofs!TotalCorrect`, `SkipCorrect`, `RoundsCorrect` | `total_weight` is the sum of the weights it should be; no two packets in a row are given to nobody for want of credit; in an undisturbed round every peer is elected as often as its weight says |
| `ProgramSelectionProofs!TypeCorrect`, `CacheRefinesTables`, `DecisionCorrect` | types; the cache that goes by versions implements `LastTables`; with cache and selection in step, every decision is what was asked for, but for a PID that may be overlooked |

The arguments.  *Size*: `SizeInSync` alone is not inductive, because the output
thread subtracts what it took from the ring two steps earlier: `SizeInv` adds that
the slot it took stays occupied (a packet cannot be stored into an occupied slot
without a displacement) and that the size covers it.  The cardinality of the ring
is followed through each change of one slot.  A packet that is played before its length was
added makes the size lag by one until it is; only if the packet is taken for lost is it never
added.  *Missing counter*: `CounterInv` adds that no two
entries have the same number and mark, so that renewing the asked ones (a map over a set)
merges none and their number stays; a new entry was not asked for yet.  *Marking*: an original
that comes before its time to be played is, once it is stamped, neither due nor old while the
protocol thread is busy with it, so the output thread cannot take it, and what the output
thread was clearing is another slot, because that one was still occupied when the packet was
stored (`BusyInv`).  Until it is stamped the thread may take it at any moment: that is what
`torn` records and where the promise ends.  A slot that was found empty when it was tested is
not read; one that was not and is empty a line later has been due in the meantime.
*Playout*: as long as no unstamped packet was played, the reader stands just behind the last block, or at the first packet, and all that
is in the ring or about to be is newer than that block and within one window of time
(`PlayInv`, `Horizon`).  In such a window the numbers go up with the source times, so looking
forward from the reader is looking in source order (`ReaderOrder`), and the packet the output
thread finds is the oldest one.  That packet is also the first that may go: as the thread is
never late for it, none waits twice the buffer.  Nothing sent before the first packet is asked
for; when it comes by itself it stands in the slot of a full ring and is refused, and fewer
copies of it come than the refusals that reset the flow.  *Holes*: `last_seq_found` is the
number of the newest packet, or of the one before it when that was refused so, and each packet
up to there is played, in the ring, too old or has an entry (`HoleInv`).  An entry that is
given up is too old: its estimate is at most a tick early (`LineEstimate`), and each NACK it
was asked with took its time.
*Breaker*: `BreakerInv` ties state,
counters and the ring of failure times together.  *Whole blocks*: each marker, wherever it is,
counts a whole block, with the marker before it (7 x 5 + 1) or, the first one, without
(`Tally`).  In a block that passes the validation the counters agree with such a marker; the
block that lacks the one would be one packet short of full datagrams, which the validation
refuses as well.  With datagrams of one packet (`PerRtp` = 1) it would pass: hence `PerRtp` > 1.  *Watchdog*: `ChildInv` says for each
place of the loop whether there is a child, whose pipe is read, and what
`child_pid` holds.  *Pipe*: a trigger in the pipe is the present child's; while reads end
with lines, the pipe starts with a line, and a `line_pos` that a restart left behind meets the
first line of a new child, which is no trigger (`PipeInv`).  *Fsr*: `NobodyForgotten` needs `Repeating`: a receiver that is
not active has a last Disable no older than one repeat period, because the
repeat fires in the check before it gets older; so `StopRepeating`, which needs
`RepeatFor`, is out of reach, and the record of the last Disable is never cleared.
Only a listed satellite peer lets the repeats go on; `ActiveWhenGone` says that a peer
that is dead when a check comes makes the receiver active, so that it is active when the
peer leaves the list.  That takes a check between death and removal, hence `RemoveAfter` > 0.
*Ring*: the run is described by distances from `Oldest`; each step moves one of its ends,
and a slot is in the new run exactly if it was in the old one and is not the end that
moved.  *Numbers*: the packets of the run have consecutive numbers, what lies before it is
old, and the last `SeqMod` of them have different sequence numbers (`NumberInv`), so that an
entry of the index is overwritten only by a packet that takes its number.  *Marks*: packet n
is sent from place n modulo the size of the ring (`PlaceInv`), so for a number that is still
its packet's own the index holds that packet or, in a ring as large as the numbering, an empty
place; each request that waits has such a number (`RequestInv`), so the request and the packet
it marks meet again when it is taken up.  In a ring smaller than the numbering (`~Wide`) the
place could hold another packet, which would be marked in its stead.  *Counts*: a step adds or removes one child, and the set a count stands for gains or
loses that element; the destruction of a listener removes all of its children at once.
*Totals*: the prover cannot unfold a fold, so a sum of weights is taken for the number of
turns of its peers, a set of pairs (`Turns`); that the fold gives that number follows for
every finite set from a smallest set for which it would not.  `PeersInv` then relates the
total, the credit that is left and the packets each peer was given in the round.
*Flood*: of the requests of one peer for one packet the youngest comes last in the retry
ring, so that the search that goes back from the write index meets it before it stops at an
old one (`YoungestLast`); one that is old itself may not be met, hence the bound on their age.
With one peer the mark of the packet does it, at any age (`SingleInv`), which needs `Wide`
once more.  *Losses*: the markers between the two programs - in the datagram
that is handled, on the wire, in the buffer and the next to be made - are numbered one after
the other (`Flight`), and the first of them has the number after the last one seen plus the
losses not told of yet (`FlightInv`).  A marker is put behind the payloads that fill a
datagram, so no datagram has two, and a lost one costs one number.
*Intact blocks*: the inserter's stream is one sequence in which the place of a packet says what
it is, and what is in hand, on the wire and in the buffer is its end, datagram behind datagram
(`StreamAt`).  The packets the sender has of its block each come from a place no earlier than
theirs in the block and leave room for those after them, and the losses it was not told of are
the whole blocks it is behind (`BlockAt`).  A marker with the expected number says that there
are none, and a block as long as the inserter's leaves no choice of places.
*Cache*: `CacheInv` says that a version in the cache is that of some line-up's table and
that what is known is its contents; then equal versions mean equal tables, and a table that
is not parsed again would have changed nothing; what was learnt of a program is all its table says
but, perhaps, the last stream (`LearntFacts`).  *Decision*: a PAT lists a program once,
so the first entry with a number is the only one.

Assumptions on constants are named (`FlowAssumption`, `FsrAssumption`, ...) and TLC
evaluates them in the runs.

Only model-checked: liveness (`NotStranded`, `SendsAgain`, `AskedIsReplaced`,
`GoneIsReplaced`, `Served`, `Released`, `RequestsHandled`, `Settles`), which the prover
cannot reach.  The premises of the receiver's theorems about play and holes are those of
`receiver_timely`, whose constants satisfy `Timely`, `Steady` and `Patient`; the theorems say
nothing of a flow that breaks them (`receiver_any` has such flows).

## 5. Plan

Done: receiver flow, marker chain, watchdog, full stream request, sender queue, peers and
election, program selection.

What is left, in this order:

1. `HolesStayTracked` for a flow of many rounds: there a number asked for in one round may
   be taken for one of the next, so `requested` has to be told by rounds;
2. `DataOut`: the FIFO with several readers; each block once (section 6 has what reading
   the code showed);
3. `SenderQueue` composed with `SenderPeers`: entries that point to peers that are removed;
4. `Eap`: the authentication state machine.

## 6. Findings

One run is expected to find a violation:

- `programs_retry` (`udp.c` 1430): what a program consists of is learnt only from packets
  that are being filtered.  A recovery agent that is not sent the full stream gets nothing
  but retransmissions, so no PAT and no PMT is ever shown to the cache (unless one of them
  is what was lost), no PID belongs to the program it selected, and the content it asks for
  is sent again as null packets.  The comment above the call promises filtering "per
  contentSelection".

Seen with the same models, by checking a property that is defined there but is no part of a
run:

- `ReceiverFlow!BehindReaderIsDropped`: a packet is compared with the clock, not with the
  reader; one that comes between 1.0 and 1.1 buffers late is stored behind the reader
  (`rist-common.c` 632).
- A packet is put into its slot before its times are written, without a lock and into memory
  that is not cleared (`rist-common.c` 436, 441-443).  The output thread can judge it by what
  stands there and play it at once, before older ones.  Then 437 takes the empty
  slot for a lack of memory and the packet is never counted and the gap before it never marked,
  or a line after it dereferences NULL.  `PlaysOut`, `NoReset`, `HolesAreTracked` and
  `MarkFindsPacket` fail without `torn`, `SizeInv` without `uncounted`.
- `receiver_mark_missing` tests the slot of the last packet found and reads it again for its
  time (`rist-common.c` 452, 458); after a pause of a whole buffer the output thread can empty
  it in between, also when packets come in time (`LastFound` allows for it).  The test of the
  new packet's slot and the read after it (671, 672) are two steps as well.
- `MarkerChain!TripNeedsLosses` with `Troubles = {"repeat"}`: the `uint32_t` difference makes
  a repeated or late marker count as almost 2^32 losses and trips the breaker
  (`ristsender_marker.c` 541), against "10 consecutive marker losses" (`src/README.md` 198).
- `Watchdog!NoTriggerMissed`: a request split over two reads is missed (`rist_watchdog.c` 83).
- `Fsr!RepeatsStop`: the repeated Disable renews the time its own limit is measured from
  (`rist-common.c` 5005).
- `SenderPeers!NoStarvation` (two callers, one listener without a receiver): a listener passes
  turns that were never part of the total, each round ends early and the second caller is
  never elected (`udp.c` 1161), against "Standard weighted round-robin" (`src/README.md` 35).
- `SenderQueue!RefusedOnlyWhenFull` under `SharedSpec`: `buffer_size` is shared by all senders
  of a process (`rist-common.c` 3419), and packets are reported as dropped for a full queue
  that is not (the TODO at `udp.c` 940 asks why).  In a process with one sender the test never
  fires at all, and a writer that goes round overwrites (`NeverFull`).
- The retry ring has no full test (`udp.c` 1584): when requests lap it, all that wait are
  lost, and with one peer their packets stay marked as queued and are never sent again.  One
  peer cannot fill it (two requests for each of 2^16 numbers, in 2^18 entries); several peers,
  or congestion control that is off, could.
- With several peers the search for an equal request ends at the first entry that is older than
  the search period (`udp.c` 1551), though an equal one may lie behind it: when requests wait
  that long, two peers that ask in turns get three and more requests of one peer for one packet
  into the ring (five requests in a ring of 8, with `SearchPeriod` = 1), hence the bound on the
  age in `NoRecentFlood`.
- `queued_items` is masked with the size of the ring, so one bit is left (`rist-common.c`
  3379-3382); with one peer the first request for a packet can be queued twice; a request for
  a packet that is gone stays `active`.
- `NeverDesynced` fails under the constants of `receiver_any`: replacing a packet in its
  slot never subtracts its size (`rist-common.c` 682), and the branch that "should never
  happen" is reached.
- One late packet after a statistics report resets the flow (`rist-common.c` 637): the
  test without a minimum stands before the one with it.
- `BlocksIntact` fails with `Troubles = {"gap"}`: the inserter puts markers round payloads
  between which the flow had a gap, and the sender validates the block.
- A block all of whose packets were lost between two markers does not interrupt the good
  blocks a recovery needs (`ristsender_marker.c` 594).
- A watchdog that is told to stop leaves its child running: `child_pid` is 0 while the
  child runs (`rist_watchdog.c` 285), so the handler terminates nothing.
- Without a listed satellite peer an Enable that was lost is never sent again: the
  keepalive asks for the peer (`rist-common.c` 4972).
- `Released` fails with two agents: the Disable goes to the agent that is best when it is
  sent, and the one that was enabled streams on (`rist-common.c` 4986).
- Peers: the weight of a destroyed caller stays in the total (hence `destroyed` in
  `TotalExact`); a peer of weight 1000 counts in the total and is never elected, so packets
  are skipped; a caller that was never answered does not die; a keepalive does not revive.
- `ProgramSelection!EveryStreamDecided`: the loop over the streams of a PMT ends at
  `section_length - 4`, "Exclude CRC" (`program-selection.c` 829), but `section_length`
  counts from the byte after itself, so the CRC begins at `section_length - 1`.  A last
  stream with less than three bytes of descriptors is not stored (832): it is left out of a
  requested program and let through of a blocked one.
- Program selection: a selection cleared with NULL (`receiver.h` 165) is left out of the
  keepalive and the sender keeps what it had; a table whose version comes round to the same
  value, or a PAT of several sections, is not read; of two programs with one PMT PID the
  second is never known; a PID 0 in a list ends it; the list and the cache are the
  process's, and the end of one context disables them for all (`rist-common.c` 5155).
- Data-out FIFO, from reading: `rist_receiver_data_read2` counts before it takes the lock
  (`rist.c` 176); a second reader that finds the ring empty returns an error, which the
  comment there calls tolerable; the overflow flag is read after the lock is released and
  the next write may have cleared it.

## 7. Not modelled

See `components` in `PROJECT.json` for each part and its reason.  Formats and ciphers
(GRE, RTP, PSK, SRP arithmetic) have no interleavings to check; the event loop, sockets,
logging and threads are external and modelled by their effect; tools and web APIs
configure the system; `contrib/` is vendored.  The FIFO and EAP are in the plan.
Undefined behaviour known from reading and kept out of the models: where the receiver's
threads share a slot, a packet may be freed between the load of its pointer and the access
to it (`rist-common.c` 441-443, 458, 459, 673), which the models take for an empty slot or
for a packet that is still there; missing and retry entries hold pointers to peers that may
be removed; `rist_receiver_set_content_selection` frees a peer's JSON under `peer_lock`
(`rist.c` 273-285) while the keepalive copies it without the lock (`gre.c` 238-247), where
the model stores and sends it in one step each.
