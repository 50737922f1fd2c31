# PacketPulse: TLA+ models, model checking and proofs

PacketPulse inspects network packets. A C++ engine filters capture files by
blocking rules; a C++ service captures live packets into Kafka; Python services
turn them into flows, alerts, REST and web socket data; a React dashboard shows
them. This directory holds TLA+ models of the code, TLC configurations that
check them on small instances, and TLAPS proofs for every size.

`PROJECT.json` is the index: components, runs, the source lines every definition
stands for, mutants (a plausible bug for each property, which the property must
detect), findings, hazards and theorems.

## 1. The system

| component | state | operations | talks to |
|---|---|---|---|
| DPI engine (`dpi_engine`, `load_balancer`, `fast_path`, `thread_safe_queue`) | bounded queues, `running_` flags, statistics, output file | reader, LB, FP and writer loops; `start`, `stop`, `processFile` | threads over blocking queues |
| Fast path (`fast_path`, `connection_tracker`) | connection table of one thread | `processPacket`, `updateTCPState`, `inspectPayload`, `checkRules`, `cleanupStale` | rule manager (shared) |
| Rule manager (`rule_manager`) | four containers, each under its own reader/writer lock | block/unblock of address, port, application, domain; `shouldBlock`; `saveRules`, `loadRules`, `clearAll` | all FP threads; a rules file |
| Second engine (`dpi_mt.cpp`) | as the DPI engine, flow map per FP | `process` | threads over blocking queues |
| Single-threaded tool (`cli/dpi_single_thread_main.cpp`) | flow map, alert list | packet loop, Kafka or JSON output | Kafka, files |
| Parsers (`packet_parser`, `sni_extractor`, `pcap_reader`) | none | bytes to fields | called by the engines |
| Packet service (`services/packet_service`) | bounded queue, counters, `running_`, Kafka buffers | capture callback, producer loops, `stop`, `join`, signal handler, health server | libpcap, librdkafka |
| Processing service (`services/processing_service`) | flow table under a lock, statistics, offsets | consumer loop, flusher thread, statistics thread | Kafka, Redis, PostgreSQL |
| Detection service (`services/detection_service`) | rules, Redis windows, pending tasks | detector loop, rule refresh, rate limiter | Kafka, Redis, PostgreSQL |
| API gateway (`services/api_gateway`) | recent flows and alerts, set of sockets | data loader, broadcast, web socket handler, lifespan, REST | Kafka, Redis, browsers |
| Dashboard (`dashboard/src`) | socket, retry count and timer, store | `connectWS`, `initWebSocket`, polling | gateway |
| Demo API (`demo_api/main.py`) | flows, alerts, sockets, caches | generator loop, broadcast, REST, summaries | browsers |

What is hard here: threads that stop each other through flags, shutdowns of
queues and joins in a certain order; checks that take several locks in turn;
state that survives, or does not, when a table is full; counters kept in
several places; coroutines between whose awaits everything may change; tasks
on event loops that run only now and then. The list, line by line, is
`hazards` in `PROJECT.json`.

What makes each component correct:

* Engines: flows stay in order, no packet vanishes uncounted, stopping ends
  with the forwarded packets written.
* Fast path: a packet is dropped if a rule stood against it, and only if one
  did; a connection in use is not evicted.
* Rules: what is saved is what was in force; what is loaded is what was saved.
* Single-threaded tool: it decides like `dpi_mt`, its counters and its export
  add up, a name it finds is a whole name.
* Packet service: every captured packet is dropped, sent or failed, once;
  `stop` and a signal end it.
* Processing: each packet read from Kafka is in one flow record, wherever that
  record is; the database shows no record that was not published; a shutdown ends.
* Detection: an alert in the database was handed to Kafka's producer; one record is judged by
  one version of the rules; a blocked flow gets its alert, unless Kafka or a
  crash lose it.
* Gateway and dashboard: alerts in order and without gaps; connections that are
  gone do not stay; a page has one socket and gets it back; shutdown ends.

## 2. Modules

| module | models | built on |
|---|---|---|
| `FlowFilter` | abstract: what a packet engine promises | - |
| `DPIEngine` | reader, LBs, FPs, writer, `stop` | refines `FlowFilter` |
| `MTEngine` | `dpi_mt.cpp` | EXTENDS `DPIEngine`, refines `FlowFilter` |
| `DPIEngineProofs` | theorems about both engines | `MTEngine`, TLAPS |
| `RuleManager` | the shared rules, one action per critical section | - |
| `FastPath` | one FP thread and the rules changing beside it | EXTENDS `RuleManager` |
| `RuleFile` | saving, loading, clearing, restarting | EXTENDS `RuleManager` |
| `RuleProofs` | theorems about the rules, `FastPath` and `RuleFile` | `FastPath`, `RuleFile`, `SumLemmas` |
| `CaptureEngine` | packet service: capture, queue, producers, signal, stop | - |
| `SumLemmas` | lemmas: induction over a finite set, sums as sizes of sets | `FiniteSetTheorems`, TLAPS |
| `CaptureEngineProofs` | theorems about `CaptureEngine` | `CaptureEngine`, `SumLemmas` |
| `AppTypes` | applications, their names, the table from server names | - |
| `PacketParser` | header lengths of a frame, payload position | - |
| `SniExtractor` | server name of a ClientHello, host of a request | EXTENDS `AppTypes` |
| `SingleThread` | the command line tool | EXTENDS `PacketParser`, `SniExtractor` |
| `SingleVersusMulti` | the tool and an FP of `dpi_mt` on one capture | EXTENDS `SingleThread` |
| `SingleThreadProofs` | theorems about the parsers, the tool and the comparison | `SingleVersusMulti`, `SumLemmas` |
| `ProcessingService` | consumer, flusher, event loop, crash | - |
| `ProcessingServiceProofs` | theorems about it | `ProcessingService`, TLAPS |
| `DetectionService` | detector loop, refresh, tasks, crash | - |
| `DetectionServiceProofs` | theorems about it | `DetectionService`, TLAPS |
| `Gateway` | loader, broadcast, sockets, lifespan | - |
| `Dashboard` | the page's sockets and timers, composed with the gateway | EXTENDS `Gateway` |
| `DashboardProofs` | theorems about gateway and page | `Dashboard`, TLAPS |
| `MC*` | constants of the instances for TLC | each EXTENDS its module |

Definitions named *Variant* in the modules are the mutants: the same operation
with a bug. No specification uses them.

### FlowFilter

The state is the capture file (`capture`, the five-tuple of each packet), a
verdict for each packet and the output file. `Judge` decides a packet once all
earlier packets of its flow are decided. `Write` appends a forwarded packet once
all earlier forwarded packets of its flow are written. Nothing has to happen: an
engine may stop at any time, so what it leaves out of a flow is its end.

### DPIEngine

One action is one critical section of a queue or one test of a loop's flag.

* `ReaderRead`/`ReaderPush`/`ReaderEnd`: `readerThreadFunc`. The reader may end
  at every packet, the first included (file cannot be opened, short read).
  Packets that cannot be parsed are not in `capture`. `Captures` is the set of
  capture files an instance has, `Records` how many packets of each are read.
* `LBCheck`, `LBTimeout`, `LBPop`, `LBPush` and `FPCheck`, `FPTimeout`,
  `FPDrop`/`FPForward`, `FPPush`: `while (running_) { popWithTimeout; ... }`.
  The pop of an FP, `processPacket` and the counting in `handleOutput` are one
  step, because nobody else looks at this FP in between; the push that follows
  is another one and may block.
* `CanPush`/`Pushed`: `push` waits while the queue is full and not shut down, and
  drops its item silently when it is shut down. A queue is shut down together
  with the flag of its thread (`lbRunning`, `fpRunning`; clearing the flag and
  the shutdown are one step: in between its thread can only take another packet,
  which it may do before the step as well). The output queue is shut down when
  the FPs are joined (`OutOpen`).
* `WriterCheck`, `WriterTimeout`, `WriterWrite`: `outputThreadFunc`, with the
  loop condition `running_ || !empty()`.
* `MainStop`, `StopLB`, `JoinLB`, `StopFP`, `JoinFP`, `JoinOut`: join of the
  reader, the two sleeps (steps that may be taken at once), then `stop` thread
  by thread. A join is a guard.
* `at` is history: where each packet is. `stats` are the counters of the report.

The hash is a constant function `Hash` on five-tuples; selection of LB and FP is
the code's arithmetic. That FPs decide freely makes the properties hold for
whatever `FastPath` decides.

### MTEngine

Reuses the loops. New: `blocked`, the flows an FP has blocked (`flow.blocked`);
a packet of a blocked flow is not forwarded. The order at the end of `process` is
different: `running` stands for `output_running`, cleared after the last FP has
been joined (`MTJoinFP`), not first.

### RuleManager and FastPath

`RuleManager` has the four containers; wildcard patterns are a sequence because
the code keeps them in a vector without looking for duplicates.

`FastPath` takes lookup, statistics, TCP flags and inspection as one step
(`Receive`, `ReceiveBlocked`): the table belongs to the thread. Then `phase` walks
through the lookups of `shouldBlock`, one step per lock (`CheckHits`,
`CheckMisses`), while `ChangeRules` may run between any two. `Cleanup` runs when
the queue was empty. Time is the order `older` in which connections were last
seen; `Cleanup` removes any set of oldest ones, and the closed ones. What a
payload contains is an input (`Payloads`): nothing, something unknown, a name
found by the TLS, HTTP or DNS extractor. History: `standing` (kinds of
rule that matched since the check of this packet began) and `suspects`
(connections some rule matched during a check).

### RuleFile

`Save` is a step per section: the open truncates the file, then each getter takes
its lock. `LoadLine` is one call of a block function per line. `Clear` is a step per
lock. `Restart` may come at any moment, in the middle of a save too: the file then
keeps the sections written so far or, if they were in the stream's buffer,
nothing. A new process starts without rules. `EditRules` is a call of another
thread. The module's names (`FileSpec`, `fileVars`) differ from those of `FastPath`, so
that one module can prove about both. Loading while a save runs is left
out (one stream reads what another one has open).

### CaptureEngine

Packets are counted. `Arrive`, then `Drop` (not parsed, or `tryPush` failed) or `Push`
and `CountQueued`: `pcapCallback`. `GoOn`, `Pop`, `PopNothing`: the two loops of
`producerLoop` (`drains` is the second). `Accepted`, `QueueFull`, `Refused`: `produce`, with
its poll and one retry. `BrokerAnswers` is librdkafka: an acknowledgement or a
failure becomes a report, which is counted when a poll serves it (`Served`).
`Stop`, `StopBreak`, `StopShutdown`, `JoinCapture`, `Flush`: `stop` and `join`, each
statement a step. `Signal`: the handler, which only clears `running_`.
`init` assigns a new `BoundedQueue`, which contains a mutex; the model reads this as
the construction of a queue with the configured capacity.

### AppTypes, PacketParser, SniExtractor

These have no state. `AppTypes` has `sniToAppType` as the code has it: rows of
patterns in the order in which they are tried, a lower-cased copy of the name,
substring search. `PacketParser` takes a frame as the lengths its headers
state and the number of bytes captured; `ParseIPv4`, `ParseTCP` and `ParseUDP` are
the parser's checks, `STPayloadLength` and `MTPayloadLength` the arithmetic by which
the two engines find the payload a second time. `SniExtractor` walks over the
lengths of a ClientHello that is captured up to any byte, and over the text of
an HTTP request.

### SingleThread and SingleVersusMulti

`ReadSkip` and `ReadPacket` are the two ways a packet of the loop can go: it does
not parse, or its flow is looked up, classified (`STClassified`: a name is looked
for as long as there is none, then the ports speak) and judged once for good.
`Emit` writes or drops it. `EndOfFile`, `Publish`, `Flush` and `Export` follow; Kafka
may refuse any record, and the export is an option. `SingleVersusMulti` takes the same packets through what a
fast path of `dpi_mt` does (`MTClassified`, `MTJudged`), which classifies under
another condition and remembers `classified` instead of looking at the name.
That one FP has all packets of a flow in their order is `FlowOrder` of
`DPIEngine`.

### ProcessingService

A packet is its offset; a flow record is the set of packets it counts, so that
a packet that is lost or counted twice shows. `Poll` is one message of the
consumer loop up to its first wait, the test of `running` included, with the exception that `update` raises
for the first packet of a flow; `Stored` is the return of `store_flow` and the
asynchronous commit; `Commit` is Kafka's side of it. `FlushStale` and `FlushSend`
are the flusher thread; records are produced in the order in which their flows
were first seen, and a refusal ends the loop over them (`Beginnings`). Stale are
the flows seen longest ago: any beginning of that order. `UpsertEnds` is a
database task; it can end only when the consumer's loop runs (`LoopRuns`).
`Shutdown`, `FlushAll`, `FinalUpsert`, `Close` are the consumer's `finally`. `Crash` kills
the process anywhere and starts it from the committed offset; without one it
starts at the end of the topic.

### DetectionService

`Take` reads the rules and all thresholds before the check's first await.
`Answered` is the limiter's answer (yes, no, or an error, which is a no) for
source and destination; only while these are awaited can `Refresh` replace the
rules and a task `SaveEnds` store an alert. `Produce` hands the alerts to Kafka's
producer one by one (`Hand`: they are in its `buffer`) and schedules a task for
each; a refusal ends it (`Refuse`). `Deliver` is the client library: an alert reaches the topic
(`alerts`) or is given up, which `delivery_report` only logs. `AutoCommit` commits
whatever offset the consumer has taken, checked or not. `Configure` is someone
writing new rules to Redis. `Crash` is every end of the service, since the
detector is a daemon thread with an endless loop: the alerts in hand and in the buffer
are gone, the pending tasks too, and a new process begins at the committed offset or,
without one, at the end of the topic. History: `produced` (what the producer
has accepted), `lost` (the alerts that were refused, given up or in memory at a crash)
and `skipped` (records a restart passed over).

### Gateway and Dashboard

What stands between two awaits of a coroutine is one step. The loader's task
is at one of `Places`; `Broadcast` copies the set of connections and sends to one
after another (`Send`), collecting those that fail. `Watchdog` leaves Kafka after
ten seconds without a flow. `Connect`, `KeyRefused`, `Accept`, `Disconnect` are the web
socket handler. `Stop`, `CancelLoader`, `Stopped` are uvicorn and `lifespan`; `Cancel` is
where CancelledError comes up in the loader, and what each place makes of it.

`Dashboard` adds the page: runs of React's effect, each with its `isMounted`, its
`pullData` under way and its timer, and the one `wsRef` they share. Its sockets are
connections of the gateway: `ConnectWs` is `Connect`, a socket opens when the
handler has accepted. `GatewayStep` also has another client and lets any
connection break.

## 3. What is checked

| run | instance | shows |
|---|---|---|
| `DPIEngine` | 1 LB, 2 FPs, 3 flows (two share an FP), queues of 1, captures of 3 packets and one of 6 | types; flows in order and without gaps; each packet in one place; no push to a closed queue; the report adds up; the reader finishes; refinement of `FlowFilter` |
| `DPIEngineStop` | 1 LB, 2 FPs, 2 flows, queues of 1, 3 packets | finding: `StopDelivers` fails |
| `MTEngine` | 2 LBs with 1 FP each, 2 flows, queues of 1, 3 packets | a blocked flow stays blocked; everything forwarded is written; `process` returns; refinement of `FlowFilter` |
| `FastPath` | 3 connections (HTTP, UDP 443, DNS), table of 2, one rule of each kind, 2 rule changes | types and the five properties of section 4 |
| `RuleFile` | a rule of each kind, 2 patterns, 3 rule changes, vector of 2 | a save is faithful; a load restores |
| `CaptureEngine` | 2 producers, queue of 2, Kafka buffer of 1, 4 packets | every packet counted; nothing left behind; `stop` and `join` end |
| `CaptureEngineSignal` | 2 producers, 1 packet | finding: `SignalJoins` fails |
| `SingleThread` | all captures of 3 packets out of 11 shapes, 3 command lines, Kafka or not | the tool decides like `dpi_mt`; alerts, counters and export agree; names are whole |
| `ProcessingService` | 2 flows, 3 packets, 1 crash | packets counted once; nothing stored that was not produced; shutdown completes |
| `DetectionService` | 2 flows, 2 versions of the rules, 2 records, 3 alerts, 1 crash | alerts stored were produced; blocked flows have alerts, or their loss is accounted for |
| `Dashboard` | 3 connections, 2 of them the page's, 2 alerts, 1 connection that breaks | alerts in order; one socket; gone connections leave; the page reconnects |
| `DashboardShutdown` | the same | finding: `ShutdownEnds` fails |

Bounds. `MaxPackets`, `MaxRuleCalls`, `MaxEdits`, `MaxPatterns`, `MaxAlerts`, `MaxLeaves`,
`MaxRecords` and `MaxCrashes` cap what would grow without end; every bound is a
constant with that word in its comment. Queues of one packet make every queue
full and empty in turn, so every push blocks in some run. Three packets are
enough for two packets of one flow with one of another flow between or around
them; two FPs (or two LBs) are enough for two packets to overtake each other.
`ReaderFinishes` needs more: one packet in each of the LB's queue, the LB, the FP's queue,
the FP and the output queue is held behind a writer that does nothing, and the
sixth is the one the reader then waits with. So `DPIEngine` also has a capture of six
packets of one flow (`Long`, bounded by `Records`); with an LB, an FP or the writer
that leaves its loop early the property is violated, and its mutant is the writer,
the last of them.
In `FastPath`, a table of two with three connections evicts; two rule changes
suffice to set and lift a rule during one check. Its `LiveFlags` leave out RST and a
lone ACK, with which the state space is several times as large; theorem
`OnlyCloseLifts` has every set of flags. In `SingleThread` the shapes are chosen so that each way through the
classification occurs: a name at once, later, cut by the capture, cut by the
end of a record, none; options in the headers; a frame that lies about its
lengths. In `ProcessingService` three packets of two flows give a flow that is
flushed and comes back; one crash suffices for a packet to come twice. In
`DetectionService` the second record can be checked while tasks of the first are pending, by
other rules, and three alerts (`MaxAlerts`, after which the limiter says no) are those of one record or of
both. In `Dashboard` two connections of the page let an old socket still
be open when the next is made, and the third is another client that is slow or
gone during a broadcast; the server stops only after the last alert, which keeps the
shutdown's states apart from those of the alerts. No symmetry is declared. The
proofs remove the sizes of the instances for every safety property of every passing
run, including the action properties and both refinements (section 6).

Deadlock is not checked (`CHECK_DEADLOCK FALSE`): the engines and the tool end,
and the services stand still when no packet comes within the bounds.

Fairness.

* `DPIEngine`, `MTEngine`: weak fairness of each thread, that is, the operating
  system schedules every thread that can run. Nothing is assumed about which of
  several waiting pushes goes first.
* `CaptureEngine`: weak fairness of the capture thread's own steps (not of
  arrivals), of each producer, of the owner's steps in `stop` and `join`, and of
  `main` calling `stop` once it has seen the flag cleared (it looks every ten
  seconds). Packets need not arrive, the broker need not answer, pcap need not
  fail.
* `ProcessingService`: weak fairness of the consumer thread where it does not wait
  for a packet, of the tasks on its loop while it runs (PostgreSQL answers or
  fails), and of the producer, which delivers or gives up after its timeout. No
  fairness of `Poll`, of the flusher or of commits.
* `Gateway`: weak fairness of the loader where it can go on, of accepting and
  disconnecting handlers (uvicorn notices that a peer is gone), and of `lifespan`.
  No message need arrive, no client come or go.
* `Dashboard`: weak fairness of the page's events: the browser delivers answers,
  timers and events of sockets. Nobody has to leave the page.
* `RuleFile`, `FastPath`, `SingleVersusMulti`, `DetectionService`: none; no liveness is stated.

## 4. Properties that are not obvious

* `FlowOrder`, `NoGapInFlow`: two levels of hashing, three queues and an abrupt stop
  keep each flow in order, and what is missing of a flow is its end.
* `EachPacketInOnePlace`, `NothingDiscarded`: the order of joins and shutdowns in
  `stop` never makes `push` drop an item, although `push` would do so silently.
* `ReportAddsUp`: what `stop` left in the queues is exactly the difference between
  the counters.
* `StandingRuleApplies`: `shouldBlock` is not atomic, but a rule that matches during
  the whole check is applied. `DropHasCause`: and nothing is dropped without one.
* `RecentStays`: the table keeps its limit, and the connection that was just in use
  leaves it in two ways only: evicted from a table with room for one, or cleaned up,
  CLOSED or because all the others were stale too.
* `LabelsAgree`: application and name come from one packet, even after a
  connection was closed and used again.
* `BlockedUntilClosed`: only the TCP flags of the connection itself lift a block.
* `SavedFaithfully`: the file of a save that ran beside changes has every rule that
  held throughout and none that never held.
* `EveryPacketCounted`, `NothingLeftBehind` of `CaptureEngine`: counters of three
  threads and of Kafka's reports account for every packet at every moment, and
  the drain is complete.
* `SameAsMulti`: two programs that classify under different conditions drop the
  same packets and know the same names.
* `AlertPerBlockedFlow`, `CountsAddUp`: as many alerts as blocked flows for each
  source, in memory and in the export; counts kept by packet, flow and
  application agree.
* `NamesWhole`: a name found in a cut ClientHello is never the beginning of one.
* `EveryPacketCounted` of `ProcessingService`: a packet is in the table, in the
  flusher's batch, in the producer's buffer, in the topic or in the losses, and
  before the first restart in one of them only.
* `StoredWasProduced` of both services: database and Kafka are written one after the other by
  tasks that may fail, be abandoned or be killed, but never the wrong way round.
  `BlockedIsAlerted`: refresh, pending tasks and commits that run ahead of the
  checks lose no alert of a blocked flow; it is missing only if this alert was
  refused, could not be delivered or died in memory, or its record was skipped.
* `ShutdownCompletes`: the consumer waits for tasks that only it can run.
* `AlertsInOrder`, `GoneLeavesActive`: connections come, go and are removed by two
  coroutines in the middle of a broadcast.
* `OneSocketPerPage`, `PageReconnects`: answers, timers and close events of two runs
  of one effect that share a reference.

## 5. Findings

With a run:

* `StopDelivers` (`dpi_engine.cpp:287`): the writer leaves when `running_` is false and
  its queue is empty, before the FPs are stopped. If an FP then fills the
  output queue, it blocks and its join never returns; if it does not, a packet
  counted as forwarded is not in the file. `MTEngine` has the order right.
* `SignalJoins` (`capture_engine.cpp:114`): `stop` does nothing after the signal
  handler has cleared the flag; `join` waits for ever.
* `ShutdownEnds` (`data_loader.py:219`): the loader takes its cancellation for a Kafka
  that is not there and starts the simulator; `lifespan` waits for ever.

With a theorem:

* `BlockLifted` (`fast_path.cpp:93`): the flags are followed before the block is
  looked at, so a packet that closes a blocked connection is not dropped for
  the block, but put to the rules.
* `UnblockLeavesCopy` (`rule_manager.cpp:121`): one copy of a pattern is erased.
* `HashReuse` (`load_balancer.cpp:75` and `:132`): with as many LBs as FPs per LB (the
  default), LB `l` uses only its FP number `l`.

Seen while modelling, and kept in the models as the code has it:

* `types.cpp:110`: "netflix.com" contains "x.com", "microsoft.com" contains "t.co";
  both are looked for earlier, as Twitter. `yt3.ggpht` can never decide.
* `sni_extractor.cpp:169`: `host:` is found anywhere in the request, and a host cut
  by the end of the segment is taken for the whole.
* `sni_extractor.cpp:88`: the branch for truncated ClientHellos is not reached by them.
* `flow_tracker.py:65`: `update` raises for the first packet of every flow.
* `processing_service/main.py:78`: upserts of flushed flows wait until a packet of a
  known flow comes, and may be abandoned at the end.
* `rule_engine.py:31`: the rules are first fetched during the first check, after it
  has read the defaults.
* `data_loader.py:156`: alerts do not count as data, so the watchdog leaves a Kafka
  that delivers.
* `DPIContext.jsx:129`: the page ignores `alert` and `flows_update`.

Met while proving:

* `dpi_single_thread_main.cpp:336`, which calls itself the reference implementation:
  the proof of `SameAsMulti` needs that no client sends an empty name. A request with
  `Host: :80` has one; the tool then goes by the port and blocks the flow as HTTP,
  `dpi_mt` leaves it UNKNOWN for good and forwards it. The proof also needs that what looks
  like TLS or HTTP comes over TCP, for which only the tool asks. Both are
  parts of `ComparisonAssumption`. Without the first TLC finds a
  capture on which the programs disagree.

Seen in code that the models leave out or abstract:

* `health_server.h:42`: the signal handler joins a thread that waits in `accept`, which
  `close` does not end on Linux; it returns when some client connects.
* `capture_engine.cpp:99`: `start` sets `running_` after the handlers are installed, so an
  early signal is forgotten.
* `rate_limiter.py:35`: a limit of packets is compared with a number of flow records, from
  and to the address.

## 6. What is proved

No theorem uses fairness; each holds for every value of the constants that
meets the module's `ASSUME`.

`DPIEngineProofs` (`EngineAssumption`: at least one LB, one FP per LB, one place in a
queue):

| theorem | statement |
|---|---|
| `TypeCorrect` | `Spec => []TypeOK` |
| `Invariance` | `Spec => []IInv`, the inductive invariant |
| `FlowOrderHolds`, `NoGap`, `OnePlace`, `NoDiscard` | the safety properties of the run |
| `Refinement` | `Spec => FilterSpec` |
| `HashReuse` | with `NumLBs = FPsPerLB`, the FPs off the diagonal stay empty |

The inductive invariant has three parts.

1. `TypeInv`: types, and which program counters go with a packet in hand.
2. `StopOrder`: the reader has ended before anything is stopped, LBs are joined one
   after another before any FP is stopped, FPs before the writer is awaited. It is
   what makes `NothingDiscarded` inductive: whoever still pushes, pushes to a
   queue that is open.
3. `DataInv`: each packet is in one place; no packet is discarded; every queue and the
   file are sorted per flow; and `Ahead`: of two packets of a flow the earlier one is
   at least as far along the pipeline as the later one has come. `FlowOrder` alone is
   not inductive: that the next packet appended to the file is larger than
   those there follows only from where the others are, and that is `Ahead` with
   the fact that all packets of a flow take the same queues.

Each part is proved by one step per action of `Next`. `Refinement` maps `verdict`
to where a packet is (`Verdict(at[p])`): the pop of an FP is `Judge`, the writer's
pop is `Write`, all other steps stutter. `HashReuse` uses that `(l * F) + i` with `i < F`
determines `l` and `i` (`GridUnique`).

The report: `ReportAdds`. `CountInv` relates the counters at every moment: the packets
read are those forwarded, dropped and not yet judged (`Unjudged`); those forwarded are in
the file, in the output queue or in an FP's hand. A step moves one packet, and
`MoveCount` says how the size of each of the two sets changes by the weights of the
places it leaves and reaches; `Recount` does the sums. At the end nobody has a packet in
hand (`HandsEmpty`, from `StopOrder`).

`dpi_mt`: `MTInvariance`, `AllWrittenHolds`, `BlockedForGoodHolds`, `MTRefinement`. Every step
of `MTNext` is one of `DPIEngine`'s, with `MTForward` and `MTDrop` as its judging, except `MTStop`
and `MTJoinFP` (`StepKinds`); so only those two are proved anew. `EndInv`: the writer is
told to end when all FPs are joined, and ends on an empty queue. `BlockInv`: the flow of
each dropped packet is marked at its FP, and later packets of it that are
judged are dropped; the queue is in order (`DataInv`), so no earlier packet is judged
after a later one.

`RuleProofs` (`RuleAssumption`, `FastPathAssumption`, `RuleFileAssumption`).

*Calls.* `RuleCallTyped` (every call keeps the types) and
`UnblockLeavesCopy`, both from `WithoutSeq`, which says what removing one copy
leaves of a sequence.

*The file.* `SavesAreFaithful`, `RestoresExactly`, `FileTypesCorrect`. `SavedFaithfully` speaks of a
save that has ended; `SaveInv` is what holds on the way: a rule in force since the
save began is in force still and, if its section is written (`Written`), in the file, and
each line of the file was in force at some time. `RestoredExactly` speaks of a load that has
ended; `RestoreInv` says that rules and lines still to be read are together the file,
section by section, the patterns as sequences one after the other (`HeadMoves`);
`ReadInv`, that nothing is left of a section when the next one begins. `untouched` has to
exclude a save under way, since it would change the file under the load.

*The fast path.* `TypeCorrect`, `StandingRule`, `DropCause`, `Labels` (the invariants of the
run), `OnlyCloseLifts` (the action property `BlockedUntilClosed`) and `BlockLifted` (the action
property `EndIsChecked`, stated beside it: a packet that ends its TCP connection is
given no verdict on its arrival and goes to the rules, whatever state the connection was in; lemma
`EndCloses` is the part about the flags). The inductive
invariant adds `CheckInv`: while a packet is checked, a rule that has stood since the
beginning is of a kind that is still to be looked up and matches now, and
whatever matches now has made the connection a suspect; and `BlockInv`: what is
BLOCKED is a suspect. Without the first part `StandingRuleApplies` says nothing
about a check that is half done.

*The table.* `RecentConnectionStays` (the action property `RecentStays`). `TableInv`: `older` is a
strict total order on the connections, the one of the last packet is its
latest, and the table is within its limit. Eviction takes the oldest by a CHOOSE, which
means nothing unless there is one: `OldestExists`, by induction over the table. The
oldest of at least two is not the latest. Cleanup takes stale connections with
all those seen before them, so with the latest, unless it is CLOSED, everything.

`SumLemmas` has what the counting proofs share. It has lemmas only, none about the program. `StrongSetInduction` and
`SetInduction` take the sets for which a claim holds as a set, `Good`, so that no
operator is passed, and find the smallest set that is not in it by the library's
`WFMin`. `SumIsTotal` and `FoldsByTotal` make of the community modules' folds, which take
elements in the order of a CHOOSE, the size of a set (`Total`), which has no order and
changes by one element at a time.

`CaptureEngineProofs` (`CaptureAssumption`): `EveryPacketIsCounted`, `ProducersLeaveNothing`,
`CaptureTypesCorrect`. `CaptureInv` says where each packet that was captured is, with the
messages and reports of all producers as a `Total`; that the capture thread's three
counters agree with its program counter; that no producer has more in Kafka's buffer
than it may; and `LastLoop`: a producer in its second loop has seen the queue shut
down with `running_` false, and it leaves on an empty queue. `NothingLeftBehind` is not
inductive without it: nothing else says that the queue stays empty. The flush, which
counts the reports of all producers in one step, is a sum of sums (`ReportSums`).

`DashboardProofs` (`GatewayAssumption`, `DashboardAssumption`): `AlertsComeInOrder`, `PageHasOneSocket`,
`DashboardTypesCorrect`. `ConnInv`: a connection whose client is there is active from
the moment it is accepted, and whoever is in the copy a broadcast works on (`targets`) and
still there is active; those found stale are gone. `OrderInv`: what a client that is there
received last is the last alert, or the one before it while this broadcast has
still to come to it. `AlertsInOrder` alone is not inductive: it says nothing of a client
in `targets`. `PageInv`: one run of the effect at most is mounted, only it has a
socket that is not closed, and that is `wsRef`; while it waits for its data, it has neither
timer nor socket.

`SingleThreadProofs` (`SingleThreadAssumption`, `ComparisonAssumption`). About the parser alone, by
arithmetic over the lengths: `HeadersInside`, `SamePayload`. About the tool beside `dpi_mt`:
`DecidesLikeMulti`, `OneAlertPerFlow`, `ReportAddsUp`, `NamesAreWhole`. `Alike` relates what
the two know of a flow between two packets: the same application, name and verdict; a
flow without a name has the application of its port, or none; and `dpi_mt` has stopped
looking exactly when the tool would find nothing more. Lemma `SameClass` has one packet keep
it, and `NameHasApp` that a name never gives UNKNOWN, whichever of the 17 rows of patterns
matches first. `AlertInv` counts alerts against blocked flows for each source, `CountInv` the
packets by flow and by application (sums as `Total`s). `NamesWhole` follows, packet by
packet, from where the extensions of a ClientHello begin: the start of each is a sum of
the lengths before it, so a name that fits into what was captured is there as a whole.
`ComparisonAssumption` says of the packets that a ClientHello states the lengths it has, that
names are not empty, and that they come over TCP (section 5); TLC evaluates it for the
shapes of the run. Of requests it also says that one in which a host is found has more than ten
bytes of payload, which holds by the extractor's loop (`sni_extractor.cpp:168`).

`ProcessingServiceProofs` (`ProcessingAssumption`): `TypeCorrect`, `PacketsCounted`,
`StoredProduced`. The invariant says that two flows of the table never share a
packet (`TableInv`), that the flusher's batch is empty unless it sends, that its
records are disjoint and of different flows (`BatchInv`), that each packet is
in one of five places (`Covered`), before the first crash in one only
(`Separate`), and that records waiting for the database were produced
(`UpsertInv`). Its lemmas `CountedRest` and `HandParts` say what happens to the packets of
a set of records when a part of it is handed over and the rest is lost.

`DetectionServiceProofs` (`DetectionAssumption`): `StoredProduced`, `BlockedAlerted`. The
invariant ties the alerts in hand to the record under check and to the version
its limits are of (`FoundInv`), and says that before the first crash the producer was given alerts of
records taken so far only (`AlertInv`); that is why two versions never meet in one
record. Every step moves an alert on: from the hand to the buffer, from there to the topic,
or to `lost` (`DeliverStep` for the middle of this way).

Only model-checked: liveness (`ReaderFinishes`, `ProcessReturns`, `StopJoins`,
`ShutdownCompletes`, `GoneLeavesActive`, `PageReconnects`), which TLAPS cannot do under
fairness, and the three runs whose property the code violates. What a recursive
definition computes is not proved for every input; the tool's results are proved for whatever
`TLSName` and `HTTPName` are, except `NamesWhole`, for which the proof unfolds the fold
over the extensions. No module declares a RECURSIVE operator.

## 7. Plan

Done in the order planned before: engine, rules, packet service, processing,
detection, gateway, page, parsers, tool, proofs. What is left, most important
first:

1. The sliding window of the rate limiter, with Redis as its state and several
   replicas that read their clocks before they are served.
2. The packet service's health server, whose thread the signal handler joins.
3. Several replicas of the processing service, whose upserts of one flow overwrite
   each other.
4. The statistics thread of the processing service, reading live records.
5. The DNS parser, beside the other two extractors.
6. The demo API's broadcast over a list that changes across its awaits.

## 8. Not modelled

* Printing, logging, JSON text (`json_exporter.h`), the capture file's format
  (`pcap_reader.cpp`): `DPIEngine` takes from it that reading may end anywhere.
* The DNS extractor; the QUIC extractor, which has no caller.
* Where the tool and `dpi_mt` differ by the bytes of one packet: a server name of no
  characters, and UDP payloads that look like TLS or HTTP (section 5). `SingleThread` has none.
* The statistics thread, the cache's contents and the wait for Kafka in the
  processing service, and several replicas of it; the window of the rate limiter; queries and models of the
  database layer; the machine learning stub.
* Health server, logger and parser of the packet service; REST routes and key checks of the gateway (a
  refused key is a step of `Gateway`).
* `wsClient.js` and `poller.js`, which no page starts; pages and components.
* Demo API, launcher, Docker, Kubernetes, start scripts, test data.
* `GlobalConnectionTable`, `printStatus` and the reports: read-only, after `stop`.
* The file system's and sockets' own failures, except where named above.
