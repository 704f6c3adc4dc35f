# FastFlowIPs in TLA+

FastFlowIPs is a daemon of about 1 900 lines: a pair of eBPF classifiers
(`src/flow.c`) counts packets per (source, destination) in an LRU map of the
kernel, and a Go program (`src/main.go`) reads the map on every tick, computes
rates, bans addresses through an operator's script, exports metrics, and keeps
the classifiers attached to the interface. This directory holds a model of its
core, the TLC runs that check it and the theorems TLAPS proves about it.

The repository has no unit tests. What it promises is in `src/README.md`,
`src/SUMMARY.md`, comments, and one shell test (`src/test-selfheal.sh`).

## 1. Inventory

| Component | Code | State | Operations |
|---|---|---|---|
| Flow classifier | `flow.c` 184-340 | `flow_cnt` (LRU hash, 65535) | one packet: look up, add or create |
| Network filter | `flow.c` 86-182, `main.go` 537-688 | prefix hash, LPM trie, bloom words, mask bitmap, count; written once | membership of an address |
| Collector | `main.go` 1027-1204, 1391-1442 | `prevStats`, `lastUpdate`, one pass's `flows` and `currentFlowData` | iterate, retry, rates, aggregate, thresholds, new baseline |
| Bans | `main.go` 380-433, 1206, 1417-1428 | `bannedIPs` under `bannedMu` | ban, expire, run a script |
| Ban scripts | `README.md` 98-106, `example-ban-script.sh` | the firewall | ban, unban |
| tc attachment | `main.go` 184-318, 785-997 | the qdisc and its filters, `filterIngress`/`filterEgress`, `attachMu` | attach, check, re-attach, clean up |
| Metric selection | `main.go` 435-457, 1275-1389 | none | thresholds, names, lines |
| Graphite sender | `main.go` 1444-1485 | `graphiteConn` under `graphiteMu` | connect, write, reset |
| InfluxDB sender | `main.go` 1487-1518 | none | one POST |
| Display, flags, installer | `main.go` 320-378, 459-535, 1213-1273 | none | print, parse, write a unit file |

Goroutines: the main goroutine (attach, then on every tick `ensureAttached`,
`checkExpiredBans`, `processMap`), the link watcher, one goroutine per script
run and one per metrics batch. The classifiers run on every CPU at the same
time as all of them; other programs change the interface's qdisc, and the
service manager restarts the daemon.

What makes each part correct, and hard:

* **Classifier and collector.** The map changes under the iterator: entries are
  evicted, created again with counters from zero, overwritten by a second CPU;
  an eviction under the cursor makes the kernel start the walk again; cilium's
  iterator gives up after `max_entries` + 1 lookups and the pass is retried
  once, then partial. Still no rate may exceed the traffic, a flow that lives
  on must be measured exactly, a pass that ends regularly must have seen every
  flow that was there throughout, and an address over a threshold must be
  banned.
* **Bans.** Expiry and a new ban may fall into one tick, scripts run
  concurrently and unordered, may be slow or fail, and the table does not
  survive the process while the firewall does.
* **tc attachment.** Two goroutines repair; others wipe the qdisc at any moment,
  also in the middle of a repair; handles are 16 bits of a timestamp and
  collide; a conflict is answered by deleting the whole qdisc; the exit path
  takes another lock than the repair path.
* **Network filter.** Two languages have to agree on prefixes, bitmap and bloom
  bits, five maps are filled one call at a time, and unusable networks are
  skipped singly.
* **Senders.** No deadlines, one goroutine per tick, a lock that is not taken at
  exit, a server that comes and goes; three outputs that select by the same
  minimums in three places.

`PROJECT.json` lists every component and every hazard at its line.

## 2. Modules

    NetworkFilter    the filter's maps: filling them, asking them
    Classifier       update_flow on every CPU; implements FlowMap, twice
    FlowMap          flow_cnt and one packet's effect on it, as user space sees it
    Collector        EXTENDS FlowMap: the main goroutine's pass over it
    BanLease         what a ban promises (abstract)
    BanControl       ban table, scripts, firewall, restart; implements BanLease
    TcAttach         interface, qdisc, filters, two attachers, exit
    Exporter         selection of a pass's rates, batches, the Graphite connection

Each module M of these but FlowMap and BanLease has an `MCM` (instances for TLC)
and an `MProofs` (theorems); those two are what the others implement. Collector
has `CollectorBanProofs` besides, about the sums its bans are decided by, on top
of `FoldLemmas`, which is about sums over finite sets and knows nothing of this
program.
How they fit together: `NetworkFilter` shows that the classifier's answer is
exact membership, which is what `IsMonitored` of FlowMap takes it to be.
`Classifier` shows that FlowMap's atomic packets are what its interleaved CPUs
look like in the map. `Collector` runs against FlowMap. Its bans end by an
arbitrary choice; `BanControl` knows when they end, and takes who offends as
arbitrary. `Exporter` takes the rates as arbitrary.

Definitions whose comment starts with "Slip" are plausible mistakes in the
definition that follows. Nothing uses them; each is put in that definition's
place to see that a property notices.

### FlowMap and Collector

`flowMap` is `flow_cnt`. Counters are kept per direction and one number stands
for packets and bytes: Classifier shows that each of the two obeys FlowMap (the
width of the counters does not matter at 64 bits; the 16-bit length of one
packet does, see section 7). `PacketOnKnownFlow` is the hit branch of
`update_flow`. `PacketOnNewFlow` is the miss branch; the key may be present all
the same, because `bpf_map_update_elem(BPF_ANY)` overwrites what another CPU
inserted after this one's lookup. The LRU may drop any set of other entries
then, and has to drop one when the map is full. A new entry has a direction the
two hooks can give its flow; an addition to an entry that is there may have
either, since Classifier's CPUs add packets of other flows to an element that is
recycled under their pointer. `Strayed` are the flows that got such a packet on
a side which is not theirs.

The pass is split where the map can change: `AdvanceCursor` (get-next-key) and
`VisitEntry` or `VisitMiss` (lookup). Everything else of the loop body touches
local data and `prevStats`, which only this goroutine uses, and is part of
`VisitEntry`. The kernel walks bucket by bucket and along the list of each:
`Bucket` is the hash, `ahead` the order within the lists, and `PutAtHead` what an
insertion does to it. A key that is created again, or overwritten while it is
there, becomes the head of its bucket, also when the iterator stands on it: then
the rest of that bucket is walked again. `KeysAfter` is the kernel's rule that a
cursor which is gone starts the whole walk again. `RetryAborted`,
`SettleForPartial`, `IterationError` and `EndOfMap` are the ways out of the
iteration, `Commit` is the rest of `processMap`: bans, baseline, cleanup.
`deltaTime` is common to all rates of a pass, so rates and thresholds are in
packets per pass; its `<= 0` return cannot be taken with a monotonic clock.

Expiry is part of `Tick` as an arbitrary subset of the bans: how long one lasts
is the matter of BanControl.

The variables `credited`, `lastCredited`, `curCredited`, `prevIntact`,
`curIntact` and `stable`, and the `credit` and `exact` fields of an entry, are
history: no guard of the collector reads them (`MaxCredit`,
`MaxStrays` and `MaxPackets` bound `credited`).

### Classifier

`elem` are the preallocated elements of the LRU hash, `buckets` says which of
them is the entry of which key, `cpu` where each CPU is. `LookupHit` leaves a
CPU with a pointer to an element; `AddPacket` and `AddBytes` are the two
`__sync_fetch_and_add`, which go to whatever the element is by then. `Insert` is
`bpf_map_update_elem`, one step: an element is taken from the LRU's victims or
from the free ones, filled and hashed in, and an entry another CPU made for the
key meanwhile is replaced. (In the kernel filling and hashing in are apart; an
addition that falls between them is one that came before, and is cleared, or
one that came after.) `disturbed` is history: the elements that changed hands
while some CPU pointed at them. `PacketMap` and `ByteMap` are the refinement
mappings. An addition to an element that is nobody's entry is a stutter, one to
another key's entry a packet of that key.

### NetworkFilter

Addresses are numbers of a few bits, a network is what `net.ParseCIDR` returns
(its address masked; IPv4-mapped networks have a 16-byte mask and are skipped).
`Entries`, `Entries6`, `MaskBitmap` and `BloomOf` are `buildNetworkFilterData`,
the `Put` actions `populateNetworksMap` in its order, with the entries in any
order and any Put failing, which is fatal: the classifiers are attached only in
phase `"attached"`, and the maps never change afterwards. `IsIPMonitored` and
`IsIP6Monitored` are the C side. The bloom hash is any pair of functions.

### BanControl and BanLease

The program stores when a ban began and compares the time since then with
`BanTime`; the model keeps that time, the ban's age, and follows it up to
`BanTime`, beyond which nothing depends on it. (The cap is the model's own, and
no property is about it.) `CheckExpiredBans` and
`BanOffenders` are the two critical sections of a tick, in this order; which
addresses offend is arbitrary. Every launch adds a job. With `Script =
"counting"` a job is one step (`-I` adds a rule, `-D` removes one: the script of
`README.md`), with `"checking"` it is two (`-C`, then `-A` or `-D`:
`example-ban-script.sh`), and jobs interleave freely. `Prompt` says that
scripts end before the next unit of time. `Stop` covers signals, crashes and
service restarts: the table is lost, running scripts may or may not die with
their parent, the firewall stays. A restarted daemon therefore never removes the
rules of its earlier life, unless it bans their addresses again; no line of
documentation promises that it would.

`BanLease` has leases in place of the table and the set of blocked addresses in
place of rules, and no scripts. `Lease` in BanControl maps `bannedIPs` to the
leases and the addresses with a rule to the blocked ones.

### TcAttach

Attaching is followed step by step (`qdisc`, `ingress`, `egress`, `publish`),
since others may act between any two netlink calls. `CheckIngress`/`CheckEgress`
are the two `hasFilter` calls, with `FilterList` failing at will.
`AddFilterConflicts` is the branch for "file exists" as a whole: the filters
`cleanupExistingFilters` lists are those of a nil link (none), the deletions by
known handle carry priority 0 and are refused, so `tc qdisc del` runs, and the
second `FilterAdd` finds no qdisc and fails. The next tick repairs it.
A filter remembers which life of the daemon added it. A new filter goes in
front; the classifiers end with `TC_ACT_OK`, so only the first one counts.
At startup nothing is checked and no lock taken, and failure is fatal.
`FindLink` is `LinkByName`, before the wait for `attachMu`. `RemoveInterface`
takes qdisc and filters along, and whoever holds the index of the old interface
(an attacher, or the remembered pair) is in `stale` until it looks again; its
calls find nothing. A new process has no index to be stale: `Restart` empties
`stale`. `WipeQdisc` is also what `-cleanup-only` does.
The deferred cleanup reads the pair, then deletes one filter after the other.

### Exporter

A pass has one row, the rates of a flow or of an address: rows are selected one
by one. `Meets` is `meetsFlowThresholds` and `meetsIPThresholds`,
`GraphiteLines` and `InfluxLines` are the series the two generators append,
`Displayed` is the display's test. A rate of exactly the minimum is exported,
where `src/README.md` 74-75 says "Only export flows > 10 PPS" and "Only export
IPs > 5 PPS"; `ExportsAgree` asks nothing about that one value. `Lock`, `Check`, `DialSucceeds`,
`DialFails` and the `Write` actions are `sendGraphiteBatch`, cut where others
can interfere: the server, which stops (`"down"`), stops reading (`"hung"`) or
closes connections, and the exit path. A socket whose peer has closed takes one
more write (`"half"`) before it fails (`"dead"`). `FindConnAtExit` and
`CloseAtExit` are the two uses of `graphiteConn` in the deferred cleanup, which
takes no mutex; the second may see another value if it is compiled to read
again. If that is nil, `Close` is called on it and `pc` becomes `"panicked"`, in
which the process ends as well. `src/SUMMARY.md` 9 says "Fixed Graphite
connection race conditions preventing crashes"; this one is left.
`CrashNeedsFault` says what it takes: without a fault of the server or of a
connection nothing resets `graphiteConn` between the two reads.

## 3. Runs

| Run | Result | What it shows |
|---|---|---|
| `collector_crossing` | passes | no over-report, exact measurement, complete passes, rx is what was received, bans that match traffic, no missed ban |
| `collector_duplicates` | violated | a restart of the iterator makes an address's sum count flows twice: banned without the traffic |
| `collector_sender_banned` | violated | without `-networks` a sender is banned by the receive threshold |
| `ban_prompt` | passes | prompt scripts: BanControl implements BanLease, bans end, nothing is left behind |
| `ban_checked` | passes | checking script, failures and a restart: launches alternate, never two rules; without failure or restart no rule is left of a ban that ended |
| `ban_renewed` | violated | expiry and new ban in one tick: the banned address ends up without a rule |
| `tc_heals` | passes | mutual exclusion, no stacking after whole losses, the right pair, and recovery |
| `tc_partial_loss` | violated | losing one filter of two stacks the other |
| `tc_exit_race` | violated | the watcher attaches during the exit cleanup |
| `network_filter` | passes | the filter answers what the list says; kernel and user space agree whether there is one |
| `classifier` | passes | racing CPUs implement FlowMap; only recycled elements are charged wrongly |
| `exporter` | passes | outputs agree, no leaked connection, no write to a nil one, a crash at exit only after a fault, senders end, delivery resumes |

The violated runs are disagreements between the code and its documentation;
`PROJECT.json` quotes the lines under "findings".

**Bounds.** Collector: three flows between one monitored and two other
addresses in a map for two entries, so that the map is over-full; two of them in
one bucket, so that an overwrite moves entries; five packets, at most two per
flow and direction and one of them a stray, so that a counter can be at, below
and above a baseline and a threshold of 1 can be exceeded by one flow or only by
the sum of two. The map size is also the iterator's limit, so aborts and both
attempts happen. Passes are not bounded: the packets end, the passes go on.
(1.5 million states. The two violated runs need neither strays nor a shared
bucket.)
Classifier: three flows, two elements, two CPUs, two packets per flow: every
insertion of a third flow recycles an element, possibly under a pointer, twice.
NetworkFilter: all lists of up to two networks over 3-bit IPv4 and 2-bit IPv6
addresses, /0 and mapped ones included, and four bloom bits for fourteen
prefixes, so that false positives are the rule. BanControl: two addresses, ban
times of 1 or 2 units, 3 or 5 launches per address (a ban, its end, and at least
one more ban), one restart, one failing script. TcAttach: two handles, so that
they collide, two changes by others, two lives, one failing list and one failing
add. Exporter: rates 0 and 2 against minimums of 1, 2 and 3 (exceeded by one
direction, reached exactly, or reached by both together only), two batches per
backend, two connections, so
that a leaked one shows, and two faults. `MaxCredit`, `MaxStrays`,
`MaxPackets`, `MaxLaunches`,
`MaxRestarts`, `MaxFailures`, `MaxChanges`, `MaxLives`, `MaxListErrors`,
`MaxAddErrors`, `MaxFaults`, `MaxNets`, `Batches` and `Conns` are bounds of the
models and not of the program.

**Symmetry** of the two addresses is used in `ban_checked` only, which checks
invariants and no liveness.

**Deadlock** is not checked for TcAttach, whose daemon stops for good after an
exit or a fatal start once the bound on lives is reached; for Exporter, whose
process exits; and for Classifier, where the packets of `MaxCredit` run out.

**Fairness.** BanControl: time passes, the ticker fires, a script that was
started ends, a stopped service is started again (`Restart=always`); nothing
obliges anyone to offend. `MaxLaunches` is also what ends the offences in
`EventuallyUnblocked`. TcAttach: the ticker fires (`FindLink("main")`), whoever
waits for `attachMu` gets it in the end, a goroutine that is attaching goes on,
the exit path runs to its end, the service is started again when the interface
is there. The watcher is owed no link update, which is the point of the periodic
check. Exporter: main goes on with a pass, whoever waits for `graphiteMu` gets
it, and a sender goes on unless the server does not read: `WriteBuffered` and
`PostEnds` have no fairness, as neither call has a deadline. `SendersEnd` has
the premise that the server does not hang for good; while it does, batches
pile up. The lock actions have strong fairness, since others take the mutex
in between: `sync.Mutex` hands it to the longest waiter once one has waited a
millisecond.

## 4. Proofs

tlapm checks every leaf; nothing is assumed but the named ASSUMEs on the
constants in the modules, which TLC evaluates in the runs.

`CollectorProofs`, for any flows, hash buckets, map size, bounds and thresholds:

* `TypeCorrect`: `TypeOK`, with the iterator's `max_entries` + 1 visits.
* `OverReportFree`, `IntactMeasuredExactly`. Neither property is inductive: it
  speaks of entries already computed. `AccountInv` adds that every sample,
  compared with the counter now in the map, accounts for the packets credited
  since: with equality if the entry lived on (`Accounted` for keys that are
  intact), as an upper bound if it was created again. It is needed twice, for
  the previous pass's samples (`prevStats`) and for those being taken
  (`current`), as `Commit` turns the second into the first; and `MapBound`, that
  a counter never exceeds all its credit.
* `PassIsComplete`. `PassInv` says that the stable keys up to the cursor are in
  the result, in the order of the walk (`OrderInv`: each bucket is a list). A
  restart, or an overwrite of the key under the cursor, only moves the cursor
  back, as new entries go to the head; a stable key never moves at all.

`FoldLemmas` makes sums provable. The community modules define them by folds,
hence by recursion, and the library's induction rules cannot be instantiated;
but a false lemma about finite sets would have a smallest counterexample
(`SmallestBadSubset`, from the well-foundedness of the subset order), and that
one can be refuted. `SumUnfold` and `SumType` come of it, and `SumCompare`: if
every index of one sum that counts has an index of its own in another with at
least as much, the first sum is no larger.

`CollectorBanProofs`, for any flows, buckets, map size, bounds and thresholds. A
ban compares a sum over the entries of a pass with the traffic, a sum over flows;
`SumCompare` needs to know which entry goes with which flow:

* `BansMatchTraffic` (`BanMatchesTraffic`) and `NoBanMissed` (`NoMissedBan`).
  `SampleInv`: an entry claims no more than its flow was credited, and every
  flow that was sampled has an entry for its latest sample, exact if it lived
  on. Read from entries to flows it bounds the sums from above, the other way
  from below.
* `RxIsReceived` (`RxMeansReceived`). `OneSided`: a flow between a monitored and
  an unmonitored address has zeros in one direction, in the map, in both
  samples and in every entry, until a packet strays there. Exempt are therefore
  the addresses whose own flows got strays, and those with a monitored peer.
* `WrongBansNeedLostCursor` and `RxBansReceivers` are the other side of two runs
  that end in a violation. `BanOnlyOverThreshold` holds of every behaviour in
  which the entry under the cursor is neither evicted nor replaced by a racing
  insertion of its key (`CursorStays`): then every entry listed lies behind the
  cursor (`InOrder`) and no flow is listed twice (`NoFlowTwice`). The run shows
  the eviction; a replacement has the same effect within one bucket.
  `RxBanMeansReceiving` holds if no flow has two monitored ends and nothing has
  strayed. The theorems give conditions under which the promises are kept. They
  do not say that only what the two runs exhibit can break them: replaced entries
  and strays can as well.

`ClassifierProofs`, for any CPUs, elements and flows:

* `TypeCorrect`, with "no element is the entry of two keys", on which the rest
  leans.
* `PacketRefinement`, `ByteRefinement`: step simulation. An `Insert` is a
  `CreateFlow`; that FlowMap demands a victim when the map is full follows by
  counting elements (`FullMapDrops`). An addition is an `AddToFlow` of the
  element's owner or a stutter (`AddPacketAdds`, `AddBytesAdds`).
* `RecyclingIsTheOnlyError` (`ExactUnlessDisturbed`), which is inductive with
  `TypeOK`: a pointer to an undisturbed element belongs to the element's key,
  and packets are ahead of bytes by the CPUs between the two additions.

`NetworkFilterProofs`, for any widths, hashes and lists:

* `TypeCorrect` (`TypeOK`): at every moment the maps hold prefixes, lengths and
  bits that the list asks for and nothing else (`ListedPrefixes` reads the list
  for itself; `EntriesAreListed` ties `buildNetworkFilterData`'s result to it).
* `ModesInAgreement` (`ModesAgree`), `FilterIsExact` (`FilterExact`). `LoadInv` says what the maps hold after each phase; the bloom
  filter is complete after its last word because every bit is in some word
  (`WordsCoverBits`), so it has no false negatives, and the hash behind it makes
  false positives harmless. `BlockAssumption` states that 2^n is a positive
  number, which the provers do not know of exponentiation.

`BanControlProofs`, for any addresses, ban time, and bounds:

* `TypeCorrect` and `TableIsLaunched` (`LaunchesAlternate`), for scripts of
  any kind and speed, with restarts and failures.
* `RulesFollowTable` (`RulesMatch`), `BansAreLeases` (`ImplementsLease`) and
  `AgedBansBlock` (BanLease's `Enforced`), under `PromptScripts`: the script of
  the README, scripts that end before the next unit of time and do not fail, a
  positive ban time, no restart. `JobInv`: at most one ban job and one unban
  job of an address are under way, only while its ban is new. With it every
  step is one of BanLease's or a stutter. The assumptions are needed: without
  promptness an unban overtakes its ban, and a restart forgets the table.
* `CountedBansBlock` (`BannedMeansBlocked`), of them: under `PromptScripts` the
  ban that the run `ban_renewed` loses with the checking script is kept.
* `CheckedRulesAreSingle` (`SingleRule`), under `PromptChecking`: the checking
  script and prompt scripts, but any failures and restarts. `CheckInv`: a ban
  job that has looked and not yet acted finds no rule, and there is one such job
  at most.
* `CheckedRulesAreLifted` (`NoRuleLeft`), likewise, from `LiftInv`: a rule of an
  address that is not banned has an unban under way, or a script failed, or the
  daemon restarted. So of the two orders in which an unban and the next ban can
  meet, the bad one loses a rule and none leaves one.

`TcAttachProofs`, for any handles, lives, failures and changes by others:

* `AttachersExclude` (`OneAttacher`), from `LockInv`: the first attachment of a
  life takes no lock, but the watcher does not exist yet; all later ones hold
  `attachMu`.
* `TypeCorrect`.
* `WipesDoNotStack` (`NoDuplicatesAfterWipes`) and `RememberedPairIsCurrent`
  (`PairIsCurrent`). `StackInv` follows one attachment through its steps
  (`Stage`): nothing of its own at the start, one ingress filter or no qdisc in
  the middle; between attachments (`Settled`) both hooks have the pair or
  nothing is attached at all. It needs `LockInv`, as a second attacher would
  break it.
* `QuietExitIsClean`: under that proviso `CleanExit` holds of every behaviour in
  which the watcher has nothing under way during the cleanup (`WatcherQuiet`), so
  the daemon of the run `tc_exit_race` would have left nothing without its
  watcher's attachment.
  `ExitInv` hands the pair from `Settled` to the cleanup; `HandlesDiffer`, that
  the kernel has a handle once per hook, makes sure that the filter deleted is
  this life's and not a leftover. `ExitWithoutWatcherIsClean`: that is every
  behaviour if the link subscription failed.

`ExporterProofs`, for any batches, connections, rates, minimums and faults:

* `TypeCorrect`; `NoConnectionLeaks` (`OneConnection`) and `ConnectionStays`
  (`NoNilWrite`), from `SenderInv`: a sender past `Lock` holds the mutex, and
  while one dials `graphiteConn` is nil. The exit path ignores the mutex but
  does not assign to `graphiteConn`.
* `CrashAtExitNeedsFault` (`CrashNeedsFault`), from `FaultInv`: without a fault
  no write fails, so whatever connection the exit path has found stays.
* `ExportsInAgreement` (`ExportsAgree`), from `LinesInv`.

Only model-checked: liveness (`BanEnds`, `EventuallyUnblocked`,
`EventuallyCollecting`, `SendersEnd`, `DeliveryResumes`), which is out of the
prover's reach. Every safety property of the passing runs has a theorem, and
every violated one has a theorem that says when it does hold: `WipesDoNotStack` for
`NoDuplicates`, and those named above.

The theorems about sums need `FiniteAssumption` of Collector: there are finitely
many flows, as an address has at most 128 bits.

## 5. What is left, in order

1. **Daemon**: Collector with BanControl's table in place of the abstract
   expiry, one tick of `ensureAttached`, `checkExpiredBans`, `processMap`, where
   a hanging netlink call delays the end of bans.
2. An abstract meter (traffic credited, rates reported, never more) which
   Collector implements.
3. Removal of single filters by others, to see how `hasFilter` by name takes an
   old life's filter for its own (`main.go` 865).

## 6. Reading order

`FlowMap`, `Classifier`, `NetworkFilter`; `Collector` (actions, then the
properties at its end) and the comments of `CollectorProofs` and
`CollectorBanProofs`; `BanLease`,
`BanControl`; `TcAttach`; `Exporter`.

## 7. Not modelled, and why

* Parsing of frames and `last_seen`, which nothing reads; the length of a
  packet is one unit, and so is the wrap of the 16-bit IPv6 length left out; the
  Mbps thresholds of bans, which are the same comparison on bytes.
* The flags `src_monitored` and `dst_monitored` of an entry are those of its
  key: the filter never changes after start. An element recycled under a pointer
  has wrong ones until its next packet, and a pass in between sums its rates to
  the wrong ends; Collector has the stray packets but not these flags.
* A finding of its own for the nil panic at exit (`main.go` 993-994, against
  `src/SUMMARY.md` 9): it happens only in a build that reads `graphiteConn`
  twice there. The model has it (`"panicked"`), and `CrashNeedsFault` bounds it.
* `unbanIP`, which nothing calls.
* The ban of an address under its textual form, metric names, tags and number
  formats, layout and order of the display. Two passes within one second, which
  an `-interval` below 1 s makes, bear the same timestamp.
* The state a restart leaves in the firewall is in BanControl, but no property
  speaks of it: nothing is promised.
* Failure of `LinkSubscribe` beyond a watcher that stays silent, and the sleeps
  between its attempts.
* Flags, installer, build and demo scripts: sequential I/O without state of
  their own.
