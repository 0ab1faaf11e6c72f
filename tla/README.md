# TransferQueue: a verification project

TransferQueue buffers trajectories of rollouts between the workers that produce
them and the trainers that consume them. Trajectories of one instance are
collected into a group; a group that is full is *ready*, and a reader takes
ready groups and thereby deletes them. The server runs on Seastar: one shard per
core, no locks, and futures wherever a call waits. When a shard's memory is
short it spills complete groups to disk.

This directory holds TLA+ models of the server's core, the TLC runs that check
them on small instances, and proofs that TLAPS checks for all values of the
constants. `PROJECT.json` lists runs, mutants, the source lines each definition
models, hazards, findings and theorems. Paths below are relative to the
repository's root.

In short: the filter, the disk, a shard, the manager over the shards, the server
around them and the client are modelled, each as every interleaving of the pieces
its continuations consist of. Twelve runs check them. Eight proof modules prove every
safety property and every refinement that the passing runs check, for every value of the
constants and under the assumptions section 4 names; liveness is left to TLC.

## 1. Inventory

| Component | State | Operations | Talks to |
|---|---|---|---|
| `DedupFilter` (`src/server/dedup_filter.cc`) | LRU list, map of iterators, bloom bits | `contains`, `insert`, `clear`; inside: eviction, rebuild | called by its shard, synchronously |
| `DiskStorage` (`src/server/disk_storage.cc`) | `initialized_`, a directory of files, an id counter shared by all cores | `init`, `shutdown`, `spill(_batch)`, `load(_batch)`, `remove` | called by its shard; waits for the file system between any two of its steps |
| `BufferShard` (`src/server/buffer_shard.cc`) | `groups_` (instance to entry: a group in memory, or an offset on disk), filter, storage, three counters | `write`, `batch_write`, `read_ready_groups`, `delete_instance`, `reset`, `check_group_timeouts`, `update_config`, `has_ready_groups`, `get_status`, `get_meta_info` | called by `BufferManager` through cross-core messages; calls filter and storage |
| `BufferManager` (`src/server/buffer_manager.cc`) | the configuration, the sharded service | `write`, `batch_write`, `read_ready_groups`, the blocking read, `has_ready_groups`, `delete_instance`, `reset`, `get_status`, `update_config` | one per process, used from every core; sends messages to the shards and merges their answers |
| `RpcHandler` (`src/server/rpc_handler.cc`) | RPC server | BatchWrite, BatchRead, GetStatus, Subscribe (a loop of blocking reads and sends), `stop` | one per core, calls `BufferManager` |
| Client (`src/client/client.cc`) | `connected_`, `streaming_active_`, the receiving task | `connect`, `close`, `batch_write`, `batch_read`, `get_status`, `subscribe`, `unsubscribe`, its destructor | RPC |
| `HttpHandler` (`src/server/http_handler.cc`) | none | five routes, each one call of `BufferManager` | `BufferManager` |
| `Metrics` (`src/server/metrics.cc`) | none of its own | four gauges | reads a shard's counters |
| Server process (`src/server/main.cc`) | the services | start and stop in order | all |

What is hard about it:

* **Interleaving at every future.** There are no threads within a core, but a
  write that spills, a read that loads, and a reset that removes files each give
  up the core in the middle, with keys, offsets and moved-out groups captured in
  continuations. What they find when they go on is whatever other calls left.
* **One entry, three meanings.** An entry with a group, with an offset, or with
  neither (its group moved out by a reader); `is_complete()` and `is_on_disk()`
  guess which from two fields.
* **Sweeps.** A call on all shards is as many messages, handled at different times
  with other calls in between; the configuration is read by all cores without
  synchronisation while it is stored field by field.
* **Connections.** A read is destructive and its answer may never arrive, and the sink
  of a stream tells of an error one call late; flags of the client are read after waits
  in which anything may have changed them.
* **Futures that are ready.** A loop whose future is ready runs on at once: a callback may
  be called before the statement that starts the loop has assigned its result.
* **Partial failure.** Any file operation can fail in the middle of a batch.
* **Numbers.** Sizes are unsigned, ids are sums of a clock and a counter, the
  filter works at its capacity, a selection stops at a mark.
* **Nothing is persistent.** Files outlive the process, but nothing reads them
  back: a restart only matters in that file names may already be taken.

What makes each component correct:

* `DedupFilter`: a uid is a duplicate exactly within a window of the last
  `max_size_` different uids; list, map and bloom bits agree.
* `DiskStorage`: an id is never given out twice, and a load by an id gets the
  group spilled under it or fails.
* `BufferShard`: it is a queue of groups. No trajectory is lost, handed out
  twice or handed out before its group is ready; spilling is invisible; counters
  balance; spilling reaches its mark and stops there.
* `BufferManager`: a sweep over the shards misses nothing that was there when it
  began, an answered batch is stored, all shards end up with the latest
  configuration, and every call is answered.
* Server: what was read for a peer reaches it in order while its connection holds;
  the manager outlives everyone who calls it; the server stops.
* Client: one task receives, until it is asked to stop, and stops then; no null
  connection and no dead member is touched.

The hazards that follow from this are in `PROJECT.json`, each at its line.

## 2. The modules

    DedupFilter ---- implements ---> DedupSet  <--- used by ---+
    DiskStorage ---- implements ---> SpillStore <- implemented by what
    BufferShard (steps of all calls) ------------- BufferShard does
    ShardRegimes (BufferShard under disciplines of its callers)
                ---- implements ---> ShardQueue (GroupQueue and its books)
    BufferManager (messages of all calls) over a GroupQueue per shard
    Server (main, handlers, connections) over ready groups
    Client (connection, subscription)

Specification, abstraction and theorems of a component are modules of their own: the
theorems about `M` are in `MProofs`. `SumProofs` has what they need about sums. The `MC*`
modules give constants their values for TLC.

### DedupSet, DedupFilter

`DedupFilter` has the list, the map and the bits of the class. The map is the
set of its keys: an iterator is the node holding the uid, and that there is
exactly one such node is the invariant `ListMapAgree`, not an assumption. The bit
vector is the set of positions that are set. The two hash functions are constant
functions, combined as in the code: `((h1 + i * h2) % 2^w) % m`. One action per
way through `insert`, one for `clear`. `contains` is an operator, as it changes
nothing. `clock` and `last` are history variables: when each uid was last
inserted. They let `WindowExact` state the deduplication window with no mention
of list or map.

`DedupSet` is what the shard needs to know: a bounded set of uids that forgets
some other uid when it overflows. `DedupFilter` implements it, and `BufferShard`
instantiates it, so the shard is checked for every eviction order.

### SpillStore, DiskStorage

`DiskStorage` splits each call where it waits: naming a file, opening
(truncating) it, writing, closing; opening, reading. `content` maps an id to what
was written and outlives the name in `dir`, because a load that has the file open
goes on after it was unlinked. `dma_write` may write less than asked, and nobody
looks; then a load fails at its two length checks (`Whole`). Ids are
`clock + counter`; time may stand still (`Tick` is optional) and other cores take
numbers from the same counter (`OtherCore`). At the start the directory may hold
files of an earlier life under names the clock is about to reach, or the path may
be a file. Callers load only ids that `spill_batch` has returned, each once per
batch, as `BufferShard` does.

`SpillStore` is a map from fresh ids to groups. `DiskStorage` implements it
(`ImplementsSpillStore`), and what `BufferShard` does to its files is a behaviour
of it too (`SpillsToStore`): `BufferShard` relies on no more of `DiskStorage`
than the store gives. Where `DiskStorage` counts ids by clock and counter,
`BufferShard` numbers them 1, 2, ...: it compares ids and never computes
with them.

### BufferShard

| Model | Code |
|---|---|
| `groups` | `groups_`: an entry is `group_ptr` (or `NoGroup`), `disk_offset`, `cached_size`, `cached_bytes` |
| `dedup_filter` | `dedup_filter_`, as the set of `DedupSet` |
| `config` | `group_size` and `uid_dedup` of `*config_`; thresholds are constants |
| `total_trajectories`, `total_consumed`, `disk_usage_bytes` | the counters, split by instance; the counter of the code is the sum |
| `files`, `last_id`, `unlinking` | the storage: files by id, the latest id, removals that `delete_instance` has started and nobody waits for |
| `ops[t]` | what the pending continuation of call `t` has captured |
| `crashed` | the process has died: a null group was followed, or `get()` was called outside a thread on a future that is not ready |
| `stored`, `acked`, `out`, `gone`, `read_failed` | history, for properties |

One action is what runs between two waits:

* `write`: `WriteDuplicate`, `WriteOnDisk`, `WriteInMemory` return at once;
  `WriteSpills` waits for `spill_batch` with copies of the chosen groups, and goes
  on with `SpillFile` (one file), `SpillFails`, `SpillDone`. `SpillDone` works on
  the entries the keys have *then*.
* `batch_write` writes one trajectory after the other without giving up the core:
  while `ops[t].kind = "batch"` only `t` runs (`Core`). A write that spills there
  is `WriteAborts`.
* `read_ready_groups`: `ReadScan` moves groups out of memory and notes offsets,
  `ReadLoad`, `ReadMerge`, `ReadRemove`, `ReadErase`; the failures `ReadLoadFails`,
  `ReadRemoveFails`; and `ReadNull`, the scan that meets an entry with neither
  group nor offset.
* `delete_instance` and, later, `Unlink`; `reset`, `ResetRemove`, `ResetFails`;
  `check_group_timeouts`; `UpdateConfig`.

The steps of a read are separate also where everything it waits for is ready. Seastar
runs most of these through and only documents that it may defer there, so some
behaviours of the model need such a deferral; no property is refuted by it alone (section 5).

The order in which an `unordered_map` is enumerated is free: `SpillChoices` and
`Scans` are the sets of keys that some order yields. `reset` gives `do_for_each` a
vector that dies when `reset` returns; after the first removal, an offset read
from it is what it was, another file's, or none: all three are outcomes of
`ResetRemove` and `ResetFails`.

Abstracted: a trajectory is its uid, a byte count is a count of trajectories, the
message contents are gone; `created_time` is gone, so any incomplete group may be
the one that is old enough; rewards and averages are left out. `start()` has
succeeded and `stop()` has not been called, so the storage is initialized.
A read that finds nothing ready changes nothing and is left out. `max_memory_bytes`
and the spill threshold do not change.

### ShardRegimes

The class checks nothing about how its calls overlap. Three disciplines of the
callers make three specifications, and for each the module says what it buys:

* *serial*: no call starts while another is pending. The shard implements
  `ShardQueue`; counters balance; spills are exact. Of the causes of a crash only two
  are left (`CrashCausesAlone`): a batch that meets a spill, and a scan after a read has failed.
* *writers*: writes overlap, also in their spills, but not with other calls, and
  nobody writes to a complete group. Still `ShardQueue`.
* *readers*: reads, deletes, resets and writes overlap, spills overlap nothing.
  Nothing is delivered twice (though a failing read may lose what it took).

With no discipline at all, the invariants of `BufferShard` hold, and `ShardQueue`
does not: section 5.

`GroupQueue` says what may happen to groups (they collect, are handed over, expire, are
discarded), not when: `BufferManager` and `ShardQueue` build on it. `ShardQueue` is the
promise of one shard. It keeps books: what an instance has been accepted for
and what of it was deleted. A group leaves with a reader, with the delete
of its instance, which enters it in `gone`, or with all others in a reset, which closes the
books. So a shard that drops a group on the side, as one whose spills overlap might,
implements it no more: the deletion would be missing from `gone`.

The refinement mapping (`GroupOf`) says what an entry stands for: the group in
the reader's hands, else the group in memory, else the group in its file; `accepted` is
`total_trajectories`, by instance.

No property but that of `stale_spill` sees a spill that completes late: the entry it
leaves owns an offset only (`EntryExclusive`) that leads to a group of its own instance
(`OffsetsMatch`), and `readers` excludes it.

### BufferManager

| Model | Code |
|---|---|
| `held`, `out` | the groups of all shards, as one `GroupQueue`: an instance lives on the shard `shard_for` names, so the shards share nothing |
| `seen`, `totals` | each shard's dedup filter and its two counters |
| `versions`, `settled` | `config_`, which all shards read through a pointer: every value it has had, and the oldest one a shard may still read |
| `calls[t]` | the futures of call `t`: shards yet to answer, and what the others have answered |
| `written`, `stored`, `losers`, `owed`, `overtaken` | history, for properties and one bound |

Each call is split into its messages: the request, one step per shard in any order,
and the step that merges the answers. `write` and `delete_instance` are one message
and one action. A shard's part of a batch is written without interruption (`Busy`,
`CoreFree`). `ReadShard` applies the limit per shard, `ReadDone` cuts the merged list:
which shards lose groups by it is in `losers`. The blocking read is `ProbeShard`
rounds, and `ProbeDone`, which goes on to read or sleeps; `Deadline` may come at any
moment.

`update_config` stores `group_size`, then (`StoreDedup`) `uid_dedup`, and then tells the
shards. The stores race with reads on other cores. A shard may see, for each field on its
own, any value from the last one it has been told of to the latest (`SizesSeen`,
`DedupsSeen`); the message, not the pointer in it, is what makes the shard's core see
what was stored before (`ConfigShard`). That two updates are stored one after the
other is not assumed: their fields interleave. They do run on different cores in the
code, so two stores of one field race as well; `versions` takes them in one order.

What a shard does with one message is one step, as `GroupQueue` promises of a shard
whose calls do not wait: nothing is spilled in this module. The filter remembers every
uid. Of the configuration only the two fields that writes read are kept.

### Server

| Model | Code |
|---|---|
| `started`, `stopped`, `closing`, `signalled` | how far `main()` is; the order of services is `Starts`, `Stops` |
| `fresh`, `ready` | what is left of the queue: groups not yet complete, and those a read may take |
| `conn[p]`, `wire[p]` | a peer's connection and what is on it; `broken` is a connection whose end the server has not seen yet |
| `handler[p]` | what the handler of the peer's request has captured |
| `taken`, `received`, `wasted` | history: read for the peer, arrived, read for it after its sink had failed |

A peer has one request at a time. Each handler of `RpcHandler` and `HttpHandler` is an
action that captures the request, one that does what the manager does (`ReadOnce`,
`Write`, `Discard`, `Query`), and `Answer`. Blocking reads are `ReadOnce` too: by the time
it runs, something was found or the deadline has passed. The loop of `handle_subscribe`
is `Refill`, `Send` once per group, and `SendFails`; nothing else ends it. A send
returns before anything is transmitted: the sink takes the group whatever the state of the
connection, gets to know later what came of it (`SendSettles`), keeps an error and throws it
at the next call. What the loop sends or reads until then is lost without a word. The limit
on what a sink takes before it makes the loop wait is left out. A read may get
fewer groups than are ready, and may cost groups beyond its limit, as
`BufferManager` shows. Requests that do not parse change nothing. The DELETE route's
handler of exceptions moves from a `rep` that was moved already
(`src/server/http_handler.cc:133`); the order in which the two moves happen does not
matter as `delete_instance` does not fail.

External, as this repository has no source of it: the network; that `rpc::server::stop()`
closes connections under their handlers and waits for them, that `http_server::stop()`
waits for handlers; and the sink, as just described (`Sink`, `SendSettles`). That a sink
must be closed before it is destroyed is not modelled.

### Client

| Model | Code |
|---|---|
| `connected`, `active`, `task` | `connected_` (and `rpc_client_`, null just when it is false), `streaming_active_`, `streaming_task_` (of a task that receives, ready, or taken out) |
| `opening` | the subscription whose loop has been started inside `subscribe()` while `streaming_task_` is not assigned yet |
| `subs[s]` | where the continuation of a subscription is: `sink` (waits for `make_stream_sink`), `rpc` (for the answer to SUBSCRIBE), `source` (its task waits for a message), `callback` |
| `unsubs[u]`, `calls` | pending `unsubscribe()` calls with the task they wait for; calls with one answer |
| `alive`, `crashed` | the object has been destroyed; a null pointer was followed or a dead member used |
| `misused`, `quiet` | history |

The program may call anything at any time, also `unsubscribe()` from within its callback
(`from`). `SourceArrives` sets the flag and starts the loop, which may then receive messages
and call callbacks; `TaskStored` assigns its future when the loop waits or has
ended. In between nothing runs but the loop and what its callback calls (`Resumes`,
`Runs`). An `unsubscribe()` there finds the flag without a task (`UnsubscribeEarly`). A subscription that is opened notes whether its connection has been closed
since (`stale`). The client does not guard against calls that overlap; `misused` is
set when `subscribe()` or `unsubscribe()` starts while another of them is under way,
`close()` while one is opening, the destructor while a subscription is active, or when a
callback waits for `unsubscribe()`. Nothing is excluded from the behaviours; the
properties that need it say `~misused`, and each of them fails without. What TLC finds
then: two receiving tasks of which only one can be ended, a SUBSCRIBE on a null
client or on another connection than its sink is of (`stale`), a task that writes to a dead object.

## 3. The runs

| Run | Specification | Checks | Distinct states |
|---|---|---|---|
| `dedup` | `DedupFilter` | types and capacity, list and map agree, bloom filter exact, window exact, implements `DedupSet` | 2 thousand |
| `disk` | `DiskStorage` | ids unique, implements `SpillStore` | 480 thousand |
| `shard_all` | `BufferShard!Spec` | types, `EntryExclusive`, `OffsetsMatch`, `ReadersGetReady`, `CrashCauses`, uses disk as a `SpillStore` | 358 thousand |
| `serial` | `SerialFairSpec` | `ShardQueue`, statistics balance, spill reaches its mark and stops there, ready groups leave | 208 thousand |
| `writers` | `WritersSpec` | `ShardQueue` | 29 thousand |
| `readers` | `ReadersSpec` | delivered at most once | 141 thousand |
| `manager` | `BufferManager!Spec` | types, `SweepsComplete`, `EarlyEmptyIsOvertaken`, `FirstShardNeverLoses`, `BatchIsStored`, `StatusConsistent` | 1.96 million |
| `manager_calls` | `BufferManager!FairSpec` | `ConfigSettles`, `CallsReturn` | 100 thousand |
| `client` | `Client!FairSpec` | tasks, receivers and flag stay consistent, no crash, `unsubscribe()` ends | 10 thousand |
| `server` | `Server!FairSpec` | order of stops, what reaches a peer, what is wasted, the server stops | 895 thousand |

The runs `acked_is_stored` and `stale_spill` are refuted: section 5.

Bounds, and why they are enough:

* `MaxStores` bounds how often a uid is stored or acknowledged, `MaxCalls` the
  calls on the filter, `MaxCounter` and `LastTick` ids and time. Nothing else is
  bounded; every run is complete within its bounds.
* `shard_all` has two uids and the `group_size` switches between one and two, so
  that groups created under either setting live side by side; the threshold is 0,
  so every write that finds a complete group spills, and two spills of the same
  group overlap. A group of one that is written to again is the overfull case.
* Elsewhere groups hold two trajectories, so there are incomplete, complete and
  (by writes to a complete group) overfull ones. Two instances let one call work
  on two groups and different calls on different ones.
* Two pending calls (`shard_all`) already give every pair of continuations in
  every state, and removals of `delete_instance` run besides. `readers` and
  `writers` have three, as a conflict of two calls over a spilled group needs a
  third or an earlier one to bring it about. `serial` needs one.
* `serial` has a threshold (3) above the mark (2) and charges for remembered uids,
  so that spills of one and of several groups and spills that find nothing to
  spill all occur, and `uid_dedup` and timeouts change on the way. A filter of
  size 1 makes it forget.
* `manager`: two shards, one with two instances, so that a limit of one bites within a
  shard and across shards; batches within one shard and over both; two calls of any
  kind overlap, with writes and deletes between their messages. `MaxWrites` 2 is enough
  for a complete group on each shard, `MaxVersions` 2 for a shard that still works with
  the old value. `manager_calls` has one instance per shard and one write, and room for
  two updates that overlap (`MaxVersions` 3), with every property under fairness.
* `client`: two subscriptions and two `unsubscribe()` calls at once are what it takes to
  confuse one flag and one future; a third would find the same flag. It is not
  bounded otherwise.
* `server`: one peer of each kind and three groups: a batch of two can break between its
  sends, the other peer competes for the groups, and when one batch has been sent into a
  connection that has gone and a second has been read with the sink failed, a third group
  is left to be read wrongly. `prefetch_groups` 0 is taken for 1; a read has
  the limit 1 (RPC) or one that never bites (HTTP).
* `dedup`: four uids for three places; with five bits and two hashes two uids
  share all bits and others some.
* `disk`: groups of one and of two blocks, batches of two, so that a short write
  can cut a group.
* The `VIEW` of `shard_all`, `readers` and `manager` leaves out counters that actions
  write but never read, and that no property of the run mentions. `SYMMETRY` is used
  where constants are interchangeable; runs with liveness properties use none.
* Deadlock is not checked: with every uid written `MaxStores` times and all groups
  read, a bounded shard has nothing left to do; a manager whose writes are used up, a
  server that has stopped and a client that has been destroyed neither.

Fairness, always weak:

* `serial`: a pending I/O operation completes (`Continuing`), as Seastar resolves each
  future it is given; and the consumer calls `read_ready_groups(0)` again and again when
  the shard is quiet. Spills may fail for ever; loads are assumed to succeed there,
  because a load that fails loses its group (section 5).
* `manager_calls`: every message is handled, every continuation runs, and time passes
  (`Deadline`). Nobody has to write anything: a blocking read returns without.
* `client`: an RPC that is pending gets on or fails, `subscribe()` runs to its end
  (`TaskStored`), a callback returns, and a stream
  brings a message or its end (`Streamed`). The last is a condition on the server:
  `unsubscribe()` looks at the flag after the next message only, and waits for as long as
  a healthy server has nothing to send.
* `server`: handlers go on, and `main()` does once it has been told to stop. The network
  and the sink (`SendSettles`) owe nothing, so `StopCompletes` has its exception (section 5).

Each property has a mutant in `PROJECT.json`: a changed definition, kept beside the
original and marked `mutant`, under which TLC finds the property violated.

## 4. The proofs

TLAPS checks these for every value of the constants. The inductive
invariants are named, as they say more about the code than the properties they give.

* `DedupFilterProofs` (`Types`, `Structure`, `Lookup`, `Window`, `Refinement`). The
  invariant is `TypeOK`, `ListMapAgree`, `BloomExact` and `RecencyOrder`. The last is the
  strengthening: the list is sorted by the time of the last insert, and a
  forgotten uid is older than all that are remembered, and was forgotten only by a
  full list. `WindowExact` speaks of a cardinality; the step from order to count
  maps the uids newer than `u` to positions of the list. Assumes only that
  constants have their types.
* `DiskStorageProofs` (`Types`, `Unique`, `Implements`). An id is the sum of two numbers
  that never decrease, of which one grows with each id taken: every id taken lies below the
  present sum. The refinement of `SpillStore` takes a load that has a file open for one that
  has read it: the content outlives the name. `OpenInv` adds that a file being written
  is in the directory and that an open one is still wanted. Assumes sizes are numbers and the clock starts above 0.
* `BufferShardProofs` (`Types`, `Exclusive`, `Offsets`, `Readiness`, `Crashes`, `StoreImplements`).
  Besides the types, the invariant says of each entry, file and pending call that its offset
  is below `last_id` and leads, if anywhere, to a complete group of its own
  instance, and that copies held by spills and groups held by reads are complete
  and filed under their own instance. Offsets alone are not inductive: a file is
  created from a copy, so the copies must be right too, and a load reads whatever
  is in the file, so files must be complete. That a new id is not yet an offset of
  anyone (`last_id` bounds them all) is what keeps old offsets right. The same invariant
  makes what a shard does to its files a behaviour of `SpillStore`, so the two refinements
  meet: what the storage promises is all the shard relies on. `Crashes` adds one
  conjunct (`GhostsTaken`): unless a read has failed that held groups, an entry with neither group
  nor offset is in the hands of a pending read, which will erase its key. One lemma
  per action; the two assumptions are the types of the configuration values and of
  the batches, and that `NoGroup` is no group.
* `ShardRegimesProofs` says what the disciplines buy, in three invariants on top of that one.
    * `OrderInv` (`SerialImplements`, `WritersImplement`, `NoCrash`). With no discipline an
      offset may lead nowhere. With serial calls or writers, every group that
      no read has claimed is where its entry says, in memory or in a file that nobody is
      removing, and spills and reads hold the very group that the entry stands for. So no
      scan meets a null group, and every step maps to one step of `ShardQueue` or to none.
      Both disciplines are instances of one (`OrderlySpec`): calls are pending
      one at a time, except that spills overlap. The two refinements assume `ReliableReads`:
      no batches, and loads and removals that work (section 5 has what happens otherwise); any
      spill may fail. `NoCrash` (`CrashCausesAlone`) assumes nothing of the kind. Its invariant is that
      `OrderInv` holds or is excused (`Excused`): a read has failed that held groups, or
      the process has died of a batch that met a spill. So it says of every other sequence
      of calls and faults, batches without a spill, failed removals and unfinished
      resets included, that no scan meets a null group.
    * `StatInv` (`Statistics`, `Exact`, `Stops`, `Reclaims`), for serial calls. `StatisticsExact`
      says that totals and sizes are right between calls; the invariant says by how much they
      are off in the middle of each: what a pending read has counted as consumed and not yet
      erased, what it has claimed on disk and not yet released, and that cached sizes are those
      of the groups in the files. A spill's keys are a choice it could still make, which gives
      the two properties about the mark. They assume `ReliableReads` and `ByteSizes`: finite sets,
      numbers, and a spill threshold no lower than the 70% mark (the default is 80%; section
      5 has the case below). `Reclaims` also assumes that memory usage stays below `SizeMod`, the
      range of a `size_t`.
    * `ReadersInv` (`AtMostOnce`), for readers, writers, deletes and resets that race, with any
      faults and any batches. Both invariants above are false here. A trajectory that may still
      be delivered waits at a *place*: in an entry with its group in memory, in a file that an
      entry or a read still goes by, or in the hands of a read that has the group for itself.
      A file that two calls go by is one place, and a read has a
      group from a file for itself only when it has removed that file, as only one can.
      `Owns` says which groups those are, and that a read which has lost one of its files will
      deliver none. The invariant: delivered plus waiting is at most stored, for each uid. The sum
      over all places is what lets one lemma (`SumExchange`) cover every step that moves a
      group from one place to another. Spills must be alone: one that completes beside a
      read brings the group back (`stale_spill`). Assumes `FinitelyMany`, finite sets of
      instances and calls.
* `BufferManagerProofs` (`Types`, `Sweeps`, `EarlyEmpty`, `Settles`, `Batched`, `FirstShard`,
  `StatusCovers`). For
  `SweepsComplete` the invariant (`SweepInv`) says what is true in the middle of a sweep:
  what a call still owes lies on shards it has yet to visit, or on one that has handed over as many
  groups as a read's limit allows; and a blocking read that has been told of a
  ready group will find one, has found one, or has been overtaken, which gives
  `EarlyEmptyIsOvertaken`. For
  `ConfigSettles` (`ConfigInv`): a shard behind the latest version is one that some
  pending update will tell of it, or will when it has stored its last field. For
  `BatchIsStored` (`StoredInv`): a position of a batch is yet to be written or stored,
  and what a filter remembers has been stored. For `FirstShardNeverLoses` (`LimitInv`): what a
  read has from the first shard is within its limit. For `StatusConsistent` (`StatusInv`): the
  counters of each shard cover its groups at every moment, and so does any sum of answers
  that were given at different moments. Assumes a finite set of instances, each
  routed to a shard, and the types of the arguments.
* `ClientProofs` (`Types`, `Task`, `SingleReceiver`, `Quiet`, `Undisturbed`, `Safe`).
  `ActiveHasTask` holds with any overlap, but not while `subscribe()` runs the first
  callbacks of its loop (`opening`). The others rest on one invariant (`Orderly`) about a client that is not misused:
  at most one of opening, receiving and unsubscribing is going on, and who waits
  waits for the one receiver. Assumes only that the three marks are no subscription.
* `ServerProofs` (`Types`, `Outlives`, `Delivery`, `Prefix`, `Wasted`). `MainOrder`: stops
  come after all starts, and a peer with a handler belongs to a service that is up.
  `Deliveries`: what was taken for a peer begins with what it has received, and follows
  with the wire and the handler's hand while the connection is up. `Waste`: once its sink has
  failed a handler wastes only groups that it still holds, so the sink throws before a
  second batch is read. What was sent before the sink knew is not counted.
* `SumProofs`: that `SumFunctionOnSet`, a fold in an order of `CHOOSE`'s, does not depend on
  the order; what a sum over a disjoint union, over an image, with a point changed or with two
  exchanged is. This is induction over a finite set. The induction theorems of
  the library take an operator, which the provers cannot instantiate; `WFMin`, that a
  well-founded relation has a minimal element in every set, takes a set, and the set is that of the
  smallest counterexamples. The models sum functions, not sets of numbers, for this reason.

Type correctness of `DiskStorage`, `Client` and `Server` is checked by the proofs alone; so
is `ContainsExact`, which follows from `BloomExact`.

Only model-checked are the liveness properties (`ReadyGroupsLeave`, `CallsReturn`,
`UnsubscribeEnds`, `StopCompletes`), as TLAPS does not reason about fairness. The theorems
about disciplines assume what the runs assume, except for bounds: `serial` and
`writers` are run with `ReliableReads`, `readers` and `shard_all` with loads and
removals that fail. `CrashCausesAlone` has a proof and no run of its own.

What the refinement of `SpillStore` cannot show: a load that answers with an error satisfies
it, so it says nothing of a short write that only the load notices, and nothing of
the files of an earlier life, which no load asks for.

## 5. Where code and comments disagree

Two are runs that TLC refutes; `PROJECT.json` quotes the lines.

* `acked_is_stored`: a write to an instance whose group has been spilled is answered
  true and dropped.
* `stale_spill`: a spill that completes after its group was read brings the group
  back. The trace needs no failure and no delete: a write starts a spill, a reader
  takes the group from memory, the spill completes, and a second reader takes the
  file. The shortest trace has the first reader wait between scan and erase although all
  it needs is in memory, which Seastar rarely does. A read that also loads another file
  does wait there; and without any wait, a new group started under the key is turned
  into the old one.

More are visible in the models, without a run of their own.

In a shard:

* `batch_write` calls `get()` on a write that waits for a spill, which ends the process
  (`src/server/buffer_shard.cc:91` says that it is safe). `WriteAborts`; one of the
  causes in `CrashCauses`.
* A load that fails frees the groups already moved out of memory; their keys stay
  (`:54` says that what is in the map has not been consumed), and the next read
  follows a null pointer: another cause in `CrashCauses`, and so is a second read that
  comes while the first is pending. `serial` with `"load"` in
  `IoFaults` finds `ShardQueue` violated.
* `reset` removes files by offsets from a vector that is gone (`:208`). `ResetRemove`.
* With a `spill_to_disk_threshold` under 0.7 `target_spill` wraps around and everything
  complete is spilled (`SpillStopsAtTarget` fails); and a group larger than what `load`
  accepts can be spilled (`Whole`).
* The design document (`docs/transferqueue-design.md`, 5.3) answers a duplicate with
  success; the code answers false. Its 5.2 spills incomplete groups; the code spills
  complete ones.

In the manager, the server and the client:

* The blocking read waits "for data or the timeout"
  (`include/transfer_queue/server/buffer_manager.h:50`), but may return nothing early
  when another reader was faster: `EarlyEmptyIsOvertaken` says when.
* A read with a limit may lose groups: the comment at `src/server/buffer_manager.cc:79`
  says so. `FirstShardNeverLoses` says whose are safe.
* `update_config` stores `uid_dedup` even if the request leaves it out, which in proto3
  reads as false: a change of `group_size` alone turns deduplication off.
* The handler of SUBSCRIBE answers when it ends, and a healthy one does not end. The
  client waits for that answer before it starts its task, while the comment at
  `src/client/client.cc:231` expects a source at once. The model of the client lets the
  source arrive at any time (`SourceArrives`), and so covers what was meant as well.
* `unsubscribe()` "waits for it to complete" (`src/client/client.cc:284`), the task. A
  callback that runs before `subscribe()` has assigned `streaming_task_` (`:238`; a message
  was already there) and calls `unsubscribe()` waits for the initial future, which is ready,
  and the task goes on. On a second subscription that future has been taken out, and null
  is followed. `UnsubscribeEarly`; `ActiveHasTask` holds with the exception `opening = None`
  and fails without, and the other properties leave such a caller to `misused`.
* A subscriber that goes costs more than the batch being sent: the sink takes groups until
  it knows, and one batch more may be read after that (`OneBatchWasted`). With
  `prefetch_groups` 1 the loop reads again after every group, so groups that were read
  whole batches apart are lost. The comment at `src/server/rpc_handler.cc:165` has sends
  fail when the connection is closed.
* A subscriber without anything to send keeps `rpc_handler.stop()` waiting, as the loop
  ends only when the sink throws, and the process does not stop: `StopCompletes` holds
  with the exception `IdleSubscribersOnly` and fails without.

## 6. Not modelled

Pure conversions (JSON, protobuf, the RPC serializers), HTTP routing, the values of the
gauges, option parsing and logging have no state. `get_disk_usage` returns 0. The
sizing formulas of the bloom filter are floating point. A start that fails in the middle
of `main()` (an address in use, a directory that cannot be made) is left out, as is
`connect()` to something that is no address: it fails and changes nothing.
`BufferManager` has no spilling and an unbounded filter; what these add is in
`BufferShard`, and the two are related by `GroupQueue` only under the disciplines in which
a shard implements `ShardQueue`.

## 7. Plan

1. Starts that fail, and what they leave running.
2. `Server` over `BufferManager` instead of over ready groups, as a refinement.
