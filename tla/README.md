# Verification of itch_aggregator

TLA+ models, TLC runs and TLAPS proofs for the ITCH 5.0 aggregator in `src/`.
Paths below are relative to the repository (`src/main.cpp`, ...); `PROJECT.json`
maps every definition to the lines it stands for.

## 1. The system

One process reads a gzipped day file and prints CSV rows. The parts, the state
they keep and how they meet:

| part | state | operations | meets |
|---|---|---|---|
| `ItchParser` (parser/itch_parser) | buffer with `head_`, `tail_`; `eof_`, `error_`; counts | `next` (with `ensure`: compact, refill) | pulls bytes from a `ByteSource`; hands out a pointer valid until the next call |
| `OrderHash` (parser/order_hash.hpp) | `slots_`, `size_` | `insert`, `find`, `reduce`, `erase` (`erase_at`) | called by the assembler only |
| `BatchAssembler` (pipeline/batch_assembler) | `pending_reset_`, two counters, symbol table | `fill` | parser, order hash; fills the pinned buffer of a slot |
| `SlotRing` (pipeline/ring_buffer.hpp) | the slots, `next_`, one event per slot | `acquire` | the host blocks on a CUDA event |
| `run_gpu` (main.cpp) | two streams, events `barrier_ev`, `snap_done[2]`, handles `last_agg[2]`, `pending`, `pending_ts`, counters | the loop, the shutdown | issues copies and kernels, waits on events |
| kernels (cuda/) | accumulators, SoA batches, `d_snap` in device memory | decode, aggregate, reset, snapshot | run concurrently on the two streams |
| `run_cpu` (main.cpp), `cpu_reference` | `HostAccum`, one batch, one snapshot | the loop | the reference the GPU results are tested against |
| `SymbolTable`, CLI, CSV, statistics | names, options, counters | formatting | printing |

What is hard: the **concurrency** of `run_gpu`, where three actors (host thread,
two streams) share slots, accumulators and snapshot buffers, and all the ordering
there is comes from six kinds of events, one of them re-recorded from both
streams; and the **layout invariant** of `OrderHash`, where a deletion rearranges
a cluster that may wrap around the end of the table. Further, framing across
refills and truncation (`ItchParser`), and the market open that cuts a batch and
is carried to the next one (`BatchAssembler`). Nothing is persisted and nothing
crosses a network, so there is no crash recovery or message loss to model.

What makes each part correct:

- `SlotRing`: the buffer given to the parser is used by nothing in flight.
- kernels and events: reset and snapshot have the accumulators to themselves.
- snapshot buffers: no buffer is written while somebody still reads it.
- both drivers: the rows printed are exactly those promised, each with its own
  timestamp, every batch counted once in the right window, and none missing.
- `OrderHash`: it behaves as a set of orders; probes and deletions come to an end.
- `ItchParser`: the messages of the stream, once each, in order, with their own bytes,
  however the reads fall; an error flag that says what happened; `next` returns.
- `BatchAssembler`: every replace carries the side of its order; a message counts as
  unresolved or unknown exactly if its order predates the feed, replaces one that does, or
  was lost to a full table.
- a whole run: each row counts the messages since the last market open, wherever the
  batches end; the feed is read to its end; the statistics agree with it.
- kernels against `cpu_reference`: the same accumulators, bit for bit.

## 2. Modules

| module | what it is |
|---|---|
| `Accumulators` | the accumulators of one symbol, shared by both pipelines |
| `SnapshotReport` | abstract: which rows a run owes its reader |
| `GpuPipeline`, `MCGpuPipeline` | `run_gpu`, `SlotRing`, streams, events, kernels |
| `CpuRun`, `MCCpuRun` | `run_cpu` with `cpu_reference` |
| `OrderTable` | abstract: a bounded set of orders |
| `OrderHash`, `MCOrderHash` | `OrderHash`, one step per iteration of `erase_at` |
| `MessageStream` | abstract: the messages a stream holds, up to its end, cut or failure |
| `ItchParser`, `MCItchParser` | `next` and `ensure`, one step per read |
| `BatchAssembler`, `MCBatchAssembler` | `fill`, one step per message, over the orders of `OrderTable` |
| `FeedRun` | `BatchAssembler` composed with both drivers: from the feed to the rows |
| `BatchKernels`, `MCBatchKernels` | decode and aggregate kernels, one step per atomic, against `cpu_aggregate` |
| `GpuPipelineProofs`, `GpuReportProofs`, `CpuRunProofs`, `OrderHashProofs`, `ItchParserProofs`, `BatchAssemblerProofs`, `FeedRunProofs`, `BatchKernelsProofs` | theorems |

How they fit together: `ItchParser` implements `MessageStream`, whose messages are those
`BatchAssembler` takes; `OrderHash` implements `OrderTable`, whose calls `BatchAssembler` makes;
`FeedRun` puts the assembler under the loop of the drivers and looks at which message
is in which row; `GpuPipeline` and `CpuRun` take any batches and look at how they are
aggregated, `GpuPipeline` with all its concurrency; `BatchKernels` looks into the
aggregation of a batch.

**Accounts instead of sums.** A cell stands for one accumulator array entry of one
symbol. Its value says how often each batch has been added since the cell was last
reset or consumed. A sum, a count or an extreme of the messages is a function of
that account, and the account distinguishes histories that equal sums could hide,
such as one batch lost and another counted twice. `SumCells` are
cumulative since the market open, `WindowCells` are consumed by each snapshot.
Batches are numbered, and a buffer holds the number of the batch copied into it;
a batch's number also stands for its `last_ts`.

**GpuPipeline.** `pc` is the next call of `run_gpu`; each CUDA call is one host
action (`Acquire` ... `FinalPrint`), including the host-side assignments next to it.
`issued[s]` is everything ever issued to stream `s`, `retired[s]` how much of it has
completed. An event is a stream and a position; waiting for it is waiting for
`retired` to reach that position, and recording it again replaces the position,
while a wait already issued keeps the one it captured - the CUDA semantics. An
event never recorded is complete. `last_agg` holds a slot, because the code copies
the slot's event *handle*: the wait uses whatever the event was last recorded at.
Copies read their source when they execute. A kernel takes one step per cell it
touches, and the snapshot kernel two per window cell (read, then consume), so that
kernels at the heads of both streams interleave. Each thread of the real kernel
works on one symbol or message; one symbol's cells in any order cover that.
`SnapshotReport` has one variable per observable: the batches `fill` returned, whether
the loop was left, the rows printed.

**CpuRun.** One action per call of the loop; `cpu_aggregate` and `cpu_snapshot` are
single actions, there being one thread.

**OrderHash.** The hash function is a variable chosen in `Init` and never changed, so
that one run covers every hash function. A slot holds a reference and the shares;
price, locate and side are copied with them and never inspected. A probe is stated
by where it ends; a call whose probe would not end is not enabled, and `ProbesEnd`
says there is none. `erase_at` writes only `ref = 0`; the model's empty slot also forgets
the stale rest of the record, which nothing reads.

**ItchParser.** A byte is its position in the stream, so the buffer shows which bytes it
holds and a message is right exactly if the bytes under the pointer are its own. The
stream is a row of frames, cut or failing after any byte; a source's read returns any
number of bytes from one to the room given, 0 at the end, and a failure. `pc` says which
`ensure` of `next` runs; every read is a step, which includes the compaction before it.
`load_be16` gives a frame's length if the two bytes are its prefix, and any value
otherwise, so a model that read them elsewhere would not get away with it. The
buffer's minimum of 64 bytes becomes more than two, all the proofs need.

**BatchAssembler.** One action per branch of the loop of `fill`, chosen by the message
`parser_.next` returns. The feed is every legal one: the exchange keeps a book, and a
cancel, delete or replace refers to an order that is live, for no more than its shares.
`OldRefs` are orders older than the feed, of unknown side. The book, and the history
variables next to it (`added`, `strays`, `shippable`, `opens`, `listings`), are the feed's and not
the program's; `lost` and `losses` are the orders the table was too full for (a replacement of one
is lost too) and the number of messages about them, `executed` those the exchange executed. A message's number stands for its timestamp, `A` for `A` and `F`, `P` for
`P` and `Q`, one symbol for all; a length of more than `SLOT_BYTES` is the `long` of a trade.
A price is never looked at by the table and is left out.

**FeedRun.** `gpu` picks the driver; both share the loop, and differ in when a periodic
snapshot is printed. A cell says how often each message is in it; the name of a row is
the number of the last directory message the symbol table has seen when it is printed.
`run_cpu` prints a row at once, `run_gpu` a periodic one a snapshot later, so the same row can
carry different names; `NamesCurrent` says that a name is never older than the row's
timestamp, and that no message for the GPU lies between the snapshot it is printed at and the name.

**BatchKernels.** A slot is given by its fields, and the two switches decide which of them
count. A thread of the aggregate kernel takes one step per atomic; the two batches are
on two streams, so that all their threads interleave once decoded. Sums wrap at `U64`
and counts at `U32`, small here. The reference folds `cpu_aggregate` over the batches.

`SnapshotReport`, `OrderTable` and `MessageStream` are specifications, written as what the caller may
rely on; they are checked against the modules above by refinement and have no lines
of code of their own.

## 3. Runs

| run | constants | states | shows |
|---|---|---|---|
| `GpuPipeline_ring4` | 4 slots, interval 3, 7 batches, 2 cells | 213,951 | `SlotExclusive`, `KernelExclusion`, `ReportsAsPromised` |
| `GpuPipeline_snapshots` | 3 slots, interval 1, 5 batches, 2 cells | 19,567 | `HandoffExclusive`, `ReportsAsPromised`, `TypeOK` |
| `GpuPipeline_liveness` | 2 slots, interval 2, 4 batches | 13,189 | `NoDeadlock`, `Returns`, `SnapshotsPrinted` |
| `CpuRun` | interval 2, 5 batches, 3 cells | 416 | `ReportsAsPromised` |
| `OrderHash_shift` | 4 references, capacity 8 | 76,490 | `EveryOrderReachable`, `UniqueRefs`, `EraseCountsDown` |
| `OrderHash_table` | 4 references, capacity 4, 2 shares | 175,872 | `TableAsPromised`, `SizeExact`, `ProbesEnd`, `EraseCountsDown`, `EraseReturns`, `TypeOK` |
| `ItchParser` | 3 frames with payloads of 0 to 5 bytes, buffer of 6 | 87,378 | `MessagesAsFramed`, `ErrorExact`, `CountsExact`, `NextReturns`, `TypeOK` |
| `ItchParser_truncated` | as `ItchParser` | - | `TruncationReported` is violated |
| `BatchAssembler` | 4 references and an old one, 7 messages with executions, table of 2, batch of 2 | 4,474,841 | `TableIsBook`, `OrdersHeld`, `TagsResolved`, `UnresolvedExact`, `UnknownExact`, `TypeOK` |
| `BatchAssembler_executed` | 4 references and an old one, table of 2, executions | - | `UnresolvedPredate` is violated |
| `FeedRun` | 8 messages, batch of 2, interval 2, limit 7 | 738,412 | `RowsExact`, `NamesCurrent`, `ReadsToTheEnd`, `StatsExact` |
| `BatchKernels` | batches of 2 and 1, 14 slots, `U32` = 3, `U64` = 5 | 260,680 | `BitExact`, `TypeOK` |

Two runs show where the code does not do what is said of it:

- `ItchParser_truncated`. "Length prefix promised more bytes than the stream holds"
  (itch_parser.cpp:91) sets the error only if a byte of the message is there: a stream cut
  right after a prefix ends like a complete one, although the test
  (test_parser.cpp:101) says "truncated message flags an error". `ErrorExact` states what
  the code does; the run states what the comment and the test say.
- `BatchAssembler_executed`. Executions are not among the types handled, so an executed order
  stays in the table. Once these have filled it to the load limit `insert` refuses new
  orders without a word, and a later replace of one is shipped without a side and
  counted, although its order does not predate the stream (README.md:159,
  batch_assembler.cpp:68). With one free slot left a replace at the limit fails the
  same way, for the replacement is inserted before its original is erased.

Bounds, and why they are enough for the case to happen:

- `NSlots = 4` is the program's. Seven batches recycle three of the slots, so events
  are re-recorded and `last_agg` points to re-recorded events. An odd interval makes
  the two periodic snapshots fall on different streams (batches 3 and 6), so
  `barrier_ev`, `d_snap` and `h_snap` change hands between streams, and leaves one
  batch for the final row. Every batch may or may not carry a market open.
- A snapshot after every batch (`GpuPipeline_snapshots`) makes five of them: `d_snap` is
  rewritten from alternating streams and both `h_snap` buffers are used again, which
  takes at least three snapshots.
- Two slots make the host block on nearly every batch; liveness is checked there.
- Two cells, one cumulative and one window cell, suffice: kernels treat cells
  independently, and the interleaving needs two kernels on one cell or one kernel
  half way through its cells.
- Capacity 8 with four references is the largest load the limit allows there, under
  every hash function: clusters of four that wrap around. Capacity 4 takes two of the
  four references, and refuses the others. References are symmetric (the hash function is
  arbitrary); the run with symmetry checks invariants and one
  property of single steps, which treat all references alike.
- `--max-msgs` is a nondeterministic exit at the end of each loop body in `GpuPipeline` and
  `CpuRun`; in `FeedRun` it is a number, tested as in the code.
- Payloads of 0, 1, 3, 4 or 5 bytes behind the prefix, and a buffer of 6: the buffer holds one frame and a part of the
  next, so every refill compacts; a frame of 7 does not fit; 0 is the end marker.
- Four references and seven messages allow an add, a chain of replaces, partial cancels and a
  delete; batches of two are cut in the middle of such a chain. In a table of two, live orders, or
  executed ones that stay, reach the limit, where adds and replaces are refused, and messages are
  left for what comes of that: a replace, cancel or delete of an order the table does not hold.
  References are symmetric; the run checks invariants only.
- Eight messages in batches of two, a snapshot every other batch: an open at every place
  in and between batches, two in a row, one at the end; up to four batches, two periodic
  snapshots and the final one. A limit of 7 is reached in the middle of a batch.
- `BatchKernels` has two threads on one stream and one on the other, every pair of slots with
  every other: enough for two atomics on a cell in either order, within and across batches. Products and
  sums of the quantities chosen exceed 5, and three messages exceed the counters' 3.

`CHECK_DEADLOCK` is on everywhere: the drivers stutter explicitly once they have
returned, and a caller of `OrderHash` can always make another call.

Fairness. `GpuPipeline`: weak fairness of the host thread (it runs when nothing
blocks it) and of each stream (the device executes the head of a stream once nothing
holds it back - the forward progress CUDA gives stream commands). No strong
fairness is used. `ItchParser`: weak fairness of the steps within `next`, each of which is
code of the calling thread or a read that returns; nothing forces further calls.
`OrderHash`: weak fairness of the steps of `erase_at`, a loop of the
calling thread; nothing forces further calls.

Each property has a mutant in its module, a plausible slip in the code (the event
recorded before the launch, the wait on the other stream left out, the unwrapped
interval test, ...), marked `(Mutation: ...)` next to the definition it replaces.

## 4. Proofs

TLAPS proves, for every value of the constants that satisfies the named assumptions:

- `GpuPipelineProofs!TypeCorrect`: `Spec => []TypeOK`. `TypeInv` adds that the batch
  being issued is counted only at the end of the loop body, which bounds the counters,
  and that a row is printed only with a snapshot pending.
- `GpuPipelineProofs!SlotsAreExclusive`: `Spec => []SlotExclusive`, for every ring of at
  least two slots. `SlotExclusive` is not inductive. `SlotInv` is: every slot command in
  flight lies at or before the position captured by its slot's `done` event, except
  those of the current batch between its copy and its record; and the event of the slot
  at hand is complete from `acquire` until it is recorded again. The second part is
  what makes overwriting the event harmless.
- `GpuPipelineProofs!KernelsAreExclusive`: `Spec => []KernelExclusion`. The invariant `OrderInv` says of
  every whole-array kernel in flight and every kernel on the accumulators in flight on the
  other stream that a wait still in flight orders them. What makes it inductive is what the
  host knows about waits it has yet to issue: `barrier_ev` covers every whole-array kernel that
  is not waited for yet, the event `last_agg` leads to covers every aggregate of its stream, and
  the slot at hand is never the one that event belongs to (`SlotsApart`, where the two slots are
  needed), so `Aggregate` does not overwrite it.
- `GpuPipelineProofs!BuffersAreHandedOver`: `Spec => []HandoffExclusive`. Commands of a periodic snapshot in
  flight are covered by `snap_done[pending]`, which `Drain` awaits before the next one is issued.
- `GpuPipelineProofs!DeadlockFree`: `Spec => []NoDeadlock`, the safety behind `Returns`: whenever the host is
  blocked, or a stream has commands left, some stream can execute its head. An event is waited for
  only once it was recorded, so it lies within what its stream has been issued (`EventsIssued`,
  `WaitsIssued`); of two waits on different streams, the one issued first is for an
  event that does not lie behind the other, so no two hold each other back (`NoCycle`); and a kernel at the head of a
  stream has steps left (`KernelsUnfinished`).
- `GpuReportProofs!ImplementsReport`: `Spec => ReportsAsPromised`, the refinement of `SnapshotReport`. The
  argument goes by the order of the program: `Key` numbers the commands by batch and by their
  place in the loop body. Each stream has its commands in that order and the host is past all
  of them (`ProgramOrder`); a kernel is held back from the earlier ones it conflicts with on
  the other stream (`EarlierAwaited`); and while a kernel is in flight, no later one it
  conflicts with has begun (`LaterToCome`). So although kernels interleave cell by cell, each
  cell sees the conflicting ones in program order: it counts a batch exactly when the aggregate
  of that batch has come to it and no later reset or snapshot has (`AccumInv`). `SlotData`
  gives the aggregate the right batch (through the two copies a slot goes through),
  `SnapshotInv` follows what the snapshot kernel reads to `d_snap` and `h_snap`, `IntervalInv`
  says which snapshots those are, and `FinalInv` does the same for the final one.
- `CpuRunProofs!TypeCorrect` and `ImplementsReport`: `run_cpu` implements `SnapshotReport`. The
  invariant relates each cell to the account the report asks for, and the number of
  rows printed to `batches` by way of the interval.
- `OrderHashProofs!TypeCorrect`, `OrdersStayReachable`, `RefsStayUnique`, `SizeStaysExact`,
  `ImplementsTable`. During a shift the invariant allows probes to be broken only by the
  hole, and only for entries the scan has not reached; each scan step narrows that set,
  and when the scan meets an empty slot it is empty. Refinement follows: shifting
  moves orders without changing the set of them.
- `OrderHashProofs!ProbesComeToAnEnd`: from `SizeExact` and the load limit, by counting.
- `OrderHashProofs!DeletionsCountDown`: `Spec => EraseCountsDown`, the loop variant of `erase_at`. The slots
  the scan has passed are occupied and a slot is spare (`ScanInv`). If the scan were headed for the
  hole, every other slot would be occupied; the load limit rules that out, so the slot it is headed
  for is not one a move fills. Without the limit it is false: a full table lets the scan fill
  its own end.
- `ItchParserProofs!TypeCorrect`, `ImplementsStream`, `ErrorIsExact`. The invariant ties the three
  measures of the input together: what was read is what was consumed plus what is
  buffered (`PosInv`), every buffered byte is the one of its position (`BytesInv`), and the
  front of the buffer is the start of frame `total_ + 1` (or just behind the message
  held). While `next` runs, `n` is the length of that frame (`CallInv`). At the end, which of
  the ways to end it was is kept (`EofInv`, `ErrorInv`, `EndInv`), and that each of them stays
  one gives the abstract `End`.
- `BatchAssemblerProofs!TypeCorrect`, `OrdersAreHeld`, `TagsAreResolved`, `UnresolvedAreExact`,
  `UnknownAreExact`, for any legal feed, executions included, and any table. The table may hold
  orders the exchange no longer has, or lack some it has; the invariant (`TableInv`) says how far it
  can stray: an order has one side, an order live with a known side is in the table or
  was lost, and what the table holds is an order there has been, of that side. With it the
  lookup of a replace, cancel or delete fails exactly for an order without a known side or a lost one.
- `BatchAssemblerProofs!TableStaysBook`, for the same feeds and tables. Table and book, both
  without the executed and the lost orders, agree order by order, shares included (`Agree`), and
  equal calls on both keep them so (`AgreeReduced`). The order a replace finds has the side
  of the one in the book by `OneSide`, and a replacement that is refused is lost from then on.
- `FeedRunProofs!RowsAreExact`, `NamesAreCurrent`, `FeedIsReadToTheEnd`, `StatisticsAreExact`, for every feed,
  executions and a full table included. `NamesCurrent` needs to know how far reading can be ahead of
  printing (`BoundInv`). `RowsExact` is not inductive. `SlotsInv` is, which says that the batch at
  hand is exactly the messages for the GPU after `last_ts`, in order; and `OpensInv`, that the
  opens after `last_ts` lie before the batch (which is then flagged) or behind it (and are
  then carried in `pending_reset_`), never within. With these a flagged or unflagged batch
  brings a cell from one timestamp to the next (`AggregatedCell`), and what a row counts is not
  changed by messages that come later (`SinceStable`).

- `ItchParserProofs!CountsAreExact`. A count is the cardinality of the set of frames returned
  with a type. `total_` grows by one with a frame at the front whose first byte is its type, so
  the set of one type grows by one element; the end marker and a cut frame never get there.
- `BatchKernelsProofs!GpuEqualsCpu`: `Spec => []BitExact`, and `TypeCorrect`. A message has a
  *share* in each cell of its symbol (`Share`): a number to add, a price to take the maximum or
  minimum of, or the neutral value. `CombineLaws` says that shares combine in any order, and
  `ShownCombine` that it does not matter whether a total wraps before a share is added or after
  (`ModPlus`). On the device side a thread has one atomic for each cell in which its message has
  a share (`AtomicsOfMessage`), and the invariant `AccInv` says that a cell shows the total, in the order
  of the feed, of the shares whose atomics have been made; one atomic more, wherever in the
  feed, is one share more in that total (`TotalUpdate`). On the host side `cpu_aggregate` gives each
  cell the total of the shares of the batch (`CpuSymbolGiven`, `CpuAggregateTotal`). When all threads are
  done the two totals are of the same shares. Any number of batches may interleave, which is more
  than two streams allow. `BatchesCommute` follows from the same lemmas; it is the reason why
  the accounts of `Accumulators` need not record an order.

Loops. What a loop computes is proved by induction over its rounds although the library's
induction theorems cannot be used: `LeastElement` gets from the well-foundedness of the order of
the naturals that a set of numbers has a least one, `InductionUpTo` states induction for a
*set* of rounds, and `LoopExists` that a recursive function with given rounds exists.

Proving `BitExact` changed the model twice. A trade with a side that is neither `B` nor `S`
contributed nothing in the model of `cpu_aggregate`, while the code only leaves the volume out; the
slots of the run now have such a trade. And the alternatives of `Atomics` overlapped for a locate code
beyond the table, so that a definition TLC evaluates from the top was not the one stated.

Assumptions: `NSlots >= 2`, `Interval >= 1`, a natural number of batches, disjoint kinds of
cells, at least one of the cumulative ones, a positive capacity and bound of shares, a `NoRef` that is no reference, a parser
buffer of more than two bytes, a positive batch size, finitely many references, counters
of at least one value, prices and quantities that fit their fields.
`NSlots >= 2` is weaker than the program's 4; with a single slot the other stream's
last event would be the one about to be recorded.

Only model-checked: `Returns`, `SnapshotsPrinted`, `EraseReturns`, `NextReturns`: liveness under
fairness, which the installed provers cannot do. `DeadlockFree` and `DeletionsCountDown` are the parts of
`Returns` and `EraseReturns` that are safety. Every invariant, action property and
refinement a run checks is also a theorem.

## 5. Not modelled

- The byte sources (zlib, memory), the command line, CSV formatting and the text of the
  statistics: pure input and output. CUDA errors end the process (`CUDA_CHECK`) and have no
  behaviour to check. `--no-csv` only suppresses rows.
- Byte offsets within a message and big-endian loads beyond the length prefix.
- The arithmetic of a snapshot (VWAP and imbalance as floating point numbers).
- How far a run goes beyond `--max-msgs`: it is tested once per batch (main.cpp:294), and
  messages that are not shipped are parsed without limit in between. A limit that is
  reached as a market open cuts the batch leaves that open unapplied, as an open at the
  end of the feed is: the rows are as of a time before it, which is what `RowsExact` asks.
- Feeds that break the exchange's rules, such as a reference used twice.
- Tests, tools, benchmarks and doctest are not part of the running system.
