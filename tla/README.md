# Formal models of ThreadXShell

TLA+ modules, TLC configurations and TLAPS proofs for the concurrent and
stateful parts of ThreadXShell: an embedded shell with a camera, an inference
service and a flash asset store, on three boards (`f746g-disco`,
`wio-lite-ai`, `grove-vision-ai-v2`). Everything here is translated from the
C code under `src/`; `PROJECT.json` gives, for each definition, the lines it
stands for.

Where the boards differ, the models follow `f746g-disco`, the reference board;
`NorPart` follows `grove-vision-ai-v2`, the only one with an external NOR part.

* [1. The system](#1-the-system)
* [2. The modules](#2-the-modules)
* [3. Runs](#3-runs)
* [4. Proofs](#4-proofs)
* [5. Where code and comments disagree](#5-where-code-and-comments-disagree)
* [6. What is left out](#6-what-is-left-out)
* [7. Plan](#7-plan)

## 1. The system

Threads: one shell thread per console, up to `CLI_MAX_BG_JOBS` background jobs,
the camera producer, one thread per asynchronous camera sink (LCD, nn), the
blinking LED and the drivers' interrupts. They share services; each service
guards its state with one mutex, or with a flag set with interrupts off, and
deliberately does its slow work outside. That is where the hard cases are.

| Component | State it keeps | Operations | Who calls it | What makes it correct |
|---|---|---|---|---|
| Frame pipeline (`svc/camera/frame_pipeline.c`) | ring of slots with pins, the latest frame, the list of sinks and for each its state, pins, callbacks, pending frame | init, acquire, publish, get, put, attach, detach, `sink_pins` | producer (acquire, publish), sinks (put, get), consoles (attach, detach) | a slot is never refilled under a reader; a drain that says "zero" is true; every pin comes home; a sink is never entered twice at once |
| Camera stream (`port/camera/camera.c`, `svc/camera/cam_holders.c`, `cam_gen.h`) | holder table, stream generation and last ended generation, stop request, pending recovery, power and mode, memory claim | start, stop, join, leave, undo, power off, set mode, probe, scratch claim; the producer's teardown and recovery | `camera`, `nn`, `sdram` commands; the producer; interrupts | streams exactly while somebody holds it; a failed start takes nobody else's place; a stop is never lost; a waiter is told of its own stream's end |
| Camera sinks, nn session (`cam_sink.c`, `cam_own.c`, `cam_drain.c`, `cam_step.c`, `nn_camera.c`) | the owner of each sink, step request, session | start, stop, drain, step | `camera`, `nn` | frames of one session never land in the next; a stop drains before it frees |
| Blob store (`svc/blob`, `boards/*/src/blob*.c`, `cmd_blob.c`) | flash slots (magic, body, payload), the busy flag | list, verify, read, write (stream over YMODEM), erase, find for a model load | consoles, background jobs | a valid slot holds what its header says after any failure or power loss; names are unique; the reservation always comes back |
| YMODEM (`svc/ymodem.c`) | block number, retries | send, receive | `fs`, `blob` | an OK means the sink got exactly the file |
| nn service core (`svc/nn/nn_core*.c`, `nn_swap.c`, `nn_active_*`, `nn_handoff.c`, `nn_stream_life.c`) | the claim, the open model and its sequence number, the stream life | load, unload, run, frame | `nn` command, nn thread | a swap never happens under an inference or a plugin; a result belongs to the model that is open |
| Plugin execution (`svc/plugin`, `port/plugin`) | execution claim, the lease | run, load, unload | `plugin`, nn | code is not replaced while it runs |
| NOR part (`grove: port/nor`, `port/sdk_seam`) | lifecycle, reader leases, reservation, the mapped window and what the cache holds of it, staging buffer, terminal fault | acquire, release, reserve, unreserve, and one transaction: claim, erased check, window down, canary, erase or program, window up, read-back, commit | `nor`, `devmem`, `blob`, the NPU, a model load | readers and writers exclude each other; no stale line is read; what a write command answers is true; nothing is programmed under the camera |
| Shell core (`shell/core`) | job slots, sessions, console lock | run, background, kill, reap, claim | every command | a kill reaches the job it named and no other; the console has one owner |
| Transport rings (`shell/backend`), log ring (`svc/log.c`) | head and tail, free-running offsets | put, get, walk | interrupts, consoles, the boot code | nothing read that was not written; the boot walk survives a cut record |
| KV store, wifi link, network (`wio-lite-ai`) | sectors, calls in flight, link state | set, get, call, reset | commands | a reply reaches the call it answers |
| Line editing, parsing, decoding of results, asset tools | none shared | | | sequential, covered by host tests |

How they meet:

* The producer thread of the camera stream is the only caller of the
  pipeline's acquire and publish. publish calls the sinks' `consume()` without
  the lock. nn and the LCD are sinks; their drain check is `sink_pins`.
* nn joins the stream as a holder, so that the operator cannot stop it under
  nn; the holder table and the pipeline's registry are two separate claims.
* `nn model load` reads the blob store under the same busy flag a `blob write`
  holds while it erases and programs; so do the raw `qspi` commands.
* `blob write` owns the console during its transfer, through a claim that
  background jobs cannot make.
* `sdram test`, the camera and the model loader compete for the same memory.
* On `grove-vision-ai-v2` one flash part is the store, the model's home and the
  `nor` command's subject at once; it is read in place through a cache, and
  written with the window down. The camera disturbs a program on the wire, so
  writer and camera know of each other.

`PROJECT.json` lists under "hazards" what in this code a test would hardly
reach, each at its line, with the property that covers it or the reason none
does yet.

## 2. The modules

| Module | Code | What it covers |
|---|---|---|
| `FramePipeline` | `svc/camera/frame_pipeline.c` | the whole component but geometry and statistics |
| `FramePipelineProofs` | | the theorems about it |
| `CamGen` | `svc/camera/cam_gen.h` | generations that wrap and skip 0 |
| `CamHolders` | `svc/camera/cam_holders.c` | the holder table, as pure operators on a record |
| `CamStream` | `port/camera/camera.c`, `cam_hold_rules.c` | composes the two above with the producer, the consoles and nn's joins |
| `CamStreamProofs` | | the theorems about it |
| `BlobStore` | `svc/blob/blob_write.c`, `blob_state.c`, `boards/f746g-disco/src/blob.c`, `cmd_blob.c` | the store over a flash that fails and loses power |
| `BlobStoreProofs` | | the theorems about it |
| `JobLedger` | the promise of `shell/core/cli_job.c:9-35` | abstract: a job is its number, started, killed, ended and announced |
| `ShellJobs` | `shell/core/cli_job.c`, `cli_registry.c`, parts of `cli_session.c`, `cli_core.c`, `cmds/cmd_watch.c` | the pool of background jobs, which implements `JobLedger` |
| `ShellJobsProofs` | | the theorems about it |
| `Transfer` | the promise of `svc/ymodem.h:124-134` | abstract: blocks in order, each once, and an OK only for the whole file |
| `Ymodem` | `svc/ymodem.c` | both ends of a transfer and the line between them, which implements `Transfer` |
| `YmodemProofs` | | the theorems about it |
| `EventLog` | the promise of a log that outlives resets | abstract: numbers, records kept and dropped |
| `LogRing` | `boards/f746g-disco/svc/log.c` | append store by store, eviction, the boot walk, a `dmesg` pass; implements `EventLog` |
| `NnHandoff` | `svc/nn/nn_handoff.c` | the word between producer and worker, as a table |
| `CamOwn` | `port/camera/cam_own.c` | the owner's life cycle, as a table |
| `NnSession` | `port/nn/nn_camera.c`, `nn_producer.c`, `nn_worker.c`, `cam_sink.c`, `cam_step.c`, `nn_shot.c`, `nn_det_record.c`, `nn_core_frame.c` | live inference: composes the two tables with consoles, producer, worker and camera |
| `NnSessionProofs` | | the theorems about it |
| `NnModel` | `svc/nn/nn_core_model.c`, `nn_swap.c`, `nn_svc_common.c`, `nn.c`, `port/nn/nn_svc_f746_model.c`, both backends, `svc/plugin` | a model replaced while it may be in use |
| `NnModelProofs` | | the theorems about it |
| `NorPart` | `grove: port/nor/*.c`, `port/sdk_seam/nor_seam.c`, `src/blob*.c`, `cmds/cmd_nor.c`, `cmd_devmem.c` and the callers in the NPU and the camera | the NOR part and all its users |
| `NorPartProofs` | | the theorems about it |
| `MC...` | | values for TLC, nothing else |

In all of them, a definition that stands just above another with the same
parameters, and that nothing uses, is a mistake the code could have made (a
dropped condition, a missing reset). Putting it in the place of the one below
makes the property it was written for fail; `PROJECT.json` pairs them under
"mutants". `BlobStore` marks them "variant".

### FramePipeline

One action per critical section. `AttachClaim` / `AttachCommit` /
`AttachRejected` and `DetachUnlink` / `DetachFinish` are the two halves of
attach and detach around the unlocked `open()` and `close()`. `Publish` is
publish's locked part; the `consume()` calls it then owes are `prodCall`, with
`SyncConsume` or `AsyncConsume` for the body and `PublishEpilogue` for the
locked section that follows. When `put()` hands a coalesced frame over, it
makes a call of its own from the thread that called it: `handCall`,
`HandConsume`, `HandEpilogue`. `held` is what the sink's own thread keeps.

* The registry is a set: list order matters to no property.
* `_owner` is not a variable. It is set and cleared together with the state,
  and there is one pipeline per board.
* `Reinit` (frame_pipeline_init) is offered only in a quiescent pipeline. The
  header demands it, and the ports latch `cam_pipe_unsafe` when they cannot
  establish it; that latch is not modelled.
* `WorkerGet` stops at two pins of one sink on one frame. No sink in the
  firmware calls `get()` and none has the LATEST policy (the host tests have
  both); the model has them because the API offers them. In the instance the
  sink that re-queues is a dropping one, as in the tests, so that `MailboxFree`,
  which is about the others, and the drain of a pending or handed-off frame are
  checked on the coalescing one.
* `DrainsHome` excepts one behaviour: a sink that takes a second pin again and
  again for ever. `get()` has no attachment test, so a drain cannot stop it; the
  model without the exception shows exactly that.

### CamStream

One action per entry point, since each is one section of `cam_lock`; what the
code does on the hardware inside is a free `outcome`. The producer decides from
flags it reads without the lock, so `ProducerSeesStop` and `Teardown`, and
`ProducerSeesRecovery` and `Recover`, are two steps each with everything else
able to come between. `camera off` is the four calls the command makes.

Facts about the code that the model makes visible:

* The branch of `cam_stream_teardown` that withdraws a stop is reached only
  through that stale read: a start has cancelled the stop in between.
* A start refused for its test pattern takes the operator's registration back
  only if this call made it (`if (!had)`).
* A start refused that way still renews the generation of the operator's
  place, so a joiner's ticket no longer names it: a later undo leaves the
  operator in.
* The claim in the table never outlives the lock on this board. It matters to
  boards that start the hardware unlocked.
* With three holders and four places, "full" cannot be answered.

### BlobStore

A command is a task that moves through `Places`. Each flash operation is a step
with three ends: done, reported as failed with any part of its range done, or
reported well and wrong (programs only: erases are trusted by the code, and
the read-back exists for the programs). `PowerLoss` stops all tasks in the
middle of whatever the holder of the flag was doing to the flash.

* A page is erased, garbage or what was meant to be written. Programming a page
  that is not erased leaves garbage, so an incomplete erase shows.
* A file is its identity, and stands for its length and CRC-32: the model has
  no CRC collisions.
* `HeadBlocks` payload blocks share the header's erase unit. On this board the
  slots are whole 64 KiB sectors, so it is at least 1.
* `torn` marks a slot whose erase was cut short, or that a raw `qspi` command
  was pointed at: a cut erase may leave magic and body and lose payload, and
  only the payload CRC (`blob verify`, the load's own check) tells. That is
  the only exception in `ValidMeansWhole`.
* The transport is its contract, the one `Ymodem` is shown to keep: blocks in
  order, and a batch that closes has delivered every declared block.
* `console_ready()` and the reservation that follows are one step; the first
  reads nothing that changes.
* Unreserved reads (list, verify, read) change nothing. `blob verify` may
  report a mismatch while a write runs; the board's README says so.
* The initial part has never been written: erased, or foreign data that
  decodes as nothing. Two valid slots of one name put there by other means
  (a programmer) are outside what the code promises.
* The nn runtime's own refusal of a blob is the free choice to leave in `Find`.

### ShellJobs

A thread is a console or a worker, and a worker goes by the number of its slot.
`pc`, `at` and `launching` say where a thread is in `cli_jobs_reap` or
`cli_job_launch`; `thread` says where a worker is in `cli_job_entry`, from
`tx_thread_create` to TX_COMPLETED. One action is one section with interrupts
off, or the stores and calls between two of them that nobody else looks at;
where somebody does look (the undo of a refused launch, the end of a reap), each
store is an action. The consoles have one priority and a time slice
(`cli_config.h:138`, `cli_core.c:297-305`), so any of them may run between any
two steps.

* A worker's commands include those that come back here: `jobs &` reaps, and
  `watch 1 kill 2 &` kills, itself too.
* Command lines are job numbers. `Endless` are those that return only when
  cancelled (`watch`); the others also stand for a `sleep`, which polls for a
  cancel and then waits for the event.
* `OutputDone` may take the kill event away: on a full transport
  `cli_tx_send_blocking` waits on that very event and clears it. The sticky
  `cancel_req` is then all that tells.
* `stage` and `killed` are history: what `JobLedger` says of each number. The
  two `INSTANCE`d variables have the same names, so the refinement mapping is the
  identity on them, and what `JobsAccounted` claims is in the four actions that
  change them, which know only slots and threads.
* `RegistrySized` is the size `cli_config.h` gives the thread registry by
  default. It is not assumed: `sj_pool` runs, and most theorems hold, without.

### Ymodem

An end is one thread; one action is what it does from one wait for a byte to the
next. The line is two queues. A block is its kind and its place in the file, and
goes by that place modulo `SeqSpace`; a damaged block is one unit of junk, of
which the receiver may make a cancel, an EOT or nothing, but which passes no CRC. Replies
are single bytes without a check: they may be lost, not altered. `late` counts
the waits that run out though an answer was on its way, the only thing
the model budgets; loss and damage are free.

* The sender always declares the size (`blob send` and `fs send` do).
* Junk that looks like an EOT before the first block is acknowledged, so that a
  sender may be told all went well with nothing delivered (`fooled`); the
  receiver is not fooled.
* A source that ends within a block has that block padded. If it is the
  last one, both ends report OK, since the padded block completes the declared
  size; `WholeFile` states that it should not be and is not one of the checked
  properties (`ymodem.c:577` and 613-618). What an OK is worth all the same is
  proved: `OkMeansTheFile` (section 4).

### LogRing

An append is one store per step, because a fault's handler appends on top of
whatever it interrupts, and a reset may come anywhere; with interrupts masked
nothing else can. Everything else is one step. Lengths are in words. A text word
that the walk would read as a header counts as malformed: the magic in a header
makes that so but for text chosen to look like one. `Starts` places the ring so
that its free-running offsets wrap within the bound.

### NnSession

Generations, epochs and run numbers are only compared with samples of
themselves, so each sample is kept as "is it still the current one". The
semaphore is a wake-up and not a job: the worker looks at the word either way,
so posting it is not modelled. Every bounded wait may run out at any time.
`pNew`, `jNew` and `wNew` are history: the frame the producer has, the
one handed over and the one in the worker came in after the last attach, detach
or stop.

* `DrainSays` reads the step's own count; the pins and callbacks below it are
  `FramePipeline`'s, and that a detach finds the producer out is its
  `DrainCheckSound`.
* Two observations that are stated and not checked, since the code does not
  promise them: `StreamAsks` (in the window of section 5's `nn_wake`, a stream
  may also run with nobody having asked for a frame) and `SessionComesBack`
  (a stop whose wait runs out while the worker, already told `drained` is 0, has
  not yet cleared `active`, leaves the session held in IDLE; the worker has to
  be kept from running for the whole wait).

### NnModel

`tflm` picks the build's backend once: `tflm`, which swaps in place and stages
containers with plugins, or `stedgeai_reloc`, with two slots and no lease. The
transition counter is `odd`, its parity, and `fresh`, whether each console's
sample is still its value (a counter that comes round exactly within one report
is left out). A load is a decision at each refusable step; the runs of
unconditional calls between two of them are scripts (`todo`), one call per step.

* The plugin lease is held by one thread at a time: a load, an unload, a
  `nn thresh`, the panel, or the worker that decodes. `inside` is the plugin
  whose code that thread is in.
* A stream is one claim of the session here; what happens under it is
  `NnSession`'s. `nn_wake`'s window is not composed with it.
* Refusals before the claim (a bad name, memory not up) leave no trace and are
  left out, as are those of `load_region` and `reload` that this board's callers
  never reach. The first open's latch is left out.

### NorPart

One action per masked section or per call to the vendor. `part` is the port's
own state, `data` the array, the cache and the staging buffer. A unit stands
for a sector and a page alike. `cache` is what the data cache holds of the
window: lines stay until they are invalidated, the worst case for staleness.

* The foreground preempts the jobs and jobs have no time slice, so a job moves
  only where the foreground waits (`Waits`): at its prompt, in a read that
  prints, between transactions, in an erase's tick. In particular no job moves
  while a program is under way, which is what `cmd_nor.c:404-412` argues.
* What a bring-up, the window, the canary and each vendor call do is a free
  outcome; a vendor call that answers 0 may have left the unit half done. One
  that does not is taken to have sent nothing, as the code does.
* The window restored after a fault may be up or down.
* A unit that was not erased becomes a mixture when programmed (`Junk`).
* Bring-up happens once, so a lease is its slot, and a token its thread;
  generations and sequence numbers are left out. So are spans outside the part,
  which `nor_span.c` refuses before anything is claimed.
* A unit's content is one value. That the writer reverses the bytes of each word
  and pads a payload's tail to a word with 0xFF (`nor_write.c:188-229`) is a data
  abstraction: a good program is taken to leave the payload in the array. Whether
  the conversion is right is not asked here; the code's own read-back, which
  compares the payload with the array and is modelled, would report it.
* An erase may go on with the camera started in one of its ticks: the board's
  README says so, and `ProgramsInTheDark` is about the rest.
* `StartNorWrite` fills the staging buffer before it takes the part
  (`cmd_nor.c:763-768`): section 5.

## 3. Runs

| Run | Question | Instance |
|---|---|---|
| `fp` | Pins, callbacks and drains under every interleaving, the one-frame mailbox, and that every detached sink, the coalescing one included, comes home unless it re-queues for ever | three sinks for two places -- asynchronous and coalescing, asynchronous and dropping with re-queues, synchronous; 2 slots, 2 publishes |
| `cs_nn` | The stream's and the table's promises with the operator, two joiners, a `camera off` and `sdram test`; a stop is never lost, a held stream comes back or its holders are told | one console, 2 streams, 4 registrations, generations that wrap at 8, starting just below the wrap |
| `bs_safe` | Writes, erases, raw commands and loads, through failures and power losses | 2 tasks, 2 slots, 2 names, files of 1 and 2 blocks, a staging buffer of 2 |
| `sj_pool` | Exact kills, the registry, the ledger and that a killed job ends | 2 consoles, 2 slots, 3 jobs, of which the first and the last are endless; a registry one entry short, so that launches are refused and undone |
| `ym_xfer` | `Transfer`, what a sender may believe, and that both ends return | files of 0 and 3 blocks, sequence numbers modulo 3, one retry, one early timeout |
| `ym_prompt` | A comment of the code, refuted: section 5 | as `ym_xfer` |
| `log_ring` | `EventLog` through resets and faults in the middle of appends, and what a `dmesg` pass gives | four records of the longest kind, offsets wrapping at 128 words, five appends and two lines of a fault |
| `nn_session` | The model's input, the record and the one-shot while consoles start and stop and the camera comes and goes; a teardown ends | 2 consoles |
| `nn_wake` | Two comments of the code, refuted: section 5 | as `nn_session` |
| `nn_model` | Nothing in use is replaced under its user; a report is of one model; an answer is true | 2 consoles, two containers with plugins and one bare model, either backend |
| `nor_part` | Leases, reservation, cache, answers, camera, and that the part is given back | the foreground and two jobs, 2 units, 2 payloads, 3 reader slots, up to 3 transactions per reservation |
| `nor_stage` | A comment of the code, refuted: section 5 | one job, two reader slots |

### Bounds, and why they are enough

* `MaxGen` counts publishes. Two slots and two publishes reach a pin on every
  slot, an exhausted ring, a slot used again, and a frame that is pending while
  another is consumed; a pending frame *replaced* takes a third publish, and is
  covered by the proofs, which bound nothing. Three sinks meet in every pairing
  of the producer's call and a hand-off, and compete for the last place.
* `MaxStreams` and `MaxRegs` count streams and registrations. Generations are
  compared by distance, so two streams and one ended one show every order; the
  first generation is chosen so that the counter wraps and skips 0 within the
  bound, which stays well below half the space, as the 32-bit counter does in
  the field. Only 2^32 registrations between a join and its undo would repeat a
  ticket.
* Two tasks are enough for the busy flag, since a third would only be refused
  like the second. Two blocks, with a staging buffer of two, give a partial last
  flush in `close`, a file shorter than the slot, and an erase of two units.
  Files of three blocks pass too (1.8 million states, too slow to keep).
* `MaxJobs = 3` over two slots gives every slot a second tenant beside a job
  that still runs. Two consoles and a worker in `jobs &` are three reapers at
  once, one more than a slot's claim has to tell apart. After the third number
  every launch ends as "too many background jobs".
* `SeqSpace` must exceed the lead that stale ACKs can give the sender, as 256
  does in the code; 3 with one retry and one early timeout does, 2 does not.
  What suffices for files of any length is proved (section 4). `MaxLate` bounds
  only timeouts that race an answer under way. Three blocks bring the sequence
  number round to its start.
* `MaxAppends = 5` over a ring of four records evicts, skips the end of the
  ring and wraps; `Starts` are a fresh ring and one lap before the offsets wrap.
* `NnSession` and `NnModel` have no counters. Two consoles give a start against
  a stop, a load against an unload, a report against either; two containers a
  swap and back.
* `MaxTxns = 3` bounds the transactions under one reservation; two units give
  a prefix and a rest, two payloads an array that already holds the other.
  Three units pass too (2 million states), and the proofs bound neither.
* Symmetry is used where no liveness is checked: `bs_safe` (tasks, slots,
  names), `nn_model` (consoles, containers), `nn_wake` (consoles).

Deadlock is checked in every run but three: a transfer ends, and a log that has
made its appends and been read stops. Elsewhere some thread can always act.

### Fairness

* `fp`: the sinks keep their contract, thread by thread: the producer finishes
  the `consume()` calls of a publish, each sink's worker finishes a hand-off and
  puts back what it holds, and each `close()` returns. None of these waits for
  anything in the pipeline. Nothing is assumed of the camera or the consoles.
* `cs_nn`: the producer thread runs. Its wait on a running stream is bounded
  by `CAM_PRODUCER_TICK`, so it looks at the flags again with or without
  frames. Nothing is assumed of consoles, nn or the sensor.
* `sj_pool`: a thread inside a launch or a reap goes on (it waits for nothing
  but room for a line of output), and a worker runs. Workers are one priority
  below the consoles, which spend their time waiting for input. Nothing is
  assumed of who types what.
* `ym_xfer`: an end that waits is woken by a byte that is there, or else by its
  timeout. Nothing is assumed of the line: it may damage and lose every byte.
* `nn_session`: the worker, a producer that is inside the step and a console
  inside a command go on; all their waits are bounded. That consoles issue commands, or
  that frames arrive, is not assumed.
* `nor_part`: the foreground thread goes on while it has the part. It is the
  highest shell thread and the vendor's polls are taken to return; one that has
  no timeout and hangs hangs the board.

## 4. Proofs

Eight modules of theorems, one for each state machine but `LogRing`. In each,
the inductive invariant is a conjunction of named parts, each proved to be kept
by every action from itself and the parts before it. They assume what the
modules' ASSUMEs say of the constants, and nothing else unless it is stated here.
Histories (`wNew`, `ended`, `torn` and the like) are part of the models; no
variable was added for a proof.

### The frame pipeline

`FramePipelineProofs` proves every safety property of `FramePipeline` for all
values of the constants (`SinksAssumption`, `SizesAssumption`: a finite set of
sinks, at least one slot and one place).

The inductive invariant is a conjunction of parts, each proved inductive
relative to those before it (`Inductive`):

* `TypeOK` -- in particular the callback count, which an epilogue decrements
  without a guard, stays a natural number;
* `CallInv` -- where the core is with each sink: the callback count is the
  calls in flight, the producer and a hand-off are never both in one sink, and a
  frame is pending only on a linked, busy, asynchronous sink;
* `PinInv` -- a sink's `_pins` is the number of pins it really has (with its
  thread, pending, or on a call not entered yet), and zero outside a session;
* `RegistryInv` -- the reservation counts the attaches under way, and a sink is
  draining only with something still out;
* `SlotInv` -- a slot's `refcount` is the pins on it over all sinks, and the
  slot being filled has none;
* `DeliveryInv` -- a session's counters balance, and a sink that takes no second
  pin has one frame while it is busy.

None of the properties is inductive alone: an unpin saturates at zero, so that a
count says something only while it is exact (`PinInv`, `SlotInv`); it stays
exact only if each call has a pin of its own, which needs `CallInv`; and
`CallInv` survives a new attach, which resets the counts, only because a sink
comes home no sooner than its last pin and its last call (`PinInv`,
`RegistryInv`). Counts over sets are handled by numbering what is counted
(`Tokens`, `Counts`), since what a recursive sum computes cannot be proved with
the installed provers. Publish is the hardest step: it drops replaced pins and
adds new ones on several sinks at once.

Main theorems:

| Theorem | Property |
|---|---|
| `TypeCorrect` | `TypeOK` |
| `RefcountsExact` | pins on the slots and on the sinks are exactly the frames somebody has |
| `FramesStable` | a pinned frame is never refilled or restamped (action property) |
| `FillingPrivate` | the slot being filled is nobody else's |
| `DrainCheckSound` | a drain that says zero is right |
| `CallbacksExclusive` | one `consume()` at a time |
| `AccountingHolds` | delivered + dropped + in flight = offered |
| `BookkeepingHolds` | `ERR_STATE`, "memory is corrupt", is never answered |
| `CapacityHolds` | the registry never overflows |
| `MailboxHolds` | a sink that takes no second pin is never called while it has a frame |

### The camera stream

`CamStreamProofs` proves the safety properties of `CamStream` for any consoles,
any number of joiners and places in the table, and any size of the generations
(`GenSpaceAssumption`, `HoldersAssumption`, `StreamAssumption`). The operators of
the holder table come first, one lemma each: what a registration, a start, a
removal and an undo do to the table (`RegisterDoes`, `AddOrStartDoes`,
`RemoveDoes`, `UndoDoes`). Then three invariants:

* `Base` -- types, `StreamIffHeld`, `JoinedModeReadable`, and `Apart`: `sdram
  test` has the memory only while nobody holds or recovers the stream, and a
  stream that may still be recovered has recoveries left, so that the count of
  them stays within its type.
* `PlaceInv` -- `PlacesKept` and `TicketInv`: the table's next generation is the
  one after as many registrations as were made, and no join's ticket names a
  registration the operator has made since. That is what keeps an undo off
  somebody else's place.
* `StreamInv` -- the stream's generations are those of the streams counted, and
  a `camera off` waits for one that was started (or for none).

The last two compare generations, which wrap, and so need their number bounded:
`MaxRegs < GenSpace - 1` and `MaxStreams < HalfSpace - 1`, 2^32 - 2 registrations
and 2^31 - 2 streams from one boot to the next. `cs_nn` is an instance of both.

| Theorem | Property |
|---|---|
| `TypeCorrect` | `TypeOK` |
| `StreamsWhileHeld` | a stream runs, or is about to be recovered, exactly while it is held |
| `JoinersCanRead` | a joiner never holds the camera in a mode it cannot read |
| `PlacesAreKept` | a failed start takes back its own place and nobody else's |
| `OffWaitsForItsStream` | `camera off` is told of the end of the very stream it stopped |

### Live inference

`NnSessionProofs` proves the safety and action properties of `NnSession` for any
set of consoles. `Inv` is the conjunction of

* `Sorts` -- types, and where each thread can be;
* `OwnerInv`, `RunInv` -- the owner's state is that of the one command under
  way, and the run flag is up from the join to the stop's first store;
* `DrainInv` -- once a drain is done the producer is out and stays out, up to
  the commit;
* `WordInv` -- the hand-over word says where the producer and the worker are;
* `WorkerInv` -- a start that has the session finds the worker short of the
  model, and it cannot get there before the flag goes up;
* `FrameInv` -- a sample of a generation that is still current was taken of a
  frame from after the last attach, detach or stop;
* `ReportInv` -- what the record says of the plugin, while it is in a decode too;
* `ServeInv`, `OpenInv`, `AskInv` -- the one-shot: what the worker has promised
  to do next, who may still fill the input for it, and that it is asked for.

`InputExclusive` is `WordInv`, which needs all of the life cycle: a start resets
the word, and only `DrainInv` and `WorkerInv` say that neither thread is then in
the model's input. The two action properties follow because a publish and a fill
compare their samples in the same step. `nn_wake`'s window does not contradict
this: it breaks who has the session, not who has the input.

| Theorem | Property |
|---|---|
| `OneOwnerOfInput` | producer and worker are never both in the model's input |
| `RecordDescribes` | a reportable record describes what the plugin last decoded |
| `OneShotAsks` | a one-shot without a result keeps asking |
| `OvertakenNotPublished` | no frame from before a boundary is published (action property) |
| `NoFillAfterTheRun` | a one-shot that has ended takes no more frames (action property) |

### The model's replacement

`NnModelProofs` proves the safety properties of `NnModel` for any consoles, any
models and plugins, and either backend (`ModelsAssumption`, and
`NamesAssumption`: no console and no model is called like one of the words the
code's values stand for). `Inv` is the conjunction of

* `Sorts`, `LocalSorts` -- types;
* `OwnerInv` -- who may have the lease, the session and the memory;
* `WorldInv` -- the plugin is the open model's, whoever is in it holds the
  lease, and the bytes are the model's;
* `OddInv` -- the transition counter is odd exactly while somebody is in the
  middle of a change, and while it is even the world is at rest: name, claims,
  plugin and record agree with the model;
* for each console: `Sound`, that the calls it still has to make are in an order
  the code has; `Owns`, what it holds at each place; `Undone`, what it found
  before it changed anything; `Changing`, how far the change is; `AnswerInv`, what
  is left to do once its answer is known; `InfoInv`, what its report holds so far.

`AnswerTrue` speaks of the end of a script that several threads run beside, so
the invariant says at each call what the remaining ones will do (`Unmoved`,
`Renewed`, `Emptied`); it holds because the lease goes back only after the plugin
and the record are settled (`Before`). `InfoOfOneModel` needs only `OddInv`: two
equal, even samples have the world at rest between them.

| Theorem | Property |
|---|---|
| `TypeCorrect` | `TypeOK` |
| `WholeWhileUsed` | what is read, executed or drawn is whole and open |
| `ReportsOneModel` | a report that stands is of one model |
| `AnswersAreTrue` | a load or an unload has left what it answers |

### The blob store

`BlobStoreProofs` proves every property of `BlobStore` for any tasks, any finite
set of slots, any names, files, blocks, erase unit and staging buffer
(`StoreAssumption`). `Inv` is the conjunction of

* `TypeOK` and `Holder` -- the busy flag is one command's: every other is idle;
* `ConsoleOK` -- a console is claimed through the transfer and not beyond;
* `FlashOK` -- `ValidMeansWhole`, and that no two valid slots have one name;
* `Work(t)`, for the command that has the flag, place by place: `JobOK` (its
  locals), `ErasingOK` (how far the slot is blank), `FillingOK` (blank from the
  first block that was not flushed, and what was flushed is the stream),
  `AloneOK` (no other slot has the name), `FetchOK` (what a load found is there).

The four properties of states are parts of it. `FlashOK` is what a loss of power
leaves behind, since all of `Work` is then void; that it is kept rests on a slot
having no magic from the first erased unit to the last page (`FillingOK`), and a
read-back before that page. `UniqueNames` needs `AloneOK`, and that in turn the
mutual exclusion: another writer could validate a second slot of the name.

| Theorem | Property |
|---|---|
| `TypeCorrect` | `TypeOK` |
| `ReadBackAgrees` | what is read back is the stream, unless the flash failed |
| `ValidIsWhole` | a valid slot holds its file, after any failure or power loss |
| `NamesAreUnique` | no two valid slots of one name |
| `LoadReadsWhatItFound` | a load's slot stays the blob it found |
| `WriteSparesTheOthers` | a write destroys no other blob (action property) |

### YMODEM

`YmodemProofs` proves that both ends implement `Transfer`, for files of any
length, any retry limits and any losses, damages and delays (`SizesAssumption`,
`LimitsAssumption`). The parts of the invariant:

* `Base` -- types; where the two ends can be together; what is on the line and
  that block numbers never fall along it;
* `Believed` -- until junk was taken for an EOT: what the replies on their way
  back may make the sender believe (`Stage`). `SentMeansDelivered` is its last
  stage, and needs no bound on anything;
* `Flow` -- the sink has no block the sender has not taken, and none older than
  its last is still to come;
* `Near` -- how far the sender can be ahead of the sink. The receiver
  acknowledges by a number modulo `SeqSpace`, so a sender a whole lap ahead would
  have a new block taken for an old one. Every unit on the line was called for
  by a prompt or a retry, each answer on its way lets the sender take one block
  more and each unit draws one answer, so the lead stays within `Budget`: the
  retries allowed before the first block, and two blocks for each wait that ran
  out early;
* `Rest`, `InPlace` -- a padded block is the last; what the sink has is the file
  in order.

The hypothesis of the last three theorems below is that the numbers exceed that
lead: `HandshakeRetries + BlockRetries + 3 + 2 * MaxLate < SeqSpace`. With the
code's 40, 10 and 256 it allows 101 waits that run out while an answer is on
its way, in one transfer. It is sufficient and not necessary (`ym_xfer` is
outside it and passes), but some bound is needed: with two numbers TLC finds
the third block stored for the first. Waits that run out because something was
lost do not count.

| Theorem | Property |
|---|---|
| `SentBlocksArrived` | a sender's OK means its blocks were delivered, or junk was taken for an EOT |
| `NumbersSuffice` | the invariant `Base /\ Orderly /\ InPlace` |
| `TransferImplemented` | both ends implement `Transfer` |
| `OkMeansTheFile` | a receiver's OK means the whole file, but for the end of a padded last block |

### The background jobs

`ShellJobsProofs` proves every safety property of `ShellJobs`, and that it
implements `JobLedger`, for any finite set of consoles, any number of slots and
jobs and any size of the registry. The parts of the inductive invariant:

* `CallerInv` -- a thread in the middle of a reap or a launch is at a slot; a
  worker only reaps, and its own thread waits meanwhile;
* `KeepInv` -- a slot in LAUNCHING or REAPING has one keeper, and what its
  worker thread is at each of the keeper's steps;
* `JobInv` -- a number is given out once, is new until its thread exists, and is
  the command line of at most one slot; a slot's id is its number, or 0;
* `KillInv` -- a slot's cancel is exactly the kill of its number; a watch past
  its loop was killed;
* `RegInv` -- who is in the thread registry;
* `SizedInv` -- with a registry of the default size, no launch is undone and no
  id is 0.

`OneKeeper` is not inductive alone: that nobody keeps a RUNNING slot needs the
keeper's place in its sequence, and that a thread may be deleted or created
needs the state of the thread itself (`KeepInv`). The kill is exact because the
table is matched by id and the ids of live slots are their numbers (`JobInv`)
or 0, so that one number finds one slot. That a launch always finds room in the
registry is a count of threads (`RegistryRoom`); it is the only theorem pair
that needs `RegistrySized`.

| Theorem | Property |
|---|---|
| `JobTypesCorrect` | `TypeOK` |
| `SlotsKeptByOne` | a slot in transition is one thread's |
| `KillsExact` | no accepted kill is lost, none reaches another job |
| `PrintfFound` | a worker is registered as long as it prints |
| `LaunchesSucceed` | if `RegistrySized`: a claimed launch is never undone |
| `IdsHold` | if `RegistrySized`: ids are the jobs' numbers, no two alike |
| `PoolImplementsLedger` | the pool implements `JobLedger` |

### The NOR part

`NorPartProofs` proves every safety property of `NorPart` for any set of jobs,
any number of units, payloads and transactions (`ThreadsAssumption`,
`PartAssumption`). `Inv` is the conjunction of

* `JobsRead` -- a background job only reads, and who reads has nothing to write;
* `OwnerInv` -- state, owner and the foreground's place go together, and a
  failure reason is latched exactly in FAULTED;
* `BringInv`, `LeaseInv` -- one bring-up at most, before the first lease; the
  mask is the leases, one holder each, and only in XIP;
* `WindowInv` -- the window is up in XIP and RESERVED, where a transaction reads
  it, and where it ends without a fault;
* `CacheInv` -- outside the units the transaction has already touched, a cached
  line is the array's; at its end, everywhere;
* `TxnInv` -- place by place, what the report says of the array;
* `PayloadInv` -- the staging buffer is what was asked, from the fill to the
  commit;

with `AnswerTrue` and `ProgramsInTheDark` themselves. The answers need all of
it: that a read-back of the window proves anything takes a window that is up
(`WindowInv`) and no line from before (`CacheInv`), and that it compares with
the right bytes takes a buffer nobody else fills (`PayloadInv`), which holds
because jobs never write and the verify of a job, which does use the buffer,
needs a lease, which excludes the reservation (`LeaseInv`, `OwnerInv`). For
each step of a transaction a lemma says what it does to the report (`DropDoes`,
...) and another that the report stays true (`DropKeepsTxn`, ...).

| Theorem | Property |
|---|---|
| `TypesCorrect` | `TypeOK` |
| `ReadersAreCovered` | who holds a lease has a window and no writer; the mask is exact |
| `OwnerIsExact` | the published reservation is its holder's |
| `CacheIsCoherent` | no stale line in a readable window |
| `AnswersAreTrue` | what a write command answers is what the array holds |
| `DarkWhileProgramming` | no camera during a program or a cycle |
| `FaultIsForEver` | no step leaves FAULTED (action property) |

### Only model-checked

* The liveness properties (`DrainsHome`, `UnheldEnds`, `HeldComesBack`,
  `KilledEnds`, `BothReturn`, `SettlingEnds`, `PartComesBack`), which the prover
  cannot do under fairness.
* `LogRing`: `PassFaithful` and the refinement `LogKept`. Its boot walk
  (`Unwalked`) is a recursive function, and what it returns for every ring
  takes induction over data; what holds of appends and of a pass between two
  boots is the plan's next step.
* The `TypeOK` of `NnSession` and `Ymodem`, which no theorem states under that
  name: the `Sorts` of their invariants say as much, and more.

The other way round, `CapacityHolds`, `CallbacksExclusive`, `FillingPrivate`,
`AccountingHolds`, `BookkeepingHolds`, `SlotsKeptByOne`, `LaunchesSucceed`,
`IdsHold`, `FaultIsForEver`, `OkMeansTheFile` and the type invariants that the tables name
are proved and not part of a run.

## 5. Where code and comments disagree

`ym_prompt`. A repeated block 0 -- its ACK lost or late -- is acknowledged again
and sets the prompt to NAK, with no new 'C' (`ymodem.c:600-606`). The sender,
given that ACK, waits in `wait_c` for a 'C' and ignores a NAK (169-183). So
both ends wait until the receiver's retries are used up and the transfer fails,
though the line lost a single byte. `ymodem.c:558-560` says that a timeout
re-prompts "with 'C' before the first data block, NAK afterwards".

`nn_wake`. The worker reads the run flag (`nn_worker.c:324`) and says it is
active (331) in two steps, without reading the flag again. A whole stop and the
next start can run in between: the stop sees `nncam_active` 0 and takes the
worker for parked; the woken worker then arms, finds the flag still down (the
new start holds the session and has not raised it yet), leaves its loop, and
gives back the session the new start has just taken. The stream goes on and
writes the model's input with the session free, so that a load may be let in.
The comments at `nn_worker.c:327-330` and `nn_camera.c:589-591` say otherwise.

`nor_stage`. `nor write` fills the staging buffer (`cmd_nor.c:763-766`) before
it asks for the part (768). A background `blob verify` that is summing its chunk
in that buffer under the BLOB lease is preempted, and sums the pattern: a good
slot is reported as a CRC mismatch, while `nor write` itself is refused as busy.
`cmd_nor.c:709-711` and `blob_stage.h:34` say the reservation serialises the
buffer's users. The trace is six steps: start the part, take the lease, copy a
chunk, and type `nor write`.

Three more, seen while modelling and in no run:

* `camera_set_format` refuses while anybody holds the stream, so that "the
  recovery re-arms in the mode the holders joined, so the mode does not change
  under them" (`camera.c:1124`). `camera_probe` (1522) looks only at whether the
  stream is active; between an error's teardown and the recovery it is not, and
  a `camera probe` then resets the mode under its holders. nn is not hurt
  (`JoinedModeReadable` holds: the default is a mode nn can read), but the
  operator's chosen mode is gone without a refusal.
* `cli_job_launch` undoes a refused launch with `state = CLI_JOB_FREE` before
  `id = 0` (`cli_job.c:272-273`, 290-291), the reverse of the reap. Another
  console may claim the slot between the two stores, and its running job's id is
  then zeroed, so that `kill` cannot name it. It takes a refused launch, and with
  the default registry there is none (`LaunchesSucceed`, `IdsHold`): latent,
  until a build sets `CLI_THREAD_MAP_MAX` below one entry per console and job.
* `blob.c:259` (`grove-vision-ai-v2`) still speaks of a background `nor erase`,
  which issue #203 made a refusal.

## 6. What is left out

* Third-party code: ThreadX, FileX, NetXDuo, TFLM, the vendor SDKs.
* Register-level drivers, formatting, listing, argument parsing.
* `camera capture` and the single shot: for the stream's state its only effect
  is a probe.
* The JPEG path's arming details, the sensor's registers, the frame geometry.
* Validation of plugin and model containers: sequential arithmetic on bytes.
* In a transfer: bytes altered on the way back (replies carry no check), a
  receiver that is told no size, and the listing of `blob` and `fs`.
* The logs of the other boards, and the flag of `wio-lite-ai`'s blob store.
* In the shell: the output lock (lines of output are not interleaved here),
  priorities beyond what is said above, the wrap of the 32-bit job numbers, and
  what a compiler may reorder: plain stores of one thread are taken in program
  order.
* The components `PROJECT.json` marks "not_modelled", each with its reason.

## 7. Plan

Done: `FramePipeline`, `CamStream`, `BlobStore`, `ShellJobs`, `NnSession`,
`Ymodem`, `LogRing`, `NnModel`, `NorPart`, and all of them but `LogRing` proved.
Next, the more central first:

1. `LogRing`: the invariant of an append (what lies between the two offsets is
   whole records, the last perhaps under way), which needs no induction over the
   ring; then `PassFaithful` and as much of `LogKept` as it carries.
2. The composition of `NnSession` and `NnModel`, which `nn_wake` makes
   interesting: a load let in under a running stream.
3. The other boards' cameras: `wio-lite-ai`'s start, which waits for the
   generation that is stopping, and `grove-vision-ai-v2`'s, as further instances
   of the holder table.
4. The transport rings against their interrupts, and `wio-lite-ai`'s call/reply
   link.
