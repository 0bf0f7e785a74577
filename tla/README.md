# CPUDelaySim in TLA+

CPUDelaySim is a RISC-V simulator that keeps *function* and *timing* apart: an
instruction executes functionally, once, when the ID stage hands it over, and a
pipeline, two caches and a memory decide how many cycles everything takes. Most
of what can go wrong lies between the parts: in the order in which ticks,
callbacks and redirects meet, in objects that are reused, and in the one part
that really is concurrent, the log. This directory holds models of those parts,
TLC configurations that check them on small instances, and TLAPS proofs, for
every instance, of all their safety properties but two about decoding.

## 1. Inventory

Paths are relative to `src/`. The program has one simulation thread; `EMU::run`
(src/emu.cpp:44) calls, in every cycle, `Memory::tick`, `tick` of every cache
and `CPU::exec`. Callbacks are synchronous calls, often re-entrant. Only the log
has other threads (a pool).

| component | state | operations | hard behaviour |
|---|---|---|---|
| Cache base, LRU (src/cache/cache.cpp, replace/lru.cpp) | tag array, victim lists | splitAddr, match, get | fill after the set was flushed or the request replaced |
| DCache (src/cache/dcache.cpp) | state machine, idle_req, lookup_req, req_clear_wait, flush counters | lookup, tick, flush, redirect, parent's callback | a redirect or a flush in each state; a response after its request was cancelled |
| ICache (src/cache/icache.cpp) | the same without WRITE, in_callback | the same | the callback calls redirect() before it returns |
| PipelineCPU data side (src/cpu/pipelinecpu.cpp EXE, MEM, WB) | stages, mem_req_list, mem_end_map, exe_stall_cycle | exec, excRedirect, DCache callback | slots reused after a redirect; failing SCs take slots without an access |
| PipelineCPU front end (same file: fetch, ID, preId, frontRedirect, brRedirect) | pc, pred_pc, cache_req_list, id_* | exec, preId, redirects, ICache callback | fetch and function out of step; two rings of Inst objects without a check; wrong path |
| Memory (src/cache/memory.cpp) | device queue, DRAM queues, Ramulator's write slot | lookup (memoryRead, memoryWrite), tick, paddrRead/Write | attribution of answers, queues at their limit, a slot filled without a look |
| Devices (src/device, src/arch/riscv/clint.cpp) | one request slot each, registers, FIFOs, irq lines | tick, addRequest, checkResponse, read, write | overwritten requests, edge and level interrupts |
| Predictors, histories (src/pred) | tables, RAS, GHR, meta ring | predict, update, redirect | speculative update and rollback |
| RiscvArch (src/arch/riscv/riscvarch.cpp) | ArchState, cached MMU state | decode, updateEnv, handleException, translateAddr, CSRs, irqListener | delegation, nested traps, mip written by two parties, CSR reads at decode and writes at commit |
| Interpreter (src/arch/riscv/interpreter.cpp) and generated decoders (inc/arch/riscv/trans_rv32.h, trans_rv16.h) | pooled DecodeInfo records | one function per instruction | overlapping patterns, scattered immediates, fields left from an earlier instruction |
| AtomicCPU, CacheCPU | pc, inst_valid | exec | uninitialised exception |
| LogDB, DBHandler (src/common/dbhandler.cpp) | slice ring, states, pool tasks, file | addData, checkCompress, checkWriteback, close | threads, condition variable, buffers at their limit |
| Configuration, reflection, logging, statistics, scripts, softfloat | | | start-up, I/O, third party |

What makes each correct:

* **caches**: an accepted request is answered once or cancelled; a fill is
  labelled with the line that was fetched; a flush leaves nothing older behind;
  a redirect leaves the cache able to go on.
* **data side**: a memory instruction leaves MEM after its own access.
* **front end**: what is decoded is at the functional pc *and* in the chunk that
  was fetched; nothing executes behind an instruction that will redirect; ID
  never waits for a redirect that is not coming; no Inst is reused in use.
* **log**: the file holds the rows, all and in order; nobody waits for a
  notification that nobody will send.
* **memory, devices**: every request returns to its requester and its slot to
  the queue. **predictors**: a rollback restores the history. **UART**: its
  interrupt and status registers tell the truth; no byte is lost below the
  FIFO's capacity. **interrupt lines**: the edges add up to the levels.
* **traps**: a return brings back what its trap interrupted; the cached MMU state
  is that of the registers. **decoders**: a word goes to the function of the
  instruction it is. **instructions**: no stage reads a field of a DecodeInfo that
  its instruction did not write.

The hazards, one by one with their lines, are in `PROJECT.json`.

## 2. Modules

```
Cache ─┬─ DCache ─ DataSide ─┬─ MCDataSide
       │            │        └─ DataSideProofs (with CacheLemmas)
       │            └ refines ─ MemoryPort, ReadPort
       └─ ICache ─ FetchSide ─┬─ MCFetchSide
                    │         └─ FetchSideProofs (with CacheLemmas)
                    └ refines ─ ReadPort
LogDB ─┬─ MCLogDB
       ├ refines ─ RowLog
       └─ LogDBProofs
MemorySystem ─┬─ MCMemorySystem
              ├ refines ─ ReadPort
              └─ MemoryProofs
Fifo8 ── refines ─ ByteQueue ─┐
Serial ───────────────────────┤
Predictors ───────────────────┼─ MCUnits ─ UnitsProofs (with LinesProofs)
InterruptLines ───────────────┘
       └─ LinesProofs
Hart ─────────────────────────┬─ MCHart
Instructions (Records) ───────┤
Decoder (Decode32, Decode16; ─┴─ HartProofs
         reference: Encodings)
```

| module | models | notes |
|---|---|---|
| `Cache` | tag array and LRU of `Cache`/`LRUReplace` | pure operators; an address is the line it lies in, the tag is the line |
| `DCache`, `ICache` | the two classes, one action per handler and per case of `tick` | `flush_valid` and `flush_set` are functions of `flush_num`; `owed` is the parent's queue of accepted requests |
| `DataSide` | EXE, MEM, WB and `mem_req_list` over `DCache` | what ID hands over is any instruction at any time (`Issue`) |
| `MemoryPort` | what the pipeline relies on: a port with one access, a flag per slot | abstract specification |
| `ReadPort` | what a cache and the memory behind it agree on: one request out, one call back | abstract specification; `DataSide` and `FetchSide` are its callers, `MemorySystem` answers |
| `FetchSide` | fetch, `preId`, ID, branches and redirects over `ICache` | EXE and MEM are delays here; `DataSide` has their detail |
| `MemorySystem` | `Memory`, the request slots of the devices, DRAMsim3 and Ramulator as the code uses them | a cache is a requester with one request out, and one of them writes; shows what `owed` assumes |
| `LogDB` | addData, the pool's tasks, close | |
| `RowLog` | what the callers of addData see: a bounded log that is written in order | abstract specification |
| `Fifo8`, `ByteQueue` | fifo8.cpp as a ring; the queue it implements | abstract specification and refinement |
| `Serial` | the registers, FIFOs and interrupts of the 16550 | a register is the set of its bits |
| `InterruptLines` | CLINT, the interrupt register, irqListener, writes of mip | from device outputs to mip |
| `Predictors` | PipePredictor, GHR, RAS, GShare, the ring of metas | driven as ID, EXE and WB drive them |
| `Hart` | decode, updateEnv, CSR writes, interrupts and the MMU state | a register is the set of its bits; `frame` is a history variable |
| `Instructions` | what each implemented trans_ function writes in its DecodeInfo, and who reads it | a field is what it was written as |
| `Decode32`, `Decode16`, `Decoder` | the generated decoders and the extraction of operands | a word is its fields; a switch is a row indexed by its field |
| `Encodings` | the instruction set's listings, by extension | reference; not a translation of the code |
| `Records` | a record written over another | |
| `CacheLemmas`, `*Proofs` | proofs | |

**A cycle as phases.** `phase` is the next piece of the cycle; a phase is one
action, chosen among the cases of that piece of code. So one TLA+ step is one
tick, or one block of `exec()`, with everything it calls (a cache's tick and the
callback it makes, a redirect and what it does to both the pipeline and the
cache).

**Callbacks.** A handler that calls back is conjoined with the callback:
`DCacheTick == Tick /\ IF TickAnswers THEN MemCallback(...)`. The ICache's
callback may redirect the ICache before it returns; its handlers take
`redirected`, and leave the state that the code leaves (in `tick`, from IDLE,
`state = LOOKUP` overwrites what the redirect assigned).

**Function and decoding in `FetchSide`.** Addresses count half words and wrap.
What an instruction is (size, kind, prediction, fault) is chosen when `preId`
decodes it; where it goes is one of `Targets`. This covers all programs over
these addresses, stores to code and interrupts included. An interrupt sets the
exception and leaves the type, so an instruction with an exception may be predicted
taken: `preId` redirects on it, and it traps when it reaches WB (`Decodes`). An `Inst` object
carries `age`, the number of objects its ring has handed out since: reuse is
`age = RetireSize`. The age is the only thing added to the code's state. Behind
EXE only what MEM and WB read of an instruction is kept (`PastExe`, `PastMem`), and of
one with an exception `preId` keeps nothing of the decode; the code keeps the rest
and nobody reads it.

**Data left out.** The ids of a cache request where nothing reads them; the
dirty and shared bits, which nothing reads; wording, traces and statistics; the
database rows about instructions; the counters behind the 5000 cycle checks
(what the checks look for is stated as properties instead).

**Decode and commit in `Hart`.** ID decodes at the functional pc, even while it
waits for a redirect, and updateEnv runs when ID hands the instruction to EXE; an
instruction may so be decoded several times and discarded. Between decode and
commit only mip changes, from the devices, and FS, which a floating-point
instruction marks at decode. `Decode*` puts a record in `info`, `Update*` commits
it, `Discard` drops it. The masked read-modify-write functions (mie, mip, mideleg)
merge at commit; all other CSRs are read at decode and written whole. write_satp
ignores modes other than 0 and 8. The code would store the reserved 2 in MPP; that
software does not write it is the named precondition `LegalMpp`. A pending
interrupt is chosen before anybody looks whether it is delegated: in S with SIE
clear machine interrupts are masked too, and in M with MIE set delegated ones are
taken to M. General registers, tvec, cause and tval are data: after a jump or at a
handler the pc is any pc.

**Fields in `Instructions`.** decode clears the destination masks and the
exception of a pooled record; the rest is what the last instruction left. The
readers are predict, EXE, updateEnv and its choice of tval. `KnownMisread` names
every read that the code gets wrong (section 3).

**Decoders.** The parse trees are translated switch by switch. A function that
only ends the program is "stub": the vector and crypto extensions and a handful of
others, trans_illegal included, so an illegal compressed word ends the program
instead of raising an exception.

**Predictors.** Of the branches all but the direct jumps may fail in EXE
(`Mispredictable`), an indirect call included: its repair pushes onto the RAS again
(`Pushing`). The run has one type of each kind that the code tells apart: a
conditional branch, a direct call, an indirect call and a return.

**Memory.** A cycle is the DRAM model's reads, the write, the devices in their order,
the caches. EXE sends stores, AMOs and SCs as WRITE_BACK, and a miss passes the
command on, so that `lookup` takes the DCache's requests as reads or writes
(`Writers`). At a device the two differ in a field nothing reads. In DRAMsim3 a write
takes a request of the same queue as a read and comes back as a write response.
With Ramulator `memoryWrite` fills one slot (`write`), without a look at what it
holds, and the next tick answers from it, after the reads and before the devices.
With Ramulator the callback answers the oldest entry of `dram_read_queue`,
whichever read has completed: counts are right, attribution is not, and a cache
may be called back for the other's read.

**LogDB.** A row is a number. The steps of the simulation thread are its
accesses to shared data; a task has one step for its work, one for
`is_writing = false` and one for the critical section. `first` says which row
the bytes at the start of a buffer belong to, because a slice is closed by the
row that reaches or passes the end of its buffer. `RunsOver` says whether rows
divide the buffer.

## 3. Runs

All bounds are in the `.cfg` files; TLC exhausts each passing instance.

| run | shows |
|---|---|
| `dataside` | TypeOK; NoRequestLost (the CPU's ring and the cache agree on what is outstanding); OneOutstanding (at most one request at the parent, in MISS it is the request being served); LookedUpNextTick; FlushLeavesAtMostOne; the refinement of `MemoryPort` |
| `dataside_live` | AccessEnds |
| `dataside_wedge` (violation) | RedirectResets: a redirect that finds the DCache held in REFILL by a flush waits for a response that came already |
| `dataside_stale` (violation) | RetiredAfterAnswer: an answer that excRedirect left in mem_end_map is taken by a later access |
| `fetchside` | FetchInStep, NothingExecutedBehind, RedirectIsComing, AnswersInOrder, StallHasRest, NoInstReused, RedirectResets |
| `fetchside_live` | InstsKeepExecuting: ID hands over instructions at the functional pc for ever |
| `memsys` | OneAnswerEach (a requester that waits is called back exactly once, any other not at all), DeviceReqsConserved, EveryRequestAnswered |
| `units` | FifoIsQueue (the ring refines `ByteQueue`); IrqFollowsState, ReceiverConsistent, ThreNotLost (UART); MetaIntact, HistoryRestored (predictors); IrqLines, TimerLevel |
| `hart` | HartTypeOK, MmuStateFresh, TrapReturns; NoStaleField; DecodeMatches, ExpansionsAgree |
| `logdb` | TasksMatchStates, OneWriter, FileIsLog, AddDataEnds |
| `logdb_wakeup` (violation) | WaitHasWaker: addData waits when every slice is compressed and no task is left |
| `logdb_overrun` (violation) | FileIsLog when rows do not divide the buffer |

What was learned besides the four findings:

* The ICache does *not* have the DCache's wedge: a fence.i reaches EXE only
  when no request is at the parent, so no response can arrive during the flush
  it starts. `RedirectResets` holds in `fetchside` and fails in
  `dataside_wedge`, for code that looks alike.
* The branch of the ICache callback for a busy ID (pipelinecpu.cpp:46) is dead:
  fetch sends only when ID is free and nothing is stalled, so an answer always
  finds ID free (AnswersInOrder). `id_stall_inst`, which that branch alone sets,
  is never read before it is set *because* StallHasRest holds.
* An Inst is at most eight objects old when its last stage leaves it: nine per
  ring suffice, eight do not. `configs/pipeline/params.py` gives ten.
* Behind a fetch fault on a mispredicted path `id_remain_size` accumulates; the
  redirect that must follow clears it (TypeOK bounds it).

* The misreads that `KnownMisread` names: flw, fld, fsw and fsd never set the
  address that EXE translates; a floating-point instruction refused because FS is
  off leaves tval and type of an earlier one; so do fflags, frm, fcsr, misa and an
  odd pmpcfg with tval; lr leaves an offset where EXE reads a size; jalr of x0
  without a link register, and a word that nothing matches, leave the type.
* The 16550 starts with whatever malloc left in `fcr` and `recv_fifo_itl`;
  LSR.DR is right all the same. The rollback of the GHR loses the far end of the
  history, behind `hist_bits`: never read, if a snapshot was taken (a fetch
  fault has none of its own). In `RAS` the parameter `size` hides the number of
  entries, so that a redirect wraps the top at the size of an instruction; the top
  stays in range as long as the RAS has at least that many entries.
* An interrupt bit that software set in mip is lost when any device changes its
  line, because irqListener replaces the register. The machine lines are right.
* The decoders agree with the listings on every word checked, and every compressed
  word expands to the word that decode_insn32 gives to the same function.

**Bounds and why they are enough.** `dataside`: three lines in three sets of one
way, so that hits, misses and evictions occur in every state of a flush of three
ticks; two slots, the least that can be confused, and since an access is issued
only when the previous one is answered the ring never holds two, so that a
longer ring only delays reuse (and the proofs need no bound). The stale and the
wedge run use two sets and four slots, which is where their counterexamples
lie. `fetchside`: a line of one chunk, two lines in two sets, four half words;
instructions straddle chunks and wrap, targets are an even and an odd half word,
so branches go into the first and the second half of a chunk. Nine objects per
ring are exact. `fetchside_live` uses two lines in one set, so that every fetch
may miss and evict; `RetireSize` is 1 there because it only counts ages.
`logdb`: four slices and three workers so that compressing, writing and filling
overlap and the ring wraps more than once (19 rows, two per slice); close occurs
in every state of the ring. `MaxRows` bounds the calls of addData.

`memsys`: two caches, all three devices and a DRAM queue of two, the least that
holds a request of each cache (the shipped queue is longer and so never wraps as
often); one of the caches writes, as the DCache does; a UART delay of one lets an answer come in this cycle or a later one.
`units`: a FIFO and a UART of three bytes wrap and overrun; a GHR of three bits
with an index of three bits wraps; three meta slots for two instructions in
flight are the least that is enough (2 * InFlight - 1; the shipped seven are
below the ten of `retire_size`), and one fetch fault is enough to roll
back to another instruction's meta; two bits of time wrap. The units share no state, so one run explores their sum: the initial
state picks one and the others stay put.
`hart`: one supervisor and one machine interrupt, one bit of pc, and CSR
instructions that set or clear each bit steering a trap, a return or a
translation. `MaxWrites` = 3 bounds the writes: enough to delegate, enable and
overwrite a frame between traps; traps, returns and interrupts are not bounded.
`Instructions` has no bound. The decoder's states are all opcodes and f3; each
quantifies over f7, rs2 and, of the registers rd and rs1, zero and one, which is
enough for all of them by the theorem `EveryWordDecoded`. All half words are
checked.

**Deadlock** is checked in the cycle models, which never stop. It is not checked
for LogDB: the program ends with `close`, and the wait without a waker is
what `logdb_wakeup` reports.

**Fairness.** `EMU::run` loops for ever: weak fairness of `Next`. The memory
accepts a request that is presented again and again and answers what it
accepted: strong fairness of the accepting tick and of the response, since both
are enabled only in their phase; DRAM models and devices do this. Nothing is
assumed of the program that is run, of predictions or of faults; `AccessEnds`
names its own premise, that the cache gets ticks outside flushes, because a
program of fences can postpone a miss for ever. In LogDB every thread runs on
(weak fairness), and a task that tries again and again to take the mutex gets it
(strong fairness of `Finish`); a wait is not assumed to end spuriously. In
MemorySystem weak fairness of `Cycle` is EMU::run's loop, and strong fairness of
`CompleteRead` and of `CompleteWrite` says that a DRAM model completes at last every
read, in any order, and the write; with Ramulator the write does not even depend on
that model, because nothing else may happen before it.
In FetchSide strong fairness of `ExePass` and `MemToWb` says that EXE and MEM let
an instruction go at last: EXE counts a multi-cycle instruction down, and an access
in MEM ends when the data side answers it (`AccessEnds`, but for the wedge that
`dataside_wedge` shows).

## 4. Proofs

All theorems hold for every value of the constants that satisfies the named
assumptions of the modules: positive sizes, a set index for every line, "no
request" and "no instruction" values that differ from the real ones. What goes
beyond that is said below. `Spec` is the specification of the component.

| module: theorem | statement |
|---|---|
| `DataSideProofs`: `TypeCorrect` | `Spec => []TypeOK` |
| `RequestsKept` | `Spec => []NoRequestLost` |
| `AtMostOneFill` | `Spec => []OneOutstanding` |
| `PromptLookup` | `Spec => []LookedUpNextTick` |
| `FlushLeavesOneFill` | `Spec => FlushLeavesAtMostOne` |
| `Refinement` | `Spec => ImplementsPort` |
| `ParentRefinement` | `Spec => ImplementsParent` (ReadPort; also in `FetchSideProofs` and, of the memory, in `MemoryProofs`) |
| `OnlyRedirectWedges` | only excRedirect in REFILL makes the DCache wait for a response that is not due |
| `WedgeIsPermanent` | once it does, it does for ever |
| `NoFenceNoWedge` | without a fence `[]RedirectResets` |
| `OnlyLeftFlagsRetireEarly` | `RetireSize >= 2`: without a redirect that leaves a flag of `mem_end_map` set, `[]RetiredAfterAnswer` |
| `FetchSideProofs`: `FetchTypeCorrect` | `Spec => []TypeOK` |
| `RequestsAnsweredInOrder` | `Spec => []AnswersInOrder` |
| `StallKeepsRest` | `Spec => []StallHasRest` |
| `RedirectsAlwaysReset` | `Spec => []RedirectResets` |
| `NothingToUndo` | `Spec => []NothingExecutedBehind` |
| `RedirectAlwaysComes` | `Spec => []RedirectIsComing` |
| `FetchStaysInStep` | `Spec => []FetchInStep` |
| `InstsAreNotReused` | `RetireSize >= 9` implies `Spec => []NoInstReused` |
| `MemoryProofs`: `MemoryTypeCorrect` | `MemorySpec => []MemoryTypeOK` |
| `DeviceReqsAreConserved` | `MemorySpec => []DeviceReqsConserved` |
| `OneAnswer` | `MemorySpec => []OneAnswerEach` |
| `LogDBProofs`: `LogTypeCorrect` | `Spec => []TypeOK` |
| `PoolMatchesStates` | `Spec => []TasksMatchStates` |
| `WritesAlone` | `Spec => []OneWriter` |
| `LogIsIntact` | `~RunsOver` implies `Spec => []FileIsLog` |
| `LogRefinement` | `~RunsOver` implies `Spec => ImplementsLog` (RowLog) |
| `OnlyWritesAreMissed` | a wait without a task left is for a compressed slice, and nobody writes |
| `OneCheckWouldDo` | `~RunsOver`: checkWriteback would then submit the write of that slice |
| `UnitsProofs`: `UnitsTypeCorrect` | `Spec => []TypeOK` |
| `FifoImplementsQueue` | `FifoSpec => FifoIsQueue` |
| `IrqAlwaysFollows` | `SerialSpec => []IrqFollowsState` |
| `ReceiverIsConsistent` | `SerialSpec => []ReceiverConsistent` |
| `ThreIsNotLost` | `SerialSpec => ThreNotLost` |
| `MetasAreKept` | `PredictorSpec => []MetaIntact` |
| `RepairsBringBack` | room for the branches in flight implies `PredictorSpec => HistoryRestored` |
| `LinesProofs`: `LinesAgree` | `LinesSpec => []IrqLines` |
| `TimerIsLevel` | `LinesSpec => TimerLevel` |
| `HartProofs`: `HartTypes` | `HartSpec => []HartTypeOK` |
| `MmuFresh` | `HartSpec => []MmuStateFresh` |
| `TrapsReturn` | `HartSpec => TrapReturns` |
| `NoFieldIsStale` | `InstSpec => []NoStaleField` |
| `EveryWordDecoded` | DecodeMatches, checked with two registers, is about all 32 bits of every word |

**DataSide.** The inductive invariant is the conjunction of the first four. None
is inductive alone: a fill is typed only because `lookup_req` is defined while
something is owed; `NoRequestLost` survives a response only if it is the one
response expected (`OneOutstanding`) and survives a new request only because no
earlier one is still waiting (`LookedUpNextTick`), which in turn rests on the
phases between `lookup` and `tick`. The proof has a lemma per block of the cycle
and, below it, a step per action. The refinement follows: with `NoRequestLost`
the answered slot is the head of the ring, and with `LookedUpNextTick` an
accepted request finds the ring empty. For a flush, `FlushInv` says what the sets
already cleared hold: nothing as long as the fill requested before the flush is
owed, and nothing but its line afterwards, because no miss is sent during a
flush. `CacheLemmas` types the operators of `Cache`.

Two properties fail, and the proofs say exactly when. The DCache is wedged when it
waits for a response and owes none. No step but excRedirect in REFILL leads there and
none leads out; and REFILL outlasts a tick only during the flush of a fence
(`RefillIsShort`), so that a run without fences never gets there. An access retires
before its answer only by a flag that an earlier access left in `mem_end_map`: with
`SlotInv`, each flag and each entry of the ring belongs to the one access in EXE or
MEM, as long as redirects find no flag set.

**The caches and the memory.** `DataSide` and `FetchSide` answer from `owed` what
they asked for; `MemorySystem` has caches that ask at any time while they wait for
nothing. `ReadPort` is what each needs of the other, and all three implement it: the
caches ask only when nothing is out and take each answer for the request that is out
(`OneOutstanding`, `FrontInv`); the memory calls back only who waits, once
(`OneAnswerEach`). So neither side is verified against a partner that the other does
not match.

**FetchSide.** Five layers, each inductive given those before it. `FrontInv`: the
request that the CPU has sent is the one that the ICache works on, there is at
most one, and it is out only while ID is free; while a fence.i is about to flush
none is at the parent. `Order`: behind a trap nothing has executed and nothing
else has not, and `id_wait_redirect` is set exactly while a redirect is on its
way, but for the cycle in which a wrong-path branch has cleared it with the trap
in WB (`TrapOnly`). `PathInv`: the requests are for consecutive chunks, a redirect
that is coming goes to the functional pc, and otherwise the next chunk starts
`id_remain_size` behind the next instruction. `Bounded`: each fault decoded on a
wrong path adds a chunk, and the stage that the redirect has reached says how many
more there are. `AgeInv`: per stage, the age of its object and the objects still to
be handed out before it moves. Eight is reached, so nine objects are exactly enough;
`configs/pipeline/params.py` has ten.

**MemorySystem**, for every set of requesters, UART delay and DRAM queue with a place
for each requester. Neither `LinkList::next` nor the device queue checks for room:
each place names a different requester that waits, so that one which does not wait
leaves a place free (`NamesApart`, `WaitersNamed`, and the window of the ring,
`RingBounds`). The slot for writes is one more such place: what it holds is a request
of the only writer, which asks only when it waits for nothing, so that it is empty
then (`NoWriteYet`); with a second writer it would not be. OneAnswerEach needs the names only, and so holds with Ramulator's
attribution in whatever order the reads complete.

**LogDB**, for every ring, number of workers and number of rows; only FileIsLog needs
that rows divide the buffer, and `logdb_overrun` shows that it does need it. For the
pool, the counts become statements about positions in the list of tasks: each
task's slice has the state that its kind calls for, no two have the same slice, and
every slice in such a state has one. It needs that the slice being filled is FREE when
addData copies (`Filling`), and that a task which may still write has is_writing set.
For the file, turns are counted round the ring without end: those in the file, given
to a write, given to a compression, full. `LogAt` says which rows the slices between
the first and the last of these hold and in which state they are; it survives a
compression that ends early or late because a write takes turns in order and one at a
time. The loops of `close` are the one induction over data. The refinement of RowLog
reads off LogAt that a write appends exactly the next slice. The wait that nobody
ends (`logdb_wakeup`) is narrowed by `WaitInv`: before it waits, addData has tried to
hand over every full slice, and a writer that runs has a task; what is left is a
compressed slice whose write nobody has submitted, because no check follows the last
compression. The missing call is one checkWriteback, and a spurious wakeup would
make it.

**Units.** *Fifo8*: the ring's bytes in order are the abstract queue; head, push_all
and pop_buf may wrap anywhere. *Serial*: after every access IIR and the line are what
the registers call for, LSR.DR follows the receiver, and these imply each other
(`Good`); the initial state is any that malloc can leave. *Predictors*: of the
instructions in flight the resolved ones come first, at most two are unresolved, and
meta_idx has moved from an instruction's slot by at most one for each instruction in
flight from it on, and once more for each of those that is resolved and so may have
dropped one (`Kept`): 2 * InFlight - 1 slots keep the meta. For the
history, each snapshot lies as many branches behind the present history as ghr_idx
has moved (`Traced`). That ShiftSize gets the number back needs that ghr_idx is wide
enough and that the GHR holds `hist_bits` behind the branches in flight:
`GhrSize >= HistBits + InFlight` and `InFlight < 2^(IdxBits - 1)`. The shipped
parameters (`configs/params.py`: a GHR of 64 bits, `hist_bits` of 6, an index of 32
bits) leave both far behind, and the run `units` takes the first as an equation.
*InterruptLines*, for every width of the timer: IrqLines is inductive once
irqValid and msip are known to be Booleans; TimerLevel follows.

**Hart**, for every set of interrupts, every pc and every program of CSR
instructions with `LegalMpp`. Types are not inductive: a decoded write waits in
`info`, so `InfoOK` says what it may touch. `FramesHeld` is what makes returns
work: as long as a frame has not been written over, csr still holds its pc,
privilege and enable, because a trap to one level and a return from it leave the
other level's bits alone and a CSR write either leaves them or ends the frame.
The two-bit lemmas (`FieldShifted`, `FieldAgrees`) say that what a trap shifts
into SPP or MPP a return shifts out, SPP under a bit that belongs to another
field: it needs that a trap is delegated to S only from U and S.

**Instructions.** A handler starts by recycling the record, so what a stage may read
after a step depends on the handler alone. `Readable` says for each reader that it
reads what the handler wrote or one of the known misreads; there is a lemma per group
of handlers, and no field of the earlier record enters. That makes NoStaleField hold for
every sequence of instructions, not only those from a given state.

**Decoder.** `Alike` words have the same fields but for rd and rs1, of which they agree
on being 0. Each switch of decode_insn32 takes them the same way (but for vector
opcodes, where it may end the program at one place or another), and each encoding of
the listing asks of rd and rs1 nothing, 0, or not 0 (`AnyRegisters`). What the run
finds for registers 0 and 1 so holds for all.

**Induction over data.** The library's induction theorems take an operator and cannot
be used; with a set in its place they can. `LogDBProofs!Induction` is derived from the
well-foundedness of the natural numbers that way and carries the loops of `close`;
powers of two are counted as subsets (`PowerIsSubsets`).

**Only model-checked.** Liveness (AccessEnds, InstsKeepExecuting, AddDataEnds,
EveryRequestAnswered): TLAPS does not treat fairness and ENABLED. DecodeMatches for two
registers, and ExpansionsAgree: they compare finite tables and say nothing of steps;
TLC goes through every opcode, f3, f7 and rs2 and every half word, and a proof would
do the same enumeration one encoding at a time. The four violations are TLC's
counterexamples; the theorems about them say how far each reaches.

## 5. Plan

Done: caches, data side, front end, log, memory and device slots, predictors,
UART, interrupt lines, architecture state, instruction records, decoders; proofs
of every safety property of the runs but the two above; the refinements of
MemoryPort, ReadPort, RowLog and ByteQueue.

What a next step would add: the walk of translateAddr with its permission bits,
against the privileged architecture's table, over two levels and a page of two
entries; and the pipeline as one specification, with the caches' sides of ReadPort
put together with the memory's, to check end-to-end liveness.

## 6. Not modelled

* AtomicCPU and CacheCPU: AtomicCPU takes EXC_NONE (31) for an exception, decodes
  nothing, and its first updateEnv follows `env->info`, which is null. CacheCPU
  branches on an exception that a successful translation does not set
  (cachecpu.cpp:27), asks the ICache again in every cycle and takes any answer for
  that of pc. Neither has a behaviour beyond that which a model could add to.
* The results of the instructions and softfloat: data; the project compares them
  with a reference simulator (DIFFTEST). The proxy to that simulator is external.
* translateAddr's page walk and the permissions: whether a translation fails is
  chosen freely, with and without MPRV. CSRs that are only stored and read back.
* The bytes in memory, and the build with neither DRAM model, in which `lookup` calls
  back before it returns. Fetching four
  bytes across the end of a page (riscvarch.cpp:195) has no model, because none has
  both pages and bytes.
* SimpleUart, which no shipped layer.xml names (its addRequest is a fault of
  `MemorySystem`); the UART's socket and the RAM of BasicIrqHandler.
* The targets of BTB and RAS: they decide only whether a prediction fails, which
  is chosen freely. Predictor::predict with its delays, which the shipped
  configuration does not use.
* Configuration, reflection, logging, statistics and the scripts: start-up and
  I/O.
* The signal handler of main.cpp: it calls functions that may not be called from
  a handler, so the source does not define what happens.
* The JSON header of the log and the compressor.
