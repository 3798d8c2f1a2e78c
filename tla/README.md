# Kaspa FPGA miner: TLA+ models, checks and proofs

This directory models the miner of this repository from the clock edge of the
hash pipeline up to the event loop that talks to a mining pool. Every
definition is read off the source; the doc comments are used only for what they
promise. Paths below are relative to the repository.

    cd tla
    tlc -workers 2 -config MCWorkController.cfg MCWorkController
    tlapm WorkControllerProofs.tla

`PROJECT.json` lists the components, the runs, the lines each definition stands for, the
hazards and the theorems.

## 1. The system

    pool  <-TCP->  stratum.py  ->  Bridge  <->  MinerWorker  ->  miner_link.py
                   (event loop)              (thread)               | UART
                                                                    v
                          core.sv  <->  work_controller.sv  <->  uart_if.sv

| part | state it keeps | operations | what makes it correct |
|---|---|---|---|
| `hw/core/rtl/core.sv` | control FSM, job registers, `work_id`, admission counter, tag FIFO, `pow_hash` delay | START in any state, generate, load, stream, reset | a hit is a win of the current job, tagged with its own nonce; every nonce is tried once; no wait without end |
| matrix generator, cache | FSM, `done`, random words, the matrix being written | draw, check, draw again | a generation is complete only when the cache holds the block's matrix, the first draw of full rank |
| rank check | working copy of the matrix, column and row counters, verdict | load a row, find a pivot, eliminate | a verdict is about the matrix in the cache |
| matmul | load FSM, product tables, pipeline | rebuild tables, stream vectors | a vector meets one set of complete tables; the product is that of matrix and vector |
| cSHAKE core (two builds) | valid bits, sponge states, fold counter | take a message, pass it on | a fixed delay, every round once and in order |
| `work_controller.sv` | job words, found FIFO, held entry, `rdata` | bus write and read, push, reset | a bounded queue, read whole and once |
| `uart_if.sv` | frame FSM, request, response | take and send a byte | one bus access per good frame, a way back after bad ones |
| `miner_link.py` | write cache, input buffer | `transact`, `load_job`, `pop_found`, `forget` | an answer is the answer to its own request; the cache is true |
| `MinerWorker` | `pending`, `works`, `next_wid`, `bad_streak` | sync, load, pop, check, recover | counts work ids along with a core it cannot ask |
| `kheavyhash_ref.py` (the bridge's check) | the matrix of the last block asked about | `hash` | agrees with the hardware on every digest |
| `StratumClient` | session, extranonce, `_pending`, `connected` | connect, log in, dispatch, call, close | an answer settles its own call, a session's calls end with it |
| `Bridge` | job, target, prefix, nonce base, counts | callbacks, push, find, submit | shares go out in the session of their work; each find is counted once; a work has room under its prefix |

How they touch: the core reads the job registers in the cycle of START and
pushes finds into the FIFO at any cycle, also in that of a read; the UART reaches
the registers one word per transaction; the thread sees the board only through
transactions that may fail; thread and event loop share `pending` (one slot,
under a lock) and post finds with `call_soon_threadsafe`; the event loop's
callbacks, tasks and timers interleave at every `await`.

Hard behaviours: a START lands in any state of the pipeline; tags and data
travel on separate paths of equal length by construction only; edges (`done`,
`busy`) must be seen, not missed; the FIFO is pushed and popped in one cycle; a
level left high by the check before must not be read for the answer of this one; bytes
are lost or damaged in the middle of a frame, and the board has no timer for
one; the board is reset under a host that caches what it wrote; calls fail after the board has obeyed; ids wrap; answers, timeouts and
disconnections race. `PROJECT.json` lists each of these hazards at its line with the
properties that watch it.

## 2. Modules

| module | models | state and actions |
|---|---|---|
| `FoundQueue` | what the host is promised of finds | abstract: a queue, the entry removed last, the last answer; `Pop`, `Look`, `Reset` |
| `WorkController` | `work_controller.sv` | one variable per register; `Clock` is one edge of all `always_ff` blocks, `Reset` the asynchronous reset |
| `Cshake`, `CshakeLine` | what both builds share; what `core.sv` relies on | a delay line of messages |
| `CshakeFolded`, `CshakeUnfolded` | `cshake256_core.sv`, `FOLDED` 1 and 0 | a sponge is its message and the list of rounds it went through |
| `Keccak` | `keccak_round.sv`, the tables of `cshake256_core.sv`, and the Keccak and cSHAKE of `kheavyhash_ref.py` | pure, at full size: 1600 bits, 24 rounds |
| `Core` | control of `core.sv` with `matrix_generator.sv`, the cache and `matmul_pipelined_unit.sv` | one variable per register, one operator per `always_ff` block or FSM state; `Clock(job)` conjoins them, `job` is what `start` brings |
| `KHeavyhash` | `kheavyhash_ref.py`: xoshiro256++, matrix generation, rank, `hash` | pure; sizes, the sponge and `xor` are constants |
| `MatrixGenerator` | `matrix_generator.sv`, `matrix_rankcheck.sv`, `xoshiro256pp.sv`, the cache's read port, with data | `GenClock` |
| `Matmul` | `matmul_pipelined_unit.sv`, with data | `MatmulClock`: load FSM, product tables, stages |
| `Datapath` | generator, matmul and the XOR as `core.sv` wires them, with the bridge's `KHeavyhash` object | `Clock(pph, nonce)` |
| `UartIf` | frame layer of `uart_if.sv` | one step per byte time, `UartReset` |
| `MinerLink` | `miner_link.py` + the line + `UartIf` + `WorkController`, as `kaspa_miner.sv` wires them | `LoadJob`, `PopFound`, `forget`, `Transact`, `Answered`, `TimedOut`, `Wire`, `WireFault`, `Found`, `BoardReset`, ... |
| `MinerWorker` | the miner thread and the board it sees | one action per call of `run`, `sync`, `load`, `check` |
| `Extranonce` | prefixes and nonce bases of `stratum.py`, the nonce counter of the core | pure |
| `PoolBridge` | `StratumClient` and `Bridge` | one action per stretch between two awaits |
| `...Proofs` | | the theorems of section 5 |
| `MC*` | | constants of the instances |

Composition: `Core` uses for a cSHAKE core the delay line that both builds are
proved to implement. `Core` has the control with symbolic data, so that a START may come in
any state; `Datapath` has the data with the control of a START at a time. `MinerLink` instantiates `WorkController` whole, so the three
reads of a find are checked from the wires to the host. `MinerWorker` takes from
`MinerLink` that a call either does what it says or fails at some point, and from
`Core` that a find carries the id of its own job. `PoolBridge` takes of the
thread only that it may post a find of any work it was given; it needs no more,
so nothing about the thread can make its properties hold. It draws its prefixes
and bases from `Extranonce`.

### Abstractions

* **Hashes in `Core`** are symbolic: a digest is the triple of header, matrix and delayed
  header it was computed from, and any mixture shows as a triple that is not
  that of one header. A matrix is its seed and the draw that produced it. The
  number of draws until full rank is a parameter.
* **Data in `Datapath`** is computed, with fewer and shorter rows. cSHAKE256 there is one
  function on both sides; that the two sides' cSHAKE agree is what `Keccak` checks at full
  size, on the round, the tables and the padding. Round constants and rotations are transcribed
  once from the RTL and once from the reference permutation. One that is wrong in either fails the
  check, and so does one that is wrong in both alike, because the hardware's 1600-bit tables come of the right ones.
  `xor` is a parameter too, which the instance gives the bitwise operator, so that the modules that
  are proved about use none. The reference's rank works with floats and a tolerance; `KHeavyhash` has it over exact numbers. Every digest is checked, where the
  bridge checks those below the target. A draw is repeated `ATTEMPTS` times at most in the
  reference (1000 in the code); the hardware draws for ever.
* **Latencies and widths** are parameters with the order of the real ones. The
  real generator takes at least 256 cycles and a table load 1024, against at most
  26 for a cSHAKE core; the instances keep generation longer than a cSHAKE core,
  which is the margin `core.sv:275-279` argues from.
* **One step of `UartIf` is a byte time.** The clock cycles between the last byte
  of a request and the first of its response are far shorter than a byte. Baud
  generator, synchroniser and sampling of bits are not modelled.
* **Line faults**: a byte is lost, or one of its bits is flipped, at most one byte
  per transaction. Two flips of the same bit position in one frame cancel in an XOR
  checksum, so with two the frame check could not hold. Bytes have six bits and words two bytes in the
  instance; the words are chosen to contain `SOF` and to look like the rest of a
  frame when the receiver starts in the middle. `EveryFlipIsNoticed` shows for all widths that one flip is noticed.
* **Board resets** in `MinerLink` come at any byte and count as a fault. The cache is
  wrong from then to the next `forget`, which the properties about it say. A `pop_found` that
  the reset falls into may return half a find and half zeros; `DeliveredWholeAndOnce` does not count
  that one, the bridge's own hash throws it away.
* **MinerWorker**: the FIFO does not overflow (the overflow is in
  `WorkController`), works have distinct headers, and a find of a replaced job
  reaches the FIFO before the next transaction ends, which takes thousands of
  cycles against the hundred of the pipeline. Before the bridge starts the board
  may be parked or mining some other job (`OLD`).
* **PoolBridge**: a pool that answers nothing stands for a reader that died; the
  order of `ready` is the order in which the event loop runs what was posted;
  `_close` is followed by at least five seconds, in which tasks already created run. The
  socket takes what is written (`drain` waits without a timeout, for a buffer of 64 KB).
  An extranonce that is refused (too long, not hexadecimal) changes nothing in a message; a too long
  one in the result of subscribe ends the program (finding 12), and is left out. A prefix of
  *p* bits is known by its span 2^(64-p). Number formats of targets and notify messages are left out.

### What the host owes

`core.sv` accepts a START in every state. Two of them it does not survive, and
`SafeStart` in `Core` excludes them:

* a START while the product tables are being built (LOAD): vectors that reach the
  matmul then are dropped without a trace and the tags go out of step (the
  assertion at `core.sv:281-283` fires in simulation);
* a START with another `pre_pow_hash` while the generator is at work: it
  looks at `start` only when idle, finishes the earlier matrix, and the core takes
  it for the new block's, although `docs/core/core.md:98-102` says a block switch cannot
  mistake one completion for another.

A third START is for nobody to send: a job whose `pre_pow_hash` is zero. After a reset `pph_reg` is
zero, so such a job counts as cached and streams through tables never built (`core.sv:313`). No block has
that hash; `NoZeroBlock` in `Core` says so.

The code does not check for either of the two; the transport is what prevents them. Two
STARTs are at least one transaction apart, a request and a response of eight
bytes. At the fastest setting `uart_if` can be given (16 clocks per bit) that is
2560 cycles; on the board (100 MHz, 115200 baud) it is about 138 000. A generation and its load take
about 1610 cycles with one draw, 2190 with two. A reset or a faster transport
would have to look for itself. The behaviour outside `SafeStart` was looked at with TLC
and violates `NoTokenDropped` and `GenerationIsFresh` respectively.

## 3. Runs

| run | specification | what it asks |
|---|---|---|
| `work_controller` | `PacedSpec`, 4 slots | pointers and count agree; the FIFO with its read port is `FoundQueue` (refinement) |
| `cshake` | both builds on one clock, 6 rounds, 2 circuits / 3 layers | valid bits, counter and fold agree; both implement `CshakeLine` (refinement) |
| `core_unfolded` | `RunSpec`, three jobs on two blocks, up to 4 STARTs | no item dropped, the right matrix, digests of one header, a fresh generation |
| `core_folded` | `FairSpec`, resets, up to 3 STARTs since reset | the tag FIFO's exact size, the second core is free, tags follow items, consecutive nonces, finds are wins, generations end |
| `datapath` | `Spec`, 4x4 matrix of 2 bits, 6 seeds | the verdict is about the matrix in the cache, the first draw of full rank is kept, the digest is the reference's, both sponges are one |
| `core_work_id` | `RunSpec`, ids modulo 8, any number of STARTs | an id does not come back with old items in flight |
| `miner_link` | `FairLinkSpec`, one fault of the line or reset of the board, anywhere | answers belong to requests, the cache is true, finds whole and once, back in step, transactions end |
| `miner_link_late` | `LateSpec` | **violated**: one late answer and resending never helps |
| `miner_worker` | `FairSpec`, ids modulo 4, one failing call | ids in step, finds credited, hand-overs are shares, mining resumes |
| `miner_worker_sync` | `Spec` | **violated**: sync may learn the id of the job before |
| `pool_bridge` | `FairSpec`, 2 sessions, 4 messages, 2 finds | shares in their session, each find counted once, works have room under their prefix, every find settles |
| `pool_bridge_reconnect` | `Spec` | **violated**: a void job's shares are sent after a reconnection |

**Bounds.** A run is bounded by its constants only; each bound is a named
constant used in a guard (`MAX_STARTS`, `MAX_FAULTS`, `MAX_SESSIONS`,
`MAX_MESSAGES`, `MAX_FINDS`) or a width. Four FIFO slots wrap
both pointers in all relative positions. Four STARTs are enough for a START in
every state with items of two earlier jobs in flight, from cached to new block
and back. Eight ids with more STARTs than ids wrap `work_id` while the pipeline
holds fewer items than there are ids, as it does in the real core (256 ids, one
transaction between STARTs). In `datapath` four rows of
four two-bit numbers are the least with two words to a row, two nibbles to a byte and two
stages with two products each; its sums fit the accumulator (36 below 2^6) as
the real ones do (14 400 below 2^14), and the rotations of xoshiro stay distinct. The six seeds are chosen so that hardware and
reference keep draws 0 and 0, 1 and 1, 2 and 2, 1 and 0, 0 and 1, and 0 and none: draws are
repeated up to twice, and the two ends agree and disagree. Two nonces with gaps between
them put vectors of two blocks and nothing at all beside each other in the stages. The reference object's
matrix cache is hit, missed and cleared by a failed draw (202 666 states, 242 deep). One failing call is enough for each to fail before or after the
board obeyed, with a resync after it; four ids and a history of three make
ids and history wrap. Two sessions are what a reconnection needs, four messages
are enough for job, target and extranonce in one session and one more in the
next. Four nonces, prefixes of one bit and of
none, and room for two make every base of every work occur. One fault on the link
comes at every byte of every kind of transaction, and the state graph is 215 deep; that
more faults break none of the invariants is proved (section 5).

**Fairness.** The clock goes on (`WF(Clock(None))`: a reset may come at any edge, and a START,
at most `MAX_STARTS` of them between two resets). Bytes on the wire arrive and `ser.read` returns or times out,
which pyserial's timeout guarantees. The thread's loop goes on while its calls
return, and the sync job's easy target finds. The event loop runs what is ready
and its timers expire (`asyncio.wait_for` in `_call`). Nothing is assumed of the
pool, of the network or of the miner's luck: no fairness on connecting,
messages, answers or finds of pool work.

**Slips.** Definitions named `Mutant_...` are plausible mistakes in the
definition they precede (a dropped guard, a late wrap, a missing reset). With one of them
in place of the original, the property it is paired with in `PROJECT.json` fails.
They are used nowhere else.

## 4. What the runs show of the code

Disagreements between code and comments or docs, as `PROJECT.json` has them under
"findings". Those marked (run) have a run that TLC finds violated.

1. **A late answer is never thrown away** (run `miner_link_late`). `transact` does not clear the input
   buffer, so after one answer slower than the timeout each request reads its
   predecessor's answer (`miner_link.py:98`).
2. **sync may learn the wrong id** (run `miner_worker_sync`). It does not drain the FIFO before it pops the
   find it learns from (`pool_bridge.py:133`); the bridge corrects itself only after
   `RESYNC_AFTER` finds were lost.
3. **A void job is sent again** (run `pool_bridge_reconnect`). After a reconnection, a target or extranonce before the
   first notify stamps the old job with the new session (`pool_bridge.py:217`).
4. **A full found FIFO does not drop its oldest entry.** The write pointer moves, the read
   pointer does not, the count stays: the next pop is the newest entry and pops lag
   until a reset (`work_controller.sv:133`). `pool_bridge.py:39-41` knows. With `Spec` for
   `PacedSpec`, TLC finds `ImplementsFoundQueue` violated.
5. **Hardware and reference mean different ranks.** The rank check eliminates over bits
   (256-bit rows, GF(2)), the reference over numbers (`matrix_rankcheck.sv:103`,
   `kheavyhash_ref.py:493-530`). Neither implies the other: among the six seeds of `datapath`
   two keep different draws at the two ends, and one is mined with a matrix that the
   reference never accepts. `AgreesWithReference` in `Datapath` states what one would
   want, and is false; `DigestIsReference` is about the seeds on which the draws agree. A random
   64 by 64 matrix nearly always passes both, so no test vector tells them apart.
6. **A board reset goes unnoticed.** Only an exception makes the thread call `forget`. Without
   one the next work is loaded with the changed words only, and the target, which the board
   lost, is not among them (`pool_bridge.py:126`, `miner_link.py:79`).
7. **The newest work is lost when its load fails.** It is taken out of `pending` first
   (`pool_bridge.py:109`). `NewestIsMined` in `MinerWorker` states it and TLC finds it violated.
8. **A find can end in no count.** `submit` does not catch the
   `ConnectionResetError` of `drain` (`pool_bridge.py:236`); `PoolBridge` counts it as "raised".
9. **A bad checksum is answered.** `docs/io/uart_if.md:165` says it just drops back to
   waiting; the code sends a NACK first (`uart_if.sv:244-251`).
10. **The generator always generates.** `docs/matrix/matrix_generator.md:7` describes a skip when the hash
    is cached; the code has none. `core.sv` compares the blocks and skips.
11. **The rank check's `done` is a level.** `docs/matrix/matrix_rankcheck.md:20` says one
    cycle; the code holds it to the next start. `VerdictIsRight` shows that the generator does not
    read the one left from the check before.
12. **A refused extranonce can end the bridge.** In the result of subscribe the `ValueError` of `parse_extranonce` is
    caught by nobody (`stratum.py:155-157`, `132-133`); in a message it is logged and ignored.
13. **`rdata` is a register.** `docs/work_controller.md:47-49` calls it plain combinational. Either way it is valid in
    the cycle after `re`.

Everything else the runs ask holds: see the table.

## 5. Proofs

What follows holds for every value of the constants that the named assumption of each
module allows; TLC evaluates the assumptions on the instances.

| module | theorems | assumes |
|---|---|---|
| `WorkControllerProofs` | `TypeCorrect`, `PointersAlwaysAgree`, `PacedImplementsFoundQueue` | `WorkControllerConstants`: at least one slot, the reset word starts nothing, "never written" is no find, job addresses are apart |
| `CshakeProofs` | `TypeCorrect`, `FoldStaysInStep`, `FoldedCoreIsDelayLine`, `PipelinedCoreIsDelayLine` | `CshakeConstants`: the round circuits divide the rounds |
| `MinerLinkProofs` | `EveryFlipIsNoticed`, `LinkTypes`, `AnswersAreOwn`, `BackInStep`, `CacheHolds`, `StartsWholeJob`, `FindsDelivered` | `UartConstants`: `OP`, `NACK`, `DIR` are three bits; `LinkConstants`: registers have different address bytes, job registers are not those of finds, the word read for a count is zero only for zero, "nothing" is no register and no word |
| `MinerWorkerProofs` | `TypeCorrect`, `CountKeepsStep`, `EveryFindIsCredited`, `OnlySharesHandedOver` | `WorkerConstants`, and `HistoryOutlivesFifo`: the FIFO is shallower than the history (4 and 64 in the code) |
| `PoolBridgeProofs` | `RoomUnderEveryPrefix`, `TypeCorrect`, `NoShareCrossesSessions`, `EveryFindInOnePlace`, `EveryWorkHasRoom` | `BridgeConstants` and `ExtranonceConstants`: a prefix divides the nonces evenly |
| `CoreProofs` | `TypeCorrect`, `NoTokenIsDropped`, `EveryBlockItsMatrix`, `EveryDigestIsOfItsHeader`, `SecondCoreAlwaysReady`, `TagFifoAlwaysFits`, `GenerationsAreFresh`, `TagsAlwaysFollowItems`, `NoNonceSkipped`, `NoWorkReturns`, `EveryFoundIsAWin` | `CoreConstants`, `NoneIsNoItem`; `GenerationOutlivesPipes`: drawing a matrix takes longer than the way through the first cSHAKE core and the matmul (256 cycles against 26 and 64 at most); `NoZeroBlock`: no job has the zero hash that a reset leaves in `pph_reg`; `IdsOutliveFlight`: more work ids than cycles of flight (256 against 116 at most) |
| `DatapathProofs` | `VerdictHolds`, `KeepsFirst` | `KHeavyhashConstants`: the words of a draw fill its rows; `XorOfWords`: words stay words; `PowersOfTwo`; `SeedsAreWords`; `EveryBlockHasAMatrix`: the hardware keeps no draw after the last that the reference tries |
| `DigestProofs` | `DigestsAreReference` | the same, with `MatmulConstants`: a table entry holds a product, an accumulator the nibble read of it; `XorOfNibbles`: the two nibbles of a byte do not touch each other; `PowersOfWidths`; `NoMatrixIsNone`; `HashesAreBytes` |

`PowersOfTwo` and `PowersOfWidths` say what 2^(m + n) is, of which the provers know nothing.
`EveryBlockHasAMatrix` is needed: the draws to compare with are the 1000 that the reference tries, and on a seed with
none of them independent over bits the hardware would draw on beyond them. The accumulator may be narrower than its sum: what is lost in wrapping is above
the nibble that is read, and 14 bits are just enough for that nibble.

**Work controller.** `PointersAgree` alone is not inductive: it needs the types, and the
refinement needs that the two held registers are of one entry, since the
abstract `held` is one value. So `RingInv == TypeOK /\ PointersAgree /\
HeldTogether`. The steps split on push and pop (`ClockCases`): with a push
the slot written is `Ahead(rd, count)`, which is no unread slot because `Ahead` is
injective below the depth (`RingInjective`) and because of `Room` there is such a slot
or the pop frees it. `ClockQueue` turns that into the sequence `Unread` being the
old one without its head and with the find appended; `ClockLook` and `ClockPop` match what the
read port answers; `ClockImplements` puts the abstract step together. `PacedSpec` and
not `Spec`, because without `Room` the theorem is false (finding 4). The depth need not be a power of
two, since `Advance` wraps explicitly. `TypeCorrect` holds of `Spec`, overflow included.

**cSHAKE.** For the pipelined build, `TypeOK /\ LayersPassed`: a valid message in layer
*st* has gone through the first *st* times `ROUNDS_PER_STAGE` rounds, in order. For the
folded one, `TypeOK /\ FoldInStep /\ PassesMade`: `FoldInStep` ties the fold counter to
the one valid bit that may be set inside the fold, and `PassesMade` is the rounds behind
each bit. `FoldInStep` is what rules out that a second message enters while the first is
in the fold, so it has to be carried along. Both then map to `CshakeLine` step by step:
the line's items are the valid bits with their messages.

**Rank check.** `VerdictHolds` is about any matrix and any seed. The working matrix is `Loading` (the rows
asked for so far are those of the cache, one cycle late), `Flushing`, `Eliminating` or `Decided`; `RankInv`
says so for as long as the generator waits, and that a verdict it can see is never one left from an earlier check.
While eliminating, the rows are independent exactly if those of the matrix in the cache are, and the
matrix is an `Echelon`: each row with a pivot has a column before `col` that is in no other row, and the others are
zero up to `col`. Independence survives a swap (`SwappedStaysIndependent`) and the addition of
the pivot row to others (`AddedStaysIndependent`) because the parity of the ones that a set of rows has in a column is
that of another nonempty set of rows of the matrix before (`OddOfDifference`), and because both can be undone. At the end
either every row has its own column (`FullIsIndependent`) or one is zero (`NotFullIsDependent`).

**Kept draw.** `KeepsFirst` follows the words from the generator into the rows. Its wires are xoshiro256++
(`WiresAreXoshiro`, with a rotation as two shifts), so that word *m* of draw *a* is word *a* `WordsOfDraw` *+ m* of
the block's run; bit by bit it lands where the reference has its element (`Layout`, `BitOfElement`,
`BitsOfDraw`). `DrawInv` says of each state of the generator how far the draw is (`Drawing`, `Drawn`, `Kept`) and that
all draws before it were rejected, for which it needs `VerdictHolds`; `TurnInv` is the handshake of control, generator and table
load, which keeps the block from changing in between.

**Digest.** `DigestsAreReference` adds `TablesInv` and `ItemsInv`. During a load the columns before its position are
of the new block and those after it still of the old; an item in layer *st* has met all columns up
to its own, its accumulator is their sum modulo 2^`ACC_W`, and it is ahead of a load that has begun (`busy => st >=
ld.col`), so it never meets a column that has been rewritten. That is what lets a load follow right behind the last vector of the
block before. The hardware adds by layers and the reference along the row: `SumStep` and `SumOfIntervals` say that neither the
order nor the cut matters, `TopOfAccumulator` that the wrap-around is not seen, `SumOfBits` that the nibbles
of a draw are those of its bits. `CachedInv` is the reference object's own cache: what it remembers is what it
would generate. The model has no step in which the theorem's `cshake256` is looked into; it holds for every sponge, and
`SpongeIsReference` is about the real one.

Induction is done on a set of numbers that has 0 and the successor of each of its members (`AllNumbers`, from the
well-foundedness of the naturals): for the run of the generator, the layout of a draw, and sums over finite sets.
TLC checked all of these invariants on the instance of `datapath` before they were proved.

**Register link.** The theorems are about `LinkSpec`, for any length of word, any register map,
depth of FIFO, number of finds and number of faults. They rest on `EveryFlipIsNoticed`: a single flip
after SOF changes one place of the exclusive or that the last byte is compared with, and no other
byte can hide it. The invariant has three storeys.

`Types` and `PhaseInv` follow one transaction from the wires to the host. `PhaseInv` says where the board stands. It has
taken every byte of the request so far for what it is (`Whole`); the same but for one bit (`Struck`); it
is in a frame that began before (`Leftover`); it has missed a byte so that the rest makes no frame
(`Behind`). In the first three it has made no bus access (`Before`); after that it is sending (`Sending`) or
done (`Done`), and the response is about the one access made, or a refusal. The count of failures is carried in the same
invariant: in a `Leftover` at most one transaction has failed since the fault, the answer that comes
out of it may not be to the request and is then the second failure, and after it the board waits for SOF. That is
`BackInStep`; the checks of the host against `Responds` give `AnswersAreOwn`. `Unknown` is the
link to the other storeys: while the board may be in a leftover frame, nothing is cached and no find
is half popped, so a write or a pop that the board makes of stray bytes is harmless.

`CacheInv` and `LoadInv`: the word being written is not in the cache, and what the access has left on the board is what was
sent; a word of the job is cached as the job has it, or still to do. So at CTRL all of them are on the
board (`StartsWholeJob`).

`FifoInv` and `PopInv`: finds in the FIFO carry the numbers after those that left it, and
the stages of a pop (`AtCount`, `AtNonce0`, `AtNonce1`, `AtWorkId`) say what has been read: a count
that was not zero stays so until the first word is asked for, and from then on the held find is a
new one and the words read are its. Bytes damaged in the middle of a pop end it, a reset marks it torn; the
next pop begins anew, at a later find. `DeliveredWholeAndOnce` then follows from the numbers.

TLC checked the parts of the invariant on the instance of `miner_link` before they were proved.

**Miner thread.** That a find is credited needs the age of everything in the FIFO:
`Recorded` says that the entry at place *i* was made by one of the last `FOUND_DEPTH - i`
loads or so (one more in the middle of a pop), so that it is still in the history when it is
popped; `Older` is the arithmetic of ids modulo `WID_MOD` behind it. It needs `Books` (no id is
known while sync runs) and `SyncInStep` (what sync pops against core's id), and holds only while the id was learned rightly, which is finding 2's
condition. `OnlySharesHandedOver` needs none of it: the bridge hashes a find before it hands
it over.

**Bridge.** The invariant is `TypeOK /\ Books /\ JobsNumbered /\ TasksOfThisSession /\
BasesDrawn /\ SentInItsSession /\ CountedOnce`. `CountedOnce` needs `Books`: what was never posted was never sent and has no outcome.
`JobsNumbered` keeps a new job's number within the bound. `SentInItsSession` needs that no task of an earlier session is left over when a new
one starts (`TasksOfThisSession`), which is what the five seconds after `_close` give.
`EveryWorkHasRoom` is `BasesDrawn` with `RoomUnderEveryPrefix`.

**Core.** `StreamsThroughItsMatrix` and `DigestsAreRight` each need nearly all of the rest, so there is
one invariant: `Types /\ ControlInv /\ ItemsInv /\ DigestsAreRight /\ Spaced /\ tag_occ =
Cardinality(InFlight)`. `GenInv` and `HandshakeInv` say where generator and control stand to each other: `done` is
up only while the generator is idle, and a start that has not been heard has not been
acknowledged. With both, `gen_ack` and `done` together can only mean that the generation of this block is over
(`CompleteIsFresh`, hence `GenerationsAreFresh`). `LoadInv` follows the tables through a
load, `TablesInv` keeps them after it. `QuietInv` counts along with the generator: after *n* cycles of
drawing, the first *n* stages of the way to the product are empty, so that by the end of a generation
(`GenerationOutlivesPipes`) nothing is left that a load could drop or mix; that is `NoTokenIsDropped`, and
why `ItemsInv`, which says that all items before the product are of the block in the tables, survives a switch of
block. `Spaced` says that items in flight are `N_MAX` apart. An item that leaves the matmul therefore finds the
second core done with the one before (`SecondCoreAlwaysReady`), and the ages in flight fall into different ones of
`TAG_SLOTS` intervals of `N_MAX` cycles, so there are no more of them than slots (`SlotsSuffice`).
On top of it stands `TagInv`, about the tag FIFO. `TagOf(0)` is the slot the next item will get, and a step takes the slot of
age *n* to that of age *n + 1* (`SlotKept`), so that writing and reading pointer need no case of their own; that the slot written
is nobody else's is `SlotsApart`, which needs `TagFifoFits`. `OwnTag` says that an item's work id
is `work_id` of *k* STARTs ago with *k* at most its age: with `IdsOutliveFlight` an id equal to the current one
means *k = 0*, the current job. This is where one START per cycle at most is enough and nothing else about the host is
asked. `EveryFoundIsAWin` puts `OwnTag` and `DigestsAreRight` together for the item that leaves.
The theorems are about `Spec`, with resets at any cycle and every START that `SafeStart` admits.
`NoZeroBlock` is not a convenience: without it the theorems are false, since a job with the zero
hash after a reset streams through tables never built (`core.sv:313`).

**Only model-checked**: `SpongeIsReference`; `GenerationEnds` of `Core`, `TransactionsEnd` of `MinerLink` and all
other liveness; the violated runs. Liveness under fairness and `ENABLED` are outside what TLAPS can do here.
`SpongeIsReference` compares two evaluations of 24 rounds on 1600 bits, with the bitwise and recursive
operators of `Keccak`; there is nothing in it to generalise over, and the provers have no theory for
those operators.

## 6. Not modelled

* Bit sampling, synchroniser and baud generator of the UART; clocks, LEDs and XADC of
  the boards; the fake core for bring-up.
* `keccak_f1600.sv`, which nothing instantiates, and the matmul's internal matrix store
  (`INTERNAL_MATRIX = 1`), which `core.sv` does not build.
* The two batch forms of the reference hash, which only tests call, its printing, and the
  generators of test vectors but for the permutation in one of them.
* Number formats in `stratum.py` (targets from difficulties, the notify forms): data,
  and floating point.
* The `uart` tool, the status display, the resource estimate: output.
* `MinerWorker` with an overflowing FIFO (in the second of sleep after a failure the sync job may
  find more than four times) or with a board reset: both are looked at where they bite,
  in `WorkController` and in `MinerLink`, but not with the thread on top.
* The `RuntimeError` of a reference hash without a full-rank draw in 1000, which would end the thread: a
  `MinerWorker` never meets one. `KHeavyhash` has it (`NoMatrix`).
* A START outside `SafeStart` in composition with the host.

## 7. Plan

The order is from the data path outward, because a fault there is the least
visible from the host. Abstract specifications: `FoundQueue`, `CshakeLine`.

Done:

1. `WorkController` with `FoundQueue`, refinement, proofs.
2. The cSHAKE builds with `CshakeLine`, refinement, proofs.
3. `Core` on top of `CshakeLine`.
4. `UartIf` and `MinerLink` composing it with `WorkController`, board resets included.
5. `MinerWorker`, `PoolBridge` with `Extranonce`, proofs.
6. The data path against the reference: `KHeavyhash`, `MatrixGenerator`, `Matmul`,
   `Datapath`, `Keccak`.
7. Proofs of the safety of `Core`, from `GenerationOutlivesPipes` and `NoZeroBlock`.
8. Proofs of the safety of `MinerLink`, line faults and board resets included.
9. Proofs of the data path: the rank check's verdict, the draw that is kept, the digest.

Left:

10. A reset of the board and an overflowing FIFO under `MinerWorker`.
11. The number formats of `stratum.py`.
