-------------------------------- MODULE Core --------------------------------
(***************************************************************************)
(* core.sv with its matrix generator, matrix cache, matmul and the two     *)
(* cSHAKE cores, one clock edge at a time.  A step takes every always_ff   *)
(* block once; all of them read the registers as they were before the      *)
(* edge, which is what nonblocking assignment means.                       *)
(*                                                                         *)
(* Data is symbolic: a hash is identified with what was hashed, a matrix   *)
(* with the seed and the attempt that produced it.  The latencies and the  *)
(* widths of the counters are parameters, so that a small instance keeps   *)
(* the orderings of the real one (256 + rank-check cycles to generate,     *)
(* 1024 to load, up to 26 per cSHAKE).                                     *)
(***************************************************************************)
EXTENDS Naturals, FiniteSets

CONSTANTS
  FOLDED,       (* CSHAKE_FOLDED: one item per cSHAKE core at a time.      *)
  C_LAT,        (* cycles of a cSHAKE core, C_LAT_CSHAKE in the code.      *)
  M_LAT,        (* MATMUL_STAGES.                                          *)
  GEN_LAT,      (* cycles a matrix takes to generate (256).                *)
  RANK_LAT,     (* cycles a rank check takes.                              *)
  LOAD_LAT,     (* cycles the product tables take to build (1024).         *)
  NONCE_MOD,    (* 2^64.                                                   *)
  WORK_MOD,     (* 2^8.                                                    *)
  Pph,          (* The pre_pow_hash values.                                *)
  ZeroPph,      (* The reset value of the pph registers.                   *)
  Ts, ZeroTs,   (* The timestamps.                                         *)
  MAX_TARGET,   (* Targets and hashes are 0 .. MAX_TARGET.                 *)
  Attempts,     (* pph -> how many matrices are drawn until full rank; 0   *)
                (* for a seed that never yields one.                       *)
  HostJob,      (* The jobs the host starts.                               *)
  MAX_STARTS,   (* Bound: the host starts only while work_id is below it.  *)
  HashOf(_),    (* The final hash of a digest.                             *)
  None          (* No item in a pipeline stage; no matrix.                 *)

ASSUME CoreConstants ==
  /\ FOLDED \in BOOLEAN
  /\ C_LAT \in Nat /\ C_LAT >= 3
  /\ M_LAT \in Nat \ {0}
  /\ GEN_LAT \in Nat \ {0}
  /\ RANK_LAT \in Nat \ {0}
  /\ LOAD_LAT \in Nat \ {0}
  /\ NONCE_MOD \in Nat \ {0}
  /\ WORK_MOD \in Nat \ {0}
  /\ ZeroPph \in Pph
  /\ ZeroTs \in Ts
  /\ MAX_TARGET \in Nat
  /\ Attempts \in [Pph -> Nat]
  /\ HostJob \subseteq [pph : Pph, ts : Ts, nonce : 0 .. NONCE_MOD - 1,
                         target : 0 .. MAX_TARGET]
  /\ MAX_STARTS \in 0 .. WORK_MOD

(* A generation takes longer than the way through the first cSHAKE core    *)
(* and the matmul: 256 cycles against 26 and 64 at most.                   *)
ASSUME GenerationOutlivesPipes == GEN_LAT + 1 >= C_LAT + M_LAT

(* After a reset the core takes the zero hash for the block it streams.    *)
ASSUME NoZeroBlock == \A job \in HostJob : job.pph # ZeroPph

(* One item per N_MAX cycles is admitted; an item is in flight TOTAL_LAT.  *)
N_MAX == IF FOLDED THEN C_LAT ELSE 1
TOTAL_LAT == C_LAT + M_LAT + C_LAT

(* Slip: the number of slots is rounded down.                              *)
Mutant_TagSlotsRoundedDown == TOTAL_LAT \div N_MAX

TAG_SLOTS == (TOTAL_LAT + N_MAX - 1) \div N_MAX

VARIABLES
  (* control *)
  state, gen_ack, matrix_gen_start, mm_reload, load_seen,
  blk_pph, pph_reg, ts_reg, nonce_ctr, tgt_reg, work_id,
  (* matrix generator and the matrix cache it writes *)
  fsm_current_state, gen_ctr, seed, attempt, done, cache,
  (* matmul: table load, tables, valid pipeline *)
  ld_state, ld_ctr, tables, mm,
  (* cSHAKE pipelines and the delayed pow_hash *)
  c1, c2, ph_delay,
  (* admission and tag FIFO *)
  admit_ctr, tag_nonce, tag_work, tag_wr_ptr, tag_rd_ptr, tag_occ,
  (* outputs *)
  found, found_nonce, found_work_id

control == <<state, gen_ack, matrix_gen_start, mm_reload, load_seen,
             blk_pph, pph_reg, ts_reg, nonce_ctr, tgt_reg, work_id>>
generator == <<fsm_current_state, gen_ctr, seed, attempt, done, cache>>
matmul == <<ld_state, ld_ctr, tables, mm>>
pipes == <<c1, c2, ph_delay>>
tags == <<admit_ctr, tag_nonce, tag_work, tag_wr_ptr, tag_rd_ptr, tag_occ>>
outputs == <<found, found_nonce, found_work_id>>
vars == <<control, generator, matmul, pipes, tags, outputs>>

Nonce == 0 .. NONCE_MOD - 1
Work == 0 .. WORK_MOD - 1
Target == 0 .. MAX_TARGET
TagSlot == 0 .. TAG_SLOTS - 1
Job == [pph : Pph, ts : Ts, nonce : Nonce, target : Target]

(* The matrix the k-th draw from a seed gives, and the one that is used.   *)
Drawn(p, k) == [seed |-> p, attempt |-> k]
MatrixOf(p) == Drawn(p, Attempts[p])
Matrix == [seed : Pph, attempt : Nat]

Header == [pph : Pph, ts : Ts, nonce : Nonce]
Digest(h) == [vec |-> h, mat |-> MatrixOf(h.pph), pow |-> h]

Line(Item, n) == [1 .. n -> Item \union {None}]
SomeMatrix == Matrix \union {None}
Product == [vec : Header, mat : SomeMatrix]
Summed == [vec : Header, mat : SomeMatrix, pow : Header \union {None}]

(* At most one START per cycle and fewer cycles in flight than there are   *)
(* ids: 256 against 26 + 64 + 26 at most.                                  *)
ASSUME IdsOutliveFlight == WORK_MOD > TOTAL_LAT

ASSUME NoneIsNoItem ==
  /\ None \notin Header /\ None \notin Product /\ None \notin Summed
  /\ None \notin HostJob

-----------------------------------------------------------------------------
(* Wires: what the combinational logic makes of the registers.             *)

Shift(line, in) == [i \in DOMAIN line |-> IF i = 1 THEN in ELSE line[i - 1]]

(* A folded core is busy from the cycle after it took an item to the one   *)
(* before the item leaves (CshakeFolded.tla); an unfolded one never is.    *)
Busy(line) == FOLDED /\ \E i \in 1 .. C_LAT - 1 : line[i] # None

(* Slip: busy falls one cycle before the item leaves.                      *)
Mutant_c1BusyFallsEarly == FOLDED /\ \E i \in 1 .. C_LAT - 2 : c1[i] # None

c1_busy == Busy(c1)
c2_busy == Busy(c2)

c1_valid == c1[C_LAT] # None
m_valid == mm[M_LAT] # None
valid_out == c2[C_LAT] # None
mm_busy == ld_state = "LD_RUN"

header == [pph |-> blk_pph, ts |-> ts_reg, nonce |-> nonce_ctr]

(* Slip: admission paced by the counter alone.                             *)
Mutant_admitIgnoresBusy == state = "STREAM" /\ admit_ctr = 0

admit == state = "STREAM" /\ admit_ctr = 0 /\ ~c1_busy

nonce_out == tag_nonce[tag_rd_ptr]
work_out == tag_work[tag_rd_ptr]

(* Slip: a result of abandoned work may hit the new target.                *)
Mutant_hitAnyWork == valid_out /\ HashOf(c2[C_LAT]) <= tgt_reg

hit == valid_out /\ work_out = work_id /\ HashOf(c2[C_LAT]) <= tgt_reg

-----------------------------------------------------------------------------
(* Control FSM, core.sv:306-364.                                           *)

(* The job registers a START loads.                                        *)
LoadJob(job) ==
  /\ blk_pph' = job.pph
  /\ ts_reg' = job.ts
  /\ nonce_ctr' = job.nonce
  /\ tgt_reg' = job.target

(* Slip: gen_ack is left over from the generation before.                  *)
Mutant_StartKeepsAck(job) ==
  /\ LoadJob(job)
  /\ work_id' = (work_id + 1) % WORK_MOD
  /\ mm_reload' = FALSE
  /\ matrix_gen_start' = (job.pph # pph_reg)
  /\ state' = IF job.pph # pph_reg THEN "GEN" ELSE "STREAM"
  /\ UNCHANGED <<pph_reg, load_seen, gen_ack>>

(* Slip: a job with the cached matrix counts as the work before it.        *)
Mutant_StartSameWork(job) ==
  /\ LoadJob(job)
  /\ work_id' = IF job.pph # pph_reg THEN (work_id + 1) % WORK_MOD ELSE work_id
  /\ mm_reload' = FALSE
  /\ IF job.pph # pph_reg
       THEN matrix_gen_start' = TRUE /\ gen_ack' = FALSE /\ state' = "GEN"
       ELSE matrix_gen_start' = FALSE /\ UNCHANGED gen_ack /\ state' = "STREAM"
  /\ UNCHANGED <<pph_reg, load_seen>>

Start(job) ==
  /\ LoadJob(job)
  /\ work_id' = (work_id + 1) % WORK_MOD
  /\ mm_reload' = FALSE
  /\ IF job.pph # pph_reg
       THEN matrix_gen_start' = TRUE /\ gen_ack' = FALSE /\ state' = "GEN"
       ELSE matrix_gen_start' = FALSE /\ UNCHANGED gen_ack /\ state' = "STREAM"
  /\ UNCHANGED <<pph_reg, load_seen>>

Generating ==
  /\ state = "GEN"
  /\ gen_ack' = (gen_ack \/ ~done)
  /\ matrix_gen_start' = FALSE
  /\ IF gen_ack /\ done
       THEN /\ pph_reg' = blk_pph
            /\ mm_reload' = TRUE
            /\ load_seen' = FALSE
            /\ state' = "LOAD"
       ELSE /\ mm_reload' = FALSE
            /\ UNCHANGED <<pph_reg, load_seen, state>>
  /\ UNCHANGED <<blk_pph, ts_reg, nonce_ctr, tgt_reg, work_id>>

(* Slip: the fall of mm_busy is taken for granted.                         *)
Mutant_LoadingNoWait ==
  /\ state = "LOAD"
  /\ load_seen' = (load_seen \/ mm_busy)
  /\ state' = IF ~mm_busy THEN "STREAM" ELSE "LOAD"
  /\ matrix_gen_start' = FALSE
  /\ mm_reload' = FALSE
  /\ UNCHANGED <<gen_ack, blk_pph, pph_reg, ts_reg, nonce_ctr, tgt_reg, work_id>>

(* See mm_busy rise, then fall.                                            *)
Loading ==
  /\ state = "LOAD"
  /\ load_seen' = (load_seen \/ mm_busy)
  /\ state' = IF load_seen /\ ~mm_busy THEN "STREAM" ELSE "LOAD"
  /\ matrix_gen_start' = FALSE
  /\ mm_reload' = FALSE
  /\ UNCHANGED <<gen_ack, blk_pph, pph_reg, ts_reg, nonce_ctr, tgt_reg, work_id>>

(* Slip: the nonce advances with the clock, not with admission.            *)
Mutant_StreamingEveryCycle ==
  /\ state \in {"STREAM", "IDLE"}
  /\ nonce_ctr' = IF state = "STREAM" THEN (nonce_ctr + 1) % NONCE_MOD ELSE nonce_ctr
  /\ matrix_gen_start' = FALSE
  /\ mm_reload' = FALSE
  /\ UNCHANGED <<state, gen_ack, load_seen, blk_pph, pph_reg, ts_reg, tgt_reg,
                 work_id>>

Streaming ==
  /\ state \in {"STREAM", "IDLE"}
  /\ nonce_ctr' = IF admit THEN (nonce_ctr + 1) % NONCE_MOD ELSE nonce_ctr
  /\ matrix_gen_start' = FALSE
  /\ mm_reload' = FALSE
  /\ UNCHANGED <<state, gen_ack, load_seen, blk_pph, pph_reg, ts_reg, tgt_reg,
                 work_id>>

Control(job) ==
  IF job # None THEN Start(job) ELSE Generating \/ Loading \/ Streaming

-----------------------------------------------------------------------------
(* Matrix generator, matrix_generator.sv:74-165: draws a matrix into the   *)
(* cache, checks its rank, draws the next one of the same random stream    *)
(* until the rank is full.  `start` is looked at in IDLE only, but it      *)
(* clears `done` in every state.  A seed with Attempts = 0 (the all-zero   *)
(* state of the generator) draws the same matrix for ever.                 *)

GenIdle ==
  /\ fsm_current_state = "IDLE"
  /\ IF matrix_gen_start
       THEN /\ fsm_current_state' = "GENERATE_MATRIX"
            /\ seed' = blk_pph
            /\ attempt' = 1
       ELSE UNCHANGED <<fsm_current_state, seed, attempt>>
  /\ UNCHANGED <<gen_ctr, cache>>

GenMatrix ==
  /\ fsm_current_state = "GENERATE_MATRIX"
  /\ IF gen_ctr = GEN_LAT - 1
       THEN /\ fsm_current_state' = "RANK_CHECK"
            /\ gen_ctr' = 0
            /\ cache' = Drawn(seed, attempt)
       ELSE /\ gen_ctr' = gen_ctr + 1
            /\ cache' = None
            /\ UNCHANGED fsm_current_state
  /\ UNCHANGED <<seed, attempt>>

FullRank == attempt = Attempts[seed]

GenRankCheck ==
  /\ fsm_current_state = "RANK_CHECK"
  /\ IF gen_ctr = RANK_LAT - 1
       THEN /\ gen_ctr' = 0
            /\ IF FullRank
                 THEN fsm_current_state' = "DONE" /\ UNCHANGED attempt
                 ELSE /\ fsm_current_state' = "GENERATE_MATRIX"
                      /\ attempt' = IF Attempts[seed] = 0 THEN attempt
                                                          ELSE attempt + 1
       ELSE /\ gen_ctr' = gen_ctr + 1
            /\ UNCHANGED <<fsm_current_state, attempt>>
  /\ UNCHANGED <<seed, cache>>

GenDone ==
  /\ fsm_current_state = "DONE"
  /\ fsm_current_state' = "IDLE"
  /\ UNCHANGED <<gen_ctr, seed, attempt, cache>>

(* Slip: nothing clears done once it is up.                                *)
Mutant_GeneratorDoneSticks ==
  /\ GenIdle \/ GenMatrix \/ GenRankCheck \/ GenDone
  /\ done' = (done \/ fsm_current_state = "DONE")

Generator ==
  /\ GenIdle \/ GenMatrix \/ GenRankCheck \/ GenDone
  /\ done' = IF matrix_gen_start THEN FALSE
             ELSE (done \/ fsm_current_state = "DONE")

-----------------------------------------------------------------------------
(* matmul_pipelined_unit.sv.  The load FSM reads the cache column by       *)
(* column while it builds: the tables are those of a matrix only if the    *)
(* cache held that matrix throughout.  A reload is heard in LD_IDLE only.  *)

TableLoad ==
  IF ld_state = "LD_IDLE"
    THEN /\ ld_state' = IF mm_reload THEN "LD_RUN" ELSE "LD_IDLE"
         /\ UNCHANGED <<ld_ctr, tables>>
    ELSE /\ tables' = IF ld_ctr = 0 \/ tables = cache THEN cache ELSE None
         /\ IF ld_ctr = LOAD_LAT - 1
              THEN ld_state' = "LD_IDLE" /\ ld_ctr' = 0
              ELSE ld_state' = "LD_RUN" /\ ld_ctr' = ld_ctr + 1

(* What a stage of the dot product reads: nothing usable during a build.   *)
TablesNow == IF mm_busy THEN None ELSE tables

(* The partial sum after one more stage: of a matrix only if every stage   *)
(* so far read the tables of that matrix.                                  *)
Accumulate(item) ==
  IF item = None \/ item.mat = TablesNow THEN item
                                         ELSE [item EXCEPT !.mat = None]

MatmulPipe ==
  LET entering == IF c1_valid /\ ~mm_busy
                    THEN [vec |-> c1[C_LAT], mat |-> TablesNow]
                    ELSE None
  IN  mm' = [s \in 1 .. M_LAT |-> IF s = 1 THEN entering
                                           ELSE Accumulate(mm[s - 1])]

(* Slip: pow_hash is delayed one cycle too few.                            *)
Mutant_DelayLineShort == Shift(ph_delay, c1[C_LAT - 1])

DelayLine == Shift(ph_delay, c1[C_LAT])

digest == [vec |-> mm[M_LAT].vec, mat |-> mm[M_LAT].mat, pow |-> ph_delay[M_LAT]]

(* The two cSHAKE cores: an item leaves C_LAT cycles after it was taken,   *)
(* and one that finds the core busy is not taken (CshakeLine.tla).         *)
Pipes ==
  /\ c1' = Shift(c1, IF admit /\ ~c1_busy THEN header ELSE None)
  /\ c2' = Shift(c2, IF m_valid /\ ~c2_busy THEN digest ELSE None)
  /\ ph_delay' = DelayLine

-----------------------------------------------------------------------------
(* Admission and tag FIFO, core.sv:218-283.                                *)

(* Slip: the pointers wrap one slot late.                                  *)
Mutant_NextTagLate(p) == IF p = TAG_SLOTS THEN 0 ELSE p + 1

NextTag(p) == IF p = TAG_SLOTS - 1 THEN 0 ELSE p + 1

Tags(job) ==
  /\ admit_ctr' = IF job # None \/ state # "STREAM" \/ admit_ctr = N_MAX - 1
                    THEN 0 ELSE admit_ctr + 1
  /\ tag_nonce' = [tag_nonce EXCEPT ![tag_wr_ptr] = IF admit THEN nonce_ctr ELSE @]
  /\ tag_work' = [tag_work EXCEPT ![tag_wr_ptr] = IF admit THEN work_id ELSE @]
  /\ tag_wr_ptr' = IF admit THEN NextTag(tag_wr_ptr) ELSE tag_wr_ptr
  /\ tag_rd_ptr' = IF valid_out THEN NextTag(tag_rd_ptr) ELSE tag_rd_ptr
  /\ tag_occ' = tag_occ + (IF admit THEN 1 ELSE 0) - (IF valid_out THEN 1 ELSE 0)

Outputs ==
  /\ found' = hit
  /\ IF hit THEN found_nonce' = nonce_out /\ found_work_id' = work_out
            ELSE UNCHANGED <<found_nonce, found_work_id>>

-----------------------------------------------------------------------------

Init ==
  /\ state = "IDLE"
  /\ gen_ack = FALSE /\ matrix_gen_start = FALSE
  /\ mm_reload = FALSE /\ load_seen = FALSE
  /\ blk_pph = ZeroPph /\ pph_reg = ZeroPph /\ ts_reg = ZeroTs
  /\ nonce_ctr = 0 /\ tgt_reg = 0 /\ work_id = 0
  /\ fsm_current_state = "IDLE" /\ gen_ctr = 0 /\ seed = ZeroPph
  /\ attempt = 1 /\ done = FALSE /\ cache = None
  /\ ld_state = "LD_IDLE" /\ ld_ctr = 0 /\ tables = None
  /\ mm = [s \in 1 .. M_LAT |-> None]
  /\ c1 = [i \in 1 .. C_LAT |-> None]
  /\ c2 = [i \in 1 .. C_LAT |-> None]
  /\ ph_delay = [s \in 1 .. M_LAT |-> None]
  /\ admit_ctr = 0
  /\ tag_nonce = [s \in TagSlot |-> 0]
  /\ tag_work = [s \in TagSlot |-> 0]
  /\ tag_wr_ptr = 0 /\ tag_rd_ptr = 0 /\ tag_occ = 0
  /\ found = FALSE /\ found_nonce = 0 /\ found_work_id = 0

(* One clock edge; job is the job started by `start`, or None.             *)
Clock(job) ==
  /\ Control(job)
  /\ Generator
  /\ TableLoad
  /\ MatmulPipe
  /\ Pipes
  /\ Tags(job)
  /\ Outputs

(* Reset clears every register but the tag memories and the product        *)
(* tables; tables caught in the middle of a build stay half built.         *)
Reset ==
  /\ state' = "IDLE"
  /\ gen_ack' = FALSE /\ matrix_gen_start' = FALSE
  /\ mm_reload' = FALSE /\ load_seen' = FALSE
  /\ blk_pph' = ZeroPph /\ pph_reg' = ZeroPph /\ ts_reg' = ZeroTs
  /\ nonce_ctr' = 0 /\ tgt_reg' = 0 /\ work_id' = 0
  /\ fsm_current_state' = "IDLE" /\ gen_ctr' = 0 /\ seed' = ZeroPph
  /\ attempt' = 1 /\ done' = FALSE /\ cache' = None
  /\ ld_state' = "LD_IDLE" /\ ld_ctr' = 0 /\ tables' = TablesNow
  /\ mm' = [s \in 1 .. M_LAT |-> None]
  /\ c1' = [i \in 1 .. C_LAT |-> None]
  /\ c2' = [i \in 1 .. C_LAT |-> None]
  /\ ph_delay' = [s \in 1 .. M_LAT |-> None]
  /\ admit_ctr' = 0
  /\ UNCHANGED <<tag_nonce, tag_work>>
  /\ tag_wr_ptr' = 0 /\ tag_rd_ptr' = 0 /\ tag_occ' = 0
  /\ found' = FALSE /\ found_nonce' = 0 /\ found_work_id' = 0

(* A START the core is ready for.  The code does not check this: the       *)
(* transport is slow enough to make it so (README, "What the host owes").  *)
(* A cached pph may be started at any time but during a table load; a new  *)
(* one only when the generator is idle as well.                            *)
SafeStart(job) ==
  /\ state # "LOAD"
  /\ job.pph # pph_reg => fsm_current_state = "IDLE" /\ ~matrix_gen_start

Run ==
  \E job \in HostJob \union {None} :
    /\ job # None => SafeStart(job) /\ work_id < MAX_STARTS
    /\ Clock(job)

Next == Reset \/ Run

Spec == Init /\ [][Next]_vars

(* The same from power-up on, without a later reset.                       *)
RunSpec == Init /\ [][Run]_vars

(* The clock never stops.                                                  *)
FairSpec == Spec /\ WF_vars(Clock(None))

-----------------------------------------------------------------------------
(* Types, a part per group of registers.                                   *)

ControlOK ==
  /\ state \in {"IDLE", "GEN", "STREAM", "LOAD"}
  /\ gen_ack \in BOOLEAN /\ matrix_gen_start \in BOOLEAN
  /\ mm_reload \in BOOLEAN /\ load_seen \in BOOLEAN
  /\ blk_pph \in Pph /\ pph_reg \in Pph /\ ts_reg \in Ts
  /\ nonce_ctr \in Nonce /\ tgt_reg \in Target /\ work_id \in Work

GeneratorOK ==
  /\ fsm_current_state \in {"IDLE", "GENERATE_MATRIX", "RANK_CHECK", "DONE"}
  /\ gen_ctr \in Nat /\ seed \in Pph /\ attempt \in Nat /\ done \in BOOLEAN
  /\ cache \in SomeMatrix

MatmulOK ==
  /\ ld_state \in {"LD_IDLE", "LD_RUN"} /\ ld_ctr \in 0 .. LOAD_LAT - 1
  /\ tables \in SomeMatrix
  /\ mm \in Line(Product, M_LAT)

PipesOK ==
  /\ c1 \in Line(Header, C_LAT)
  /\ ph_delay \in Line(Header, M_LAT)
  /\ c2 \in Line(Summed, C_LAT)

TagsOK ==
  /\ admit_ctr \in 0 .. N_MAX - 1
  /\ tag_nonce \in [TagSlot -> Nonce] /\ tag_work \in [TagSlot -> Work]
  /\ tag_wr_ptr \in TagSlot /\ tag_rd_ptr \in TagSlot

OutputsOK ==
  /\ found \in BOOLEAN /\ found_nonce \in Nonce /\ found_work_id \in Work

(* Every register stays within its width (core.sv:109-119, 236-264).       *)
TypeOK ==
  /\ ControlOK /\ GeneratorOK /\ MatmulOK /\ PipesOK /\ TagsOK /\ OutputsOK
  /\ tag_occ \in Nat

(* The two simulation assertions of core.sv:266-283: the tag FIFO holds    *)
(* every item in flight, and no item of the first cSHAKE core arrives at   *)
(* the matmul while its tables are rebuilt ("token silently dropped").     *)
TagFifoFits == tag_occ <= TAG_SLOTS
NoTokenDropped == ~(c1_valid /\ mm_busy)

(* Nobody looks at the busy of the second cSHAKE core (core.sv:205-217);   *)
(* it is never busy when the matmul hands it an item.                      *)
SecondCoreReady == ~(m_valid /\ c2_busy)

(* The items in flight, oldest first, as ages.                             *)
HeaderAt(age) ==
  IF age <= C_LAT THEN c1[age]
  ELSE IF age <= C_LAT + M_LAT
         THEN IF mm[age - C_LAT] = None THEN None ELSE mm[age - C_LAT].vec
         ELSE IF c2[age - C_LAT - M_LAT] = None
                THEN None ELSE c2[age - C_LAT - M_LAT].vec
InFlight == {age \in 1 .. TOTAL_LAT : HeaderAt(age) # None}
Older(age) == {a \in InFlight : a > age}

(* The tag FIFO slot of the item that `older` items leave before.          *)
TagSlotOf(older) == (tag_rd_ptr + older) % TAG_SLOTS
TagOf(age) == TagSlotOf(Cardinality(Older(age)))

(* Every result is tagged with its own nonce: the k-th oldest item in      *)
(* flight and the k-th oldest tag belong together, across restarts in the  *)
(* middle of a fold, admission gaps and idle cycles (core.sv:241-264).     *)
TagsFollowItems ==
  /\ tag_occ = Cardinality(InFlight)
  /\ \A age \in InFlight : tag_nonce[TagOf(age)] = HeaderAt(age).nonce

(* Work that carries the current work_id was admitted under the current    *)
(* job: an 8-bit id never comes round while an item of its last owner is   *)
(* still in flight (core.sv:256-258, 291).                                 *)
CurrentWorkIsCurrent ==
  \A age \in InFlight :
    tag_work[TagOf(age)] = work_id =>
      HeaderAt(age).pph = blk_pph /\ HeaderAt(age).ts = ts_reg

(* The nonces of one job are tried one after the other, none skipped and   *)
(* none tried twice, and the newest one is the predecessor of nonce_ctr    *)
(* (core.sv:224-235, 357-359).                                             *)
NoncesConsecutive ==
  \A a \in InFlight :
    /\ \A b \in Older(a) :
         /\ tag_work[TagOf(a)] = tag_work[TagOf(b)]
         /\ \A c \in Older(a) : b <= c
         => HeaderAt(a).nonce = (HeaderAt(b).nonce + 1) % NONCE_MOD
    /\ /\ tag_work[TagOf(a)] = work_id
       /\ \A b \in InFlight : a <= b
       => nonce_ctr = (HeaderAt(a).nonce + 1) % NONCE_MOD

(* A generation is complete only when the cache holds the matrix of the    *)
(* block: `done` is never taken from an earlier generation, nor from one   *)
(* for another pph ("a block switch cannot mistake the stale-high level    *)
(* for a fresh completion", docs/core/core.md:98-102; core.sv:342-351).    *)
GenerationIsFresh ==
  [][state = "GEN" /\ state' = "LOAD" => cache = MatrixOf(blk_pph)]_vars

(* Work is streamed only through product tables that hold the matrix of    *)
(* its pph (core.sv:306-364, docs/core/core.md).                           *)
StreamsThroughItsMatrix ==
  state = "STREAM" => /\ blk_pph = pph_reg
                      /\ tables = MatrixOf(blk_pph)

(* An item is given the product of the matrix of its own pph, and is XORed *)
(* with its own pow_hash.                                                  *)
DigestsAreRight == \A i \in 1 .. C_LAT : c2[i] # None => c2[i] = Digest(c2[i].vec)

(* found is raised for a nonce that meets the current target under the     *)
(* current header and its matrix, and for nothing else: never for an item  *)
(* of an abandoned job, whichever cycle it was abandoned in.               *)
FoundIsAWin ==
  [][found' => /\ found_work_id' = work_id
               /\ HashOf(Digest([header EXCEPT !.nonce = found_nonce'])) <= tgt_reg]_vars

(* A matrix generation and the table load it leads to come to an end: the  *)
(* core cannot wait for ever in GEN for a done that was cleared or in LOAD *)
(* for a busy it missed (core.sv:342-356).                                 *)
GenerationEnds == state \in {"GEN", "LOAD"} ~> state \in {"STREAM", "IDLE"}

=============================================================================
