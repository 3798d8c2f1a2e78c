----------------------------- MODULE CoreProofs -----------------------------
(***************************************************************************)
(* The core for any latencies, widths, jobs and hash: every block gets its *)
(* own matrix, no item meets half built tables, the second cSHAKE core and *)
(* the tag FIFO always have room, and every register keeps its width.      *)
(***************************************************************************)
EXTENDS Core, FiniteSetTheorems, TLAPS

(* Nothing of the last n cycles is on its way to the product.              *)
Quiet(n) ==
  /\ \A i \in 1 .. C_LAT : i <= n => c1[i] = None
  /\ \A s \in 1 .. M_LAT : C_LAT + s <= n => mm[s] = None

TO_PRODUCT == C_LAT + M_LAT

(* The generator on its own.                                               *)
GenInv ==
  /\ fsm_current_state \in {"IDLE", "DONE"} => gen_ctr = 0
  /\ fsm_current_state = "GENERATE_MATRIX" => gen_ctr < GEN_LAT
  /\ fsm_current_state = "RANK_CHECK" => cache = Drawn(seed, attempt)
  /\ fsm_current_state = "DONE" => cache = MatrixOf(seed)
  /\ done => fsm_current_state = "IDLE"

(* Control and generator: while control waits in GEN the generator works   *)
(* on its block, and a generation that is over is that of the block.       *)
HandshakeInv ==
  /\ matrix_gen_start => state = "GEN" /\ fsm_current_state = "IDLE" /\ ~gen_ack
  /\ state = "GEN" /\ fsm_current_state # "IDLE" => seed = blk_pph
  /\ state = "GEN" /\ fsm_current_state = "IDLE" /\ ~matrix_gen_start => cache = MatrixOf(blk_pph)

(* Control and the table load.                                             *)
LoadInv ==
  /\ state # "LOAD" => ld_state = "LD_IDLE" /\ ~mm_reload
  /\ state = "LOAD" => /\ fsm_current_state = "IDLE" /\ ~matrix_gen_start
                       /\ cache = MatrixOf(blk_pph) /\ pph_reg = blk_pph
                       /\ mm_reload => ld_state = "LD_IDLE" /\ ~load_seen
                       /\ ld_state = "LD_RUN" => ld_ctr = 0 \/ tables = cache
                       /\ ld_state = "LD_IDLE" /\ ~mm_reload => load_seen /\ tables = cache
  /\ ld_state = "LD_IDLE" => ld_ctr = 0

(* The tables are those of the block in pph_reg, once there is one.        *)
TablesInv == state # "LOAD" /\ pph_reg # ZeroPph => tables = MatrixOf(pph_reg)

(* By the time the tables are touched the pipes are empty.                 *)
QuietInv ==
  /\ state = "GEN" /\ fsm_current_state = "GENERATE_MATRIX" => Quiet(gen_ctr + 1)
  /\ state = "GEN" /\ fsm_current_state \in {"RANK_CHECK", "DONE"} => Quiet(TO_PRODUCT)
  /\ state = "GEN" /\ fsm_current_state = "IDLE" /\ ~matrix_gen_start => Quiet(TO_PRODUCT)
  /\ state = "LOAD" => Quiet(TO_PRODUCT)

(* What is on its way to the product is of the block whose tables stand,   *)
(* and beside each product runs its own hash.                              *)
ItemsInv ==
  /\ \A i \in 1 .. C_LAT : c1[i] # None => tables = MatrixOf(c1[i].pph)
  /\ \A s \in 1 .. M_LAT : mm[s] # None =>
       /\ mm[s] = [vec |-> ph_delay[s], mat |-> MatrixOf(ph_delay[s].pph)]
       /\ tables = MatrixOf(ph_delay[s].pph)

(* Items are at least as far apart as they were admitted.                  *)
Spaced == \A a, b \in InFlight : a < b => b - a >= N_MAX

ControlInv ==
  /\ GenInv /\ HandshakeInv /\ LoadInv /\ TablesInv /\ QuietInv
  /\ StreamsThroughItsMatrix

Types == ControlOK /\ GeneratorOK /\ MatmulOK /\ PipesOK /\ TagsOK /\ OutputsOK

IInv ==
  /\ Types /\ ControlInv /\ ItemsInv /\ DigestsAreRight /\ Spaced
  /\ tag_occ = Cardinality(InFlight)

-----------------------------------------------------------------------------
(* Constants, and the parts of a step.                                     *)

LEMMA Sizes ==
  /\ C_LAT \in Nat /\ C_LAT >= 3 /\ M_LAT \in Nat \ {0} /\ N_MAX \in Nat \ {0}
  /\ GEN_LAT \in Nat \ {0} /\ RANK_LAT \in Nat \ {0} /\ LOAD_LAT \in Nat \ {0}
  /\ NONCE_MOD \in Nat \ {0} /\ WORK_MOD \in Nat \ {0} /\ MAX_TARGET \in Nat
  /\ TO_PRODUCT = C_LAT + M_LAT /\ TO_PRODUCT <= GEN_LAT + 1
  /\ TOTAL_LAT = TO_PRODUCT + C_LAT /\ TOTAL_LAT \in Nat
BY CoreConstants, GenerationOutlivesPipes DEF N_MAX, TO_PRODUCT, TOTAL_LAT

LEMMA Wraps == \A n, m \in Nat : m # 0 => (n + 1) % m \in 0 .. m - 1
BY SMT

LEMMA Slots == TAG_SLOTS \in Nat \ {0}
<1>1. \A t, n \in Nat : n # 0 /\ t >= 1 => (t + n - 1) \div n \in Nat \ {0}
  BY SMT
<1> QED
  BY <1>1, Sizes DEF TAG_SLOTS

LEMMA Matrices ==
  /\ \A p \in Pph, k \in Nat : Drawn(p, k) \in Matrix
  /\ \A p \in Pph : MatrixOf(p) \in Matrix
BY CoreConstants DEF Drawn, MatrixOf, Matrix

(* A job the host may start.                                               *)
Startable(job) ==
  /\ job \in HostJob \union {None}
  /\ job # None => SafeStart(job)

(* The branch of Control that a step takes.                                *)
LEMMA ControlCases ==
  ASSUME NEW job, Startable(job), Control(job)
  PROVE  \/ job \in HostJob /\ job # None /\ SafeStart(job) /\ Start(job)
         \/ job = None /\ Generating
         \/ job = None /\ Loading
         \/ job = None /\ Streaming
BY DEF Startable, Control

LEMMA Jobs ==
  ASSUME NEW job \in HostJob
  PROVE  /\ job.pph \in Pph /\ job.pph # ZeroPph /\ job.ts \in Ts
         /\ job.nonce \in Nonce /\ job.target \in Target
BY CoreConstants, NoZeroBlock DEF Nonce, Target

-----------------------------------------------------------------------------
(* Types.                                                                  *)

LEMMA ControlTypes ==
  ASSUME NEW job, Startable(job), ControlOK, GeneratorOK, Control(job)
  PROVE  ControlOK'
<1>1. \A n \in Nonce : (n + 1) % NONCE_MOD \in Nonce
  BY Wraps, Sizes DEF Nonce
<1>2. (work_id + 1) % WORK_MOD \in Work
  BY Wraps, Sizes DEF ControlOK, Work
<1>3. CASE job \in HostJob /\ Start(job)
  BY <1>2, <1>3, Jobs DEF Start, LoadJob, ControlOK
<1>4. CASE Generating
  BY <1>4 DEF Generating, ControlOK, GeneratorOK
<1>5. CASE Loading
  BY <1>5 DEF Loading, ControlOK, mm_busy
<1>6. CASE Streaming
  <2>1. nonce_ctr' \in Nonce
    BY <1>6, <1>1 DEF Streaming, ControlOK
  <2> QED
    BY <1>6, <2>1 DEF Streaming, ControlOK
<1> QED
  BY <1>3, <1>4, <1>5, <1>6, ControlCases

LEMMA GeneratorTypes ==
  ASSUME ControlOK, GeneratorOK, Generator
  PROVE  GeneratorOK'
<1>1. /\ Drawn(seed, attempt) \in SomeMatrix /\ None \in SomeMatrix
      /\ done' \in BOOLEAN
  BY Matrices DEF GeneratorOK, SomeMatrix, Generator
<1>2. CASE GenIdle
  BY <1>1, <1>2 DEF GenIdle, GeneratorOK, ControlOK
<1>3. CASE GenMatrix
  BY <1>1, <1>3 DEF GenMatrix, GeneratorOK
<1>4. CASE GenRankCheck
  <2>1. attempt' \in Nat /\ gen_ctr' \in Nat
    BY <1>4 DEF GenRankCheck, GeneratorOK
  <2>2. fsm_current_state' \in {"IDLE", "GENERATE_MATRIX", "RANK_CHECK", "DONE"}
    BY <1>4 DEF GenRankCheck, GeneratorOK
  <2> QED
    BY <1>1, <1>4, <2>1, <2>2 DEF GenRankCheck, GeneratorOK
<1>5. CASE GenDone
  BY <1>1, <1>5 DEF GenDone, GeneratorOK
<1> QED
  BY <1>2, <1>3, <1>4, <1>5 DEF Generator

LEMMA MatmulTypes ==
  ASSUME ControlOK, GeneratorOK, MatmulOK, PipesOK, TableLoad, MatmulPipe
  PROVE  MatmulOK'
<1>1. ld_state' \in {"LD_IDLE", "LD_RUN"} /\ ld_ctr' \in 0 .. LOAD_LAT - 1 /\ tables' \in SomeMatrix
  BY Sizes DEF TableLoad, MatmulOK, GeneratorOK, SomeMatrix
<1>2. TablesNow \in SomeMatrix
  BY DEF TablesNow, MatmulOK, SomeMatrix
<1>3. \A item \in Product \union {None} : Accumulate(item) \in Product \union {None}
  BY DEF Accumulate, Product, SomeMatrix
<1>4. c1[C_LAT] \in Header \union {None}
  BY Sizes DEF PipesOK, Line
<1>5. mm' \in Line(Product, M_LAT)
  <2>1. ASSUME NEW s \in 1 .. M_LAT
        PROVE  mm'[s] \in Product \union {None}
    <3>1. CASE s = 1
      BY <3>1, <1>2, <1>4 DEF MatmulPipe, c1_valid, Product
    <3>2. CASE s # 1
      <4>1. s - 1 \in 1 .. M_LAT /\ mm'[s] = Accumulate(mm[s - 1])
        BY <3>2, Sizes DEF MatmulPipe
      <4> QED
        BY <4>1, <1>3 DEF MatmulOK, Line
    <3> QED
      BY <3>1, <3>2
  <2> QED
    BY <2>1 DEF MatmulPipe, Line
<1> QED
  BY <1>1, <1>5 DEF MatmulOK

LEMMA ShiftTypes ==
  ASSUME NEW Item, NEW n \in Nat \ {0}, NEW line \in Line(Item, n), NEW in \in Item \union {None}
  PROVE  /\ Shift(line, in) \in Line(Item, n)
         /\ Shift(line, in)[1] = in
         /\ \A i \in 1 .. n - 1 : Shift(line, in)[i + 1] = line[i]
         /\ \A i \in 2 .. n : Shift(line, in)[i] = line[i - 1]
<1>1. DOMAIN line = 1 .. n /\ \A i \in 1 .. n : line[i] \in Item \union {None}
  BY DEF Line
<1>2. \A i \in 1 .. n : (IF i = 1 THEN in ELSE line[i - 1]) \in Item \union {None}
  BY <1>1
<1>3. Shift(line, in) = [i \in 1 .. n |-> IF i = 1 THEN in ELSE line[i - 1]]
  BY <1>1 DEF Shift
<1>4. Shift(line, in) \in Line(Item, n)
  BY <1>2, <1>3 DEF Line
<1> QED
  BY <1>3, <1>4

LEMMA HeaderType == ControlOK => header \in Header
BY DEF ControlOK, header, Header

LEMMA DigestType ==
  ASSUME MatmulOK, PipesOK, m_valid
  PROVE  digest \in Summed
<1>1. mm[M_LAT] \in Product /\ ph_delay[M_LAT] \in Header \union {None}
  BY Sizes DEF MatmulOK, PipesOK, Line, m_valid
<1> QED
  BY <1>1 DEF digest, Product, Summed

(* What each of the three lines takes in.                                  *)
LEMMA PipeSteps ==
  ASSUME ControlOK, MatmulOK, PipesOK, Pipes
  PROVE  /\ PipesOK'
         /\ c1'[1] = IF admit THEN header ELSE None
         /\ \A i \in 2 .. C_LAT : c1'[i] = c1[i - 1]
         /\ ph_delay'[1] = c1[C_LAT]
         /\ \A s \in 2 .. M_LAT : ph_delay'[s] = ph_delay[s - 1]
         /\ c2'[1] = IF m_valid /\ ~c2_busy THEN digest ELSE None
         /\ \A i \in 2 .. C_LAT : c2'[i] = c2[i - 1]
<1> DEFINE in1 == IF admit /\ ~c1_busy THEN header ELSE None
           in2 == IF m_valid /\ ~c2_busy THEN digest ELSE None
<1>1. C_LAT \in Nat \ {0} /\ M_LAT \in Nat \ {0}
  BY Sizes
<1>2. in1 \in Header \union {None} /\ in1 = IF admit THEN header ELSE None
  BY HeaderType DEF admit
<1>3. in2 \in Summed \union {None}
  BY DigestType
<1>4. c1[C_LAT] \in Header \union {None}
  BY <1>1 DEF PipesOK, Line
<1>5. c1' = Shift(c1, in1) /\ c2' = Shift(c2, in2) /\ ph_delay' = Shift(ph_delay, c1[C_LAT])
  BY DEF Pipes, DelayLine
<1> HIDE DEF in1, in2
<1>6. c1 \in Line(Header, C_LAT) /\ c2 \in Line(Summed, C_LAT) /\ ph_delay \in Line(Header, M_LAT)
  BY DEF PipesOK
<1>7. /\ c1' \in Line(Header, C_LAT) /\ c1'[1] = in1
      /\ \A i \in 2 .. C_LAT : c1'[i] = c1[i - 1]
  BY <1>1, <1>2, <1>5, <1>6, ShiftTypes
<1>8. /\ c2' \in Line(Summed, C_LAT) /\ c2'[1] = in2
      /\ \A i \in 2 .. C_LAT : c2'[i] = c2[i - 1]
  BY <1>1, <1>3, <1>5, <1>6, ShiftTypes
<1>9. /\ ph_delay' \in Line(Header, M_LAT) /\ ph_delay'[1] = c1[C_LAT]
      /\ \A s \in 2 .. M_LAT : ph_delay'[s] = ph_delay[s - 1]
  BY <1>1, <1>4, <1>5, <1>6, ShiftTypes
<1> QED
  BY <1>2, <1>7, <1>8, <1>9 DEF PipesOK, in2

LEMMA TagTypes ==
  ASSUME NEW job, ControlOK, TagsOK, Tags(job)
  PROVE  TagsOK'
<1>1. \A p \in TagSlot : NextTag(p) \in TagSlot
  BY Slots DEF NextTag, TagSlot
<1>2. admit_ctr' \in 0 .. N_MAX - 1
  BY Sizes DEF Tags, TagsOK
<1>3. tag_nonce' \in [TagSlot -> Nonce] /\ tag_work' \in [TagSlot -> Work]
  BY DEF Tags, TagsOK, ControlOK
<1>4. tag_wr_ptr' \in TagSlot /\ tag_rd_ptr' \in TagSlot
  BY <1>1 DEF Tags, TagsOK
<1> QED
  BY <1>2, <1>3, <1>4 DEF TagsOK

LEMMA OutputTypes ==
  ASSUME TagsOK, OutputsOK, Outputs
  PROVE  OutputsOK'
<1>1. nonce_out \in Nonce /\ work_out \in Work
  BY DEF TagsOK, nonce_out, work_out
<1>2. hit \in BOOLEAN
  BY DEF hit, valid_out
<1> QED
  BY <1>1, <1>2 DEF Outputs, OutputsOK

LEMMA StepTypes ==
  ASSUME NEW job, Startable(job), Types, Clock(job)
  PROVE  Types'
BY ControlTypes, GeneratorTypes, MatmulTypes, PipeSteps, TagTypes, OutputTypes DEF Types, Clock

-----------------------------------------------------------------------------
(* Control, generator and table load.                                      *)

LEMMA GeneratorStep ==
  ASSUME GeneratorOK, GenInv, Generator
  PROVE  GenInv'
<1>1. 0 < GEN_LAT /\ (done' => ~matrix_gen_start /\ (done \/ fsm_current_state = "DONE"))
  BY Sizes DEF Generator, GeneratorOK
<1>2. CASE GenIdle
  BY <1>1, <1>2, Sizes DEF GenIdle, GenInv
<1>3. CASE GenMatrix
  BY <1>1, <1>3, Sizes DEF GenMatrix, GenInv, GeneratorOK
<1>4. CASE GenRankCheck
  BY <1>1, <1>4, Sizes DEF GenRankCheck, GenInv, GeneratorOK, FullRank, MatrixOf
<1>5. CASE GenDone
  BY <1>1, <1>5 DEF GenDone, GenInv
<1> QED
  BY <1>2, <1>3, <1>4, <1>5 DEF Generator

(* What the rest asks of a generator step.                                 *)
LEMMA GeneratorMoves ==
  ASSUME GeneratorOK, GenInv, Generator
  PROVE  /\ fsm_current_state = "IDLE" =>
              /\ cache' = cache
              /\ matrix_gen_start => fsm_current_state' = "GENERATE_MATRIX" /\ seed' = blk_pph /\ gen_ctr' = 0
              /\ ~matrix_gen_start => fsm_current_state' = "IDLE"
         /\ fsm_current_state # "IDLE" => seed' = seed
         /\ fsm_current_state \in {"GENERATE_MATRIX", "RANK_CHECK"} => fsm_current_state' # "IDLE"
         /\ fsm_current_state = "DONE" => fsm_current_state' = "IDLE" /\ cache' = MatrixOf(seed)
         /\ fsm_current_state = "GENERATE_MATRIX" =>
              \/ fsm_current_state' = "GENERATE_MATRIX" /\ gen_ctr' = gen_ctr + 1
              \/ fsm_current_state' = "RANK_CHECK" /\ gen_ctr = GEN_LAT - 1
         /\ fsm_current_state = "RANK_CHECK" =>
              \/ fsm_current_state' \in {"RANK_CHECK", "DONE"}
              \/ fsm_current_state' = "GENERATE_MATRIX" /\ gen_ctr' = 0
BY DEF Generator, GenIdle, GenMatrix, GenRankCheck, GenDone, GenInv, GeneratorOK

LEMMA HandshakeStep ==
  ASSUME NEW job, Startable(job), Types, GenInv, HandshakeInv, Control(job), Generator
  PROVE  HandshakeInv'
<1> USE DEF HandshakeInv
<1>1. GeneratorOK /\ ControlOK
  BY DEF Types
<1>2. CASE job \in HostJob /\ SafeStart(job) /\ Start(job)
  <2>1. CASE job.pph # pph_reg
    BY <1>1, <1>2, <2>1, GeneratorMoves DEF Start, SafeStart, LoadJob
  <2>2. CASE job.pph = pph_reg
    BY <1>2, <2>2 DEF Start
  <2> QED
    BY <2>1, <2>2
<1>3. CASE Generating
  BY <1>1, <1>3, GeneratorMoves DEF Generating, GeneratorOK
<1>4. CASE Loading
  BY <1>4 DEF Loading
<1>5. CASE Streaming
  BY <1>5 DEF Streaming
<1> QED
  BY <1>2, <1>3, <1>4, <1>5, ControlCases

(* A generation is taken for complete when the cache holds the matrix.     *)
LEMMA CompleteIsFresh ==
  ASSUME GenInv, HandshakeInv, state = "GEN", gen_ack, done
  PROVE  fsm_current_state = "IDLE" /\ ~matrix_gen_start /\ cache = MatrixOf(blk_pph)
BY DEF GenInv, HandshakeInv

LEMMA LoadStep ==
  ASSUME NEW job, Startable(job), Types, GenInv, HandshakeInv, LoadInv,
         Control(job), Generator, TableLoad
  PROVE  LoadInv'
<1>1. GeneratorOK /\ ControlOK /\ MatmulOK
  BY DEF Types
<1>2. ld_state' = "LD_IDLE" => ld_ctr' = 0
  BY <1>1 DEF TableLoad, LoadInv, MatmulOK
<1>3. state # "LOAD" => ld_state' = "LD_IDLE" /\ tables' = tables
  BY DEF LoadInv, TableLoad
<1>4. CASE job \in HostJob /\ SafeStart(job) /\ Start(job)
  <2>1. state # "LOAD" /\ state' # "LOAD" /\ ~mm_reload'
    BY <1>4 DEF SafeStart, Start
  <2> QED
    BY <1>2, <1>3, <2>1 DEF LoadInv
<1>5. CASE Generating
  <2>1. CASE gen_ack /\ done
    <3>1. cache' = cache /\ fsm_current_state' = "IDLE" /\ cache = MatrixOf(blk_pph)
      BY <1>1, <1>5, <2>1, CompleteIsFresh, GeneratorMoves DEF Generating
    <3> QED
      BY <1>2, <1>3, <1>5, <2>1, <3>1 DEF Generating, LoadInv
  <2>2. CASE ~(gen_ack /\ done)
    BY <1>2, <1>3, <1>5, <2>2 DEF Generating, LoadInv
  <2> QED
    BY <2>1, <2>2
<1>6. CASE Loading
  <2>1. cache' = cache /\ fsm_current_state' = "IDLE"
    BY <1>1, <1>6, GeneratorMoves DEF Loading, LoadInv
  <2>2. CASE ld_state = "LD_IDLE"
    BY <1>1, <1>2, <1>6, <2>1, <2>2 DEF Loading, LoadInv, TableLoad, mm_busy, ControlOK
  <2>3. CASE ld_state # "LD_IDLE"
    BY <1>1, <1>2, <1>6, <2>1, <2>3 DEF Loading, LoadInv, TableLoad, mm_busy, ControlOK, MatmulOK
  <2> QED
    BY <2>2, <2>3
<1>7. CASE Streaming
  BY <1>2, <1>3, <1>7 DEF Streaming, LoadInv
<1> QED
  BY <1>4, <1>5, <1>6, <1>7, ControlCases

LEMMA TablesStep ==
  ASSUME NEW job, Startable(job), Types, LoadInv, TablesInv, StreamsThroughItsMatrix,
         Control(job), TableLoad
  PROVE  TablesInv' /\ StreamsThroughItsMatrix'
<1>1. state # "LOAD" => tables' = tables
  BY DEF LoadInv, TableLoad
<1>2. CASE job \in HostJob /\ SafeStart(job) /\ Start(job)
  BY <1>1, <1>2, Jobs DEF SafeStart, Start, LoadJob, TablesInv, StreamsThroughItsMatrix
<1>3. CASE Generating
  BY <1>1, <1>3 DEF Generating, TablesInv, StreamsThroughItsMatrix
<1>4. CASE Loading
  <2>1. blk_pph' = blk_pph /\ pph_reg' = pph_reg /\ pph_reg = blk_pph
    BY <1>4 DEF Loading, LoadInv
  <2>2. state' # "LOAD" => ld_state = "LD_IDLE" /\ load_seen /\ tables' = tables
    BY <1>4 DEF Loading, LoadInv, mm_busy, TableLoad, Types, MatmulOK
  <2>3. state' # "LOAD" => tables = MatrixOf(blk_pph)
    BY <1>4, <2>2 DEF Loading, LoadInv
  <2> QED
    BY <2>1, <2>2, <2>3 DEF TablesInv, StreamsThroughItsMatrix
<1>5. CASE Streaming
  BY <1>1, <1>5 DEF Streaming, TablesInv, StreamsThroughItsMatrix
<1> QED
  BY <1>2, <1>3, <1>4, <1>5, ControlCases

-----------------------------------------------------------------------------
(* The pipes run empty before the tables are touched.                      *)

LEMMA ProductSteps ==
  ASSUME MatmulPipe
  PROVE  /\ mm'[1] = IF c1_valid /\ ~mm_busy THEN [vec |-> c1[C_LAT], mat |-> TablesNow] ELSE None
         /\ \A s \in 2 .. M_LAT : mm'[s] = Accumulate(mm[s - 1])
BY Sizes DEF MatmulPipe

LEMMA QuietMoves ==
  ASSUME Types, Pipes, MatmulPipe, state # "STREAM",
         NEW n \in Nat, Quiet(n)
  PROVE  /\ \A i \in 1 .. C_LAT : i <= n + 1 => c1'[i] = None
         /\ \A s \in 1 .. M_LAT : C_LAT + s <= n + 1 => mm'[s] = None
<1>1. c1'[1] = None /\ \A i \in 2 .. C_LAT : c1'[i] = c1[i - 1]
  BY PipeSteps DEF Types, admit
<1>2. ASSUME NEW i \in 1 .. C_LAT, i <= n + 1
      PROVE  c1'[i] = None
  <2>1. CASE i = 1
    BY <1>1, <2>1
  <2>2. CASE i # 1
    <3>1. i \in 2 .. C_LAT /\ i - 1 \in 1 .. C_LAT /\ i - 1 <= n
      BY <1>2, <2>2, Sizes
    <3> QED
      BY <1>1, <3>1 DEF Quiet
  <2> QED
    BY <2>1, <2>2
<1>3. ASSUME NEW s \in 1 .. M_LAT, C_LAT + s <= n + 1
      PROVE  mm'[s] = None
  <2>1. CASE s = 1
    <3>1. C_LAT \in 1 .. C_LAT /\ C_LAT <= n
      BY <1>3, <2>1, Sizes
    <3>2. ~c1_valid
      BY <3>1 DEF c1_valid, Quiet
    <3> QED
      BY <2>1, <3>2, ProductSteps
  <2>2. CASE s # 1
    <3>1. s \in 2 .. M_LAT /\ s - 1 \in 1 .. M_LAT /\ C_LAT + (s - 1) <= n
      BY <1>3, <2>2, Sizes
    <3>2. mm[s - 1] = None
      BY <3>1 DEF Quiet
    <3> QED
      BY <3>1, <3>2, ProductSteps DEF Accumulate
  <2> QED
    BY <2>1, <2>2
<1> QED
  BY <1>2, <1>3

LEMMA QuietStep ==
  ASSUME NEW job, Startable(job), Types, ControlInv, Clock(job)
  PROVE  QuietInv'
<1>1. /\ Pipes /\ MatmulPipe /\ Control(job) /\ Generator /\ GeneratorOK /\ ControlOK
      /\ GenInv /\ HandshakeInv /\ LoadInv /\ QuietInv
  BY DEF Clock, Types, ControlInv
<1>2. TO_PRODUCT \in Nat /\ TO_PRODUCT >= 1 /\ GEN_LAT \in Nat /\ TO_PRODUCT <= GEN_LAT + 1
  BY Sizes
<1>3. ASSUME NEW n \in Nat, Quiet(n), state # "STREAM"
      PROVE  \A m \in Nat : m <= n + 1 =>
               /\ \A i \in 1 .. C_LAT : i <= m => c1'[i] = None
               /\ \A s \in 1 .. M_LAT : C_LAT + s <= m => mm'[s] = None
  <2>1. /\ \A i \in 1 .. C_LAT : i <= n + 1 => c1'[i] = None
        /\ \A s \in 1 .. M_LAT : C_LAT + s <= n + 1 => mm'[s] = None
    BY <1>1, <1>3, QuietMoves
  <2> QED
    BY <2>1, Sizes
<1>4. Quiet(0)
  BY Sizes DEF Quiet
<1>5. CASE job \in HostJob /\ SafeStart(job) /\ Start(job)
  <2>1. state' = "GEN" => fsm_current_state' = "IDLE" /\ matrix_gen_start'
    BY <1>1, <1>5, GeneratorMoves DEF Start, SafeStart
  <2>2. state' # "LOAD"
    BY <1>5 DEF Start
  <2> QED
    BY <2>1, <2>2 DEF QuietInv
<1>6. CASE Generating
  <2>1. state = "GEN" /\ ~matrix_gen_start' /\ state' \in {"GEN", "LOAD"}
    BY <1>1, <1>6 DEF Generating
  <2>2. CASE fsm_current_state = "IDLE" /\ matrix_gen_start
    <3>1. fsm_current_state' = "GENERATE_MATRIX" /\ gen_ctr' = 0 /\ ~gen_ack
      BY <1>1, <2>2, GeneratorMoves DEF HandshakeInv
    <3>2. state' = "GEN"
      BY <1>6, <3>1 DEF Generating
    <3>3. /\ \A i \in 1 .. C_LAT : i <= 0 + 1 => c1'[i] = None
          /\ \A s \in 1 .. M_LAT : C_LAT + s <= 0 + 1 => mm'[s] = None
      BY <1>3, <1>4, <2>1
    <3> QED
      BY <3>1, <3>2, <3>3 DEF QuietInv, Quiet
  <2>3. CASE fsm_current_state = "GENERATE_MATRIX"
    <3>1. ~done /\ Quiet(gen_ctr + 1) /\ gen_ctr \in Nat
      BY <1>1, <2>1, <2>3 DEF GenInv, QuietInv, GeneratorOK
    <3>2. state' = "GEN"
      BY <1>6, <3>1 DEF Generating
    <3>3. \A m \in Nat : m <= gen_ctr + 2 =>
               /\ \A i \in 1 .. C_LAT : i <= m => c1'[i] = None
               /\ \A s \in 1 .. M_LAT : C_LAT + s <= m => mm'[s] = None
      <4>1. gen_ctr + 1 \in Nat /\ (gen_ctr + 1) + 1 = gen_ctr + 2
        BY <3>1
      <4> QED
        BY <1>3, <2>1, <3>1, <4>1
    <3>4. CASE fsm_current_state' = "GENERATE_MATRIX" /\ gen_ctr' = gen_ctr + 1
      <4>1. /\ \A i \in 1 .. C_LAT : i <= gen_ctr' + 1 => c1'[i] = None
            /\ \A s \in 1 .. M_LAT : C_LAT + s <= gen_ctr' + 1 => mm'[s] = None
        BY <3>1, <3>3, <3>4
      <4> QED
        BY <3>2, <3>4, <4>1 DEF QuietInv, Quiet
    <3>5. CASE fsm_current_state' = "RANK_CHECK" /\ gen_ctr = GEN_LAT - 1
      <4>1. TO_PRODUCT <= gen_ctr + 2
        BY <1>2, <3>5
      <4>2. /\ \A i \in 1 .. C_LAT : i <= TO_PRODUCT => c1'[i] = None
            /\ \A s \in 1 .. M_LAT : C_LAT + s <= TO_PRODUCT => mm'[s] = None
        BY <1>2, <3>3, <4>1
      <4> QED
        BY <3>2, <3>5, <4>2 DEF QuietInv, Quiet, TO_PRODUCT
    <3> QED
      BY <1>1, <2>3, <3>4, <3>5, GeneratorMoves
  <2>4. CASE fsm_current_state \in {"RANK_CHECK", "DONE"} \/ (fsm_current_state = "IDLE" /\ ~matrix_gen_start)
    <3>1. Quiet(TO_PRODUCT)
      BY <1>1, <2>1, <2>4 DEF QuietInv
    <3>2. \A m \in {1, TO_PRODUCT} :
               /\ \A i \in 1 .. C_LAT : i <= m => c1'[i] = None
               /\ \A s \in 1 .. M_LAT : C_LAT + s <= m => mm'[s] = None
      <4>1. \A m \in {1, TO_PRODUCT} : m \in Nat /\ m <= TO_PRODUCT + 1
        BY <1>2
      <4> QED
        BY <1>2, <1>3, <2>1, <3>1, <4>1
    <3>3. /\ \A i \in 1 .. C_LAT : i <= 0 + 1 => c1'[i] = None
          /\ \A s \in 1 .. M_LAT : C_LAT + s <= 0 + 1 => mm'[s] = None
      BY <3>2
    <3>4. /\ \A i \in 1 .. C_LAT : i <= TO_PRODUCT => c1'[i] = None
          /\ \A s \in 1 .. M_LAT : C_LAT + s <= TO_PRODUCT => mm'[s] = None
      BY <3>2
    <3>5. fsm_current_state' = "GENERATE_MATRIX" => gen_ctr' = 0
      BY <1>1, <2>4, GeneratorMoves
    <3> QED
      BY <3>3, <3>4, <3>5 DEF QuietInv, Quiet, TO_PRODUCT
  <2> QED
    BY <1>1, <2>2, <2>3, <2>4 DEF GeneratorOK
<1>7. CASE Loading
  <2>1. state = "LOAD" /\ state' \in {"LOAD", "STREAM"} /\ Quiet(TO_PRODUCT)
    BY <1>1, <1>7 DEF Loading, QuietInv
  <2>2. /\ \A i \in 1 .. C_LAT : i <= TO_PRODUCT => c1'[i] = None
        /\ \A s \in 1 .. M_LAT : C_LAT + s <= TO_PRODUCT => mm'[s] = None
    <3>1. TO_PRODUCT <= TO_PRODUCT + 1
      BY <1>2
    <3> QED
      BY <1>2, <1>3, <2>1, <3>1
  <2> QED
    BY <2>1, <2>2 DEF QuietInv, Quiet, TO_PRODUCT
<1>8. CASE Streaming
  BY <1>8 DEF Streaming, QuietInv
<1> QED
  BY <1>1, <1>5, <1>6, <1>7, <1>8, ControlCases

-----------------------------------------------------------------------------
(* What the pipes carry.                                                   *)

(* While the tables are touched nothing is on its way to the product.      *)
LEMMA EmptyInLoad ==
  ASSUME QuietInv, state = "LOAD"
  PROVE  /\ \A i \in 1 .. C_LAT : c1[i] = None
         /\ \A s \in 1 .. M_LAT : mm[s] = None
BY Sizes DEF QuietInv, Quiet

LEMMA BusyIsLoad == LoadInv /\ mm_busy => state = "LOAD"
BY DEF LoadInv, mm_busy

LEMMA NotDropped == ControlInv => NoTokenDropped
<1> SUFFICES ASSUME ControlInv PROVE NoTokenDropped
  OBVIOUS
<1>1. mm_busy => c1[C_LAT] = None
  BY BusyIsLoad, EmptyInLoad, Sizes DEF ControlInv
<1> QED
  BY <1>1 DEF NoTokenDropped, c1_valid

LEMMA ItemsStep ==
  ASSUME NEW job, Startable(job), Types, ControlInv, ItemsInv, Clock(job)
  PROVE  ItemsInv'
<1>1. /\ Pipes /\ MatmulPipe /\ TableLoad /\ LoadInv /\ QuietInv /\ StreamsThroughItsMatrix
      /\ ControlOK /\ MatmulOK /\ PipesOK
  BY DEF Clock, Types, ControlInv
<1>2. CASE state = "LOAD"
  <2>1. c1'[1] = None /\ \A i \in 2 .. C_LAT : c1'[i] = None
    <3>1. \A i \in 2 .. C_LAT : i - 1 \in 1 .. C_LAT
      BY Sizes
    <3> QED
      BY <1>1, <1>2, <3>1, PipeSteps, EmptyInLoad DEF admit
  <2>2. mm'[1] = None /\ \A s \in 2 .. M_LAT : mm'[s] = None
    <3>1. \A s \in 2 .. M_LAT : s - 1 \in 1 .. M_LAT
      BY Sizes
    <3>2. ~c1_valid
      BY <1>1, <1>2, EmptyInLoad, Sizes DEF c1_valid
    <3> QED
      BY <1>1, <1>2, <3>1, <3>2, ProductSteps, EmptyInLoad DEF Accumulate
  <2>3. (\A i \in 1 .. C_LAT : c1'[i] = None) /\ (\A s \in 1 .. M_LAT : mm'[s] = None)
    BY <2>1, <2>2, Sizes
  <2> QED
    BY <2>3 DEF ItemsInv
<1>3. CASE state # "LOAD"
  <2>1. tables' = tables /\ TablesNow = tables /\ ~mm_busy
    BY <1>1, <1>3, BusyIsLoad DEF TableLoad, LoadInv, TablesNow
  <2>2. ASSUME NEW i \in 1 .. C_LAT, c1'[i] # None
        PROVE  tables = MatrixOf(c1'[i].pph)
    <3>1. CASE i = 1
      <4>1. admit /\ c1'[1] = header
        BY <1>1, <2>2, <3>1, PipeSteps
      <4>2. tables = MatrixOf(blk_pph) /\ c1'[1].pph = blk_pph
        BY <1>1, <4>1 DEF admit, header, StreamsThroughItsMatrix
      <4> QED
        BY <3>1, <4>2
    <3>2. CASE i # 1
      <4>1. i \in 2 .. C_LAT /\ i - 1 \in 1 .. C_LAT
        BY <3>2, Sizes
      <4>2. c1'[i] = c1[i - 1]
        BY <1>1, <4>1, PipeSteps
      <4> QED
        BY <2>2, <4>1, <4>2 DEF ItemsInv
    <3> QED
      BY <3>1, <3>2
  <2>3. ASSUME NEW s \in 1 .. M_LAT, mm'[s] # None
        PROVE  /\ mm'[s] = [vec |-> ph_delay'[s], mat |-> MatrixOf(ph_delay'[s].pph)]
               /\ tables = MatrixOf(ph_delay'[s].pph)
    <3>1. CASE s = 1
      <4>1. /\ c1[C_LAT] # None /\ mm'[1] = [vec |-> c1[C_LAT], mat |-> tables]
            /\ ph_delay'[1] = c1[C_LAT]
        BY <1>1, <2>1, <2>3, <3>1, ProductSteps, PipeSteps DEF c1_valid
      <4>2. tables = MatrixOf(c1[C_LAT].pph)
        BY <4>1, Sizes DEF ItemsInv
      <4> QED
        BY <3>1, <4>1, <4>2
    <3>2. CASE s # 1
      <4>1. s \in 2 .. M_LAT /\ s - 1 \in 1 .. M_LAT
        BY <3>2, Sizes
      <4>2. mm'[s] = Accumulate(mm[s - 1]) /\ ph_delay'[s] = ph_delay[s - 1]
        BY <1>1, <4>1, ProductSteps, PipeSteps
      <4>3. mm[s - 1] # None
        BY <2>3, <4>2 DEF Accumulate
      <4>4. /\ mm[s - 1] = [vec |-> ph_delay[s - 1], mat |-> MatrixOf(ph_delay[s - 1].pph)]
            /\ tables = MatrixOf(ph_delay[s - 1].pph)
        BY <4>1, <4>3 DEF ItemsInv
      <4>5. mm[s - 1].mat = tables
        BY <4>4
      <4>6. mm'[s] = mm[s - 1]
        BY <2>1, <4>2, <4>5 DEF Accumulate
      <4> QED
        BY <4>2, <4>4, <4>6
    <3> QED
      BY <3>1, <3>2
  <2> QED
    BY <2>1, <2>2, <2>3 DEF ItemsInv
<1> QED
  BY <1>2, <1>3

LEMMA DigestsStep ==
  ASSUME Types, ItemsInv, DigestsAreRight, Pipes
  PROVE  DigestsAreRight'
<1>1. ASSUME NEW i \in 1 .. C_LAT, c2'[i] # None
      PROVE  c2'[i] = Digest(c2'[i].vec)
  <2>1. CASE i = 1
    <3>1. m_valid /\ c2'[1] = digest
      BY <1>1, <2>1, PipeSteps DEF Types
    <3>2. mm[M_LAT] = [vec |-> ph_delay[M_LAT], mat |-> MatrixOf(ph_delay[M_LAT].pph)]
      BY <3>1, Sizes DEF m_valid, ItemsInv
    <3>3. digest = Digest(ph_delay[M_LAT]) /\ digest.vec = ph_delay[M_LAT]
      BY <3>2 DEF digest, Digest
    <3> QED
      BY <2>1, <3>1, <3>3
  <2>2. CASE i # 1
    <3>1. i \in 2 .. C_LAT /\ i - 1 \in 1 .. C_LAT
      BY <2>2, Sizes
    <3>2. c2'[i] = c2[i - 1]
      BY <3>1, PipeSteps DEF Types
    <3> QED
      BY <1>1, <3>1, <3>2 DEF DigestsAreRight
  <2> QED
    BY <2>1, <2>2
<1> QED
  BY <1>1 DEF DigestsAreRight

-----------------------------------------------------------------------------
(* The items in flight.                                                    *)

(* Where an item is, by its age.                                           *)
LEMMA Places ==
  ASSUME Types
  PROVE  /\ \A i \in 1 .. C_LAT : /\ HeaderAt(i) = c1[i]
                                  /\ c1[i] \in Header \union {None}
         /\ \A s \in 1 .. M_LAT :
              /\ HeaderAt(C_LAT + s) = IF mm[s] = None THEN None ELSE mm[s].vec
              /\ mm[s] \in Product \union {None} /\ (mm[s] # None => mm[s].vec \in Header)
              /\ HeaderAt(C_LAT + s) # None <=> mm[s] # None
         /\ \A i \in 1 .. C_LAT :
              /\ HeaderAt(TO_PRODUCT + i) = IF c2[i] = None THEN None ELSE c2[i].vec
              /\ c2[i] \in Summed \union {None} /\ (c2[i] # None => c2[i].vec \in Header)
              /\ HeaderAt(TO_PRODUCT + i) # None <=> c2[i] # None
<1>1. \A i \in 1 .. C_LAT : HeaderAt(i) = c1[i] /\ c1[i] \in Header \union {None}
  BY Sizes DEF HeaderAt, Types, PipesOK, Line
<1>2. ASSUME NEW s \in 1 .. M_LAT
      PROVE  /\ HeaderAt(C_LAT + s) = IF mm[s] = None THEN None ELSE mm[s].vec
             /\ mm[s] \in Product \union {None} /\ (mm[s] # None => mm[s].vec \in Header)
  <2>1. ~(C_LAT + s <= C_LAT) /\ C_LAT + s <= C_LAT + M_LAT /\ (C_LAT + s) - C_LAT = s
    BY Sizes
  <2>2. HeaderAt(C_LAT + s) = IF mm[s] = None THEN None ELSE mm[s].vec
    BY <2>1 DEF HeaderAt
  <2>3. mm[s] \in Product \union {None}
    BY DEF Types, MatmulOK, Line
  <2> QED
    BY <2>2, <2>3 DEF Product
<1>3. ASSUME NEW i \in 1 .. C_LAT
      PROVE  /\ HeaderAt(TO_PRODUCT + i) = IF c2[i] = None THEN None ELSE c2[i].vec
             /\ c2[i] \in Summed \union {None} /\ (c2[i] # None => c2[i].vec \in Header)
  <2>1. /\ ~(TO_PRODUCT + i <= C_LAT) /\ ~(TO_PRODUCT + i <= C_LAT + M_LAT)
        /\ (TO_PRODUCT + i) - C_LAT - M_LAT = i
    BY Sizes
  <2>2. HeaderAt(TO_PRODUCT + i) = IF c2[i] = None THEN None ELSE c2[i].vec
    BY <2>1 DEF HeaderAt
  <2>3. c2[i] \in Summed \union {None}
    BY DEF Types, PipesOK, Line
  <2> QED
    BY <2>2, <2>3 DEF Summed
<1>4. None \notin Header
  BY NoneIsNoItem
<1> QED
  BY <1>1, <1>2, <1>3, <1>4

(* Every age is one of the three.                                          *)
LEMMA Ages ==
  ASSUME NEW age \in 1 .. TOTAL_LAT
  PROVE  \/ age \in 1 .. C_LAT
         \/ \E s \in 1 .. M_LAT : age = C_LAT + s
         \/ \E i \in 1 .. C_LAT : age = TO_PRODUCT + i
<1>1. CASE age <= C_LAT
  BY <1>1, Sizes
<1>2. CASE age > C_LAT /\ age <= TO_PRODUCT
  <2>1. age - C_LAT \in 1 .. M_LAT /\ age = C_LAT + (age - C_LAT)
    BY <1>2, Sizes
  <2> QED
    BY <2>1
<1>3. CASE age > TO_PRODUCT
  <2>1. age - TO_PRODUCT \in 1 .. C_LAT /\ age = TO_PRODUCT + (age - TO_PRODUCT)
    BY <1>3, Sizes
  <2> QED
    BY <2>1
<1> QED
  BY <1>1, <1>2, <1>3, Sizes

LEMMA SecondReady == Types /\ Spaced => SecondCoreReady
<1> SUFFICES ASSUME Types, Spaced, m_valid, c2_busy PROVE FALSE
  BY DEF SecondCoreReady
<1>1. PICK i \in 1 .. C_LAT - 1 : c2[i] # None
  BY DEF c2_busy, Busy
<1>2. /\ i \in 1 .. C_LAT /\ i < N_MAX /\ i \in Nat
      /\ M_LAT \in 1 .. M_LAT /\ TO_PRODUCT = C_LAT + M_LAT
      /\ TO_PRODUCT \in 1 .. TOTAL_LAT /\ TO_PRODUCT + i \in 1 .. TOTAL_LAT
      /\ TO_PRODUCT < TO_PRODUCT + i /\ (TO_PRODUCT + i) - TO_PRODUCT = i
  BY Sizes DEF c2_busy, Busy, N_MAX
<1>3. HeaderAt(TO_PRODUCT) # None /\ HeaderAt(TO_PRODUCT + i) # None
  BY <1>1, <1>2, Places DEF m_valid
<1>4. (TO_PRODUCT + i) - TO_PRODUCT >= N_MAX
  BY <1>2, <1>3 DEF Spaced, InFlight
<1> QED
  BY <1>2, <1>4, Sizes

LEMMA ItemsMove ==
  ASSUME NEW job, Types, ControlInv, Spaced, Clock(job)
  PROVE  /\ HeaderAt(1)' = IF admit THEN header ELSE None
         /\ \A age \in 1 .. TOTAL_LAT - 1 : HeaderAt(age + 1)' = HeaderAt(age)
<1>1. /\ ControlOK /\ MatmulOK /\ PipesOK /\ Pipes /\ MatmulPipe
      /\ LoadInv /\ NoTokenDropped /\ SecondCoreReady
  BY NotDropped, SecondReady DEF Types, Clock, ControlInv
<1>2. c1_valid => ~mm_busy
  BY <1>1 DEF NoTokenDropped
<1>3. HeaderAt(1)' = IF admit THEN header ELSE None
  <2>1. HeaderAt(1)' = c1'[1]
    BY Sizes DEF HeaderAt
  <2> QED
    BY <1>1, <2>1, PipeSteps
<1>4. ASSUME NEW age \in 1 .. C_LAT, age # C_LAT
      PROVE  HeaderAt(age + 1)' = HeaderAt(age)
  <2>1. age + 1 \in 2 .. C_LAT /\ age + 1 <= C_LAT /\ (age + 1) - 1 = age
    BY <1>4, Sizes
  <2>2. HeaderAt(age + 1)' = c1'[age + 1]
    BY <2>1 DEF HeaderAt
  <2> QED
    BY <1>1, <2>1, <2>2, PipeSteps, Places
<1>5. ASSUME NEW s \in 1 .. M_LAT
      PROVE  HeaderAt(C_LAT + s)' = IF mm'[s] = None THEN None ELSE mm'[s].vec
  <2>1. ~(C_LAT + s <= C_LAT) /\ C_LAT + s <= C_LAT + M_LAT /\ (C_LAT + s) - C_LAT = s
    BY Sizes
  <2> QED
    BY <2>1 DEF HeaderAt
<1>6. ASSUME NEW i \in 1 .. C_LAT
      PROVE  HeaderAt(TO_PRODUCT + i)' = IF c2'[i] = None THEN None ELSE c2'[i].vec
  <2>1. /\ ~(TO_PRODUCT + i <= C_LAT) /\ ~(TO_PRODUCT + i <= C_LAT + M_LAT)
        /\ (TO_PRODUCT + i) - C_LAT - M_LAT = i
    BY Sizes
  <2> QED
    BY <2>1 DEF HeaderAt
<1>7. HeaderAt(C_LAT + 1)' = HeaderAt(C_LAT)
  <2>1. 1 \in 1 .. M_LAT /\ C_LAT \in 1 .. C_LAT
    BY Sizes
  <2>2. mm'[1] = IF c1[C_LAT] # None THEN [vec |-> c1[C_LAT], mat |-> TablesNow] ELSE None
    BY <1>1, <1>2, ProductSteps DEF c1_valid
  <2>3. c1[C_LAT] # None => mm'[1] # None
    <3>1. mm' \in Line(Product, M_LAT) /\ None \notin Product
      BY <1>1, MatmulTypes, NoneIsNoItem DEF MatmulOK, Clock, Types
    <3>2. c1[C_LAT] # None => c1[C_LAT] \in Header /\ TablesNow \in SomeMatrix
      BY <1>1, <2>1, Places DEF TablesNow, MatmulOK, SomeMatrix
    <3> QED
      BY <2>2, <3>1, <3>2 DEF Product
  <2>4. HeaderAt(C_LAT) = c1[C_LAT]
    BY <2>1, Places
  <2>5. HeaderAt(C_LAT + 1)' = IF mm'[1] = None THEN None ELSE mm'[1].vec
    BY <1>5, <2>1
  <2>6. CASE c1[C_LAT] = None
    BY <2>2, <2>4, <2>5, <2>6
  <2>7. CASE c1[C_LAT] # None
    <3>1. mm'[1].vec = c1[C_LAT]
      BY <2>2, <2>7
    <3> QED
      BY <2>3, <2>4, <2>5, <2>7, <3>1
  <2> QED
    BY <2>6, <2>7
<1>8. ASSUME NEW s \in 1 .. M_LAT, s # M_LAT
      PROVE  HeaderAt((C_LAT + s) + 1)' = HeaderAt(C_LAT + s)
  <2>1. /\ s + 1 \in 2 .. M_LAT /\ s + 1 \in 1 .. M_LAT /\ (s + 1) - 1 = s
        /\ (C_LAT + s) + 1 = C_LAT + (s + 1)
    BY <1>8, Sizes
  <2>2. mm'[s + 1] = Accumulate(mm[s])
    BY <1>1, <2>1, ProductSteps
  <2>3. HeaderAt((C_LAT + s) + 1)' = IF mm'[s + 1] = None THEN None ELSE mm'[s + 1].vec
    BY <1>5, <2>1
  <2>4. mm[s] # None => Accumulate(mm[s]) # None /\ Accumulate(mm[s]).vec = mm[s].vec
    <3>1. mm[s] # None => mm[s] \in Product
      BY Places
    <3>2. mm[s] \in Product => [mm[s] EXCEPT !.mat = None] \in Product
      BY DEF Product, SomeMatrix
    <3>3. mm[s] \in Product => [mm[s] EXCEPT !.mat = None].vec = mm[s].vec
      BY DEF Product
    <3> QED
      BY <3>1, <3>2, <3>3, NoneIsNoItem DEF Accumulate
  <2>5. mm[s] = None => Accumulate(mm[s]) = None
    BY DEF Accumulate
  <2>6. HeaderAt(C_LAT + s) = IF mm[s] = None THEN None ELSE mm[s].vec
    BY Places
  <2> QED
    BY <2>2, <2>3, <2>4, <2>5, <2>6
<1>9. HeaderAt(TO_PRODUCT + 1)' = HeaderAt(TO_PRODUCT)
  <2>1. 1 \in 1 .. C_LAT /\ M_LAT \in 1 .. M_LAT /\ TO_PRODUCT = C_LAT + M_LAT
    BY Sizes
  <2>2. c2'[1] = IF mm[M_LAT] # None THEN digest ELSE None
    BY <1>1, PipeSteps DEF m_valid, SecondCoreReady
  <2>3. mm[M_LAT] # None => digest # None /\ digest.vec = mm[M_LAT].vec
    BY <1>1, DigestType, NoneIsNoItem DEF m_valid, digest
  <2>4. HeaderAt(TO_PRODUCT) = IF mm[M_LAT] = None THEN None ELSE mm[M_LAT].vec
    BY <2>1, Places
  <2>5. HeaderAt(TO_PRODUCT + 1)' = IF c2'[1] = None THEN None ELSE c2'[1].vec
    BY <1>6, <2>1
  <2> QED
    BY <2>2, <2>3, <2>4, <2>5
<1>10. ASSUME NEW i \in 1 .. C_LAT, i # C_LAT
       PROVE  HeaderAt((TO_PRODUCT + i) + 1)' = HeaderAt(TO_PRODUCT + i)
  <2>1. /\ i + 1 \in 2 .. C_LAT /\ i + 1 \in 1 .. C_LAT /\ (i + 1) - 1 = i
        /\ (TO_PRODUCT + i) + 1 = TO_PRODUCT + (i + 1)
    BY <1>10, Sizes
  <2>2. c2'[i + 1] = c2[i]
    BY <1>1, <2>1, PipeSteps
  <2>3. HeaderAt((TO_PRODUCT + i) + 1)' = IF c2'[i + 1] = None THEN None ELSE c2'[i + 1].vec
    BY <1>6, <2>1
  <2> QED
    BY <2>2, <2>3, Places
<1>11. ASSUME NEW age \in 1 .. TOTAL_LAT - 1
       PROVE  HeaderAt(age + 1)' = HeaderAt(age)
  <2>1. age \in 1 .. TOTAL_LAT /\ age # TO_PRODUCT + C_LAT
    BY Sizes
  <2>2. CASE age \in 1 .. C_LAT
    BY <1>4, <1>7, <2>2
  <2>3. ASSUME NEW s \in 1 .. M_LAT, age = C_LAT + s
        PROVE  HeaderAt(age + 1)' = HeaderAt(age)
    <3>1. CASE s = M_LAT
      <4>1. age = TO_PRODUCT
        BY <2>3, <3>1, Sizes
      <4> QED
        BY <1>9, <4>1
    <3>2. CASE s # M_LAT
      BY <1>8, <2>3, <3>2
    <3> QED
      BY <3>1, <3>2
  <2>4. ASSUME NEW i \in 1 .. C_LAT, age = TO_PRODUCT + i
        PROVE  HeaderAt(age + 1)' = HeaderAt(age)
    BY <1>10, <2>1, <2>4
  <2> QED
    BY <2>1, <2>2, <2>3, <2>4, Ages
<1> QED
  BY <1>3, <1>11

LEMMA InFlightMoves ==
  ASSUME NEW job, Types, ControlInv, Spaced, Clock(job)
  PROVE  /\ InFlight \subseteq 1 .. TOTAL_LAT /\ InFlight' \subseteq 1 .. TOTAL_LAT
         /\ 1 \in InFlight' <=> admit
         /\ \A age \in 2 .. TOTAL_LAT : age \in InFlight' <=> age - 1 \in InFlight
<1>1. 1 \in 1 .. TOTAL_LAT /\ header # None
  BY Sizes, HeaderType, NoneIsNoItem DEF Types
<1>2. 1 \in InFlight' <=> admit
  <2>1. 1 \in InFlight' <=> HeaderAt(1)' # None
    BY <1>1 DEF InFlight
  <2> QED
    BY <1>1, <2>1, ItemsMove
<1>3. ASSUME NEW age \in 2 .. TOTAL_LAT
      PROVE  age \in InFlight' <=> age - 1 \in InFlight
  <2>1. /\ age - 1 \in 1 .. TOTAL_LAT - 1 /\ age - 1 \in 1 .. TOTAL_LAT
        /\ age \in 1 .. TOTAL_LAT /\ (age - 1) + 1 = age
    BY Sizes
  <2>2. HeaderAt(age)' = HeaderAt(age - 1)
    BY <2>1, ItemsMove
  <2>3. age \in InFlight' <=> HeaderAt(age)' # None
    BY <2>1 DEF InFlight
  <2>4. age - 1 \in InFlight <=> HeaderAt(age - 1) # None
    BY <2>1 DEF InFlight
  <2> QED
    BY <2>2, <2>3, <2>4
<1>4. InFlight \subseteq 1 .. TOTAL_LAT /\ InFlight' \subseteq 1 .. TOTAL_LAT
  BY DEF InFlight
<1> QED
  BY <1>2, <1>3, <1>4

LEMMA Leaves == Types => (valid_out <=> TOTAL_LAT \in InFlight)
<1> SUFFICES ASSUME Types PROVE valid_out <=> TOTAL_LAT \in InFlight
  OBVIOUS
<1>1. C_LAT \in 1 .. C_LAT /\ TOTAL_LAT = TO_PRODUCT + C_LAT /\ TOTAL_LAT \in 1 .. TOTAL_LAT
  BY Sizes
<1>2. HeaderAt(TOTAL_LAT) # None <=> c2[C_LAT] # None
  BY <1>1, Places
<1> QED
  BY <1>1, <1>2 DEF valid_out, InFlight

LEMMA SpacedStep ==
  ASSUME NEW job, Types, ControlInv, Spaced, Clock(job)
  PROVE  Spaced'
<1>1. ASSUME NEW a \in InFlight', NEW b \in InFlight', a < b
      PROVE  b - a >= N_MAX
  <2>1. /\ a \in 1 .. TOTAL_LAT /\ b \in 2 .. TOTAL_LAT /\ b - 1 \in InFlight
        /\ b - 1 \in 1 .. TOTAL_LAT
    BY <1>1, InFlightMoves, Sizes
  <2>2. CASE a = 1
    <3>1. admit
      BY <2>2, InFlightMoves
    <3>2. CASE FOLDED
      <4>1. \A i \in 1 .. C_LAT - 1 : c1[i] = None
        BY <3>1, <3>2 DEF admit, c1_busy, Busy
      <4>2. HeaderAt(b - 1) # None
        BY <2>1 DEF InFlight
      <4>3. ~(b - 1 \in 1 .. C_LAT - 1)
        <5>1. ASSUME b - 1 \in 1 .. C_LAT - 1 PROVE FALSE
          <6>1. b - 1 \in 1 .. C_LAT
            BY <5>1, Sizes
          <6> QED
            BY <4>1, <4>2, <5>1, <6>1, Places
        <5> QED
          BY <5>1
      <4> QED
        BY <2>1, <2>2, <3>2, <4>3, Sizes DEF N_MAX
    <3>3. CASE ~FOLDED
      BY <1>1, <2>1, <3>3 DEF N_MAX
    <3> QED
      BY <3>2, <3>3
  <2>3. CASE a # 1
    <3>1. a \in 2 .. TOTAL_LAT
      BY <2>1, <2>3
    <3>2. a - 1 \in InFlight
      BY <3>1, InFlightMoves
    <3>3. a - 1 < b - 1 /\ (b - 1) - (a - 1) = b - a
      BY <1>1, <2>1, <3>1
    <3> QED
      BY <2>1, <3>2, <3>3 DEF Spaced
  <2> QED
    BY <2>2, <2>3
<1> QED
  BY <1>1 DEF Spaced

-----------------------------------------------------------------------------
(* The tag FIFO.                                                           *)

(* A set of numbers moved up by one has as many.                           *)
LEMMA MovedUp ==
  ASSUME NEW S \in SUBSET Int, IsFiniteSet(S), NEW T \in SUBSET Int,
         \A n \in Int : n \in T <=> n - 1 \in S
  PROVE  IsFiniteSet(T) /\ Cardinality(T) = Cardinality(S)
<1> DEFINE f == [n \in S |-> n + 1]
<1>1. \A n \in S : n + 1 \in T
  <2>1. \A n \in S : n \in Int /\ n + 1 \in Int /\ (n + 1) - 1 = n
    OBVIOUS
  <2> QED
    BY <2>1
<1>2. f \in [S -> T]
  BY <1>1
<1>3. IsInjective(f)
  BY DEF IsInjective
<1>4. \A t \in T : \E s \in S : f[s] = t
  <2>1. SUFFICES ASSUME NEW t \in T PROVE \E s \in S : f[s] = t
    OBVIOUS
  <2>2. t \in Int /\ t - 1 \in S /\ (t - 1) + 1 = t
    OBVIOUS
  <2> QED
    BY <2>2
<1>5. f \in Bijection(S, T)
  BY <1>2, <1>3, <1>4 DEF Bijection, Injection, Surjection
<1> QED
  BY <1>5, FS_Bijection DEF ExistsBijection

LEMMA FiniteFlight == IsFiniteSet(InFlight) /\ Cardinality(InFlight) \in Nat
<1>1. IsFiniteSet(1 .. TOTAL_LAT)
  BY Sizes, FS_Interval
<1>2. InFlight \in SUBSET (1 .. TOTAL_LAT)
  BY DEF InFlight
<1>3. IsFiniteSet(InFlight)
  BY <1>1, <1>2, FS_Subset
<1> QED
  BY <1>3, FS_CardinalityType

LEMMA OccupancyStep ==
  ASSUME NEW job, Types, ControlInv, Spaced, Clock(job), tag_occ = Cardinality(InFlight)
  PROVE  tag_occ' = Cardinality(InFlight)'
<1> DEFINE Staying == InFlight \ {TOTAL_LAT}
           Moved == InFlight' \ {1}
<1>1. InFlight \in SUBSET Int /\ TOTAL_LAT \in Nat /\ 1 .. TOTAL_LAT \subseteq Int
  BY Sizes DEF InFlight
<1>2. IsFiniteSet(InFlight) /\ Cardinality(InFlight) \in Nat
  BY FiniteFlight
<1>3. /\ IsFiniteSet(Staying)
      /\ Cardinality(Staying) = Cardinality(InFlight) - (IF valid_out THEN 1 ELSE 0)
  BY <1>2, Leaves, FS_RemoveElement
<1>4. IsFiniteSet(Moved) /\ Cardinality(Moved) = Cardinality(Staying)
  <2>1. ASSUME NEW n \in Int
        PROVE  n \in Moved <=> n - 1 \in Staying
    <3>1. CASE n \in 2 .. TOTAL_LAT
      <4>1. n # 1 /\ n - 1 # TOTAL_LAT
        BY <1>1, <3>1
      <4> QED
        BY <3>1, <4>1, InFlightMoves
    <3>2. CASE ~(n \in 2 .. TOTAL_LAT)
      <4>1. n \notin Moved
        BY <1>1, <3>2, InFlightMoves
      <4>2. n - 1 \notin Staying
        BY <1>1, <3>2, InFlightMoves
      <4> QED
        BY <4>1, <4>2
    <3> QED
      BY <3>1, <3>2
  <2>2. Staying \in SUBSET Int /\ Moved \in SUBSET Int
    BY <1>1, InFlightMoves
  <2> HIDE DEF Staying, Moved
  <2> QED
    BY <1>3, <2>1, <2>2, MovedUp
<1>5. Cardinality(InFlight)' = Cardinality(Moved) + (IF admit THEN 1 ELSE 0)
  <2>1. CASE admit
    <3>1. InFlight' = Moved \union {1} /\ 1 \notin Moved
      BY <2>1, InFlightMoves
    <3> HIDE DEF Moved
    <3>2. Cardinality(Moved \union {1}) = Cardinality(Moved) + 1
      BY <1>4, <3>1, FS_AddElement
    <3> QED
      BY <2>1, <3>1, <3>2
  <2>2. CASE ~admit
    <3>1. InFlight' = Moved
      BY <2>2, InFlightMoves
    <3> HIDE DEF Moved
    <3>2. Cardinality(Moved) \in Nat
      BY <1>4, FS_CardinalityType
    <3>3. Cardinality(InFlight)' = Cardinality(Moved)
      BY <3>1
    <3> QED
      BY <2>2, <3>2, <3>3
  <2> QED
    BY <2>1, <2>2
<1>6. tag_occ' = tag_occ + (IF admit THEN 1 ELSE 0) - (IF valid_out THEN 1 ELSE 0)
  BY DEF Clock, Tags
<1> HIDE DEF Staying, Moved
<1> QED
  BY <1>2, <1>3, <1>4, <1>5, <1>6

LEMMA Divided ==
  ASSUME NEW x \in Nat, NEW n \in Nat \ {0}
  PROVE  x \div n \in Nat /\ n * (x \div n) <= x /\ x < n * (x \div n) + n
BY SMT

(* Items that far apart need no more slots than there are.                 *)
LEMMA SlotsSuffice == Spaced => Cardinality(InFlight) <= TAG_SLOTS
<1> SUFFICES ASSUME Spaced PROVE Cardinality(InFlight) <= TAG_SLOTS
  OBVIOUS
<1> DEFINE Place(age) == (age - 1) \div N_MAX
           f == [age \in InFlight |-> Place(age)]
<1>1. N_MAX \in Nat \ {0} /\ TOTAL_LAT \in Nat /\ TAG_SLOTS \in Nat \ {0}
  BY Sizes, Slots
<1>2. TOTAL_LAT <= N_MAX * TAG_SLOTS
  <2>1. TOTAL_LAT + N_MAX - 1 \in Nat
    BY <1>1
  <2>2. TOTAL_LAT + N_MAX - 1 < N_MAX * TAG_SLOTS + N_MAX
    BY <1>1, <2>1, Divided DEF TAG_SLOTS
  <2>3. N_MAX * TAG_SLOTS \in Nat
    BY <1>1
  <2> QED
    BY <1>1, <2>2, <2>3
<1>3. ASSUME NEW age \in InFlight
      PROVE  /\ age \in 1 .. TOTAL_LAT /\ Place(age) \in Nat
             /\ N_MAX * Place(age) <= age - 1 /\ age - 1 < N_MAX * Place(age) + N_MAX
  <2>1. age \in 1 .. TOTAL_LAT /\ age - 1 \in Nat
    BY <1>1 DEF InFlight
  <2> QED
    BY <1>1, <2>1, Divided
<1> HIDE DEF Place
<1>4. ASSUME NEW age \in InFlight
      PROVE  Place(age) \in 0 .. TAG_SLOTS - 1
  <2>1. PICK q \in Nat : q = Place(age)
    BY <1>3
  <2>2. N_MAX * q <= age - 1 /\ age - 1 < TOTAL_LAT /\ age \in Nat
    <3>1. N_MAX * q <= age - 1 /\ age \in 1 .. TOTAL_LAT
      BY <1>3, <2>1
    <3> QED
      BY <1>1, <3>1
  <2>3. ASSUME q >= TAG_SLOTS PROVE FALSE
    <3>1. q = TAG_SLOTS + (q - TAG_SLOTS) /\ q - TAG_SLOTS \in Nat
      BY <1>1, <2>3
    <3>2. N_MAX * q = N_MAX * TAG_SLOTS + N_MAX * (q - TAG_SLOTS) /\ N_MAX * (q - TAG_SLOTS) >= 0
      BY <1>1, <3>1
    <3> QED
      BY <1>1, <1>2, <2>2, <3>2
  <2> QED
    BY <1>1, <2>1, <2>3
<1>5. ASSUME NEW a \in InFlight, NEW b \in InFlight, Place(a) = Place(b)
      PROVE  a = b
  <2>1. PICK q \in Nat : q = Place(a) /\ q = Place(b)
    BY <1>3, <1>5
  <2>2. /\ N_MAX * q <= a - 1 /\ a - 1 < N_MAX * q + N_MAX
        /\ N_MAX * q <= b - 1 /\ b - 1 < N_MAX * q + N_MAX
        /\ a \in Nat /\ b \in Nat /\ N_MAX * q \in Nat
    <3>1. N_MAX * q <= a - 1 /\ a - 1 < N_MAX * q + N_MAX /\ a \in 1 .. TOTAL_LAT
      BY <1>3, <2>1
    <3>2. N_MAX * q <= b - 1 /\ b - 1 < N_MAX * q + N_MAX /\ b \in 1 .. TOTAL_LAT
      BY <1>3, <2>1
    <3>3. N_MAX * q \in Nat
      BY <1>1
    <3> QED
      BY <1>1, <3>1, <3>2, <3>3
  <2>3. ~(b - a >= N_MAX) /\ ~(a - b >= N_MAX)
    BY <1>1, <2>2
  <2> QED
    BY <2>2, <2>3 DEF Spaced
<1>6. f \in Injection(InFlight, 0 .. TAG_SLOTS - 1)
  BY <1>4, <1>5 DEF Injection, IsInjective
<1>7. IsFiniteSet(0 .. TAG_SLOTS - 1) /\ Cardinality(0 .. TAG_SLOTS - 1) = TAG_SLOTS
  BY <1>1, FS_Interval
<1> QED
  BY <1>6, <1>7, FS_Injection

-----------------------------------------------------------------------------
(* All of it together.                                                     *)

(* What a reset leaves.                                                    *)
Cleared ==
  /\ Types
  /\ state = "IDLE" /\ ~matrix_gen_start /\ ~mm_reload /\ pph_reg = ZeroPph
  /\ fsm_current_state = "IDLE" /\ gen_ctr = 0 /\ ~done
  /\ ld_state = "LD_IDLE" /\ ld_ctr = 0
  /\ c1 = [i \in 1 .. C_LAT |-> None] /\ mm = [s \in 1 .. M_LAT |-> None]
  /\ c2 = [i \in 1 .. C_LAT |-> None]
  /\ tag_occ = 0 /\ tag_wr_ptr = 0 /\ tag_rd_ptr = 0

LEMMA NothingInFlight == Cleared => InFlight = {}
<1> SUFFICES ASSUME Cleared PROVE InFlight = {}
  OBVIOUS
<1>1. ASSUME NEW age \in 1 .. TOTAL_LAT PROVE HeaderAt(age) = None
  BY Ages, Places DEF Cleared
<1> QED
  BY <1>1 DEF InFlight

LEMMA ClearedIInv == Cleared => IInv
<1> SUFFICES ASSUME Cleared PROVE IInv
  OBVIOUS
<1> USE DEF Cleared
<1>1. GenInv /\ HandshakeInv /\ LoadInv /\ TablesInv /\ QuietInv /\ StreamsThroughItsMatrix
  BY DEF GenInv, HandshakeInv, LoadInv, TablesInv, QuietInv, StreamsThroughItsMatrix
<1>2. ItemsInv /\ DigestsAreRight
  BY DEF ItemsInv, DigestsAreRight
<1>3. InFlight = {}
  BY NothingInFlight
<1>4. Spaced /\ tag_occ = Cardinality(InFlight)
  BY <1>3, FS_EmptySet DEF Spaced
<1> QED
  BY <1>1, <1>2, <1>4 DEF IInv, ControlInv

LEMMA Zeros ==
  /\ 0 \in Nonce /\ 0 \in Target /\ 0 \in Work /\ 0 \in TagSlot
  /\ 0 \in 0 .. N_MAX - 1 /\ 0 \in 0 .. LOAD_LAT - 1
  /\ ZeroPph \in Pph /\ ZeroTs \in Ts /\ None \in SomeMatrix
BY Sizes, Slots, CoreConstants DEF Nonce, Target, Work, TagSlot, SomeMatrix

LEMMA InitCleared == Init => Cleared
<1> SUFFICES ASSUME Init PROVE Cleared
  OBVIOUS
<1>1. ControlOK /\ GeneratorOK /\ OutputsOK
  BY Zeros DEF Init, ControlOK, GeneratorOK, OutputsOK
<1>2. MatmulOK /\ PipesOK /\ TagsOK
  BY Zeros DEF Init, MatmulOK, PipesOK, TagsOK, Line
<1> QED
  BY <1>1, <1>2 DEF Init, Cleared, Types

LEMMA ResetCleared == Types /\ Reset => Cleared'
<1> SUFFICES ASSUME Types, Reset PROVE Cleared'
  OBVIOUS
<1>1. ControlOK' /\ GeneratorOK' /\ OutputsOK'
  BY Zeros DEF Reset, ControlOK, GeneratorOK, OutputsOK
<1>2. MatmulOK' /\ PipesOK'
  BY Zeros DEF Types, Reset, MatmulOK, PipesOK, Line, TablesNow
<1>3. TagsOK'
  BY Zeros DEF Types, Reset, TagsOK
<1> QED
  BY <1>1, <1>2, <1>3 DEF Reset, Cleared, Types

LEMMA ClockIInv ==
  ASSUME NEW job, Startable(job), IInv, Clock(job)
  PROVE  IInv'
<1>1. Types /\ ControlInv /\ ItemsInv /\ DigestsAreRight /\ Spaced
  BY DEF IInv
<1>2. Types' /\ ItemsInv' /\ QuietInv' /\ Spaced'
  BY <1>1, StepTypes, ItemsStep, QuietStep, SpacedStep
<1>3. GenInv' /\ HandshakeInv' /\ LoadInv' /\ TablesInv' /\ StreamsThroughItsMatrix'
  BY <1>1, GeneratorStep, HandshakeStep, LoadStep, TablesStep DEF Types, ControlInv, Clock
<1>4. DigestsAreRight'
  BY <1>1, DigestsStep DEF Clock
<1>5. tag_occ' = Cardinality(InFlight)'
  BY <1>1, OccupancyStep DEF IInv
<1> QED
  BY <1>2, <1>3, <1>4, <1>5 DEF IInv, ControlInv

LEMMA StepIInv == IInv /\ [Next]_vars => IInv'
<1> SUFFICES ASSUME IInv, [Next]_vars PROVE IInv'
  OBVIOUS
<1>1. CASE Reset
  <2>1. Cleared' => IInv'
    BY ClearedIInv, PTL
  <2> QED
    BY <1>1, <2>1, ResetCleared DEF IInv
<1>2. CASE Run
  <2>1. PICK job : Startable(job) /\ Clock(job)
    BY <1>2 DEF Run, Startable
  <2> QED
    BY <2>1, ClockIInv
<1>3. CASE UNCHANGED vars
  <2> USE <1>3 DEF vars, control, generator, matmul, pipes, tags, outputs
  <2>1. Types'
    BY DEF IInv, Types, ControlOK, GeneratorOK, MatmulOK, PipesOK, TagsOK, OutputsOK
  <2>2. ControlInv'
    BY DEF IInv, ControlInv, GenInv, HandshakeInv, LoadInv, TablesInv, QuietInv, Quiet,
           StreamsThroughItsMatrix
  <2>3. ItemsInv' /\ DigestsAreRight'
    BY DEF IInv, ItemsInv, DigestsAreRight
  <2>4. InFlight' = InFlight
    BY DEF InFlight, HeaderAt
  <2>5. Spaced' /\ tag_occ' = Cardinality(InFlight)'
    BY <2>4 DEF IInv, Spaced
  <2> QED
    BY <2>1, <2>2, <2>3, <2>5 DEF IInv
<1> QED
  BY <1>1, <1>2, <1>3 DEF Next

LEMMA Inductive == Spec => []IInv
BY InitCleared, ClearedIInv, StepIInv, PTL DEF Spec

-----------------------------------------------------------------------------
(* What it gives.                                                          *)

(* Every register keeps its width, the occupancy of the tag FIFO never     *)
(* goes below zero (core.sv:109-119, 236-264).                             *)
THEOREM TypeCorrect == Spec => []TypeOK
<1>1. IInv => TypeOK
  BY FiniteFlight DEF IInv, Types, TypeOK
<1> QED
  BY <1>1, Inductive, PTL

(* No item leaves the first cSHAKE core while the tables are rebuilt: the  *)
(* pipes have run dry by the end of a generation (core.sv:276-283).        *)
THEOREM NoTokenIsDropped == Spec => []NoTokenDropped
<1>1. IInv => NoTokenDropped
  BY NotDropped DEF IInv
<1> QED
  BY <1>1, Inductive, PTL

(* Items are streamed only under the tables of their own block             *)
(* (core.sv:306-364).                                                      *)
THEOREM EveryBlockItsMatrix == Spec => []StreamsThroughItsMatrix
<1>1. IInv => StreamsThroughItsMatrix
  BY DEF IInv, ControlInv
<1> QED
  BY <1>1, Inductive, PTL

(* What the second cSHAKE core hashes is the product of one header with    *)
(* the matrix of its block, XORed with the hash of the same header         *)
(* (core.sv:140-217).                                                      *)
THEOREM EveryDigestIsOfItsHeader == Spec => []DigestsAreRight
<1>1. IInv => DigestsAreRight
  BY DEF IInv
<1> QED
  BY <1>1, Inductive, PTL

(* The second cSHAKE core, whose busy nobody looks at, takes every item    *)
(* (core.sv:205-217).                                                      *)
THEOREM SecondCoreAlwaysReady == Spec => []SecondCoreReady
<1>1. IInv => SecondCoreReady
  BY SecondReady DEF IInv
<1> QED
  BY <1>1, Inductive, PTL

(* The slots of the tag FIFO are enough for any latencies, folded or not   *)
(* (core.sv:236-274).                                                      *)
THEOREM TagFifoAlwaysFits == Spec => []TagFifoFits
<1>1. IInv => TagFifoFits
  BY SlotsSuffice DEF IInv, TagFifoFits
<1> QED
  BY <1>1, Inductive, PTL

(* Control leaves GEN only on the completion of its own generation         *)
(* (core.sv:342-351).                                                      *)
LEMMA LeavesGenFresh ==
  IInv /\ [Next]_vars => [state = "GEN" /\ state' = "LOAD" => cache = MatrixOf(blk_pph)]_vars
<1> SUFFICES ASSUME IInv, [Next]_vars, state = "GEN", state' = "LOAD"
             PROVE  cache = MatrixOf(blk_pph)
  OBVIOUS
<1>1. CASE Reset
  BY <1>1 DEF Reset
<1>2. CASE Run
  <2>1. PICK job : Startable(job) /\ Control(job)
    BY <1>2 DEF Run, Clock, Startable
  <2>2. Generating
    BY <2>1, ControlCases DEF Start, Loading, Streaming
  <2> QED
    BY <2>2, CompleteIsFresh DEF Generating, IInv, ControlInv
<1>3. CASE UNCHANGED vars
  BY <1>3 DEF vars, control
<1> QED
  BY <1>1, <1>2, <1>3 DEF Next

(* A completion left over from an earlier generation is never taken for    *)
(* that of the new block (core.sv:342-351, docs/core/core.md:98-102).      *)
THEOREM GenerationsAreFresh == Spec => GenerationIsFresh
BY LeavesGenFresh, Inductive, PTL DEF Spec, GenerationIsFresh

-----------------------------------------------------------------------------
(* Tags and items.  TagOf(0) is the slot the next item will get.           *)

(* The tag of an item is its nonce, and work_id as it was when the item    *)
(* was admitted: k STARTs ago, of which there was one per cycle at most.   *)
OwnTag(age) ==
  /\ tag_nonce[TagOf(age)] = HeaderAt(age).nonce
  /\ \E k \in 0 .. age :
       /\ (tag_work[TagOf(age)] + k) % WORK_MOD = work_id
       /\ k = 0 => HeaderAt(age).pph = blk_pph /\ HeaderAt(age).ts = ts_reg

TagInv ==
  /\ tag_wr_ptr = TagOf(0)
  /\ \A age \in InFlight : OwnTag(age)
  /\ NoncesConsecutive

LEMMA Modulo ==
  ASSUME NEW n \in Nat \ {0}, NEW r \in 0 .. n - 1, NEW k \in 0 .. n
  PROVE  (r + k) % n = IF r + k < n THEN r + k ELSE r + k - n
<1>1. CASE r + k < n
  BY <1>1, SMT
<1>2. CASE ~(r + k < n)
  <2>1. PICK x \in 0 .. n - 1 : r + k = n + x
    <3>1. r + k - n \in 0 .. n - 1 /\ r + k = n + (r + k - n)
      BY <1>2
    <3> QED
      BY <3>1
  <2>2. (n + x) % n = x
    BY SMT
  <2> QED
    BY <1>2, <2>1, <2>2
<1> QED
  BY <1>1, <1>2

LEMMA ModuloSame ==
  ASSUME NEW n \in Nat \ {0}, NEW r \in 0 .. n - 1
  PROVE  (r + 0) % n = r
<1>1. 0 \in 0 .. n /\ r + 0 < n /\ r + 0 = r
  OBVIOUS
<1> QED
  BY <1>1, Modulo

LEMMA ModuloNext ==
  ASSUME NEW n \in Nat \ {0}, NEW t \in 0 .. n - 1, NEW k \in 0 .. n - 1
  PROVE  (t + (k + 1)) % n = (((t + k) % n) + 1) % n
<1> DEFINE m == (t + k) % n
<1>0. k \in 0 .. n /\ k + 1 \in 0 .. n
  OBVIOUS
<1>1. m = IF t + k < n THEN t + k ELSE t + k - n
  BY <1>0, Modulo
<1>2. (t + (k + 1)) % n = IF t + (k + 1) < n THEN t + (k + 1) ELSE t + (k + 1) - n
  BY <1>0, Modulo
<1>3. m \in 0 .. n - 1 /\ 1 \in 0 .. n
  BY <1>1
<1>4. (m + 1) % n = IF m + 1 < n THEN m + 1 ELSE m + 1 - n
  BY <1>3, Modulo
<1> HIDE DEF m
<1>5. (t + (k + 1)) % n = (m + 1) % n
  BY <1>1, <1>2, <1>4
<1> QED
  BY <1>5 DEF m

LEMMA NextIsModulo ==
  ASSUME NEW p \in TagSlot
  PROVE  NextTag(p) = (p + 1) % TAG_SLOTS /\ NextTag(p) \in TagSlot
<1>0. TAG_SLOTS \in Nat \ {0} /\ p \in 0 .. TAG_SLOTS - 1 /\ 1 \in 0 .. TAG_SLOTS
  BY Slots DEF TagSlot
<1>1. (p + 1) % TAG_SLOTS = IF p + 1 < TAG_SLOTS THEN p + 1 ELSE p + 1 - TAG_SLOTS
  BY <1>0, Modulo
<1> QED
  BY <1>1, Slots DEF NextTag, TagSlot

(* The set of the items older than an age, one step later.                 *)
LEMMA OlderFinite ==
  ASSUME NEW age
  PROVE  /\ IsFiniteSet(Older(age)) /\ Cardinality(Older(age)) \in Nat
         /\ Cardinality(Older(age)) <= Cardinality(InFlight)
         /\ age \in InFlight => Cardinality(Older(age)) < Cardinality(InFlight)
<1>1. IsFiniteSet(InFlight) /\ Cardinality(InFlight) \in Nat
  BY FiniteFlight
<1>2. Older(age) \subseteq InFlight
  BY DEF Older
<1>3. /\ IsFiniteSet(Older(age)) /\ Cardinality(Older(age)) <= Cardinality(InFlight)
      /\ Cardinality(Older(age)) = Cardinality(InFlight) => Older(age) = InFlight
  BY <1>1, <1>2, FS_Subset
<1>4. Cardinality(Older(age)) \in Nat
  BY <1>3, FS_CardinalityType
<1>5. age \in InFlight => Older(age) # InFlight
  BY DEF Older, InFlight
<1> QED
  BY <1>1, <1>3, <1>4, <1>5

FewOlder ==
  /\ Cardinality(InFlight) \in Nat
  /\ \A age \in Nat :
       /\ IsFiniteSet(Older(age)) /\ Cardinality(Older(age)) \in Nat
       /\ age \in InFlight => Cardinality(Older(age)) < Cardinality(InFlight)

LEMMA OlderFiniteNext ==
  ASSUME NEW age \in Nat
  PROVE  /\ Cardinality(InFlight') \in Nat
         /\ IsFiniteSet(Older(age)') /\ Cardinality(Older(age)') \in Nat
         /\ age \in InFlight' => Cardinality(Older(age)') < Cardinality(InFlight')
<1>1. FewOlder
  BY OlderFinite, FiniteFlight DEF FewOlder
<1>2. FewOlder'
  BY <1>1, PTL
<1> QED
  BY <1>2 DEF FewOlder

LEMMA OlderMoves ==
  ASSUME NEW job, Types, ControlInv, Spaced, Clock(job), NEW age \in 1 .. TOTAL_LAT
  PROVE  Cardinality(Older(age)') =
           Cardinality(Older(age - 1)) - (IF valid_out THEN 1 ELSE 0)
<1> DEFINE Staying == Older(age - 1) \ {TOTAL_LAT}
           Now == Older(age)'
<1>1. InFlight \subseteq 1 .. TOTAL_LAT /\ InFlight' \subseteq 1 .. TOTAL_LAT /\ TOTAL_LAT \in Nat
  BY InFlightMoves, Sizes
<1>2. /\ Older(age - 1) \in SUBSET Int /\ Staying \in SUBSET Int /\ Now \in SUBSET Int
  <2>1. InFlight \in SUBSET Int /\ InFlight' \in SUBSET Int
    BY <1>1
  <2> QED
    BY <2>1 DEF Older
<1>3. valid_out <=> TOTAL_LAT \in Older(age - 1)
  BY <1>1, Leaves DEF Older
<1>4. IsFiniteSet(Older(age - 1)) /\ Cardinality(Older(age - 1)) \in Nat
  BY OlderFinite
<1>5. /\ IsFiniteSet(Staying)
      /\ Cardinality(Staying) = Cardinality(Older(age - 1)) - (IF valid_out THEN 1 ELSE 0)
  BY <1>3, <1>4, FS_RemoveElement
<1>6. ASSUME NEW n \in Int
      PROVE  n \in Now <=> n - 1 \in Staying
  <2>1. CASE n \in 2 .. TOTAL_LAT
    <3>1. n \in InFlight' <=> n - 1 \in InFlight
      BY <2>1, InFlightMoves
    <3>2. n - 1 # TOTAL_LAT /\ (n > age <=> n - 1 > age - 1)
      BY <1>1, <2>1
    <3> QED
      BY <3>1, <3>2 DEF Older
  <2>2. CASE ~(n \in 2 .. TOTAL_LAT)
    <3>1. n \notin Now
      <4>1. ASSUME n \in Now PROVE FALSE
        <5>1. n \in 1 .. TOTAL_LAT /\ n > age
          BY <1>1, <4>1 DEF Older
        <5> QED
          BY <2>2, <5>1
      <4> QED
        BY <4>1
    <3>2. n - 1 \notin Staying
      <4>1. ASSUME n - 1 \in Staying PROVE FALSE
        <5>1. n - 1 \in 1 .. TOTAL_LAT /\ n - 1 # TOTAL_LAT
          BY <1>1, <4>1 DEF Older
        <5> QED
          BY <1>1, <2>2, <5>1
      <4> QED
        BY <4>1
    <3> QED
      BY <3>1, <3>2
  <2> QED
    BY <2>1, <2>2
<1> HIDE DEF Staying, Now
<1>7. Cardinality(Now) = Cardinality(Staying)
  BY <1>2, <1>5, <1>6, MovedUp
<1> QED
  BY <1>5, <1>7 DEF Now

(* What a step reads and writes of the tag memories.                       *)
LEMMA TagPointers ==
  ASSUME NEW job, Types, Clock(job)
  PROVE  /\ tag_rd_ptr' = IF valid_out THEN NextTag(tag_rd_ptr) ELSE tag_rd_ptr
         /\ tag_wr_ptr' = IF admit THEN NextTag(tag_wr_ptr) ELSE tag_wr_ptr
         /\ tag_rd_ptr \in TagSlot /\ tag_wr_ptr \in TagSlot
         /\ \A slot \in TagSlot :
              /\ tag_nonce'[slot] = IF admit /\ slot = tag_wr_ptr THEN nonce_ctr ELSE tag_nonce[slot]
              /\ tag_work'[slot] = IF admit /\ slot = tag_wr_ptr THEN work_id ELSE tag_work[slot]
BY DEF Types, TagsOK, Clock, Tags

(* An item keeps its slot, and the next one gets TagOf(0).                 *)
LEMMA SlotKept ==
  ASSUME NEW job, Types, ControlInv, Spaced, Clock(job), NEW age \in 1 .. TOTAL_LAT
  PROVE  /\ TagOf(age)' = TagOf(age - 1) /\ TagOf(age)' \in TagSlot
<1> DEFINE old == Cardinality(Older(age - 1))
           new == Cardinality(Older(age)')
<1>1. tag_rd_ptr \in TagSlot /\ tag_rd_ptr \in 0 .. TAG_SLOTS - 1 /\ TAG_SLOTS \in Nat \ {0}
  BY TagPointers, Slots DEF TagSlot
<1>2. old \in Nat /\ old <= TAG_SLOTS /\ new = old - (IF valid_out THEN 1 ELSE 0) /\ new \in Nat
  <2>1. old \in Nat /\ old <= Cardinality(InFlight) /\ Cardinality(InFlight) \in Nat
    BY OlderFinite, FiniteFlight
  <2>2. Cardinality(InFlight) <= TAG_SLOTS
    BY SlotsSuffice
  <2>3. new = old - (IF valid_out THEN 1 ELSE 0)
    BY OlderMoves
  <2>4. new \in Nat
    BY OlderFiniteNext
  <2> QED
    BY <1>1, <2>1, <2>2, <2>3, <2>4
<1>3. /\ TagOf(age)' = (tag_rd_ptr' + new) % TAG_SLOTS
      /\ TagOf(age - 1) = (tag_rd_ptr + old) % TAG_SLOTS
  BY DEF TagOf, TagSlotOf
<1> HIDE DEF old, new
<1>4. (tag_rd_ptr + old) % TAG_SLOTS =
        IF tag_rd_ptr + old < TAG_SLOTS THEN tag_rd_ptr + old ELSE tag_rd_ptr + old - TAG_SLOTS
  <2>1. old \in 0 .. TAG_SLOTS
    BY <1>1, <1>2
  <2> QED
    BY <1>1, <2>1, Modulo
<1>5. (tag_rd_ptr' + new) % TAG_SLOTS = (tag_rd_ptr + old) % TAG_SLOTS
  <2>1. CASE valid_out
    <3>1. tag_rd_ptr' = NextTag(tag_rd_ptr) /\ tag_rd_ptr' \in 0 .. TAG_SLOTS - 1
      BY <1>1, <2>1, TagPointers, NextIsModulo DEF TagSlot
    <3>2. new \in 0 .. TAG_SLOTS
      BY <1>1, <1>2
    <3>3. (tag_rd_ptr' + new) % TAG_SLOTS =
            IF tag_rd_ptr' + new < TAG_SLOTS THEN tag_rd_ptr' + new ELSE tag_rd_ptr' + new - TAG_SLOTS
      BY <1>1, <3>1, <3>2, Modulo
    <3>4. tag_rd_ptr' = IF tag_rd_ptr = TAG_SLOTS - 1 THEN 0 ELSE tag_rd_ptr + 1
      BY <3>1 DEF NextTag
    <3>5. new = old - 1
      BY <1>2, <2>1
    <3> QED
      BY <1>1, <1>2, <1>4, <3>3, <3>4, <3>5
  <2>2. CASE ~valid_out
    BY <1>1, <1>2, <2>2, TagPointers
  <2> QED
    BY <2>1, <2>2
<1> QED
  BY <1>1, <1>2, <1>3, <1>4, <1>5 DEF TagSlot

(* The slot written is not that of an item still in flight.                *)
LEMMA SlotsApart ==
  ASSUME Types, Spaced, NEW a \in InFlight, NEW b \in InFlight, a < b
  PROVE  TagOf(a) # TagOf(b)
<1> DEFINE i == Cardinality(Older(b))
           j == Cardinality(Older(a))
<1>1. /\ i \in Nat /\ j \in Nat /\ j < TAG_SLOTS /\ TAG_SLOTS \in Nat \ {0}
      /\ tag_rd_ptr \in 0 .. TAG_SLOTS - 1
  BY OlderFinite, FiniteFlight, SlotsSuffice, Slots DEF Types, TagsOK, TagSlot
<1>2. i < j
  <2>1. a \in Nat /\ b \in Nat /\ InFlight \subseteq Nat
    BY Sizes DEF InFlight
  <2>2. Older(b) \subseteq Older(a) /\ b \in Older(a) /\ b \notin Older(b)
    <3>1. \A c \in InFlight : (c > b => c > a) /\ ~(b > b) /\ b > a
      BY <2>1
    <3> QED
      BY <3>1 DEF Older
  <2>3. IsFiniteSet(Older(a))
    BY OlderFinite
  <2>4. i <= j /\ (j = i => Older(a) = Older(b))
    BY <2>2, <2>3, FS_Subset
  <2> QED
    BY <1>1, <2>2, <2>4
<1> HIDE DEF i, j
<1>3. /\ TagOf(a) = (tag_rd_ptr + j) % TAG_SLOTS
      /\ TagOf(b) = (tag_rd_ptr + i) % TAG_SLOTS
  BY DEF TagOf, TagSlotOf, i, j
<1>4. /\ (tag_rd_ptr + j) % TAG_SLOTS =
           IF tag_rd_ptr + j < TAG_SLOTS THEN tag_rd_ptr + j ELSE tag_rd_ptr + j - TAG_SLOTS
      /\ (tag_rd_ptr + i) % TAG_SLOTS =
           IF tag_rd_ptr + i < TAG_SLOTS THEN tag_rd_ptr + i ELSE tag_rd_ptr + i - TAG_SLOTS
  <2>1. i \in 0 .. TAG_SLOTS /\ j \in 0 .. TAG_SLOTS
    BY <1>1, <1>2
  <2> QED
    BY <1>1, <2>1, Modulo
<1> QED
  BY <1>1, <1>2, <1>3, <1>4

Apart == \A a, b \in InFlight : a < b => TagOf(a) # TagOf(b)

LEMMA SlotsApartNext ==
  (Types /\ Spaced)' => \A a, b \in InFlight' : a < b => TagOf(a)' # TagOf(b)'
<1>1. Types /\ Spaced => Apart
  BY SlotsApart DEF Apart
<1>2. (Types /\ Spaced)' => Apart'
  BY <1>1, PTL
<1> QED
  BY <1>2 DEF Apart

LEMMA WritePointerStep ==
  ASSUME NEW job, IInv, IInv', Clock(job), tag_wr_ptr = TagOf(0)
  PROVE  tag_wr_ptr' = TagOf(0)' /\ TagOf(1)' = tag_wr_ptr
<1> DEFINE k == Cardinality(Older(1)')
<1>1. Types /\ ControlInv /\ Spaced
  BY DEF IInv
<1>2. 1 \in 1 .. TOTAL_LAT /\ 1 - 1 = 0 /\ TAG_SLOTS \in Nat \ {0}
  BY Sizes, Slots
<1>3. TagOf(1)' = tag_wr_ptr /\ tag_wr_ptr \in TagSlot
  BY <1>1, <1>2, SlotKept, TagPointers
<1>4. IsFiniteSet(Older(1)') /\ k \in Nat /\ (1 \in InFlight' => k < TAG_SLOTS)
  <2>1. /\ IsFiniteSet(Older(1)') /\ Cardinality(Older(1)') \in Nat
        /\ Cardinality(InFlight') \in Nat
        /\ 1 \in InFlight' => Cardinality(Older(1)') < Cardinality(InFlight')
    BY OlderFiniteNext
  <2>2. (Spaced => Cardinality(InFlight) <= TAG_SLOTS)'
    BY SlotsSuffice, PTL
  <2>3. Spaced'
    BY DEF IInv
  <2>4. Cardinality(InFlight') \in Nat /\ Cardinality(InFlight') <= TAG_SLOTS
    BY <2>1, <2>2, <2>3
  <2>5. IsFiniteSet(Older(1)') /\ k \in Nat /\ (1 \in InFlight' => k < Cardinality(InFlight'))
    BY <2>1
  <2> HIDE DEF k
  <2> QED
    BY <1>2, <2>4, <2>5
<1>5. TagOf(1)' = (tag_rd_ptr' + k) % TAG_SLOTS
  BY DEF TagOf, TagSlotOf
<1>6. TagOf(0)' = (tag_rd_ptr' + Cardinality(InFlight')) % TAG_SLOTS
  <2>1. Older(0)' = InFlight'
    BY Sizes DEF Older, InFlight
  <2> QED
    BY <2>1 DEF TagOf, TagSlotOf
<1>7. tag_rd_ptr' \in 0 .. TAG_SLOTS - 1
  BY <1>1, TagPointers, NextIsModulo DEF TagSlot
<1>8. CASE admit
  <2>1. 1 \in InFlight' /\ InFlight' = Older(1)' \union {1} /\ 1 \notin Older(1)'
    BY <1>1, <1>2, <1>8, InFlightMoves DEF Older
  <2>2. Cardinality(InFlight') = k + 1
    BY <1>4, <2>1, FS_AddElement
  <2> HIDE DEF k
  <2>3. k \in 0 .. TAG_SLOTS - 1
    BY <1>2, <1>4, <2>1
  <2>4. TagOf(0)' = (TagOf(1)' + 1) % TAG_SLOTS
    BY <1>2, <1>5, <1>6, <1>7, <2>2, <2>3, ModuloNext
  <2>5. tag_wr_ptr' = (tag_wr_ptr + 1) % TAG_SLOTS
    BY <1>1, <1>3, <1>8, TagPointers, NextIsModulo
  <2> QED
    BY <1>3, <2>4, <2>5
<1>9. CASE ~admit
  <2>1. InFlight' = Older(1)'
    <3>1. \A n \in InFlight' : n \in 1 .. TOTAL_LAT /\ n # 1
      BY <1>1, <1>9, InFlightMoves
    <3>2. \A n \in InFlight' : n > 1
      BY <1>2, <3>1, Sizes
    <3> QED
      BY <3>2 DEF Older
  <2>2. tag_wr_ptr' = tag_wr_ptr
    BY <1>1, <1>9, TagPointers
  <2> QED
    BY <1>3, <1>5, <1>6, <2>1, <2>2
<1> QED
  BY <1>3, <1>8, <1>9

(* What stands in the slot of an item.                                     *)
LEMMA TagsMove ==
  ASSUME NEW job, IInv, IInv', Clock(job), tag_wr_ptr = TagOf(0)
  PROVE  /\ admit => tag_nonce'[TagOf(1)'] = nonce_ctr /\ tag_work'[TagOf(1)'] = work_id
         /\ \A age \in InFlight' : age # 1 =>
              /\ age \in 2 .. TOTAL_LAT /\ age - 1 \in InFlight
              /\ HeaderAt(age)' = HeaderAt(age - 1)
              /\ tag_nonce'[TagOf(age)'] = tag_nonce[TagOf(age - 1)]
              /\ tag_work'[TagOf(age)'] = tag_work[TagOf(age - 1)]
<1>1. Types /\ ControlInv /\ Spaced
  BY DEF IInv
<1>2. TagOf(1)' = tag_wr_ptr /\ tag_wr_ptr \in TagSlot
  BY <1>1, WritePointerStep, TagPointers
<1>3. admit => tag_nonce'[TagOf(1)'] = nonce_ctr /\ tag_work'[TagOf(1)'] = work_id
  BY <1>1, <1>2, TagPointers
<1>4. ASSUME NEW age \in InFlight', age # 1
      PROVE  /\ age \in 2 .. TOTAL_LAT /\ age - 1 \in InFlight
             /\ HeaderAt(age)' = HeaderAt(age - 1)
             /\ tag_nonce'[TagOf(age)'] = tag_nonce[TagOf(age - 1)]
             /\ tag_work'[TagOf(age)'] = tag_work[TagOf(age - 1)]
  <2>1. age \in 1 .. TOTAL_LAT /\ age \in 2 .. TOTAL_LAT /\ age - 1 \in 1 .. TOTAL_LAT - 1 /\ (age - 1) + 1 = age
    <3>1. age \in 1 .. TOTAL_LAT
      BY <1>1, InFlightMoves
    <3> QED
      BY <1>4, <3>1, Sizes
  <2>2. age - 1 \in InFlight /\ HeaderAt(age)' = HeaderAt(age - 1)
    BY <1>1, <2>1, InFlightMoves, ItemsMove
  <2>3. TagOf(age)' = TagOf(age - 1) /\ TagOf(age)' \in TagSlot
    BY <1>1, <2>1, SlotKept
  <2>4. admit => TagOf(age)' # tag_wr_ptr
    <3>1. admit => 1 \in InFlight' /\ 1 < age
      BY <1>1, <2>1, InFlightMoves
    <3>2. (Types /\ Spaced)'
      BY DEF IInv
    <3> QED
      BY <1>2, <3>1, <3>2, SlotsApartNext
  <2> QED
    BY <1>1, <2>1, <2>2, <2>3, <2>4, TagPointers
<1> QED
  BY <1>3, <1>4

LEMMA JobMoves ==
  ASSUME NEW job, Startable(job), Control(job)
  PROVE  /\ job # None => work_id' = (work_id + 1) % WORK_MOD
         /\ job = None => /\ work_id' = work_id /\ blk_pph' = blk_pph /\ ts_reg' = ts_reg
                          /\ nonce_ctr' = IF admit THEN (nonce_ctr + 1) % NONCE_MOD ELSE nonce_ctr
<1>1. CASE job \in HostJob /\ job # None /\ Start(job)
  BY <1>1 DEF Start
<1>2. CASE job = None /\ Generating
  BY <1>2 DEF Generating, admit
<1>3. CASE job = None /\ Loading
  BY <1>3 DEF Loading, admit
<1>4. CASE job = None /\ Streaming
  BY <1>4 DEF Streaming
<1> QED
  BY <1>1, <1>2, <1>3, <1>4, ControlCases

(* A START makes every item in flight one of an earlier job.               *)
LEMMA OwnTagStep ==
  ASSUME NEW job, Startable(job), IInv, IInv', TagInv, Clock(job), NEW age \in InFlight'
  PROVE  /\ OwnTag(age)'
         /\ job # None => tag_work'[TagOf(age)'] # work_id'
<1> DEFINE t == tag_work'[TagOf(age)']
           step == IF job = None THEN 0 ELSE 1
           own(k) == /\ k \in 0 .. age /\ (t + k) % WORK_MOD = work_id'
                     /\ k = 0 => HeaderAt(age)'.pph = blk_pph' /\ HeaderAt(age)'.ts = ts_reg'
<1>1. /\ Types /\ ControlInv /\ Spaced /\ tag_wr_ptr = TagOf(0) /\ Control(job)
      /\ WORK_MOD \in Nat \ {0} /\ TOTAL_LAT < WORK_MOD /\ TOTAL_LAT \in Nat
      /\ work_id \in 0 .. WORK_MOD - 1
  BY Sizes, IdsOutliveFlight DEF IInv, TagInv, Clock, Types, ControlOK, Work
<1>2. age \in 1 .. TOTAL_LAT
  BY <1>1, InFlightMoves
<1>3. t \in 0 .. WORK_MOD - 1
  <2>1. TagOf(age)' \in TagSlot
    BY <1>1, <1>2, SlotKept
  <2>2. tag_work' \in [TagSlot -> Work]
    BY DEF IInv, Types, TagsOK
  <2> QED
    BY <2>1, <2>2 DEF Work
<1>4. PICK k \in 0 .. age - 1 :
        /\ (t + k) % WORK_MOD = work_id
        /\ k = 0 => HeaderAt(age)'.pph = blk_pph /\ HeaderAt(age)'.ts = ts_reg
  <2>1. CASE age = 1
    <3>1. admit
      BY <1>1, <2>1, InFlightMoves
    <3>2. t = work_id /\ HeaderAt(1)' = header
      BY <1>1, <2>1, <3>1, TagsMove, ItemsMove
    <3>3. (t + 0) % WORK_MOD = t
      BY <1>1, <1>3, ModuloSame
    <3>4. header.pph = blk_pph /\ header.ts = ts_reg
      BY DEF header
    <3>5. 0 \in 0 .. age - 1
      BY <2>1
    <3> HIDE DEF t
    <3> QED
      BY <2>1, <3>2, <3>3, <3>4, <3>5
  <2>2. CASE age # 1
    <3>1. age - 1 \in InFlight /\ HeaderAt(age)' = HeaderAt(age - 1) /\ t = tag_work[TagOf(age - 1)]
      BY <1>1, <2>2, TagsMove
    <3> QED
      BY <3>1 DEF TagInv, OwnTag
  <2> QED
    BY <2>1, <2>2
<1> HIDE DEF t
<1>5. k \in 0 .. WORK_MOD - 1 /\ k + 1 \in 1 .. age /\ k \in 0 .. age /\ k + 1 \in 0 .. WORK_MOD - 1
  BY <1>1, <1>2
<1>6. own(k + step) /\ (job # None => t # work_id')
  <2>1. CASE job = None
    BY <1>1, <1>4, <1>5, <2>1, JobMoves
  <2>2. CASE job # None
    <3>1. (t + (k + 1)) % WORK_MOD = work_id'
      BY <1>1, <1>3, <1>4, <1>5, <2>2, ModuloNext, JobMoves
    <3>2. (t + (k + 1)) % WORK_MOD =
            IF t + (k + 1) < WORK_MOD THEN t + (k + 1) ELSE t + (k + 1) - WORK_MOD
      <4>1. k + 1 \in 0 .. WORK_MOD
        BY <1>1, <1>5
      <4> QED
        BY <1>1, <1>3, <4>1, Modulo
    <3>3. t # work_id'
      BY <1>1, <1>3, <1>5, <3>1, <3>2
    <3>4. k + 1 \in 0 .. age /\ k + 1 # 0
      BY <1>2, <1>5
    <3> QED
      BY <2>2, <3>1, <3>3, <3>4
  <2> QED
    BY <2>1, <2>2
<1>7. tag_nonce'[TagOf(age)'] = HeaderAt(age)'.nonce
  <2>1. CASE age = 1
    <3>1. admit
      BY <1>1, <2>1, InFlightMoves
    <3>2. HeaderAt(1)' = header /\ header.nonce = nonce_ctr
      BY <1>1, <3>1, ItemsMove DEF header
    <3> QED
      BY <1>1, <2>1, <3>1, <3>2, TagsMove
  <2>2. CASE age # 1
    BY <1>1, <2>2, TagsMove DEF TagInv, OwnTag
  <2> QED
    BY <2>1, <2>2
<1>8. \E n \in 0 .. age : own(n)
  BY <1>6
<1> QED
  BY <1>6, <1>7, <1>8 DEF OwnTag, t

(* The youngest item before a step, in terms of those after it.            *)
LEMMA StillYoungest ==
  ASSUME NEW job, Types, ControlInv, Spaced, Clock(job), NEW age \in 2 .. TOTAL_LAT,
         NEW low \in 0 .. TOTAL_LAT,
         \A c \in InFlight' : c > low + 1 => age <= c
  PROVE  \A c \in InFlight : c > low => age - 1 <= c
<1> SUFFICES ASSUME NEW c \in InFlight, c > low PROVE age - 1 <= c
  OBVIOUS
<1>1. c \in 1 .. TOTAL_LAT /\ TOTAL_LAT \in Nat
  BY InFlightMoves, Sizes
<1>2. CASE c = TOTAL_LAT
  BY <1>1, <1>2
<1>3. CASE c # TOTAL_LAT
  <2>1. c + 1 \in 2 .. TOTAL_LAT /\ (c + 1) - 1 = c /\ c + 1 > low + 1
    BY <1>1, <1>3
  <2>2. c + 1 \in InFlight'
    BY <2>1, InFlightMoves
  <2> QED
    BY <1>1, <2>1, <2>2
<1> QED
  BY <1>2, <1>3

LEMMA NoncesStep ==
  ASSUME NEW job, Startable(job), IInv, IInv', TagInv, Clock(job)
  PROVE  NoncesConsecutive'
<1>1. /\ Types /\ ControlInv /\ Spaced /\ tag_wr_ptr = TagOf(0) /\ Control(job)
      /\ InFlight \subseteq 1 .. TOTAL_LAT /\ InFlight' \subseteq 1 .. TOTAL_LAT /\ TOTAL_LAT \in Nat
  BY Sizes, InFlightMoves DEF IInv, TagInv, Clock
<1>2. /\ \A a \in InFlight : \A b \in Older(a) :
           /\ tag_work[TagOf(a)] = tag_work[TagOf(b)]
           /\ \A c \in Older(a) : b <= c
           => HeaderAt(a).nonce = (HeaderAt(b).nonce + 1) % NONCE_MOD
      /\ \A a \in InFlight :
           /\ tag_work[TagOf(a)] = work_id
           /\ \A b \in InFlight : a <= b
           => nonce_ctr = (HeaderAt(a).nonce + 1) % NONCE_MOD
  BY DEF TagInv, NoncesConsecutive
<1>3. ASSUME NEW a \in InFlight', NEW b \in Older(a)',
             tag_work'[TagOf(a)'] = tag_work'[TagOf(b)'],
             \A c \in Older(a)' : b <= c
      PROVE  HeaderAt(a)'.nonce = (HeaderAt(b)'.nonce + 1) % NONCE_MOD
  <2>1. /\ a \in 1 .. TOTAL_LAT /\ b \in InFlight' /\ b > a /\ b \in 2 .. TOTAL_LAT /\ b # 1
        /\ a - 1 \in 0 .. TOTAL_LAT /\ (a - 1) + 1 = a /\ b - 1 > a - 1
    <3>1. a \in 1 .. TOTAL_LAT /\ b \in InFlight' /\ b \in 1 .. TOTAL_LAT /\ b > a
      BY <1>1 DEF Older
    <3> QED
      BY <1>1, <3>1
  <2>2. /\ b - 1 \in InFlight /\ HeaderAt(b)' = HeaderAt(b - 1)
        /\ tag_work'[TagOf(b)'] = tag_work[TagOf(b - 1)]
    BY <1>1, <2>1, TagsMove
  <2>3. \A c \in InFlight : c > a - 1 => b - 1 <= c
    <3>1. \A c \in InFlight' : c > (a - 1) + 1 => b <= c
      BY <1>3, <2>1 DEF Older
    <3> QED
      BY <1>1, <2>1, <3>1, StillYoungest
  <2>4. CASE a = 1
    <3>1. admit
      BY <1>1, <2>4, InFlightMoves
    <3>2. tag_work'[TagOf(a)'] = work_id /\ HeaderAt(a)'.nonce = nonce_ctr
      BY <1>1, <2>4, <3>1, TagsMove, ItemsMove DEF header
    <3>3. \A c \in InFlight : b - 1 <= c
      BY <1>1, <2>3, <2>4
    <3> QED
      BY <1>2, <1>3, <2>2, <3>2, <3>3
  <2>5. CASE a # 1
    <3>1. /\ a - 1 \in InFlight /\ HeaderAt(a)' = HeaderAt(a - 1)
          /\ tag_work'[TagOf(a)'] = tag_work[TagOf(a - 1)]
      BY <1>1, <2>5, TagsMove
    <3>2. b - 1 \in Older(a - 1) /\ \A c \in Older(a - 1) : b - 1 <= c
      BY <2>1, <2>2, <2>3 DEF Older
    <3> QED
      BY <1>2, <1>3, <2>2, <3>1, <3>2
  <2> QED
    BY <2>4, <2>5
<1>4. ASSUME NEW a \in InFlight', tag_work'[TagOf(a)'] = work_id',
             \A b \in InFlight' : a <= b
      PROVE  nonce_ctr' = (HeaderAt(a)'.nonce + 1) % NONCE_MOD
  <2>1. job = None
    BY <1>4, OwnTagStep
  <2>2. work_id' = work_id /\ nonce_ctr' = IF admit THEN (nonce_ctr + 1) % NONCE_MOD ELSE nonce_ctr
    BY <1>1, <2>1, JobMoves
  <2>3. CASE admit
    <3>1. 1 \in InFlight' /\ HeaderAt(1)' = header
      BY <1>1, <2>3, InFlightMoves, ItemsMove
    <3>2. a = 1
      BY <1>1, <1>4, <3>1
    <3> QED
      BY <2>2, <2>3, <3>1, <3>2 DEF header
  <2>4. CASE ~admit
    <3>1. a # 1
      BY <1>1, <2>4, InFlightMoves
    <3>2. /\ a \in 2 .. TOTAL_LAT /\ a - 1 \in InFlight /\ HeaderAt(a)' = HeaderAt(a - 1)
          /\ tag_work'[TagOf(a)'] = tag_work[TagOf(a - 1)]
      BY <1>1, <3>1, TagsMove
    <3>3. \A c \in InFlight : a - 1 <= c
      <4>1. 0 \in 0 .. TOTAL_LAT /\ \A c \in InFlight' : c > 0 + 1 => a <= c
        BY <1>1, <1>4
      <4>2. \A c \in InFlight : c > 0 => a - 1 <= c
        BY <1>1, <3>2, <4>1, StillYoungest
      <4> QED
        BY <1>1, <4>2
    <3> QED
      BY <1>2, <1>4, <2>2, <2>4, <3>2, <3>3
  <2> QED
    BY <2>3, <2>4
<1> QED
  BY <1>3, <1>4 DEF NoncesConsecutive

(* With nothing in flight and both pointers at zero.                       *)
LEMMA ClearedTagInv == Cleared => TagInv
<1> SUFFICES ASSUME Cleared PROVE TagInv
  OBVIOUS
<1>1. InFlight = {}
  BY NothingInFlight
<1>2. Older(0) = {} /\ Cardinality({}) = 0
  BY <1>1, FS_EmptySet DEF Older
<1>3. (0 + 0) % TAG_SLOTS = 0
  BY Slots, ModuloSame
<1>4. tag_wr_ptr = TagOf(0)
  BY <1>2, <1>3 DEF TagOf, TagSlotOf, Cleared
<1> QED
  BY <1>1, <1>4 DEF TagInv, NoncesConsecutive

LEMMA StepTagInv == IInv /\ TagInv /\ [Next]_vars => TagInv'
<1> SUFFICES ASSUME IInv, TagInv, [Next]_vars PROVE TagInv'
  OBVIOUS
<1>1. IInv'
  BY StepIInv
<1>2. CASE Reset
  <2>1. Cleared' => TagInv'
    BY ClearedTagInv, PTL
  <2> QED
    BY <1>2, <2>1, ResetCleared DEF IInv
<1>3. CASE Run
  <2>1. PICK job : Startable(job) /\ Clock(job)
    BY <1>3 DEF Run, Startable
  <2>2. tag_wr_ptr' = TagOf(0)'
    BY <1>1, <2>1, WritePointerStep DEF TagInv
  <2>3. \A age \in InFlight' : OwnTag(age)'
    BY <1>1, <2>1, OwnTagStep
  <2>4. NoncesConsecutive'
    BY <1>1, <2>1, NoncesStep
  <2> QED
    BY <2>2, <2>3, <2>4 DEF TagInv
<1>4. CASE UNCHANGED vars
  <2> USE <1>4 DEF vars, control, generator, matmul, pipes, tags, outputs
  <2>1. InFlight' = InFlight /\ \A age : HeaderAt(age)' = HeaderAt(age) /\ Older(age)' = Older(age)
    BY DEF InFlight, HeaderAt, Older
  <2>2. \A age : TagOf(age)' = TagOf(age)
    BY <2>1 DEF TagOf, TagSlotOf
  <2> QED
    BY <2>1, <2>2 DEF TagInv, OwnTag, NoncesConsecutive
<1> QED
  BY <1>2, <1>3, <1>4 DEF Next

LEMMA TagsInductive == Spec => [](IInv /\ TagInv)
BY InitCleared, ClearedIInv, ClearedTagInv, StepIInv, StepTagInv, PTL DEF Spec

(* Whatever the latencies and whenever jobs are started, the k-th oldest   *)
(* tag is that of the k-th oldest item (core.sv:241-264).                  *)
THEOREM TagsAlwaysFollowItems == Spec => []TagsFollowItems
<1>1. IInv /\ TagInv => TagsFollowItems
  BY DEF IInv, TagInv, OwnTag, TagsFollowItems
<1> QED
  BY <1>1, TagsInductive, PTL

(* No nonce of a job is skipped and none tried twice (core.sv:224-235,     *)
(* 357-359).                                                               *)
THEOREM NoNonceSkipped == Spec => []NoncesConsecutive
<1>1. TagInv => NoncesConsecutive
  BY DEF TagInv
<1> QED
  BY <1>1, TagsInductive, PTL

(* An item that carries the current id is of the current job.              *)
LEMMA OwnWork ==
  ASSUME IInv, NEW age \in InFlight, OwnTag(age), tag_work[TagOf(age)] = work_id
  PROVE  HeaderAt(age).pph = blk_pph /\ HeaderAt(age).ts = ts_reg
<1>1. /\ WORK_MOD \in Nat \ {0} /\ TOTAL_LAT < WORK_MOD /\ TOTAL_LAT \in Nat
      /\ age \in 1 .. TOTAL_LAT /\ work_id \in 0 .. WORK_MOD - 1
  BY Sizes, IdsOutliveFlight DEF InFlight, IInv, Types, ControlOK, Work
<1>2. PICK k \in 0 .. age :
        /\ (work_id + k) % WORK_MOD = work_id
        /\ k = 0 => HeaderAt(age).pph = blk_pph /\ HeaderAt(age).ts = ts_reg
  BY DEF OwnTag
<1>3. k \in 0 .. WORK_MOD /\ k < WORK_MOD /\ k \in Nat
  BY <1>1
<1>4. (work_id + k) % WORK_MOD = IF work_id + k < WORK_MOD THEN work_id + k ELSE work_id + k - WORK_MOD
  BY <1>1, <1>3, Modulo
<1>5. k = 0
  BY <1>1, <1>2, <1>3, <1>4
<1> QED
  BY <1>2, <1>5

(* Even with a START in every cycle, an id does not come round while an    *)
(* item of its last owner is in flight (core.sv:256-258, 291).             *)
THEOREM NoWorkReturns == Spec => []CurrentWorkIsCurrent
<1>1. IInv /\ TagInv => CurrentWorkIsCurrent
  BY OwnWork DEF TagInv, CurrentWorkIsCurrent
<1> QED
  BY <1>1, TagsInductive, PTL

(* The item that leaves has the tag that is read.                          *)
LEMMA HitIsAWin ==
  ASSUME IInv, TagInv, hit
  PROVE  /\ work_out = work_id
         /\ HashOf(Digest([header EXCEPT !.nonce = nonce_out])) <= tgt_reg
<1> DEFINE item == c2[C_LAT].vec
<1>1. Types /\ valid_out /\ work_out = work_id /\ HashOf(c2[C_LAT]) <= tgt_reg
  BY DEF IInv, hit
<1>2. /\ C_LAT \in 1 .. C_LAT /\ TOTAL_LAT = TO_PRODUCT + C_LAT /\ TOTAL_LAT \in Nat
      /\ c2[C_LAT] # None
  BY <1>1, Sizes DEF valid_out
<1>3. c2[C_LAT] = Digest(item) /\ item \in Header /\ HeaderAt(TOTAL_LAT) = item
  BY <1>1, <1>2, Places DEF IInv, DigestsAreRight
<1>4. TOTAL_LAT \in InFlight
  BY <1>1, Leaves
<1>5. TagOf(TOTAL_LAT) = tag_rd_ptr
  <2>1. Older(TOTAL_LAT) = {}
    BY <1>2 DEF Older, InFlight
  <2>2. Cardinality(Older(TOTAL_LAT)) = 0
    BY <2>1, FS_EmptySet
  <2>3. tag_rd_ptr \in 0 .. TAG_SLOTS - 1 /\ TAG_SLOTS \in Nat \ {0}
    BY <1>1, Slots DEF Types, TagsOK, TagSlot
  <2>4. (tag_rd_ptr + 0) % TAG_SLOTS = tag_rd_ptr
    BY <2>3, ModuloSame
  <2> QED
    BY <2>2, <2>4 DEF TagOf, TagSlotOf
<1>6. OwnTag(TOTAL_LAT)
  BY <1>4 DEF TagInv
<1>7. item.nonce = nonce_out
  BY <1>3, <1>5, <1>6 DEF OwnTag, nonce_out
<1>8. item.pph = blk_pph /\ item.ts = ts_reg
  BY <1>1, <1>3, <1>4, <1>5, <1>6, OwnWork DEF work_out
<1>9. [header EXCEPT !.nonce = nonce_out] = item
  BY <1>3, <1>7, <1>8 DEF header, Header
<1> QED
  BY <1>1, <1>3, <1>9

LEMMA FoundStep ==
  IInv /\ TagInv /\ [Next]_vars =>
    [found' => /\ found_work_id' = work_id
               /\ HashOf(Digest([header EXCEPT !.nonce = found_nonce'])) <= tgt_reg]_vars
<1> SUFFICES ASSUME IInv, TagInv, Next, found'
             PROVE  /\ found_work_id' = work_id
                    /\ HashOf(Digest([header EXCEPT !.nonce = found_nonce'])) <= tgt_reg
  OBVIOUS
<1>1. ~Reset
  BY DEF Reset
<1>2. Outputs
  BY <1>1 DEF Next, Run, Clock
<1>3. hit /\ found_nonce' = nonce_out /\ found_work_id' = work_out
  BY <1>2 DEF Outputs
<1> QED
  BY <1>3, HitIsAWin

(* Whatever is announced is a win of the current job under its own nonce   *)
(* (core.sv:285-304).                                                      *)
THEOREM EveryFoundIsAWin == Spec => FoundIsAWin
BY FoundStep, TagsInductive, PTL DEF Spec, FoundIsAWin

=============================================================================
