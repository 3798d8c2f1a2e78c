------------------------------- MODULE Matmul -------------------------------
(***************************************************************************)
(* matmul_pipelined_unit.sv with its data, one step per clock edge: the    *)
(* product tables are built by repeated addition, a column at a time, and  *)
(* a vector walks through NUM_STAGES layers, each of which adds the table  *)
(* entries of its own columns.  Core models the same unit without data.    *)
(***************************************************************************)
EXTENDS MatrixGenerator

CONSTANTS
    NUM_STAGES,  \* register layers; divides N
    PROD_W,      \* bits of a table entry (8)
    ACC_W        \* bits of an accumulator (14)

\* A table entry holds every product, an accumulator the nibble read of it.
ASSUME MatmulConstants ==
    /\ {NUM_STAGES, PROD_W, ACC_W} \subseteq Nat \ {0}
    /\ N % NUM_STAGES = 0
    /\ PROD_W >= 2 * NIB /\ ACC_W >= SHIFT + NIB

ASSUME PowersOfWidths == \A m, n \in 0 .. PROD_W + ACC_W : 2^(m + n) = 2^m * 2^n

VARIABLES
    ld,    \* load FSM: state, col, k, and run, one accumulator per row
    tbl,   \* tbl[row][column][k]
    pipe   \* the layers: acc, fwd (the vector columns still to be used), valid

mmVars == <<ld, tbl, pipe>>

Nibble == 0 .. 2^NIB - 1
Stage == 0 .. NUM_STAGES - 1
COLS_PER_STAGE == N \div NUM_STAGES
ColumnsOf(st) == st * COLS_PER_STAGE .. (st + 1) * COLS_PER_STAGE - 1

Swap(j) == IF j % 2 = 0 THEN j + 1 ELSE j - 1       \* j ^ 1

busy == ld.state = "LD_RUN"

----------------------------------------------------------------------------
(* Table load *)

\* Slip: the sums go on from column to column.
Mutant_TableLoadRunsOn(matrix, reload) ==
    /\ ld' = IF ~busy
             THEN IF reload THEN [state |-> "LD_RUN", col |-> 0, k |-> 0, run |-> [i \in Index |-> 0]]
                  ELSE ld
             ELSE [ld EXCEPT !.k = (@ + 1) % 2^NIB,
                             !.run = [i \in Index |-> (@[i] + matrix[i][ld.col]) % 2^PROD_W],
                             !.state = IF ld.k = 2^NIB - 1 /\ ld.col = N - 1 THEN "LD_IDLE" ELSE @,
                             !.col = IF ld.k = 2^NIB - 1 /\ ld.col < N - 1 THEN @ + 1 ELSE @]
    /\ tbl' = IF ~busy THEN tbl
              ELSE [i \in Index |-> [j \in Index |->
                    IF j = ld.col THEN [tbl[i][j] EXCEPT ![ld.k] = ld.run[i]] ELSE tbl[i][j]]]

TableLoad(matrix, reload) ==
    /\ ld' = IF ~busy
             THEN IF reload THEN [state |-> "LD_RUN", col |-> 0, k |-> 0, run |-> [i \in Index |-> 0]]
                  ELSE ld
             ELSE IF ld.k # 2^NIB - 1
             THEN [ld EXCEPT !.k = @ + 1,
                             !.run = [i \in Index |-> (@[i] + matrix[i][ld.col]) % 2^PROD_W]]
             ELSE [ld EXCEPT !.k = 0, !.run = [i \in Index |-> 0],
                             !.state = IF ld.col = N - 1 THEN "LD_IDLE" ELSE @,
                             !.col = IF ld.col = N - 1 THEN @ ELSE @ + 1]
    /\ tbl' = IF ~busy THEN tbl
              ELSE [i \in Index |-> [j \in Index |->
                    IF j = ld.col THEN [tbl[i][j] EXCEPT ![ld.k] = ld.run[i]] ELSE tbl[i][j]]]

----------------------------------------------------------------------------
(* Pipeline *)

\* The nibbles of a hash word, lowest bits first; the byte's upper nibble is the odd one.
NibblesOf(h) == [x \in Index |-> IF x % 2 = 0 THEN h[x \div 2] % 2^NIB ELSE h[x \div 2] \div 2^NIB]
vec_plain(vector_in) == [c \in Index |-> vector_in[Swap(c)]]

Layers(vector_in, valid_in) ==
    LET vin(st) == IF st = 0 THEN vec_plain(vector_in) ELSE pipe[st - 1].fwd
        ain(st, i) == IF st = 0 THEN 0 ELSE pipe[st - 1].acc[i]
        part(st, i) == SumFunction([c \in ColumnsOf(st) |-> tbl[i][c][vin(st)[c]]])
    IN  pipe' = [st \in Stage |->
            [acc   |-> [i \in Index |-> (ain(st, i) + part(st, i)) % 2^ACC_W],
             fwd   |-> [c \in {x \in Index : x >= (st + 1) * COLS_PER_STAGE} |-> vin(st)[c]],
             valid |-> IF st = 0 THEN valid_in /\ ~busy ELSE pipe[st - 1].valid]]

last == pipe[NUM_STAGES - 1]
product_out == [x \in Index |-> (last.acc[Swap(x)] \div 2^SHIFT) % 2^NIB]
valid_out == last.valid

MatmulInit ==
    /\ ld = [state |-> "LD_IDLE", col |-> 0, k |-> 0, run |-> [i \in Index |-> 0]]
    /\ tbl = [i \in Index |-> [j \in Index |-> [k \in Nibble |-> 0]]]
    /\ pipe = [st \in Stage |->
                 [acc |-> [i \in Index |-> 0],
                  fwd |-> [c \in {x \in Index : x >= (st + 1) * COLS_PER_STAGE} |-> 0],
                  valid |-> FALSE]]

MatmulClock(matrix, reload, vector_in, valid_in) ==
    TableLoad(matrix, reload) /\ Layers(vector_in, valid_in)
=============================================================================
