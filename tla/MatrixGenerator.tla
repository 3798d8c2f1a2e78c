--------------------------- MODULE MatrixGenerator ---------------------------
(***************************************************************************)
(* matrix_generator.sv with its random generator, the rank check and the   *)
(* matrix cache it drives, one step per clock edge, data included.  A      *)
(* cache row and a row of the rank check's working matrix are the sets of  *)
(* their bits that are 1, so that XOR is symmetric difference: the rank    *)
(* check eliminates over bits, the reference over numbers.                 *)
(***************************************************************************)
EXTENDS KHeavyhash

VARIABLES
    gen,        \* fsm_current_state, the prng words s, n16th_value, done
    cache,      \* rows, PrePowHash, and rd_row_data of the registered read
    chk         \* rank check: state, load_idx, M, col, rank, done, full_rank

genVars == <<gen, cache, chk>>

Col == 0 .. N * NIB - 1                        \* bit columns of a row
WordsPerRow == N \div WORD
Flipped(a, b) == (a \ b) \cup (b \ a)          \* XOR of two rows
LastWord == WordsOfDraw - 1                    \* n16th_value 255

\* The bits of a word written to group g of its row.
BitsOf(word, g) == {c \in Col : /\ c \div W = g
                                /\ (word \div 2^(c % W)) % 2 = 1}

\* matrix_flat: the element a row holds in column j.
Element(row, j) == SumFunction([b \in 0 .. NIB - 1 |-> IF j * NIB + b \in row THEN 2^b ELSE 0])
matrix_flat == [i \in Index |-> [j \in Index |-> Element(cache.row[i], j)]]

----------------------------------------------------------------------------
(* xoshiro256pp: the rotations are wires *)

prng_out(s) ==
    LET temp == (s[1] + s[4]) % 2^W
    IN  ((temp % 2^(W - OUT_ROT)) * 2^OUT_ROT + (temp \div 2^(W - OUT_ROT)) + s[1]) % 2^W

new_s(s) ==
    LET t == (s[2] % 2^(W - T_SHIFT)) * 2^T_SHIFT
        temp_s2 == xor(s[3], s[1])
        temp_s3 == xor(s[4], s[2])
    IN  <<xor(s[1], temp_s3), xor(s[2], temp_s2), xor(temp_s2, t),
          (temp_s3 % 2^(W - S3_ROT)) * 2^S3_ROT + (temp_s3 \div 2^(W - S3_ROT))>>

----------------------------------------------------------------------------
(* matrix_rankcheck *)

start_rank_check == gen.state = "GENERATE_MATRIX" /\ gen.n16th_value = LastWord

\* Rows from rank on that have a 1 in the column under elimination.
Candidates == {r \in Index : r >= chk.rank /\ chk.col \in chk.M[r]}
pivot_row == Min(Candidates)

\* The pivot row moves up to M[rank], M[rank] takes its place, and the pivot
\* is XORed into every other row that has the bit.
Eliminated ==
    LET pivot == chk.M[pivot_row]
        Source(r) == IF r = pivot_row THEN chk.M[chk.rank] ELSE chk.M[r]
    IN  [r \in Index |-> IF r = chk.rank THEN pivot
                         ELSE IF chk.col \in Source(r) THEN Flipped(Source(r), pivot)
                         ELSE Source(r)]

\* Slip: the result of the check before stays up until the new one is there.
Mutant_RankIdleKeepsDone ==
    IF start_rank_check
    THEN [chk EXCEPT !.load_idx = 0, !.col = 0, !.rank = 0, !.state = "LOAD"]
    ELSE chk

RankIdle == IF start_rank_check
            THEN [chk EXCEPT !.done = FALSE, !.full_rank = FALSE, !.load_idx = 0,
                             !.col = 0, !.rank = 0, !.state = "LOAD"]
            ELSE chk

\* A row arrives one cycle after it was asked for.
RankLoad == [chk EXCEPT
    !.load_idx = IF @ < N - 1 THEN @ + 1 ELSE @,
    !.state = IF chk.load_idx < N - 1 THEN @ ELSE "FLUSH",
    !.M = IF chk.load_idx = 0 THEN @ ELSE [@ EXCEPT ![chk.load_idx - 1] = cache.rd_row_data]]

RankFlush == [chk EXCEPT !.M[N - 1] = cache.rd_row_data, !.state = "ELIM"]

RankElim ==
    LET found == Candidates # {}
        full  == found /\ chk.rank = N - 1
        ends  == full \/ chk.col = N * NIB - 1
    IN  [chk EXCEPT !.M = IF found THEN Eliminated ELSE @,
                    !.rank = IF found THEN @ + 1 ELSE @,
                    !.full_rank = IF ends THEN full ELSE @,
                    !.state = IF ends THEN "DONE" ELSE @,
                    !.col = IF ends THEN @ ELSE @ + 1]

RankDone == [chk EXCEPT !.done = TRUE, !.state = "IDLE"]

RankCheck == chk' = CASE chk.state = "IDLE"  -> RankIdle
                      [] chk.state = "LOAD"  -> RankLoad
                      [] chk.state = "FLUSH" -> RankFlush
                      [] chk.state = "ELIM"  -> RankElim
                      [] chk.state = "DONE"  -> RankDone

----------------------------------------------------------------------------
(* matrix_cache *)

\* The word of this cycle goes to its row, the hash beside the first word,
\* and a read row appears one cycle later.
Cache(pph) ==
    LET writes == gen.state = "GENERATE_MATRIX"
        n == gen.n16th_value
        kept(row) == {c \in row : c \div W # n % WordsPerRow}
    IN  cache' = [row |-> IF writes
                          THEN [cache.row EXCEPT ![n \div WordsPerRow] =
                                  kept(@) \cup BitsOf(prng_out(gen.s), n % WordsPerRow)]
                          ELSE cache.row,
                  PrePowHash |-> IF writes /\ n = 0 THEN pph ELSE cache.PrePowHash,
                  rd_row_data |-> IF gen.state = "IDLE" \/ chk.state = "LOAD"
                                  THEN cache.row[chk.load_idx] ELSE cache.rd_row_data]

----------------------------------------------------------------------------
(* matrix_generator *)

GenIdle(start, pph) == IF start THEN [gen EXCEPT !.state = "GENERATE_MATRIX", !.n16th_value = 0, !.s = pph]
                       ELSE gen

\* Slip: the generator rests with the counter on the last word of a draw.
Mutant_GenMatrixRests ==
    [gen EXCEPT !.s = IF gen.n16th_value = LastWord THEN @ ELSE new_s(@),
                !.n16th_value = IF @ = LastWord THEN 0 ELSE @ + 1,
                !.state = IF gen.n16th_value = LastWord THEN "RANK_CHECK" ELSE @]

GenMatrix == [gen EXCEPT !.s = new_s(@),
                         !.n16th_value = IF @ = LastWord THEN 0 ELSE @ + 1,
                         !.state = IF gen.n16th_value = LastWord THEN "RANK_CHECK" ELSE @]

GenRankCheck == [gen EXCEPT !.state = IF ~chk.done THEN @
                                      ELSE IF chk.full_rank THEN "DONE" ELSE "GENERATE_MATRIX"]

GenDone == [gen EXCEPT !.state = "IDLE"]

Generator(start, pph) ==
    gen' = LET next == CASE gen.state = "IDLE"            -> GenIdle(start, pph)
                         [] gen.state = "GENERATE_MATRIX" -> GenMatrix
                         [] gen.state = "RANK_CHECK"      -> GenRankCheck
                         [] gen.state = "DONE"            -> GenDone
           IN  [next EXCEPT !.done = IF start THEN FALSE ELSE @ \/ gen.state = "DONE"]

GenInit ==
    /\ gen = [state |-> "IDLE", s |-> <<0, 0, 0, 0>>, n16th_value |-> 0, done |-> FALSE]
    /\ cache = [row |-> [i \in Index |-> {}], PrePowHash |-> <<0, 0, 0, 0>>, rd_row_data |-> {}]
    /\ chk = [state |-> "IDLE", load_idx |-> 0, M |-> [i \in Index |-> {}], col |-> 0, rank |-> 0,
              done |-> FALSE, full_rank |-> FALSE]

\* One clock edge: start and pph are what core.sv drives.
GenClock(start, pph) == Generator(start, pph) /\ Cache(pph) /\ RankCheck

----------------------------------------------------------------------------
(* What it is checked against *)

\* The rows of a drawn matrix, as the bits the cache holds.
RowBits(matrix) ==
    [i \in Index |-> {c \in Col : (matrix[i][c \div NIB] \div 2^(c % NIB)) % 2 = 1}]

\* The rows are independent as vectors of bits: no XOR of some of them is 0.
RowsIndependent(row) ==
    \A S \in (SUBSET Index) \ {{}} : \E c \in Col : Cardinality({i \in S : c \in row[i]}) % 2 = 1
=============================================================================
