----------------------------- MODULE KHeavyhash -----------------------------
(***************************************************************************)
(* The reference hash, software/referance/kheavyhash_ref.py: pure          *)
(* operators with the names of its methods, with the sizes as constants,   *)
(* and what they are checked against.  The hardware is compared with it in *)
(* Datapath.  A word is a number below 2^W, a matrix a function from row   *)
(* number to row, a hash a function from byte number to byte.              *)
(***************************************************************************)
EXTENDS Integers, FiniteSets, FiniteSetsExt, Functions

CONSTANTS
    N,          \* rows and columns of the matrix (64)
    NIB,        \* bits of an element (4)
    WORD,       \* elements in one random word (16)
    SHIFT,      \* normalisation shift of a dot product (10)
    OUT_ROT, T_SHIFT, S3_ROT,  \* the generator's constants (23, 17, 45)
    ATTEMPTS,   \* draws before the reference gives up (1000)
    NoMatrix,   \* stands for the RuntimeError then, and for an empty cache
    cshake256(_, _),  \* the sponge, of a message and a customization
    xor(_, _)   \* of two words, or of a byte and a byte

ASSUME KHeavyhashConstants ==
    /\ {N, NIB, WORD, SHIFT, OUT_ROT, T_SHIFT, S3_ROT, ATTEMPTS} \subseteq Nat \ {0}
    /\ N % 2 = 0 /\ N % WORD = 0
    /\ {OUT_ROT, T_SHIFT, S3_ROT} \subseteq 0 .. NIB * WORD

W == NIB * WORD
Word == 0 .. 2^W - 1
Index == 0 .. N - 1
Bytes == 0 .. (N \div 2) - 1
WordsOfDraw == (N * N) \div WORD

\* What the proofs use of xor and ^, which the provers know nothing of: words
\* stay words, and the two nibbles of a byte do not touch each other.
ASSUME XorOfWords == \A a, b \in Word : xor(a, b) \in Word
ASSUME PowersOfTwo == \A m, n \in 0 .. W : 2^(m + n) = 2^m * 2^n
ASSUME XorOfNibbles ==
    \A a, b, c, d \in 0 .. 2^NIB - 1 : xor(a * 2^NIB + b, c * 2^NIB + d) = xor(a, c) * 2^NIB + xor(b, d)
ASSUME NoMatrixIsNone == NoMatrix \notin [Index -> [Index -> 0 .. 2^NIB - 1]]

----------------------------------------------------------------------------
(* xoshiro256++ *)

rotl64(value, shift) == ((value * 2^shift) % 2^W) + (value \div 2^(W - shift))

\* The word a state yields, and the state after it.
xoshiro_out(s) == (rotl64((s[1] + s[4]) % 2^W, OUT_ROT) + s[1]) % 2^W
xoshiro_next(s) ==
    LET t  == (s[2] * 2^T_SHIFT) % 2^W
        s2 == xor(s[3], s[1])
        s3 == xor(s[4], s[2])
        s1 == xor(s[2], s2)
        s0 == xor(s[1], s3)
    IN  <<s0, s1, xor(s2, t), rotl64(s3, S3_ROT)>>

\* States from the seed on: the hash itself is the first.
States(pre_pow_hash, n) ==
    LET state[k \in 0 .. n] == IF k = 0 THEN pre_pow_hash ELSE xoshiro_next(state[k - 1])
    IN  state

\* The matrix of draw number a: elements in the order of the words, low nibble first.
Draw(pre_pow_hash, a) ==
    LET state == States(pre_pow_hash, (a + 1) * WordsOfDraw)
    IN  [i \in Index |-> [j \in Index |->
            LET e == i * N + j
            IN  (xoshiro_out(state[a * WordsOfDraw + (e \div WORD)]) \div 2^(NIB * (e % WORD))) % 2^NIB]]

----------------------------------------------------------------------------
(* Rank *)

\* Elimination of one column over the rationals, with the rows scaled so
\* that no fraction is needed; used rows keep being reduced, as in the code.
EliminateColumn(st, i) ==
    LET free == {j \in Index \ st.selected : st.B[j][i] # 0}
        j    == Min(free)
        row(k, p) == IF k = j \/ p <= i THEN st.B[k][p]
                     ELSE st.B[k][p] * st.B[j][i] - st.B[j][p] * st.B[k][i]
    IN  IF free = {} THEN st
        ELSE [selected |-> st.selected \cup {j}, B |-> [k \in Index |-> [p \in Index |-> row(k, p)]]]

check_matrix_rank(matrix) ==
    LET after[i \in 0 .. N] == IF i = 0 THEN [selected |-> {}, B |-> matrix]
                               ELSE EliminateColumn(after[i - 1], i - 1)
    IN  Cardinality(after[N].selected) = N

\* The first of a block's draws whose number is accepted.
FirstDraw(draws, accepted) == IF accepted = {} THEN NoMatrix ELSE draws[Min(accepted)]

Draws(pre_pow_hash) == [a \in 0 .. ATTEMPTS - 1 |-> Draw(pre_pow_hash, a)]
\* generate_matrix of the block with these draws.
generate_matrix(draws) ==
    FirstDraw(draws, {a \in DOMAIN draws : check_matrix_rank(draws[a])})

----------------------------------------------------------------------------
(* One hash *)

construct_header(pre_pow_hash, timestamp, nonce) == <<pre_pow_hash, timestamp, nonce>>

create_vector_from_hash(h) ==
    [j \in Index |-> IF j % 2 = 0 THEN h[j \div 2] \div 2^NIB ELSE h[j \div 2] % 2^NIB]

matrix_vector_multiply(matrix, vector) ==
    [i \in Index |-> (SumFunction([j \in Index |-> matrix[i][j] * vector[j]]) \div 2^SHIFT) % 2^NIB]

xor_with_hash(product, h) ==
    [b \in Bytes |-> xor(product[2 * b] * 2^NIB + product[2 * b + 1], h[b])]

HashThrough(matrix, pow_hash) ==
    LET product == matrix_vector_multiply(matrix, create_vector_from_hash(pow_hash))
    IN  cshake256(xor_with_hash(product, pow_hash), "HeavyHash")

pow_hash_of(pre_pow_hash, timestamp, nonce) ==
    cshake256(construct_header(pre_pow_hash, timestamp, nonce), "ProofOfWorkHash")
=============================================================================
