------------------------------- MODULE Keccak -------------------------------
(***************************************************************************)
(* cSHAKE256 at its full size, as the reference computes it and as the     *)
(* hardware does.  The reference absorbs a padded prefix made of the       *)
(* customization; the hardware starts from a table of what that leaves and *)
(* computes a bit of a round from six others.  A state, a block and a      *)
(* message are the sets of their bits that are 1: bit z of lane <<x, y>>   *)
(* is 64 * (x + 5y) + z, bit b of byte i is 8i + b.                        *)
(***************************************************************************)
EXTENDS Integers, Sequences, FiniteSets

Bit == 0 .. 1599
X(b) == (b \div 64) % 5
Y(b) == b \div 320
At(x, y, z) == 64 * ((x % 5) + 5 * (y % 5)) + (z % 64)
Flip(A, B) == (A \ B) \cup (B \ A)

\* Rotations, RHO[x + 1][y + 1], and the bits of each round constant, of the
\* permutation done step by step.  The hardware has tables of its own.
RHO == << <<0, 36, 3, 41, 18>>, <<1, 44, 10, 45, 2>>, <<62, 6, 43, 15, 61>>,
          <<28, 55, 25, 21, 56>>, <<27, 20, 39, 8, 14>> >>
RC == <<{0}, {1, 7, 15}, {1, 3, 7, 15, 63}, {15, 31, 63}, {0, 1, 3, 7, 15}, {0, 31},
        {0, 7, 15, 31, 63}, {0, 3, 15, 63}, {1, 3, 7}, {3, 7}, {0, 3, 15, 31}, {1, 3, 31},
        {0, 1, 3, 7, 15, 31}, {0, 1, 3, 7, 63}, {0, 3, 7, 15, 63}, {0, 1, 15, 63}, {1, 15, 63}, {7, 63},
        {1, 3, 15}, {1, 3, 31, 63}, {0, 7, 15, 31, 63}, {7, 15, 63}, {0, 31}, {3, 15, 31, 63}>>

----------------------------------------------------------------------------
(* The permutation, step by step *)

\* The positions 64x + z at which the column of five bits has odd parity.
C(A) == {p \in 0 .. 319 : Cardinality({y \in 0 .. 4 : p + 320 * y \in A}) % 2 = 1}
D(A) == LET odd == C(A)
        IN  {p \in 0 .. 319 : (At(X(p) + 4, 0, p) \in odd) # (At(X(p) + 1, 0, p + 63) \in odd)}

theta(A) == LET d == D(A) IN {b \in Bit : (b \in A) # (b % 320 \in d)}
rho(A) == {At(X(b), Y(b), b + RHO[X(b) + 1][Y(b) + 1]) : b \in A}
pi(A) == {At(Y(b), 2 * X(b) + 3 * Y(b), b) : b \in A}
chi(A) == {b \in Bit : (b \in A) # (At(X(b) + 1, Y(b), b) \notin A /\ At(X(b) + 2, Y(b), b) \in A)}

keccak_f1600(A) ==
    LET after[r \in 0 .. 24] == IF r = 0 THEN A
                                ELSE Flip(chi(pi(rho(theta(after[r - 1])))), RC[r])
    IN  after[24]

----------------------------------------------------------------------------
(* The permutation, bit by bit *)

RHO_OFFSETS == << <<0, 36, 3, 41, 18>>, <<1, 44, 10, 45, 2>>, <<62, 6, 43, 15, 61>>,
                  <<28, 55, 25, 21, 56>>, <<27, 20, 39, 8, 14>> >>

\* A table of the RTL, sixteen bits at a time, most significant first within
\* a lane.  Lane n is the set of its bits.
Lane(table, n) == {z \in 0 .. 63 : (table[4 * n + 4 - (z \div 16)] \div 2^(z % 16)) % 2 = 1}

ROUND_CONSTANTS == <<
  \h0000,\h0000,\h0000,\h0001, \h0000,\h0000,\h0000,\h8082, \h8000,\h0000,\h0000,\h808a, \h8000,\h0000,\h8000,\h8000,
  \h0000,\h0000,\h0000,\h808b, \h0000,\h0000,\h8000,\h0001, \h8000,\h0000,\h8000,\h8081, \h8000,\h0000,\h0000,\h8009,
  \h0000,\h0000,\h0000,\h008a, \h0000,\h0000,\h0000,\h0088, \h0000,\h0000,\h8000,\h8009, \h0000,\h0000,\h8000,\h000a,
  \h0000,\h0000,\h8000,\h808b, \h8000,\h0000,\h0000,\h008b, \h8000,\h0000,\h0000,\h8089, \h8000,\h0000,\h0000,\h8003,
  \h8000,\h0000,\h0000,\h8002, \h8000,\h0000,\h0000,\h0080, \h0000,\h0000,\h0000,\h800a, \h8000,\h0000,\h8000,\h000a,
  \h8000,\h0000,\h8000,\h8081, \h8000,\h0000,\h0000,\h8080, \h0000,\h0000,\h8000,\h0001, \h8000,\h0000,\h8000,\h8008>>

\* Slip: a nibble of the sixth constant is gone.
Mutant_RoundConstant(n) == IF n = 5 THEN {0} ELSE Lane(ROUND_CONSTANTS, n)

RoundConstant(n) == Lane(ROUND_CONSTANTS, n)

\* P0, P1 and P2 are bits of the state before the round, one of each lane
\* that pi brings to the row, back by its rotation, with their offsets.
keccak_round(A, round_constant) ==
    LET doff == D(A)
        P(x, y, z) == LET b == At(x + 3 * y, x, z + 64 - RHO_OFFSETS[((x + 3 * y) % 5) + 1][(x % 5) + 1])
                      IN  (b \in A) # (b % 320 \in doff)
        Out(x, y, z) == P(x, y, z) # (~P(x + 1, y, z) /\ P(x + 2, y, z))
    IN  {b \in Bit : Out(X(b), Y(b), b % 64) # (b \in round_constant)}

Folded(pr1) ==
    LET chain[r \in 0 .. 24] == IF r = 0 THEN pr1 ELSE keccak_round(chain[r - 1], RoundConstant(r - 1))
    IN  chain[24]

----------------------------------------------------------------------------
(* The reference sponge *)

BitsIn(bytes) == {b \in 0 .. 8 * Len(bytes) - 1 : (bytes[b \div 8 + 1] \div 2^(b % 8)) % 2 = 1}
rate == 136
DigestBits == 0 .. 255

left_encode(x) == IF x < 256 THEN <<1, x>> ELSE <<2, x \div 256, x % 256>>
encode_string(s) == left_encode(8 * Len(s)) \o s
bytepad(x, w) == LET z == left_encode(w) \o x
                 IN  z \o [i \in 1 .. (w - (Len(z) % w)) % w |-> 0]

\* The state once the prefix of a customization is absorbed: one block.
Absorbed(customization) ==
    keccak_f1600(BitsIn(bytepad(encode_string(<<>>) \o encode_string(customization), rate)))

\* The message, the padding byte after it and the final bit; they fit one block.
Padded(data) == BitsIn(data \o <<4>> \o [i \in 1 .. rate - Len(data) - 2 |-> 0] \o <<128>>)

ReferenceDigest(absorbed, data) == keccak_f1600(Flip(absorbed, Padded(data))) \cap DigestBits

----------------------------------------------------------------------------
(* The hardware sponge *)

SPONGE_POW == <<
  \h113c,\hff0d,\ha1f6,\hd83d, \h29bf,\h8855,\hb702,\h7e3c, \h1e5f,\h2e72,\h0efb,\h44d2, \h1ba5,\ha4a3,\hf598,\h69a0,
  \h7b2f,\hafca,\h875e,\h2d65, \h4aef,\h61d6,\h29dc,\he246, \h183a,\h981e,\had41,\h5b10, \h776b,\hf60c,\h789b,\hc29c,
  \hf8eb,\hf133,\h8866,\h3140, \h2e65,\h1c3c,\h4328,\h5ff0, \h0f96,\h0705,\h40f1,\h4a0e, \h44e3,\h6787,\h5b29,\h9152,
  \hec70,\hf1a4,\h25b1,\h3715, \he6c8,\h5d8f,\h82e9,\hda89, \hb21a,\h601f,\h85b4,\hb223, \h3485,\h5490,\h64a3,\h6a46,
  \h8f06,\hdd1c,\h7a2f,\h851a, \hc1a2,\h021d,\h563b,\hb142, \hba1d,\he5e4,\h4516,\h68e4, \hd102,\h5741,\h0509,\h5f8d,
  \h89ca,\h4e84,\h9bce,\hcf4a, \h48b0,\h9427,\ha874,\h2edb, \hb1fc,\hce9c,\he78b,\h5272, \h5d11,\h29cf,\h82af,\ha5bc,
  \h02b9,\h7c78,\h6f82,\h4383>>
SPONGE_HH == <<
  \h3ad7,\h4c52,\hb224,\h8509, \h7962,\h9b0e,\h2f9f,\h4216, \h7a14,\hff48,\h16c7,\hf8ee, \h11a7,\h5f4c,\h8005,\h6498,
  \he720,\he0df,\h44ee,\hcede, \h72c7,\hd82e,\h14f3,\h4069, \hc100,\hff2a,\h9389,\h35ba, \h5e21,\h9040,\h250f,\hc462,
  \h8039,\hf9a6,\h0dcf,\h6a48, \ha0bc,\haa9f,\h792a,\h3d0c, \hf431,\hc05d,\hd0a9,\ha226, \hd31f,\h4cc3,\h54c1,\h8c3f,
  \h6c6b,\h7d01,\ha769,\hcc3d, \h2ec6,\h5bd3,\h5624,\h93e4, \h4ef7,\h4b3a,\h99cd,\hb044, \h774c,\h8683,\h5434,\hf2b0,
  \h87e9,\h61b0,\h36bc,\h9416, \h7e8f,\h1db1,\h7765,\hcc07, \hea8f,\hdb80,\hbac4,\h6d39, \hb992,\hf2d3,\h7b34,\hca58,
  \hc776,\hc504,\h8481,\hb957, \h47c3,\h9f67,\h5112,\hc22e, \h92bb,\h399d,\hb529,\h0c0a, \h549a,\he031,\h2f9f,\hc615,
  \h1619,\h327d,\h10b9,\hda35>>
SPONGE(table) == {b \in Bit : b % 64 \in Lane(table, b \div 64)}

\* stage0_comb: a message of 80 or of 32 bytes, the domain byte, the last bit of the rate.
stage0(data) == BitsIn(data) \cup {8 * Len(data) + 2, 1087}

hash_out(table, data) == Folded(Flip(SPONGE(table), stage0(data))) \cap DigestBits

----------------------------------------------------------------------------
(* The two compared *)

ProofOfWorkHash == <<80, 114, 111, 111, 102, 79, 102, 87, 111, 114, 107, 72, 97, 115, 104>>
HeavyHash == <<72, 101, 97, 118, 121, 72, 97, 115, 104>>

\* Some messages: counting, all ones, and one that changes from byte to byte.
Messages(n) == {[i \in 1 .. n |-> i - 1], [i \in 1 .. n |-> 255], [i \in 1 .. n |-> (31 * i + 7) % 256]}

SpongesAgree(table, customization, n) ==
    LET absorbed == Absorbed(customization)
    IN  \A data \in Messages(n) : hash_out(table, data) = ReferenceDigest(absorbed, data)

\* For the two customizations and lengths a hash is made of.
BothSpongesAgree ==
    /\ SpongesAgree(SPONGE_POW, ProofOfWorkHash, 80)
    /\ SpongesAgree(SPONGE_HH, HeavyHash, 32)
=============================================================================
