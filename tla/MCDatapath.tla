------------------------------ MODULE MCDatapath ------------------------------
(***************************************************************************)
(* Datapath with a four by four matrix of two-bit elements, and the sponge *)
(* it leaves abstract checked at full size (SpongeIsReference).            *)
(***************************************************************************)
EXTENDS Datapath, Keccak, Bitwise

\* The draws of these seeds that hardware and reference keep: (0, 0), (1, 1),
\* (2, 2), then (1, 0), (0, 1) and (0, none).
MCPphs == {<<1, 0, 0, 0>>, <<0, 0, 0, 6>>, <<0, 6, 1, 7>>,
           <<0, 0, 4, 11>>, <<0, 0, 1, 3>>, <<0, 1, 1, 4>>}

\* Any function of the message will do; this one spreads the nonces and keeps
\* what HeavyHash is asked about.
MCcshake256(data, custom) ==
    IF custom = "ProofOfWorkHash"
    THEN [b \in Bytes |-> (5 * data[3] + 6 * b * data[3] + 3 * data[1][1] + 7 * data[1][4] + 11 * b) % 16]
    ELSE data

MCxor(a, b) == a ^^ b

\* What cshake256 stands for in a digest that was compared is the same at
\* both ends: at full size the hardware's tables are what the permutation
\* makes of the customization's prefix, its fixed padding is that of the two
\* lengths, and its six-input form of a round is the round.  Each end has its
\* own round constants and rotations; a constant wrong at both would still
\* not lead to the 1600 bits in the hardware's table.
\* (cshake256_core.sv:86-168, keccak_round.sv:31-74, kheavyhash_ref.py:217-317).
SpongeIsReference == checked # None => BothSpongesAgree
=============================================================================
