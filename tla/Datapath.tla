------------------------------ MODULE Datapath ------------------------------
(***************************************************************************)
(* A hash on its way through the hardware, with its data: the generator    *)
(* draws and keeps a matrix, the matmul builds its tables from the cache,  *)
(* vectors stream through, the product is XORed with the delayed hash, as  *)
(* core.sv wires them.  Every digest is checked by the bridge's KHeavyhash *)
(* object, which keeps the matrix of the last hash it was asked about.     *)
(* When the host may start a job and what the control does with it is the  *)
(* subject of Core; here a job starts when the one before streams.         *)
(***************************************************************************)
EXTENDS Matmul, Sequences

CONSTANTS
    Pphs,      \* pre_pow_hash values that are mined on
    Nonces,
    TIMESTAMP,
    None       \* no job, no item

ASSUME SeedsAreWords == Pphs \subseteq Word \X Word \X Word \X Word /\ None \notin Pphs
ASSUME HashesAreBytes ==
    \A p \in Pphs, n \in Nonces : pow_hash_of(p, TIMESTAMP, n) \in [Bytes -> 0 .. 2^NIB * 2^NIB - 1]

VARIABLES
    ctl,        \* core.sv: state, blk_pph, matrix_gen_start, gen_ack, mm_reload, load_seen
    ph_delay,   \* the hash beside each layer of the matmul, zero if none
    item,       \* ghost: the header of the item in each layer, None if not valid
    loaded,     \* ghost: the block whose tables are complete
    cached,     \* KHeavyhash object: prepow_hash and matrix
    checked     \* the digest that left last and what the object says of it

vars == <<genVars, mmVars, ctl, ph_delay, item, loaded, cached, checked>>

ZeroHash == [b \in Bytes |-> 0]

----------------------------------------------------------------------------
(* KHeavyhash object *)

get_cached_matrix(pre_pow_hash) ==
    IF cached.prepow_hash = pre_pow_hash THEN cached.matrix ELSE NoMatrix

DrawsOf == [p \in Pphs |-> Draws(p)]
Generated == [p \in Pphs |-> generate_matrix(DrawsOf[p])]

\* The matrix hash works with; a failed draw leaves the cache cleared.
MatrixFor(pre_pow_hash) ==
    IF get_cached_matrix(pre_pow_hash) # NoMatrix THEN get_cached_matrix(pre_pow_hash)
    ELSE Generated[pre_pow_hash]

CacheAfter(pre_pow_hash) ==
    LET m == MatrixFor(pre_pow_hash)
    IN  [prepow_hash |-> IF m = NoMatrix THEN None ELSE pre_pow_hash, matrix |-> m]

hash(pre_pow_hash, timestamp, nonce) ==
    IF MatrixFor(pre_pow_hash) = NoMatrix THEN NoMatrix
    ELSE HashThrough(MatrixFor(pre_pow_hash), pow_hash_of(pre_pow_hash, timestamp, nonce))

----------------------------------------------------------------------------
(* The wires of core.sv *)

\* START: a new block is generated, the same one streams on.
Start(pph) ==
    /\ ctl.state = "STREAM"
    /\ ctl' = [ctl EXCEPT !.blk_pph = pph, !.gen_ack = FALSE, !.mm_reload = FALSE,
                          !.matrix_gen_start = (pph # loaded),
                          !.state = IF pph # loaded THEN "GEN" ELSE "STREAM"]

Control ==
    LET turn == ctl.state = "GEN" /\ ctl.gen_ack /\ gen.done
    IN  ctl' = [ctl EXCEPT
            !.matrix_gen_start = FALSE,
            !.mm_reload = turn,
            !.gen_ack = @ \/ (ctl.state = "GEN" /\ ~gen.done),
            !.load_seen = ~turn /\ (@ \/ (ctl.state = "LOAD" /\ busy)),
            !.state = IF turn THEN "LOAD"
                      ELSE IF @ = "LOAD" /\ ctl.load_seen /\ ~busy THEN "STREAM" ELSE @]

\* An item of the block whose tables are complete, or none.
Feed(nonce) ==
    LET ph == IF nonce = None THEN ZeroHash ELSE pow_hash_of(loaded, TIMESTAMP, nonce)
        in == IF nonce = None \/ busy THEN None ELSE [pph |-> loaded, nonce |-> nonce]
    IN  /\ MatmulClock(matrix_flat, ctl.mm_reload, NibblesOf(ph), nonce # None)
        /\ ph_delay' = [st \in Stage |-> IF st = 0 THEN ph ELSE ph_delay[st - 1]]
        /\ item' = [st \in Stage |-> IF st = 0 THEN in ELSE item[st - 1]]

\* digest = product ^ ph_delay, as a word and as the bytes that are hashed next.
digest ==
    LET x == [n \in Index |-> xor(product_out[n], NibblesOf(ph_delay[NUM_STAGES - 1])[n])]
    IN  [b \in Bytes |-> x[2 * b + 1] * 2^NIB + x[2 * b]]

Check ==
    LET it == item[NUM_STAGES - 1]
    IN  IF valid_out
        THEN /\ checked' = [hw |-> cshake256(digest, "HeavyHash"),
                            ref |-> hash(it.pph, TIMESTAMP, it.nonce), item |-> it]
             /\ cached' = CacheAfter(it.pph)
        ELSE UNCHANGED <<checked, cached>>

Loaded == loaded' = IF busy /\ ld'.state = "LD_IDLE" THEN ctl.blk_pph ELSE loaded

\* One clock edge.
Clock(pph, nonce) ==
    /\ IF pph = None THEN Control ELSE Start(pph)
    /\ GenClock(ctl.matrix_gen_start, ctl.blk_pph)
    /\ Feed(nonce)
    /\ Loaded
    /\ Check

Init ==
    /\ GenInit /\ MatmulInit
    /\ \E pph \in Pphs : ctl = [state |-> "GEN", blk_pph |-> pph, matrix_gen_start |-> TRUE,
                                gen_ack |-> FALSE, mm_reload |-> FALSE, load_seen |-> FALSE]
    /\ ph_delay = [st \in Stage |-> ZeroHash]
    /\ item = [st \in Stage |-> None]
    /\ loaded = None
    /\ cached = [prepow_hash |-> None, matrix |-> NoMatrix]
    /\ checked = None

Next == \E pph \in Pphs \cup {None}, nonce \in IF loaded = None THEN {None} ELSE Nonces \cup {None} :
            Clock(pph, nonce)

Spec == Init /\ [][Next]_vars

----------------------------------------------------------------------------
(* Properties *)

\* A verdict of the rank check says of the matrix in the cache, and of no
\* matrix before it, whether its rows are independent as vectors of bits:
\* rows arrive a cycle after they are asked for, the last word of the matrix
\* is written in the cycle the check starts, and done stays high from the
\* check before.  Elimination runs over all bit columns at worst.
VerdictIsRight ==
    gen.state = "RANK_CHECK" /\ chk.done => (chk.full_rank = RowsIndependent(cache.row))

\* The first draw of a block with independent rows.
FirstIndependent ==
    [p \in Pphs |-> LET draws == DrawsOf[p]
                    IN  FirstDraw(draws, {a \in DOMAIN draws : RowsIndependent(RowBits(draws[a]))})]

\* The hardware draws for ever if it must: no more than the reference here.
ASSUME EveryBlockHasAMatrix ==
    \A p \in Pphs : \E a \in 0 .. ATTEMPTS - 1 : RowsIndependent(RowBits(Draw(p, a)))

\* When the generator reports done, the cache holds that draw, under the
\* block's hash.
KeepsFirstFullRank ==
    gen.state = "IDLE" /\ gen.done /\ ~ctl.matrix_gen_start =>
        /\ cache.PrePowHash = ctl.blk_pph
        /\ cache.row = RowBits(FirstIndependent[ctl.blk_pph])

\* Both ends keep the same draw.
AgreeingPphs == {p \in Pphs : FirstIndependent[p] = Generated[p]}

\* Every digest that leaves is the reference hash of its own header: the
\* swapped nibbles at both ends of the matmul, the order of the words in a
\* row, the tables built by addition while older vectors are still in the
\* layers, and the matrix the object remembers, all of them fit.
DigestIsReference ==
    checked # None /\ checked.item.pph \in AgreeingPphs => checked.hw = checked.ref

\* The hash the hardware finds is the one the bridge checks it with.
AgreesWithReference == checked # None => checked.hw = checked.ref
=============================================================================
