------------------------------- MODULE MCCore -------------------------------
(***************************************************************************)
(* Small instances of the core: one seed that needs one draw of the        *)
(* matrix, one that needs two, and the all-zero reset seed.                *)
(***************************************************************************)
EXTENDS Core

MCPph == {"p0", "p1", "p2"}
MCTs == {0, 1}
MCAttempts == [p \in MCPph |-> CASE p = "p0" -> 0 [] p = "p1" -> 1 [] p = "p2" -> 2]

(* Jobs on two blocks; the second is harder and starts elsewhere.          *)
TwoBlocks == {[pph |-> "p1", ts |-> 0, nonce |-> 0, target |-> 1],
              [pph |-> "p2", ts |-> 0, nonce |-> 2, target |-> 0]}
(* The same, and a second template of the first block.                     *)
ThreeJobs == TwoBlocks \union {[pph |-> "p1", ts |-> 1, nonce |-> 0, target |-> 0]}
(* Templates of one block that differ in their timestamp only.             *)
OneBlock == {[pph |-> "p1", ts |-> t, nonce |-> 0, target |-> 0] : t \in MCTs}

(* Which nonces win depends on the block and on the timestamp; a digest    *)
(* that is not that of its header always seems to win.                     *)
MCHashOf(d) ==
  IF d = Digest(d.vec) /\ d.vec.pph # "p0"
    THEN (d.vec.nonce + d.vec.ts + (IF d.vec.pph = "p1" THEN 0 ELSE 1)) % 2
    ELSE 0

=============================================================================
