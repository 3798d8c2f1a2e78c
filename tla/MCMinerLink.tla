---------------------------- MODULE MCMinerLink -----------------------------
(***************************************************************************)
(* A small instance of the register link: bytes of six bits, two data      *)
(* bytes per word, two job registers.  The words are chosen to look like   *)
(* frames: one begins with SOF, and a receiver that lost the first byte of *)
(* its frame and starts over there finds a checksum that is right in the   *)
(* next request.                                                           *)
(***************************************************************************)
EXTENDS MinerLink

MCBit == {0, 1, 2, 3, 4, 7}
MCSOF == {1, 3, 7}
MCJobAddr == <<"PPH0", "NONCE0">>
MCAddrByte ==
  [r \in {"CTRL", "PPH0", "NONCE0", "FOUND_COUNT", "FOUND_NONCE0", "FOUND_NONCE1",
          "FOUND_WORKID"} |->
     CASE r = "CTRL" -> {}
       [] r = "PPH0" -> {2}
       [] r = "NONCE0" -> {3}
       [] r = "FOUND_COUNT" -> {4}
       [] r = "FOUND_NONCE0" -> {2, 4}
       [] r = "FOUND_NONCE1" -> {3, 4}
       [] r = "FOUND_WORKID" -> {2, 3, 4}]

(* Two jobs that share a word.                                             *)
MCJobValues == {[PPH0 |-> <<MCSOF, {0, 1, 2, 7}>>, NONCE0 |-> <<{0}, {}>>],
                [PPH0 |-> <<MCSOF, {0, 1, 2, 7}>>, NONCE0 |-> <<{0, 2}, MCSOF>>]}
MCFindWord == << <<{0}, {}>>, <<{0, 1}, MCSOF>> >>
MCCountWord ==
  [n \in 0 .. 2 |-> CASE n = 0 -> <<{}, {}>> [] n = 1 -> <<{0}, {}>> [] n = 2 -> <<{1}, {}>>]
MCStartData == <<{0}, {}>>

=============================================================================
