------------------------------- MODULE Cshake -------------------------------
(***************************************************************************)
(* What the two builds of cshake256_core.sv, CshakeFolded and              *)
(* CshakeUnfolded, have in common: parameters, and stages 0 and 1.         *)
(***************************************************************************)
EXTENDS Naturals, Sequences

CONSTANTS
  NUM_ROUNDS,   (* rounds of the permutation, 24 in the code               *)
  STAGES,       (* round circuits (folded) or register layers (unfolded)   *)
  Msg,          (* the messages on data_in                                 *)
  None          (* no item (in the abstract line only)                     *)

ASSUME CshakeConstants ==
  /\ STAGES \in Nat \ {0}
  /\ NUM_ROUNDS \in Nat \ {0}
  /\ NUM_ROUNDS % STAGES = 0
  /\ Msg # {}
  /\ None \notin Msg

(* A sponge state is the message absorbed and the rounds applied so far.   *)
Absorb(m) == [msg |-> m, rounds |-> <<>>]
Sponge == [msg : Msg, rounds : Seq(0 .. NUM_ROUNDS - 1)]
AfterRounds(st, rounds) == [st EXCEPT !.rounds = @ \o rounds]

=============================================================================
