---------------------------- MODULE CshakeFolded ----------------------------
(***************************************************************************)
(* cshake256_core.sv with FOLDED = 1: STAGES round circuits feed one state *)
(* register that goes round FOLD_ITERS times per message.  A shift         *)
(* register of valid bits travels beside the data, which does not know     *)
(* where it is: iteration counter, valid bits and state have to stay in    *)
(* step by construction.  One step is one clock edge.                      *)
(***************************************************************************)
EXTENDS Cshake

FOLD_ITERS == NUM_ROUNDS \div STAGES
LAT == FOLD_ITERS + 2

VARIABLES
  valid_sr,     (* valid_sr[i] is bit i - 1 of the code's register         *)
  pr0,          (* the encoded message                                     *)
  pr1,          (* the message XORed into the sponge constant              *)
  fold_state, iter, fold_active

vars == <<valid_sr, pr0, pr1, fold_state, iter, fold_active>>

(* A pass applies the STAGES rounds that the iteration counter names.      *)
RoundsOfPass(k) == [fs \in 1 .. STAGES |-> k * STAGES + fs - 1]
Pass(st, k) == AfterRounds(st, RoundsOfPass(k))

valid_out == valid_sr[LAT]

(* Slip: busy misses the cycle before the fold becomes active.             *)
Mutant_busyLate == fold_active
busy == fold_active \/ valid_sr[1]

Init ==
  /\ valid_sr = [i \in 1 .. LAT |-> FALSE]
  /\ pr0 \in Msg
  /\ pr1 = Absorb(pr0)
  /\ fold_state = Absorb(pr0)
  /\ iter = 0
  /\ fold_active = FALSE

(* Stage 0 and 1, and the valid bits.  Data moves whether valid or not.    *)
Stages(data_in, valid_in) ==
  /\ pr0' = data_in
  /\ pr1' = Absorb(pr0)
  /\ valid_sr' = [i \in 1 .. LAT |->
                    IF i = 1 THEN valid_in /\ ~busy ELSE valid_sr[i - 1]]

(* Slip: the counter is stepped past its last value when the fold ends.    *)
Mutant_IterateRunsOn ==
  IF valid_sr[1]
    THEN iter' = 0 /\ fold_active' = TRUE
  ELSE IF ~fold_active
    THEN UNCHANGED <<iter, fold_active>>
  ELSE iter' = iter + 1 /\ fold_active' = (iter # FOLD_ITERS - 1)

(* Primed one cycle before pr1 holds the message.                          *)
Iterate ==
  IF valid_sr[1]
    THEN iter' = 0 /\ fold_active' = TRUE
  ELSE IF ~fold_active
    THEN UNCHANGED <<iter, fold_active>>
  ELSE IF iter = FOLD_ITERS - 1
    THEN iter' = 0 /\ fold_active' = FALSE
  ELSE iter' = iter + 1 /\ UNCHANGED fold_active

(* Slip: the fold takes its input one cycle early.                         *)
Mutant_FoldMuxEarly ==
  fold_state' =
    IF fold_active THEN Pass(IF valid_sr[1] THEN pr1 ELSE fold_state, iter)
                   ELSE fold_state

Fold ==
  fold_state' =
    IF fold_active THEN Pass(IF valid_sr[2] THEN pr1 ELSE fold_state, iter)
                   ELSE fold_state

Clock(data_in, valid_in) ==
  /\ Stages(data_in, valid_in)
  /\ Iterate
  /\ Fold

(* The data registers have no reset.                                       *)
Reset(data_in) ==
  /\ valid_sr' = [i \in 1 .. LAT |-> FALSE]
  /\ iter' = 0
  /\ fold_active' = FALSE
  /\ pr0' = data_in
  /\ pr1' = Absorb(pr0)
  /\ UNCHANGED fold_state

Next ==
  \E data_in \in Msg :
    \/ Reset(data_in)
    \/ \E valid_in \in BOOLEAN : Clock(data_in, valid_in)

Spec == Init /\ [][Next]_vars

-----------------------------------------------------------------------------

(* The registers keep their shape (cshake256_core.sv:64-70, 236-259).      *)
TypeOK ==
  /\ valid_sr \in [1 .. LAT -> BOOLEAN]
  /\ pr0 \in Msg
  /\ pr1 \in {Absorb(m) : m \in Msg}
  /\ fold_state \in Sponge
  /\ iter \in 0 .. FOLD_ITERS - 1
  /\ fold_active \in BOOLEAN

(* At most one valid bit travels, and while it is in the fold the fold is  *)
(* active and iter is its position there: the three registers that are     *)
(* never compared by the code agree (cshake256_core.sv:230-308).           *)
FoldInStep ==
  /\ \A i, j \in 1 .. LAT : valid_sr[i] /\ valid_sr[j] => i = j
  /\ fold_active <=> \E i \in 2 .. LAT - 1 : valid_sr[i]
  /\ \A i \in 2 .. LAT - 1 : valid_sr[i] => iter = i - 2

(* The item the valid bit at position i stands for.                        *)
ItemAt(i) ==
  IF ~valid_sr[i] THEN None
  ELSE IF i = 1 THEN pr0
  ELSE IF i = 2 THEN pr1.msg
  ELSE fold_state.msg

Delay == INSTANCE CshakeLine
           WITH FOLDED <- TRUE,
                line <- [i \in 1 .. LAT |-> ItemAt(i)],
                out <- IF valid_out THEN fold_state ELSE None

(* The folded core is the delay line core.sv counts on: an item leaves LAT *)
(* cycles after it was taken, unmixed with any other, after every round    *)
(* exactly once and in order; what it is offered meanwhile is not taken.   *)
ImplementsLine == Delay!Spec

=============================================================================
