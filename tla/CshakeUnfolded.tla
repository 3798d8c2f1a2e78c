--------------------------- MODULE CshakeUnfolded ---------------------------
(***************************************************************************)
(* cshake256_core.sv with FOLDED = 0: STAGES register layers of            *)
(* NUM_ROUNDS / STAGES rounds each, one message per cycle.  The layers     *)
(* shift whatever they hold; the valid bits travel beside them.            *)
(***************************************************************************)
EXTENDS Cshake

ROUNDS_PER_STAGE == NUM_ROUNDS \div STAGES
LAT == STAGES + 2

VARIABLES valid_sr, pr0, pr1, kstate

vars == <<valid_sr, pr0, pr1, kstate>>

(* Slip: the layers are numbered from one when their constants are chosen. *)
Mutant_RoundsOfLayerFromOne(st) == [r \in 1 .. ROUNDS_PER_STAGE |-> st * ROUNDS_PER_STAGE + r - 1]

(* Layer st (counted from 1) applies rounds (st-1)*RPS .. st*RPS - 1.      *)
RoundsOfLayer(st) ==
  [r \in 1 .. ROUNDS_PER_STAGE |-> (st - 1) * ROUNDS_PER_STAGE + r - 1]
Layer(s, st) == AfterRounds(s, RoundsOfLayer(st))

valid_out == valid_sr[LAT]
hash_out == kstate[STAGES]

Init ==
  /\ valid_sr = [i \in 1 .. LAT |-> FALSE]
  /\ pr0 \in Msg
  /\ pr1 = Absorb(pr0)
  /\ kstate = [st \in 1 .. STAGES |-> Absorb(pr0)]

(* Data moves every cycle; busy is tied to 0, so every valid_in is taken.  *)
Data(data_in) ==
  /\ pr0' = data_in
  /\ pr1' = Absorb(pr0)
  /\ kstate' = [st \in 1 .. STAGES |->
                  Layer(IF st = 1 THEN pr1 ELSE kstate[st - 1], st)]

Clock(data_in, valid_in) ==
  /\ Data(data_in)
  /\ valid_sr' = [i \in 1 .. LAT |-> IF i = 1 THEN valid_in ELSE valid_sr[i - 1]]

Reset(data_in) ==
  /\ Data(data_in)
  /\ valid_sr' = [i \in 1 .. LAT |-> FALSE]

Next ==
  \E data_in \in Msg :
    \/ Reset(data_in)
    \/ \E valid_in \in BOOLEAN : Clock(data_in, valid_in)

Spec == Init /\ [][Next]_vars

-----------------------------------------------------------------------------

(* The registers keep their shape (cshake256_core.sv:64-70, 188-231).      *)
TypeOK ==
  /\ valid_sr \in [1 .. LAT -> BOOLEAN]
  /\ pr0 \in Msg
  /\ pr1 \in {Absorb(m) : m \in Msg}
  /\ kstate \in [1 .. STAGES -> Sponge]

ItemAt(i) ==
  IF ~valid_sr[i] THEN None
  ELSE IF i = 1 THEN pr0
  ELSE IF i = 2 THEN pr1.msg
  ELSE kstate[i - 2].msg

Delay == INSTANCE CshakeLine
           WITH FOLDED <- FALSE,
                line <- [i \in 1 .. LAT |-> ItemAt(i)],
                out <- IF valid_out THEN hash_out ELSE None

(* The pipelined core is the delay line core.sv counts on, whatever the    *)
(* pattern of valid_in: streams, gaps and single isolated pulses.          *)
ImplementsLine == Delay!Spec

=============================================================================
