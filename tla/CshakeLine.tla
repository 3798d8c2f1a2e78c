----------------------------- MODULE CshakeLine -----------------------------
(***************************************************************************)
(* What core.sv relies on from a cSHAKE core: a delay line.  An item taken *)
(* now leaves LAT cycles later, hashed; in between, a folded core takes    *)
(* nothing (busy) and an unfolded one takes an item every cycle.           *)
(***************************************************************************)
EXTENDS Naturals

CONSTANTS
  FOLDED,       (* one item at a time, or a pipeline                       *)
  LAT,          (* cycles from valid_in to valid_out                       *)
  NUM_ROUNDS,   (* rounds of the permutation (24)                          *)
  Msg,          (* the messages                                            *)
  None          (* no item                                                 *)

VARIABLES
  line,         (* line[i] is the item taken i cycles ago                  *)
  out           (* hash_out while valid_out, None otherwise                *)

vars == <<line, out>>

(* A sponge state is the message absorbed and the rounds it went through.  *)
Hashed(m) == [msg |-> m, rounds |-> [r \in 1 .. NUM_ROUNDS |-> r - 1]]

Busy == FOLDED /\ \E i \in 1 .. LAT - 1 : line[i] # None

Init ==
  /\ line = [i \in 1 .. LAT |-> None]
  /\ out = None

Leave(item) == IF item = None THEN None ELSE Hashed(item)

Tick(in) ==
  /\ line' = [i \in 1 .. LAT |->
                IF i > 1 THEN line[i - 1] ELSE IF Busy THEN None ELSE in]
  /\ out' = Leave(line[LAT - 1])

Reset ==
  /\ line' = [i \in 1 .. LAT |-> None]
  /\ out' = None

Next == Reset \/ \E in \in Msg \union {None} : Tick(in)

Spec == Init /\ [][Next]_vars

=============================================================================
