------------------------------ MODULE MCCshake ------------------------------
(***************************************************************************)
(* Both builds of the cSHAKE core on one clock, one reset and one data bus *)
(* (a small instance of each), each with a valid_in of its own.            *)
(***************************************************************************)
EXTENDS CshakeFolded

LAYERS == 3

VARIABLES u_valid_sr, u_pr0, u_pr1, u_kstate

U == INSTANCE CshakeUnfolded
       WITH STAGES <- LAYERS, valid_sr <- u_valid_sr, pr0 <- u_pr0, pr1 <- u_pr1,
            kstate <- u_kstate

BothInit == Init /\ U!Init /\ pr0 = u_pr0

BothNext ==
  \E data_in \in Msg :
    \/ Reset(data_in) /\ U!Reset(data_in)
    \/ \E valid_in, u_valid_in \in BOOLEAN :
         Clock(data_in, valid_in) /\ U!Clock(data_in, u_valid_in)

BothSpec == BothInit /\ [][BothNext]_<<vars, u_valid_sr, u_pr0, u_pr1, u_kstate>>

(* CshakeUnfolded!ImplementsLine: an item leaves the pipelined core LAT    *)
(* cycles after it was taken, after every round once and in order, in      *)
(* streams, gaps and isolated pulses (cshake256_core.sv:64-231).           *)
UnfoldedImplementsLine == U!ImplementsLine

=============================================================================
