-------------------------- MODULE MCWorkController --------------------------
(***************************************************************************)
(* Small instances of the found FIFO: four slots, or two; two kinds of     *)
(* find, one job word.                                                     *)
(***************************************************************************)
EXTENDS WorkController

MCJobAddr == {"NONCE0"}
MCWord == 0 .. 1
MCStartWord == {1}

=============================================================================
