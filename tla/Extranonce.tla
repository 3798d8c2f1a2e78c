----------------------------- MODULE Extranonce -----------------------------
(***************************************************************************)
(* The nonces a pool leaves to this miner: stratum.py's parse_extranonce,  *)
(* pick_nonce_base and has_prefix, and core's counter that runs on from    *)
(* the base.  A prefix of p bits is known by its span, the number of       *)
(* nonces below it, 2^(64 - p).                                            *)
(***************************************************************************)
EXTENDS Integers

CONSTANTS
  NONCES,   (* all nonces (2^64)                                           *)
  Spans,    (* of the prefixes a pool may send, and NONCES for none        *)
  ROOM      (* 2^MIN_FREE_BITS                                             *)

ASSUME ExtranonceConstants ==
  /\ NONCES \in Nat /\ ROOM \in Nat \ {0}
  /\ Spans \subseteq Nat \ {0}
  /\ \A span \in Spans : NONCES = span * (NONCES \div span)

(* What parse_extranonce lets through: ROOM at least, or it raises.        *)
Extranonces ==
  UNION {[prefix : 0 .. (NONCES \div span) - 1, span : {span}] : span \in {s \in Spans : s >= ROOM}}

(* The bases pick_nonce_base draws from.                                   *)
nonce_bases(e) == {e.prefix * e.span + start : start \in 0 .. e.span - ROOM}

has_prefix(nonce, e) == e.span = NONCES \/ nonce \div e.span = e.prefix

(* The nonce counter of core, i nonces after START.                        *)
Counted(base, i) == (base + i) % NONCES

(* Whatever prefix the pool sends and whichever base is drawn, the first   *)
(* ROOM nonces of a job are under the prefix: check throws none of their   *)
(* finds away ("at least 2^MIN_FREE_BITS nonces of room before the counter *)
(* could carry into it", stratum.py:67-88, pool_bridge.py:167).            *)
RoomUnderPrefix ==
  \A e \in Extranonces : \A base \in nonce_bases(e), i \in 0 .. ROOM - 1 :
    has_prefix(Counted(base, i), e)

=============================================================================
