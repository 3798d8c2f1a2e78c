----------------------------- MODULE PoolBridge -----------------------------
(***************************************************************************)
(* The event loop of the bridge: stratum.py's StratumClient (connect, log  *)
(* in, dispatch, submit, reconnect) and pool_bridge.py's Bridge, which     *)
(* makes works of the pool's messages and shares of the miner's finds.     *)
(* Between two awaits the loop runs undisturbed: that is a step.  The      *)
(* miner thread (MinerWorker) is here what the loop sees of it: it may     *)
(* find a nonce of any work it was ever given, at any time.                *)
(***************************************************************************)
EXTENDS Extranonce, Sequences, FiniteSets

CONSTANTS
  Targets, Prefixes,  (* What set_difficulty and set_extranonce may bring; *)
                      (* what parse_extranonce raises on changes nothing.  *)
  None,
  MAX_SESSIONS,       (* Bound: connections.                               *)
  MAX_MESSAGES,       (* Bound: messages of the pool that make a work.     *)
  MAX_FINDS           (* Bound: finds of the miner.                        *)

ASSUME BridgeConstants ==
  /\ None \notin Targets
  /\ None \notin (1 .. MAX_SESSIONS) \X {"subscribe", "authorize", "in"}
  /\ NONCES \in Spans /\ NONCES >= ROOM
  /\ Prefixes \subseteq Extranonces
  /\ {MAX_SESSIONS, MAX_MESSAGES, MAX_FINDS} \subseteq Nat

(* Jobs are numbered as they are notified.                                 *)
Job == 1 .. MAX_MESSAGES
Find == 1 .. MAX_FINDS
WorkRecord == [job : Job, target : Targets, nonce_base : 0 .. NONCES - 1,
               prefix : Extranonces, session : 1 .. MAX_SESSIONS]

(* The prefix of no bits that Bridge begins with.                          *)
NoPrefix == [prefix |-> 0, span |-> NONCES]

VARIABLES
  (* StratumClient: how far _session has come ("down" before               *)
  (* open_connection and after _close; "in" is connected.is_set()), the    *)
  (* session, the submit calls in _pending; whether the transport is gone  *)
  (* and _session has not woken up to it yet                               *)
  phase, session, calls, lost,
  (* Bridge *)
  job, target, prefix, nonce_base,
  (* callbacks of finds and first steps of submit tasks, in the order the  *)
  (* loop will run them                                                    *)
  ready,
  (* the works given to the miner thread, and the work of each find posted *)
  given, posted,
  (* the pool: shares it has not answered; session in which it gave a job  *)
  unanswered, notified,
  (* ghosts: what was counted for a find (stats), and the session and      *)
  (* phase in which its share went out                                     *)
  outcome, sent, messages

client == <<phase, session, calls, lost>>
terms == <<job, target, prefix, nonce_base>>
vars == <<client, terms, ready, given, posted, unanswered, notified, outcome, sent, messages>>

Settle(finds, how) ==
  outcome' = [n \in Find |-> IF n \in finds THEN Append(outcome[n], how) ELSE outcome[n]]

-----------------------------------------------------------------------------
(* Connect, log in, lose the connection, connect again.                    *)

(* open_connection succeeds, five seconds after _close at the earliest:    *)
(* submit tasks of before have taken their first step by then.             *)
Connect ==
  /\ phase = "down"
  /\ session < MAX_SESSIONS
  /\ \A i \in DOMAIN ready : ready[i][1] # "submit"
  /\ phase' = "subscribe"
  /\ session' = session + 1
  /\ UNCHANGED <<calls, lost, terms, ready, given, posted, unanswered, notified,
                 outcome, sent, messages>>

(* open_connection fails: no session, and the loop tries again.            *)
ConnectFails ==
  /\ phase = "down"
  /\ UNCHANGED vars

Listening == phase # "down" /\ ~lost

Authorize ==
  /\ Listening /\ phase = "authorize"
  /\ phase' = "in"
  /\ UNCHANGED <<session, calls, lost, terms, ready, given, posted, unanswered, notified,
                 outcome, sent, messages>>

Lose ==
  /\ Listening
  /\ lost' = TRUE
  /\ UNCHANGED <<phase, session, calls, terms, ready, given, posted, unanswered, notified,
                 outcome, sent, messages>>

(* Slip: the calls that were waiting are left in _pending.                 *)
Mutant_CloseKeepsPending ==
  /\ phase # "down"
  /\ phase' = "down"
  /\ lost' = FALSE
  /\ Settle(calls, "rejected")
  /\ unanswered' = {}
  /\ UNCHANGED <<session, calls, terms, ready, given, posted, notified, sent, messages>>

(* _close, whatever ended the session: the reader saw the end of the       *)
(* stream, a call timed out, authorize was refused.                        *)
Close ==
  /\ phase # "down"
  /\ phase' = "down"
  /\ lost' = FALSE
  /\ Settle(calls, "rejected")
  /\ calls' = {}
  /\ unanswered' = {}
  /\ UNCHANGED <<session, terms, ready, given, posted, notified, sent, messages>>

-----------------------------------------------------------------------------
(* Messages of the pool: from the moment of the connection on, before the  *)
(* login is through as well as after.                                      *)

push ==
  given' = IF job' = None \/ target' = None THEN given
           ELSE given \union {[job |-> job', target |-> target', prefix |-> prefix',
                               nonce_base |-> nonce_base', session |-> session]}

Message ==
  /\ Listening
  /\ messages < MAX_MESSAGES
  /\ messages' = messages + 1
  /\ push
  /\ UNCHANGED <<session, calls, lost, ready, posted, unanswered, outcome, sent>>

on_job ==
  /\ job' = Cardinality({j \in Job : notified[j] # 0}) + 1
  /\ UNCHANGED <<phase, target, prefix, nonce_base>>
  /\ Message
  /\ notified' = [notified EXCEPT ![job'] = session]

on_target ==
  /\ target' \in Targets
  /\ UNCHANGED <<phase, job, prefix, nonce_base, notified>>
  /\ Message

(* Slip: the base drawn for the prefix before is kept.                     *)
Mutant_on_extranonceKeepsBase ==
  /\ prefix' \in Prefixes
  /\ UNCHANGED <<job, target, nonce_base, notified>>
  /\ Message
  /\ phase' \in {phase} \union IF phase = "subscribe" THEN {"authorize"} ELSE {}

(* Also from the result of subscribe, which some pools use for it.  One    *)
(* that is refused there ends the program, and is left out; in a message   *)
(* it changes nothing.                                                     *)
on_extranonce ==
  /\ prefix' \in Prefixes
  /\ nonce_base' \in nonce_bases(prefix')
  /\ UNCHANGED <<job, target, notified>>
  /\ Message
  /\ phase' \in {phase} \union IF phase = "subscribe" THEN {"authorize"} ELSE {}

Subscribe ==
  /\ Listening /\ phase = "subscribe"
  /\ phase' = "authorize"
  /\ UNCHANGED <<session, calls, lost, terms, ready, given, posted, unanswered, notified,
                 outcome, sent, messages>>

-----------------------------------------------------------------------------
(* Finds.                                                                  *)

(* The miner thread: on_find_threadsafe.                                   *)
on_find_threadsafe ==
  /\ Len(posted) < MAX_FINDS
  /\ \E w \in given : posted' = Append(posted, w)
  /\ ready' = Append(ready, <<"find", Len(posted) + 1>>)
  /\ UNCHANGED <<client, terms, given, unanswered, notified, outcome, sent, messages>>

(* Slip: the session is compared, but not whether it is logged in.         *)
Mutant_WantedAnyPhase(work) == work.session = session

(* The test of on_find.                                                    *)
Wanted(work) == work.session = session /\ phase = "in"

on_find ==
  /\ ready # <<>> /\ Head(ready)[1] = "find"
  /\ LET n == Head(ready)[2] IN
       IF Wanted(posted[n])
         THEN /\ ready' = Append(Tail(ready), <<"submit", n>>)
              /\ UNCHANGED outcome
         ELSE /\ ready' = Tail(ready)
              /\ Settle({n}, "stale")
  /\ UNCHANGED <<client, terms, given, posted, unanswered, notified, sent, messages>>

(* The submit task up to the first await that lasts: _call writes the      *)
(* share and waits.  With the transport gone, drain raises                 *)
(* ConnectionResetError, which submit does not catch: the find is in no    *)
(* count.                                                                  *)
submit ==
  /\ ready # <<>> /\ Head(ready)[1] = "submit"
  /\ ready' = Tail(ready)
  /\ LET n == Head(ready)[2] IN
       IF Listening
         THEN /\ calls' = calls \union {n}
              /\ unanswered' = unanswered \union {n}
              /\ sent' = [sent EXCEPT ![n] = <<session, phase>>]
              /\ UNCHANGED outcome
         ELSE /\ Settle({n}, IF lost THEN "raised" ELSE "rejected")
              /\ UNCHANGED <<calls, unanswered, sent>>
  /\ UNCHANGED <<phase, session, lost, terms, given, posted, notified, messages>>

(* Slip: an answer is counted though its call has timed out.               *)
Mutant_AnswerUnasked ==
  /\ Listening
  /\ \E n \in unanswered, how \in {"accepted", "rejected"} :
       /\ unanswered' = unanswered \ {n}
       /\ calls' = calls \ {n}
       /\ Settle({n}, how)
  /\ UNCHANGED <<phase, session, lost, terms, ready, given, posted, notified, sent, messages>>

(* The pool's answer; one that comes after its call timed out is ignored.  *)
Answer ==
  /\ Listening
  /\ \E n \in unanswered, how \in {"accepted", "rejected"} :
       /\ unanswered' = unanswered \ {n}
       /\ calls' = calls \ {n}
       /\ Settle({n} \intersect calls, how)
  /\ UNCHANGED <<phase, session, lost, terms, ready, given, posted, notified, sent, messages>>

(* Slip: no timeout is set for the answer.                                 *)
Mutant_TimeoutNever == FALSE /\ UNCHANGED vars

Timeout ==
  /\ \E n \in calls : calls' = calls \ {n} /\ Settle({n}, "rejected")
  /\ UNCHANGED <<phase, session, lost, terms, ready, given, posted, unanswered, notified,
                 sent, messages>>

Init ==
  /\ phase = "down" /\ session = 0 /\ calls = {} /\ lost = FALSE
  /\ job = None /\ target = None
  /\ prefix = NoPrefix /\ nonce_base \in nonce_bases(NoPrefix)
  /\ ready = <<>> /\ given = {} /\ posted = <<>>
  /\ unanswered = {} /\ notified = [j \in Job |-> 0]
  /\ outcome = [n \in Find |-> <<>>] /\ sent = [n \in Find |-> None]
  /\ messages = 0

Next ==
  \/ Connect \/ ConnectFails \/ Subscribe \/ Authorize \/ Lose \/ Close
  \/ on_job \/ on_target \/ on_extranonce
  \/ on_find_threadsafe \/ on_find \/ submit \/ Answer \/ Timeout

Spec == Init /\ [][Next]_vars

(* The loop runs what is ready, and its timers expire.                     *)
FairSpec == Spec /\ WF_vars(on_find \/ submit) /\ WF_vars(Timeout)

-----------------------------------------------------------------------------

(* The loop's state keeps its shape (stratum.py:109-125,                   *)
(* pool_bridge.py:186-196).                                                *)
TypeOK ==
  /\ phase \in {"down", "subscribe", "authorize", "in"}
  /\ session \in 0 .. MAX_SESSIONS
  /\ phase # "down" => session > 0
  /\ lost => phase # "down"
  /\ calls \subseteq {n \in Find : sent[n] # None}
  /\ phase = "down" => calls = {} /\ unanswered = {}
  /\ job \in Job \union {None} /\ target \in Targets \union {None}
  /\ prefix \in Extranonces /\ nonce_base \in nonce_bases(prefix)
  /\ given \subseteq WorkRecord
  /\ \A i \in DOMAIN ready : ready[i] \in {"find", "submit"} \X (1 .. Len(posted))

(* A share goes out only on the connection, logged in, whose session its   *)
(* work was made in, though its callback, its task and the reconnection    *)
(* run at times of their own (pool_bridge.py:224-231, stratum.py:140-190). *)
SentInItsSession ==
  \A n \in DOMAIN posted : sent[n] # None => sent[n] = <<posted[n].session, "in">>

(* Whatever came between, a work's base lies under its own prefix with     *)
(* room to count: check throws away none of the finds of its first ROOM    *)
(* nonces ("at least 2^MIN_FREE_BITS nonces of room before the counter     *)
(* could carry into it", stratum.py:78-88, pool_bridge.py:167, 208-218).   *)
WorksHaveRoom ==
  \A w \in given, i \in 0 .. ROOM - 1 : has_prefix(Counted(w.nonce_base, i), w.prefix)

(* Where a find waits for the loop.                                       *)
Queued(n) == {i \in DOMAIN ready : ready[i][2] = n}

InOnePlace(n) ==
  \/ Queued(n) = {} /\ n \in calls /\ outcome[n] = <<>>
  \/ Queued(n) = {} /\ n \notin calls /\ Len(outcome[n]) = 1
  \/ (\E i \in DOMAIN ready : Queued(n) = {i}) /\ n \notin calls /\ outcome[n] = <<>>

(* Every find is in exactly one place: waiting for the loop, waiting for   *)
(* the pool, or counted, and that once, whichever of answer, timeout and   *)
(* disconnection come, and in whatever order (pool_bridge.py:224-243,      *)
(* stratum.py:140-144, 167-190).                                           *)
CountedOnce == \A n \in DOMAIN posted : InOnePlace(n)

(* No find waits for ever (pool_bridge.py:224-243, stratum.py:177-190).    *)
FindsSettle == \A n \in Find : n \in DOMAIN posted ~> outcome[n] # <<>>

(* "job ids from an older session are void" (stratum.py:124): no share is  *)
(* sent for one.                                                           *)
VoidJobsNotSent ==
  \A n \in DOMAIN posted : sent[n] # None => notified[posted[n].job] = sent[n][1]

=============================================================================
