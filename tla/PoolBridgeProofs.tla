-------------------------- MODULE PoolBridgeProofs --------------------------
(***************************************************************************)
(* The safety of the event loop for any number of sessions, messages and   *)
(* finds, any targets and any prefixes: no share crosses a session, none   *)
(* is counted twice or lost, and every work leaves its nonces room.        *)
(***************************************************************************)
EXTENDS PoolBridge, SequenceTheorems, FiniteSetTheorems, TLAPS

Entry == {"find", "submit"} \X Find
Outcome == {"accepted", "rejected", "stale", "raised"}

(* The types of what TypeOK leaves loose, and finds not made untouched.    *)
Books ==
  /\ lost \in BOOLEAN
  /\ posted \in Seq(WorkRecord) /\ Len(posted) \in 0 .. MAX_FINDS
  /\ ready \in Seq(Entry)
  /\ unanswered \subseteq Find
  /\ sent \in [Find -> {None} \union (Nat \X {"subscribe", "authorize", "in"})]
  /\ outcome \in [Find -> Seq(Outcome)]
  /\ \A n \in Find : n \notin DOMAIN posted => sent[n] = None /\ outcome[n] = <<>>

(* Jobs are numbered without a gap, so that a new number is never beyond   *)
(* the bound on messages.                                                  *)
JobsNumbered ==
  /\ notified \in [Job -> Nat]
  /\ messages \in 0 .. MAX_MESSAGES
  /\ \E k \in 0 .. messages : \A j \in Job : notified[j] # 0 <=> j <= k

(* A share whose task has not run belongs to the session of now, which     *)
(* cannot have been left for another one: _close is five seconds before    *)
(* the next connection.                                                    *)
TasksOfThisSession ==
  \A i \in DOMAIN ready : ready[i][1] = "submit" =>
    posted[ready[i][2]].session = session /\ phase \in {"down", "in"}

BasesDrawn == \A w \in given : w.nonce_base \in nonce_bases(w.prefix)

IInv ==
  /\ TypeOK /\ Books /\ JobsNumbered /\ TasksOfThisSession /\ BasesDrawn
  /\ SentInItsSession /\ CountedOnce

-----------------------------------------------------------------------------
(* The nonces of a job and their prefix.                                   *)

(* A number below q * s, written as p * s + r, divides back.               *)
LEMMA DivideBack ==
  ASSUME NEW s \in Nat \ {0}, NEW p \in Nat, NEW r \in 0 .. s - 1
  PROVE  (p * s + r) \div s = p
BY SMT

LEMMA BelowProduct ==
  ASSUME NEW s \in Nat \ {0}, NEW q \in Nat, NEW p \in 0 .. q - 1, NEW r \in 0 .. s - 1
  PROVE  p * s + r \in 0 .. q * s - 1
<1>1. (q - 1 - p) * s >= 0 /\ (q - 1 - p) * s = q * s - s - p * s
  BY SMT
<1>2. p * s >= 0 /\ p * s \in Int /\ q * s \in Int
  BY SMT
<1> QED
  BY <1>1, <1>2

(* Whatever the pool sends and the bridge draws, the first ROOM nonces of  *)
(* a job keep the prefix (stratum.py:67-88).                               *)
THEOREM RoomUnderEveryPrefix == RoomUnderPrefix
<1> SUFFICES ASSUME NEW e \in Extranonces, NEW base \in nonce_bases(e), NEW i \in 0 .. ROOM - 1
             PROVE  has_prefix(Counted(base, i), e)
  BY DEF RoomUnderPrefix
<1> DEFINE q == NONCES \div e.span
<1>1. /\ e.span \in Nat \ {0} /\ NONCES \in Nat /\ ROOM \in Nat \ {0}
      /\ NONCES = q * e.span
      /\ q \in Int /\ e.prefix \in 0 .. q - 1
  <2>1. PICK span \in Spans : e \in [prefix : 0 .. (NONCES \div span) - 1, span : {span}]
    BY DEF Extranonces
  <2>2. e.span = span /\ e.prefix \in 0 .. q - 1
    BY <2>1
  <2>3. NONCES = span * (NONCES \div span) /\ span \in Nat \ {0} /\ NONCES \in Nat
    BY ExtranonceConstants
  <2>4. q \in Int
    BY <2>2, <2>3
  <2>5. span * q = q * span
    BY <2>3, <2>4
  <2> QED
    BY <2>2, <2>3, <2>4, <2>5, ExtranonceConstants
<1>2. q \in Nat
  BY <1>1
<1>3. PICK start \in 0 .. e.span - ROOM : base = e.prefix * e.span + start
  BY DEF nonce_bases
<1>4. start + i \in 0 .. e.span - 1
  BY <1>1, <1>3
<1>5. base + i = e.prefix * e.span + (start + i)
  BY <1>1, <1>3, <1>4
<1>6. base + i \in 0 .. NONCES - 1
  <2>1. e.prefix * e.span + (start + i) \in 0 .. q * e.span - 1
    BY <1>1, <1>2, <1>4, BelowProduct
  <2> QED
    BY <1>1, <1>5, <2>1
<1>7. Counted(base, i) = base + i
  BY <1>1, <1>6 DEF Counted
<1>8. (base + i) \div e.span = e.prefix
  <2>1. e.span \in Nat \ {0} /\ e.prefix \in Nat
    BY <1>1
  <2>2. (e.prefix * e.span + (start + i)) \div e.span = e.prefix
    BY <2>1, <1>4, DivideBack
  <2> QED
    BY <1>5, <2>2
<1> QED
  BY <1>7, <1>8 DEF has_prefix

-----------------------------------------------------------------------------
(* The ready queue.                                                        *)

At(q, n) == {i \in DOMAIN q : q[i][2] = n}

LEMMA TailOf ==
  ASSUME NEW S, NEW q \in Seq(S), q # <<>>
  PROVE  /\ Tail(q) \in Seq(S) /\ Head(q) = q[1] /\ 1 \in DOMAIN q
         /\ DOMAIN q = 1 .. Len(q) /\ Len(q) \in Nat \ {0}
         /\ DOMAIN Tail(q) = 1 .. Len(q) - 1
         /\ \A i \in 1 .. Len(q) - 1 : Tail(q)[i] = q[i + 1]
BY HeadTailProperties, EmptySeq, LenProperties

LEMMA AppendOf ==
  ASSUME NEW S, NEW q \in Seq(S), NEW x \in S
  PROVE  /\ Append(q, x) \in Seq(S) /\ Len(Append(q, x)) = Len(q) + 1
         /\ DOMAIN q = 1 .. Len(q) /\ Len(q) \in Nat
         /\ DOMAIN Append(q, x) = 1 .. Len(q) + 1
         /\ \A i \in 1 .. Len(q) : Append(q, x)[i] = q[i]
         /\ Append(q, x)[Len(q) + 1] = x
BY AppendProperties, LenProperties

LEMMA AtTail ==
  ASSUME NEW S, NEW q \in Seq(S), q # <<>>, NEW n
  PROVE  /\ At(q, n) = {} => At(Tail(q), n) = {}
         /\ \A i \in DOMAIN q : At(q, n) = {i} =>
              IF Head(q)[2] = n THEN At(Tail(q), n) = {}
              ELSE \E j \in DOMAIN Tail(q) : At(Tail(q), n) = {j}
<1>1. \A j : j \in At(Tail(q), n) <=> j \in DOMAIN Tail(q) /\ j + 1 \in At(q, n)
  BY TailOf DEF At
<1>2. ASSUME NEW i \in DOMAIN q, At(q, n) = {i}, Head(q)[2] = n
      PROVE  At(Tail(q), n) = {}
  <2>1. 1 \in At(q, n)
    BY <1>2, TailOf DEF At
  <2>2. i = 1
    BY <1>2, <2>1
  <2> QED
    BY <1>1, <1>2, <2>2, TailOf DEF At
<1>3. ASSUME NEW i \in DOMAIN q, At(q, n) = {i}, Head(q)[2] # n
      PROVE  \E j \in DOMAIN Tail(q) : At(Tail(q), n) = {j}
  <2>1. i # 1 /\ i \in 1 .. Len(q)
    BY <1>3, TailOf DEF At
  <2>2. i - 1 \in DOMAIN Tail(q)
    BY <2>1, TailOf
  <2>3. \A j \in DOMAIN Tail(q) : j + 1 \in At(q, n) <=> j = i - 1
    BY <1>3, <2>1, TailOf
  <2>4. At(Tail(q), n) = {i - 1}
    BY <1>1, <2>2, <2>3
  <2> QED
    BY <2>2, <2>4
<1>4. At(q, n) = {} => At(Tail(q), n) = {}
  BY <1>1
<1> QED
  BY <1>2, <1>3, <1>4

LEMMA AtAppend ==
  ASSUME NEW q \in Seq(Entry), NEW kind, NEW m, <<kind, m>> \in Entry, NEW n
  PROVE  /\ m # n => At(Append(q, <<kind, m>>), n) = At(q, n)
         /\ m = n /\ At(q, n) = {} => At(Append(q, <<kind, m>>), n) = {Len(q) + 1}
BY AppendOf DEF At

-----------------------------------------------------------------------------
(* What a work is made of.                                                 *)

LEMMA BaseIsNonce ==
  ASSUME NEW e \in Extranonces, NEW base \in nonce_bases(e)
  PROVE  base \in 0 .. NONCES - 1
<1> DEFINE q == NONCES \div e.span
<1>1. PICK span \in Spans : e \in [prefix : 0 .. (NONCES \div span) - 1, span : {span}] /\ span >= ROOM
  BY DEF Extranonces
<1>2. e.span = span /\ e.prefix \in 0 .. q - 1
  BY <1>1
<1>3. NONCES = span * (NONCES \div span) /\ span \in Nat \ {0} /\ NONCES \in Nat /\ ROOM \in Nat \ {0}
  BY ExtranonceConstants
<1>4. q \in Int
  BY <1>2, <1>3
<1>5. q \in Nat
  BY <1>2, <1>4
<1>6. NONCES = q * e.span
  BY <1>2, <1>3, <1>5
<1>7. PICK start \in 0 .. e.span - ROOM : base = e.prefix * e.span + start
  BY DEF nonce_bases
<1>8. start \in 0 .. e.span - 1 /\ e.span \in Nat \ {0}
  BY <1>2, <1>3, <1>7
<1>9. e.prefix * e.span + start \in 0 .. q * e.span - 1
  BY <1>2, <1>5, <1>8, BelowProduct
<1> QED
  BY <1>6, <1>7, <1>9

LEMMA NoPrefixFits == NoPrefix \in Extranonces
<1>1. NONCES \div NONCES = 1
  BY BridgeConstants, ExtranonceConstants
<1>2. NoPrefix \in [prefix : 0 .. (NONCES \div NONCES) - 1, span : {NONCES}]
  BY <1>1 DEF NoPrefix
<1> QED
  BY <1>2, BridgeConstants DEF Extranonces

LEMMA BoundsAreNat ==
  MAX_SESSIONS \in Nat /\ MAX_MESSAGES \in Nat /\ MAX_FINDS \in Nat
BY BridgeConstants

-----------------------------------------------------------------------------
(* The first state, and steps of the connection.                           *)

LEMMA InitIInv == Init => IInv
<1> SUFFICES ASSUME Init PROVE IInv
  OBVIOUS
<1> USE BoundsAreNat DEF Init
<1>1. TypeOK
  BY NoPrefixFits DEF TypeOK
<1>2. Books
  <2>1. \A S : <<>> \in Seq(S)
    BY EmptySeq
  <2>4. Len(posted) \in 0 .. MAX_FINDS
    BY Len(<<>>) = 0
  <2>5. lost \in BOOLEAN /\ unanswered \subseteq Find
    OBVIOUS
  <2>6. \A n \in Find : sent[n] = None /\ outcome[n] = <<>>
    OBVIOUS
  <2>2. outcome \in [Find -> Seq(Outcome)] /\ posted \in Seq(WorkRecord) /\ ready \in Seq(Entry)
    BY <2>1
  <2>3. sent \in [Find -> {None} \union (Nat \X {"subscribe", "authorize", "in"})]
    OBVIOUS
  <2> QED
    BY ONLY <2>2, <2>3, <2>4, <2>5, <2>6 DEF Books
<1>3. JobsNumbered
  <2>1. 0 \in 0 .. messages /\ \A j \in Job : notified[j] # 0 <=> j <= 0
    BY DEF Job
  <2>2. notified \in [Job -> Nat] /\ messages \in 0 .. MAX_MESSAGES
    OBVIOUS
  <2> QED
    BY <2>1, <2>2 DEF JobsNumbered
<1>4. TasksOfThisSession /\ BasesDrawn /\ SentInItsSession /\ CountedOnce
  BY DEF TasksOfThisSession, BasesDrawn, SentInItsSession, CountedOnce
<1> QED
  BY <1>1, <1>2, <1>3, <1>4 DEF IInv

(* What leaves jobs, works and finds alone leaves these alone.             *)
LEMMA KeepJobs ==
  JobsNumbered /\ UNCHANGED <<notified, messages>> => JobsNumbered'
BY DEF JobsNumbered

LEMMA KeepFinds ==
  CountedOnce /\ UNCHANGED <<calls, ready, posted, outcome>> => CountedOnce'
BY DEF CountedOnce, InOnePlace, Queued

LEMMA KeepSent ==
  SentInItsSession /\ UNCHANGED <<posted, sent>> => SentInItsSession'
BY DEF SentInItsSession

LEMMA KeepBooks ==
  Books /\ lost' \in BOOLEAN /\ UNCHANGED <<posted, ready, unanswered, sent, outcome>> => Books'
BY DEF Books

LEMMA ConnectIInv == IInv /\ Connect => IInv'
<1> SUFFICES ASSUME IInv, Connect PROVE IInv'
  OBVIOUS
<1>1. TypeOK'
  BY BoundsAreNat DEF IInv, TypeOK, Connect, terms
<1>2. Books' /\ JobsNumbered' /\ SentInItsSession' /\ CountedOnce'
  BY KeepJobs, KeepFinds, KeepSent, KeepBooks DEF IInv, Connect, terms, Books
<1>3. TasksOfThisSession' /\ BasesDrawn'
  BY DEF IInv, Connect, TasksOfThisSession, BasesDrawn
<1> QED
  BY <1>1, <1>2, <1>3 DEF IInv

(* Listening, the login and the loss of the transport.                     *)
LEMMA LoginIInv ==
  ASSUME IInv, Subscribe \/ Authorize \/ Lose
  PROVE  IInv'
<1> USE DEF Subscribe, Authorize, Lose, Listening, terms
<1>1. TypeOK'
  BY DEF IInv, TypeOK
<1>2. Books' /\ JobsNumbered' /\ SentInItsSession' /\ CountedOnce'
  BY KeepJobs, KeepFinds, KeepSent, KeepBooks DEF IInv, Books
<1>3. TasksOfThisSession' /\ BasesDrawn'
  BY DEF IInv, TasksOfThisSession, BasesDrawn
<1> QED
  BY <1>1, <1>2, <1>3 DEF IInv

(* Counting some finds that wait for the pool, or one that has left the    *)
(* queue.                                                                  *)
LEMMA SettleOutcome ==
  ASSUME Books, NEW finds \in SUBSET Find, NEW how \in Outcome, Settle(finds, how)
  PROVE  /\ outcome' \in [Find -> Seq(Outcome)]
         /\ \A n \in Find \ finds : outcome'[n] = outcome[n]
         /\ \A n \in finds : outcome'[n] = Append(outcome[n], how)
         /\ \A n \in finds : outcome[n] = <<>> => Len(outcome'[n]) = 1
<1>1. \A n \in Find : outcome[n] \in Seq(Outcome) /\ Append(outcome[n], how) \in Seq(Outcome)
  BY AppendOf DEF Books
<1>2. \A n \in Find : outcome'[n] = IF n \in finds THEN Append(outcome[n], how) ELSE outcome[n]
  BY DEF Settle
<1>3. outcome' \in [Find -> Seq(Outcome)]
  BY <1>1 DEF Settle
<1>4. ASSUME NEW n \in finds, outcome[n] = <<>>
      PROVE  Len(outcome'[n]) = 1
  <2>1. outcome[n] \in Seq(Outcome) /\ Len(outcome[n]) = 0
    BY <1>1, <1>4
  <2>2. Len(Append(outcome[n], how)) = Len(outcome[n]) + 1
    BY <2>1, AppendOf
  <2>3. outcome'[n] = Append(outcome[n], how)
    BY <1>2
  <2> QED
    BY <2>1, <2>2, <2>3
<1> QED
  BY <1>2, <1>3, <1>4

(* Calls that end are counted.                                             *)
LEMMA CallsEnd ==
  ASSUME IInv, NEW finds \in SUBSET calls, NEW how \in Outcome, Settle(finds, how),
         calls' = calls \ finds, UNCHANGED <<ready, posted, sent>>
  PROVE  /\ outcome' \in [Find -> Seq(Outcome)] /\ CountedOnce'
         /\ \A n \in Find : n \notin DOMAIN posted => outcome'[n] = <<>>
<1>1. finds \subseteq Find
  BY DEF IInv, TypeOK
<1>2. \A n \in finds : n \in DOMAIN posted
  BY DEF IInv, TypeOK, Books
<1>3. ASSUME NEW n \in DOMAIN posted
      PROVE  InOnePlace(n)'
  <2>1. n \in Find
    BY LenProperties, BoundsAreNat DEF IInv, Books, Find
  <2>2. InOnePlace(n) /\ Queued(n)' = Queued(n) /\ Books /\ UNCHANGED ready
    BY <1>3 DEF IInv, CountedOnce, Queued
  <2>3. CASE n \in finds
    <3>1. Queued(n) = {} /\ outcome[n] = <<>> /\ n \notin calls'
      BY <2>2, <2>3 DEF InOnePlace
    <3>2. Len(outcome'[n]) = 1
      BY <1>1, <2>2, <2>3, <3>1, SettleOutcome
    <3> QED
      BY <2>2, <3>1, <3>2 DEF InOnePlace
  <2>4. CASE n \notin finds
    <3>1. outcome'[n] = outcome[n]
      BY <1>1, <2>1, <2>2, <2>4, SettleOutcome
    <3> QED
      BY <2>2, <2>4, <3>1 DEF InOnePlace
  <2> QED
    BY <2>3, <2>4
<1>4. CountedOnce'
  BY <1>3 DEF CountedOnce
<1> QED
  BY <1>1, <1>2, <1>4, SettleOutcome DEF IInv, Books

LEMMA CloseIInv == IInv /\ Close => IInv'
<1> SUFFICES ASSUME IInv, Close PROVE IInv'
  OBVIOUS
<1>1. /\ outcome' \in [Find -> Seq(Outcome)] /\ CountedOnce'
      /\ \A n \in Find : n \notin DOMAIN posted => outcome'[n] = <<>>
  <2>1. calls' = calls \ calls /\ "rejected" \in Outcome
    BY DEF Close, Outcome
  <2> QED
    BY <2>1, CallsEnd DEF Close
<1>2. TypeOK'
  BY DEF IInv, TypeOK, Close, terms
<1>3. Books'
  BY <1>1 DEF IInv, Books, Close
<1>4. JobsNumbered' /\ SentInItsSession'
  BY KeepJobs, KeepSent DEF IInv, Close
<1>5. TasksOfThisSession' /\ BasesDrawn'
  BY DEF IInv, Close, TasksOfThisSession, BasesDrawn
<1> QED
  BY <1>1, <1>2, <1>3, <1>4, <1>5 DEF IInv

-----------------------------------------------------------------------------
(* Messages of the pool.                                                   *)

LEMMA MessageIInv ==
  ASSUME IInv, Message, JobsNumbered',
         job' \in Job \union {None}, target' \in Targets \union {None},
         prefix' \in Extranonces, nonce_base' \in nonce_bases(prefix'),
         phase' \in {phase} \union IF phase = "subscribe" THEN {"authorize"} ELSE {}
  PROVE  IInv'
<1>1. session \in 1 .. MAX_SESSIONS /\ session \in Nat
  BY BoundsAreNat DEF IInv, TypeOK, Message, Listening
<1>2. /\ given' \subseteq WorkRecord /\ BasesDrawn'
      /\ given \subseteq given'
  <2>1. CASE job' = None \/ target' = None
    BY <2>1 DEF IInv, TypeOK, BasesDrawn, Message, push
  <2>2. CASE job' # None /\ target' # None
    <3> DEFINE w == [job |-> job', target |-> target', prefix |-> prefix',
                     nonce_base |-> nonce_base', session |-> session]
    <3>1. given' = given \union {w}
      BY <2>2 DEF Message, push
    <3>2. w \in WorkRecord
      BY <1>1, <2>2, BaseIsNonce DEF WorkRecord
    <3>3. w.nonce_base \in nonce_bases(w.prefix)
      OBVIOUS
    <3> QED
      BY <3>1, <3>2, <3>3 DEF IInv, TypeOK, BasesDrawn
  <2> QED
    BY <2>1, <2>2
<1>3. TypeOK'
  BY <1>1, <1>2 DEF IInv, TypeOK, Message, Listening
<1>4. Books' /\ SentInItsSession' /\ CountedOnce'
  BY KeepBooks, KeepFinds, KeepSent DEF IInv, Message, Books
<1>5. TasksOfThisSession'
  BY DEF IInv, TasksOfThisSession, Message
<1> QED
  BY <1>2, <1>3, <1>4, <1>5 DEF IInv

LEMMA JobIInv == IInv /\ on_job => IInv'
<1> SUFFICES ASSUME IInv, on_job PROVE IInv'
  OBVIOUS
<1>1. session \in Nat \ {0} /\ messages < MAX_MESSAGES /\ messages' = messages + 1
  BY BoundsAreNat DEF IInv, TypeOK, on_job, Message, Listening
<1>2. PICK k \in 0 .. messages : \A j \in Job : notified[j] # 0 <=> j <= k
  BY DEF IInv, JobsNumbered
<1>3. messages \in Nat /\ k \in Nat /\ k + 1 \in Job
  BY <1>1, BoundsAreNat DEF IInv, JobsNumbered, Job
<1>4. job' = k + 1
  <2>1. {j \in Job : notified[j] # 0} = 1 .. k
    BY <1>1, <1>2, <1>3, BoundsAreNat DEF Job
  <2>2. Cardinality(1 .. k) = k
    BY <1>3, FS_Interval
  <2> QED
    BY <2>1, <2>2 DEF on_job
<1>5. JobsNumbered'
  <2>1. notified' = [notified EXCEPT ![k + 1] = session] /\ notified' \in [Job -> Nat]
    BY <1>1, <1>3, <1>4 DEF IInv, JobsNumbered, on_job
  <2>2. \A j \in Job : notified'[j] # 0 <=> j <= k + 1
    BY <1>1, <1>2, <1>3, <2>1 DEF IInv, JobsNumbered, Job
  <2>3. k + 1 \in 0 .. messages' /\ messages' \in 0 .. MAX_MESSAGES
    BY <1>1, <1>3, BoundsAreNat
  <2> QED
    BY <2>1, <2>2, <2>3 DEF JobsNumbered
<1> QED
  BY <1>3, <1>4, <1>5, MessageIInv DEF IInv, TypeOK, on_job

LEMMA TermsIInv ==
  ASSUME IInv, on_target \/ on_extranonce
  PROVE  IInv'
<1>1. JobsNumbered'
  <2>1. messages < MAX_MESSAGES /\ messages' = messages + 1 /\ UNCHANGED notified
    BY DEF on_target, on_extranonce, Message
  <2>2. PICK k \in 0 .. messages : \A j \in Job : notified[j] # 0 <=> j <= k
    BY DEF IInv, JobsNumbered
  <2>3. k \in 0 .. messages' /\ messages' \in 0 .. MAX_MESSAGES
    BY <2>1, BoundsAreNat DEF IInv, JobsNumbered
  <2> QED
    BY <2>1, <2>2, <2>3 DEF IInv, JobsNumbered
<1>2. CASE on_target
  BY <1>1, <1>2, MessageIInv DEF IInv, TypeOK, on_target
<1>3. CASE on_extranonce
  BY <1>1, <1>3, MessageIInv, BridgeConstants DEF IInv, TypeOK, on_extranonce
<1> QED
  BY <1>2, <1>3

-----------------------------------------------------------------------------
(* Finds.                                                                  *)

(* Facts about the queue that every step of a find uses.                   *)
LEMMA QueueFacts ==
  ASSUME IInv
  PROVE  /\ DOMAIN posted = 1 .. Len(posted) /\ Len(posted) \in Nat
         /\ DOMAIN posted \subseteq Find
         /\ \A n \in DOMAIN posted : posted[n] \in WorkRecord
         /\ \A i \in DOMAIN ready : /\ ready[i] = <<ready[i][1], ready[i][2]>>
                                   /\ ready[i][1] \in {"find", "submit"}
                                   /\ ready[i][2] \in DOMAIN posted
         /\ \A n : Queued(n) = At(ready, n)
<1>1. posted \in Seq(WorkRecord) /\ Len(posted) \in 0 .. MAX_FINDS
  BY DEF IInv, Books
<1>2. DOMAIN posted = 1 .. Len(posted) /\ DOMAIN posted \subseteq Find
  BY <1>1, LenProperties, BoundsAreNat DEF Find
<1>3. \A n \in DOMAIN posted : posted[n] \in WorkRecord
  BY <1>1, <1>2, ElementOfSeq
<1>4. \A i \in DOMAIN ready : ready[i] \in {"find", "submit"} \X (1 .. Len(posted))
  BY DEF IInv, TypeOK
<1>5. \A n : Queued(n) = At(ready, n)
  BY DEF Queued, At
<1> QED
  BY <1>1, <1>2, <1>3, <1>4, <1>5

LEMMA PostIInv == IInv /\ on_find_threadsafe => IInv'
<1> SUFFICES ASSUME IInv, on_find_threadsafe PROVE IInv'
  OBVIOUS
<1> DEFINE new == Len(posted) + 1
<1>1. PICK w \in given : posted' = Append(posted, w)
  BY DEF on_find_threadsafe
<1>2. new \in Find /\ w \in WorkRecord /\ new \notin DOMAIN posted
  BY QueueFacts, BoundsAreNat DEF on_find_threadsafe, IInv, TypeOK, Find
<1>3. /\ posted' \in Seq(WorkRecord) /\ Len(posted') = new /\ DOMAIN posted' = 1 .. new
      /\ \A n \in DOMAIN posted : posted'[n] = posted[n]
  BY <1>1, <1>2, AppendOf DEF IInv, Books
<1>4. ready' = Append(ready, <<"find", new>>) /\ <<"find", new>> \in Entry /\ ready \in Seq(Entry)
  BY <1>2 DEF on_find_threadsafe, Entry, IInv, Books
<1>5. /\ ready' \in Seq(Entry) /\ Len(ready) \in Nat
      /\ DOMAIN ready = 1 .. Len(ready) /\ DOMAIN ready' = 1 .. Len(ready) + 1
      /\ \A i \in DOMAIN ready : ready'[i] = ready[i]
      /\ ready'[Len(ready) + 1] = <<"find", new>>
  BY <1>4, AppendOf
<1>6. TypeOK'
  BY <1>3, <1>5, QueueFacts DEF IInv, TypeOK, on_find_threadsafe, client, terms
<1>7. Books'
  BY <1>2, <1>3, <1>5, QueueFacts, BoundsAreNat DEF IInv, Books, on_find_threadsafe, client, Find
<1>8. TasksOfThisSession'
  BY <1>3, <1>5, QueueFacts DEF IInv, TasksOfThisSession, on_find_threadsafe, client
<1>9. SentInItsSession'
  BY <1>2, <1>3, QueueFacts, SMTT(30) DEF IInv, SentInItsSession, Books, on_find_threadsafe
<1>10. ASSUME NEW n \in DOMAIN posted'
       PROVE  InOnePlace(n)'
  <2>1. UNCHANGED <<calls, outcome>> /\ Queued(n)' = At(ready', n)
    BY DEF on_find_threadsafe, client, Queued, At
  <2>2. CASE n = new
    <3>1. At(ready, n) = {}
      BY <1>2, <2>2, QueueFacts DEF At
    <3>2. At(ready', n) = {Len(ready) + 1} /\ Len(ready) + 1 \in DOMAIN ready'
      <4>1. <<"find", new>>[2] = n
        BY <2>2
      <4>2. At(Append(ready, <<"find", new>>), n) = {Len(ready) + 1}
        BY <1>4, <3>1, <4>1, AtAppend
      <4> QED
        BY <1>4, <1>5, <4>2, SMTT(30)
    <3>3. n \notin calls /\ outcome[n] = <<>>
      BY <1>2, <2>2 DEF IInv, TypeOK, Books
    <3> QED
      BY <2>1, <3>2, <3>3 DEF InOnePlace
  <2>3. CASE n # new
    <3>1. n \in DOMAIN posted
      BY <1>3, <2>3, QueueFacts
    <3>2. At(ready', n) = Queued(n)
      <4>1. At(Append(ready, <<"find", new>>), n) = At(ready, n)
        <5>1. ready \in Seq(Entry) /\ <<"find", new>> \in Entry /\ new # n
          BY <1>4, <2>3
        <5> HIDE DEF new
        <5> QED
          BY ONLY <5>1, AtAppend
      <4> QED
        BY <1>4, <4>1, QueueFacts
    <3>3. InOnePlace(n) /\ DOMAIN ready \subseteq DOMAIN ready'
      BY <1>5, <3>1 DEF IInv, CountedOnce
    <3> QED
      BY <2>1, <3>2, <3>3 DEF InOnePlace
  <2> QED
    BY <2>2, <2>3
<1>11. JobsNumbered' /\ BasesDrawn'
  BY KeepJobs DEF IInv, BasesDrawn, on_find_threadsafe
<1> QED
  BY <1>6, <1>7, <1>8, <1>9, <1>10, <1>11 DEF IInv, CountedOnce

(* The loop takes the first entry: its find leaves the queue, and the      *)
(* others stay where they were.                                            *)
LEMMA TakeHead ==
  ASSUME IInv, ready # <<>>
  PROVE  /\ Head(ready)[2] \in DOMAIN posted /\ Head(ready)[2] \in Find
         /\ Head(ready)[2] \notin calls /\ outcome[Head(ready)[2]] = <<>>
         /\ At(Tail(ready), Head(ready)[2]) = {}
         /\ \A m \in DOMAIN posted \ {Head(ready)[2]} :
              /\ Queued(m) = {} => At(Tail(ready), m) = {}
              /\ (\E i \in DOMAIN ready : Queued(m) = {i})
                   => \E j \in DOMAIN Tail(ready) : At(Tail(ready), m) = {j}
<1> DEFINE n == Head(ready)[2]
<1>1. ready \in Seq(Entry) /\ Head(ready) = ready[1] /\ 1 \in DOMAIN ready
  BY TailOf DEF IInv, Books
<1>2. n \in DOMAIN posted /\ n \in Find
  BY <1>1, QueueFacts
<1>3. 1 \in Queued(n)
  BY <1>1 DEF Queued
<1>4. n \notin calls /\ outcome[n] = <<>> /\ \E i \in DOMAIN ready : Queued(n) = {i}
  BY <1>2, <1>3 DEF IInv, CountedOnce, InOnePlace
<1>5. At(Tail(ready), n) = {}
  BY <1>1, <1>4, QueueFacts, AtTail
<1>6. ASSUME NEW m \in DOMAIN posted \ {n}
      PROVE  /\ Queued(m) = {} => At(Tail(ready), m) = {}
             /\ (\E i \in DOMAIN ready : Queued(m) = {i})
                  => \E j \in DOMAIN Tail(ready) : At(Tail(ready), m) = {j}
  <2>1. ready \in Seq(Entry) /\ Head(ready)[2] # m /\ Queued(m) = At(ready, m)
    BY <1>1, QueueFacts
  <2>2. /\ At(ready, m) = {} => At(Tail(ready), m) = {}
        /\ \A i \in DOMAIN ready : At(ready, m) = {i} =>
             \E j \in DOMAIN Tail(ready) : At(Tail(ready), m) = {j}
    BY <2>1, AtTail
  <2> QED
    BY <2>1, <2>2
<1> QED
  BY <1>2, <1>4, <1>5, <1>6

(* The finds that are not at the head, when the loop has run it.           *)
LEMMA OthersStay ==
  ASSUME IInv, ready # <<>>, NEW m \in DOMAIN posted \ {Head(ready)[2]},
         At(ready', m) = At(Tail(ready), m), DOMAIN Tail(ready) \subseteq DOMAIN ready',
         m \in calls' <=> m \in calls, outcome'[m] = outcome[m]
  PROVE  InOnePlace(m)'
<1>1. InOnePlace(m) /\ Queued(m)' = At(Tail(ready), m)
  BY DEF IInv, CountedOnce, Queued, At
<1> QED
  BY <1>1, TakeHead DEF InOnePlace

LEMMA FindIInv == IInv /\ on_find => IInv'
<1> SUFFICES ASSUME IInv, on_find PROVE IInv'
  OBVIOUS
<1> DEFINE n == Head(ready)[2]
           q == Tail(ready)
           x == <<"submit", n>>
<1>1. ready \in Seq(Entry) /\ ready # <<>> /\ q \in Seq(Entry) /\ DOMAIN ready = 1 .. Len(ready)
      /\ DOMAIN q = 1 .. Len(ready) - 1 /\ Len(ready) \in Nat
      /\ \A i \in DOMAIN q : i + 1 \in DOMAIN ready /\ q[i] = ready[i + 1]
  BY TailOf DEF IInv, Books, on_find
<1>2. n \in DOMAIN posted /\ n \in Find /\ n \notin calls /\ outcome[n] = <<>> /\ At(q, n) = {}
  BY <1>1, TakeHead
<1>3. x \in Entry /\ x[1] = "submit" /\ x[2] = n
  BY <1>2 DEF Entry
<1>4. UNCHANGED <<client, terms, given, posted, unanswered, notified, sent, messages>>
  BY DEF on_find
<1>5. JobsNumbered' /\ SentInItsSession' /\ BasesDrawn'
  BY <1>4, KeepJobs, KeepSent DEF IInv, BasesDrawn
<1>6. \A i \in DOMAIN q : /\ q[i] \in {"find", "submit"} \X (1 .. Len(posted))
                          /\ q[i][1] = "submit" => /\ posted[q[i][2]].session = session
                                                   /\ phase \in {"down", "in"}
  BY <1>1 DEF IInv, TypeOK, TasksOfThisSession
<1>7. CASE Wanted(posted[n])
  <2>1. ready' = Append(q, x) /\ UNCHANGED outcome
    BY <1>7 DEF on_find
  <2>2. /\ ready' \in Seq(Entry) /\ Len(q) \in Nat
        /\ DOMAIN q = 1 .. Len(q) /\ DOMAIN ready' = 1 .. Len(q) + 1
        /\ \A i \in DOMAIN q : ready'[i] = q[i]
        /\ ready'[Len(q) + 1] = x
    BY <1>1, <1>3, <2>1, AppendOf
  <2>3. x \in {"find", "submit"} \X (1 .. Len(posted))
    BY <1>2, QueueFacts
  <2>4. \A i \in DOMAIN ready' : ready'[i] \in {"find", "submit"} \X (1 .. Len(posted))
    BY <1>6, <2>2, <2>3
  <2>5. TypeOK'
    BY <1>4, <2>4 DEF IInv, TypeOK, client, terms
  <2>6. Books'
    BY <1>4, <2>1, <2>2 DEF IInv, Books, client
  <2>7. TasksOfThisSession'
    BY <1>3, <1>4, <1>6, <1>7, <2>2 DEF TasksOfThisSession, Wanted, client
  <2>8. ASSUME NEW m \in DOMAIN posted
        PROVE  InOnePlace(m)'
    <3>1. CASE m = n
      <4>1. At(ready', n) = {Len(q) + 1} /\ Len(q) + 1 \in DOMAIN ready'
        <5>1. At(Append(q, <<"submit", n>>), n) = {Len(q) + 1}
          <6>1. q \in Seq(Entry) /\ <<"submit", n>> \in Entry /\ At(q, n) = {}
            BY <1>1, <1>2, <1>3
          <6> HIDE DEF q, n, x
          <6> QED
            BY ONLY <6>1, AtAppend
        <5>2. ready' = Append(q, <<"submit", n>>)
          BY <2>1
        <5>3. Len(q) + 1 \in DOMAIN ready'
          BY <2>2
        <5> HIDE DEF q, n, x
        <5> QED
          BY ONLY <5>1, <5>2, <5>3
      <4> QED
        BY <1>2, <1>4, <2>1, <3>1, <4>1 DEF InOnePlace, Queued, At, client
    <3>2. CASE m # n
      <4>1. At(ready', m) = At(q, m)
        <5>1. At(Append(q, <<"submit", n>>), m) = At(q, m)
          <6>1. q \in Seq(Entry) /\ <<"submit", n>> \in Entry /\ n # m
            BY <1>1, <1>3, <3>2
          <6> HIDE DEF q, n, x
          <6> QED
            BY ONLY <6>1, AtAppend
        <5> QED
          BY <2>1, <5>1
      <4> QED
        BY <1>1, <1>4, <2>1, <2>2, <3>2, <4>1, OthersStay DEF client
    <3> QED
      BY <3>1, <3>2
  <2> QED
    BY <1>4, <1>5, <2>5, <2>6, <2>7, <2>8 DEF IInv, CountedOnce
<1>8. CASE ~Wanted(posted[n])
  <2>1. ready' = q /\ Settle({n}, "stale") /\ "stale" \in Outcome
    BY <1>8 DEF on_find, Outcome
  <2>2. /\ outcome' \in [Find -> Seq(Outcome)] /\ Len(outcome'[n]) = 1
        /\ \A m \in Find \ {n} : outcome'[m] = outcome[m]
    BY <1>2, <2>1, SettleOutcome DEF IInv
  <2>3. TypeOK'
    BY <1>4, <1>6, <2>1 DEF IInv, TypeOK, client, terms
  <2>4. Books'
    BY <1>1, <1>2, <1>4, <2>1, <2>2 DEF IInv, Books, client
  <2>5. TasksOfThisSession'
    BY <1>4, <1>6, <2>1 DEF TasksOfThisSession, client
  <2>6. ASSUME NEW m \in DOMAIN posted
        PROVE  InOnePlace(m)'
    <3>1. CASE m = n
      BY <1>2, <1>4, <2>1, <2>2, <3>1 DEF InOnePlace, Queued, At, client
    <3>2. CASE m # n
      BY <1>1, <1>4, <2>1, <2>2, <3>2, QueueFacts, OthersStay DEF client
    <3> QED
      BY <3>1, <3>2
  <2> QED
    BY <1>4, <1>5, <2>3, <2>4, <2>5, <2>6 DEF IInv, CountedOnce
<1> QED
  BY <1>7, <1>8

LEMMA SubmitIInv == IInv /\ submit => IInv'
<1> SUFFICES ASSUME IInv, submit PROVE IInv'
  OBVIOUS
<1> DEFINE n == Head(ready)[2]
           q == Tail(ready)
<1>1. ready \in Seq(Entry) /\ ready # <<>> /\ q \in Seq(Entry) /\ Head(ready) = ready[1]
      /\ 1 \in DOMAIN ready /\ DOMAIN ready = 1 .. Len(ready)
      /\ DOMAIN q = 1 .. Len(ready) - 1 /\ Len(ready) \in Nat
      /\ \A i \in DOMAIN q : i + 1 \in DOMAIN ready /\ q[i] = ready[i + 1]
  BY TailOf DEF IInv, Books, submit
<1>2. n \in DOMAIN posted /\ n \in Find /\ n \notin calls /\ outcome[n] = <<>> /\ At(q, n) = {}
  BY <1>1, TakeHead
<1>3. ready' = q /\ UNCHANGED <<phase, session, lost, terms, given, posted, notified, messages>>
  BY DEF submit
<1>4. JobsNumbered' /\ BasesDrawn'
  BY <1>3, KeepJobs DEF IInv, BasesDrawn
<1>5. posted[n].session = session /\ phase \in {"down", "in"}
  BY <1>1 DEF IInv, TasksOfThisSession, submit
<1>6. TasksOfThisSession' /\ \A i \in DOMAIN q : q[i] \in {"find", "submit"} \X (1 .. Len(posted))
  <2>1. \A i \in DOMAIN q : /\ q[i] \in {"find", "submit"} \X (1 .. Len(posted))
                            /\ q[i][1] = "submit" => /\ posted[q[i][2]].session = session
                                                     /\ phase \in {"down", "in"}
    BY <1>1 DEF IInv, TypeOK, TasksOfThisSession
  <2> QED
    BY <1>3, <2>1 DEF TasksOfThisSession
<1>7. CASE Listening
  <2>1. /\ calls' = calls \union {n} /\ unanswered' = unanswered \union {n}
        /\ sent' = [sent EXCEPT ![n] = <<session, phase>>] /\ UNCHANGED outcome
    BY <1>7 DEF submit
  <2>2. phase = "in" /\ session \in 1 .. MAX_SESSIONS /\ session \in Nat
    BY <1>5, <1>7, BoundsAreNat DEF Listening, IInv, TypeOK
  <2>3. sent'[n] = <<session, "in">> /\ sent'[n] # None /\ \A m \in Find \ {n} : sent'[m] = sent[m]
    BY <1>2, <2>1, <2>2, BridgeConstants DEF IInv, Books
  <2>4. TypeOK'
    BY <1>2, <1>3, <1>6, <1>7, <2>1, <2>3 DEF IInv, TypeOK, terms, Listening
  <2>5. Books'
    BY <1>1, <1>2, <1>3, <2>1, <2>2, <2>3 DEF IInv, Books
  <2>6. SentInItsSession'
    BY <1>3, <1>5, <2>3, QueueFacts DEF IInv, SentInItsSession
  <2>7. ASSUME NEW m \in DOMAIN posted
        PROVE  InOnePlace(m)'
    <3>1. CASE m = n
      BY <1>2, <1>3, <2>1, <3>1 DEF InOnePlace, Queued, At
    <3>2. CASE m # n
      BY <1>1, <1>3, <2>1, <3>2, OthersStay
    <3> QED
      BY <3>1, <3>2
  <2> QED
    BY <1>3, <1>4, <1>6, <2>4, <2>5, <2>6, <2>7 DEF IInv, CountedOnce
<1>8. CASE ~Listening
  <2>1. PICK how \in Outcome : Settle({n}, how)
    BY <1>8 DEF submit, Outcome
  <2>2. UNCHANGED <<calls, unanswered, sent>>
    BY <1>8 DEF submit
  <2>3. /\ outcome' \in [Find -> Seq(Outcome)] /\ Len(outcome'[n]) = 1
        /\ \A m \in Find \ {n} : outcome'[m] = outcome[m]
    BY <1>2, <2>1, SettleOutcome DEF IInv
  <2>4. TypeOK'
    BY <1>3, <1>6, <2>2 DEF IInv, TypeOK, terms
  <2>5. Books'
    BY <1>1, <1>2, <1>3, <2>2, <2>3 DEF IInv, Books
  <2>6. SentInItsSession'
    BY <1>3, <2>2, KeepSent DEF IInv
  <2>7. ASSUME NEW m \in DOMAIN posted
        PROVE  InOnePlace(m)'
    <3>1. CASE m = n
      BY <1>2, <1>3, <2>2, <2>3, <3>1 DEF InOnePlace, Queued, At
    <3>2. CASE m # n
      BY <1>1, <1>3, <2>2, <2>3, <3>2, QueueFacts, OthersStay
    <3> QED
      BY <3>1, <3>2
  <2> QED
    BY <1>3, <1>4, <1>6, <2>4, <2>5, <2>6, <2>7 DEF IInv, CountedOnce
<1> QED
  BY <1>7, <1>8

(* An answer and a timeout of the same call: whichever comes first counts. *)
LEMMA CallEndsIInv ==
  ASSUME IInv, Answer \/ Timeout
  PROVE  IInv'
<1>1. /\ UNCHANGED <<phase, session, lost, terms, ready, given, posted, notified, sent, messages>>
      /\ unanswered' \subseteq unanswered
  BY DEF Answer, Timeout
<1>2. PICK finds \in SUBSET calls, how \in Outcome :
        Settle(finds, how) /\ calls' = calls \ finds
  <2>1. CASE Answer
    <3>1. PICK n \in unanswered, how \in {"accepted", "rejected"} :
            calls' = calls \ {n} /\ Settle({n} \intersect calls, how)
      BY <2>1 DEF Answer
    <3>2. how \in Outcome /\ {n} \intersect calls \in SUBSET calls
          /\ calls \ {n} = calls \ ({n} \intersect calls)
      BY DEF Outcome
    <3> QED
      BY <3>1, <3>2
  <2>2. CASE Timeout
    <3>1. PICK n \in calls : calls' = calls \ {n} /\ Settle({n}, "rejected")
      BY <2>2 DEF Timeout
    <3> QED
      BY <3>1 DEF Outcome
  <2> QED
    BY <2>1, <2>2
<1>3. /\ outcome' \in [Find -> Seq(Outcome)] /\ CountedOnce'
      /\ \A n \in Find : n \notin DOMAIN posted => outcome'[n] = <<>>
  BY <1>1, <1>2, CallsEnd
<1>4. TypeOK' /\ TasksOfThisSession' /\ BasesDrawn'
  BY <1>1, <1>2 DEF IInv, TypeOK, TasksOfThisSession, BasesDrawn, terms
<1>5. Books'
  BY <1>1, <1>3 DEF IInv, Books
<1>6. JobsNumbered' /\ SentInItsSession'
  BY <1>1, KeepJobs, KeepSent DEF IInv
<1> QED
  BY <1>3, <1>4, <1>5, <1>6 DEF IInv

LEMMA StutterIInv == IInv /\ UNCHANGED vars => IInv'
<1> SUFFICES ASSUME IInv, UNCHANGED vars PROVE IInv'
  OBVIOUS
<1> USE DEF vars, client, terms
<1>1. TypeOK' /\ TasksOfThisSession' /\ BasesDrawn'
  BY DEF IInv, TypeOK, TasksOfThisSession, BasesDrawn
<1>2. Books' /\ JobsNumbered' /\ SentInItsSession' /\ CountedOnce'
  BY KeepJobs, KeepFinds, KeepSent, KeepBooks DEF IInv, Books
<1> QED
  BY <1>1, <1>2 DEF IInv

LEMMA StepIInv == IInv /\ [Next]_vars => IInv'
<1> SUFFICES ASSUME IInv, [Next]_vars PROVE IInv'
  OBVIOUS
<1>1. CASE Connect
  BY <1>1, ConnectIInv
<1>2. CASE ConnectFails
  BY <1>2, StutterIInv DEF ConnectFails
<1>3. CASE Subscribe \/ Authorize \/ Lose
  BY <1>3, LoginIInv
<1>4. CASE Close
  BY <1>4, CloseIInv
<1>5. CASE on_job
  BY <1>5, JobIInv
<1>6. CASE on_target \/ on_extranonce
  BY <1>6, TermsIInv
<1>7. CASE on_find_threadsafe
  BY <1>7, PostIInv
<1>8. CASE on_find
  BY <1>8, FindIInv
<1>9. CASE submit
  BY <1>9, SubmitIInv
<1>10. CASE Answer \/ Timeout
  BY <1>10, CallEndsIInv
<1>11. CASE UNCHANGED vars
  BY <1>11, StutterIInv
<1> QED
  BY <1>1, <1>2, <1>3, <1>4, <1>5, <1>6, <1>7, <1>8, <1>9, <1>10, <1>11 DEF Next

LEMMA Inductive == Spec => []IInv
<1> QED
  BY InitIInv, StepIInv, PTL DEF Spec

-----------------------------------------------------------------------------

(* The loop's state keeps its types, through any number of sessions        *)
(* (stratum.py:109-125, pool_bridge.py:186-196).                           *)
THEOREM TypeCorrect == Spec => []TypeOK
<1>1. IInv => TypeOK
  BY DEF IInv
<1> QED
  BY <1>1, Inductive, PTL

(* No share goes out on another session's connection, or before its login  *)
(* (pool_bridge.py:224-231, stratum.py:140-190).                           *)
THEOREM NoShareCrossesSessions == Spec => []SentInItsSession
<1>1. IInv => SentInItsSession
  BY DEF IInv
<1> QED
  BY <1>1, Inductive, PTL

(* No find is lost on its way, and none is counted twice                   *)
(* (pool_bridge.py:224-243, stratum.py:140-144, 167-190).                  *)
THEOREM EveryFindInOnePlace == Spec => []CountedOnce
<1>1. IInv => CountedOnce
  BY DEF IInv
<1> QED
  BY <1>1, Inductive, PTL

(* Every work made, of whatever prefix and base drawn under it, has room   *)
(* for its first ROOM nonces (stratum.py:67-88, pool_bridge.py:208-218).   *)
THEOREM EveryWorkHasRoom == Spec => []WorksHaveRoom
<1>1. IInv => WorksHaveRoom
  <2> SUFFICES ASSUME IInv, NEW w \in given, NEW i \in 0 .. ROOM - 1
               PROVE  has_prefix(Counted(w.nonce_base, i), w.prefix)
    BY DEF WorksHaveRoom
  <2>1. w.prefix \in Extranonces /\ w.nonce_base \in nonce_bases(w.prefix)
    BY DEF IInv, TypeOK, BasesDrawn, WorkRecord
  <2> QED
    BY <2>1, RoomUnderEveryPrefix DEF RoomUnderPrefix
<1> QED
  BY <1>1, Inductive, PTL

=============================================================================
