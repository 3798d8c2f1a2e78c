---------------------------- MODULE CshakeProofs ----------------------------
(***************************************************************************)
(* Both builds of the cSHAKE core are the delay line that core counts on,  *)
(* for any number of rounds, of round circuits and of register layers; in  *)
(* the folded one, counter, valid bits and state stay in step.             *)
(***************************************************************************)
EXTENDS CshakeFolded, SequenceTheorems, TLAPS

VARIABLES u_valid_sr, u_pr0, u_pr1, u_kstate

U == INSTANCE CshakeUnfolded
       WITH valid_sr <- u_valid_sr, pr0 <- u_pr0, pr1 <- u_pr1, kstate <- u_kstate

-----------------------------------------------------------------------------
(* Rounds of a permutation, taken n at a time.                             *)

Round == 0 .. NUM_ROUNDS - 1

(* The first n rounds, and n rounds from k * n on.                         *)
FirstRounds(n) == [r \in 1 .. n |-> r - 1]
RoundsFrom(k, n) == [r \in 1 .. n |-> k * n + r - 1]

(* NUM_ROUNDS is a number of times n, exactly.                             *)
LEMMA WholeTimes ==
  LET times == NUM_ROUNDS \div STAGES
  IN  /\ STAGES \in Nat \ {0} /\ NUM_ROUNDS \in Nat \ {0}
      /\ times \in Nat \ {0} /\ NUM_ROUNDS = times * STAGES /\ NUM_ROUNDS = STAGES * times
<1> DEFINE times == NUM_ROUNDS \div STAGES
<1>1. NUM_ROUNDS = STAGES * times + (NUM_ROUNDS % STAGES)
  BY CshakeConstants, SMT
<1>2. times \in Nat /\ NUM_ROUNDS = STAGES * times
  BY <1>1, CshakeConstants, SMT
<1>3. STAGES * times = times * STAGES /\ times # 0
  BY <1>2, CshakeConstants, SMT
<1> QED
  BY <1>2, <1>3, CshakeConstants

LEMMA RoundsAreRounds ==
  ASSUME NEW n \in Nat \ {0}, NEW times \in Nat \ {0}, NUM_ROUNDS = times * n,
         NEW k \in 0 .. times - 1
  PROVE  /\ RoundsFrom(k, n) \in Seq(Round) /\ Len(RoundsFrom(k, n)) = n
         /\ \A r \in 1 .. n : RoundsFrom(k, n)[r] = k * n + r - 1
         /\ k * n \in Nat /\ k * n + n <= NUM_ROUNDS /\ (k + 1) * n = k * n + n
<1>1. (times - 1 - k) * n >= 0
  BY SMT
<1>2. /\ (times - 1 - k) * n = NUM_ROUNDS - n - k * n /\ k * n \in Nat /\ NUM_ROUNDS \in Nat
      /\ (k + 1) * n = k * n + n
  BY SMT
<1>3. k * n + n <= NUM_ROUNDS
  BY <1>1, <1>2
<1>4. \A r \in 1 .. n : k * n + r - 1 \in Round
  BY <1>2, <1>3 DEF Round
<1>5. RoundsFrom(k, n) \in [1 .. n -> Round] /\ DOMAIN RoundsFrom(k, n) = 1 .. n
  BY <1>4 DEF RoundsFrom
<1>6. RoundsFrom(k, n) \in Seq(Round)
  BY <1>5
<1>7. Len(RoundsFrom(k, n)) = n
  BY <1>5, <1>6, LenProperties
<1>8. \A r \in 1 .. n : RoundsFrom(k, n)[r] = k * n + r - 1
  BY DEF RoundsFrom
<1> QED
  BY <1>2, <1>3, <1>6, <1>7, <1>8

LEMMA FirstRoundsSeq ==
  ASSUME NEW n \in 0 .. NUM_ROUNDS
  PROVE  FirstRounds(n) \in Seq(Round) /\ Len(FirstRounds(n)) = n
BY CshakeConstants DEF FirstRounds, Round

LEMMA NoRounds == FirstRounds(0) = <<>>
<1>1. FirstRounds(0) \in Seq(Round) /\ Len(FirstRounds(0)) = 0
  BY FirstRoundsSeq, CshakeConstants
<1> QED
  BY <1>1

(* n rounds more, and the rounds are the first ones again.                 *)
LEMMA FirstAndNext ==
  ASSUME NEW n \in Nat \ {0}, NEW times \in Nat \ {0}, NUM_ROUNDS = times * n,
         NEW k \in 0 .. times - 1
  PROVE  FirstRounds(k * n) \o RoundsFrom(k, n) = FirstRounds((k + 1) * n)
<1> DEFINE s == FirstRounds(k * n)
           p == RoundsFrom(k, n)
           t == FirstRounds(k * n + n)
<1>1. (k + 1) * n = k * n + n /\ k * n \in Nat /\ k * n + n <= NUM_ROUNDS /\ NUM_ROUNDS \in Nat
  BY RoundsAreRounds, CshakeConstants
<1>2. /\ s \in Seq(Round) /\ Len(s) = k * n /\ t \in Seq(Round) /\ Len(t) = k * n + n
  BY <1>1, FirstRoundsSeq
<1>3. p \in Seq(Round) /\ Len(p) = n /\ \A r \in 1 .. n : p[r] = k * n + r - 1
  BY RoundsAreRounds
<1>4. /\ s \o p \in Seq(Round) /\ Len(s \o p) = k * n + n
      /\ \A i \in 1 .. k * n + n : (s \o p)[i] = IF i <= k * n THEN s[i] ELSE p[i - k * n]
  BY <1>1, <1>2, <1>3, ConcatProperties
<1>5. ASSUME NEW i \in 1 .. k * n + n
      PROVE  (s \o p)[i] = t[i]
  <2>1. t[i] = i - 1
    BY <1>1 DEF FirstRounds
  <2>2. CASE i <= k * n
    BY <1>1, <1>4, <2>1, <2>2 DEF FirstRounds
  <2>3. CASE i > k * n
    <3>1. i - k * n \in 1 .. n
      BY <1>1, <2>3
    <3>2. (s \o p)[i] = p[i - k * n] /\ p[i - k * n] = k * n + (i - k * n) - 1
      BY <1>1, <1>3, <1>4, <2>3, <3>1, SMTT(30)
    <3>3. k * n + (i - k * n) - 1 = i - 1
      BY <1>1
    <3> QED
      BY <2>1, <3>2, <3>3
  <2>4. i <= k * n \/ i > k * n
    BY <1>1
  <2> QED
    BY <2>2, <2>3, <2>4
<1>6. s \o p = t
  BY <1>2, <1>4, <1>5, SeqEqual
<1> QED
  BY <1>1, <1>6

LEMMA AfterIsSponge ==
  ASSUME NEW st \in Sponge, NEW rounds \in Seq(Round)
  PROVE  /\ AfterRounds(st, rounds) \in Sponge /\ AfterRounds(st, rounds).msg = st.msg
         /\ AfterRounds(st, rounds).rounds = st.rounds \o rounds
<1>1. st.rounds \in Seq(Round)
  BY DEF Sponge, Round
<1>2. st.rounds \o rounds \in Seq(Round)
  BY <1>1, ConcatProperties
<1> QED
  BY <1>2 DEF AfterRounds, Sponge, Round

LEMMA AbsorbIsSponge ==
  ASSUME NEW msg \in Msg
  PROVE  Absorb(msg) \in Sponge /\ Absorb(msg).msg = msg /\ Absorb(msg).rounds = <<>>
BY EmptySeq DEF Absorb, Sponge

-----------------------------------------------------------------------------
(* The folded build.                                                       *)

(* The state behind the valid bit has been through a pass per place.       *)
PassesMade == \A i \in 3 .. LAT : valid_sr[i] => fold_state.rounds = FirstRounds((i - 2) * STAGES)

IInv == TypeOK /\ FoldInStep /\ PassesMade

-----------------------------------------------------------------------------
(* Rounds and passes.                                                      *)

LEMMA Sizes ==
  /\ STAGES \in Nat \ {0} /\ NUM_ROUNDS \in Nat \ {0}
  /\ FOLD_ITERS \in Nat \ {0} /\ NUM_ROUNDS = FOLD_ITERS * STAGES
  /\ LAT = FOLD_ITERS + 2
BY WholeTimes DEF FOLD_ITERS, LAT

LEMMA Length ==
  FOLD_ITERS \in Nat \ {0} /\ LAT \in Nat /\ LAT = FOLD_ITERS + 2
BY Sizes

LEMMA PassIsSponge ==
  ASSUME NEW st \in Sponge, NEW k \in 0 .. FOLD_ITERS - 1
  PROVE  /\ Pass(st, k) \in Sponge /\ Pass(st, k).msg = st.msg
         /\ Pass(st, k).rounds = st.rounds \o RoundsOfPass(k)
<1>1. RoundsOfPass(k) = RoundsFrom(k, STAGES)
  BY DEF RoundsOfPass, RoundsFrom
<1>2. RoundsOfPass(k) \in Seq(Round)
  BY <1>1, Sizes, RoundsAreRounds
<1> QED
  BY <1>2, AfterIsSponge DEF Pass

LEMMA PassAfterFirst ==
  ASSUME NEW k \in 0 .. FOLD_ITERS - 1
  PROVE  FirstRounds(k * STAGES) \o RoundsOfPass(k) = FirstRounds((k + 1) * STAGES)
<1>1. RoundsOfPass(k) = RoundsFrom(k, STAGES)
  BY DEF RoundsOfPass, RoundsFrom
<1> QED
  BY <1>1, Sizes, FirstAndNext

-----------------------------------------------------------------------------
(* The registers in step.                                                  *)

LEMMA InitIInv == Init => IInv
<1> SUFFICES ASSUME Init PROVE IInv
  OBVIOUS
<1>1. TypeOK
  <2>1. valid_sr \in [1 .. LAT -> BOOLEAN]
    BY DEF Init
  <2>3. iter \in 0 .. FOLD_ITERS - 1
    BY Length DEF Init
  <2>4. fold_active \in BOOLEAN
    BY DEF Init
  <2>2. pr0 \in Msg /\ pr1 = Absorb(pr0) /\ fold_state \in Sponge
    BY AbsorbIsSponge DEF Init
  <2> QED
    BY <2>1, <2>2, <2>3, <2>4 DEF TypeOK
<1>2. FoldInStep /\ PassesMade
  BY Sizes DEF Init, FoldInStep, PassesMade
<1> QED
  BY <1>1, <1>2 DEF IInv

(* The valid bits move on by one; a new one enters only an empty fold.     *)
LEMMA ValidMoves ==
  ASSUME IInv, NEW data_in \in Msg, NEW valid_in \in BOOLEAN, Clock(data_in, valid_in)
  PROVE  /\ valid_sr' \in [1 .. LAT -> BOOLEAN]
         /\ valid_sr'[1] = (valid_in /\ ~busy)
         /\ \A i \in 2 .. LAT : valid_sr'[i] = valid_sr[i - 1]
         /\ busy <=> \E i \in 1 .. LAT - 1 : valid_sr[i]
<1>1. busy \in BOOLEAN
  BY Sizes DEF IInv, TypeOK, busy
<1>2. valid_sr' = [i \in 1 .. LAT |-> IF i = 1 THEN valid_in /\ ~busy ELSE valid_sr[i - 1]]
  BY DEF Clock, Stages
<1>3. valid_sr' \in [1 .. LAT -> BOOLEAN]
  <2>1. \A i \in 1 .. LAT : i = 1 \/ i - 1 \in 1 .. LAT
    BY Sizes
  <2> QED
    BY <1>1, <1>2, <2>1 DEF IInv, TypeOK
<1>4. valid_sr'[1] = (valid_in /\ ~busy) /\ \A i \in 2 .. LAT : valid_sr'[i] = valid_sr[i - 1]
  BY <1>2, Sizes
<1>5. busy <=> \E i \in 1 .. LAT - 1 : valid_sr[i]
  BY Sizes DEF IInv, FoldInStep, busy
<1> QED
  BY <1>3, <1>4, <1>5

LEMMA ClockTypeOK ==
  ASSUME IInv, NEW data_in \in Msg, NEW valid_in \in BOOLEAN, Clock(data_in, valid_in)
  PROVE  TypeOK'
<1>1. valid_sr' \in [1 .. LAT -> BOOLEAN]
  BY ValidMoves
<1>2. pr0' \in Msg /\ pr1' \in {Absorb(msg) : msg \in Msg}
  BY DEF IInv, TypeOK, Clock, Stages
<1>3. iter' \in 0 .. FOLD_ITERS - 1 /\ fold_active' \in BOOLEAN
  <2>1. iter \in 0 .. FOLD_ITERS - 1 /\ fold_active \in BOOLEAN /\ valid_sr[1] \in BOOLEAN /\ Iterate
    BY Length DEF IInv, TypeOK, Clock
  <2>2. CASE valid_sr[1]
    BY <2>1, <2>2, Length DEF Iterate
  <2>3. CASE ~valid_sr[1] /\ ~fold_active
    BY <2>1, <2>3 DEF Iterate
  <2>4. CASE ~valid_sr[1] /\ fold_active /\ iter = FOLD_ITERS - 1
    <3>1. iter' = 0 /\ fold_active' = FALSE
      BY <2>1, <2>4 DEF Iterate
    <3>2. iter' \in 0 .. FOLD_ITERS - 1
      BY <3>1, Length
    <3> QED
      BY <3>1, <3>2
  <2>5. CASE ~valid_sr[1] /\ fold_active /\ iter # FOLD_ITERS - 1
    <3>1. iter' = iter + 1 /\ fold_active' = fold_active
      BY <2>1, <2>5 DEF Iterate
    <3> QED
      BY <2>1, <2>5, <3>1, Length
  <2> QED
    BY <2>1, <2>2, <2>3, <2>4, <2>5
<1>4. fold_state' \in Sponge
  <2>1. pr1 \in Sponge /\ fold_state \in Sponge /\ iter \in 0 .. FOLD_ITERS - 1
    BY AbsorbIsSponge DEF IInv, TypeOK
  <2> QED
    BY <2>1, PassIsSponge DEF Clock, Fold
<1> QED
  BY <1>1, <1>2, <1>3, <1>4 DEF TypeOK

LEMMA ClockInStep ==
  ASSUME IInv, NEW data_in \in Msg, NEW valid_in \in BOOLEAN, Clock(data_in, valid_in)
  PROVE  FoldInStep'
<1> USE Length
<1>1. \A i, j \in 1 .. LAT : valid_sr'[i] /\ valid_sr'[j] => i = j
  <2> SUFFICES ASSUME NEW i \in 1 .. LAT, NEW j \in 1 .. LAT, valid_sr'[i], valid_sr'[j]
               PROVE  i = j
    OBVIOUS
  <2>1. \A k \in 2 .. LAT : valid_sr'[k] => k - 1 \in 1 .. LAT - 1 /\ valid_sr[k - 1]
    BY ValidMoves
  <2>2. valid_sr'[1] => \A k \in 1 .. LAT - 1 : ~valid_sr[k]
    BY ValidMoves
  <2>3. CASE i \in 2 .. LAT /\ j \in 2 .. LAT
    <3>1. i - 1 \in 1 .. LAT /\ j - 1 \in 1 .. LAT /\ valid_sr[i - 1] /\ valid_sr[j - 1]
      BY <2>1, <2>3
    <3>2. i - 1 = j - 1
      BY <3>1 DEF IInv, FoldInStep
    <3> QED
      BY <3>2
  <2>4. CASE i = 1 \/ j = 1
    BY <2>1, <2>2, <2>4
  <2> QED
    BY <2>3, <2>4
<1>2. /\ fold_active' <=> \E i \in 2 .. LAT - 1 : valid_sr'[i]
      /\ \A i \in 2 .. LAT - 1 : valid_sr'[i] => iter' = i - 2
  <2>1. CASE valid_sr[1]
    <3>1. fold_active' /\ iter' = 0
      BY <2>1 DEF Clock, Iterate
    <3>2. valid_sr'[2]
      BY <2>1, ValidMoves
    <3>3. \A i \in 2 .. LAT - 1 : valid_sr'[i] => i = 2
      BY <1>1, <3>2
    <3> QED
      BY <3>1, <3>2, <3>3
  <2>2. CASE ~valid_sr[1] /\ ~fold_active
    <3>1. ~fold_active'
      BY <2>2 DEF Clock, Iterate
    <3>2. \A i \in 2 .. LAT - 1 : ~valid_sr'[i]
      <4> SUFFICES ASSUME NEW i \in 2 .. LAT - 1, valid_sr'[i] PROVE FALSE
        OBVIOUS
      <4>1. valid_sr[i - 1] /\ (i = 2 \/ i - 1 \in 2 .. LAT - 1)
        BY ValidMoves
      <4> QED
        BY <2>2, <4>1 DEF IInv, FoldInStep
    <3> QED
      BY <3>1, <3>2
  <2>3. CASE ~valid_sr[1] /\ fold_active
    <3>1. PICK k \in 2 .. LAT - 1 : valid_sr[k] /\ iter = k - 2
      BY <2>3 DEF IInv, FoldInStep
    <3>2. valid_sr'[k + 1]
      BY <3>1, ValidMoves
    <3>3. \A i \in 1 .. LAT : valid_sr'[i] => i = k + 1
      BY <1>1, <3>1, <3>2
    <3>4. CASE iter = FOLD_ITERS - 1
      <4>1. ~fold_active' /\ k + 1 = LAT
        <5>1. Iterate
          BY DEF Clock
        <5>2. ~fold_active'
          BY <2>3, <3>4, <5>1 DEF Iterate
        <5>3. k + 1 = LAT
          BY <3>1, <3>4
        <5> QED
          BY <5>2, <5>3
      <4> QED
        BY <3>3, <4>1
    <3>5. CASE iter # FOLD_ITERS - 1
      <4>1. fold_active' /\ iter' = k - 1 /\ k + 1 \in 2 .. LAT - 1
        <5>1. Iterate
          BY DEF Clock
        <5>2. fold_active' /\ iter' = iter + 1
          BY <2>3, <3>5, <5>1 DEF Iterate
        <5> QED
          BY <3>1, <3>5, <5>2
      <4> QED
        BY <3>1, <3>2, <3>3, <4>1
    <3> QED
      BY <3>4, <3>5
  <2> QED
    BY <2>1, <2>2, <2>3 DEF IInv, TypeOK
<1> QED
  BY <1>1, <1>2 DEF FoldInStep

(* A message in the fold goes through the pass of its place, and stays the *)
(* same message.                                                           *)
LEMMA FoldPasses ==
  ASSUME IInv, NEW data_in \in Msg, NEW valid_in \in BOOLEAN, Clock(data_in, valid_in),
         NEW i \in 2 .. LAT - 1, valid_sr[i]
  PROVE  /\ fold_state'.rounds = FirstRounds((i - 1) * STAGES)
         /\ fold_state'.msg = IF i = 2 THEN pr1.msg ELSE fold_state.msg
         /\ fold_state' \in Sponge
<1> USE Sizes
<1>1. /\ fold_active /\ iter = i - 2 /\ iter \in 0 .. FOLD_ITERS - 1
      /\ valid_sr[2] <=> i = 2
  BY DEF IInv, FoldInStep, TypeOK
<1> DEFINE st == IF i = 2 THEN pr1 ELSE fold_state
<1>2. st \in Sponge /\ fold_state' = Pass(st, iter)
  <2>1. fold_state' = Pass(st, iter)
    BY <1>1 DEF Clock, Fold
  <2>2. pr1 \in Sponge /\ fold_state \in Sponge
    BY AbsorbIsSponge DEF IInv, TypeOK
  <2> QED
    BY <2>1, <2>2
<1>3. st.rounds = FirstRounds(iter * STAGES)
  <2>1. CASE i = 2
    <3>1. st.rounds = <<>>
      BY <2>1, AbsorbIsSponge DEF IInv, TypeOK
    <3>2. iter * STAGES = 0
      BY <1>1, <2>1
    <3> QED
      BY <3>1, <3>2, NoRounds
  <2>2. CASE i # 2
    BY <1>1, <2>2 DEF IInv, PassesMade
  <2> QED
    BY <2>1, <2>2
<1>4. fold_state'.rounds = FirstRounds((iter + 1) * STAGES)
  <2> HIDE DEF st
  <2>1. fold_state'.rounds = st.rounds \o RoundsOfPass(iter)
    BY <1>1, <1>2, PassIsSponge
  <2> QED
    BY <1>1, <1>3, <2>1, PassAfterFirst
<1>5. iter + 1 = i - 1
  BY <1>1
<1>6. fold_state'.rounds = FirstRounds((i - 1) * STAGES)
  BY <1>4, <1>5
<1>7. fold_state' \in Sponge /\ fold_state'.msg = st.msg
  BY <1>1, <1>2, PassIsSponge
<1> QED
  BY <1>6, <1>7

LEMMA ClockIInv ==
  ASSUME IInv, NEW data_in \in Msg, NEW valid_in \in BOOLEAN, Clock(data_in, valid_in)
  PROVE  IInv'
<1>1. ASSUME NEW i \in 3 .. LAT, valid_sr'[i]
      PROVE  fold_state'.rounds = FirstRounds((i - 2) * STAGES)
  <2>1. i - 1 \in 2 .. LAT - 1 /\ valid_sr[i - 1] /\ (i - 1) - 1 = i - 2
    BY <1>1, Sizes, ValidMoves
  <2> QED
    BY <2>1, FoldPasses
<1>2. PassesMade'
  BY <1>1, Sizes DEF PassesMade
<1> QED
  BY <1>2, ClockTypeOK, ClockInStep DEF IInv

LEMMA ResetIInv ==
  ASSUME IInv, NEW data_in \in Msg, Reset(data_in)
  PROVE  IInv'
<1>1. TypeOK'
  <2>1. valid_sr' \in [1 .. LAT -> BOOLEAN]
    BY DEF Reset
  <2>3. iter' \in 0 .. FOLD_ITERS - 1
    BY Length DEF Reset
  <2>4. fold_active' \in BOOLEAN
    BY DEF Reset
  <2>2. pr0' \in Msg /\ pr1' = Absorb(pr0) /\ pr0 \in Msg /\ fold_state' \in Sponge
    BY DEF IInv, TypeOK, Reset
  <2> QED
    BY <2>1, <2>2, <2>3, <2>4 DEF TypeOK
<1>2. FoldInStep' /\ PassesMade'
  BY Sizes DEF FoldInStep, PassesMade, Reset
<1> QED
  BY <1>1, <1>2 DEF IInv

LEMMA StepIInv == IInv /\ [Next]_vars => IInv'
<1> SUFFICES ASSUME IInv, [Next]_vars PROVE IInv'
  OBVIOUS
<1>1. CASE Next
  BY <1>1, ClockIInv, ResetIInv DEF Next
<1>2. CASE UNCHANGED vars
  BY <1>2 DEF vars, IInv, TypeOK, FoldInStep, PassesMade
<1> QED
  BY <1>1, <1>2

LEMMA Inductive == Spec => []IInv
<1> QED
  BY InitIInv, StepIInv, PTL DEF Spec

(* The registers keep their types, the state never taking more rounds than *)
(* there are constants (cshake256_core.sv:64-70, 236-308).                 *)
THEOREM TypeCorrect == Spec => []TypeOK
<1>1. IInv => TypeOK
  BY DEF IInv
<1> QED
  BY <1>1, Inductive, PTL

(* Counter, active flag and valid bits, which no logic compares, agree     *)
(* (cshake256_core.sv:230-308).                                            *)
THEOREM FoldStaysInStep == Spec => []FoldInStep
<1>1. IInv => FoldInStep
  BY DEF IInv
<1> QED
  BY <1>1, Inductive, PTL

-----------------------------------------------------------------------------
(* The core is a delay line.                                               *)

LEMMA Items ==
  ASSUME TypeOK, NEW i \in 1 .. LAT
  PROVE  /\ valid_sr[i] => ItemAt(i) \in Msg /\ ItemAt(i) # None
         /\ ~valid_sr[i] => ItemAt(i) = None
<1>1. pr0 \in Msg /\ pr1.msg \in Msg /\ fold_state.msg \in Msg
  BY AbsorbIsSponge DEF TypeOK, Sponge
<1>2. None \notin Msg
  BY CshakeConstants
<1> QED
  BY <1>1, <1>2 DEF ItemAt

LEMMA BusyIsBusy == IInv => (busy <=> Delay!Busy)
<1> SUFFICES ASSUME IInv PROVE busy <=> Delay!Busy
  OBVIOUS
<1>1. busy <=> \E i \in 1 .. LAT - 1 : valid_sr[i]
  BY Length DEF IInv, FoldInStep, busy
<1>2. \A i \in 1 .. LAT - 1 : i \in 1 .. LAT /\ (valid_sr[i] <=> ItemAt(i) # None)
  BY Items, Length DEF IInv
<1>3. Delay!Busy <=> \E i \in 1 .. LAT - 1 : ItemAt(i) # None
  BY <1>2 DEF Delay!Busy
<1> QED
  BY <1>1, <1>2, <1>3

LEMMA ItemsMove ==
  ASSUME IInv, NEW data_in \in Msg, NEW valid_in \in BOOLEAN, Clock(data_in, valid_in),
         NEW i \in 1 .. LAT
  PROVE  ItemAt(i)' = IF i > 1 THEN ItemAt(i - 1)
                      ELSE IF busy THEN None ELSE IF valid_in THEN data_in ELSE None
<1>1. pr0' = data_in /\ pr1' = Absorb(pr0)
  BY DEF Clock, Stages
<1>2. valid_sr'[1] = (valid_in /\ ~busy) /\ \A k \in 2 .. LAT : valid_sr'[k] = valid_sr[k - 1]
  BY ValidMoves
<1>3. CASE i = 1
  <2>1. ItemAt(1)' = IF ~valid_sr'[1] THEN None ELSE pr0'
    BY DEF ItemAt
  <2>2. ItemAt(1)' = IF busy THEN None ELSE IF valid_in THEN data_in ELSE None
    BY <1>1, <1>2, <2>1
  <2>3. ~(i > 1)
    BY <1>3
  <2> QED
    BY <1>3, <2>2, <2>3
<1>4. CASE i = 2
  <2>1. ItemAt(2)' = IF ~valid_sr'[2] THEN None ELSE pr1'.msg
    BY DEF ItemAt
  <2>2. valid_sr'[2] = valid_sr[1] /\ pr1'.msg = pr0
    BY <1>1, <1>2, Length, AbsorbIsSponge DEF IInv, TypeOK
  <2>3. ItemAt(1) = IF ~valid_sr[1] THEN None ELSE pr0
    BY DEF ItemAt
  <2> QED
    BY <1>4, <2>1, <2>2, <2>3
<1>5. CASE i \in 3 .. LAT
  <2>1. i > 1 /\ i # 1 /\ i # 2 /\ i - 1 \in 2 .. LAT - 1 /\ i - 1 # 1 /\ (i - 1 = 2 <=> i = 3)
    BY <1>5, Length
  <2>2. ItemAt(i)' = IF ~valid_sr'[i] THEN None ELSE fold_state'.msg
    BY <2>1 DEF ItemAt
  <2>3. ItemAt(i - 1) = IF ~valid_sr[i - 1] THEN None
                        ELSE IF i - 1 = 2 THEN pr1.msg ELSE fold_state.msg
    BY <2>1 DEF ItemAt
  <2>4. valid_sr'[i] = valid_sr[i - 1]
    BY <1>2, <1>5, Length
  <2>5. valid_sr[i - 1] => fold_state'.msg = IF i - 1 = 2 THEN pr1.msg ELSE fold_state.msg
    BY <2>1, FoldPasses
  <2> QED
    BY <2>1, <2>2, <2>3, <2>4, <2>5
<1> QED
  BY <1>3, <1>4, <1>5, Length

(* What leaves has been through every round once and in order.             *)
LEMMA LeavesHashed ==
  ASSUME IInv, NEW data_in \in Msg, NEW valid_in \in BOOLEAN, Clock(data_in, valid_in)
  PROVE  (IF valid_out THEN fold_state ELSE None)' = Delay!Leave(ItemAt(LAT - 1))
<1> DEFINE last == LAT - 1
<1>1. last \in 2 .. LAT - 1 /\ last \in 1 .. LAT /\ LAT \in 2 .. LAT /\ LAT \in 1 .. LAT
  BY Length
<1>2. valid_sr'[LAT] = valid_sr[last]
  BY <1>1, ValidMoves
<1>3. CASE ~valid_sr[last]
  <2>1. ItemAt(last) = None
    BY <1>1, <1>3, Items DEF IInv
  <2> QED
    BY <1>2, <1>3, <2>1 DEF valid_out, Delay!Leave
<1>4. CASE valid_sr[last]
  <2>1. ItemAt(last) # None
    BY <1>1, <1>4, Items DEF IInv
  <2>2. /\ fold_state' \in Sponge
        /\ fold_state'.rounds = FirstRounds((last - 1) * STAGES)
        /\ fold_state'.msg = IF last = 2 THEN pr1.msg ELSE fold_state.msg
    BY <1>1, <1>4, FoldPasses
  <2>3. (last - 1) * STAGES = NUM_ROUNDS
    <3>1. last - 1 = FOLD_ITERS
      BY Length
    <3> QED
      BY <3>1, Sizes
  <2>4. fold_state'.msg = ItemAt(last)
    BY <1>1, <1>4, <2>2 DEF ItemAt
  <2>5. fold_state' = [msg |-> ItemAt(last), rounds |-> FirstRounds(NUM_ROUNDS)]
    <3>1. fold_state'.rounds = FirstRounds(NUM_ROUNDS)
      BY <2>2, <2>3
    <3> QED
      BY <2>2, <2>4, <3>1 DEF Sponge
  <2> QED
    BY <1>2, <1>4, <2>1, <2>5 DEF valid_out, Delay!Leave, Delay!Hashed, FirstRounds
<1> QED
  BY <1>3, <1>4

LEMMA ClockIsTick ==
  ASSUME IInv, NEW data_in \in Msg, NEW valid_in \in BOOLEAN, Clock(data_in, valid_in)
  PROVE  Delay!Next
<1> DEFINE in == IF valid_in THEN data_in ELSE None
           line == [i \in 1 .. LAT |-> ItemAt(i)]
<1>1. \A i \in 1 .. LAT : ItemAt(i)' = IF i > 1 THEN line[i - 1] ELSE IF Delay!Busy THEN None ELSE in
  <2> TAKE i \in 1 .. LAT
  <2>1. i > 1 => i - 1 \in 1 .. LAT
    BY Length
  <2>2. i > 1 => line[i - 1] = ItemAt(i - 1)
    BY <2>1
  <2>3. busy <=> Delay!Busy
    BY BusyIsBusy
  <2> QED
    BY <2>2, <2>3, ItemsMove
<1>2. line' = [i \in 1 .. LAT |-> IF i > 1 THEN line[i - 1] ELSE IF Delay!Busy THEN None ELSE in]
  BY <1>1
<1>3. line[LAT - 1] = ItemAt(LAT - 1)
  BY Length
<1>4. (IF valid_out THEN fold_state ELSE None)' = Delay!Leave(line[LAT - 1])
  BY <1>3, LeavesHashed
<1>5. Delay!Tick(in)
  BY <1>2, <1>4 DEF Delay!Tick
<1>6. in \in Msg \union {None}
  OBVIOUS
<1> QED
  BY <1>5, <1>6 DEF Delay!Next

LEMMA ResetIsReset ==
  ASSUME IInv, NEW data_in \in Msg, Reset(data_in)
  PROVE  Delay!Next
<1>1. \A i \in 1 .. LAT : ~valid_sr'[i]
  BY DEF Reset
<1>2. \A i \in 1 .. LAT : ItemAt(i)' = None
  BY <1>1 DEF ItemAt
<1>3. (IF valid_out THEN fold_state ELSE None)' = None
  BY <1>1, Length DEF valid_out
<1>4. Delay!Reset
  BY <1>2, <1>3 DEF Delay!Reset
<1> QED
  BY <1>4 DEF Delay!Next

(* The folded core implements the delay line: every item it takes comes    *)
(* out after LAT cycles, once, itself and fully hashed, and none that it   *)
(* was offered while busy (cshake256_core.sv:230-308, core.sv:153-177).    *)
THEOREM FoldedCoreIsDelayLine == Spec => ImplementsLine
<1>1. Init => Delay!Init
  <2> SUFFICES ASSUME Init PROVE Delay!Init
    OBVIOUS
  <2>1. \A i \in 1 .. LAT : ~valid_sr[i]
    BY DEF Init
  <2>2. \A i \in 1 .. LAT : ItemAt(i) = None
    BY <2>1 DEF ItemAt
  <2>3. ~valid_out
    BY <2>1, Length DEF valid_out
  <2> QED
    BY <2>2, <2>3 DEF Delay!Init
<1>2. IInv /\ [Next]_vars => [Delay!Next]_(Delay!vars)
  <2> SUFFICES ASSUME IInv, [Next]_vars PROVE [Delay!Next]_(Delay!vars)
    OBVIOUS
  <2>1. CASE Next
    BY <2>1, ClockIsTick, ResetIsReset DEF Next
  <2>2. CASE UNCHANGED vars
    <3>1. \A i \in 1 .. LAT : ItemAt(i)' = ItemAt(i)
      BY <2>2 DEF vars, ItemAt
    <3>2. (IF valid_out THEN fold_state ELSE None)' = IF valid_out THEN fold_state ELSE None
      BY <2>2 DEF vars, valid_out
    <3> QED
      BY <3>1, <3>2 DEF Delay!vars
  <2> QED
    BY <2>1, <2>2
<1> QED
  BY <1>1, <1>2, Inductive, PTL DEF Spec, ImplementsLine, Delay!Spec

-----------------------------------------------------------------------------
(* The pipelined build.                                                    *)

(* What a valid bit stands beside has been through every layer above it.   *)
LayersPassed ==
  \A st \in 1 .. STAGES : u_valid_sr[st + 2] =>
    u_kstate[st].rounds = FirstRounds(st * U!ROUNDS_PER_STAGE)

LayersInv == U!TypeOK /\ LayersPassed

(* The two builds have the same sponge.                                    *)
LEMMA SameSponge ==
  /\ \A m : U!Absorb(m) = Absorb(m)
  /\ \A st, rounds : U!AfterRounds(st, rounds) = AfterRounds(st, rounds)
  /\ U!Sponge = Sponge
BY DEF U!Absorb, Absorb, U!AfterRounds, AfterRounds, U!Sponge, Sponge

LEMMA LayerSizes ==
  /\ STAGES \in Nat \ {0} /\ NUM_ROUNDS \in Nat \ {0}
  /\ U!ROUNDS_PER_STAGE \in Nat \ {0} /\ NUM_ROUNDS = STAGES * U!ROUNDS_PER_STAGE
  /\ U!LAT = STAGES + 2
BY WholeTimes DEF U!ROUNDS_PER_STAGE, U!LAT

LEMMA LayersLength ==
  STAGES \in Nat \ {0} /\ U!LAT \in Nat /\ U!LAT = STAGES + 2
BY LayerSizes

LEMMA LayerIsSponge ==
  ASSUME NEW s \in Sponge, NEW st \in 1 .. STAGES
  PROVE  /\ U!Layer(s, st) \in Sponge /\ U!Layer(s, st).msg = s.msg
         /\ s.rounds = FirstRounds((st - 1) * U!ROUNDS_PER_STAGE) =>
              U!Layer(s, st).rounds = FirstRounds(st * U!ROUNDS_PER_STAGE)
<1> DEFINE k == st - 1
<1>1. k \in 0 .. STAGES - 1 /\ k + 1 = st
  BY LayersLength
<1>2. U!RoundsOfLayer(st) = RoundsFrom(k, U!ROUNDS_PER_STAGE)
  BY DEF U!RoundsOfLayer, RoundsFrom
<1> HIDE DEF k
<1>3. U!RoundsOfLayer(st) \in Seq(Round)
  BY <1>1, <1>2, LayerSizes, RoundsAreRounds
<1>4. /\ U!Layer(s, st) \in Sponge /\ U!Layer(s, st).msg = s.msg
      /\ U!Layer(s, st).rounds = s.rounds \o U!RoundsOfLayer(st)
  BY <1>3, AfterIsSponge, SameSponge DEF U!Layer
<1>5. FirstRounds(k * U!ROUNDS_PER_STAGE) \o U!RoundsOfLayer(st) = FirstRounds((k + 1) * U!ROUNDS_PER_STAGE)
  BY <1>1, <1>2, LayerSizes, FirstAndNext
<1> QED
  BY <1>1, <1>4, <1>5 DEF k

-----------------------------------------------------------------------------
(* The registers.                                                          *)

LEMMA InitLayersInv == U!Init => LayersInv
<1> SUFFICES ASSUME U!Init PROVE LayersInv
  OBVIOUS
<1>1. u_valid_sr \in [1 .. U!LAT -> BOOLEAN]
  BY DEF U!Init
<1>2. /\ u_pr0 \in Msg /\ u_pr1 \in {Absorb(msg) : msg \in Msg}
      /\ u_kstate \in [1 .. STAGES -> Sponge]
  BY AbsorbIsSponge, SameSponge DEF U!Init
<1>3. LayersPassed
  BY LayersLength DEF U!Init, LayersPassed
<1> QED
  BY <1>1, <1>2, <1>3, SameSponge DEF LayersInv, U!TypeOK

(* What the data registers take, valid or not.                             *)
LEMMA DataMoves ==
  ASSUME LayersInv, NEW data_in \in Msg, U!Data(data_in)
  PROVE  /\ u_pr0' = data_in /\ u_pr1' = Absorb(u_pr0) /\ u_pr1'.msg = u_pr0 /\ u_pr1' \in {Absorb(msg) : msg \in Msg}
         /\ u_kstate' \in [1 .. STAGES -> Sponge]
         /\ u_kstate'[1].msg = u_pr1.msg /\ u_kstate'[1].rounds = FirstRounds(U!ROUNDS_PER_STAGE)
         /\ \A st \in 2 .. STAGES :
              /\ u_kstate'[st].msg = u_kstate[st - 1].msg
              /\ u_kstate[st - 1].rounds = FirstRounds((st - 1) * U!ROUNDS_PER_STAGE) =>
                   u_kstate'[st].rounds = FirstRounds(st * U!ROUNDS_PER_STAGE)
<1>1. u_pr1 \in Sponge /\ u_pr1.rounds = <<>> /\ u_pr0 \in Msg
  BY AbsorbIsSponge, SameSponge DEF LayersInv, U!TypeOK
<1>2. u_pr0' = data_in /\ u_pr1' = Absorb(u_pr0) /\ u_pr1'.msg = u_pr0
  BY <1>1, AbsorbIsSponge, SameSponge DEF U!Data
<1>3. \A st \in 1 .. STAGES : (IF st = 1 THEN u_pr1 ELSE u_kstate[st - 1]) \in Sponge
  BY <1>1, LayersLength, SameSponge DEF LayersInv, U!TypeOK
<1>4. u_kstate' = [st \in 1 .. STAGES |-> U!Layer(IF st = 1 THEN u_pr1 ELSE u_kstate[st - 1], st)]
  BY DEF U!Data
<1>5. u_kstate' \in [1 .. STAGES -> Sponge]
  BY <1>3, <1>4, LayerIsSponge
<1>6. u_kstate'[1].msg = u_pr1.msg /\ u_kstate'[1].rounds = FirstRounds(U!ROUNDS_PER_STAGE)
  <2>1. u_kstate'[1] = U!Layer(u_pr1, 1) /\ 1 \in 1 .. STAGES
    BY <1>4, LayersLength
  <2>2. u_pr1.rounds = FirstRounds((1 - 1) * U!ROUNDS_PER_STAGE)
    <3>1. (1 - 1) * U!ROUNDS_PER_STAGE = 0
      BY LayerSizes
    <3> QED
      BY <1>1, <3>1, NoRounds
  <2>3. 1 * U!ROUNDS_PER_STAGE = U!ROUNDS_PER_STAGE
    BY LayerSizes
  <2>4. u_kstate'[1].msg = u_pr1.msg /\ u_kstate'[1].rounds = FirstRounds(1 * U!ROUNDS_PER_STAGE)
    BY <1>1, <2>1, <2>2, LayerIsSponge
  <2> QED
    BY <2>3, <2>4
<1>7. ASSUME NEW st \in 2 .. STAGES
      PROVE  /\ u_kstate'[st].msg = u_kstate[st - 1].msg
             /\ u_kstate[st - 1].rounds = FirstRounds((st - 1) * U!ROUNDS_PER_STAGE) =>
                  u_kstate'[st].rounds = FirstRounds(st * U!ROUNDS_PER_STAGE)
  <2>1. st \in 1 .. STAGES /\ st # 1 /\ u_kstate[st - 1] \in Sponge
    BY <1>3, LayersLength
  <2>2. u_kstate'[st] = U!Layer(u_kstate[st - 1], st)
    BY <1>4, <2>1
  <2> QED
    BY <2>1, <2>2, LayerIsSponge
<1> QED
  BY <1>1, <1>2, <1>5, <1>6, <1>7

LEMMA LayersValidMoves ==
  ASSUME LayersInv, NEW data_in \in Msg, NEW valid_in \in BOOLEAN, U!Clock(data_in, valid_in)
  PROVE  /\ u_valid_sr' \in [1 .. U!LAT -> BOOLEAN]
         /\ u_valid_sr'[1] = valid_in
         /\ \A i \in 2 .. U!LAT : u_valid_sr'[i] = u_valid_sr[i - 1]
<1>1. u_valid_sr' = [i \in 1 .. U!LAT |-> IF i = 1 THEN valid_in ELSE u_valid_sr[i - 1]]
  BY DEF U!Clock
<1>2. \A i \in 1 .. U!LAT : i = 1 \/ i - 1 \in 1 .. U!LAT
  BY LayersLength
<1>3. u_valid_sr' \in [1 .. U!LAT -> BOOLEAN]
  BY <1>1, <1>2 DEF LayersInv, U!TypeOK
<1>4. u_valid_sr'[1] = valid_in /\ \A i \in 2 .. U!LAT : u_valid_sr'[i] = u_valid_sr[i - 1]
  BY <1>1, LayersLength
<1> QED
  BY <1>3, <1>4

LEMMA ClockLayersInv ==
  ASSUME LayersInv, NEW data_in \in Msg, NEW valid_in \in BOOLEAN, U!Clock(data_in, valid_in)
  PROVE  LayersInv'
<1>1. U!Data(data_in)
  BY DEF U!Clock
<1>2. U!TypeOK'
  BY <1>1, DataMoves, LayersValidMoves, SameSponge DEF U!TypeOK
<1>3. ASSUME NEW st \in 1 .. STAGES, u_valid_sr'[st + 2]
      PROVE  u_kstate'[st].rounds = FirstRounds(st * U!ROUNDS_PER_STAGE)
  <2>1. CASE st = 1
    <3>1. 1 * U!ROUNDS_PER_STAGE = U!ROUNDS_PER_STAGE
      BY LayerSizes
    <3> QED
      BY <1>1, <2>1, <3>1, DataMoves
  <2>2. CASE st # 1
    <3>1. /\ st \in 2 .. STAGES /\ st - 1 \in 1 .. STAGES
          /\ st + 2 \in 2 .. U!LAT /\ (st + 2) - 1 = (st - 1) + 2
      BY <2>2, LayersLength
    <3>2. u_valid_sr[(st - 1) + 2]
      BY <1>3, <3>1, LayersValidMoves
    <3>3. u_kstate[st - 1].rounds = FirstRounds((st - 1) * U!ROUNDS_PER_STAGE)
      BY <3>1, <3>2 DEF LayersInv, LayersPassed
    <3> QED
      BY <1>1, <3>1, <3>3, DataMoves
  <2> QED
    BY <2>1, <2>2
<1>4. LayersPassed'
  BY <1>3 DEF LayersPassed
<1> QED
  BY <1>2, <1>4 DEF LayersInv

LEMMA ResetLayersInv ==
  ASSUME LayersInv, NEW data_in \in Msg, U!Reset(data_in)
  PROVE  LayersInv'
<1>1. U!Data(data_in)
  BY DEF U!Reset
<1>2. u_valid_sr' \in [1 .. U!LAT -> BOOLEAN]
  BY DEF U!Reset
<1>3. U!TypeOK'
  BY <1>1, <1>2, DataMoves, SameSponge DEF U!TypeOK
<1>4. LayersPassed'
  BY LayersLength DEF LayersPassed, U!Reset
<1> QED
  BY <1>3, <1>4 DEF LayersInv

LEMMA StepLayersInv == LayersInv /\ [U!Next]_(U!vars) => LayersInv'
<1> SUFFICES ASSUME LayersInv, [U!Next]_(U!vars) PROVE LayersInv'
  OBVIOUS
<1>1. CASE U!Next
  BY <1>1, ClockLayersInv, ResetLayersInv DEF U!Next
<1>2. CASE UNCHANGED U!vars
  BY <1>2 DEF U!vars, LayersInv, U!TypeOK, LayersPassed
<1> QED
  BY <1>1, <1>2

LEMMA LayersInductive == U!Spec => []LayersInv
<1> QED
  BY InitLayersInv, StepLayersInv, PTL DEF U!Spec

-----------------------------------------------------------------------------
(* The core is a delay line.                                               *)

LEMMA LayersItems ==
  ASSUME U!TypeOK, NEW i \in 1 .. U!LAT
  PROVE  /\ u_valid_sr[i] => U!ItemAt(i) # None
         /\ ~u_valid_sr[i] => U!ItemAt(i) = None
<1>1. u_pr0 \in Msg /\ u_pr1.msg \in Msg
  BY AbsorbIsSponge, SameSponge DEF U!TypeOK, Sponge
<1>2. None \notin Msg
  BY CshakeConstants
<1>3. i = 1 \/ i = 2 \/ (i # 1 /\ i # 2 /\ i - 2 \in 1 .. STAGES)
  BY LayersLength
<1>4. i - 2 \in 1 .. STAGES => u_kstate[i - 2].msg \in Msg
  BY SameSponge DEF U!TypeOK, Sponge
<1> QED
  BY <1>1, <1>2, <1>3, <1>4 DEF U!ItemAt

LEMMA LayersItemsMove ==
  ASSUME LayersInv, NEW data_in \in Msg, NEW valid_in \in BOOLEAN, U!Clock(data_in, valid_in),
         NEW i \in 1 .. U!LAT
  PROVE  U!ItemAt(i)' = IF i > 1 THEN U!ItemAt(i - 1) ELSE IF valid_in THEN data_in ELSE None
<1>1. U!Data(data_in)
  BY DEF U!Clock
<1>2. CASE i = 1
  <2>1. U!ItemAt(1)' = IF ~u_valid_sr'[1] THEN None ELSE u_pr0'
    BY DEF U!ItemAt
  <2>2. U!ItemAt(1)' = IF valid_in THEN data_in ELSE None
    BY <1>1, <2>1, DataMoves, LayersValidMoves
  <2>3. ~(i > 1)
    BY <1>2
  <2> QED
    BY <1>2, <2>2, <2>3
<1>3. CASE i = 2
  <2>1. U!ItemAt(2)' = IF ~u_valid_sr'[2] THEN None ELSE u_pr1'.msg
    BY DEF U!ItemAt
  <2>2. U!ItemAt(1) = IF ~u_valid_sr[1] THEN None ELSE u_pr0
    BY DEF U!ItemAt
  <2>3. u_valid_sr'[2] = u_valid_sr[1] /\ u_pr1'.msg = u_pr0
    <3>1. 2 \in 2 .. U!LAT /\ 2 - 1 = 1
      BY LayersLength
    <3>2. u_valid_sr'[2] = u_valid_sr[2 - 1]
      BY <3>1, LayersValidMoves
    <3>3. u_pr1'.msg = u_pr0
      BY <1>1, DataMoves
    <3> QED
      BY <3>1, <3>2, <3>3
  <2> QED
    BY <1>3, <2>1, <2>2, <2>3
<1>4. CASE i \in 3 .. U!LAT
  <2> DEFINE st == i - 2
  <2>1. i > 1 /\ i # 1 /\ i # 2 /\ st \in 1 .. STAGES /\ i - 1 # 1 /\ (i - 1 = 2 <=> st = 1)
        /\ (i - 1) - 2 = st - 1 /\ (st # 1 => st \in 2 .. STAGES)
    BY <1>4, LayersLength
  <2>2. U!ItemAt(i)' = IF ~u_valid_sr'[i] THEN None ELSE u_kstate'[st].msg
    BY <2>1 DEF U!ItemAt
  <2>3. U!ItemAt(i - 1) = IF ~u_valid_sr[i - 1] THEN None
                        ELSE IF st = 1 THEN u_pr1.msg ELSE u_kstate[st - 1].msg
    BY <2>1 DEF U!ItemAt
  <2>4. u_valid_sr'[i] = u_valid_sr[i - 1]
    BY <1>4, LayersLength, LayersValidMoves
  <2> HIDE DEF st
  <2>5. u_kstate'[st].msg = IF st = 1 THEN u_pr1.msg ELSE u_kstate[st - 1].msg
    BY <1>1, <2>1, DataMoves
  <2> QED
    BY <2>1, <2>2, <2>3, <2>4, <2>5
<1> QED
  BY <1>2, <1>3, <1>4, LayersLength

LEMMA LayersLeaveHashed ==
  ASSUME LayersInv, NEW data_in \in Msg, NEW valid_in \in BOOLEAN, U!Clock(data_in, valid_in)
  PROVE  (IF U!valid_out THEN U!hash_out ELSE None)' = U!Delay!Leave(U!ItemAt(U!LAT - 1))
<1>1. U!LAT - 1 \in 1 .. U!LAT /\ U!LAT \in 1 .. U!LAT /\ U!LAT \in 2 .. U!LAT /\ U!LAT > 1
      /\ U!LAT # 1 /\ U!LAT # 2 /\ U!LAT - 2 = STAGES /\ STAGES \in 1 .. STAGES /\ STAGES + 2 = U!LAT
  BY LayersLength
<1>2. u_valid_sr'[U!LAT] = u_valid_sr[U!LAT - 1] /\ LayersInv'
  BY <1>1, LayersValidMoves, ClockLayersInv
<1>3. U!ItemAt(U!LAT)' = U!ItemAt(U!LAT - 1)
  BY <1>1, LayersItemsMove
<1>4. CASE ~u_valid_sr[U!LAT - 1]
  <2>1. U!ItemAt(U!LAT - 1) = None
    BY <1>1, <1>4, LayersItems DEF LayersInv
  <2> QED
    BY <1>2, <1>4, <2>1 DEF U!valid_out, U!Delay!Leave
<1>5. CASE u_valid_sr[U!LAT - 1]
  <2>1. U!ItemAt(U!LAT - 1) # None
    BY <1>1, <1>5, LayersItems DEF LayersInv
  <2>2. U!ItemAt(U!LAT)' = u_kstate'[STAGES].msg
    BY <1>1, <1>2, <1>5 DEF U!ItemAt
  <2>3. u_kstate'[STAGES].rounds = FirstRounds(STAGES * U!ROUNDS_PER_STAGE) /\ u_kstate'[STAGES] \in Sponge
    BY <1>1, <1>2, <1>5, SameSponge DEF LayersInv, LayersPassed, U!TypeOK
  <2>4. u_kstate'[STAGES].rounds = FirstRounds(NUM_ROUNDS)
    BY <2>3, LayerSizes
  <2>5. u_kstate'[STAGES] = [msg |-> U!ItemAt(U!LAT - 1), rounds |-> FirstRounds(NUM_ROUNDS)]
    BY <1>3, <2>2, <2>3, <2>4 DEF Sponge
  <2> QED
    BY <1>2, <1>5, <2>1, <2>5 DEF U!valid_out, U!hash_out, U!Delay!Leave, U!Delay!Hashed, FirstRounds
<1> QED
  BY <1>4, <1>5

LEMMA LayersClockIsTick ==
  ASSUME LayersInv, NEW data_in \in Msg, NEW valid_in \in BOOLEAN, U!Clock(data_in, valid_in)
  PROVE  U!Delay!Next
<1> DEFINE in == IF valid_in THEN data_in ELSE None
           line == [i \in 1 .. U!LAT |-> U!ItemAt(i)]
<1>1. \A i \in 1 .. U!LAT : U!ItemAt(i)' = IF i > 1 THEN line[i - 1] ELSE IF U!Delay!Busy THEN None ELSE in
  <2> TAKE i \in 1 .. U!LAT
  <2>1. i > 1 => i - 1 \in 1 .. U!LAT
    BY LayersLength
  <2>2. i > 1 => line[i - 1] = U!ItemAt(i - 1)
    BY <2>1
  <2>3. ~U!Delay!Busy
    BY DEF U!Delay!Busy
  <2> QED
    BY <2>2, <2>3, LayersItemsMove
<1>2. line' = [i \in 1 .. U!LAT |-> IF i > 1 THEN line[i - 1] ELSE IF U!Delay!Busy THEN None ELSE in]
  BY <1>1
<1>3. line[U!LAT - 1] = U!ItemAt(U!LAT - 1)
  BY LayersLength
<1>4. (IF U!valid_out THEN U!hash_out ELSE None)' = U!Delay!Leave(line[U!LAT - 1])
  BY <1>3, LayersLeaveHashed
<1>5. U!Delay!Tick(in)
  BY <1>2, <1>4 DEF U!Delay!Tick
<1>6. in \in Msg \union {None}
  OBVIOUS
<1> QED
  BY <1>5, <1>6 DEF U!Delay!Next

LEMMA LayersResetIsReset ==
  ASSUME LayersInv, NEW data_in \in Msg, U!Reset(data_in)
  PROVE  U!Delay!Next
<1>1. \A i \in 1 .. U!LAT : ~u_valid_sr'[i]
  BY DEF U!Reset
<1>2. \A i \in 1 .. U!LAT : U!ItemAt(i)' = None
  BY <1>1 DEF U!ItemAt
<1>3. (IF U!valid_out THEN U!hash_out ELSE None)' = None
  BY <1>1, LayersLength DEF U!valid_out
<1>4. U!Delay!Reset
  BY <1>2, <1>3 DEF U!Delay!Reset
<1> QED
  BY <1>4 DEF U!Delay!Next

(* The pipelined core implements the delay line: whatever the pattern of   *)
(* valid_in, every item comes out after LAT cycles, once, itself and fully *)
(* hashed (cshake256_core.sv:188-231, core.sv:153-177).                    *)
THEOREM PipelinedCoreIsDelayLine == U!Spec => U!ImplementsLine
<1>1. U!Init => U!Delay!Init
  <2> SUFFICES ASSUME U!Init PROVE U!Delay!Init
    OBVIOUS
  <2>1. \A i \in 1 .. U!LAT : ~u_valid_sr[i]
    BY DEF U!Init
  <2>2. \A i \in 1 .. U!LAT : U!ItemAt(i) = None
    BY <2>1 DEF U!ItemAt
  <2>3. ~U!valid_out
    BY <2>1, LayersLength DEF U!valid_out
  <2> QED
    BY <2>2, <2>3 DEF U!Delay!Init
<1>2. LayersInv /\ [U!Next]_(U!vars) => [U!Delay!Next]_(U!Delay!vars)
  <2> SUFFICES ASSUME LayersInv, [U!Next]_(U!vars) PROVE [U!Delay!Next]_(U!Delay!vars)
    OBVIOUS
  <2>1. CASE U!Next
    BY <2>1, LayersClockIsTick, LayersResetIsReset DEF U!Next
  <2>2. CASE UNCHANGED U!vars
    <3>1. \A i \in 1 .. U!LAT : U!ItemAt(i)' = U!ItemAt(i)
      BY <2>2 DEF U!vars, U!ItemAt
    <3>2. (IF U!valid_out THEN U!hash_out ELSE None)' = IF U!valid_out THEN U!hash_out ELSE None
      BY <2>2 DEF U!vars, U!valid_out, U!hash_out
    <3> QED
      BY <3>1, <3>2 DEF U!Delay!vars
  <2> QED
    BY <2>1, <2>2
<1> QED
  BY <1>1, <1>2, LayersInductive, PTL DEF U!Spec, U!ImplementsLine, U!Delay!Spec

=============================================================================
