-------------------------- MODULE MinerWorkerProofs --------------------------
(***************************************************************************)
(* The books of the miner thread, for any range of ids, any history and    *)
(* any depth of the FIFO below it: while the thread's count is core's,     *)
(* every find is looked up under the work it was found for.                *)
(***************************************************************************)
EXTENDS MinerWorker, SequenceTheorems, TLAPS

(* The id of `age` jobs ago.                                               *)
Back(w, age) == IF age <= w THEN w - age ELSE w + WID_MOD - age

LEMMA Ids ==
  /\ WID_MOD \in Nat /\ WORK_HISTORY \in 1 .. WID_MOD - 1 /\ None \notin Wid
  /\ \A w \in Wid : /\ (w + 1) % WID_MOD \in Wid
                    /\ (w + 1) % WID_MOD = IF w = WID_MOD - 1 THEN 0 ELSE w + 1
                    /\ (w + WID_MOD - WORK_HISTORY) % WID_MOD = Back(w, WORK_HISTORY)
                    /\ (w + 2) % WID_MOD = (((w + 1) % WID_MOD) + 1) % WID_MOD
                    /\ (w + 2) % WID_MOD \in Wid
BY WorkerConstants, SMT DEF Wid, Back

(* The id of `age` jobs ago is one of age + 1 jobs ago after a START, is   *)
(* not the new id, and not the one forgotten, as long as age is small.     *)
LEMMA Older ==
  ASSUME NEW w \in Wid, NEW age \in 0 .. WORK_HISTORY - 2
  PROVE  LET new == (w + 1) % WID_MOD
         IN  /\ Back(w, age) \in Wid
             /\ Back(w, age) = Back(new, age + 1)
             /\ Back(w, age) # new
             /\ Back(w, age) # Back(new, WORK_HISTORY)
             /\ Back(new, WORK_HISTORY) # new /\ Back(new, WORK_HISTORY) \in Wid
             /\ Back(w, 0) = w
<1> DEFINE new == (w + 1) % WID_MOD
<1>1. new = IF w = WID_MOD - 1 THEN 0 ELSE w + 1
  BY Ids
<1> HIDE DEF new
<1>2. /\ Back(w, age) \in Wid
      /\ Back(w, age) = Back(new, age + 1)
      /\ Back(w, age) # new
      /\ Back(w, age) # Back(new, WORK_HISTORY)
      /\ Back(new, WORK_HISTORY) # new /\ Back(new, WORK_HISTORY) \in Wid
      /\ Back(w, 0) = w
  BY <1>1, Ids DEF Wid, Back
<1> QED
  BY <1>2 DEF new

(* A find that is at place i of the FIFO has seen at most so many STARTs:  *)
(* there is one pop between two of them.                                   *)
MaxAge(i) == FOUND_DEPTH - i + IF pc = "pop" THEN 1 ELSE 0

(* What TypeOK leaves loose.                                               *)
Books ==
  /\ work_id \in Wid /\ running \in Work \union {SYNC, PARK, OLD}
  /\ late \in Entry \union {None}
  /\ next_wid # None => bad_streak < RESYNC_AFTER
  /\ pc \in {"sync_find", "sync_park", "drain"} => next_wid = None
  /\ pc = "drain" => running = PARK
  /\ handed \in {<<>>} \union (Work \X Entry)

(* Sync goes two jobs past the one whose id it learned.                    *)
SyncInStep ==
  /\ rightly /\ pc = "sync_park" => found.wid = work_id
  /\ rightly /\ pc = "drain" => (found.wid + 1) % WID_MOD = work_id

(* A find that can still come or wait is recorded under the work it is of. *)
Recorded ==
  /\ running \in Work => works[work_id] = running
  /\ running \notin {SYNC, OLD}
  /\ late # None => /\ pc = "pop"
                    /\ late.wid = Back(work_id, 1) /\ works[late.wid] = late.of
  /\ \A i \in 1 .. Len(fifo) :
       /\ \E age \in 0 .. MaxAge(i) : fifo[i].wid = Back(work_id, age)
       /\ works[fifo[i].wid] = fifo[i].of

IInv ==
  /\ TypeOK /\ Books /\ SyncInStep /\ IdsInStep /\ FindsCredited /\ HandedOverAreShares
  /\ rightly /\ next_wid # None => Recorded

LEMMA Constants ==
  /\ WID_MOD \in Nat /\ RESYNC_AFTER \in Nat \ {0} /\ FOUND_DEPTH \in Nat \ {0}
  /\ WORK_HISTORY \in Nat /\ FOUND_DEPTH < WORK_HISTORY
  /\ None \notin Work /\ None \notin Wid /\ PARK \notin {SYNC, OLD}
  /\ \A w \in Work : w \notin {SYNC, PARK, OLD}
BY WorkerConstants, HistoryOutlivesFifo DEF Wid

(* The front of the FIFO and what is behind it.                            *)
LEMMA Front ==
  ASSUME TypeOK, fifo # <<>>
  PROVE  /\ Head(fifo) = fifo[1] /\ Head(fifo) \in Entry /\ Len(fifo) \in 1 .. FOUND_DEPTH
         /\ Tail(fifo) \in Seq(Entry) /\ Len(Tail(fifo)) = Len(fifo) - 1
         /\ \A i \in 1 .. Len(fifo) - 1 : Tail(fifo)[i] = fifo[i + 1]
<1>1. fifo \in Seq(Entry) /\ Len(fifo) \in 1 .. FOUND_DEPTH
  BY EmptySeq, Constants DEF TypeOK
<1>2. /\ Tail(fifo) \in Seq(Entry) /\ Len(Tail(fifo)) = Len(fifo) - 1
      /\ \A i \in 1 .. Len(fifo) - 1 : Tail(fifo)[i] = fifo[i + 1]
      /\ Head(fifo) = fifo[1] /\ Head(fifo) \in Entry
  BY <1>1, HeadTailProperties, ElementOfSeq
<1> QED
  BY <1>1, <1>2

LEMMA InitIInv == Init => IInv
<1> SUFFICES ASSUME Init PROVE IInv
  OBVIOUS
<1> USE DEF Init
<1>1. 0 \in Wid
  BY WorkerConstants DEF Wid
<1>2. fifo \in Seq(Entry) /\ Len(fifo) = 0
  OBVIOUS
<1>3. TypeOK
  BY <1>1, <1>2, Constants DEF TypeOK, NoWorks
<1>4. Books
  BY <1>1, Constants DEF Books
<1>5. SyncInStep /\ IdsInStep /\ FindsCredited /\ HandedOverAreShares
  BY DEF SyncInStep, IdsInStep, FindsCredited, HandedOverAreShares
<1> QED
  BY <1>3, <1>4, <1>5 DEF IInv

(* A START, seen by the board's registers.                                 *)
LEMMA StartsBooks ==
  ASSUME TypeOK, Books, NEW job \in Work \union {SYNC, PARK}, Starts(job)
  PROVE  /\ work_id' \in Wid /\ running' = job /\ UNCHANGED fifo
         /\ late' \in Entry \union {None}
         /\ late' # None => late' = [wid |-> work_id, of |-> running] /\ Mines(running)
BY Ids DEF Books, Starts, Mines, Entry

(* A failed call: the thread has no count any more.                        *)
LEMMA FailsIInv ==
  ASSUME IInv, Fails, work_id' \in Wid, running' \in Work \union {SYNC, PARK, OLD},
         late' \in Entry \union {None}, fifo' \in Seq(Entry), Len(fifo') <= FOUND_DEPTH
  PROVE  IInv'
<1>1. TypeOK' /\ Books'
  BY Constants DEF IInv, TypeOK, Books, Fails
<1>2. SyncInStep' /\ IdsInStep' /\ FindsCredited' /\ HandedOverAreShares'
  BY DEF SyncInStep, IdsInStep, FindsCredited, HandedOverAreShares, Fails
<1> QED
  BY <1>1, <1>2 DEF IInv, Fails

LEMMA LoadJobFailsIInv ==
  ASSUME IInv, NEW job \in Work \union {SYNC, PARK}, LoadJobFails(job)
  PROVE  IInv'
<1>1. CASE UNCHANGED core
  BY <1>1, FailsIInv DEF LoadJobFails, core, IInv, TypeOK, Books
<1>2. CASE Starts(job)
  <2>1. /\ work_id' \in Wid /\ running' = job /\ UNCHANGED fifo
        /\ late' \in Entry \union {None}
    BY <1>2, StartsBooks DEF IInv
  <2> QED
    BY <2>1, FailsIInv DEF LoadJobFails, IInv, TypeOK
<1> QED
  BY <1>1, <1>2 DEF LoadJobFails

LEMMA PopsBooks ==
  ASSUME TypeOK, Books, Pops
  PROVE  /\ late' = None /\ UNCHANGED <<work_id, running>>
         /\ fifo' \in Seq(Entry) /\ Len(fifo') <= FOUND_DEPTH
         /\ fifo = <<>> => fifo' = <<>>
         /\ fifo # <<>> => fifo' = Tail(fifo)
<1>1. CASE fifo = <<>>
  BY <1>1 DEF Pops, TypeOK
<1>2. CASE fifo # <<>>
  BY <1>2, Front, Constants DEF Pops, TypeOK
<1> QED
  BY <1>1, <1>2

LEMMA PopFailsIInv == IInv /\ PopFails => IInv'
<1> SUFFICES ASSUME IInv, PopFails PROVE IInv'
  OBVIOUS
<1>1. CASE UNCHANGED core
  BY <1>1, FailsIInv DEF PopFails, core, IInv, TypeOK, Books
<1>2. CASE Pops
  BY <1>2, PopsBooks, FailsIInv DEF PopFails, IInv, Books
<1> QED
  BY <1>1, <1>2 DEF PopFails

-----------------------------------------------------------------------------
(* Learning the id.                                                        *)

LEMMA SyncStartIInv == IInv /\ SyncStart => IInv'
<1> SUFFICES ASSUME IInv, SyncStart PROVE IInv'
  OBVIOUS
<1>1. CASE LoadJobFails(SYNC)
  BY <1>1, LoadJobFailsIInv
<1>2. CASE /\ Starts(SYNC) /\ pc' = "sync_find"
           /\ UNCHANGED <<pending, taken, found, books, handed, rightly, faults>>
  <2>1. /\ work_id' \in Wid /\ running' = SYNC /\ UNCHANGED fifo
        /\ late' \in Entry \union {None}
    BY <1>2, StartsBooks DEF IInv
  <2>2. TypeOK' /\ Books'
    BY <1>2, <2>1 DEF IInv, TypeOK, Books, SyncStart, books
  <2>3. SyncInStep' /\ IdsInStep' /\ FindsCredited' /\ HandedOverAreShares'
    BY <1>2 DEF IInv, SyncInStep, IdsInStep, FindsCredited, HandedOverAreShares, SyncStart, books
  <2> QED
    BY <1>2, <2>2, <2>3 DEF IInv, SyncStart, books
<1> QED
  BY <1>1, <1>2 DEF SyncStart

LEMMA SyncFindIInv == IInv /\ SyncFind => IInv'
<1> SUFFICES ASSUME IInv, SyncFind PROVE IInv'
  OBVIOUS
<1>1. /\ late' = None /\ UNCHANGED <<work_id, running>>
      /\ fifo' \in Seq(Entry) /\ Len(fifo') <= FOUND_DEPTH
  BY PopsBooks DEF SyncFind, IInv
<1>2. next_wid = None /\ UNCHANGED next_wid
  BY DEF IInv, Books, SyncFind, books
<1>3. CASE fifo = <<>>
  <2>1. TypeOK' /\ Books'
    BY <1>1, <1>3 DEF IInv, TypeOK, Books, SyncFind, books
  <2>2. SyncInStep' /\ IdsInStep' /\ FindsCredited' /\ HandedOverAreShares'
    BY <1>1, <1>2, <1>3 DEF IInv, SyncInStep, IdsInStep, FindsCredited, HandedOverAreShares, SyncFind
  <2> QED
    BY <1>2, <2>1, <2>2 DEF IInv
<1>4. CASE fifo # <<>>
  <2>1. found' \in Entry /\ pc' = "sync_park" /\ (rightly' => found'.wid = work_id)
    BY <1>4, Front DEF IInv, SyncFind
  <2>2. TypeOK' /\ Books'
    BY <1>1, <1>2, <2>1 DEF IInv, TypeOK, Books, SyncFind, books
  <2>3. SyncInStep' /\ IdsInStep' /\ FindsCredited' /\ HandedOverAreShares'
    BY <1>1, <1>2, <2>1 DEF IInv, SyncInStep, IdsInStep, FindsCredited, HandedOverAreShares, SyncFind
  <2> QED
    BY <1>2, <2>2, <2>3 DEF IInv
<1> QED
  BY <1>3, <1>4

LEMMA SyncParkIInv == IInv /\ SyncPark => IInv'
<1> SUFFICES ASSUME IInv, SyncPark PROVE IInv'
  OBVIOUS
<1>1. CASE LoadJobFails(PARK)
  BY <1>1, LoadJobFailsIInv
<1>2. CASE /\ Starts(PARK) /\ pc' = "drain"
           /\ UNCHANGED <<pending, taken, found, books, handed, rightly, faults>>
  <2>1. /\ work_id' \in Wid /\ running' = PARK /\ UNCHANGED fifo
        /\ late' \in Entry \union {None} /\ work_id' = (work_id + 1) % WID_MOD
    BY <1>2, StartsBooks DEF IInv, Starts
  <2>2. TypeOK' /\ Books'
    BY <1>2, <2>1 DEF IInv, TypeOK, Books, SyncPark, books
  <2>3. SyncInStep' /\ IdsInStep' /\ FindsCredited' /\ HandedOverAreShares'
    BY <1>2, <2>1 DEF IInv, Books, SyncInStep, IdsInStep, FindsCredited, HandedOverAreShares, SyncPark, books
  <2> QED
    BY <1>2, <2>2, <2>3 DEF IInv, Books, SyncPark, books
<1> QED
  BY <1>1, <1>2 DEF SyncPark

(* The count is core's id and the books are empty, as the FIFO is, and     *)
(* nothing can be found: core is parked.                                   *)
LEMMA DrainIInv == IInv /\ Drain => IInv'
<1> SUFFICES ASSUME IInv, Drain PROVE IInv'
  OBVIOUS
<1>1. /\ late' = None /\ UNCHANGED <<work_id, running, taken, handed, rightly>>
      /\ fifo' \in Seq(Entry) /\ Len(fifo') <= FOUND_DEPTH
      /\ fifo = <<>> => fifo' = <<>>
  BY PopsBooks DEF Drain, IInv
<1>2. pc = "drain" /\ found \in Entry /\ running = PARK /\ next_wid = None
  BY DEF IInv, TypeOK, Books, Drain
<1>3. CASE fifo # <<>>
  <2>1. UNCHANGED <<pc, pending, found, books>>
    BY <1>3 DEF Drain
  <2>2. TypeOK' /\ Books'
    BY <1>1, <2>1 DEF IInv, TypeOK, Books, books
  <2>3. SyncInStep' /\ IdsInStep' /\ FindsCredited' /\ HandedOverAreShares'
    BY <1>1, <2>1 DEF IInv, SyncInStep, IdsInStep, FindsCredited, HandedOverAreShares, books
  <2> QED
    BY <1>2, <2>1, <2>2, <2>3 DEF IInv, books
<1>4. CASE fifo = <<>>
  <2>1. /\ next_wid' = (found.wid + 2) % WID_MOD /\ works' = NoWorks /\ bad_streak' = 0
        /\ pending' \in Work \union {None} /\ pc' = "take" /\ UNCHANGED last_work
    BY <1>4 DEF Drain, IInv, TypeOK
  <2>2. next_wid' \in Wid /\ next_wid' # None /\ (rightly => next_wid' = (work_id + 1) % WID_MOD)
    <3>1. found.wid \in Wid
      BY <1>2 DEF Entry
    <3> QED
      BY <1>2, <2>1, <3>1, Ids DEF IInv, SyncInStep
  <2>3. TypeOK' /\ Books'
    BY <1>1, <1>2, <2>1, <2>2, Constants DEF IInv, TypeOK, Books, NoWorks
  <2>4. SyncInStep' /\ IdsInStep' /\ FindsCredited' /\ HandedOverAreShares'
    BY <1>1, <2>1, <2>2 DEF IInv, SyncInStep, IdsInStep, FindsCredited, HandedOverAreShares
  <2>5. Recorded'
    <3>1. Len(fifo') = 0
      BY <1>1, <1>4
    <3> QED
      BY <1>1, <1>2, <3>1, Constants DEF Recorded
  <2> QED
    BY <2>3, <2>4, <2>5 DEF IInv
<1> QED
  BY <1>3, <1>4

-----------------------------------------------------------------------------
(* Loading and popping.                                                    *)

LEMMA TakeIInv == IInv /\ Take => IInv'
<1> SUFFICES ASSUME IInv, Take PROVE IInv'
  OBVIOUS
<1> USE DEF Take, books, core
<1>1. TypeOK' /\ Books'
  BY DEF IInv, TypeOK, Books
<1>2. SyncInStep' /\ IdsInStep' /\ FindsCredited' /\ HandedOverAreShares'
  BY DEF IInv, SyncInStep, IdsInStep, FindsCredited, HandedOverAreShares
<1>3. rightly /\ next_wid # None => Recorded'
  <2> SUFFICES ASSUME Recorded PROVE Recorded'
    BY DEF IInv
  <2>1. late = None /\ pc # "pop"
    BY DEF Recorded
  <2>2. \A i \in 1 .. Len(fifo) : 0 .. MaxAge(i) \subseteq 0 .. MaxAge(i)'
    BY <2>1, Constants DEF MaxAge, IInv, TypeOK
  <2> QED
    BY <2>1, <2>2 DEF Recorded
<1> QED
  BY <1>1, <1>2, <1>3 DEF IInv

LEMMA LoadIInv == IInv /\ Load => IInv'
<1> SUFFICES ASSUME IInv, Load PROVE IInv'
  OBVIOUS
<1>1. pc = "load" /\ taken \in Work /\ next_wid \in Wid /\ next_wid # None
  BY DEF IInv, TypeOK, Load
<1>2. CASE LoadJobFails(taken)
  BY <1>1, <1>2, LoadJobFailsIInv
<1>3. CASE /\ Starts(taken) /\ Record /\ pc' = "pop" /\ taken' = None
           /\ UNCHANGED <<pending, found, handed, rightly, faults>>
  <2>1. /\ work_id' = (work_id + 1) % WID_MOD /\ work_id' \in Wid /\ running' = taken
        /\ UNCHANGED fifo /\ late' \in Entry \union {None}
        /\ late' # None => late' = [wid |-> work_id, of |-> running] /\ Mines(running)
    BY <1>1, <1>3, StartsBooks DEF IInv, Starts
  <2> DEFINE gone == Back(next_wid, WORK_HISTORY)
  <2>2. /\ works' = [works EXCEPT ![next_wid] = taken, ![gone] = None]
        /\ next_wid' = (next_wid + 1) % WID_MOD /\ next_wid' \in Wid /\ last_work' = taken
        /\ UNCHANGED bad_streak
    BY <1>1, <1>3, Ids DEF Record
  <2>3. TypeOK' /\ Books'
    <3>1. works' \in [Wid -> Work \union {None}]
      BY <1>1, <2>2 DEF IInv, TypeOK
    <3> QED
      BY <1>1, <1>3, <2>1, <2>2, <3>1, Constants DEF IInv, TypeOK, Books
  <2>4. SyncInStep' /\ IdsInStep' /\ FindsCredited' /\ HandedOverAreShares'
    BY <1>1, <1>3, <2>1, <2>2 DEF IInv, SyncInStep, IdsInStep, FindsCredited, HandedOverAreShares
  <2>5. ASSUME rightly
        PROVE  Recorded'
    <3>1. Recorded /\ next_wid = work_id' /\ work_id \in Wid
      BY <1>1, <2>1, <2>5 DEF IInv, IdsInStep, Books
    <3>2. gone # next_wid /\ gone \in Wid /\ works' \in [Wid -> Work \union {None}]
      <4>1. 0 \in 0 .. WORK_HISTORY - 2
        BY Constants
      <4> QED
        BY <2>1, <2>3, <3>1, <4>1, Older DEF TypeOK
    <3>3. works'[work_id'] = running'
      BY <1>1, <2>1, <2>2, <3>1, <3>2 DEF IInv, TypeOK
    <3>4. ASSUME NEW w, NEW age \in 0 .. FOUND_DEPTH - 1, w = Back(work_id, age)
          PROVE  w = Back(work_id', age + 1) /\ works'[w] = works[w]
      <4>1. age \in 0 .. WORK_HISTORY - 2
        BY Constants
      <4>2. /\ w \in Wid /\ w = Back(work_id', age + 1) /\ w # work_id'
            /\ w # Back(work_id', WORK_HISTORY)
        BY <2>1, <3>1, <3>4, <4>1, Older
      <4> QED
        BY <2>2, <3>1, <4>2 DEF IInv, TypeOK
    <3>5. late' # None => late'.wid = Back(work_id', 1) /\ works'[late'.wid] = late'.of
      <4> SUFFICES ASSUME late' # None
                   PROVE  late'.wid = Back(work_id', 1) /\ works'[late'.wid] = late'.of
        OBVIOUS
      <4>1. late'.wid = work_id /\ late'.of = running /\ running \in Work
        BY <2>1, <3>1 DEF Mines, Recorded
      <4>2. work_id = Back(work_id, 0) /\ 0 \in 0 .. FOUND_DEPTH - 1
        BY <3>1, Constants DEF Back, Wid
      <4>3. work_id = Back(work_id', 0 + 1) /\ works'[work_id] = works[work_id]
        BY <3>4, <4>2
      <4> QED
        BY <3>1, <4>1, <4>3 DEF Recorded
    <3>6. ASSUME NEW i \in 1 .. Len(fifo')
          PROVE  /\ \E age \in 0 .. MaxAge(i)' : fifo'[i].wid = Back(work_id', age)
                 /\ works'[fifo'[i].wid] = fifo'[i].of
      <4>1. PICK age \in 0 .. FOUND_DEPTH - i : fifo[i].wid = Back(work_id, age)
        <5>1. MaxAge(i) = FOUND_DEPTH - i /\ i \in 1 .. Len(fifo)
          BY <1>1, <2>1, Constants DEF MaxAge
        <5> QED
          BY <3>1, <5>1 DEF Recorded
      <4>2. i \in 1 .. FOUND_DEPTH
        BY <2>1, Constants DEF IInv, TypeOK
      <4>3. age \in 0 .. FOUND_DEPTH - 1 /\ age + 1 \in 0 .. MaxAge(i)'
        BY <1>3, <4>1, <4>2, Constants DEF MaxAge
      <4>4. fifo[i].wid = Back(work_id', age + 1) /\ works'[fifo[i].wid] = works[fifo[i].wid]
        BY <3>4, <4>1, <4>3
      <4> QED
        BY <2>1, <3>1, <4>3, <4>4 DEF Recorded
    <3> QED
      BY <1>1, <1>3, <2>1, <3>3, <3>5, <3>6, Constants DEF Recorded
  <2> QED
    BY <1>3, <2>3, <2>4, <2>5 DEF IInv
<1> QED
  BY <1>2, <1>3 DEF Load

LEMMA PopIInv == IInv /\ Pop => IInv'
<1> SUFFICES ASSUME IInv, Pop PROVE IInv'
  OBVIOUS
<1>1. /\ late' = None /\ UNCHANGED <<work_id, running, pending, taken, handed, rightly, books>>
      /\ fifo' \in Seq(Entry) /\ Len(fifo') <= FOUND_DEPTH
  BY PopsBooks DEF Pop, IInv
<1>2. pc = "pop" /\ next_wid # None
  BY DEF IInv, TypeOK, Pop
<1>3. CASE fifo = <<>>
  <2>1. pc' = "top" /\ UNCHANGED <<found, fifo>> /\ Len(fifo) = 0
    BY <1>3 DEF Pop, Pops
  <2>2. TypeOK' /\ Books'
    BY <1>1, <2>1 DEF IInv, TypeOK, Books, books
  <2>3. SyncInStep' /\ IdsInStep' /\ FindsCredited' /\ HandedOverAreShares'
    BY <1>1, <2>1 DEF IInv, SyncInStep, IdsInStep, FindsCredited, HandedOverAreShares, books
  <2>4. rightly /\ next_wid # None => Recorded'
    BY <1>1, <1>2, <2>1 DEF IInv, Recorded, books
  <2> QED
    BY <1>1, <2>2, <2>3, <2>4 DEF IInv, books
<1>4. CASE fifo # <<>>
  <2>1. /\ pc' = "check" /\ found' = fifo[1] /\ found' \in Entry
        /\ fifo' = Tail(fifo) /\ Len(fifo) \in 1 .. FOUND_DEPTH /\ Len(fifo') = Len(fifo) - 1
        /\ \A i \in 1 .. Len(fifo) - 1 : fifo'[i] = fifo[i + 1]
    BY <1>4, Front DEF Pop, Pops, IInv
  <2>2. TypeOK' /\ Books'
    BY <1>1, <1>2, <2>1 DEF IInv, TypeOK, Books, books
  <2>3. rightly => works[found'.wid] = found'.of
    BY <1>2, <2>1, Constants DEF IInv, Recorded
  <2>4. SyncInStep' /\ IdsInStep' /\ FindsCredited' /\ HandedOverAreShares'
    BY <1>1, <2>1, <2>3 DEF IInv, SyncInStep, IdsInStep, FindsCredited, HandedOverAreShares, books
  <2>5. ASSUME rightly
        PROVE  Recorded'
    <3>1. Recorded
      BY <1>2, <2>5 DEF IInv
    <3>2. ASSUME NEW i \in 1 .. Len(fifo')
          PROVE  /\ \E age \in 0 .. MaxAge(i)' : fifo'[i].wid = Back(work_id', age)
                 /\ works'[fifo'[i].wid] = fifo'[i].of
      <4>1. i + 1 \in 1 .. Len(fifo) /\ fifo'[i] = fifo[i + 1]
        BY <2>1, Constants
      <4>2. MaxAge(i + 1) = MaxAge(i)'
        BY <1>2, <2>1, <4>1, Constants DEF MaxAge
      <4> QED
        BY <1>1, <3>1, <4>1, <4>2 DEF Recorded, Back, books
    <3> QED
      BY <1>1, <3>1, <3>2 DEF Recorded, books
  <2> QED
    BY <1>1, <2>2, <2>4, <2>5 DEF IInv
<1> QED
  BY <1>3, <1>4

LEMMA CheckIInv == IInv /\ Check => IInv'
<1> SUFFICES ASSUME IInv, Check PROVE IInv'
  OBVIOUS
<1>1. /\ pc = "check" /\ found \in Entry /\ pc' = "top" /\ next_wid # None /\ next_wid \in Wid
      /\ bad_streak \in 0 .. RESYNC_AFTER - 1
      /\ UNCHANGED <<pending, taken, works, last_work, core, rightly>>
  BY Constants DEF IInv, TypeOK, Books, Check
<1>2. /\ next_wid' \in {next_wid, None} /\ bad_streak' \in 0 .. RESYNC_AFTER
      /\ next_wid' # None => bad_streak' < RESYNC_AFTER
      /\ handed' = handed \/ (handed' \in Work \X Entry /\ handed'[2].of = handed'[1])
  <2> DEFINE work == works[found.wid]
  <2>1. found.wid \in Wid /\ work \in Work \union {None}
    BY <1>1 DEF IInv, TypeOK, Entry
  <2>2. CASE work # None /\ IsShare(work, found)
    BY <1>1, <2>1, <2>2, Constants DEF Check, IsShare
  <2>3. CASE ~(work # None /\ IsShare(work, found))
    BY <1>1, <2>3, Constants DEF Check, bad
  <2> QED
    BY <2>2, <2>3
<1>3. TypeOK' /\ Books'
  BY <1>1, <1>2 DEF IInv, TypeOK, Books, core
<1>4. SyncInStep' /\ IdsInStep' /\ FindsCredited' /\ HandedOverAreShares'
  BY <1>1, <1>2 DEF IInv, SyncInStep, IdsInStep, FindsCredited, HandedOverAreShares, core
<1>5. ASSUME rightly
      PROVE  Recorded'
  <2>1. Recorded
    BY <1>1, <1>5 DEF IInv
  <2>2. \A i : MaxAge(i)' = MaxAge(i)
    BY <1>1 DEF MaxAge
  <2> QED
    BY <1>1, <2>1, <2>2 DEF Recorded, Back, core
<1> QED
  BY <1>1, <1>3, <1>4, <1>5 DEF IInv

-----------------------------------------------------------------------------
(* The event loop and the board.                                           *)

LEMMA SetWorkIInv == IInv /\ set_work => IInv'
<1> SUFFICES ASSUME IInv, set_work PROVE IInv'
  OBVIOUS
<1> USE DEF set_work, books, core
<1>1. TypeOK' /\ Books'
  BY DEF IInv, TypeOK, Books
<1>2. SyncInStep' /\ IdsInStep' /\ FindsCredited' /\ HandedOverAreShares'
  BY DEF IInv, SyncInStep, IdsInStep, FindsCredited, HandedOverAreShares
<1>3. rightly /\ next_wid # None => Recorded'
  BY DEF IInv, Recorded, MaxAge, Back
<1> QED
  BY <1>1, <1>2, <1>3 DEF IInv

LEMMA FindsIInv == IInv /\ Finds => IInv'
<1> SUFFICES ASSUME IInv, Finds PROVE IInv'
  OBVIOUS
<1>1. /\ UNCHANGED <<pc, pending, taken, found, books, work_id, running, handed, rightly>>
      /\ late' \in {late, None} /\ fifo \in Seq(Entry) /\ Len(fifo) < FOUND_DEPTH
  BY DEF Finds, IInv, TypeOK
<1>2. PICK e \in Entry : /\ fifo' = Append(fifo, e)
                         /\ \/ Mines(running) /\ e = [wid |-> work_id, of |-> running]
                            \/ late # None /\ e = late
  BY DEF Finds, IInv, Books, Mines, Entry
<1>3. /\ fifo' \in Seq(Entry) /\ Len(fifo') = Len(fifo) + 1 /\ Len(fifo) \in Nat
      /\ fifo'[Len(fifo) + 1] = e
      /\ \A i \in 1 .. Len(fifo) : fifo'[i] = fifo[i]
  BY <1>1, <1>2, AppendProperties, LenProperties
<1>4. TypeOK' /\ Books'
  BY <1>1, <1>3, Constants DEF IInv, TypeOK, Books, books
<1>5. SyncInStep' /\ IdsInStep' /\ FindsCredited' /\ HandedOverAreShares'
  BY <1>1 DEF IInv, SyncInStep, IdsInStep, FindsCredited, HandedOverAreShares, books
<1>6. ASSUME rightly, next_wid # None
      PROVE  Recorded'
  <2>1. Recorded /\ work_id \in Wid
    BY <1>6 DEF IInv, Books
  <2>2. /\ \E age \in 0 .. MaxAge(Len(fifo) + 1) : e.wid = Back(work_id, age)
        /\ works[e.wid] = e.of
    <3>1. CASE Mines(running) /\ e = [wid |-> work_id, of |-> running]
      <4>1. running \in Work /\ works[work_id] = running
        BY <2>1, <3>1 DEF Recorded, Mines
      <4>2. e.wid = Back(work_id, 0) /\ 0 \in 0 .. MaxAge(Len(fifo) + 1)
        BY <1>1, <1>3, <2>1, <3>1, Constants DEF Back, MaxAge, Wid
      <4> QED
        BY <3>1, <4>1, <4>2
    <3>2. CASE late # None /\ e = late
      <4>1. 1 \in 0 .. MaxAge(Len(fifo) + 1)
        BY <1>1, <1>3, <2>1, <3>2, Constants DEF Recorded, MaxAge
      <4> QED
        BY <2>1, <3>2, <4>1 DEF Recorded
    <3> QED
      BY <1>2, <3>1, <3>2
  <2>3. \A i \in 1 .. Len(fifo') :
          /\ \E age \in 0 .. MaxAge(i)' : fifo'[i].wid = Back(work_id', age)
          /\ works'[fifo'[i].wid] = fifo'[i].of
    <3> SUFFICES ASSUME NEW i \in 1 .. Len(fifo')
                 PROVE  /\ \E age \in 0 .. MaxAge(i) : fifo'[i].wid = Back(work_id, age)
                        /\ works[fifo'[i].wid] = fifo'[i].of
      BY <1>1 DEF MaxAge, Back, books
    <3>1. CASE i = Len(fifo) + 1
      BY <1>3, <2>2, <3>1
    <3>2. CASE i \in 1 .. Len(fifo)
      BY <1>3, <2>1, <3>2 DEF Recorded
    <3> QED
      BY <1>3, <3>1, <3>2
  <2> QED
    BY <1>1, <2>1, <2>3 DEF Recorded, Back, books
<1> QED
  BY <1>1, <1>4, <1>5, <1>6 DEF IInv, books

LEMMA StutterIInv == IInv /\ UNCHANGED vars => IInv'
<1> SUFFICES ASSUME IInv, UNCHANGED vars PROVE IInv'
  OBVIOUS
<1> USE DEF vars, books, core
<1>1. TypeOK' /\ Books'
  BY DEF IInv, TypeOK, Books
<1>2. SyncInStep' /\ IdsInStep' /\ FindsCredited' /\ HandedOverAreShares'
  BY DEF IInv, SyncInStep, IdsInStep, FindsCredited, HandedOverAreShares
<1>3. rightly /\ next_wid # None => Recorded'
  BY DEF IInv, Recorded, MaxAge, Back
<1> QED
  BY <1>1, <1>2, <1>3 DEF IInv

LEMMA StepIInv == IInv /\ [Next]_vars => IInv'
<1> SUFFICES ASSUME IInv, [Next]_vars PROVE IInv'
  OBVIOUS
<1>1. CASE SyncStart
  BY <1>1, SyncStartIInv
<1>2. CASE SyncFind
  BY <1>2, SyncFindIInv
<1>3. CASE SyncPark
  BY <1>3, SyncParkIInv
<1>4. CASE Drain
  BY <1>4, DrainIInv
<1>5. CASE Take
  BY <1>5, TakeIInv
<1>6. CASE Load
  BY <1>6, LoadIInv
<1>7. CASE Pop
  BY <1>7, PopIInv
<1>8. CASE Check
  BY <1>8, CheckIInv
<1>9. CASE PopFails
  BY <1>9, PopFailsIInv
<1>10. CASE set_work
  BY <1>10, SetWorkIInv
<1>11. CASE Finds
  BY <1>11, FindsIInv
<1>12. CASE UNCHANGED vars
  BY <1>12, StutterIInv
<1> QED
  BY <1>1, <1>2, <1>3, <1>4, <1>5, <1>6, <1>7, <1>8, <1>9, <1>10, <1>11, <1>12 DEF Next

LEMMA Inductive == Spec => []IInv
<1> QED
  BY InitIInv, StepIInv, PTL DEF Spec

-----------------------------------------------------------------------------

(* The thread's books keep their types, whichever calls fail               *)
(* (pool_bridge.py:86-96).                                                 *)
THEOREM TypeCorrect == Spec => []TypeOK
<1>1. IInv => TypeOK
  BY DEF IInv
<1> QED
  BY <1>1, Inductive, PTL

(* The thread's count stays core's id (pool_bridge.py:116-158,             *)
(* core.sv:326-339).                                                       *)
THEOREM CountKeepsStep == Spec => []IdsInStep
<1>1. IInv => IdsInStep
  BY DEF IInv
<1> QED
  BY <1>1, Inductive, PTL

(* No find is looked up under another work while the count is right: the   *)
(* history outlives whatever waits in the FIFO (pool_bridge.py:33-35,      *)
(* 155-156, 160-174).                                                      *)
THEOREM EveryFindIsCredited == Spec => []FindsCredited
<1>1. IInv => FindsCredited
  BY DEF IInv
<1> QED
  BY <1>1, Inductive, PTL

(* What is handed over for a work is a find of it, even when the count is  *)
(* wrong (pool_bridge.py:5-7, 166-174).                                    *)
THEOREM OnlySharesHandedOver == Spec => []HandedOverAreShares
<1>1. IInv => HandedOverAreShares
  BY DEF IInv
<1> QED
  BY <1>1, Inductive, PTL

==============================================================================
