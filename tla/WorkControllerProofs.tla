----------------------- MODULE WorkControllerProofs -----------------------
(***************************************************************************)
(* Proofs about the found FIFO for every depth, address map and set of     *)
(* finds: registers keep their types under any traffic, and while the host *)
(* keeps up the ring of slots is the promised queue.                       *)
(***************************************************************************)
EXTENDS WorkController, SequenceTheorems, TLAPS

LEMMA SlotArithmetic ==
  /\ FOUND_DEPTH \in Nat /\ FOUND_DEPTH > 0
  /\ \A p \in Slot : Advance(p) \in Slot
  BY WorkControllerConstants DEF Slot, Advance

LEMMA InitTypeOK == Init => TypeOK
  BY WorkControllerConstants, SlotArithmetic
     DEF Init, TypeOK, Slot, HeldHi, HeldId, Part

(* What the read port answers with is always one of its kinds of answer.   *)
LEMMA AnswerType ==
  ASSUME TypeOK, NEW addr \in Addr
  PROVE  Answer(addr) \in Part \union HeldHi \union HeldId
<1>1. CASE addr \in JobAddr
  <2>1. regs[addr] \in Word
    BY <1>1 DEF TypeOK
  <2>2. Answer(addr) = JobWord(regs[addr])
    BY <1>1, WorkControllerConstants DEF Answer, ReadOnlyAddr
  <2> QED BY <2>1, <2>2 DEF Part
<1>2. CASE addr = "STATUS"
  BY <1>2, WorkControllerConstants DEF Answer, ReadOnlyAddr, Part
<1>3. CASE addr = "FOUND_COUNT"
  BY <1>3, WorkControllerConstants DEF Answer, ReadOnlyAddr, Part, TypeOK
<1>4. CASE addr = "FOUND_NONCE0"
  BY <1>4, WorkControllerConstants DEF Answer, ReadOnlyAddr, Part, TypeOK
<1>5. CASE addr \in {"FOUND_NONCE1", "FOUND_WORKID", "CTRL", "UNMAPPED"}
  BY <1>5, WorkControllerConstants DEF Answer, ReadOnlyAddr, Part, TypeOK
<1> QED
  BY <1>1, <1>2, <1>3, <1>4, <1>5 DEF Addr, ReadOnlyAddr

(* One clock edge keeps every register within its type, whatever is on the *)
(* bus and whatever core presents.                                         *)
LEMMA ClockTypeOK ==
  ASSUME TypeOK, NEW we \in BOOLEAN, NEW re \in BOOLEAN, NEW addr \in Addr,
         NEW wdata \in Word, NEW found \in Presented,
         Clock(we, re, addr, wdata, found)
  PROVE  TypeOK'
<1> USE SlotArithmetic
<1>1. regs' \in [JobAddr -> Word]
  BY DEF Clock, JobRegisters, TypeOK
<1>2. found_mem' \in [Slot -> Find \union {NoFind}] /\ found_wr_ptr' \in Slot
  BY DEF Clock, PushSide, TypeOK, Presented
<1>3. found_count' \in 0 .. FOUND_DEPTH
  <2>1. CASE DoPush(found) /\ ~DoPop(re, addr)
    BY <2>1 DEF Clock, Occupancy, TypeOK
  <2>2. CASE ~DoPush(found) /\ DoPop(re, addr)
    BY <2>2 DEF Clock, Occupancy, TypeOK, DoPop
  <2>3. CASE DoPush(found) <=> DoPop(re, addr)
    BY <2>3 DEF Clock, Occupancy, TypeOK
  <2> QED BY <2>1, <2>2, <2>3
<1>4. rdata' \in Part \union HeldHi \union HeldId
  BY AnswerType DEF Clock, ReadPort, TypeOK
<1>5. found_rd_ptr' \in Slot /\ cur_nonce_hi' \in HeldHi /\ cur_workid' \in HeldId
  <2>1. CASE DoPop(re, addr)
    <3>1. found_mem[found_rd_ptr] \in Find \union {NoFind}
      BY DEF TypeOK
    <3> QED BY <2>1, <3>1 DEF Clock, ReadPort, TypeOK, HeldHi, HeldId
  <2>2. CASE ~DoPop(re, addr)
    BY <2>2 DEF Clock, ReadPort, TypeOK
  <2> QED BY <2>1, <2>2
<1> QED BY <1>1, <1>2, <1>3, <1>4, <1>5 DEF TypeOK

LEMMA ResetTypeOK == TypeOK /\ Reset => TypeOK'
  BY WorkControllerConstants, SlotArithmetic
     DEF Reset, TypeOK, Slot, HeldHi, HeldId, Part

LEMMA StutterTypeOK == TypeOK /\ UNCHANGED vars => TypeOK'
  BY DEF TypeOK, vars

(* The registers of the work controller keep their types whatever the host *)
(* and core do, overflow included (work_controller.sv).                    *)
THEOREM TypeCorrect == Spec => []TypeOK
<1>1. TypeOK /\ [Next]_vars => TypeOK'
  BY ClockTypeOK, ResetTypeOK, StutterTypeOK DEF Next
<1> QED
  BY InitTypeOK, <1>1, PTL DEF Spec

(* The same for the host that keeps up.                                    *)
THEOREM PacedTypeCorrect == PacedSpec => []TypeOK
<1>1. TypeOK /\ [PacedNext]_vars => TypeOK'
  BY ClockTypeOK, ResetTypeOK, StutterTypeOK DEF PacedNext
<1> QED
  BY InitTypeOK, <1>1, PTL DEF PacedSpec

-----------------------------------------------------------------------------
(* The ring: counting slots from one slot round the end to the same slot.  *)

LEMMA RingSlots ==
  ASSUME NEW p \in Slot
  PROVE  /\ \A i \in 0 .. FOUND_DEPTH : Ahead(p, i) \in Slot
         /\ \A i \in 0 .. FOUND_DEPTH - 1 : Ahead(p, i + 1) = Advance(Ahead(p, i))
         /\ \A i \in 0 .. FOUND_DEPTH - 1 : Ahead(Advance(p), i) = Ahead(p, i + 1)
         /\ Ahead(p, 0) = p
         /\ Ahead(p, FOUND_DEPTH) = p
         /\ Ahead(Advance(p), FOUND_DEPTH) = Advance(p)
  BY SlotArithmetic DEF Ahead, Slot, Advance

LEMMA RingInjective ==
  ASSUME NEW p \in Slot, NEW i \in 0 .. FOUND_DEPTH - 1, NEW j \in 0 .. FOUND_DEPTH - 1,
         Ahead(p, i) = Ahead(p, j)
  PROVE  i = j
  BY SlotArithmetic DEF Ahead, Slot

(* What the two writers of the ring do in one cycle of a host that keeps   *)
(* up, by which of them is active.                                         *)
LEMMA ClockCases ==
  ASSUME TypeOK, PointersAgree,
         NEW we \in BOOLEAN, NEW re \in BOOLEAN, NEW addr \in Addr,
         NEW wdata \in Word, NEW found \in Presented,
         Room(found, re, addr), Clock(we, re, addr, wdata, found)
  PROVE  \/ /\ \E f \in Find : found = {f} /\ found_mem' = [found_mem EXCEPT ![found_wr_ptr] = f]
            /\ found_wr_ptr' = Advance(found_wr_ptr)
            /\ \/ DoPop(re, addr) /\ found_count' = found_count
               \/ ~DoPop(re, addr) /\ found_count < FOUND_DEPTH
                    /\ found_count' = found_count + 1
         \/ /\ UNCHANGED <<found_mem, found_wr_ptr>>
            /\ found = {}
            /\ \/ DoPop(re, addr) /\ found_count' = found_count - 1
               \/ ~DoPop(re, addr) /\ found_count' = found_count
<1>1. CASE found = {}
  BY <1>1 DEF Clock, PushSide, Occupancy, DoPush
<1>2. CASE found # {}
  <2>1. PICK f \in Find : found = {f}
    BY <1>2 DEF Presented
  <2>2. /\ found_mem' = [found_mem EXCEPT ![found_wr_ptr] = f]
        /\ found_wr_ptr' = Advance(found_wr_ptr)
    BY <2>1 DEF Clock, PushSide, DoPush
  <2>3. CASE DoPop(re, addr)
    BY <2>1, <2>2, <2>3 DEF Clock, Occupancy, DoPush
  <2>4. CASE ~DoPop(re, addr)
    <3>1. found_count < FOUND_DEPTH
      BY <1>2, <2>4 DEF Room, DoPush
    <3>2. found_count # FOUND_DEPTH
      BY <3>1, SlotArithmetic DEF TypeOK
    <3>3. found_count' = found_count + 1
      BY <1>2, <2>4, <3>2 DEF Clock, Occupancy, DoPush
    <3> QED BY <2>1, <2>2, <2>4, <3>1, <3>3
  <2> QED BY <2>3, <2>4
<1> QED BY <1>1, <1>2

LEMMA ReadPointer ==
  ASSUME NEW we, NEW re \in BOOLEAN, NEW addr, NEW wdata, NEW found,
         Clock(we, re, addr, wdata, found)
  PROVE  found_rd_ptr' = IF DoPop(re, addr) THEN Advance(found_rd_ptr) ELSE found_rd_ptr
  BY DEF Clock, ReadPort

LEMMA ClockPointersAgree ==
  ASSUME TypeOK, PointersAgree,
         NEW we \in BOOLEAN, NEW re \in BOOLEAN, NEW addr \in Addr,
         NEW wdata \in Word, NEW found \in Presented,
         Room(found, re, addr), Clock(we, re, addr, wdata, found)
  PROVE  PointersAgree'
<1> USE SlotArithmetic
<1> DEFINE rd == found_rd_ptr
           n == found_count
<1>1. rd \in Slot /\ n \in 0 .. FOUND_DEPTH /\ found_mem \in [Slot -> Find \union {NoFind}]
  BY DEF TypeOK
<1>2. found_wr_ptr = Ahead(rd, n) /\ \A i \in 0 .. n - 1 : found_mem[Ahead(rd, i)] \in Find
  BY DEF PointersAgree
<1>3. CASE found = {} /\ ~DoPop(re, addr)
  <2>1. found_rd_ptr' = rd /\ found_wr_ptr' = found_wr_ptr
          /\ found_mem' = found_mem /\ found_count' = n
    BY <1>3, ReadPointer, ClockCases
  <2> QED BY <1>2, <2>1 DEF PointersAgree
<1>4. CASE found = {} /\ DoPop(re, addr)
  <2>1. found_rd_ptr' = Advance(rd) /\ found_wr_ptr' = found_wr_ptr
          /\ found_mem' = found_mem /\ found_count' = n - 1 /\ n # 0
    BY <1>4, ReadPointer, ClockCases DEF DoPop
  <2>2. \A i \in 0 .. n - 1 : Ahead(Advance(rd), i) = Ahead(rd, i + 1)
    BY <1>1, RingSlots
  <2>3. found_wr_ptr' = Ahead(Advance(rd), n - 1)
    BY <1>1, <1>2, <2>1, <2>2
  <2>4. \A i \in 0 .. n - 2 : found_mem[Ahead(Advance(rd), i)] \in Find
    BY <1>1, <1>2, <2>2
  <2>5. (n - 1) - 1 = n - 2
    BY <1>1
  <2> QED BY <2>1, <2>3, <2>4, <2>5 DEF PointersAgree
<1>5. CASE found # {} /\ ~DoPop(re, addr)
  <2>1. PICK f \in Find : found_mem' = [found_mem EXCEPT ![found_wr_ptr] = f]
    BY <1>5, ClockCases
  <2>2. found_rd_ptr' = rd /\ found_wr_ptr' = Advance(found_wr_ptr)
          /\ found_count' = n + 1 /\ n < FOUND_DEPTH
    BY <1>5, ReadPointer, ClockCases
  <2>3. found_wr_ptr' = Ahead(rd, n + 1)
    BY <1>1, <1>2, <2>2, RingSlots
  <2>4. ASSUME NEW i \in 0 .. n PROVE found_mem'[Ahead(rd, i)] \in Find
    <3>1. Ahead(rd, i) \in Slot
      BY <1>1, RingSlots
    <3>2. CASE i = n
      BY <1>1, <1>2, <2>1, <3>1, <3>2
    <3>3. CASE i < n
      <4>1. Ahead(rd, i) # found_wr_ptr
        BY <1>1, <1>2, <2>2, <3>3, RingInjective
      <4> QED BY <1>1, <1>2, <2>1, <3>1, <3>3, <4>1
    <3> QED BY <1>1, <3>2, <3>3
  <2>5. (n + 1) - 1 = n
    BY <1>1
  <2> QED BY <2>2, <2>3, <2>4, <2>5 DEF PointersAgree
<1>6. CASE found # {} /\ DoPop(re, addr)
  <2>1. PICK f \in Find : found_mem' = [found_mem EXCEPT ![found_wr_ptr] = f]
    BY <1>6, ClockCases
  <2>2. found_rd_ptr' = Advance(rd) /\ found_wr_ptr' = Advance(found_wr_ptr)
          /\ found_count' = n /\ n # 0
    BY <1>6, ReadPointer, ClockCases DEF DoPop
  <2>3. found_wr_ptr' = Ahead(Advance(rd), n)
    <3>1. CASE n < FOUND_DEPTH
      BY <1>1, <1>2, <2>2, <3>1, RingSlots
    <3>2. CASE n = FOUND_DEPTH
      BY <1>1, <1>2, <2>2, <3>2, RingSlots
    <3> QED BY <1>1, <3>1, <3>2
  <2>4. ASSUME NEW i \in 0 .. n - 1 PROVE found_mem'[Ahead(Advance(rd), i)] \in Find
    <3>1. Ahead(Advance(rd), i) = Ahead(rd, i + 1) /\ Ahead(rd, i + 1) \in Slot
      BY <1>1, RingSlots
    <3>2. CASE i = n - 1
      BY <1>1, <1>2, <2>1, <3>1, <3>2
    <3>3. CASE i < n - 1
      <4>1. Ahead(rd, i + 1) # found_wr_ptr
        <5>1. CASE n < FOUND_DEPTH
          BY <1>1, <1>2, <3>3, <5>1, RingInjective
        <5>2. CASE n = FOUND_DEPTH
          <6>1. found_wr_ptr = Ahead(rd, 0)
            BY <1>1, <1>2, <5>2, RingSlots
          <6> QED BY <1>1, <3>3, <5>2, <6>1, RingInjective
        <5> QED BY <1>1, <5>1, <5>2
      <4> QED BY <1>1, <1>2, <2>1, <3>1, <3>3, <4>1
    <3> QED BY <1>1, <3>2, <3>3
  <2> QED BY <2>2, <2>3, <2>4 DEF PointersAgree
<1> QED BY <1>3, <1>4, <1>5, <1>6

(* While the host keeps up, the pointers and the count of the found FIFO   *)
(* agree and every unread slot holds a find (work_controller.sv:119-150).  *)
THEOREM PointersAlwaysAgree == PacedSpec => []PointersAgree
<1>1. Init => PointersAgree
  BY SlotArithmetic DEF Init, PointersAgree, Ahead
<1>2. TypeOK /\ PointersAgree /\ [PacedNext]_vars => PointersAgree'
  <2>1. TypeOK /\ PointersAgree /\ Reset => PointersAgree'
    BY SlotArithmetic DEF Reset, PointersAgree, Ahead
  <2>2. PointersAgree /\ UNCHANGED vars => PointersAgree'
    BY DEF vars, PointersAgree
  <2> QED BY <2>1, <2>2, ClockPointersAgree DEF PacedNext
<1> QED
  BY <1>1, <1>2, PacedTypeCorrect, PTL DEF PacedSpec

-----------------------------------------------------------------------------
(* The refinement: the unread slots, read round the ring, are the queue.   *)

(* Both held parts are of the entry popped last.                           *)
HeldTogether == cur_nonce_hi = NonceHi(Held) /\ cur_workid = WorkId(Held)

RingInv == TypeOK /\ PointersAgree /\ HeldTogether

LEMMA UnreadSeq ==
  RingInv => /\ Unread \in Seq(Find)
             /\ Len(Unread) = found_count
             /\ \A i \in 1 .. found_count :
                  Unread[i] = found_mem[Ahead(found_rd_ptr, i - 1)]
<1> SUFFICES ASSUME RingInv
             PROVE  /\ Unread \in Seq(Find)
                    /\ Len(Unread) = found_count
                    /\ \A i \in 1 .. found_count :
                         Unread[i] = found_mem[Ahead(found_rd_ptr, i - 1)]
  OBVIOUS
<1>1. found_count \in Nat
  BY SlotArithmetic DEF RingInv, TypeOK
<1>2. \A i \in 1 .. found_count : found_mem[Ahead(found_rd_ptr, i - 1)] \in Find
  BY <1>1 DEF RingInv, PointersAgree
<1>3. Unread \in [1 .. found_count -> Find]
  BY <1>2 DEF Unread
<1> QED BY <1>1, <1>3 DEF Unread

LEMMA AppendOne ==
  ASSUME NEW S, NEW s \in Seq(S), NEW f \in S
  PROVE  /\ s \o <<f>> \in Seq(S)
         /\ Len(s \o <<f>>) = Len(s) + 1
         /\ \A i \in 1 .. Len(s) : (s \o <<f>>)[i] = s[i]
         /\ (s \o <<f>>)[Len(s) + 1] = f
  OBVIOUS

LEMMA SameSeq ==
  ASSUME NEW S, NEW s \in Seq(S), NEW t \in Seq(S), Len(s) = Len(t),
         \A i \in 1 .. Len(s) : s[i] = t[i]
  PROVE  s = t
  BY SeqEqual

LEMMA ClockHeldTogether ==
  ASSUME HeldTogether, NEW we, NEW re \in BOOLEAN, NEW addr, NEW wdata, NEW found,
         Clock(we, re, addr, wdata, found)
  PROVE  /\ HeldTogether'
         /\ Held' = IF DoPop(re, addr) THEN found_mem[found_rd_ptr] ELSE Held
  BY DEF HeldTogether, Held, NonceHi, WorkId, Clock, ReadPort

(* An entry is pushed at the back and popped at the front of the sequence. *)
LEMMA ClockQueue ==
  ASSUME RingInv, RingInv',
         NEW we \in BOOLEAN, NEW re \in BOOLEAN, NEW addr \in Addr,
         NEW wdata \in Word, NEW found \in Presented,
         Room(found, re, addr), Clock(we, re, addr, wdata, found)
  PROVE  \E new \in Promise!Arrivals :
           /\ DoPop(re, addr) =>
                Unread # <<>> /\ Unread' = Promise!Enqueue(Tail(Unread), new)
           /\ ~DoPop(re, addr) => Unread' = Promise!Enqueue(Unread, new)
<1> USE SlotArithmetic
<1> DEFINE rd == found_rd_ptr
           n == found_count
<1>1. /\ rd \in Slot /\ n \in 0 .. FOUND_DEPTH
      /\ found_mem \in [Slot -> Find \union {NoFind}]
      /\ found_wr_ptr = Ahead(rd, n)
      /\ found_count' \in 0 .. FOUND_DEPTH
  BY DEF RingInv, TypeOK, PointersAgree
<1>2. /\ Unread \in Seq(Find) /\ Len(Unread) = n
      /\ \A i \in 1 .. n : Unread[i] = found_mem[Ahead(rd, i - 1)]
  BY UnreadSeq
<1>3. (/\ Unread \in Seq(Find)
       /\ Len(Unread) = found_count
       /\ \A i \in 1 .. found_count :
            Unread[i] = found_mem[Ahead(found_rd_ptr, i - 1)])'
  BY UnreadSeq, PTL
<1>4. TypeOK /\ PointersAgree
  BY DEF RingInv
<1>5. PICK new \in Promise!Arrivals :
         \/ new = <<>> /\ found = {} /\ found_mem' = found_mem
         \/ \E f \in Find : /\ new = <<f>> /\ found = {f}
                            /\ found_mem' = [found_mem EXCEPT ![found_wr_ptr] = f]
  <2>1. CASE found = {}
    BY <1>4, <2>1, ClockCases DEF Promise!Arrivals
  <2>2. CASE found # {}
    <3>1. PICK f \in Find : found = {f} /\ found_mem' = [found_mem EXCEPT ![found_wr_ptr] = f]
      BY <1>4, <2>2, ClockCases
    <3>2. <<f>> \in Promise!Arrivals
      BY <3>1 DEF Promise!Arrivals
    <3> QED BY <3>1, <3>2
  <2> QED BY <2>1, <2>2
<1> DEFINE left == IF DoPop(re, addr) THEN Tail(Unread) ELSE Unread
           m == IF DoPop(re, addr) THEN n - 1 ELSE n
<1>6. /\ left \in Seq(Find) /\ Len(left) = m /\ m \in Nat
      /\ \A i \in 1 .. m : left[i] = found_mem[Ahead(found_rd_ptr', i - 1)]
      /\ DoPop(re, addr) => Unread # <<>>
  <2>1. CASE DoPop(re, addr)
    <3>1. n # 0 /\ found_rd_ptr' = Advance(rd)
      BY <2>1, ReadPointer DEF DoPop
    <3>2. Unread # <<>>
      BY <1>1, <1>2, <3>1
    <3>3. /\ Tail(Unread) \in Seq(Find) /\ Len(Tail(Unread)) = n - 1
          /\ \A i \in 1 .. n - 1 : Tail(Unread)[i] = Unread[i + 1]
      BY <1>2, <3>2, HeadTailProperties
    <3>4. ASSUME NEW i \in 1 .. n - 1
          PROVE  Tail(Unread)[i] = found_mem[Ahead(Advance(rd), i - 1)]
      <4>1. Ahead(Advance(rd), i - 1) = Ahead(rd, (i - 1) + 1)
        BY <1>1, RingSlots
      <4>2. (i - 1) + 1 = i /\ (i + 1) - 1 = i /\ i + 1 \in 1 .. n
        BY <1>1
      <4> QED BY <1>2, <3>3, <4>1, <4>2
    <3> QED BY <1>1, <2>1, <3>1, <3>2, <3>3, <3>4
  <2>2. CASE ~DoPop(re, addr)
    BY <1>1, <1>2, <2>2, ReadPointer
  <2> QED BY <2>1, <2>2
<1> HIDE DEF left, m
<1>7. Unread' = left \o new /\ Len(left \o new) <= FOUND_DEPTH
  <2>1. CASE found = {}
    <3>1. new = <<>> /\ found_mem' = found_mem /\ found_count' = m
      BY <1>4, <1>5, <2>1, ClockCases DEF m
    <3>2. left \o new = left
      BY <1>6, <3>1, ConcatEmptySeq
    <3>3. Unread' = left
      BY <1>3, <1>6, <3>1, SameSeq
    <3> QED BY <1>1, <1>6, <3>1, <3>2, <3>3
  <2>2. CASE found # {}
    <3>1. PICK f \in Find : new = <<f>> /\ found_mem' = [found_mem EXCEPT ![found_wr_ptr] = f]
      BY <1>5, <2>2
    <3>2. found_count' = m + 1
      BY <1>1, <1>4, <2>2, ClockCases DEF m
    <3>4. /\ left \o <<f>> \in Seq(Find) /\ Len(left \o <<f>>) = m + 1
          /\ \A i \in 1 .. m : (left \o <<f>>)[i] = left[i]
          /\ (left \o <<f>>)[m + 1] = f
      BY <1>6, AppendOne
    <3>5. found_wr_ptr = Ahead(found_rd_ptr', m) /\ found_wr_ptr \in Slot
            /\ found_rd_ptr' \in Slot /\ m < FOUND_DEPTH
      <4>1. CASE DoPop(re, addr)
        <5>1. found_rd_ptr' = Advance(rd) /\ n # 0
          BY <4>1, ReadPointer DEF DoPop
        <5>2. Ahead(Advance(rd), n - 1) = Ahead(rd, (n - 1) + 1) /\ (n - 1) + 1 = n
          BY <1>1, <5>1, RingSlots
        <5> QED BY <1>1, <4>1, <5>1, <5>2, RingSlots DEF m
      <4>2. CASE ~DoPop(re, addr)
        <5>1. found_rd_ptr' = rd /\ n < FOUND_DEPTH
          BY <1>4, <2>2, <4>2, ClockCases, ReadPointer
        <5> QED BY <1>1, <4>2, <5>1, RingSlots DEF m
      <4> QED BY <4>1, <4>2
    <3>6. ASSUME NEW i \in 1 .. m + 1
          PROVE  found_mem'[Ahead(found_rd_ptr', i - 1)] = (left \o <<f>>)[i]
      <4>1. Ahead(found_rd_ptr', i - 1) \in Slot
        BY <1>6, <3>5, RingSlots
      <4>2. CASE i = m + 1
        <5>1. i - 1 = m
          BY <1>6, <4>2
        <5> QED BY <1>1, <3>1, <3>4, <3>5, <4>1, <4>2, <5>1
      <4>3. CASE i <= m
        <5>1. Ahead(found_rd_ptr', i - 1) # found_wr_ptr
          BY <1>6, <3>5, <4>3, RingInjective
        <5> QED BY <1>1, <1>6, <3>1, <3>4, <4>1, <4>3, <5>1
      <4> QED BY <1>6, <4>2, <4>3
    <3>7. Unread' = left \o <<f>>
      <4> DEFINE t == left \o <<f>>
      <4>1. /\ Unread' \in Seq(Find) /\ Len(Unread') = m + 1
            /\ \A i \in 1 .. m + 1 : Unread'[i] = found_mem'[Ahead(found_rd_ptr', i - 1)]
        BY <1>3, <3>2
      <4>2. t \in Seq(Find) /\ Len(t) = m + 1
        BY <3>4
      <4>3. \A i \in 1 .. m + 1 : Unread'[i] = t[i]
        BY <3>6, <4>1
      <4> HIDE DEF t
      <4>4. Unread' = t
        BY <4>1, <4>2, <4>3, SameSeq
      <4> QED
        BY <4>4 DEF t
    <3> QED BY <1>6, <3>1, <3>4, <3>5, <3>7
  <2> QED BY <2>1, <2>2
<1>8. Unread' = Promise!Enqueue(left, new)
  BY <1>7, SlotArithmetic DEF Promise!Enqueue
<1> QED BY <1>6, <1>8 DEF left

(* What a read that pops nothing answers is one of the answers the queue   *)
(* may give without changing.                                              *)
LEMMA ClockLook ==
  ASSUME RingInv, NEW we, NEW re \in BOOLEAN, NEW addr \in Addr, NEW wdata, NEW found,
         Clock(we, re, addr, wdata, found), ~DoPop(re, addr)
  PROVE  \/ rdata' = rdata
         \/ rdata' = Promise!NonceHi(Held)
         \/ rdata' = Promise!WorkId(Held)
         \/ rdata' = Promise!Count(Len(Unread))
         \/ rdata' = Promise!NonEmpty(Unread # <<>>)
         \/ rdata' = Promise!Empty /\ Unread = <<>>
         \/ rdata'[1] \notin Promise!FindKinds
<1>1. CASE ~re
  BY <1>1 DEF Clock, ReadPort
<1>2. CASE re
  <2>1. rdata' = Answer(addr)
    BY <1>2 DEF Clock, ReadPort
  <2>2. CASE addr \in JobAddr
    <3>1. rdata' = JobWord(regs[addr])
      BY <2>1, <2>2, WorkControllerConstants DEF Answer, ReadOnlyAddr
    <3> QED BY <3>1 DEF JobWord, Promise!FindKinds
  <2>3. CASE addr = "STATUS"
    <3>1. rdata' = Status(found_count # 0)
      BY <2>1, <2>3, WorkControllerConstants DEF Answer, ReadOnlyAddr
    <3>2. (found_count # 0) <=> (Unread # <<>>)
      BY UnreadSeq
    <3>3. (found_count # 0) = (Unread # <<>>)
      BY <3>2
    <3> QED BY <3>1, <3>3 DEF Status, Promise!NonEmpty
  <2>4. CASE addr = "FOUND_COUNT"
    <3>1. rdata' = Count(found_count)
      BY <2>1, <2>4, WorkControllerConstants DEF Answer, ReadOnlyAddr
    <3> QED BY <3>1, UnreadSeq DEF Count, Promise!Count
  <2>5. CASE addr = "FOUND_NONCE0"
    <3>1. found_count = 0
      BY <1>2, <2>5 DEF DoPop
    <3>2. rdata' = Zero
      BY <2>1, <2>5, <3>1, WorkControllerConstants DEF Answer, ReadOnlyAddr
    <3>3. Unread = <<>>
      BY <3>1, UnreadSeq
    <3> QED BY <3>2, <3>3 DEF Zero, Promise!Empty
  <2>6. CASE addr = "FOUND_NONCE1"
    <3>1. rdata' = cur_nonce_hi
      BY <2>1, <2>6, WorkControllerConstants DEF Answer, ReadOnlyAddr
    <3> QED BY <3>1 DEF RingInv, HeldTogether, NonceHi, Promise!NonceHi
  <2>7. CASE addr = "FOUND_WORKID"
    <3>1. rdata' = cur_workid
      BY <2>1, <2>7, WorkControllerConstants DEF Answer, ReadOnlyAddr
    <3> QED BY <3>1 DEF RingInv, HeldTogether, WorkId, Promise!WorkId
  <2>8. CASE addr \in {"CTRL", "UNMAPPED"}
    <3>1. rdata' = Zero
      BY <2>1, <2>8, WorkControllerConstants DEF Answer, ReadOnlyAddr
    <3> QED BY <3>1 DEF Zero, Promise!FindKinds
  <2> QED BY <2>2, <2>3, <2>4, <2>5, <2>6, <2>7, <2>8 DEF Addr, ReadOnlyAddr
<1> QED BY <1>1, <1>2

(* A read of FOUND_NONCE0 with an entry to pop answers with the oldest.    *)
LEMMA ClockPop ==
  ASSUME RingInv, NEW we, NEW re \in BOOLEAN, NEW addr \in Addr, NEW wdata, NEW found,
         Clock(we, re, addr, wdata, found), DoPop(re, addr)
  PROVE  rdata' = Promise!NonceLo(Head(Unread)) /\ Held' = Head(Unread)
<1>1. found_count # 0 /\ found_count \in Nat /\ found_rd_ptr \in Slot
  BY SlotArithmetic DEF DoPop, RingInv, TypeOK
<1>2. Head(Unread) = found_mem[Ahead(found_rd_ptr, 0)]
  BY <1>1, UnreadSeq
<1>3. Head(Unread) = found_mem[found_rd_ptr]
  BY <1>1, <1>2, RingSlots
<1>4. rdata' = NonceLo(found_mem[found_rd_ptr])
  BY WorkControllerConstants DEF Clock, ReadPort, DoPop, Answer, ReadOnlyAddr
<1>5. Held' = found_mem[found_rd_ptr]
  BY ClockHeldTogether DEF RingInv
<1> QED BY <1>3, <1>4, <1>5 DEF NonceLo, Promise!NonceLo

LEMMA ClockImplements ==
  ASSUME RingInv, RingInv',
         NEW we \in BOOLEAN, NEW re \in BOOLEAN, NEW addr \in Addr,
         NEW wdata \in Word, NEW found \in Presented,
         Room(found, re, addr), Clock(we, re, addr, wdata, found)
  PROVE  Promise!Next
<1>1. PICK new \in Promise!Arrivals :
        /\ DoPop(re, addr) =>
             Unread # <<>> /\ Unread' = Promise!Enqueue(Tail(Unread), new)
        /\ ~DoPop(re, addr) => Unread' = Promise!Enqueue(Unread, new)
  BY ClockQueue
<1>2. CASE DoPop(re, addr)
  <2>1. Promise!Pop(new)
    BY <1>1, <1>2, ClockPop DEF Promise!Pop
  <2> QED BY <2>1 DEF Promise!Next
<1>3. CASE ~DoPop(re, addr)
  <2>1. Held' = Held
    BY <1>3, ClockHeldTogether DEF RingInv
  <2>2. Promise!Look(new)
    BY <1>1, <1>3, <2>1, ClockLook DEF Promise!Look
  <2> QED BY <2>2 DEF Promise!Next
<1> QED BY <1>2, <1>3

LEMMA ResetImplements == Reset => Promise!Next
  BY DEF Reset, Promise!Next, Promise!Reset, Unread, Held, WorkId, Zero, Promise!Empty

LEMMA RingInvInit == Init => RingInv /\ Promise!Init
<1> SUFFICES ASSUME Init PROVE RingInv /\ Promise!Init
  OBVIOUS
<1>1. TypeOK
  BY InitTypeOK
<1>2. PointersAgree
  BY SlotArithmetic DEF Init, PointersAgree, Ahead
<1>3. HeldTogether
  BY DEF Init, HeldTogether, Held, NonceHi, WorkId
<1>4. Promise!Init
  BY DEF Init, Promise!Init, Unread, Held, WorkId, Zero, Promise!Empty
<1> QED BY <1>1, <1>2, <1>3, <1>4 DEF RingInv

LEMMA RingInvStep == RingInv /\ [PacedNext]_vars => RingInv'
<1> SUFFICES ASSUME RingInv, [PacedNext]_vars PROVE RingInv'
  OBVIOUS
<1>1. TypeOK /\ PointersAgree /\ HeldTogether
  BY DEF RingInv
<1>2. CASE Reset
  <2>1. PointersAgree'
    BY <1>2, SlotArithmetic DEF Reset, PointersAgree, Ahead
  <2>2. HeldTogether'
    BY <1>2 DEF Reset, HeldTogether, Held, NonceHi, WorkId
  <2> QED BY <1>1, <1>2, <2>1, <2>2, ResetTypeOK DEF RingInv
<1>3. CASE UNCHANGED vars
  <2>1. PointersAgree' /\ HeldTogether'
    BY <1>1, <1>3 DEF vars, PointersAgree, HeldTogether, Held
  <2> QED BY <1>1, <1>3, <2>1, StutterTypeOK DEF RingInv
<1>4. ASSUME NEW we \in BOOLEAN, NEW re \in BOOLEAN, NEW addr \in Addr,
             NEW wdata \in Word, NEW found \in Presented,
             Room(found, re, addr), Clock(we, re, addr, wdata, found)
      PROVE  RingInv'
  BY <1>1, <1>4, ClockTypeOK, ClockPointersAgree, ClockHeldTogether DEF RingInv
<1> QED BY <1>2, <1>3, <1>4 DEF PacedNext

(* While the host keeps up, the found FIFO and its read port implement the *)
(* promised queue: every find is read once, in order and whole, for every  *)
(* depth and every interleaving of pushes and pops                         *)
(* (work_controller.sv:113-206).                                           *)
THEOREM PacedImplementsFoundQueue == PacedSpec => ImplementsFoundQueue
<1>1. RingInv /\ RingInv' /\ [PacedNext]_vars => [Promise!Next]_(Promise!vars)
  <2>1. ASSUME RingInv, RingInv', PacedNext PROVE Promise!Next
    BY <2>1, ResetImplements, ClockImplements DEF PacedNext
  <2>2. UNCHANGED vars => UNCHANGED Promise!vars
    BY DEF vars, Promise!vars, Unread, Held
  <2> QED BY <2>1, <2>2
<1> QED
  BY RingInvInit, RingInvStep, <1>1, PTL
     DEF PacedSpec, ImplementsFoundQueue, Promise!Spec

=============================================================================
