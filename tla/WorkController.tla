--------------------------- MODULE WorkController ---------------------------
(***************************************************************************)
(* work_controller.sv: the register-bus slave between a transport and the  *)
(* core.  One step is one clock edge: every always_ff block of the module  *)
(* takes its turn in it, reading the registers as they were before it.     *)
(*                                                                         *)
(* Job registers are words of an abstract set; a find is an abstract pair  *)
(* (nonce, work id) whose parts are named when the read port answers.      *)
(***************************************************************************)
EXTENDS Naturals, Sequences

CONSTANTS
  FOUND_DEPTH,  (* Slots of the found FIFO, a power of two in the code.    *)
  JobAddr,      (* Addresses of the job words: PPH, TS, TGT, NONCE.     *)
  Word,         (* The values of a 32-bit word.                            *)
  ZeroWord,     (* The reset value of a job word.                          *)
  StartWord,    (* The words with bit 0 set: written to CTRL, they start.  *)
  Find,         (* Finds core reports: <<found_nonce, found_work_id>>.     *)
  NoFind        (* Contents of a FIFO slot or register never written.      *)

ReadOnlyAddr == {"STATUS", "FOUND_NONCE0", "FOUND_NONCE1", "FOUND_WORKID",
                 "FOUND_COUNT"}
Addr == JobAddr \union ReadOnlyAddr \union {"CTRL", "UNMAPPED"}

ASSUME WorkControllerConstants ==
  /\ FOUND_DEPTH \in Nat \ {0}
  /\ ZeroWord \in Word
  /\ StartWord \subseteq Word \ {ZeroWord}
  /\ NoFind \notin Find
  /\ JobAddr \intersect (ReadOnlyAddr \union {"CTRL", "UNMAPPED"}) = {}

VARIABLES
  regs,                         (* pph_words, ts_words, tgt_words, nb_words *)
  found_mem,                    (* found_nonce_mem and found_workid_mem     *)
  found_wr_ptr, found_rd_ptr,
  found_count,
  cur_nonce_hi, cur_workid,     (* rest of the entry popped last            *)
  rdata                         (* the registered read port                 *)

vars == <<regs, found_mem, found_wr_ptr, found_rd_ptr, found_count,
          cur_nonce_hi, cur_workid, rdata>>

Slot == 0 .. FOUND_DEPTH - 1

NonceLo(f) == <<"nonce_lo", f>>
NonceHi(f) == <<"nonce_hi", f>>
WorkId(f)  == <<"work_id", f>>
JobWord(w) == <<"word", w>>
Status(b)  == <<"nonempty", b>>
Count(n)   == <<"count", n>>
Zero       == <<"zero">>

(* Slip: the pointer wraps one slot late.                                  *)
Mutant_AdvanceLate(p) == IF p = FOUND_DEPTH THEN 0 ELSE p + 1

(* A pointer is $clog2(FOUND_DEPTH) bits wide: it wraps at the last slot.  *)
Advance(p) == IF p = FOUND_DEPTH - 1 THEN 0 ELSE p + 1

Init ==
  /\ regs = [a \in JobAddr |-> ZeroWord]
  /\ found_mem = [s \in Slot |-> NoFind]
  /\ found_wr_ptr = 0
  /\ found_rd_ptr = 0
  /\ found_count = 0
  /\ cur_nonce_hi = NonceHi(NoFind)
  /\ cur_workid = WorkId(NoFind)
  /\ rdata = Zero

-----------------------------------------------------------------------------
(* The wires of one cycle.  `found` is the set of finds core presents: at  *)
(* most one.                                                               *)

DoPop(re, addr) == re /\ addr = "FOUND_NONCE0" /\ found_count # 0
DoPush(found)   == found # {}

Start(we, addr, wdata) == we /\ addr = "CTRL" /\ wdata \in StartWord

JobRegisters(we, addr, wdata) ==
  regs' = IF we /\ addr \in JobAddr
            THEN [regs EXCEPT ![addr] = wdata]
            ELSE regs

(* The push does not look at found_count: a full FIFO is written over.     *)
PushSide(found) ==
  IF DoPush(found)
    THEN \E f \in found :
           /\ found_mem' = [found_mem EXCEPT ![found_wr_ptr] = f]
           /\ found_wr_ptr' = Advance(found_wr_ptr)
    ELSE UNCHANGED <<found_mem, found_wr_ptr>>

(* Slip: a push counts even when an entry is popped in the same cycle.     *)
Mutant_OccupancyPushWins(found, re, addr) ==
  found_count' =
    CASE DoPush(found) -> found_count + 1
      [] ~DoPush(found) /\ DoPop(re, addr) -> found_count - 1
      [] OTHER -> found_count

Occupancy(found, re, addr) ==
  found_count' =
    CASE DoPush(found) /\ ~DoPop(re, addr) ->
           IF found_count = FOUND_DEPTH THEN found_count ELSE found_count + 1
      [] ~DoPush(found) /\ DoPop(re, addr) -> found_count - 1
      [] OTHER -> found_count

(* The registered read port: the answer is on rdata the cycle after `re`.  *)
Answer(addr) ==
  CASE addr \in JobAddr       -> JobWord(regs[addr])
    [] addr = "STATUS"        -> Status(found_count # 0)
    [] addr = "FOUND_COUNT"   -> Count(found_count)
    [] addr = "FOUND_NONCE0"  -> IF found_count # 0
                                   THEN NonceLo(found_mem[found_rd_ptr])
                                   ELSE Zero
    [] addr = "FOUND_NONCE1"  -> cur_nonce_hi
    [] addr = "FOUND_WORKID"  -> cur_workid
    [] OTHER                  -> Zero

(* Slip: the held parts follow the head of the FIFO, popped or not.        *)
Mutant_ReadPortHoldsHead(re, addr) ==
  /\ rdata' = IF re THEN Answer(addr) ELSE rdata
  /\ found_rd_ptr' = IF DoPop(re, addr) THEN Advance(found_rd_ptr)
                                       ELSE found_rd_ptr
  /\ cur_nonce_hi' = NonceHi(found_mem[found_rd_ptr])
  /\ cur_workid' = WorkId(found_mem[found_rd_ptr])

ReadPort(re, addr) ==
  /\ rdata' = IF re THEN Answer(addr) ELSE rdata
  /\ IF DoPop(re, addr)
       THEN /\ found_rd_ptr' = Advance(found_rd_ptr)
            /\ cur_nonce_hi' = NonceHi(found_mem[found_rd_ptr])
            /\ cur_workid' = WorkId(found_mem[found_rd_ptr])
       ELSE UNCHANGED <<found_rd_ptr, cur_nonce_hi, cur_workid>>

-----------------------------------------------------------------------------

(* One clock edge with the bus wires and the find core presents on it.     *)
Clock(we, re, addr, wdata, found) ==
  /\ JobRegisters(we, addr, wdata)
  /\ PushSide(found)
  /\ Occupancy(found, re, addr)
  /\ ReadPort(re, addr)

(* Asynchronous reset.  The FIFO memory has no reset.                      *)
Reset ==
  /\ regs' = [a \in JobAddr |-> ZeroWord]
  /\ found_wr_ptr' = 0
  /\ found_rd_ptr' = 0
  /\ found_count' = 0
  /\ cur_nonce_hi' = NonceHi(NoFind)
  /\ cur_workid' = WorkId(NoFind)
  /\ rdata' = Zero
  /\ UNCHANGED found_mem

-----------------------------------------------------------------------------

Presented == {{}} \union {{f} : f \in Find}

Next ==
  \/ Reset
  \/ \E we, re \in BOOLEAN, addr \in Addr, wdata \in Word, found \in Presented :
       Clock(we, re, addr, wdata, found)

Spec == Init /\ [][Next]_vars

(* A host that keeps up: a find is presented only while a slot is free or  *)
(* one is being popped.                                                    *)
Room(found, re, addr) ==
  DoPush(found) => found_count < FOUND_DEPTH \/ DoPop(re, addr)

PacedNext ==
  \/ Reset
  \/ \E we, re \in BOOLEAN, addr \in Addr, wdata \in Word, found \in Presented :
       /\ Room(found, re, addr)
       /\ Clock(we, re, addr, wdata, found)

PacedSpec == Init /\ [][PacedNext]_vars

-----------------------------------------------------------------------------

Part == {NonceLo(f) : f \in Find \union {NoFind}} \union {JobWord(w) : w \in Word}
          \union {Status(b) : b \in BOOLEAN}
          \union {Count(n) : n \in 0 .. FOUND_DEPTH} \union {Zero}
HeldHi == {NonceHi(f) : f \in Find \union {NoFind}}
HeldId == {WorkId(f) : f \in Find \union {NoFind}}

(* Every register stays within its width: the pointers name a slot and the *)
(* count never exceeds FOUND_DEPTH (work_controller.sv:119-206).           *)
TypeOK ==
  /\ regs \in [JobAddr -> Word]
  /\ found_mem \in [Slot -> Find \union {NoFind}]
  /\ found_wr_ptr \in Slot
  /\ found_rd_ptr \in Slot
  /\ found_count \in 0 .. FOUND_DEPTH
  /\ cur_nonce_hi \in HeldHi
  /\ cur_workid \in HeldId
  /\ rdata \in Part \union HeldHi \union HeldId

(* The slot i places after slot p, round the end of the ring.              *)
Ahead(p, i) == IF p + i < FOUND_DEPTH THEN p + i ELSE p + i - FOUND_DEPTH

(* The write pointer is found_count slots ahead of the read pointer, and   *)
(* every unread slot holds a find: neither an empty nor a full FIFO is     *)
(* ever mistaken for the other (work_controller.sv:119-150).               *)
PointersAgree ==
  /\ found_wr_ptr = Ahead(found_rd_ptr, found_count)
  /\ \A i \in 0 .. found_count - 1 : found_mem[Ahead(found_rd_ptr, i)] \in Find

(* The unread entries, oldest first.                                       *)
Unread == [i \in 1 .. found_count |-> found_mem[Ahead(found_rd_ptr, i - 1)]]

(* The find whose upper parts are held for the reads that follow a pop.    *)
Held == cur_workid[2]

Promise == INSTANCE FoundQueue
             WITH queue <- Unread, held <- Held, answer <- rdata

(* The FIFO and its read port behave as the promised bounded queue: finds  *)
(* are read once each, in the order core presented them, and the three     *)
(* reads of a find answer with parts of one find, whatever arrives in      *)
(* between (work_controller.sv:113-206).                                   *)
ImplementsFoundQueue == Promise!Spec

=============================================================================
