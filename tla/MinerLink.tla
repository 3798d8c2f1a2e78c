----------------------------- MODULE MinerLink ------------------------------
(***************************************************************************)
(* The register link end to end: miner_link.py on the host, the serial     *)
(* line, uart_if and work_controller on the board (kaspa_miner.sv wires    *)
(* those two together).  The host thread runs load_job and pop_found, one  *)
(* transaction after the other, each with its timeout.  The line may lose  *)
(* or damage a byte, and the board may be reset at any byte.  LateSpec     *)
(* adds what the other specifications leave out: an answer that comes      *)
(* after the host has given up on it.                                      *)
(***************************************************************************)
EXTENDS UartIf

CONSTANTS
  JobAddr,      (* The job registers, in the order load_job writes them.   *)
  AddrByte,     (* Register name -> ADDR byte.                             *)
  JobValues,    (* Jobs: functions from job register to word.              *)
  FOUND_DEPTH,
  FindWord,     (* find number -> the word that stands for its parts       *)
  CountWord,    (* number -> word; a word that is 0 exactly for 0          *)
  StartData,    (* The word written to CTRL.                               *)
  MAX_FAULTS,   (* Bound: faults of line and board in one behaviour.       *)
  None          (* Nothing cached; no request outstanding.                 *)

Find == DOMAIN FindWord
NoFind == 0

VARIABLES
  (* work_controller *)
  regs, found_mem, found_wr_ptr, found_rd_ptr, found_count,
  cur_nonce_hi, cur_workid, rdata,
  (* the line: what is still to arrive at the board, and what has arrived  *)
  (* at the host and has not been read                                     *)
  toBoard, toHost,
  (* miner_link.py: transactions still to make, the one outstanding, the   *)
  (* job being loaded and whether words may be passed over (FALSE outside   *)
  (* load_job), the words popped, the write cache                          *)
  todo, req, job, only_changed, popped, written,
  (* ghosts: bus accesses made for req, finds presented and delivered,     *)
  (* faults so far, failed transactions since the last of them, whether    *)
  (* one has hit the transaction under way, whether the board was reset    *)
  (* since the last forget, and during the call under way                  *)
  served, presented, delivered, faults, failures, hit, stale, torn

board == <<regs, found_mem, found_wr_ptr, found_rd_ptr, found_count,
           cur_nonce_hi, cur_workid, rdata>>
host == <<todo, req, job, only_changed, popped, written>>
linkVars == <<vars, board, toBoard, toHost, host,
              served, presented, delivered, faults, failures, hit, stale, torn>>

JobRegs == {JobAddr[i] : i \in DOMAIN JobAddr}

(* wdata[0] is the first bit of the first data byte, as OP is that of CMD. *)
W == INSTANCE WorkController
       WITH JobAddr <- JobRegs, ZeroWord <- ZeroBytes,
            StartWord <- {w \in Word : OP \in w[1]}

ASSUME LinkConstants ==
  /\ FOUND_DEPTH \in Nat \ {0}
  /\ MAX_FAULTS \in Nat
  /\ JobAddr \in Seq(DOMAIN AddrByte)
  /\ {"CTRL", "FOUND_COUNT", "FOUND_NONCE0", "FOUND_NONCE1", "FOUND_WORKID"}
       \subseteq DOMAIN AddrByte
  /\ JobRegs \intersect (W!ReadOnlyAddr \union {"CTRL"}) = {}
  /\ "UNMAPPED" \notin DOMAIN AddrByte
  /\ AddrByte \in [DOMAIN AddrByte -> Byte]
  /\ \A r, s \in DOMAIN AddrByte : AddrByte[r] = AddrByte[s] => r = s
  /\ JobValues \subseteq [JobRegs -> Word]
  /\ FindWord \in Seq(Word)
  /\ CountWord \in [0 .. FOUND_DEPTH -> Word]
  /\ \A n \in 1 .. FOUND_DEPTH : CountWord[n] # CountWord[0]
  /\ StartData \in Word
  /\ None \notin DOMAIN AddrByte /\ None \notin Word

RegisterOf(addr) ==
  IF \E r \in DOMAIN AddrByte : AddrByte[r] = addr
    THEN CHOOSE r \in DOMAIN AddrByte : AddrByte[r] = addr
    ELSE "UNMAPPED"

(* The word on rdata.                                                      *)
WordOf(answer) ==
  CASE answer[1] = "word" -> answer[2]
    [] answer[1] = "count" -> CountWord[answer[2]]
    [] answer[1] \in {"nonce_lo", "nonce_hi", "work_id"} /\ answer[2] # NoFind ->
         FindWord[answer[2]]
    [] OTHER -> ZeroBytes

-----------------------------------------------------------------------------
(* miner_link.py                                                           *)

IsWrite(r) == r \in JobRegs \union {"CTRL"}

(* write_wide for each register, then CTRL.                                *)
LoadJob ==
  /\ req = None /\ todo = <<>>
  /\ job' \in JobValues
  /\ only_changed' \in BOOLEAN
  /\ todo' = Append(JobAddr, "CTRL")
  /\ torn' = FALSE
  /\ UNCHANGED <<vars, board, toBoard, toHost, req, popped, written,
                 served, presented, delivered, faults, failures, hit, stale>>

(* Also without a call that failed: pool_bridge.py's sync after bad finds. *)
forget ==
  /\ req = None /\ todo = <<>>
  /\ written' = [r \in JobRegs |-> None]
  /\ stale' = FALSE
  /\ UNCHANGED <<vars, board, toBoard, toHost, todo, req, job, only_changed, popped,
                 served, presented, delivered, faults, failures, hit, torn>>

PopFound ==
  /\ req = None /\ todo = <<>>
  /\ todo' = <<"FOUND_COUNT">>
  /\ popped' = <<>>
  /\ only_changed' = FALSE
  /\ torn' = FALSE
  /\ UNCHANGED <<vars, board, toBoard, toHost, req, job, written,
                 served, presented, delivered, faults, failures, hit, stale>>

DataFor(r) == IF r = "CTRL" THEN StartData
              ELSE IF r \in JobRegs THEN job[r] ELSE ZeroBytes
CmdFor(r) == IF IsWrite(r) THEN CMD_WRITE ELSE CMD_READ

(* Slip: a word that was written before is passed over, whatever it was.   *)
Mutant_PassedOverOnceWritten(r) == r \in JobRegs /\ only_changed /\ written[r] # None

(* write_wide: a word that already holds the value is not written.         *)
PassedOver(r) == r \in JobRegs /\ only_changed /\ written[r] = job[r]

(* Slip: the cached value is forgotten only when a write fails.            *)
Mutant_DropsNot(r) == written

(* write, before its transaction: the cached value is dropped.             *)
Drops(r) == IF r \in JobRegs THEN [written EXCEPT ![r] = None] ELSE written

(* transact, up to ser.write, for the next register that is not passed     *)
(* over.                                                                   *)
Transact ==
  /\ req = None
  /\ \E i \in DOMAIN todo :
       LET r == todo[i] IN
       /\ ~PassedOver(r) /\ \A j \in 1 .. i - 1 : PassedOver(todo[j])
       /\ todo' = SubSeq(todo, i, Len(todo))
       /\ req' = r
       /\ toBoard' = toBoard \o Frame(CmdFor(r), AddrByte[r], DataFor(r))
       /\ written' = Drops(r)
  /\ served' = <<>>
  /\ hit' = FALSE
  /\ UNCHANGED <<vars, board, toHost, job, only_changed, popped,
                 presented, delivered, faults, failures, stale, torn>>

(* Slip: the checksum of the response is not looked at.                    *)
Mutant_AcceptedUnchecked(rx) ==
  /\ rx[1] = SOF
  /\ rx[3] = AddrByte[req]
  /\ rx[2] = IF IsWrite(req) THEN CMD_WRITE_ACK ELSE CMD_READ_RESP
  /\ IsWrite(req) => SubSeq(rx, 4, 3 + WORD_BYTES) = DataFor(req)

(* The checks of transact, read and write on the bytes of a response.      *)
Accepted(rx) ==
  /\ rx[1] = SOF
  /\ Checksum(SubSeq(rx, 2, FRAME - 1)) = rx[FRAME]
  /\ rx[3] = AddrByte[req]
  /\ rx[2] = IF IsWrite(req) THEN CMD_WRITE_ACK ELSE CMD_READ_RESP
  /\ IsWrite(req) => SubSeq(rx, 4, 3 + WORD_BYTES) = DataFor(req)

DataIn(rx) == SubSeq(rx, 4, 3 + WORD_BYTES)

(* ProtocolError: the caller drops what it was doing and, before it loads  *)
(* a job again, forgets the cache (pool_bridge.py sync).  Nothing looks at *)
(* the cache in between, so it is forgotten here.                          *)
Fail ==
  /\ failures' = failures + 1
  /\ todo' = <<>>
  /\ req' = None
  /\ written' = [r \in JobRegs |-> None]
  /\ stale' = FALSE
  /\ UNCHANGED <<job, only_changed, popped, delivered>>

(* What the caller does with an answer that passes the checks.             *)
Succeed(data) ==
  /\ failures' = 0
  /\ req' = None
  /\ popped' = IF IsWrite(req) THEN popped ELSE Append(popped, data)
  /\ todo' = IF req = "FOUND_COUNT"
               THEN IF data = CountWord[0] THEN <<>>
                    ELSE <<"FOUND_NONCE0", "FOUND_NONCE1", "FOUND_WORKID">>
               ELSE Tail(todo)
  /\ written' = IF req \in JobRegs THEN [written EXCEPT ![req] = job[req]] ELSE written
  /\ delivered' = IF req = "FOUND_WORKID" /\ ~torn THEN Append(delivered, Tail(popped'))
                                                   ELSE delivered
  /\ UNCHANGED <<job, only_changed, stale>>

(* ser.read(8) has its eight bytes; any more stay in the input buffer.     *)
Answered ==
  /\ req # None
  /\ Len(toHost) >= FRAME
  /\ toHost' = SubSeq(toHost, FRAME + 1, Len(toHost))
  /\ LET rx == SubSeq(toHost, 1, FRAME) IN
       IF Accepted(rx) THEN Succeed(DataIn(rx)) ELSE Fail
  /\ UNCHANGED <<vars, board, toBoard, served, presented, faults, hit, torn>>

Quiet == toBoard = <<>> /\ frame_state # "F_SEND"

(* Slip: the wait is timed from the first byte of the answer.              *)
Mutant_TimedOutFromFirstByte ==
  /\ req # None
  /\ Quiet
  /\ toHost # <<>>
  /\ Len(toHost) < FRAME
  /\ toHost' = <<>>
  /\ Fail
  /\ UNCHANGED <<vars, board, toBoard, served, presented, faults, hit, torn>>

(* Slip: the bytes that did come are left in the input buffer.             *)
Mutant_TimedOutLeavesBytes ==
  /\ req # None
  /\ Quiet
  /\ Len(toHost) < FRAME
  /\ toHost' = toHost
  /\ Fail
  /\ UNCHANGED <<vars, board, toBoard, served, presented, faults, hit, torn>>

(* ser.read(8) runs into its timeout with the line quiet: it takes what    *)
(* there is.                                                               *)
TimedOut ==
  /\ req # None
  /\ Quiet
  /\ Len(toHost) < FRAME
  /\ toHost' = <<>>
  /\ Fail
  /\ UNCHANGED <<vars, board, toBoard, served, presented, faults, hit, torn>>

(* The timeout expires while the answer is still under way.                *)
TimedOutEarly ==
  /\ faults < MAX_FAULTS
  /\ req # None
  /\ ~Quiet
  /\ Len(toHost) < FRAME
  /\ faults' = faults + 1
  /\ toHost' = <<>>
  /\ Fail
  /\ UNCHANGED <<vars, board, toBoard, served, presented, hit, torn>>

-----------------------------------------------------------------------------
(* The line and the board: one byte time.                                  *)

(* What a byte becomes on the wire: itself, or lost, or one bit flipped.   *)
Damaged(b) == {NoByte} \union {(b \ {f}) \union ({f} \ b) : f \in Bit}

(* The board takes byte `in`; what it sends arrives at the host as `out`.  *)
Exchange(in, out) ==
  /\ LET w == in # NoByte /\ we(in)
         r == in # NoByte /\ re(in)
     IN  /\ W!Clock(w, r, IF w \/ r THEN RegisterOf(addr_reg) ELSE "UNMAPPED",
                    IF w THEN data_reg ELSE ZeroBytes, {})
         /\ ByteTime(in, WordOf(rdata'))
         /\ served' = IF w \/ r
                        THEN Append(served, <<RegisterOf(addr_reg), w,
                                              IF w THEN data_reg ELSE WordOf(rdata')>>)
                        ELSE served
  /\ toBoard' = IF toBoard = <<>> THEN toBoard ELSE Tail(toBoard)
  /\ toHost' = IF out = NoByte THEN toHost ELSE Append(toHost, out)
  /\ UNCHANGED <<host, presented, delivered, stale, torn>>

arriving == IF toBoard = <<>> THEN NoByte ELSE Head(toBoard)

(* The wires move only while there is something on them.                   *)
Wire ==
  /\ ~Quiet
  /\ Exchange(arriving, sent)
  /\ UNCHANGED <<faults, failures, hit>>

(* One byte of a transaction at most: two flips in one frame can cancel in *)
(* an XOR checksum.                                                        *)
WireFault ==
  /\ ~Quiet
  /\ ~hit
  /\ hit' = TRUE
  /\ faults < MAX_FAULTS
  /\ faults' = faults + 1
  /\ failures' = 0
  /\ \/ arriving # NoByte /\ \E d \in Damaged(arriving) : Exchange(d, sent)
     \/ sent # NoByte /\ \E d \in Damaged(sent) : Exchange(arriving, d)

(* core finds a nonce, while there is room for it.                         *)
Found ==
  /\ presented < Cardinality(Find)
  /\ found_count < FOUND_DEPTH
  /\ presented' = presented + 1
  /\ W!Clock(FALSE, FALSE, "UNMAPPED", ZeroBytes, {presented + 1})
  /\ UNCHANGED <<vars, toBoard, toHost, host, served, delivered, faults, failures, hit,
                 stale, torn>>

(* The board is reset, and loses the request or the response it was in.    *)
BoardReset ==
  /\ ~hit
  /\ faults < MAX_FAULTS
  /\ faults' = faults + 1
  /\ failures' = 0
  /\ W!Reset
  /\ UartReset
  /\ hit' = (req # None)
  /\ stale' = TRUE
  /\ torn' = (todo # <<>>)
  /\ UNCHANGED <<toBoard, toHost, host, served, presented, delivered>>

LinkInit ==
  /\ Init
  /\ W!Init
  /\ toBoard = <<>> /\ toHost = <<>>
  /\ todo = <<>> /\ req = None /\ popped = <<>>
  /\ job \in JobValues /\ only_changed = FALSE
  /\ written = [r \in JobRegs |-> None]
  /\ served = <<>> /\ presented = 0 /\ delivered = <<>>
  /\ faults = 0 /\ failures = 0 /\ hit = FALSE
  /\ stale = FALSE /\ torn = FALSE

LinkNext ==
  \/ LoadJob \/ PopFound \/ forget \/ Transact
  \/ Answered \/ TimedOut
  \/ Wire \/ WireFault \/ Found \/ BoardReset

LinkSpec == LinkInit /\ [][LinkNext]_linkVars

(* The line goes on and ser.read returns or times out.                     *)
FairLinkSpec == LinkSpec /\ WF_linkVars(Wire) /\ WF_linkVars(Answered \/ TimedOut)

(* The same link, and a timeout that can be too short.                     *)
LateSpec == LinkInit /\ [][LinkNext \/ TimedOutEarly]_linkVars

-----------------------------------------------------------------------------

(* Bytes, frames and the host's view keep their shape (uart_if.sv:187-288, *)
(* miner_link.py:64-127).                                                  *)
LinkTypeOK ==
  /\ TypeOK
  /\ regs \in [JobRegs -> Word]
  /\ rdata[1] \in {"word", "count", "nonempty", "nonce_lo", "nonce_hi", "work_id", "zero"}
  /\ toBoard \in Seq(Byte) /\ Len(toBoard) <= FRAME
  /\ toHost \in Seq(Byte) /\ Len(toHost) <= FRAME
  /\ req \in DOMAIN AddrByte \union {None}
  /\ req # None => todo # <<>> /\ req = Head(todo)
  /\ written \in [JobRegs -> Word \union {None}]

(* A transaction that returns was carried out by the board exactly once,   *)
(* as asked, and returns what that access read or wrote: no answer to an   *)
(* earlier request is taken for it and no damaged frame gets past the      *)
(* checks (miner_link.py:88-127).                                          *)
AnswersOwnRequest ==
  req # None /\ Len(toHost) >= FRAME /\ Accepted(SubSeq(toHost, 1, FRAME)) =>
    served = <<<<req, IsWrite(req), DataIn(toHost)>>>>

(* Finds popped over the link are finds core presented: each at most once, *)
(* in the order they came, the three words of one find together, whatever  *)
(* arrives between the three reads and whatever a failed pop or a reset    *)
(* left behind; the pop that a reset fell into is left out, as it may      *)
(* return half a find (miner_link.py:151-158, work_controller.sv:152-206). *)
DeliveredWholeAndOnce ==
  \A i \in DOMAIN delivered :
    \E k \in 1 .. presented :
      /\ delivered[i] = <<FindWord[k], FindWord[k], FindWord[k]>>
      /\ \A j \in 1 .. i - 1 : \E k2 \in 1 .. k - 1 : delivered[j][1] = FindWord[k2]

(* What the write cache says is on the board is on the board; after a      *)
(* reset of the board, from the next forget on ("stale after a board reset *)
(* - call forget() then", miner_link.py:78-80, 120-136).                   *)
CacheIsTrue ==
  ~stale => \A r \in JobRegs : written[r] # None => regs[r] = written[r]

(* The board starts the job the host is loading, though only the words     *)
(* that changed were sent and some may have failed before; after a reset,  *)
(* from the next forget on (miner_link.py:129-149,                         *)
(* work_controller.sv:61-78).                                              *)
StartsTheJobLoaded == ~stale /\ req = "CTRL" /\ served # <<>> => regs = job

(* The link falls back into step: after the last lost or damaged byte, or  *)
(* a reset, at most two transactions fail, wherever in a frame it hit and  *)
(* whatever the bytes after it look like ("no host-side retry protocol     *)
(* needed beyond resend if no response arrives", docs/io/uart_if.md:       *)
(* 165-167).                                                               *)
SoonInStep == failures <= 2

(* No transaction waits for ever (miner_link.py:88-112).                   *)
TransactionsEnd == req # None ~> req = None

=============================================================================
