------------------------------- MODULE UartIf -------------------------------
(***************************************************************************)
(* uart_if.sv: the frame layer.  A request is SOF CMD ADDR D0.. CHK; a     *)
(* response has the same shape.  A step is one byte time of the wire: the  *)
(* board takes at most one byte and sends at most one.  The few clock      *)
(* cycles between the last byte of a request and the first byte of its     *)
(* response (F_WR, F_RD, F_RD_WAIT) are part of the step of the last byte: *)
(* they are far shorter than a byte.                                       *)
(*                                                                         *)
(* A byte is the set of its bits that are 1, so that the XOR checksum is   *)
(* what it is in the code: the bits that are set in an odd number of bytes.*)
(***************************************************************************)
EXTENDS Naturals, Sequences, FiniteSets

CONSTANTS
  Bit,          (* The bit positions of a byte that the instance keeps.    *)
  SOF,          (* 8'hAA.                                                  *)
  OP, NACK, DIR,(* The bits of CMD: write, refused, response.              *)
  WORD_BYTES,   (* Data bytes of a frame, 4 in the code.                   *)
  NoByte        (* The wire is idle.                                       *)

ASSUME UartConstants ==
  /\ SOF \subseteq Bit
  /\ {OP, NACK, DIR} \subseteq Bit
  /\ Cardinality({OP, NACK, DIR}) = 3
  /\ WORD_BYTES \in Nat \ {0}
  /\ \A b \in SUBSET Bit : b # NoByte

Byte == SUBSET Bit
FRAME == 4 + WORD_BYTES
Word == [1 .. WORD_BYTES -> Byte]
ZeroBytes == [i \in 1 .. WORD_BYTES |-> {}]

CMD_READ == {}
CMD_WRITE == {OP}
CMD_READ_RESP == {DIR}
CMD_WRITE_ACK == {DIR, OP}
CMD_NACK == {DIR, NACK}

Checksum(body) == {b \in Bit : Cardinality({i \in DOMAIN body : b \in body[i]}) % 2 = 1}

Frame(cmd, addr, data) ==
  LET body == <<cmd, addr>> \o data
  IN  <<SOF>> \o body \o <<Checksum(body)>>

VARIABLES
  frame_state,  (* F_WAIT_SOF; F_BODY for F_CMD .. F_CHK; F_SEND           *)
  body,         (* the registers cmd_reg, addr_reg, d0_reg ..; its length  *)
                (* says which of F_CMD .. F_CHK the code is in             *)
  resp,         (* the response frame                                      *)
  send_idx

vars == <<frame_state, body, resp, send_idx>>

Init ==
  /\ frame_state = "F_WAIT_SOF"
  /\ body = <<>>
  /\ resp = <<>>
  /\ send_idx = 0

(* rst, while it runs.                                                     *)
UartReset ==
  /\ frame_state' = "F_WAIT_SOF"
  /\ body' = <<>>
  /\ resp' = <<>>
  /\ send_idx' = 0

cmd_reg == body[1]
addr_reg == body[2]
data_reg == SubSeq(body, 3, 2 + WORD_BYTES)

(* In F_CHK: the byte that ends the frame.                                 *)
Ends == frame_state = "F_BODY" /\ Len(body) = FRAME - 2

(* The bus wires of the cycle after byte `in` ended a frame.               *)
we(in) == Ends /\ in = Checksum(body) /\ OP \in cmd_reg
re(in) == Ends /\ in = Checksum(body) /\ OP \notin cmd_reg

Respond(frame) ==
  /\ resp' = frame
  /\ send_idx' = 0
  /\ frame_state' = "F_SEND"
  /\ UNCHANGED body

(* One byte of the request.  rdata is what the bus answers if it is read.  *)
Receive(in, rdata) ==
  CASE frame_state = "F_WAIT_SOF" ->
         /\ frame_state' = IF in = SOF THEN "F_BODY" ELSE "F_WAIT_SOF"
         /\ body' = <<>>
         /\ UNCHANGED <<resp, send_idx>>
    [] frame_state = "F_BODY" /\ ~Ends ->
         /\ body' = Append(body, in)
         /\ UNCHANGED <<frame_state, resp, send_idx>>
    [] we(in) -> Respond(Frame(CMD_WRITE_ACK, addr_reg, data_reg))
    [] re(in) -> Respond(Frame(CMD_READ_RESP, addr_reg, rdata))
    [] OTHER  -> Respond(Frame(CMD_NACK, addr_reg, ZeroBytes))

(* One byte of the response has gone out.                                  *)
Send ==
  /\ frame_state' = IF send_idx = FRAME - 1 THEN "F_WAIT_SOF" ELSE "F_SEND"
  /\ send_idx' = IF send_idx = FRAME - 1 THEN send_idx ELSE send_idx + 1
  /\ UNCHANGED <<body, resp>>

sent == IF frame_state = "F_SEND" THEN resp[send_idx + 1] ELSE NoByte

(* A byte that arrives while a response goes out is not looked at.         *)
ByteTime(in, rdata) ==
  IF frame_state = "F_SEND" THEN Send
  ELSE IF in # NoByte THEN Receive(in, rdata)
  ELSE UNCHANGED vars

TypeOK ==
  /\ frame_state \in {"F_WAIT_SOF", "F_BODY", "F_SEND"}
  /\ body \in Seq(Byte) /\ Len(body) <= FRAME - 2
  /\ resp \in Seq(Byte) /\ Len(resp) \in {0, FRAME}
  /\ send_idx \in 0 .. FRAME - 1
  /\ frame_state = "F_SEND" => resp # <<>>

=============================================================================
