--------------------------- MODULE MinerLinkProofs ---------------------------
(***************************************************************************)
(* The register link, for bytes and words of any width, any registers, any *)
(* depth of the FIFO, any number of finds and any number of faults: the    *)
(* frame check, and on top of it the safety of the whole link.             *)
(***************************************************************************)
EXTENDS MinerLink, SequenceTheorems, FiniteSetTheorems, TLAPS

-----------------------------------------------------------------------------
(* The frame check.                                                        *)

(* A byte with bit f flipped.                                              *)
Flipped(byte, f) == (byte \ {f}) \union ({f} \ byte)

(* The bytes of a body that have bit b.                                    *)
With(bytes, b) == {i \in DOMAIN bytes : b \in bytes[i]}

LEMMA Parity == \A n \in Nat : (n + 1) % 2 = 1 <=> n % 2 # 1
BY SMT

LEMMA CountChanges ==
  ASSUME NEW bytes \in Seq(Byte), NEW i \in DOMAIN bytes, NEW f \in Bit
  PROVE  LET got == [bytes EXCEPT ![i] = Flipped(@, f)]
         IN  Cardinality(With(got, f)) % 2 = 1 <=> Cardinality(With(bytes, f)) % 2 # 1
<1> DEFINE got == [bytes EXCEPT ![i] = Flipped(@, f)]
           S == With(bytes, f)
           T == With(got, f)
<1>1. IsFiniteSet(DOMAIN bytes)
  BY FS_Interval, Len(bytes) \in Nat
<1>2. IsFiniteSet(S) /\ IsFiniteSet(T) /\ DOMAIN got = DOMAIN bytes
  BY <1>1, FS_Subset DEF With
<1>3. \A j \in DOMAIN bytes : got[j] = IF j = i THEN Flipped(bytes[i], f) ELSE bytes[j]
  OBVIOUS
<1>4. i \in T <=> i \notin S
  BY <1>2, <1>3 DEF With, Flipped
<1>5. T = IF i \in S THEN S \ {i} ELSE S \union {i}
  BY <1>2, <1>3, <1>4 DEF With
<1>6. Cardinality(S) \in Nat /\ Cardinality(T) \in Nat
  BY <1>2, FS_CardinalityType
<1>7. CASE i \in S
  <2>1. S = T \union {i} /\ i \notin T
    BY <1>5, <1>7
  <2>2. Cardinality(S) = Cardinality(T) + 1
    BY <2>1, <1>2, FS_AddElement
  <2> QED
    BY <2>2, <1>6, Parity
<1>8. CASE i \notin S
  <2>1. Cardinality(T) = Cardinality(S) + 1
    BY <1>5, <1>8, <1>2, FS_AddElement
  <2> QED
    BY <2>1, <1>6, Parity
<1> QED
  BY <1>7, <1>8

(* A flipped bit in the bytes that are summed changes the sum.             *)
LEMMA SumChanges ==
  ASSUME NEW bytes \in Seq(Byte), NEW i \in DOMAIN bytes, NEW f \in Bit
  PROVE  Checksum([bytes EXCEPT ![i] = Flipped(@, f)]) # Checksum(bytes)
<1> DEFINE got == [bytes EXCEPT ![i] = Flipped(@, f)]
<1>1. f \in Checksum(got) <=> f \notin Checksum(bytes)
  BY CountChanges DEF Checksum, With
<1> QED
  BY <1>1

LEMMA FrameBytes ==
  ASSUME NEW cmd \in Byte, NEW addr \in Byte, NEW data \in Word
  PROVE  LET sum == <<cmd, addr>> \o data
             frame == Frame(cmd, addr, data)
         IN  /\ sum \in Seq(Byte) /\ Len(sum) = FRAME - 2
             /\ frame \in Seq(Byte) /\ Len(frame) = FRAME
             /\ frame[FRAME] = Checksum(sum)
             /\ \A k \in 1 .. FRAME - 2 : frame[k + 1] = sum[k]
<1> DEFINE sum == <<cmd, addr>> \o data
<1>1. WORD_BYTES \in Nat \ {0} /\ SOF \in Byte
  BY UartConstants DEF Byte
<1>2. data \in Seq(Byte) /\ Len(data) = WORD_BYTES
  BY <1>1 DEF Word
<1>3. sum \in Seq(Byte) /\ Len(sum) = FRAME - 2
  BY <1>1, <1>2 DEF FRAME
<1>4. Checksum(sum) \in Byte
  BY DEF Checksum, Byte
<1> HIDE DEF sum
<1> DEFINE frame == <<SOF>> \o sum \o <<Checksum(sum)>>
<1>5. frame \in Seq(Byte) /\ Len(frame) = FRAME
  BY <1>1, <1>3, <1>4 DEF FRAME
<1>6. frame[FRAME] = Checksum(sum) /\ \A k \in 1 .. FRAME - 2 : frame[k + 1] = sum[k]
  BY <1>1, <1>3, <1>4 DEF FRAME
<1>7. frame = Frame(cmd, addr, data)
  BY DEF Frame, sum
<1> QED
  BY <1>3, <1>5, <1>6, <1>7 DEF sum

(* A bit flipped on the wire anywhere after SOF, the checksum itself       *)
(* included, leaves a frame that fails the check of uart_if's F_CHK and of *)
(* transact (uart_if.sv:190-197, 241-244, miner_link.py:108-109).          *)
THEOREM EveryFlipIsNoticed ==
  ASSUME NEW cmd \in Byte, NEW addr \in Byte, NEW data \in Word,
         NEW i \in 2 .. FRAME, NEW f \in Bit
  PROVE  LET got == [Frame(cmd, addr, data) EXCEPT ![i] = Flipped(@, f)]
         IN  Checksum(SubSeq(got, 2, FRAME - 1)) # got[FRAME]
<1> DEFINE frame == Frame(cmd, addr, data)
           sum == <<cmd, addr>> \o data
           got == [frame EXCEPT ![i] = Flipped(@, f)]
           part == SubSeq(got, 2, FRAME - 1)
<1>1. WORD_BYTES \in Nat \ {0} /\ FRAME \in Nat /\ FRAME = 4 + WORD_BYTES
  BY UartConstants DEF FRAME
<1>2. /\ sum \in Seq(Byte) /\ Len(sum) = FRAME - 2
      /\ frame \in Seq(Byte) /\ Len(frame) = FRAME
      /\ frame[FRAME] = Checksum(sum)
      /\ \A k \in 1 .. FRAME - 2 : frame[k + 1] = sum[k]
  BY FrameBytes
<1> HIDE DEF frame, sum
<1>3. Flipped(frame[i], f) \in Byte /\ Flipped(frame[i], f) # frame[i]
  BY <1>1, <1>2 DEF Flipped, Byte
<1>4. got \in Seq(Byte) /\ Len(got) = FRAME
  BY <1>1, <1>2, <1>3
<1>5. \A j \in 1 .. FRAME : got[j] = IF j = i THEN Flipped(frame[i], f) ELSE frame[j]
  BY <1>1, <1>2
<1>6. /\ part \in Seq(Byte) /\ Len(part) = FRAME - 2
      /\ \A k \in 1 .. FRAME - 2 : part[k] = got[k + 1]
  BY <1>1, <1>4
<1> HIDE DEF got, part
<1>7. CASE i = FRAME
  <2>1. part = sum
    <3>1. \A k \in 1 .. FRAME - 2 : part[k] = sum[k]
      BY <1>1, <1>2, <1>5, <1>6, <1>7
    <3> QED
      BY <1>2, <1>6, <3>1, SeqEqual
  <2>2. Checksum(part) # got[FRAME]
    BY <2>1, <1>1, <1>2, <1>3, <1>5, <1>7
  <2> QED
    BY <2>2 DEF got, part, frame
<1>8. CASE i # FRAME
  <2>1. i - 1 \in DOMAIN sum
    BY <1>1, <1>2, <1>8
  <2>2. part = [sum EXCEPT ![i - 1] = Flipped(@, f)]
    <3> DEFINE flipped == [sum EXCEPT ![i - 1] = Flipped(@, f)]
    <3>1. \A k \in 1 .. FRAME - 2 : part[k] = flipped[k]
      <4> SUFFICES ASSUME NEW k \in 1 .. FRAME - 2 PROVE part[k] = flipped[k]
        OBVIOUS
      <4>1. part[k] = got[k + 1] /\ k + 1 \in 1 .. FRAME
        BY <1>1, <1>6
      <4>2. CASE k = i - 1
        BY <1>1, <1>2, <1>5, <2>1, <4>1, <4>2
      <4>3. CASE k # i - 1
        BY <1>1, <1>2, <1>5, <2>1, <4>1, <4>3
      <4> QED
        BY <4>2, <4>3
    <3>2. flipped \in Seq(Byte) /\ Len(flipped) = FRAME - 2
      <4>1. Flipped(sum[i - 1], f) \in Byte
        BY <1>2, <2>1 DEF Flipped, Byte
      <4> QED
        BY <1>2, <2>1, <4>1
    <3> HIDE DEF flipped
    <3>3. part = flipped
      BY <1>6, <3>1, <3>2, SeqEqual
    <3> QED
      BY <3>3 DEF flipped
  <2>3. Checksum(part) # Checksum(sum)
    BY <1>2, <2>1, <2>2, SumChanges
  <2>4. got[FRAME] = Checksum(sum)
    BY <1>1, <1>2, <1>5, <1>8
  <2> QED
    BY <2>3, <2>4 DEF got, part, frame
<1> QED
  BY <1>7, <1>8

-----------------------------------------------------------------------------
(* The inductive invariant.                                                *)

Parts == {"FOUND_NONCE0", "FOUND_NONCE1", "FOUND_WORKID"}

(* Every variable keeps its type.                                          *)
Types ==
  /\ TypeOK
  /\ W!TypeOK
  /\ toBoard \in Seq(Byte) /\ toHost \in Seq(Byte)
  /\ todo \in Seq(DOMAIN AddrByte)
  /\ req \in DOMAIN AddrByte \union {None}
  /\ req # None => todo # <<>> /\ req = Head(todo)
  /\ job \in JobValues /\ only_changed \in BOOLEAN
  /\ popped \in Seq(Word)
  /\ written \in [JobRegs -> Word \union {None}]
  /\ presented \in 0 .. Len(FindWord)
  /\ failures \in Nat /\ faults \in Nat
  /\ hit \in BOOLEAN /\ stale \in BOOLEAN /\ torn \in BOOLEAN

-----------------------------------------------------------------------------
(* Where the board is in the transaction under way.                        *)

(* The request of that transaction, and the bytes of it that are summed.   *)
SumOf(cmd, addr, data) == <<cmd, addr>> \o data
Summed == SumOf(CmdFor(req), AddrByte[req], DataFor(req))
Request == Frame(CmdFor(req), AddrByte[req], DataFor(req))

(* What has not arrived is the end of it.                                  *)
RestOfRequest ==
  /\ Len(toBoard) <= FRAME
  /\ \A i \in 1 .. Len(toBoard) : toBoard[i] = Request[FRAME - Len(toBoard) + i]

(* Same bytes as a longer sequence, but for one flipped bit.               *)
Agrees(s, t) == \A i \in 1 .. Len(s) : s[i] = t[i]
OneFlip(s, t) ==
  \E i \in 1 .. Len(s), f \in Bit :
    \A j \in 1 .. Len(s) : s[j] = IF j = i THEN Flipped(t[i], f) ELSE t[j]

(* The board has taken every byte of the request so far for what it is ... *)
InStep == frame_state = "F_BODY" /\ Len(body) + 1 + Len(toBoard) = FRAME
Whole ==
  \/ frame_state = "F_WAIT_SOF" /\ Len(toBoard) = FRAME
  \/ InStep /\ Agrees(body, Summed)

(* ... but for one bit ...                                                 *)
Struck == hit /\ InStep /\ OneFlip(body, Summed)

(* ... or it is in a frame that began before, when nothing is cached and   *)
(* no find is half popped ...                                              *)
Unknown == written = [r \in JobRegs |-> None] /\ (todo = <<>> \/ Head(todo) \notin Parts)
Leftover ==
  /\ frame_state = "F_BODY" /\ Unknown
  /\ failures <= 1
  /\ hit \/ Len(body) + Len(toBoard) >= FRAME

(* ... or it has missed a byte, so that what is left makes no frame.       *)
Behind ==
  /\ Len(toBoard) < FRAME
  /\ \/ frame_state = "F_WAIT_SOF"
     \/ frame_state = "F_BODY" /\ Len(body) + 1 + Len(toBoard) < FRAME

(* A response is about the one access the board has made, or a refusal.    *)
Answers(frame, cmd, write) ==
  \E a \in Byte, d \in Word :
    frame = Frame(cmd, a, d) /\ served = <<<<RegisterOf(a), write, d>>>>
Refuses(frame) == served = <<>> /\ \E a \in Byte : frame = Frame(CMD_NACK, a, ZeroBytes)
Responds(frame) ==
  Refuses(frame) \/ Answers(frame, CMD_WRITE_ACK, TRUE) \/ Answers(frame, CMD_READ_RESP, FALSE)

(* The response to the request itself.                                     *)
AnswersRequest(frame) ==
  \E d \in Word :
    /\ frame = Frame(IF IsWrite(req) THEN CMD_WRITE_ACK ELSE CMD_READ_RESP,
                     AddrByte[req], d)
    /\ IsWrite(req) => d = DataFor(req)

(* n bytes of a response are out: they are at the host, but for one        *)
(* damaged byte.                                                           *)
Out(frame, n) ==
  /\ Responds(frame)
  /\ hit \/ AnswersRequest(frame) \/ failures <= 1
  /\ \/ Len(toHost) = n /\ Agrees(toHost, frame)
     \/ hit /\ Len(toHost) = n /\ OneFlip(toHost, frame)
     \/ hit /\ Len(toHost) < n

Before == served = <<>> /\ toHost = <<>> /\ (Whole \/ Struck \/ Leftover)
Sending ==
  /\ frame_state = "F_SEND"
  /\ Len(toBoard) + send_idx < FRAME
  /\ Out(resp, send_idx)
Done ==
  /\ frame_state = "F_WAIT_SOF" /\ toBoard = <<>>
  /\ \E frame \in Seq(Byte) : Out(frame, FRAME)
Cut == hit /\ Behind /\ Len(toHost) < FRAME

PhaseInv ==
  IF req = None
    THEN /\ toBoard = <<>> /\ toHost = <<>> /\ failures <= 2
         /\ \/ frame_state = "F_WAIT_SOF"
            \/ frame_state = "F_BODY" /\ failures <= 1 /\ Unknown
    ELSE /\ RestOfRequest
         /\ failures <= 2 /\ (hit => failures = 0)
         /\ Before \/ Sending \/ Done \/ Cut

-----------------------------------------------------------------------------
(* The write cache and the job being loaded.                               *)

CacheInv ==
  /\ CacheIsTrue
  /\ req \in JobRegs => written[req] = None
  /\ ~stale /\ req # None =>
       \A r \in JobRegs, d \in Word : served = <<<<r, TRUE, d>>>> => regs[r] = d

(* CTRL is written last, when every word of the job has been.              *)
LoadInv ==
  /\ \A i \in 1 .. Len(todo) : todo[i] = "CTRL" => i = Len(todo)
  /\ todo # <<>> /\ todo[Len(todo)] = "CTRL" =>
       \A r \in JobRegs : written[r] = job[r] \/ \E i \in 1 .. Len(todo) : todo[i] = r

-----------------------------------------------------------------------------
(* Finds, from the FIFO to the caller.                                     *)

(* The finds that have left the FIFO are the first ones, what is in it     *)
(* follows in order.                                                       *)
Taken == presented - found_count
HeldFind == cur_workid[2]
FifoInv ==
  /\ found_count <= presented
  /\ found_wr_ptr = W!Ahead(found_rd_ptr, found_count)
  /\ \A i \in 0 .. found_count - 1 :
       found_mem[W!Ahead(found_rd_ptr, i)] = Taken + 1 + i
  /\ cur_nonce_hi[2] = HeldFind /\ HeldFind <= Taken

(* Delivered finds have numbers up to n.                                   *)
DeliveredUpTo(n) == \A j \in DOMAIN delivered : \E k \in 1 .. n : delivered[j][1] = FindWord[k]

(* The words read so far are of the find that is held, which is new.       *)
HoldsNew == HeldFind \in Find /\ DeliveredUpTo(HeldFind - 1)
Reads(word) == served = <<>> \/ served = <<<<req, FALSE, word>>>>
TodoShape ==
  \/ todo \in {<<>>, <<"FOUND_COUNT">>, <<"FOUND_NONCE0", "FOUND_NONCE1", "FOUND_WORKID">>,
               <<"FOUND_NONCE1", "FOUND_WORKID">>, <<"FOUND_WORKID">>}
  \/ todo # <<>> /\ todo[Len(todo)] = "CTRL" /\ \A i \in 1 .. Len(todo) - 1 : todo[i] \in JobRegs
Delivery ==
  /\ delivered \in Seq(Seq(Word))
  /\ DeliveredWholeAndOnce
  /\ DeliveredUpTo(Taken)

(* Where a pop stands that no reset has fallen into: a word counted means  *)
(* a find is there, and until the last word of it has been read the held   *)
(* find is the one being popped.                                           *)
Popping(r) == ~torn /\ todo # <<>> /\ Head(todo) = r
AtCount ==
  Popping("FOUND_COUNT") =>
    /\ popped = <<>>
    /\ req # None /\ (\E w \in Word \ {CountWord[0]} : served = <<<<"FOUND_COUNT", FALSE, w>>>>)
         => found_count > 0
AtNonce0 ==
  Popping("FOUND_NONCE0") =>
    /\ Len(popped) = 1
    /\ IF req = None \/ served = <<>> THEN found_count > 0
       ELSE HoldsNew /\ Reads(FindWord[HeldFind])
AtNonce1 ==
  Popping("FOUND_NONCE1") =>
    /\ HoldsNew
    /\ Len(popped) = 2 /\ popped[2] = FindWord[HeldFind]
    /\ req # None => Reads(FindWord[HeldFind])
AtWorkId ==
  Popping("FOUND_WORKID") =>
    /\ HoldsNew
    /\ Len(popped) = 3 /\ popped[2] = FindWord[HeldFind] /\ popped[3] = FindWord[HeldFind]
    /\ req # None => Reads(FindWord[HeldFind])
Stages == AtCount /\ AtNonce0 /\ AtNonce1 /\ AtWorkId

PopInv == Delivery /\ TodoShape /\ Stages
-----------------------------------------------------------------------------
(* Bytes, words and frames.                                                *)

LEMMA Sizes ==
  /\ WORD_BYTES \in Nat /\ WORD_BYTES > 0
  /\ FRAME \in Nat /\ FRAME = 4 + WORD_BYTES
  BY UartConstants DEF FRAME

LEMMA Commands ==
  /\ SOF \in Byte /\ NoByte \notin Byte
  /\ {CMD_READ, CMD_WRITE, CMD_READ_RESP, CMD_WRITE_ACK, CMD_NACK} \subseteq Byte
  /\ OP \in CMD_WRITE /\ OP \notin CMD_READ
  /\ CMD_NACK \notin {CMD_WRITE_ACK, CMD_READ_RESP} /\ CMD_WRITE_ACK # CMD_READ_RESP
<1>1. /\ SOF \in Byte /\ NoByte \notin Byte
      /\ {CMD_READ, CMD_WRITE, CMD_READ_RESP, CMD_WRITE_ACK, CMD_NACK} \subseteq Byte
      /\ OP \in CMD_WRITE /\ OP \notin CMD_READ
  BY UartConstants DEF Byte, CMD_READ, CMD_WRITE, CMD_READ_RESP, CMD_WRITE_ACK, CMD_NACK
<1>2. \A x, y : Cardinality({x, y}) <= 2
  <2> SUFFICES ASSUME NEW x, NEW y PROVE Cardinality({x, y}) <= 2
    OBVIOUS
  <2>1. Cardinality({x}) = 1 /\ IsFiniteSet({x})
    BY FS_Singleton
  <2>2. Cardinality({x} \union {y}) \in {1, 2}
    BY <2>1, FS_AddElement
  <2>3. {x} \union {y} = {x, y}
    OBVIOUS
  <2> QED
    BY <2>2, <2>3
<1>3. OP # NACK /\ OP # DIR /\ NACK # DIR
  <2>1. CASE OP = NACK
    <3>1. {OP, NACK, DIR} = {OP, DIR}
      BY <2>1
    <3>2. Cardinality({OP, NACK, DIR}) <= 2
      BY <3>1, <1>2, Zenon
    <3> QED
      BY <3>2, UartConstants
  <2>2. CASE OP = DIR
    <3>1. {OP, NACK, DIR} = {OP, NACK}
      BY <2>2
    <3>2. Cardinality({OP, NACK, DIR}) <= 2
      BY <3>1, <1>2, Zenon
    <3> QED
      BY <3>2, UartConstants
  <2>3. CASE NACK = DIR
    <3>1. {OP, NACK, DIR} = {OP, DIR}
      BY <2>3
    <3>2. Cardinality({OP, NACK, DIR}) <= 2
      BY <3>1, <1>2, Zenon
    <3> QED
      BY <3>2, UartConstants
  <2> QED
    BY <2>1, <2>2, <2>3
<1> QED
  BY <1>1, <1>3 DEF CMD_READ_RESP, CMD_WRITE_ACK, CMD_NACK

LEMMA WordIsSeq ==
  /\ ZeroBytes \in Word
  /\ \A w \in Word : w \in Seq(Byte) /\ Len(w) = WORD_BYTES
  /\ \A s \in Seq(Byte) : Len(s) = WORD_BYTES => s \in Word
  BY Sizes DEF ZeroBytes, Word, Byte

LEMMA FrameParts ==
  \A cmd \in Byte, addr \in Byte, data \in Word :
    /\ Frame(cmd, addr, data) \in Seq(Byte)
    /\ Len(Frame(cmd, addr, data)) = FRAME
    /\ Frame(cmd, addr, data)[1] = SOF
    /\ Frame(cmd, addr, data)[2] = cmd
    /\ Frame(cmd, addr, data)[3] = addr
    /\ DataIn(Frame(cmd, addr, data)) = data
    /\ SubSeq(Frame(cmd, addr, data), 2, FRAME - 1) = SumOf(cmd, addr, data)
    /\ Frame(cmd, addr, data)[FRAME] = Checksum(SumOf(cmd, addr, data))
<1> TAKE cmd \in Byte, addr \in Byte, data \in Word
<1> DEFINE sum == <<cmd, addr>> \o data
           frame == Frame(cmd, addr, data)
<1>1. /\ sum \in Seq(Byte) /\ Len(sum) = FRAME - 2
      /\ frame \in Seq(Byte) /\ Len(frame) = FRAME
      /\ frame[FRAME] = Checksum(sum)
      /\ \A k \in 1 .. FRAME - 2 : frame[k + 1] = sum[k]
  BY FrameBytes
<1>2. data \in Seq(Byte) /\ Len(data) = WORD_BYTES
  BY WordIsSeq
<1>3. sum[1] = cmd /\ sum[2] = addr /\ \A k \in 1 .. WORD_BYTES : sum[2 + k] = data[k]
  BY <1>2, Sizes
<1>4. frame[1] = SOF
  BY <1>2, Sizes, Commands DEF Frame
<1> HIDE DEF sum, frame
<1>5. frame[2] = cmd /\ frame[3] = addr
  BY <1>1, <1>3, Sizes
<1>6. SubSeq(frame, 2, FRAME - 1) = sum
  <2>1. /\ SubSeq(frame, 2, FRAME - 1) \in Seq(Byte)
        /\ Len(SubSeq(frame, 2, FRAME - 1)) = FRAME - 2
        /\ \A k \in 1 .. FRAME - 2 : SubSeq(frame, 2, FRAME - 1)[k] = frame[k + 1]
    BY <1>1, Sizes
  <2> QED
    BY <1>1, <2>1, SeqEqual
<1>7. DataIn(frame) = data
  <2>1. /\ DataIn(frame) \in Seq(Byte)
        /\ Len(DataIn(frame)) = WORD_BYTES
        /\ \A k \in 1 .. WORD_BYTES : DataIn(frame)[k] = frame[k + 3]
    BY <1>1, Sizes DEF DataIn
  <2>2. \A k \in 1 .. WORD_BYTES : DataIn(frame)[k] = data[k]
    <3> TAKE k \in 1 .. WORD_BYTES
    <3>1. k + 2 \in 1 .. FRAME - 2 /\ (k + 2) + 1 = k + 3
      BY Sizes
    <3>2. frame[k + 3] = sum[k + 2]
      BY <1>1, <3>1
    <3> QED
      BY <1>3, <2>1, <3>2, Sizes
  <2> QED
    BY <1>2, <2>1, <2>2, SeqEqual
<1> QED
  BY <1>1, <1>4, <1>5, <1>6, <1>7 DEF sum, frame, SumOf

(* The checksum of a body with one flipped bit is not that of the body.    *)
LEMMA FlipShows ==
  ASSUME NEW s \in Seq(Byte), NEW t \in Seq(Byte), Len(s) = Len(t), OneFlip(s, t)
  PROVE  Checksum(s) # Checksum(t)
<1>1. PICK i \in 1 .. Len(s), f \in Bit :
        \A j \in 1 .. Len(s) : s[j] = IF j = i THEN Flipped(t[i], f) ELSE t[j]
  BY DEF OneFlip
<1> DEFINE flipped == [t EXCEPT ![i] = Flipped(@, f)]
<1>2. Flipped(t[i], f) \in Byte
  BY DEF Flipped, Byte
<1>3. flipped \in Seq(Byte) /\ Len(flipped) = Len(t)
      /\ \A j \in 1 .. Len(t) : flipped[j] = IF j = i THEN Flipped(t[i], f) ELSE t[j]
  BY <1>2
<1> HIDE DEF flipped
<1>4. s = flipped
  BY <1>1, <1>3, SeqEqual
<1>5. Checksum(flipped) # Checksum(t)
  <2>1. i \in DOMAIN t
    OBVIOUS
  <2> QED
    BY <2>1, SumChanges DEF flipped
<1> QED
  BY <1>4, <1>5


(* Frames with the same summed bytes say the same.                         *)
LEMMA SameSum ==
  ASSUME NEW c1 \in Byte, NEW a1 \in Byte, NEW d1 \in Word,
         NEW c2 \in Byte, NEW a2 \in Byte, NEW d2 \in Word,
         SumOf(c1, a1, d1) = SumOf(c2, a2, d2)
  PROVE  c1 = c2 /\ a1 = a2 /\ d1 = d2
<1>1. /\ d1 \in Seq(Byte) /\ Len(d1) = WORD_BYTES
      /\ d2 \in Seq(Byte) /\ Len(d2) = WORD_BYTES
  BY WordIsSeq
<1>2. /\ SumOf(c1, a1, d1)[1] = c1 /\ SumOf(c1, a1, d1)[2] = a1
      /\ \A k \in 1 .. WORD_BYTES : SumOf(c1, a1, d1)[2 + k] = d1[k]
  BY <1>1, Sizes DEF SumOf
<1>3. /\ SumOf(c2, a2, d2)[1] = c2 /\ SumOf(c2, a2, d2)[2] = a2
      /\ \A k \in 1 .. WORD_BYTES : SumOf(c2, a2, d2)[2 + k] = d2[k]
  BY <1>1, Sizes DEF SumOf
<1>4. d1 = d2
  BY <1>1, <1>2, <1>3, SeqEqual
<1> QED
  BY <1>2, <1>3, <1>4
-----------------------------------------------------------------------------
(* Requests, answers and registers.                                        *)

LEMMA Registers ==
  /\ \A r \in DOMAIN AddrByte : AddrByte[r] \in Byte /\ RegisterOf(AddrByte[r]) = r
  /\ \A a : RegisterOf(a) \in DOMAIN AddrByte \union {"UNMAPPED"}
  /\ JobRegs \subseteq DOMAIN AddrByte
  /\ Find = 1 .. Len(FindWord) /\ NoFind \notin Find /\ Cardinality(Find) = Len(FindWord)
<1>1. \A r \in DOMAIN AddrByte : AddrByte[r] \in Byte /\ RegisterOf(AddrByte[r]) = r
  <2> TAKE r \in DOMAIN AddrByte
  <2>1. AddrByte[r] \in Byte
    BY LinkConstants
  <2>2. \A s \in DOMAIN AddrByte : AddrByte[s] = AddrByte[r] <=> s = r
    BY LinkConstants
  <2> QED
    BY <2>1, <2>2 DEF RegisterOf
<1>2. \A a : RegisterOf(a) \in DOMAIN AddrByte \union {"UNMAPPED"}
  BY DEF RegisterOf
<1>3. JobRegs \subseteq DOMAIN AddrByte
  BY LinkConstants DEF JobRegs
<1>4. Len(FindWord) \in Nat /\ Find = 1 .. Len(FindWord)
  BY LinkConstants DEF Find
<1>5. NoFind \notin Find
  BY <1>4 DEF NoFind
<1>6. Cardinality(Find) = Len(FindWord)
  <2>1. Cardinality(1 .. Len(FindWord)) = IF 1 > Len(FindWord) THEN 0 ELSE Len(FindWord) - 1 + 1
    BY <1>4, FS_Interval
  <2> QED
    BY <1>4, <2>1
<1> QED
  BY <1>1, <1>2, <1>3, <1>4, <1>5, <1>6

LEMMA RequestParts ==
  ASSUME job \in JobValues, NEW r \in DOMAIN AddrByte
  PROVE  CmdFor(r) \in Byte /\ AddrByte[r] \in Byte /\ DataFor(r) \in Word
<1>1. CmdFor(r) \in Byte
  BY Commands DEF CmdFor
<1>2. AddrByte[r] \in Byte
  BY Registers
<1>3. job \in [JobRegs -> Word]
  BY LinkConstants
<1>4. DataFor(r) \in Word
  BY <1>3, WordIsSeq, LinkConstants DEF DataFor
<1> QED
  BY <1>1, <1>2, <1>4

(* What the checks of transact, read and write ask of an undamaged frame.  *)
LEMMA AcceptsFrame ==
  ASSUME NEW cmd \in Byte, NEW addr \in Byte, NEW data \in Word
  PROVE  Accepted(Frame(cmd, addr, data)) <=>
           /\ addr = AddrByte[req]
           /\ cmd = (IF IsWrite(req) THEN CMD_WRITE_ACK ELSE CMD_READ_RESP)
           /\ IsWrite(req) => data = DataFor(req)
<1> DEFINE frame == Frame(cmd, addr, data)
<1>1. /\ frame[1] = SOF /\ frame[2] = cmd /\ frame[3] = addr
      /\ DataIn(frame) = data
      /\ SubSeq(frame, 2, FRAME - 1) = SumOf(cmd, addr, data)
      /\ frame[FRAME] = Checksum(SumOf(cmd, addr, data))
  BY FrameParts
<1> HIDE DEF frame
<1>2. Accepted(frame) <=>
           /\ addr = AddrByte[req]
           /\ cmd = (IF IsWrite(req) THEN CMD_WRITE_ACK ELSE CMD_READ_RESP)
           /\ IsWrite(req) => data = DataFor(req)
  BY <1>1 DEF Accepted, DataIn
<1> QED
  BY <1>2 DEF frame

(* They refuse every frame with one flipped bit.                           *)
LEMMA RefusesFlip ==
  ASSUME NEW cmd \in Byte, NEW addr \in Byte, NEW data \in Word,
         NEW rx \in Seq(Byte), Len(rx) = FRAME, OneFlip(rx, Frame(cmd, addr, data))
  PROVE  ~Accepted(rx)
<1> DEFINE frame == Frame(cmd, addr, data)
<1>1. PICK i \in 1 .. Len(rx), f \in Bit :
        \A j \in 1 .. Len(rx) : rx[j] = IF j = i THEN Flipped(frame[i], f) ELSE frame[j]
  BY DEF OneFlip
<1>2. frame \in Seq(Byte) /\ Len(frame) = FRAME /\ frame[1] = SOF
  BY FrameParts
<1>3. CASE i = 1
  <2>1. rx[1] = Flipped(SOF, f)
    BY <1>1, <1>2, <1>3
  <2>2. rx[1] # SOF
    BY <2>1 DEF Flipped
  <2> QED
    BY <2>2 DEF Accepted
<1>4. CASE i # 1
  <2> DEFINE flipped == [frame EXCEPT ![i] = Flipped(@, f)]
  <2>1. i \in 2 .. FRAME
    BY <1>4, Sizes
  <2>2. Checksum(SubSeq(flipped, 2, FRAME - 1)) # flipped[FRAME]
    BY <2>1, EveryFlipIsNoticed
  <2> HIDE DEF frame
  <2>3. Flipped(frame[i], f) \in Byte
    BY <1>2 DEF Flipped, Byte
  <2>4. flipped \in Seq(Byte) /\ Len(flipped) = FRAME
        /\ \A j \in 1 .. FRAME : flipped[j] = IF j = i THEN Flipped(frame[i], f) ELSE frame[j]
    BY <1>2, <2>3
  <2> HIDE DEF flipped
  <2>5. rx = flipped
    BY <1>1, <2>4, SeqEqual
  <2> QED
    BY <2>2, <2>5 DEF Accepted
<1> QED
  BY <1>3, <1>4

-----------------------------------------------------------------------------
(* The bus of the work controller, by what is on it.                       *)

LEMMA BusIdle ==
  ASSUME W!Clock(FALSE, FALSE, "UNMAPPED", ZeroBytes, {})
  PROVE  UNCHANGED board
  BY DEF W!Clock, W!JobRegisters, W!PushSide, W!DoPush, W!Occupancy, W!DoPop, W!ReadPort, board

LEMMA BusWrite ==
  ASSUME NEW r, NEW d, W!Clock(TRUE, FALSE, r, d, {})
  PROVE  /\ regs' = IF r \in JobRegs THEN [regs EXCEPT ![r] = d] ELSE regs
         /\ UNCHANGED <<found_mem, found_wr_ptr, found_rd_ptr, found_count,
                        cur_nonce_hi, cur_workid, rdata>>
  BY DEF W!Clock, W!JobRegisters, W!PushSide, W!DoPush, W!Occupancy, W!DoPop, W!ReadPort

Pops(r) == r = "FOUND_NONCE0" /\ found_count # 0

LEMMA BusRead ==
  ASSUME NEW r, NEW d, W!Clock(FALSE, TRUE, r, d, {})
  PROVE  /\ UNCHANGED <<regs, found_mem, found_wr_ptr>>
         /\ rdata' = W!Answer(r)
         /\ IF Pops(r)
              THEN /\ found_count' = found_count - 1
                   /\ found_rd_ptr' = W!Advance(found_rd_ptr)
                   /\ cur_nonce_hi' = <<"nonce_hi", found_mem[found_rd_ptr]>>
                   /\ cur_workid' = <<"work_id", found_mem[found_rd_ptr]>>
              ELSE UNCHANGED <<found_count, found_rd_ptr, cur_nonce_hi, cur_workid>>
  BY DEF W!Clock, W!JobRegisters, W!PushSide, W!DoPush, W!Occupancy, W!DoPop, W!ReadPort,
         W!NonceHi, W!WorkId, Pops

LEMMA BusFind ==
  ASSUME NEW f, W!Clock(FALSE, FALSE, "UNMAPPED", ZeroBytes, {f}), found_count < FOUND_DEPTH,
         found_count \in Nat
  PROVE  /\ found_mem' = [found_mem EXCEPT ![found_wr_ptr] = f]
         /\ found_wr_ptr' = W!Advance(found_wr_ptr)
         /\ found_count' = found_count + 1
         /\ UNCHANGED <<regs, found_rd_ptr, cur_nonce_hi, cur_workid, rdata>>
  BY LinkConstants
     DEF W!Clock, W!JobRegisters, W!PushSide, W!DoPush, W!Occupancy, W!DoPop, W!ReadPort

-----------------------------------------------------------------------------
(* One byte time of the board, by what it does with the byte.              *)

Sends == frame_state = "F_SEND" /\ Send /\ UNCHANGED <<board, served>>

Idles(in) == frame_state # "F_SEND" /\ in = NoByte /\ UNCHANGED <<vars, board, served>>

Hunts(in) ==
  /\ frame_state = "F_WAIT_SOF" /\ in \in Byte
  /\ frame_state' = IF in = SOF THEN "F_BODY" ELSE "F_WAIT_SOF"
  /\ body' = <<>>
  /\ UNCHANGED <<resp, send_idx, board, served>>

Fills(in) ==
  /\ frame_state = "F_BODY" /\ ~Ends /\ in \in Byte
  /\ body' = Append(body, in)
  /\ UNCHANGED <<frame_state, resp, send_idx, board, served>>

Nacks(in) ==
  /\ Ends /\ in \in Byte /\ in # Checksum(body)
  /\ Respond(Frame(CMD_NACK, addr_reg, ZeroBytes))
  /\ UNCHANGED <<board, served>>

Writes(in) ==
  /\ Ends /\ in \in Byte /\ in = Checksum(body) /\ OP \in cmd_reg
  /\ Respond(Frame(CMD_WRITE_ACK, addr_reg, data_reg))
  /\ W!Clock(TRUE, FALSE, RegisterOf(addr_reg), data_reg, {})
  /\ served' = Append(served, <<RegisterOf(addr_reg), TRUE, data_reg>>)

Fetches(in) ==
  /\ Ends /\ in \in Byte /\ in = Checksum(body) /\ OP \notin cmd_reg
  /\ Respond(Frame(CMD_READ_RESP, addr_reg, WordOf(rdata')))
  /\ W!Clock(FALSE, TRUE, RegisterOf(addr_reg), ZeroBytes, {})
  /\ served' = Append(served, <<RegisterOf(addr_reg), FALSE, WordOf(rdata')>>)

LEMMA ExchangeCases ==
  ASSUME TypeOK, NEW in \in Byte \union {NoByte}, NEW out, Exchange(in, out)
  PROVE  \/ Sends \/ Idles(in) \/ Hunts(in) \/ Fills(in)
         \/ Nacks(in) \/ Writes(in) \/ Fetches(in)
<1> DEFINE w == in # NoByte /\ we(in)
           r == in # NoByte /\ re(in)
<1>1. /\ W!Clock(w, r, IF w \/ r THEN RegisterOf(addr_reg) ELSE "UNMAPPED",
                 IF w THEN data_reg ELSE ZeroBytes, {})
      /\ ByteTime(in, WordOf(rdata'))
      /\ served' = IF w \/ r
                     THEN Append(served, <<RegisterOf(addr_reg), w,
                                           IF w THEN data_reg ELSE WordOf(rdata')>>)
                     ELSE served
  BY DEF Exchange
<1>2. frame_state \in {"F_WAIT_SOF", "F_BODY", "F_SEND"} /\ NoByte \notin Byte
  BY Commands DEF TypeOK
<1>3. w <=> in # NoByte /\ Ends /\ in = Checksum(body) /\ OP \in cmd_reg
  BY DEF we
<1>4. r <=> in # NoByte /\ Ends /\ in = Checksum(body) /\ OP \notin cmd_reg
  BY DEF re
<1>5. (w = TRUE \/ w = FALSE) /\ (r = TRUE \/ r = FALSE)
  OBVIOUS
<1>6. w \/ r => Ends /\ in \in Byte /\ in = Checksum(body) /\ frame_state = "F_BODY"
  BY <1>3, <1>4 DEF Ends
<1> HIDE DEF w, r
<1>7. CASE ~w /\ ~r
  <2>1. W!Clock(FALSE, FALSE, "UNMAPPED", ZeroBytes, {}) /\ served' = served
    BY <1>1, <1>5, <1>7
  <2>2. UNCHANGED <<board, served>>
    BY <2>1, BusIdle
  <2>3. CASE frame_state = "F_SEND"
    BY <1>1, <2>2, <2>3 DEF ByteTime, Sends
  <2>4. CASE frame_state # "F_SEND" /\ in = NoByte
    BY <1>1, <2>2, <2>4 DEF ByteTime, Idles
  <2>5. CASE frame_state # "F_SEND" /\ in # NoByte
    <3>1. in \in Byte /\ Receive(in, WordOf(rdata'))
      BY <1>1, <2>5 DEF ByteTime
    <3>2. CASE frame_state = "F_WAIT_SOF"
      <4>1. /\ frame_state' = IF in = SOF THEN "F_BODY" ELSE "F_WAIT_SOF"
            /\ body' = <<>>
            /\ UNCHANGED <<resp, send_idx>>
        <5>1. frame_state # "F_BODY" /\ ~we(in) /\ ~re(in)
          BY <3>2 DEF we, re, Ends
        <5> QED
          BY <3>1, <3>2, <5>1, Zenon DEF Receive
      <4> QED
        BY <3>1, <3>2, <2>2, <4>1 DEF Hunts
    <3>3. CASE frame_state = "F_BODY" /\ ~Ends
      <4>1. body' = Append(body, in) /\ UNCHANGED <<frame_state, resp, send_idx>>
        <5>1. frame_state # "F_WAIT_SOF" /\ ~we(in) /\ ~re(in)
          BY <3>3 DEF we, re
        <5> QED
          BY <3>1, <3>3, <5>1, Zenon DEF Receive
      <4> QED
        BY <3>1, <3>3, <2>2, <4>1 DEF Fills
    <3>4. CASE frame_state = "F_BODY" /\ Ends
      <4>1. in # Checksum(body) /\ ~we(in) /\ ~re(in)
        BY <1>3, <1>4, <1>7, <2>5, <3>4 DEF we, re
      <4> QED
        BY <3>1, <3>4, <4>1, <2>2 DEF Receive, Nacks
    <3> QED
      BY <1>2, <2>5, <3>2, <3>3, <3>4
  <2> QED
    BY <2>3, <2>4, <2>5
<1>8. CASE w
  <2>1. ~r /\ we(in) /\ in \in Byte /\ Ends /\ in = Checksum(body) /\ OP \in cmd_reg
    BY <1>3, <1>4, <1>6, <1>8 DEF we
  <2>2. /\ W!Clock(TRUE, FALSE, RegisterOf(addr_reg), data_reg, {})
        /\ served' = Append(served, <<RegisterOf(addr_reg), TRUE, data_reg>>)
    BY <1>1, <1>5, <1>8, <2>1
  <2>3. Receive(in, WordOf(rdata')) /\ frame_state = "F_BODY"
    BY <1>1, <1>2, <1>6, <1>8 DEF ByteTime
  <2>4. Respond(Frame(CMD_WRITE_ACK, addr_reg, data_reg))
    <3>1. frame_state # "F_WAIT_SOF" /\ ~re(in)
      BY <2>1, <2>3 DEF re
    <3> QED
      BY <2>1, <2>3, <3>1, Zenon DEF Receive
  <2> QED
    BY <2>1, <2>2, <2>4 DEF Writes
<1>9. CASE r
  <2>1. ~w /\ ~we(in) /\ re(in) /\ in \in Byte /\ Ends /\ in = Checksum(body) /\ OP \notin cmd_reg
    BY <1>3, <1>4, <1>6, <1>9 DEF we, re
  <2>2. /\ W!Clock(FALSE, TRUE, RegisterOf(addr_reg), ZeroBytes, {})
        /\ served' = Append(served, <<RegisterOf(addr_reg), FALSE, WordOf(rdata')>>)
    BY <1>1, <1>5, <1>9, <2>1
  <2>3. Receive(in, WordOf(rdata')) /\ frame_state = "F_BODY"
    BY <1>1, <1>2, <1>6, <1>9 DEF ByteTime
  <2>4. Respond(Frame(CMD_READ_RESP, addr_reg, WordOf(rdata')))
    BY <2>1, <2>3 DEF Receive
  <2> QED
    BY <2>1, <2>2, <2>4 DEF Fetches
<1> QED
  BY <1>7, <1>8, <1>9

-----------------------------------------------------------------------------
(* Types.                                                                  *)

LEMMA BodyParts ==
  ASSUME TypeOK, Ends
  PROVE  /\ cmd_reg \in Byte /\ addr_reg \in Byte /\ data_reg \in Word
         /\ body \in Seq(Byte) /\ Len(body) = FRAME - 2
         /\ body = SumOf(cmd_reg, addr_reg, data_reg)
<1>1. body \in Seq(Byte) /\ Len(body) = FRAME - 2
  BY DEF TypeOK, Ends
<1>2. cmd_reg \in Byte /\ addr_reg \in Byte
  BY <1>1, Sizes DEF cmd_reg, addr_reg
<1>3. /\ data_reg \in Seq(Byte) /\ Len(data_reg) = WORD_BYTES
      /\ \A i \in 1 .. WORD_BYTES : data_reg[i] = body[i + 2]
  BY <1>1, Sizes DEF data_reg
<1>4. data_reg \in Word
  BY <1>3, WordIsSeq
<1> DEFINE sum == SumOf(cmd_reg, addr_reg, data_reg)
<1>5. /\ sum \in Seq(Byte) /\ Len(sum) = FRAME - 2
      /\ sum[1] = cmd_reg /\ sum[2] = addr_reg
      /\ \A i \in 1 .. WORD_BYTES : sum[2 + i] = data_reg[i]
  <2> HIDE DEF cmd_reg, addr_reg, data_reg
  <2> QED
    BY <1>2, <1>3, Sizes DEF SumOf
<1> HIDE DEF sum
<1>6. \A i \in 1 .. Len(body) : body[i] = sum[i]
  <2> SUFFICES ASSUME NEW i \in 1 .. Len(body) PROVE body[i] = sum[i]
    OBVIOUS
  <2>1. CASE i \in {1, 2}
    BY <1>5, <2>1 DEF cmd_reg, addr_reg
  <2>2. CASE i \notin {1, 2}
    <3>1. i - 2 \in 1 .. WORD_BYTES /\ 2 + (i - 2) = i /\ (i - 2) + 2 = i
      BY <1>1, <2>2, Sizes
    <3> QED
      BY <1>3, <1>5, <3>1
  <2> QED
    BY <2>1, <2>2
<1>7. body = sum
  BY <1>1, <1>5, <1>6, SeqEqual
<1> QED
  BY <1>1, <1>2, <1>4, <1>7 DEF sum

LEMMA WordOfType ==
  ASSUME NEW answer \in W!Part \union W!HeldHi \union W!HeldId
  PROVE  WordOf(answer) \in Word
<1>1. ZeroBytes \in Word /\ \A f \in Find : FindWord[f] \in Word
  BY WordIsSeq, Registers, LinkConstants
<1>2. \A n \in 0 .. FOUND_DEPTH : CountWord[n] \in Word
  BY LinkConstants
<1>3. CASE \E w \in Word : answer = <<"word", w>>
  BY <1>3 DEF WordOf
<1>4. CASE \E n \in 0 .. FOUND_DEPTH : answer = <<"count", n>>
  BY <1>2, <1>4 DEF WordOf
<1>5. CASE \E f \in Find \union {NoFind} :
             answer \in {<<"nonce_lo", f>>, <<"nonce_hi", f>>, <<"work_id", f>>}
  BY <1>1, <1>5 DEF WordOf
<1>6. CASE answer \in {<<"nonempty", TRUE>>, <<"nonempty", FALSE>>, <<"zero">>}
  <2>1. answer[1] \in {"nonempty", "zero"}
    <3>1. \A b : <<"nonempty", b>>[1] = "nonempty"
      OBVIOUS
    <3>2. CASE answer = <<"zero">>
      BY <3>2
    <3>3. CASE answer # <<"zero">>
      <4>1. \E b : answer = <<"nonempty", b>>
        BY <1>6, <3>3, Zenon
      <4> QED
        BY <3>1, <4>1, Zenon
    <3> QED
      BY <3>2, <3>3
  <2>2. /\ answer[1] # "word" /\ answer[1] # "count"
        /\ ~(answer[1] \in {"nonce_lo", "nonce_hi", "work_id"} /\ answer[2] # NoFind)
    BY <2>1
  <2>3. WordOf(answer) = ZeroBytes
    BY <2>2, Zenon DEF WordOf
  <2> QED
    BY <1>1, <2>3
<1>7. CASE answer \in W!HeldHi \union W!HeldId
  BY <1>5, <1>7 DEF W!HeldHi, W!HeldId, W!NonceHi, W!WorkId
<1>8. CASE answer \in W!Part
  <2>1. \/ \E f \in Find \union {NoFind} : answer = W!NonceLo(f)
        \/ \E w \in Word : answer = W!JobWord(w)
        \/ \E b \in BOOLEAN : answer = W!Status(b)
        \/ \E n \in 0 .. FOUND_DEPTH : answer = W!Count(n)
        \/ answer = W!Zero
    BY <1>8 DEF W!Part
  <2> QED
    BY <2>1, <1>3, <1>4, <1>5, <1>6 DEF W!NonceLo, W!JobWord, W!Status, W!Count, W!Zero
<1> QED
  BY <1>7, <1>8

LEMMA AnswerType ==
  ASSUME W!TypeOK, NEW r
  PROVE  W!Answer(r) \in W!Part \union W!HeldHi \union W!HeldId
<1>1. CASE r \in JobRegs
  <2>1. regs[r] \in Word
    BY <1>1 DEF W!TypeOK
  <2>2. W!Answer(r) = <<"word", regs[r]>>
    <3>1. r \notin {"STATUS", "FOUND_COUNT", "FOUND_NONCE0", "FOUND_NONCE1", "FOUND_WORKID"}
      BY <1>1, LinkConstants DEF W!ReadOnlyAddr
    <3>2. /\ r # "STATUS" /\ r # "FOUND_COUNT" /\ r # "FOUND_NONCE0"
          /\ r # "FOUND_NONCE1" /\ r # "FOUND_WORKID"
      BY <3>1
    <3> QED
      BY <1>1, <3>2, Zenon DEF W!Answer, W!JobWord
  <2> QED
    BY <2>1, <2>2 DEF W!Part, W!JobWord
<1>2. CASE r \notin JobRegs /\ r \in {"STATUS", "FOUND_COUNT"}
  BY <1>2 DEF W!Answer, W!Part, W!TypeOK, W!Status, W!Count
<1>3. CASE r \notin JobRegs /\ r = "FOUND_NONCE0"
  BY <1>3 DEF W!Answer, W!Part, W!TypeOK
<1>4. CASE r \notin JobRegs \union {"STATUS", "FOUND_COUNT", "FOUND_NONCE0"}
  BY <1>4 DEF W!Answer, W!Part, W!TypeOK
<1> QED
  BY <1>1, <1>2, <1>3, <1>4

LEMMA BusTypes ==
  ASSUME W!TypeOK, NEW r, NEW d \in Word,
         W!Clock(TRUE, FALSE, r, d, {}) \/ W!Clock(FALSE, TRUE, r, d, {})
  PROVE  W!TypeOK'
<1>1. CASE W!Clock(TRUE, FALSE, r, d, {})
  <2>1. /\ regs' = IF r \in JobRegs THEN [regs EXCEPT ![r] = d] ELSE regs
        /\ UNCHANGED <<found_mem, found_wr_ptr, found_rd_ptr, found_count,
                       cur_nonce_hi, cur_workid, rdata>>
    BY <1>1, BusWrite, Zenon
  <2>2. regs' \in [JobRegs -> Word]
    BY <2>1 DEF W!TypeOK
  <2> QED
    BY <2>1, <2>2 DEF W!TypeOK
<1>2. CASE W!Clock(FALSE, TRUE, r, d, {})
  <2>1. /\ UNCHANGED <<regs, found_mem, found_wr_ptr>>
        /\ rdata' = W!Answer(r)
    BY <1>2, BusRead
  <2>2. rdata' \in W!Part \union W!HeldHi \union W!HeldId
    BY <2>1, AnswerType
  <2>3. CASE Pops(r)
    <3>1. /\ found_count' = found_count - 1
          /\ found_rd_ptr' = W!Advance(found_rd_ptr)
          /\ cur_nonce_hi' = <<"nonce_hi", found_mem[found_rd_ptr]>>
          /\ cur_workid' = <<"work_id", found_mem[found_rd_ptr]>>
          /\ found_count # 0
      BY <1>2, <2>3, BusRead DEF Pops
    <3>2. found_mem[found_rd_ptr] \in Find \union {NoFind}
      BY DEF W!TypeOK
    <3>3. cur_nonce_hi' \in W!HeldHi /\ cur_workid' \in W!HeldId
      BY <3>1, <3>2 DEF W!HeldHi, W!HeldId, W!NonceHi, W!WorkId
    <3>4. found_rd_ptr' \in W!Slot /\ found_count' \in 0 .. FOUND_DEPTH
      <4>1. FOUND_DEPTH \in Nat \ {0}
        BY LinkConstants
      <4>2. found_rd_ptr \in 0 .. FOUND_DEPTH - 1 /\ found_count \in 0 .. FOUND_DEPTH
        BY DEF W!TypeOK, W!Slot
      <4>3. found_rd_ptr' \in 0 .. FOUND_DEPTH - 1
        BY <3>1, <4>1, <4>2 DEF W!Advance
      <4>4. found_count' \in 0 .. FOUND_DEPTH
        BY <3>1, <4>1, <4>2
      <4> QED
        BY <4>3, <4>4 DEF W!Slot
    <3> QED
      BY <2>1, <2>2, <3>3, <3>4 DEF W!TypeOK
  <2>4. CASE ~Pops(r)
    <3>1. UNCHANGED <<found_count, found_rd_ptr, cur_nonce_hi, cur_workid>>
      BY <1>2, <2>4, BusRead
    <3> QED
      BY <2>1, <2>2, <3>1 DEF W!TypeOK
  <2> QED
    BY <2>3, <2>4
<1> QED
  BY <1>1, <1>2

LEMMA ExchangeTypes ==
  ASSUME TypeOK, W!TypeOK, toBoard \in Seq(Byte), toHost \in Seq(Byte),
         NEW in \in Byte \union {NoByte}, NEW out \in Byte \union {NoByte}, Exchange(in, out)
  PROVE  TypeOK' /\ W!TypeOK' /\ toBoard' \in Seq(Byte) /\ toHost' \in Seq(Byte)
<1>1. toBoard' \in Seq(Byte)
  BY DEF Exchange
<1>2. toHost' \in Seq(Byte)
  BY DEF Exchange
<1>3. CASE Sends \/ Idles(in) \/ Hunts(in) \/ Fills(in)
  <2>1. UNCHANGED board
    BY <1>3 DEF Sends, Idles, Hunts, Fills
  <2>2. W!TypeOK'
    BY <2>1 DEF W!TypeOK, board
  <2>3. TypeOK'
    <3>1. CASE Sends
      BY <3>1, Sizes DEF Sends, Send, TypeOK
    <3>2. CASE Idles(in)
      BY <3>2 DEF Idles, TypeOK, vars
    <3>3. CASE Hunts(in)
      BY <3>3, Sizes DEF Hunts, TypeOK
    <3>4. CASE Fills(in)
      BY <3>4, Sizes DEF Fills, TypeOK, Ends
    <3> QED
      BY <1>3, <3>1, <3>2, <3>3, <3>4
  <2> QED
    BY <1>1, <1>2, <2>2, <2>3
<1>4. CASE Nacks(in) \/ Writes(in) \/ Fetches(in)
  <2>1. Ends /\ addr_reg \in Byte /\ data_reg \in Word
    BY <1>4, BodyParts DEF Nacks, Writes, Fetches
  <2>2. W!TypeOK'
    <3>1. CASE Nacks(in)
      BY <3>1 DEF Nacks, W!TypeOK, board
    <3>2. CASE Writes(in)
      BY <3>2, <2>1, BusTypes DEF Writes
    <3>3. CASE Fetches(in)
      BY <3>3, WordIsSeq, BusTypes DEF Fetches
    <3> QED
      BY <1>4, <3>1, <3>2, <3>3
  <2>3. WordOf(rdata') \in Word
    BY <2>2, WordOfType DEF W!TypeOK
  <2>4. \E cmd \in Byte, d \in Word : Respond(Frame(cmd, addr_reg, d))
    BY <1>4, <2>1, <2>3, Commands, WordIsSeq DEF Nacks, Writes, Fetches
  <2>5. PICK frame \in Seq(Byte) : Len(frame) = FRAME /\ Respond(frame)
    BY <2>1, <2>4, FrameParts
  <2>6. TypeOK'
    BY <2>5, Sizes DEF Respond, TypeOK
  <2> QED
    BY <1>1, <1>2, <2>2, <2>6
<1> QED
  BY <1>3, <1>4, ExchangeCases


LEMMA NoBytes == \A S : <<>> \in Seq(S)
OBVIOUS

LEMMA InitTypes == LinkInit => Types
<1> SUFFICES ASSUME LinkInit PROVE Types
  OBVIOUS
<1>1. TypeOK
  BY Sizes DEF LinkInit, Init, TypeOK
<1>2. W!TypeOK
  BY LinkConstants, WordIsSeq
     DEF LinkInit, W!Init, W!TypeOK, W!Slot, W!Part, W!HeldHi, W!HeldId, W!NonceHi, W!WorkId
<1>3. /\ toBoard = <<>> /\ toHost = <<>> /\ todo = <<>> /\ popped = <<>> /\ req = None
      /\ job \in JobValues /\ presented = 0 /\ faults = 0 /\ failures = 0
      /\ only_changed = FALSE /\ hit = FALSE /\ stale = FALSE /\ torn = FALSE
      /\ written \in [JobRegs -> Word \union {None}]
  BY DEF LinkInit
<1>4. 0 \in 0 .. Len(FindWord)
  BY LinkConstants
<1>5. toBoard \in Seq(Byte) /\ toHost \in Seq(Byte) /\ popped \in Seq(Word)
      /\ todo \in Seq(DOMAIN AddrByte)
  BY <1>3, NoBytes
<1> QED
  BY <1>1, <1>2, <1>3, <1>4, <1>5 DEF Types

(* What the wires carry.                                                   *)
LEMMA WireTypes ==
  ASSUME Types
  PROVE  /\ arriving \in Byte \union {NoByte} /\ sent \in Byte \union {NoByte}
         /\ \A b \in Byte : Damaged(b) \subseteq Byte \union {NoByte}
<1>1. arriving \in Byte \union {NoByte}
  BY DEF Types, arriving
<1>2. sent \in Byte \union {NoByte}
  BY Sizes DEF Types, TypeOK, sent
<1>3. \A b \in Byte : Damaged(b) \subseteq Byte \union {NoByte}
  BY DEF Damaged, Byte
<1> QED
  BY <1>1, <1>2, <1>3

(* A step of the board that takes one byte and sends one, either of them   *)
(* perhaps damaged.                                                        *)
Moves(in, out) ==
  /\ Exchange(in, out)
  /\ ~Quiet
  /\ \/ /\ in = arriving /\ out = sent /\ UNCHANGED <<faults, failures, hit>>
     \/ /\ ~hit /\ hit' = TRUE /\ failures' = 0 /\ faults' = faults + 1
        /\ \/ arriving # NoByte /\ in \in Damaged(arriving) /\ out = sent
           \/ sent # NoByte /\ out \in Damaged(sent) /\ in = arriving
Wired == \E in, out \in Byte \union {NoByte} : Moves(in, out)

LEMMA WiredCases ==
  ASSUME Types, Wire \/ WireFault
  PROVE  Wired
<1>1. CASE Wire
  BY <1>1, WireTypes DEF Wire, Wired, Moves
<1>2. CASE WireFault
  <2>1. arriving # NoByte => arriving \in Byte /\ Damaged(arriving) \subseteq Byte \union {NoByte}
    BY WireTypes
  <2>2. sent # NoByte => sent \in Byte /\ Damaged(sent) \subseteq Byte \union {NoByte}
    BY WireTypes
  <2> QED
    BY <1>2, <2>1, <2>2, WireTypes DEF WireFault, Wired, Moves
<1> QED
  BY <1>1, <1>2

LEMMA WiredTypes ==
  ASSUME Types, Wired
  PROVE  Types'
<1>1. PICK in \in Byte \union {NoByte}, out \in Byte \union {NoByte} : Moves(in, out)
  BY DEF Wired
<1>2. TypeOK' /\ W!TypeOK' /\ toBoard' \in Seq(Byte) /\ toHost' \in Seq(Byte)
  BY <1>1, ExchangeTypes DEF Types, Moves
<1>3. /\ UNCHANGED <<host, presented, delivered, stale, torn>>
      /\ faults' \in {faults, faults + 1} /\ failures' \in {failures, 0}
      /\ hit' \in {hit, TRUE}
  BY <1>1 DEF Moves, Exchange
<1>4. faults' \in Nat /\ failures' \in Nat
  BY <1>3 DEF Types
<1>6. hit' \in BOOLEAN
  BY <1>3, Zenon DEF Types
<1>5. /\ todo' = todo /\ req' = req /\ job' = job /\ only_changed' = only_changed
      /\ popped' = popped /\ written' = written /\ presented' = presented
      /\ stale' = stale /\ torn' = torn
  BY <1>3 DEF host
<1> QED
  BY <1>2, <1>4, <1>5, <1>6 DEF Types

LEMMA RestTypes ==
  ASSUME Types, UNCHANGED <<vars, board>>
  PROVE  TypeOK' /\ W!TypeOK'
  BY DEF Types, TypeOK, W!TypeOK, vars, board

LEMMA LoadJobTypes ==
  ASSUME Types, LoadJob
  PROVE  Types'
<1>1. Append(JobAddr, "CTRL") \in Seq(DOMAIN AddrByte)
  BY LinkConstants
<1> QED
  BY <1>1, RestTypes DEF LoadJob, Types

LEMMA SimpleTypes ==
  ASSUME Types, PopFound \/ forget
  PROVE  Types'
<1>1. <<"FOUND_COUNT">> \in Seq(DOMAIN AddrByte)
  BY LinkConstants
<1>2. TypeOK' /\ W!TypeOK'
  BY RestTypes DEF PopFound, forget
<1>3. CASE PopFound
  <2>1. popped' \in Seq(Word)
    BY <1>3, NoBytes DEF PopFound
  <2> QED
    BY <1>1, <1>2, <1>3, <2>1 DEF PopFound, Types
<1>4. CASE forget
  BY <1>2, <1>4 DEF forget, Types
<1> QED
  BY <1>3, <1>4

LEMMA TransactTypes ==
  ASSUME Types, Transact
  PROVE  Types'
<1>1. PICK i \in DOMAIN todo :
        /\ ~PassedOver(todo[i]) /\ \A j \in 1 .. i - 1 : PassedOver(todo[j])
        /\ todo' = SubSeq(todo, i, Len(todo))
        /\ req' = todo[i]
        /\ toBoard' = toBoard \o Frame(CmdFor(todo[i]), AddrByte[todo[i]], DataFor(todo[i]))
        /\ written' = Drops(todo[i])
  BY DEF Transact
<1>2. todo[i] \in DOMAIN AddrByte /\ i \in 1 .. Len(todo) /\ todo \in Seq(DOMAIN AddrByte)
  BY <1>1 DEF Types
<1>3. todo' \in Seq(DOMAIN AddrByte) /\ todo' # <<>> /\ Head(todo') = todo[i]
  BY <1>1, <1>2
<1>4. CmdFor(todo[i]) \in Byte /\ AddrByte[todo[i]] \in Byte /\ DataFor(todo[i]) \in Word
  BY <1>2, RequestParts DEF Types
<1>5. Frame(CmdFor(todo[i]), AddrByte[todo[i]], DataFor(todo[i])) \in Seq(Byte)
  BY <1>4, FrameParts
<1>6. toBoard' \in Seq(Byte)
  BY <1>1, <1>5 DEF Types
<1>7. written' \in [JobRegs -> Word \union {None}]
  BY <1>1 DEF Drops, Types
<1>8. UNCHANGED <<vars, board, toHost, job, only_changed, popped,
                  presented, delivered, faults, failures, stale, torn>> /\ hit' = FALSE
  BY DEF Transact
<1>9. TypeOK' /\ W!TypeOK'
  BY <1>8, RestTypes
<1> QED
  BY <1>1, <1>2, <1>3, <1>6, <1>7, <1>8, <1>9 DEF Types

LEMMA FailTypes ==
  ASSUME Types, Fail, toHost' \in Seq(Byte),
         UNCHANGED <<vars, board, toBoard, presented, faults, hit, torn>>
  PROVE  Types'
<1>1. TypeOK' /\ W!TypeOK'
  BY RestTypes
<1>2. /\ todo' = <<>> /\ req' = None /\ failures' \in Nat /\ stale' = FALSE
      /\ written' \in [JobRegs -> Word \union {None}]
  BY DEF Fail, Types
<1>3. todo' \in Seq(DOMAIN AddrByte)
  BY <1>2, NoBytes
<1> QED
  BY <1>1, <1>2, <1>3 DEF Fail, Types

LEMMA DataInType ==
  \A s \in Seq(Byte) : Len(s) >= FRAME =>
     /\ DataIn(s) \in Word
     /\ SubSeq(s, 1, FRAME) \in Seq(Byte) /\ Len(SubSeq(s, 1, FRAME)) = FRAME
     /\ DataIn(SubSeq(s, 1, FRAME)) = DataIn(s)
     /\ SubSeq(s, FRAME + 1, Len(s)) \in Seq(Byte)
<1> SUFFICES ASSUME NEW s \in Seq(Byte), Len(s) >= FRAME
             PROVE  /\ DataIn(s) \in Word
                    /\ SubSeq(s, 1, FRAME) \in Seq(Byte) /\ Len(SubSeq(s, 1, FRAME)) = FRAME
                    /\ DataIn(SubSeq(s, 1, FRAME)) = DataIn(s)
                    /\ SubSeq(s, FRAME + 1, Len(s)) \in Seq(Byte)
  OBVIOUS
<1> DEFINE rx == SubSeq(s, 1, FRAME)
<1>1. rx \in Seq(Byte) /\ Len(rx) = FRAME /\ \A k \in 1 .. FRAME : rx[k] = s[k]
  BY Sizes
<1>2. SubSeq(s, FRAME + 1, Len(s)) \in Seq(Byte)
  BY Sizes
<1> HIDE DEF rx
<1>3. /\ DataIn(s) \in Seq(Byte) /\ Len(DataIn(s)) = WORD_BYTES
      /\ \A k \in 1 .. WORD_BYTES : DataIn(s)[k] = s[k + 3]
  BY Sizes DEF DataIn
<1>4. /\ DataIn(rx) \in Seq(Byte) /\ Len(DataIn(rx)) = WORD_BYTES
      /\ \A k \in 1 .. WORD_BYTES : DataIn(rx)[k] = rx[k + 3]
  BY <1>1, Sizes DEF DataIn
<1>5. \A k \in 1 .. WORD_BYTES : DataIn(rx)[k] = DataIn(s)[k]
  BY <1>1, <1>3, <1>4, Sizes
<1>6. DataIn(rx) = DataIn(s)
  BY <1>3, <1>4, <1>5, SeqEqual
<1> QED
  BY <1>1, <1>2, <1>3, <1>6, WordIsSeq DEF rx

LEMMA AnsweredTypes ==
  ASSUME Types, Answered
  PROVE  Types'
<1>1. toHost \in Seq(Byte) /\ Len(toHost) >= FRAME
  BY DEF Answered, Types
<1>2. toHost' \in Seq(Byte)
  BY <1>1, DataInType DEF Answered
<1>3. DataIn(SubSeq(toHost, 1, FRAME)) \in Word
  BY <1>1, DataInType
<1>4. CASE Fail
  BY <1>2, <1>4, FailTypes DEF Answered
<1>5. CASE Succeed(DataIn(SubSeq(toHost, 1, FRAME)))
  <2>1. req \in DOMAIN AddrByte /\ todo # <<>> /\ todo \in Seq(DOMAIN AddrByte)
        /\ req' = None /\ popped' \in Seq(Word) /\ failures' = 0
        /\ UNCHANGED <<job, only_changed, stale>>
    BY <1>3, <1>5 DEF Succeed, Types, Answered
  <2>2. todo' \in Seq(DOMAIN AddrByte)
    <3>1. <<"FOUND_NONCE0", "FOUND_NONCE1", "FOUND_WORKID">> \in Seq(DOMAIN AddrByte)
          /\ Tail(todo) \in Seq(DOMAIN AddrByte) /\ <<>> \in Seq(DOMAIN AddrByte)
      BY <2>1, LinkConstants
    <3> QED
      BY <1>5, <3>1 DEF Succeed
  <2>3. written' \in [JobRegs -> Word \union {None}]
    <3>1. \A r \in JobRegs : job[r] \in Word
      BY LinkConstants DEF Types
    <3> QED
      BY <1>5, <3>1 DEF Succeed, Types
  <2>4. UNCHANGED <<vars, board, toBoard, served, presented, faults, hit, torn>>
    BY DEF Answered
  <2>5. TypeOK' /\ W!TypeOK'
    BY <2>4, RestTypes
  <2> QED
    BY <1>2, <2>1, <2>2, <2>3, <2>4, <2>5 DEF Types
<1> QED
  BY <1>4, <1>5 DEF Answered

LEMMA TimedOutTypes ==
  ASSUME Types, TimedOut
  PROVE  Types'
<1>1. toHost' \in Seq(Byte)
  BY DEF TimedOut
<1> QED
  BY <1>1, FailTypes DEF TimedOut

LEMMA FoundTypes ==
  ASSUME Types, Found
  PROVE  Types'
<1>1. presented + 1 \in Find /\ presented + 1 \in 0 .. Len(FindWord) /\ found_count \in Nat
  BY Registers, LinkConstants DEF Found, Types, W!TypeOK
<1>2. /\ found_mem' = [found_mem EXCEPT ![found_wr_ptr] = presented + 1]
      /\ found_wr_ptr' = W!Advance(found_wr_ptr)
      /\ found_count' = found_count + 1
      /\ UNCHANGED <<regs, found_rd_ptr, cur_nonce_hi, cur_workid, rdata>>
  BY <1>1, BusFind DEF Found
<1>3. found_wr_ptr' \in W!Slot /\ found_count' \in 0 .. FOUND_DEPTH
  <2>1. /\ found_wr_ptr \in W!Slot /\ found_count \in 0 .. FOUND_DEPTH
        /\ found_count < FOUND_DEPTH
    BY DEF Found, Types, W!TypeOK
  <2> QED
    BY <1>2, <2>1, LinkConstants DEF W!Slot, W!Advance
<1>4. W!TypeOK'
  BY <1>1, <1>2, <1>3 DEF Types, W!TypeOK
<1>5. UNCHANGED <<vars, toBoard, toHost, host, served, delivered, faults, failures, hit, stale, torn>>
      /\ presented' = presented + 1
  BY DEF Found
<1>6. TypeOK'
  BY <1>5 DEF Types, TypeOK, vars
<1> QED
  BY <1>1, <1>4, <1>5, <1>6 DEF Types, host

LEMMA BoardResetTypes ==
  ASSUME Types, BoardReset
  PROVE  Types'
<1>1. TypeOK'
  BY Sizes DEF BoardReset, UartReset, TypeOK
<1>2. W!TypeOK'
  <2>1. /\ regs' = [a \in JobRegs |-> ZeroBytes] /\ found_mem' = found_mem
        /\ found_wr_ptr' = 0 /\ found_rd_ptr' = 0 /\ found_count' = 0
        /\ cur_nonce_hi' = W!NonceHi(NoFind) /\ cur_workid' = W!WorkId(NoFind)
        /\ rdata' = W!Zero
    BY DEF BoardReset, W!Reset
  <2>2. 0 \in W!Slot /\ 0 \in 0 .. FOUND_DEPTH
    BY LinkConstants DEF W!Slot
  <2>3. regs' \in [JobRegs -> Word] /\ found_mem' \in [W!Slot -> Find \union {NoFind}]
    BY <2>1, WordIsSeq DEF Types, W!TypeOK
  <2>4. /\ W!NonceHi(NoFind) \in W!HeldHi /\ W!WorkId(NoFind) \in W!HeldId
        /\ W!Zero \in W!Part
    BY DEF W!HeldHi, W!HeldId, W!Part
  <2> QED
    BY <2>1, <2>2, <2>3, <2>4 DEF W!TypeOK
<1> QED
  BY <1>1, <1>2 DEF BoardReset, Types, host

LEMMA StutterTypes ==
  ASSUME Types, UNCHANGED linkVars
  PROVE  Types'
  BY RestTypes DEF linkVars, host, Types

LEMMA StepTypes ==
  ASSUME Types, [LinkNext]_linkVars
  PROVE  Types'
<1>1. CASE Wire \/ WireFault
  BY <1>1, WiredCases, WiredTypes
<1> QED
  BY <1>1, LoadJobTypes, SimpleTypes, TransactTypes, AnsweredTypes, TimedOutTypes,
     FoundTypes, BoardResetTypes, StutterTypes DEF LinkNext

-----------------------------------------------------------------------------
(* The phase of a transaction.                                             *)

LEMMA Longer ==
  ASSUME NEW s \in Seq(Byte), NEW t \in Seq(Byte), Len(s) < Len(t)
  PROVE  /\ Agrees(s, t) => Agrees(Append(s, t[Len(s) + 1]), t)
         /\ OneFlip(s, t) => OneFlip(Append(s, t[Len(s) + 1]), t)
         /\ \A f \in Bit :
              Agrees(s, t) => OneFlip(Append(s, Flipped(t[Len(s) + 1], f)), t)
<1>1. Agrees(s, t) => Agrees(Append(s, t[Len(s) + 1]), t)
  BY DEF Agrees
<1>2. ASSUME OneFlip(s, t) PROVE OneFlip(Append(s, t[Len(s) + 1]), t)
  <2>1. PICK i \in 1 .. Len(s), f \in Bit :
          \A j \in 1 .. Len(s) : s[j] = IF j = i THEN Flipped(t[i], f) ELSE t[j]
    BY <1>2 DEF OneFlip
  <2> DEFINE u == Append(s, t[Len(s) + 1])
  <2>2. /\ Len(u) = Len(s) + 1 /\ u[Len(s) + 1] = t[Len(s) + 1]
        /\ \A j \in 1 .. Len(s) : u[j] = s[j]
    OBVIOUS
  <2> HIDE DEF u
  <2>3. i \in 1 .. Len(u) /\ i # Len(s) + 1
    BY <2>2
  <2>4. \A j \in 1 .. Len(u) : u[j] = IF j = i THEN Flipped(t[i], f) ELSE t[j]
    BY <2>1, <2>2, <2>3
  <2> QED
    BY <2>3, <2>4 DEF OneFlip, u
<1>3. ASSUME NEW f \in Bit, Agrees(s, t)
      PROVE  OneFlip(Append(s, Flipped(t[Len(s) + 1], f)), t)
  <2> DEFINE u == Append(s, Flipped(t[Len(s) + 1], f))
  <2>1. /\ Len(u) = Len(s) + 1 /\ u[Len(s) + 1] = Flipped(t[Len(s) + 1], f)
        /\ \A j \in 1 .. Len(s) : u[j] = t[j]
    BY <1>3 DEF Agrees
  <2> HIDE DEF u
  <2>2. Len(s) + 1 \in 1 .. Len(u)
        /\ \A j \in 1 .. Len(u) :
             u[j] = IF j = Len(s) + 1 THEN Flipped(t[Len(s) + 1], f) ELSE t[j]
    BY <2>1
  <2> QED
    BY <2>2 DEF OneFlip, u
<1> QED
  BY <1>1, <1>2, <1>3

(* The request and the bytes of it that are summed.                        *)
LEMMA RequestBytes ==
  ASSUME Types, req # None
  PROVE  /\ CmdFor(req) \in Byte /\ AddrByte[req] \in Byte /\ DataFor(req) \in Word
         /\ Request \in Seq(Byte) /\ Len(Request) = FRAME
         /\ Summed \in Seq(Byte) /\ Len(Summed) = FRAME - 2
         /\ Request[1] = SOF /\ Request[FRAME] = Checksum(Summed)
         /\ \A k \in 1 .. FRAME - 2 : Request[k + 1] = Summed[k]
<1>1. CmdFor(req) \in Byte /\ AddrByte[req] \in Byte /\ DataFor(req) \in Word
  BY RequestParts DEF Types
<1>2. /\ Summed \in Seq(Byte) /\ Len(Summed) = FRAME - 2
      /\ Request \in Seq(Byte) /\ Len(Request) = FRAME
      /\ Request[FRAME] = Checksum(Summed)
      /\ \A k \in 1 .. FRAME - 2 : Request[k + 1] = Summed[k]
  BY <1>1, FrameBytes DEF Summed, SumOf, Request
<1>3. Request[1] = SOF
  BY <1>1, FrameParts DEF Request
<1> QED
  BY <1>1, <1>2, <1>3

(* What a step of the wires does to both ends of the line.                 *)
LEMMA LineMoves ==
  ASSUME Types, PhaseInv,
         NEW in \in Byte \union {NoByte}, NEW out \in Byte \union {NoByte}, Moves(in, out)
  PROVE  /\ req # None
         /\ UNCHANGED <<host, stale, torn, delivered, presented>>
         /\ Request' = Request /\ Summed' = Summed /\ (Unknown' <=> Unknown)
         /\ RestOfRequest'
         /\ failures' \in Nat /\ failures' <= failures /\ failures' <= 2
         /\ (hit' => failures' = 0) /\ (hit => hit')
         /\ IF toBoard = <<>> THEN in = NoByte /\ toBoard' = <<>>
            ELSE /\ Len(toBoard') = Len(toBoard) - 1 /\ Len(toBoard) \in 1 .. FRAME
                 /\ \/ in = Request[FRAME - Len(toBoard) + 1] /\ in \in Byte
                    \/ /\ hit' /\ ~hit
                       /\ \/ in = NoByte
                          \/ \E f \in Bit : in = Flipped(Request[FRAME - Len(toBoard) + 1], f)
         /\ frame_state # "F_SEND" => toBoard # <<>> /\ toHost' = toHost
<1>1. req # None
  BY DEF PhaseInv, Moves, Quiet, Types, TypeOK
<1>2. RestOfRequest /\ failures <= 2 /\ (hit => failures = 0) /\ failures \in Nat
  BY <1>1 DEF PhaseInv, Types
<1>3. UNCHANGED <<host, stale, torn, delivered, presented>>
  BY DEF Moves, Exchange
<1>4. Request' = Request /\ Summed' = Summed /\ (Unknown' <=> Unknown)
  BY <1>3 DEF host, Request, Summed, Unknown, CmdFor, DataFor, IsWrite
<1>5. /\ failures' \in Nat /\ failures' <= failures /\ failures' <= 2
      /\ (hit' => failures' = 0) /\ (hit => hit')
  BY <1>2 DEF Moves
<1>6. CASE toBoard = <<>>
  <2>1. arriving = NoByte /\ in = NoByte /\ toBoard' = <<>>
    BY <1>6 DEF Moves, Exchange, arriving
  <2>2. RestOfRequest'
    BY <2>1, Sizes DEF RestOfRequest
  <2>3. frame_state = "F_SEND"
    BY <1>6 DEF Moves, Quiet
  <2> QED
    BY <1>1, <1>3, <1>4, <1>5, <1>6, <2>1, <2>2, <2>3
<1>7. CASE toBoard # <<>>
  <2>1. /\ toBoard \in Seq(Byte) /\ Len(toBoard) \in 1 .. FRAME
        /\ toBoard' = Tail(toBoard) /\ arriving = toBoard[1]
        /\ \A i \in 1 .. Len(toBoard) : toBoard[i] = Request[FRAME - Len(toBoard) + i]
    BY <1>2, <1>7, Sizes DEF Moves, Exchange, arriving, Types, RestOfRequest
  <2>2. /\ Len(toBoard') = Len(toBoard) - 1
        /\ \A i \in 1 .. Len(toBoard') : toBoard'[i] = toBoard[i + 1]
    BY <2>1
  <2>3. RestOfRequest'
    <3> DEFINE n == Len(toBoard)
               rest == toBoard'
    <3>1. /\ n \in 1 .. FRAME /\ Len(rest) = n - 1
          /\ \A i \in 1 .. Len(rest) : rest[i] = toBoard[i + 1]
          /\ \A i \in 1 .. n : toBoard[i] = Request[FRAME - n + i]
      BY <2>1, <2>2
    <3> HIDE DEF n, rest
    <3>2. ASSUME NEW i \in 1 .. Len(rest)
          PROVE  rest[i] = Request[FRAME - Len(rest) + i]
      <4>1. i + 1 \in 1 .. n /\ FRAME - Len(rest) + i = FRAME - n + (i + 1)
        BY <3>1, Sizes
      <4> QED
        BY <3>1, <4>1
    <3>3. Len(rest) <= FRAME
      BY <3>1, Sizes
    <3> QED
      BY <1>4, <3>2, <3>3 DEF RestOfRequest, rest
  <2>4. arriving = Request[FRAME - Len(toBoard) + 1] /\ arriving \in Byte /\ arriving # NoByte
    BY <2>1, Commands
  <2>5. \/ in = arriving
        \/ /\ hit' /\ ~hit /\ in \in Damaged(arriving)
    BY DEF Moves
  <2>6. in \in Damaged(arriving) => in = NoByte \/ \E f \in Bit : in = Flipped(arriving, f)
    BY DEF Damaged, Flipped
  <2>7. frame_state # "F_SEND" => toHost' = toHost
    BY DEF Moves, Exchange, sent
  <2> QED
    BY <1>1, <1>3, <1>4, <1>5, <1>7, <2>1, <2>2, <2>3, <2>4, <2>5, <2>6, <2>7
<1> QED
  BY <1>6, <1>7

(* The board begins to answer.                                             *)
LEMMA BeginsAnswer ==
  ASSUME Types', NEW cmd \in Byte, NEW a \in Byte, NEW d \in Word,
         Respond(Frame(cmd, a, d)), toHost' = <<>>, Len(toBoard') < FRAME,
         \/ cmd = CMD_NACK /\ d = ZeroBytes /\ served' = <<>>
         \/ cmd = CMD_WRITE_ACK /\ served' = <<<<RegisterOf(a), TRUE, d>>>>
         \/ cmd = CMD_READ_RESP /\ served' = <<<<RegisterOf(a), FALSE, d>>>>,
         \/ hit' \/ failures' <= 1
         \/ /\ cmd = IF IsWrite(req') THEN CMD_WRITE_ACK ELSE CMD_READ_RESP
            /\ a = AddrByte[req'] /\ (IsWrite(req') => d = DataFor(req)')
  PROVE  Sending'
<1>1. resp' = Frame(cmd, a, d) /\ send_idx' = 0 /\ frame_state' = "F_SEND"
  BY DEF Respond
<1>2. Responds(resp)'
  BY <1>1 DEF Responds, Refuses, Answers
<1>3. hit' \/ AnswersRequest(resp)' \/ failures' <= 1
  BY <1>1 DEF AnswersRequest
<1>4. Len(toHost') = send_idx' /\ Agrees(toHost, resp)'
  BY <1>1 DEF Agrees
<1>5. Len(toBoard') + send_idx' < FRAME
  BY <1>1, Sizes DEF Types
<1> QED
  BY <1>1, <1>2, <1>3, <1>4, <1>5 DEF Sending, Out

(* A byte of the request when the board has all the others so far.         *)
LEMMA StartMoves ==
  ASSUME Types, PhaseInv, served = <<>>, toHost = <<>>,
         frame_state = "F_WAIT_SOF", Len(toBoard) = FRAME,
         NEW in \in Byte \union {NoByte}, NEW out \in Byte \union {NoByte}, Moves(in, out)
  PROVE  (Before \/ Cut)'
<1>1. /\ toHost' = <<>> /\ Len(toBoard') = FRAME - 1 /\ toBoard # <<>>
      /\ in = SOF \/ hit'
  <2>1. req # None /\ FRAME - Len(toBoard) + 1 = 1
    BY LineMoves, Sizes
  <2> QED
    BY <2>1, LineMoves, RequestBytes
<1>2. Idles(in) \/ Hunts(in)
  BY ExchangeCases DEF Types, Moves, Sends, Fills, Nacks, Writes, Fetches, Ends
<1>3. CASE frame_state' = "F_WAIT_SOF" /\ hit'
  BY <1>1, <1>3, Sizes DEF Cut, Behind
<1>4. CASE frame_state' = "F_BODY" /\ body' = <<>> /\ served' = <<>>
  <2>1. (InStep /\ Agrees(body, Summed))'
    BY <1>1, <1>4, Sizes DEF InStep, Agrees
  <2> QED
    BY <1>1, <1>4, <2>1 DEF Before, Whole
<1>5. CASE Idles(in)
  <2>1. hit' /\ frame_state' = "F_WAIT_SOF"
    BY <1>1, <1>5, Commands DEF Idles, vars
  <2> QED
    BY <2>1, <1>3
<1>6. CASE Hunts(in)
  <2>1. \/ frame_state' = "F_WAIT_SOF" /\ hit'
        \/ frame_state' = "F_BODY" /\ body' = <<>> /\ served' = <<>>
    BY <1>1, <1>6 DEF Hunts
  <2> QED
    BY <2>1, <1>3, <1>4
<1> QED
  BY <1>2, <1>5, <1>6

LEMMA WholeMoves ==
  ASSUME Types, Types', PhaseInv, served = <<>>, toHost = <<>>, InStep, Agrees(body, Summed),
         NEW in \in Byte \union {NoByte}, NEW out \in Byte \union {NoByte}, Moves(in, out)
  PROVE  (Before \/ Sending \/ Cut)'
<1> DEFINE next == Request[FRAME - Len(toBoard) + 1]
<1>1. /\ frame_state = "F_BODY" /\ toHost' = <<>> /\ req # None
      /\ toBoard # <<>> /\ Len(toBoard') = Len(toBoard) - 1 /\ Len(toBoard) \in 1 .. FRAME
      /\ \/ in = next /\ in \in Byte
         \/ hit' /\ (in = NoByte \/ \E f \in Bit : in = Flipped(next, f))
      /\ Summed' = Summed
      /\ UNCHANGED host
  BY LineMoves DEF InStep
<1>2. /\ Len(body) + 1 + Len(toBoard) = FRAME /\ body \in Seq(Byte) /\ Len(body) \in Nat
      /\ Len(body) <= FRAME - 2
  BY DEF InStep, Types, TypeOK
<1>3. /\ Summed \in Seq(Byte) /\ Len(Summed) = FRAME - 2
      /\ next = IF Len(body) = FRAME - 2 THEN Checksum(Summed) ELSE Summed[Len(body) + 1]
  <2>1. FRAME - Len(toBoard) + 1 = Len(body) + 2
    BY <1>1, <1>2, Sizes
  <2>2. CASE Len(body) = FRAME - 2
    BY <1>1, <1>2, <2>1, <2>2, RequestBytes, Sizes
  <2>3. CASE Len(body) # FRAME - 2
    <3>1. Len(body) + 1 \in 1 .. FRAME - 2 /\ (Len(body) + 1) + 1 = Len(body) + 2
      BY <1>2, <2>3, Sizes
    <3> QED
      BY <1>1, <2>1, <2>3, <3>1, RequestBytes
  <2> QED
    BY <2>2, <2>3
<1> HIDE DEF next
<1>4. Idles(in) \/ Fills(in) \/ Nacks(in) \/ Writes(in) \/ Fetches(in)
  BY <1>1, ExchangeCases DEF Types, Moves, Sends, Hunts
<1>5. CASE Idles(in)
  <2>1. hit' /\ UNCHANGED <<frame_state, body>>
    BY <1>1, <1>5, Commands DEF Idles, vars
  <2> QED
    BY <1>1, <1>2, <2>1, Sizes DEF Cut, Behind
<1>6. CASE Fills(in)
  <2>1. /\ body' = Append(body, in) /\ frame_state' = "F_BODY" /\ served' = <<>>
        /\ Len(body) < Len(Summed) /\ next = Summed[Len(body) + 1] /\ in # NoByte
    BY <1>1, <1>2, <1>3, <1>6, Commands DEF Fills, Ends
  <2>2. InStep'
    BY <1>1, <1>2, <2>1, Sizes DEF InStep
  <2>3. CASE in = next
    <3>1. Agrees(body', Summed')
      BY <1>1, <1>2, <1>3, <2>1, <2>3, Longer
    <3> QED
      BY <1>1, <2>1, <2>2, <3>1 DEF Before, Whole
  <2>4. CASE hit' /\ \E f \in Bit : in = Flipped(next, f)
    <3>1. OneFlip(body', Summed')
      BY <1>1, <1>2, <1>3, <2>1, <2>4, Longer
    <3> QED
      BY <1>1, <2>1, <2>2, <2>4, <3>1 DEF Before, Struck
  <2> QED
    BY <1>1, <2>1, <2>3, <2>4
<1>7. CASE Ends
  <2>1. body = Summed /\ next = Checksum(body) /\ Len(toBoard') < FRAME
    <3>1. Len(body) = FRAME - 2
      BY <1>7 DEF Ends
    <3>2. body = Summed
      BY <1>2, <1>3, <3>1, SeqEqual DEF Agrees
    <3> QED
      BY <1>1, <1>3, <3>1, <3>2, Sizes
  <2>2. cmd_reg \in Byte /\ addr_reg \in Byte /\ data_reg \in Word
    BY <1>7, BodyParts DEF Types
  <2>3. cmd_reg = CmdFor(req) /\ addr_reg = AddrByte[req] /\ data_reg = DataFor(req)
    <3>1. SumOf(cmd_reg, addr_reg, data_reg) = SumOf(CmdFor(req), AddrByte[req], DataFor(req))
      BY <1>7, <2>1, BodyParts DEF Types, Summed
    <3>2. CmdFor(req) \in Byte /\ AddrByte[req] \in Byte /\ DataFor(req) \in Word
      BY <1>1, RequestBytes
    <3> HIDE DEF cmd_reg, addr_reg, data_reg
    <3> QED
      BY <2>2, <3>1, <3>2, SameSum
  <2>4. req' = req /\ DataFor(req)' = DataFor(req)
    BY <1>1 DEF host, DataFor
  <2>5. OP \in cmd_reg <=> IsWrite(req)
    BY <2>3, Commands DEF CmdFor
  <2>6. CASE Nacks(in)
    <3>1. hit' /\ served' = <<>> /\ Respond(Frame(CMD_NACK, addr_reg, ZeroBytes))
      BY <1>1, <2>1, <2>6 DEF Nacks
    <3> QED
      BY <1>1, <2>1, <2>2, <3>1, BeginsAnswer, Commands, WordIsSeq
  <2>7. CASE Writes(in)
    <3>1. /\ Respond(Frame(CMD_WRITE_ACK, addr_reg, data_reg))
          /\ served' = <<<<RegisterOf(addr_reg), TRUE, data_reg>>>>
          /\ IsWrite(req)
      BY <2>5, <2>7 DEF Writes
    <3> QED
      BY <1>1, <2>1, <2>2, <2>3, <2>4, <3>1, BeginsAnswer, Commands
  <2>8. CASE Fetches(in)
    <3>1. /\ Respond(Frame(CMD_READ_RESP, addr_reg, WordOf(rdata')))
          /\ served' = <<<<RegisterOf(addr_reg), FALSE, WordOf(rdata')>>>>
          /\ ~IsWrite(req)
      BY <2>5, <2>8 DEF Fetches
    <3>2. WordOf(rdata') \in Word
      BY WordOfType DEF Types, W!TypeOK
    <3> QED
      BY <1>1, <2>1, <2>2, <2>3, <2>4, <3>1, <3>2, BeginsAnswer, Commands
  <2> QED
    BY <1>4, <1>5, <1>6, <2>6, <2>7, <2>8
<1> QED
  BY <1>4, <1>5, <1>6, <1>7 DEF Nacks, Writes, Fetches

LEMMA StruckMoves ==
  ASSUME Types, Types', PhaseInv, served = <<>>, toHost = <<>>, Struck,
         NEW in \in Byte \union {NoByte}, NEW out \in Byte \union {NoByte}, Moves(in, out)
  PROVE  (Before \/ Sending)'
<1> DEFINE next == Request[FRAME - Len(toBoard) + 1]
<1>1. /\ frame_state = "F_BODY" /\ toHost' = <<>> /\ req # None /\ hit /\ hit'
      /\ toBoard # <<>> /\ Len(toBoard') = Len(toBoard) - 1 /\ Len(toBoard) \in 1 .. FRAME
      /\ in = next /\ in \in Byte
      /\ Summed' = Summed
  BY LineMoves DEF Struck, InStep
<1>2. /\ Len(body) + 1 + Len(toBoard) = FRAME /\ body \in Seq(Byte) /\ Len(body) \in Nat
      /\ Len(body) <= FRAME - 2 /\ OneFlip(body, Summed)
  BY DEF Struck, InStep, Types, TypeOK
<1>3. /\ Summed \in Seq(Byte) /\ Len(Summed) = FRAME - 2
      /\ next = IF Len(body) = FRAME - 2 THEN Checksum(Summed) ELSE Summed[Len(body) + 1]
  <2>1. FRAME - Len(toBoard) + 1 = Len(body) + 2
    BY <1>1, <1>2, Sizes
  <2>2. CASE Len(body) = FRAME - 2
    BY <1>1, <1>2, <2>1, <2>2, RequestBytes, Sizes
  <2>3. CASE Len(body) # FRAME - 2
    <3>1. Len(body) + 1 \in 1 .. FRAME - 2 /\ (Len(body) + 1) + 1 = Len(body) + 2
      BY <1>2, <2>3, Sizes
    <3> QED
      BY <1>1, <2>1, <2>3, <3>1, RequestBytes
  <2> QED
    BY <2>2, <2>3
<1> HIDE DEF next
<1>4. Fills(in) \/ Nacks(in) \/ Writes(in) \/ Fetches(in)
  BY <1>1, Commands, ExchangeCases DEF Types, Moves, Sends, Hunts, Idles
<1>5. CASE Fills(in)
  <2>1. /\ body' = Append(body, in) /\ frame_state' = "F_BODY" /\ served' = <<>>
        /\ Len(body) < Len(Summed) /\ next = Summed[Len(body) + 1]
    BY <1>1, <1>2, <1>3, <1>5 DEF Fills, Ends
  <2>2. InStep'
    BY <1>1, <1>2, <2>1, Sizes DEF InStep
  <2>3. OneFlip(body', Summed')
    BY <1>1, <1>2, <1>3, <2>1, Longer
  <2> QED
    BY <1>1, <2>1, <2>2, <2>3 DEF Before, Struck
<1>6. CASE Ends
  <2>1. Checksum(body) # in /\ Len(toBoard') < FRAME
    BY <1>1, <1>2, <1>3, <1>6, Sizes, FlipShows DEF Ends
  <2>2. Nacks(in)
    BY <1>4, <1>6, <2>1 DEF Fills, Writes, Fetches
  <2>3. addr_reg \in Byte
    BY <1>6, BodyParts DEF Types
  <2>4. served' = <<>> /\ Respond(Frame(CMD_NACK, addr_reg, ZeroBytes))
    BY <2>2 DEF Nacks
  <2> QED
    BY <1>1, <2>1, <2>3, <2>4, BeginsAnswer, Commands, WordIsSeq
<1> QED
  BY <1>4, <1>5, <1>6 DEF Nacks, Writes, Fetches

LEMMA LeftoverMoves ==
  ASSUME Types, Types', PhaseInv, served = <<>>, toHost = <<>>, Leftover,
         NEW in \in Byte \union {NoByte}, NEW out \in Byte \union {NoByte}, Moves(in, out)
  PROVE  (Before \/ Sending)'
<1>1. /\ frame_state = "F_BODY" /\ toHost' = <<>> /\ req # None
      /\ toBoard # <<>> /\ Len(toBoard') = Len(toBoard) - 1 /\ Len(toBoard) \in 1 .. FRAME
      /\ in \in Byte \/ hit'
      /\ Unknown' /\ failures' <= 1 /\ (hit => hit')
  BY LineMoves DEF Leftover, Types
<1>2. /\ body \in Seq(Byte) /\ Len(body) \in Nat
      /\ hit \/ Len(body) + Len(toBoard) >= FRAME
  BY DEF Leftover, Types, TypeOK
<1>3. Idles(in) \/ Fills(in) \/ Nacks(in) \/ Writes(in) \/ Fetches(in)
  BY <1>1, ExchangeCases DEF Types, Moves, Sends, Hunts
<1>4. CASE Idles(in)
  <2>1. hit' /\ UNCHANGED <<frame_state, body, served>>
    BY <1>1, <1>4, Commands DEF Idles, vars
  <2> QED
    BY <1>1, <2>1 DEF Before, Leftover
<1>5. CASE Fills(in)
  <2>1. /\ Len(body') = Len(body) + 1 /\ frame_state' = "F_BODY" /\ served' = <<>>
    BY <1>2, <1>5 DEF Fills
  <2>2. Len(body) + Len(toBoard) = Len(body') + Len(toBoard')
    BY <1>1, <1>2, <2>1
  <2> QED
    BY <1>1, <1>2, <2>1, <2>2 DEF Before, Leftover
<1>6. CASE Ends
  <2>1. addr_reg \in Byte /\ data_reg \in Word /\ Len(toBoard') < FRAME
    BY <1>1, <1>6, BodyParts, Sizes DEF Types
  <2>2. CASE Nacks(in)
    <3>1. served' = <<>> /\ Respond(Frame(CMD_NACK, addr_reg, ZeroBytes))
      BY <2>2 DEF Nacks
    <3> QED
      BY <1>1, <2>1, <3>1, BeginsAnswer, Commands, WordIsSeq
  <2>3. CASE Writes(in)
    <3>1. /\ Respond(Frame(CMD_WRITE_ACK, addr_reg, data_reg))
          /\ served' = <<<<RegisterOf(addr_reg), TRUE, data_reg>>>>
      BY <2>3 DEF Writes
    <3> QED
      BY <1>1, <2>1, <3>1, BeginsAnswer, Commands
  <2>4. CASE Fetches(in)
    <3>1. /\ Respond(Frame(CMD_READ_RESP, addr_reg, WordOf(rdata')))
          /\ served' = <<<<RegisterOf(addr_reg), FALSE, WordOf(rdata')>>>>
      BY <2>4 DEF Fetches
    <3>2. WordOf(rdata') \in Word
      BY WordOfType DEF Types, W!TypeOK
    <3> QED
      BY <1>1, <2>1, <3>1, <3>2, BeginsAnswer, Commands
  <2> QED
    BY <1>3, <1>4, <1>6, <2>2, <2>3, <2>4 DEF Fills
<1> QED
  BY <1>3, <1>4, <1>5, <1>6 DEF Nacks, Writes, Fetches

(* A byte of the response.                                                 *)
LEMMA SendingMoves ==
  ASSUME Types, Types', PhaseInv, Sending,
         NEW in \in Byte \union {NoByte}, NEW out \in Byte \union {NoByte}, Moves(in, out)
  PROVE  (Sending \/ Done)'
<1> DEFINE n == send_idx
<1>1. /\ frame_state = "F_SEND" /\ n \in 0 .. FRAME - 1
      /\ resp \in Seq(Byte) /\ Len(resp) = FRAME
      /\ Len(toBoard) + n < FRAME /\ toHost \in Seq(Byte) /\ Len(toBoard) \in Nat
  BY DEF Sending, Types, TypeOK
<1>2. /\ frame_state' = IF n = FRAME - 1 THEN "F_WAIT_SOF" ELSE "F_SEND"
      /\ send_idx' = IF n = FRAME - 1 THEN n ELSE n + 1
      /\ resp' = resp /\ served' = served
  BY <1>1, ExchangeCases DEF Types, Moves, Sends, Idles, Hunts, Fills, Nacks, Writes,
     Fetches, Ends, Send
<1>3. /\ UNCHANGED host /\ failures' <= failures /\ failures' \in Nat /\ failures \in Nat
      /\ (hit => hit')
      /\ IF toBoard = <<>> THEN toBoard' = <<>> ELSE Len(toBoard') = Len(toBoard) - 1
  BY LineMoves DEF Types
<1>4. sent = resp[n + 1] /\ sent \in Byte
  BY <1>1 DEF sent
<1>5. \/ Len(toHost) = n /\ Agrees(toHost, resp)
      \/ hit /\ Len(toHost) = n /\ OneFlip(toHost, resp)
      \/ hit /\ Len(toHost) < n
  BY DEF Sending, Out
<1>6. toHost' = IF out = NoByte THEN toHost ELSE Append(toHost, out)
  BY DEF Moves, Exchange
<1>7. \/ Len(toHost') = n + 1 /\ Agrees(toHost', resp)
      \/ hit' /\ Len(toHost') = n + 1 /\ OneFlip(toHost', resp)
      \/ hit' /\ Len(toHost') < n + 1
  <2>1. CASE out = sent
    <3>1. toHost' = Append(toHost, sent) /\ Len(toHost') = Len(toHost) + 1
      BY <1>1, <1>4, <1>6, <2>1, Commands
    <3>2. CASE Len(toHost) = n
      <4>1. sent = resp[Len(toHost) + 1] /\ Len(toHost) < Len(resp)
        BY <1>1, <1>4, <3>2
      <4>2. /\ Agrees(toHost, resp) => Agrees(toHost', resp)
            /\ OneFlip(toHost, resp) => OneFlip(toHost', resp)
        BY <1>1, <3>1, <4>1, Longer
      <4> QED
        BY <1>1, <1>3, <1>5, <3>1, <3>2, <4>2
    <3>3. CASE hit /\ Len(toHost) < n
      BY <1>1, <1>3, <3>1, <3>3
    <3> QED
      BY <1>5, <3>2, <3>3
  <2>2. CASE ~hit /\ hit' /\ out \in Damaged(sent)
    <3>1. Len(toHost) = n /\ Agrees(toHost, resp)
      BY <1>5, <2>2
    <3>2. CASE out = NoByte
      BY <1>1, <1>6, <2>2, <3>1, <3>2
    <3>3. CASE out # NoByte
      <4>1. PICK f \in Bit : out = Flipped(resp[Len(toHost) + 1], f)
        BY <1>4, <2>2, <3>1, <3>3 DEF Damaged, Flipped
      <4>2. toHost' = Append(toHost, out) /\ Len(toHost) < Len(resp)
        BY <1>1, <1>6, <3>1, <3>3
      <4>3. OneFlip(toHost', resp)
        BY <1>1, <3>1, <4>1, <4>2, Longer
      <4>4. Len(toHost') = n + 1
        BY <1>1, <3>1, <4>2
      <4> QED
        BY <2>2, <4>3, <4>4
    <3> QED
      BY <3>2, <3>3
  <2> QED
    BY <2>1, <2>2 DEF Moves
<1>8. Responds(resp) /\ (hit \/ AnswersRequest(resp) \/ failures <= 1)
  BY DEF Sending, Out
<1>9. PICK frame \in Seq(Byte) : frame = resp
  BY <1>1
<1>10. ASSUME NEW k, k = n + 1 PROVE Out(frame, k)'
  <2>1. Responds(frame)'
    BY <1>2, <1>8, <1>9 DEF Responds, Refuses, Answers
  <2>2. (hit \/ AnswersRequest(frame) \/ failures <= 1)'
    <3>1. AnswersRequest(frame)' <=> AnswersRequest(frame)
      BY <1>3 DEF AnswersRequest, IsWrite, DataFor, host
    <3> QED
      BY <1>3, <1>8, <1>9, <3>1
  <2>3. (\/ Len(toHost) = k /\ Agrees(toHost, frame)
         \/ hit /\ Len(toHost) = k /\ OneFlip(toHost, frame)
         \/ hit /\ Len(toHost) < k)'
    BY <1>7, <1>9, <1>10
  <2> QED
    BY <2>1, <2>2, <2>3 DEF Out
<1>11. CASE n = FRAME - 1
  <2>1. toBoard' = <<>> /\ frame_state' = "F_WAIT_SOF" /\ FRAME = n + 1
    BY <1>1, <1>2, <1>3, <1>11, Sizes
  <2>2. Out(frame, FRAME)'
    BY <1>10, <2>1, Sizes
  <2> QED
    BY <2>1, <2>2 DEF Done
<1>12. CASE n # FRAME - 1
  <2>1. /\ frame_state' = "F_SEND" /\ send_idx' = n + 1 /\ resp' = frame
        /\ Len(toBoard') + send_idx' < FRAME
    BY <1>1, <1>2, <1>3, <1>9, <1>12, Sizes
  <2>2. PICK k : k = n + 1
    OBVIOUS
  <2>3. Out(frame, k)'
    BY <1>10, <2>2
  <2>4. Out(resp, send_idx)'
    BY <2>1, <2>2, <2>3 DEF Out, Responds, Refuses, Answers, AnswersRequest
  <2> QED
    BY <2>1, <2>4 DEF Sending
<1> QED
  BY <1>11, <1>12

LEMMA CutMoves ==
  ASSUME Types, PhaseInv, Cut,
         NEW in \in Byte \union {NoByte}, NEW out \in Byte \union {NoByte}, Moves(in, out)
  PROVE  Cut'
<1>1. /\ hit' /\ toHost' = toHost /\ frame_state # "F_SEND"
      /\ Len(toBoard') = Len(toBoard) - 1 /\ Len(toBoard) \in 1 .. FRAME /\ Len(toBoard) < FRAME
      /\ in \in Byte /\ Len(toHost) < FRAME
  BY LineMoves DEF Cut, Behind
<1>2. body \in Seq(Byte) /\ Len(body) \in Nat
  BY DEF Types, TypeOK
<1>3. Hunts(in) \/ Fills(in)
  <2>1. ~Ends
    BY <1>1, Sizes DEF Ends, Cut, Behind
  <2> QED
    BY <1>1, <2>1, Commands, ExchangeCases
       DEF Types, Moves, Sends, Idles, Nacks, Writes, Fetches
<1>4. CASE Hunts(in)
  BY <1>1, <1>4, Sizes DEF Hunts, Cut, Behind
<1>5. CASE Fills(in)
  <2>1. frame_state' = "F_BODY" /\ Len(body') = Len(body) + 1 /\ frame_state = "F_BODY"
    BY <1>2, <1>5 DEF Fills
  <2>2. Len(body) + 1 + Len(toBoard) < FRAME
    BY <2>1 DEF Cut, Behind
  <2> QED
    BY <1>1, <1>2, <2>1, <2>2, Sizes DEF Cut, Behind
<1> QED
  BY <1>3, <1>4, <1>5

LEMMA WiredPhase ==
  ASSUME Types, Types', PhaseInv, Wired
  PROVE  PhaseInv'
<1>1. PICK in \in Byte \union {NoByte}, out \in Byte \union {NoByte} : Moves(in, out)
  BY DEF Wired
<1>2. /\ req' = req /\ req # None /\ RestOfRequest' /\ failures' <= 2 /\ (hit' => failures' = 0)
  BY <1>1, LineMoves DEF host
<1>3. Before \/ Sending \/ Done \/ Cut
  BY <1>2 DEF PhaseInv
<1>4. ~Done
  BY <1>1 DEF Done, Moves, Quiet
<1>5. (Before \/ Sending \/ Done \/ Cut)'
  <2>1. CASE Before
    <3>1. CASE Whole
      BY <1>1, <2>1, <3>1, StartMoves, WholeMoves DEF Before, Whole
    <3>2. CASE Struck
      BY <1>1, <2>1, <3>2, StruckMoves DEF Before
    <3>3. CASE Leftover
      BY <1>1, <2>1, <3>3, LeftoverMoves DEF Before
    <3> QED
      BY <2>1, <3>1, <3>2, <3>3 DEF Before
  <2>2. CASE Sending
    BY <1>1, <2>2, SendingMoves
  <2>3. CASE Cut
    BY <1>1, <2>3, CutMoves
  <2> QED
    BY <1>3, <1>4, <2>1, <2>2, <2>3
<1> QED
  BY <1>2, <1>5 DEF PhaseInv

LEMMA InitPhase == LinkInit => PhaseInv
BY DEF LinkInit, Init, PhaseInv

(* Outside a transaction only what is to be done and the cache change.     *)
LEMMA IdlePhase ==
  ASSUME Types, PhaseInv, LoadJob \/ forget \/ PopFound
  PROVE  PhaseInv'
<1>1. /\ req = None /\ req' = None /\ todo = <<>>
      /\ UNCHANGED <<frame_state, toBoard, toHost, failures>>
  BY DEF LoadJob, forget, PopFound, vars
<1>2. Unknown => Unknown'
  <2>1. CASE LoadJob
    <3>1. "CTRL" \notin Parts /\ JobRegs \intersect Parts = {}
      BY LinkConstants DEF Parts, W!ReadOnlyAddr
    <3>2. Head(Append(JobAddr, "CTRL")) \in JobRegs \union {"CTRL"}
      <4>1. \A k \in 1 .. Len(JobAddr) : JobAddr[k] \in JobRegs
        BY LinkConstants DEF JobRegs
      <4>2. /\ Len(JobAddr) \in Nat
            /\ Head(Append(JobAddr, "CTRL")) = IF Len(JobAddr) = 0 THEN "CTRL" ELSE JobAddr[1]
        BY LinkConstants
      <4> QED
        BY <4>1, <4>2
    <3> QED
      BY <2>1, <3>1, <3>2 DEF LoadJob, Unknown
  <2>2. CASE forget
    BY <1>1, <2>2 DEF forget, Unknown
  <2>3. CASE PopFound
    BY <2>3 DEF PopFound, Unknown, Parts
  <2> QED
    BY <2>1, <2>2, <2>3
<1> QED
  BY <1>1, <1>2 DEF PhaseInv

LEMMA TransactPhase ==
  ASSUME Types, PhaseInv, Transact
  PROVE  PhaseInv'
<1>1. PICK i \in DOMAIN todo :
        /\ ~PassedOver(todo[i]) /\ \A j \in 1 .. i - 1 : PassedOver(todo[j])
        /\ todo' = SubSeq(todo, i, Len(todo))
        /\ req' = todo[i]
        /\ toBoard' = toBoard \o Frame(CmdFor(todo[i]), AddrByte[todo[i]], DataFor(todo[i]))
        /\ written' = Drops(todo[i])
  BY DEF Transact
<1>2. /\ todo[i] \in DOMAIN AddrByte /\ i \in 1 .. Len(todo) /\ todo \in Seq(DOMAIN AddrByte)
      /\ todo[i] # None
  <2>1. i \in 1 .. Len(todo) /\ todo \in Seq(DOMAIN AddrByte)
    BY <1>1 DEF Types
  <2>2. todo[i] \in DOMAIN AddrByte
    BY <2>1
  <2> QED
    BY <2>1, <2>2, LinkConstants
<1>3. /\ req = None /\ toBoard = <<>> /\ toHost = <<>> /\ failures <= 2
      /\ \/ frame_state = "F_WAIT_SOF"
         \/ frame_state = "F_BODY" /\ failures <= 1 /\ Unknown
  BY DEF PhaseInv, Transact
<1>4. /\ UNCHANGED <<vars, toHost, job, failures>> /\ served' = <<>> /\ hit' = FALSE
  BY DEF Transact
<1>5. /\ Request' \in Seq(Byte) /\ Len(Request') = FRAME /\ toBoard' = Request'
  <2>1. Frame(CmdFor(todo[i]), AddrByte[todo[i]], DataFor(todo[i])) \in Seq(Byte)
        /\ Len(Frame(CmdFor(todo[i]), AddrByte[todo[i]], DataFor(todo[i]))) = FRAME
    BY <1>2, RequestParts, FrameParts DEF Types
  <2>2. Request' = Frame(CmdFor(todo[i]), AddrByte[todo[i]], DataFor(todo[i]))
    BY <1>1, <1>4 DEF Request, CmdFor, DataFor, IsWrite
  <2> QED
    BY <1>1, <1>3, <2>1, <2>2
<1>6. RestOfRequest'
  BY <1>5, Sizes DEF RestOfRequest
<1>7. ASSUME frame_state = "F_WAIT_SOF" PROVE Before'
  BY <1>3, <1>4, <1>5, <1>7 DEF Before, Whole, vars
<1>8. ASSUME frame_state = "F_BODY" PROVE Before'
  <2>1. failures <= 1 /\ Unknown
    BY <1>3, <1>8
  <2>2. \A j \in 1 .. Len(todo) : ~PassedOver(todo[j])
    <3>1. \A r \in JobRegs : job[r] # None /\ written[r] = None
      BY <2>1, LinkConstants DEF Types, Unknown
    <3> QED
      BY <3>1 DEF PassedOver
  <2>3. i = 1 /\ todo' = todo
    <3>1. ~(1 \in 1 .. i - 1)
      BY <1>1, <1>2, <2>2
    <3>2. i = 1
      BY <1>2, <3>1
    <3> QED
      BY <1>1, <1>2, <3>2
  <2>4. Unknown'
    BY <1>1, <2>1, <2>3 DEF Unknown, Drops
  <2>5. body \in Seq(Byte) /\ Len(body) + FRAME >= FRAME
    BY Sizes DEF Types, TypeOK
  <2> QED
    BY <1>3, <1>4, <1>5, <1>8, <2>1, <2>4, <2>5 DEF Before, Leftover, vars
<1> QED
  BY <1>1, <1>2, <1>3, <1>4, <1>6, <1>7, <1>8 DEF PhaseInv

LEMMA ResponseParts ==
  ASSUME Types, NEW frame, Responds(frame)
  PROVE  \E cmd \in Byte, a \in Byte, d \in Word :
           /\ frame = Frame(cmd, a, d) /\ frame \in Seq(Byte) /\ Len(frame) = FRAME
           /\ \/ cmd = CMD_NACK /\ served = <<>>
              \/ cmd = CMD_WRITE_ACK /\ served = <<<<RegisterOf(a), TRUE, d>>>>
              \/ cmd = CMD_READ_RESP /\ served = <<<<RegisterOf(a), FALSE, d>>>>
<1>1. PICK cmd \in Byte, a \in Byte, d \in Word :
           /\ frame = Frame(cmd, a, d)
           /\ \/ cmd = CMD_NACK /\ served = <<>>
              \/ cmd = CMD_WRITE_ACK /\ served = <<<<RegisterOf(a), TRUE, d>>>>
              \/ cmd = CMD_READ_RESP /\ served = <<<<RegisterOf(a), FALSE, d>>>>
  BY Commands, WordIsSeq DEF Responds, Refuses, Answers
<1>2. frame \in Seq(Byte) /\ Len(frame) = FRAME
  BY <1>1, FrameParts
<1> QED
  BY <1>1, <1>2

(* A whole response can only have come when the board is done.             *)
LEMMA AnswerIsWhole ==
  ASSUME Types, PhaseInv, req # None, Len(toHost) >= FRAME
  PROVE  /\ Done /\ Len(toHost) = FRAME
         /\ \E frame \in Seq(Byte) :
              /\ Responds(frame)
              /\ hit \/ AnswersRequest(frame) \/ failures <= 1
              /\ toHost = frame \/ (hit /\ OneFlip(toHost, frame))
<1>1. Before \/ Sending \/ Done \/ Cut
  BY DEF PhaseInv
<1>2. toHost \in Seq(Byte) /\ Len(toHost) > 0
  BY Sizes DEF Types
<1>3. Done
  <2>1. ~Before
    BY <1>2 DEF Before
  <2>2. ~Sending
    <3>1. send_idx \in 0 .. FRAME - 1
      BY DEF Types, TypeOK
    <3> QED
      BY <1>2, <3>1, Sizes DEF Sending, Out
  <2>3. ~Cut
    BY <1>2, Sizes DEF Cut
  <2> QED
    BY <1>1, <2>1, <2>2, <2>3
<1>4. PICK frame \in Seq(Byte) : Out(frame, FRAME)
  BY <1>3 DEF Done
<1>5. Len(toHost) = FRAME /\ (Agrees(toHost, frame) \/ (hit /\ OneFlip(toHost, frame)))
  <2>1. ~(Len(toHost) < FRAME)
    BY <1>2, Sizes
  <2>2. \/ Len(toHost) = FRAME /\ Agrees(toHost, frame)
        \/ hit /\ Len(toHost) = FRAME /\ OneFlip(toHost, frame)
        \/ hit /\ Len(toHost) < FRAME
    BY <1>4, Zenon DEF Out
  <2>3. CASE Len(toHost) = FRAME /\ Agrees(toHost, frame)
    BY <2>3
  <2>4. CASE hit /\ Len(toHost) = FRAME /\ OneFlip(toHost, frame)
    BY <2>4
  <2> QED
    BY <2>1, <2>2, <2>3, <2>4
<1>6. Len(frame) = FRAME
  BY <1>4, ResponseParts DEF Out
<1>7. toHost = frame \/ (hit /\ OneFlip(toHost, frame))
  BY <1>2, <1>5, <1>6, SeqEqual DEF Agrees
<1> QED
  BY <1>3, <1>4, <1>5, <1>7 DEF Out

LEMMA AnsweredPhase ==
  ASSUME Types, PhaseInv, Answered
  PROVE  PhaseInv'
<1> DEFINE rx == SubSeq(toHost, 1, FRAME)
<1>1. PICK frame \in Seq(Byte) :
        /\ Responds(frame)
        /\ hit \/ AnswersRequest(frame) \/ failures <= 1
        /\ toHost = frame \/ (hit /\ OneFlip(toHost, frame))
  BY AnswerIsWhole DEF Answered
<1>2. Done /\ Len(toHost) = FRAME /\ toHost \in Seq(Byte)
  BY AnswerIsWhole DEF Answered, Types
<1>3. rx = toHost /\ toHost' = <<>>
  BY <1>2, Sizes DEF Answered
<1>4. /\ frame_state' = "F_WAIT_SOF" /\ toBoard' = <<>> /\ req' = None
      /\ failures <= 2 /\ (hit => failures = 0) /\ failures \in Nat
  BY <1>2 DEF Done, Answered, PhaseInv, Fail, Succeed, vars, Types
<1>5. failures' <= 2
  <2>1. CASE Succeed(DataIn(rx))
    BY <2>1 DEF Succeed
  <2>2. CASE ~Accepted(rx) /\ Fail
    <3>1. ~(toHost = frame /\ AnswersRequest(frame))
      <4> SUFFICES ASSUME toHost = frame, AnswersRequest(frame) PROVE FALSE
        OBVIOUS
      <4>1. PICK d \in Word :
              /\ frame = Frame(IF IsWrite(req) THEN CMD_WRITE_ACK ELSE CMD_READ_RESP,
                               AddrByte[req], d)
              /\ IsWrite(req) => d = DataFor(req)
        BY DEF AnswersRequest
      <4>2. AddrByte[req] \in Byte
        BY RequestBytes DEF Answered
      <4>3. (IF IsWrite(req) THEN CMD_WRITE_ACK ELSE CMD_READ_RESP) \in Byte
        BY Commands
      <4>4. Accepted(frame)
        BY <4>1, <4>2, <4>3, AcceptsFrame
      <4> QED
        BY <1>3, <2>2, <4>4
    <3>2. hit \/ failures <= 1
      BY <1>1, <3>1
    <3>3. failures <= 1
      BY <1>4, <3>2
    <3> QED
      BY <1>4, <2>2, <3>3 DEF Fail
  <2> QED
    BY <2>1, <2>2 DEF Answered
<1> QED
  BY <1>3, <1>4, <1>5 DEF PhaseInv

LEMMA TimedOutPhase ==
  ASSUME Types, PhaseInv, TimedOut
  PROVE  PhaseInv'
<1>1. /\ toBoard = <<>> /\ frame_state # "F_SEND" /\ Len(toHost) < FRAME
      /\ UNCHANGED <<frame_state, body, toBoard>> /\ toHost' = <<>> /\ req' = None
      /\ failures' = failures + 1 /\ failures \in Nat /\ (hit => failures = 0)
      /\ Unknown'
  BY DEF TimedOut, Quiet, Fail, PhaseInv, Unknown, vars, Types
<1>2. Before \/ Done \/ Cut
  BY <1>1 DEF TimedOut, PhaseInv, Sending
<1>3. frame_state \in {"F_WAIT_SOF", "F_BODY"}
  BY <1>1 DEF Types, TypeOK
<1>4. hit
  <2>1. CASE Before
    <3>1. Len(toBoard) = 0 /\ Len(body) \in Nat /\ Len(body) <= FRAME - 2
      BY <1>1 DEF Types, TypeOK
    <3>2. ~Whole /\ ~InStep
      BY <3>1, Sizes DEF Whole, InStep
    <3> QED
      BY <2>1, <3>1, <3>2, Sizes DEF Before, Struck, Leftover
  <2>2. CASE Done
    <3>1. PICK frame \in Seq(Byte) : Out(frame, FRAME)
      BY <2>2 DEF Done
    <3> QED
      BY <1>1, <3>1, Sizes DEF Out, Types
  <2>3. CASE Cut
    BY <2>3 DEF Cut
  <2> QED
    BY <1>2, <2>1, <2>2, <2>3
<1> QED
  BY <1>1, <1>3, <1>4 DEF PhaseInv

LEMMA FoundPhase ==
  ASSUME Types, PhaseInv, Found \/ UNCHANGED linkVars
  PROVE  PhaseInv'
<1>1. UNCHANGED <<frame_state, body, resp, send_idx, toBoard, toHost, todo, req, job, written,
                  served, failures, hit>>
  BY DEF Found, linkVars, vars, host
<1>2. Request' = Request /\ Summed' = Summed /\ (Unknown' <=> Unknown)
  BY <1>1 DEF Request, Summed, Unknown, CmdFor, DataFor, IsWrite
<1>3. \A frame : (Out(frame, FRAME)' <=> Out(frame, FRAME))
                 /\ (Out(resp, send_idx)' <=> Out(resp, send_idx))
  BY <1>1 DEF Out, Responds, Refuses, Answers, AnswersRequest, IsWrite, DataFor
<1>4. (Before' <=> Before) /\ (Sending' <=> Sending) /\ (Done' <=> Done) /\ (Cut' <=> Cut)
  BY <1>1, <1>2, <1>3
     DEF Before, Whole, Struck, Leftover, InStep, Sending, Done, Cut, Behind
<1>5. RestOfRequest' <=> RestOfRequest
  BY <1>1, <1>2 DEF RestOfRequest
<1> QED
  BY <1>1, <1>2, <1>4, <1>5 DEF PhaseInv

LEMMA BoardResetPhase ==
  ASSUME Types, PhaseInv, BoardReset
  PROVE  PhaseInv'
<1>1. /\ frame_state' = "F_WAIT_SOF" /\ failures' = 0 /\ ~hit /\ (hit' <=> req # None)
      /\ UNCHANGED <<toBoard, toHost, req, job, todo, written, served>>
  BY DEF BoardReset, UartReset, host
<1>2. CASE req = None
  BY <1>1, <1>2 DEF PhaseInv
<1>3. CASE req # None
  <2>1. RestOfRequest' /\ Len(toBoard) <= FRAME /\ Len(toBoard) \in Nat
    BY <1>1, <1>3
       DEF PhaseInv, RestOfRequest, Request, CmdFor, DataFor, IsWrite, Types
  <2>2. CASE Len(toBoard) = FRAME /\ served = <<>> /\ toHost = <<>>
    BY <1>1, <1>3, <2>1, <2>2 DEF PhaseInv, Before, Whole
  <2>3. CASE Len(toBoard) < FRAME /\ Len(toHost) < FRAME
    BY <1>1, <1>3, <2>1, <2>3 DEF PhaseInv, Cut, Behind
  <2>4. CASE Done
    <3>1. PICK frame \in Seq(Byte) : Out(frame, FRAME)
      BY <2>4 DEF Done
    <3>2. Out(frame, FRAME)'
      BY <1>1, <1>3, <3>1 DEF Out, Responds, Refuses, Answers
    <3> QED
      BY <1>1, <1>3, <2>1, <2>4, <3>2 DEF PhaseInv, Done
  <2>5. Before \/ Sending \/ Done
    BY <1>1, <1>3 DEF PhaseInv, Cut
  <2>6. Before => served = <<>> /\ toHost = <<>> /\ Len(toHost) < FRAME
    BY Sizes DEF Before
  <2>7. Sending => Len(toBoard) < FRAME /\ Len(toHost) < FRAME
    <3>1. send_idx \in 0 .. FRAME - 1 /\ Len(toHost) \in Nat
      BY DEF Types, TypeOK
    <3>2. ASSUME Sending PROVE Len(toHost) <= send_idx /\ Len(toBoard) + send_idx < FRAME
      BY <3>1, <3>2, Sizes DEF Sending, Out
    <3> QED
      BY <2>1, <3>1, <3>2, Sizes
  <2> QED
    BY <2>1, <2>2, <2>3, <2>4, <2>5, <2>6, <2>7, Sizes
<1> QED
  BY <1>2, <1>3

LEMMA StepPhase ==
  ASSUME Types, PhaseInv, [LinkNext]_linkVars
  PROVE  PhaseInv'
<1>1. Types'
  BY StepTypes
<1>2. CASE Wire \/ WireFault
  BY <1>1, <1>2, WiredCases, WiredPhase
<1> QED
  BY <1>2, IdlePhase, TransactPhase, AnsweredPhase, TimedOutPhase, FoundPhase, BoardResetPhase
     DEF LinkNext

(* A frame makes an access only when it is the request itself, or when     *)
(* the board was in a frame that began before.                             *)
LEMMA AccessIsOwn ==
  ASSUME Types, PhaseInv, NEW in \in Byte \union {NoByte}, NEW out \in Byte \union {NoByte},
         Moves(in, out), Writes(in) \/ Fetches(in)
  PROVE  /\ req # None /\ served = <<>>
         /\ \/ Unknown
            \/ RegisterOf(addr_reg) = req /\ data_reg = DataFor(req) /\ (OP \in cmd_reg <=> IsWrite(req))
<1>1. /\ req # None /\ frame_state = "F_BODY" /\ Len(body) = FRAME - 2
      /\ in \in Byte /\ in = Checksum(body) /\ Ends /\ toBoard # <<>>
  BY LineMoves DEF Writes, Fetches, Ends
<1>2. Before
  <2>1. ~Sending /\ ~Done
    BY <1>1 DEF Sending, Done
  <2>2. ~Cut
    <3>1. Len(toBoard) \in Nat /\ Len(toBoard) # 0
      BY <1>1 DEF Types
    <3> QED
      BY <1>1, <3>1, Sizes DEF Cut, Behind
  <2> QED
    BY <1>1, <2>1, <2>2 DEF PhaseInv
<1>3. CASE Leftover
  BY <1>1, <1>2, <1>3 DEF Before, Leftover
<1>4. CASE InStep /\ Agrees(body, Summed)
  <2>1. body = Summed
    <3>1. /\ body \in Seq(Byte) /\ Summed \in Seq(Byte) /\ Len(Summed) = FRAME - 2
      BY <1>1, RequestBytes DEF Types, TypeOK
    <3> QED
      BY <1>1, <1>4, <3>1, SeqEqual DEF Agrees
  <2>2. /\ cmd_reg \in Byte /\ addr_reg \in Byte /\ data_reg \in Word
        /\ CmdFor(req) \in Byte /\ AddrByte[req] \in Byte /\ DataFor(req) \in Word
        /\ SumOf(cmd_reg, addr_reg, data_reg) = SumOf(CmdFor(req), AddrByte[req], DataFor(req))
    BY <1>1, <2>1, BodyParts, RequestBytes DEF Types, Summed
  <2>3. cmd_reg = CmdFor(req) /\ addr_reg = AddrByte[req] /\ data_reg = DataFor(req)
    <3> HIDE DEF cmd_reg, addr_reg, data_reg
    <3> QED
      BY <2>2, SameSum
  <2>4. req \in DOMAIN AddrByte
    BY <1>1 DEF Types
  <2>5. RegisterOf(addr_reg) = req
    BY <2>3, <2>4, Registers
  <2>6. OP \in cmd_reg <=> IsWrite(req)
    BY <2>3, Commands DEF CmdFor
  <2> QED
    BY <1>1, <1>2, <2>3, <2>5, <2>6 DEF Before
<1>5. CASE Struck
  <2>1. Len(toBoard) = 1 /\ hit
    <3>1. hit /\ Len(body) + 1 + Len(toBoard) = FRAME /\ Len(toBoard) \in Nat
      BY <1>5 DEF Struck, InStep, Types
    <3>2. Len(body) \in Nat /\ Len(body) = FRAME - 2
      BY <1>1 DEF Types, TypeOK
    <3> DEFINE b == Len(body)
               t == Len(toBoard)
    <3>4. b + 1 + t = FRAME /\ t \in Nat /\ b \in Nat /\ b = FRAME - 2
      BY <3>1, <3>2
    <3> HIDE DEF b, t
    <3>5. t = 1
      BY <3>4, Sizes
    <3>3. Len(toBoard) = 1
      BY <3>5 DEF t
    <3> QED
      BY <3>1, <3>3
  <2>2. in = Checksum(Summed)
    <3>1. FRAME - Len(toBoard) + 1 = FRAME
      BY <2>1, Sizes
    <3>2. in = Request[FRAME - Len(toBoard) + 1]
      BY <1>1, <2>1, LineMoves
    <3> QED
      BY <1>1, <3>1, <3>2, RequestBytes
  <2>3. Checksum(body) # Checksum(Summed)
    <3>1. /\ body \in Seq(Byte) /\ Summed \in Seq(Byte) /\ Len(Summed) = Len(body)
      BY <1>1, RequestBytes DEF Types, TypeOK
    <3> QED
      BY <1>5, <3>1, FlipShows DEF Struck
  <2> QED
    BY <1>1, <2>2, <2>3
<1> QED
  BY <1>1, <1>2, <1>3, <1>4, <1>5 DEF Before, Whole

(* What an accepted answer says.                                           *)
LEMMA OwnAnswer ==
  ASSUME Types, PhaseInv, req # None, Len(toHost) >= FRAME, Accepted(SubSeq(toHost, 1, FRAME))
  PROVE  /\ served = <<<<req, IsWrite(req), DataIn(toHost)>>>>
         /\ IsWrite(req) => DataIn(toHost) = DataFor(req)
<1>1. PICK frame \in Seq(Byte) :
        Responds(frame) /\ (toHost = frame \/ OneFlip(toHost, frame))
  BY AnswerIsWhole
<1>2. PICK cmd \in Byte, a \in Byte, d \in Word :
           /\ frame = Frame(cmd, a, d) /\ frame \in Seq(Byte) /\ Len(frame) = FRAME
           /\ \/ cmd = CMD_NACK /\ served = <<>>
              \/ cmd = CMD_WRITE_ACK /\ served = <<<<RegisterOf(a), TRUE, d>>>>
              \/ cmd = CMD_READ_RESP /\ served = <<<<RegisterOf(a), FALSE, d>>>>
  BY <1>1, ResponseParts
<1>3. SubSeq(toHost, 1, FRAME) = toHost /\ toHost \in Seq(Byte) /\ Len(toHost) = FRAME
  BY AnswerIsWhole, Sizes DEF Types
<1>4. toHost = Frame(cmd, a, d)
  BY <1>1, <1>2, <1>3, RefusesFlip
<1>5. /\ a = AddrByte[req]
      /\ cmd = (IF IsWrite(req) THEN CMD_WRITE_ACK ELSE CMD_READ_RESP)
      /\ IsWrite(req) => d = DataFor(req)
  BY <1>3, <1>4, AcceptsFrame
<1>6. DataIn(toHost) = d
  BY <1>4, FrameParts
<1>7. RegisterOf(a) = req
  BY <1>5, Registers DEF Types
<1>8. CASE IsWrite(req)
  <2>1. IsWrite(req) = TRUE
    BY <1>8 DEF IsWrite
  <2> QED
    BY <1>2, <1>5, <1>6, <1>7, <1>8, <2>1, Commands
<1>9. CASE ~IsWrite(req)
  <2>1. IsWrite(req) = FALSE
    BY <1>9 DEF IsWrite
  <2> QED
    BY <1>2, <1>5, <1>6, <1>7, <1>9, <2>1, Commands
<1> QED
  BY <1>8, <1>9

-----------------------------------------------------------------------------
(* Types and phase, in every state of the link.                            *)

THEOREM LinkPhase == LinkSpec => [](Types /\ PhaseInv)
<1>1. LinkInit => Types /\ PhaseInv
  BY InitTypes, InitPhase
<1>2. Types /\ PhaseInv /\ [LinkNext]_linkVars => (Types /\ PhaseInv)'
  BY StepTypes, StepPhase
<1> QED
  BY <1>1, <1>2, PTL DEF LinkSpec

(* Bytes, frames, registers and the host's view keep their shape: never    *)
(* more than one frame is under way in either direction, and the           *)
(* transaction outstanding is the next one to do (uart_if.sv:187-288,      *)
(* miner_link.py:64-127).                                                  *)
THEOREM LinkTypes == LinkSpec => []LinkTypeOK
<1>1. Types /\ PhaseInv => LinkTypeOK
  <2> SUFFICES ASSUME Types, PhaseInv PROVE LinkTypeOK
    OBVIOUS
  <2>1. regs \in [JobRegs -> Word] /\ rdata \in W!Part \union W!HeldHi \union W!HeldId
    BY DEF Types, W!TypeOK
  <2>2. rdata[1] \in {"word", "count", "nonempty", "nonce_lo", "nonce_hi", "work_id", "zero"}
    BY <2>1 DEF W!Part, W!HeldHi, W!HeldId, W!NonceLo, W!NonceHi, W!WorkId, W!JobWord,
                W!Status, W!Count, W!Zero
  <2>3. Len(toBoard) <= FRAME
    BY Sizes DEF PhaseInv, RestOfRequest, Types
  <2>4. Len(toHost) <= FRAME
    <3>1. CASE Len(toHost) >= FRAME /\ req # None
      BY <3>1, AnswerIsWhole, Sizes
    <3>2. CASE req = None
      BY <3>2, Sizes DEF PhaseInv
    <3> QED
      BY <3>1, <3>2, Sizes DEF Types
  <2> QED
    BY <2>1, <2>2, <2>3, <2>4 DEF Types, LinkTypeOK
<1> QED
  BY <1>1, LinkPhase, PTL

(* A transaction that returns was carried out by the board exactly once,   *)
(* as asked, and returns what that access read or wrote, whatever bytes    *)
(* the line lost or damaged and wherever the board was reset: the checks   *)
(* of transact, read and write let nothing else through                    *)
(* (miner_link.py:88-127, uart_if.sv:190-244).                             *)
THEOREM AnswersAreOwn == LinkSpec => []AnswersOwnRequest
<1>1. Types /\ PhaseInv => AnswersOwnRequest
  BY OwnAnswer DEF AnswersOwnRequest
<1> QED
  BY <1>1, LinkPhase, PTL

(* After the last fault at most two transactions fail before one succeeds, *)
(* though neither side numbers or repeats a frame: the first is the one    *)
(* that was hit, the second the one whose bytes finish a frame the board   *)
(* was left in (miner_link.py:88-112, uart_if.sv:187-288).                 *)
THEOREM BackInStep == LinkSpec => []SoonInStep
<1>1. Types /\ PhaseInv => SoonInStep
  BY DEF PhaseInv, SoonInStep
<1> QED
  BY <1>1, LinkPhase, PTL

-----------------------------------------------------------------------------
(* The write cache and the job that is started.                            *)

LEMMA InitCache == LinkInit => CacheInv /\ LoadInv
<1> SUFFICES ASSUME LinkInit PROVE CacheInv /\ LoadInv
  OBVIOUS
<1>1. req \notin JobRegs
  BY LinkConstants, Registers DEF LinkInit
<1>2. CacheInv
  BY <1>1 DEF LinkInit, CacheInv, CacheIsTrue
<1>3. LoadInv
  BY DEF LinkInit, LoadInv
<1> QED
  BY <1>2, <1>3

LEMMA WiredCache ==
  ASSUME Types, PhaseInv, CacheInv, Wired
  PROVE  CacheInv'
<1>1. PICK in \in Byte \union {NoByte}, out \in Byte \union {NoByte} : Moves(in, out)
  BY DEF Wired
<1>2. UNCHANGED <<host, stale>> /\ req # None
  BY <1>1, LineMoves
<1>3. CASE UNCHANGED <<regs, served>>
  BY <1>2, <1>3 DEF CacheInv, CacheIsTrue, host
<1>4. CASE Writes(in)
  <2> DEFINE r == RegisterOf(addr_reg)
  <2>1. regs' = IF r \in JobRegs THEN [regs EXCEPT ![r] = data_reg] ELSE regs
    BY <1>4, BusWrite DEF Writes
  <2>2. served' = <<<<r, TRUE, data_reg>>>> /\ (Unknown \/ r = req)
    <3>1. served = <<>> /\ (Unknown \/ r = req)
      BY <1>1, <1>4, AccessIsOwn
    <3> QED
      BY <1>4, <3>1 DEF Writes
  <2> HIDE DEF r
  <2>3. regs \in [JobRegs -> Word]
    BY DEF Types, W!TypeOK
  <2>4. \A s \in JobRegs : regs'[s] = IF s = r THEN data_reg ELSE regs[s]
    BY <2>1, <2>3
  <2>5. r \in JobRegs => written[r] = None
    BY <2>2 DEF Unknown, CacheInv
  <2>6. CacheIsTrue'
    BY <1>2, <2>4, <2>5 DEF CacheInv, CacheIsTrue, host
  <2>7. \A s \in JobRegs, d \in Word : served' = <<<<s, TRUE, d>>>> => regs'[s] = d
    BY <2>2, <2>4
  <2> QED
    BY <1>2, <2>6, <2>7 DEF CacheInv, host
<1>5. CASE Fetches(in)
  <2>1. UNCHANGED regs
    BY <1>5, BusRead DEF Fetches
  <2>2. served' = <<<<RegisterOf(addr_reg), FALSE, WordOf(rdata')>>>>
    <3>1. served = <<>>
      BY <1>1, <1>5, AccessIsOwn
    <3> QED
      BY <1>5, <3>1 DEF Fetches
  <2>3. \A s, d : served' # <<<<s, TRUE, d>>>>
    BY <2>2
  <2> QED
    BY <1>2, <2>1, <2>3 DEF CacheInv, CacheIsTrue, host
<1> QED
  BY <1>1, <1>3, <1>4, <1>5, ExchangeCases
     DEF Types, Moves, Sends, Idles, Hunts, Fills, Nacks, board

LEMMA AnsweredCache ==
  ASSUME Types, PhaseInv, CacheInv, LoadInv, Answered
  PROVE  CacheInv' /\ LoadInv'
<1>1. req' = None /\ None \notin JobRegs /\ req # None /\ UNCHANGED regs
  BY LinkConstants, Registers DEF Answered, Fail, Succeed, board
<1>2. CASE Fail
  BY <1>1, <1>2 DEF Fail, CacheInv, CacheIsTrue, LoadInv
<1>3. CASE Accepted(SubSeq(toHost, 1, FRAME)) /\ Succeed(DataIn(SubSeq(toHost, 1, FRAME)))
  <2>1. /\ written' = IF req \in JobRegs THEN [written EXCEPT ![req] = job[req]] ELSE written
        /\ todo' = IF req = "FOUND_COUNT"
               THEN IF DataIn(SubSeq(toHost, 1, FRAME)) = CountWord[0] THEN <<>>
                    ELSE <<"FOUND_NONCE0", "FOUND_NONCE1", "FOUND_WORKID">>
               ELSE Tail(todo)
        /\ job' = job /\ stale' = stale
    BY <1>3 DEF Succeed
  <2>2. /\ todo \in Seq(DOMAIN AddrByte) /\ todo # <<>> /\ todo[1] = req
        /\ written \in [JobRegs -> Word \union {None}]
    BY <1>1 DEF Types
  <2>3. ASSUME ~stale, req \in JobRegs PROVE regs[req] = job[req]
    <3>1. IsWrite(req) = TRUE /\ req # "CTRL" /\ DataFor(req) = job[req] /\ DataFor(req) \in Word
      BY <1>1, <2>3, LinkConstants, RequestBytes DEF IsWrite, DataFor
    <3>2. served = <<<<req, TRUE, job[req]>>>>
      BY <1>1, <1>3, <3>1, OwnAnswer DEF Answered
    <3> QED
      BY <1>1, <2>3, <3>1, <3>2 DEF CacheInv
  <2>4. CacheInv'
    BY <1>1, <2>1, <2>2, <2>3 DEF CacheInv, CacheIsTrue
  <2>5. LoadInv'
    <3>1. CASE req = "FOUND_COUNT"
      <4>1. \A i \in 1 .. Len(todo') : todo'[i] # "CTRL"
        BY <2>1, <3>1
      <4>2. todo' # <<>> => Len(todo') \in 1 .. Len(todo')
        BY <2>1, <3>1
      <4> QED
        BY <4>1, <4>2 DEF LoadInv
    <3>2. CASE req # "FOUND_COUNT"
      <4>1. /\ todo' = Tail(todo) /\ Len(todo') = Len(todo) - 1 /\ Len(todo) \in Nat
            /\ \A i \in 1 .. Len(todo') : todo'[i] = todo[i + 1]
        BY <2>1, <2>2, <3>2
      <4>2. \A i \in 1 .. Len(todo') : todo'[i] = "CTRL" => i = Len(todo')
        <5> SUFFICES ASSUME NEW i \in 1 .. Len(todo'), todo'[i] = "CTRL" PROVE i = Len(todo')
          OBVIOUS
        <5>1. i + 1 \in 1 .. Len(todo) /\ todo[i + 1] = "CTRL"
          BY <4>1
        <5> QED
          BY <4>1, <5>1 DEF LoadInv
      <4>3. ASSUME todo' # <<>>, todo'[Len(todo')] = "CTRL", NEW r \in JobRegs
            PROVE  written'[r] = job[r] \/ \E i \in 1 .. Len(todo') : todo'[i] = r
        <5>1. Len(todo') \in 1 .. Len(todo') /\ todo[Len(todo)] = "CTRL"
          BY <2>2, <4>1, <4>3
        <5>2. written[r] = job[r] \/ \E i \in 1 .. Len(todo) : todo[i] = r
          BY <2>2, <5>1 DEF LoadInv
        <5>3. CASE r = req
          BY <2>1, <2>2, <5>3
        <5>4. CASE r # req /\ written[r] = job[r]
          BY <2>1, <2>2, <5>4
        <5>5. ASSUME r # req, NEW i \in 1 .. Len(todo), todo[i] = r
              PROVE  \E k \in 1 .. Len(todo') : todo'[k] = r
          <6>1. i # 1
            BY <2>2, <5>5
          <6>2. i - 1 \in 1 .. Len(todo') /\ (i - 1) + 1 = i
            BY <4>1, <6>1
          <6> QED
            BY <4>1, <5>5, <6>2
        <5> QED
          BY <5>2, <5>3, <5>4, <5>5
      <4> QED
        BY <2>1, <4>2, <4>3 DEF LoadInv
    <3> QED
      BY <3>1, <3>2
  <2> QED
    BY <2>4, <2>5
<1> QED
  BY <1>2, <1>3 DEF Answered

LEMMA TransactCache ==
  ASSUME Types, CacheInv, LoadInv, Transact
  PROVE  CacheInv' /\ LoadInv'
<1>1. PICK i \in DOMAIN todo :
        /\ ~PassedOver(todo[i]) /\ \A j \in 1 .. i - 1 : PassedOver(todo[j])
        /\ todo' = SubSeq(todo, i, Len(todo))
        /\ req' = todo[i]
        /\ written' = Drops(todo[i])
  BY DEF Transact
<1>2. /\ UNCHANGED <<regs, job, stale>> /\ served' = <<>>
      /\ written \in [JobRegs -> Word \union {None}]
  BY DEF Transact, Types, board
<1>3. \A r \in JobRegs : written'[r] = IF r = todo[i] THEN None ELSE written[r]
  BY <1>1, <1>2 DEF Drops
<1>4. CacheInv'
  BY <1>1, <1>2, <1>3 DEF CacheInv, CacheIsTrue
<1>5. /\ i \in 1 .. Len(todo) /\ Len(todo) \in Nat /\ todo \in Seq(DOMAIN AddrByte)
      /\ todo' \in Seq(DOMAIN AddrByte) /\ Len(todo') = Len(todo) - i + 1
      /\ \A k \in 1 .. Len(todo') : todo'[k] = todo[k + i - 1]
  <2>1. todo \in Seq(DOMAIN AddrByte)
    BY DEF Types
  <2>2. i \in 1 .. Len(todo) /\ Len(todo) \in Nat
    BY <2>1
  <2> QED
    BY <1>1, <2>1, <2>2
<1>6. \A k \in 1 .. Len(todo') : todo'[k] = "CTRL" => k = Len(todo')
  <2> SUFFICES ASSUME NEW k \in 1 .. Len(todo'), todo'[k] = "CTRL" PROVE k = Len(todo')
    OBVIOUS
  <2>1. k + i - 1 \in 1 .. Len(todo) /\ todo[k + i - 1] = "CTRL"
    BY <1>5
  <2>2. k + i - 1 = Len(todo)
    BY <2>1 DEF LoadInv
  <2> QED
    BY <1>5, <2>2
<1>7. ASSUME todo' # <<>>, todo'[Len(todo')] = "CTRL", NEW r \in JobRegs
      PROVE  written'[r] = job[r] \/ \E k \in 1 .. Len(todo') : todo'[k] = r
  <2>1. Len(todo') \in 1 .. Len(todo') /\ Len(todo') + i - 1 = Len(todo) /\ todo # <<>>
    <3>1. Len(todo') \in 1 .. Len(todo')
      BY <1>5, <1>7
    <3>2. Len(todo') + i - 1 = Len(todo)
      BY <1>5
    <3>3. todo # <<>>
      BY <1>5
    <3> QED
      BY <3>1, <3>2, <3>3
  <2>2. written[r] = job[r] \/ \E k \in 1 .. Len(todo) : todo[k] = r
    BY <1>5, <1>7, <2>1 DEF LoadInv
  <2>3. ASSUME NEW k \in 1 .. Len(todo), todo[k] = r, k >= i
        PROVE  \E l \in 1 .. Len(todo') : todo'[l] = r
    <3>1. k - i + 1 \in 1 .. Len(todo') /\ (k - i + 1) + i - 1 = k
      BY <1>5, <2>3
    <3> QED
      BY <1>5, <2>3, <3>1
  <2>4. ASSUME NEW k \in 1 .. Len(todo), todo[k] = r, k < i
        PROVE  written[r] = job[r]
    <3>1. k \in 1 .. i - 1
      BY <1>5, <2>4
    <3> QED
      BY <1>1, <2>4, <3>1 DEF PassedOver
  <2>5. CASE r = todo[i]
    <3>1. 1 \in 1 .. Len(todo') /\ todo'[1] = todo[i]
      BY <1>5
    <3> QED
      BY <2>5, <3>1
  <2>6. CASE r # todo[i]
    <3>1. written'[r] = written[r]
      BY <1>3, <2>6
    <3>2. \A k \in 1 .. Len(todo) : k >= i \/ k < i
      BY <1>5
    <3> QED
      BY <2>2, <2>3, <2>4, <3>1, <3>2
  <2> QED
    BY <2>5, <2>6
<1>8. LoadInv'
  BY <1>2, <1>6, <1>7 DEF LoadInv
<1> QED
  BY <1>4, <1>8

LEMMA LoadJobCache ==
  ASSUME Types, CacheInv, LoadJob
  PROVE  CacheInv' /\ LoadInv'
<1>1. CacheInv'
  BY DEF LoadJob, CacheInv, CacheIsTrue, board
<1>2. /\ todo' = Append(JobAddr, "CTRL") /\ JobAddr \in Seq(DOMAIN AddrByte)
      /\ \A i \in 1 .. Len(JobAddr) : JobAddr[i] \in JobRegs
  BY LinkConstants DEF LoadJob, JobRegs
<1>3. /\ Len(todo') = Len(JobAddr) + 1
      /\ \A i \in 1 .. Len(JobAddr) : todo'[i] = JobAddr[i]
  BY <1>2
<1>4. \A i \in 1 .. Len(todo') : todo'[i] = "CTRL" => i = Len(todo')
  BY <1>2, <1>3, LinkConstants
<1>5. \A r \in JobRegs : \E i \in 1 .. Len(todo') : todo'[i] = r
  <2> SUFFICES ASSUME NEW r \in JobRegs PROVE \E i \in 1 .. Len(todo') : todo'[i] = r
    OBVIOUS
  <2>1. PICK i \in 1 .. Len(JobAddr) : JobAddr[i] = r
    <3>1. DOMAIN JobAddr = 1 .. Len(JobAddr)
      BY <1>2
    <3> QED
      BY <3>1 DEF JobRegs
  <2>2. i \in 1 .. Len(todo')
    BY <1>2, <1>3
  <2> QED
    BY <1>3, <2>1, <2>2
<1> QED
  BY <1>1, <1>4, <1>5 DEF LoadInv

LEMMA StepCache ==
  ASSUME Types, PhaseInv, CacheInv, LoadInv, [LinkNext]_linkVars
  PROVE  CacheInv' /\ LoadInv'
<1>1. CASE forget
  BY <1>1 DEF forget, CacheInv, CacheIsTrue, LoadInv, board
<1>2. CASE PopFound
  <2>1. CacheInv'
    BY <1>2 DEF PopFound, CacheInv, CacheIsTrue, board
  <2>2. todo' = <<"FOUND_COUNT">>
    BY <1>2 DEF PopFound
  <2>3. Len(todo') = 1 /\ todo'[1] # "CTRL"
    BY <2>2
  <2> QED
    BY <2>1, <2>3 DEF LoadInv
<1>3. CASE TimedOut
  <2>1. None \notin JobRegs
    BY LinkConstants, Registers
  <2> QED
    BY <1>3, <2>1 DEF TimedOut, Fail, CacheInv, CacheIsTrue, LoadInv
<1>4. CASE Wire \/ WireFault
  <2>1. CacheInv'
    BY <1>4, WiredCases, WiredCache
  <2>2. UNCHANGED host
    BY <1>4 DEF Wire, WireFault, Exchange
  <2> QED
    BY <2>1, <2>2 DEF LoadInv, host
<1>5. CASE Found \/ UNCHANGED linkVars
  <2>1. UNCHANGED <<host, served, stale, regs>>
    <3>1. CASE Found
      <4>1. found_count \in Nat
        BY DEF Types, W!TypeOK
      <4> QED
        BY <3>1, <4>1, BusFind DEF Found
    <3>2. CASE UNCHANGED linkVars
      BY <3>2 DEF linkVars, board
    <3> QED
      BY <1>5, <3>1, <3>2
  <2> QED
    BY <2>1 DEF CacheInv, CacheIsTrue, LoadInv, host
<1>6. CASE BoardReset
  BY <1>6 DEF BoardReset, CacheInv, CacheIsTrue, LoadInv, host
<1> QED
  BY <1>1, <1>2, <1>3, <1>4, <1>5, <1>6, LoadJobCache, TransactCache, AnsweredCache
     DEF LinkNext

THEOREM LinkCache == LinkSpec => [](Types /\ PhaseInv /\ CacheInv /\ LoadInv)
<1>1. LinkInit => Types /\ PhaseInv /\ CacheInv /\ LoadInv
  BY InitTypes, InitPhase, InitCache
<1>2. Types /\ PhaseInv /\ CacheInv /\ LoadInv /\ [LinkNext]_linkVars
        => (Types /\ PhaseInv /\ CacheInv /\ LoadInv)'
  BY StepTypes, StepPhase, StepCache
<1> QED
  BY <1>1, <1>2, PTL DEF LinkSpec

(* What the write cache says is on the board is on the board, whichever    *)
(* writes were refused, cut short or lost (miner_link.py:78-80, 120-136):  *)
(* a word is cached only while no frame that could change it is under way. *)
THEOREM CacheHolds == LinkSpec => []CacheIsTrue
<1>1. CacheInv => CacheIsTrue
  BY DEF CacheInv
<1> QED
  BY <1>1, LinkCache, PTL

(* CTRL starts the job the host is loading, all of its words, though the   *)
(* words that did not change were passed over (miner_link.py:129-149,      *)
(* work_controller.sv:61-78).                                              *)
THEOREM StartsWholeJob == LinkSpec => []StartsTheJobLoaded
<1>1. Types /\ CacheInv /\ LoadInv => StartsTheJobLoaded
  <2> SUFFICES ASSUME Types, CacheInv, LoadInv, ~stale, req = "CTRL" PROVE regs = job
    BY DEF StartsTheJobLoaded
  <2>1. todo \in Seq(DOMAIN AddrByte) /\ todo # <<>> /\ todo[1] = "CTRL"
    BY LinkConstants DEF Types
  <2>2. Len(todo) = 1
    <3>1. 1 \in 1 .. Len(todo)
      BY <2>1
    <3> QED
      BY <2>1, <3>1 DEF LoadInv
  <2>3. \A r \in JobRegs : written[r] = job[r]
    <3>1. \A r \in JobRegs : r # "CTRL"
      BY LinkConstants
    <3> QED
      BY <2>1, <2>2, <3>1 DEF LoadInv
  <2>4. job \in [JobRegs -> Word] /\ regs \in [JobRegs -> Word] /\ None \notin Word
    BY LinkConstants DEF Types, W!TypeOK
  <2>5. \A r \in JobRegs : regs[r] = job[r]
    BY <2>3, <2>4 DEF CacheInv, CacheIsTrue
  <2> QED
    BY <2>4, <2>5
<1> QED
  BY <1>1, LinkCache, PTL

-----------------------------------------------------------------------------
(* The FIFO: finds leave it in the order they came, and none is lost.      *)

LEMMA RingMoves ==
  ASSUME NEW p \in W!Slot, NEW n \in 0 .. FOUND_DEPTH
  PROVE  /\ W!Ahead(p, 0) = p
         /\ W!Advance(p) \in W!Slot
         /\ n < FOUND_DEPTH => W!Advance(W!Ahead(p, n)) = W!Ahead(p, n + 1)
         /\ n < FOUND_DEPTH => W!Ahead(W!Advance(p), n) = W!Ahead(p, n + 1)
         /\ \A i, j \in 0 .. FOUND_DEPTH - 1 : W!Ahead(p, i) = W!Ahead(p, j) => i = j
         /\ \A i \in 0 .. FOUND_DEPTH - 1 : W!Ahead(p, i) \in W!Slot
<1>1. FOUND_DEPTH \in Nat /\ FOUND_DEPTH > 0 /\ p \in 0 .. FOUND_DEPTH - 1
  BY LinkConstants DEF W!Slot
<1>2. W!Ahead(p, 0) = p /\ W!Advance(p) \in W!Slot
  BY <1>1 DEF W!Ahead, W!Advance, W!Slot
<1>3. n < FOUND_DEPTH => W!Advance(W!Ahead(p, n)) = W!Ahead(p, n + 1)
  BY <1>1 DEF W!Ahead, W!Advance
<1>4. n < FOUND_DEPTH => W!Ahead(W!Advance(p), n) = W!Ahead(p, n + 1)
  BY <1>1 DEF W!Ahead, W!Advance
<1>5. \A i, j \in 0 .. FOUND_DEPTH - 1 : W!Ahead(p, i) = W!Ahead(p, j) => i = j
  BY <1>1 DEF W!Ahead
<1>6. \A i \in 0 .. FOUND_DEPTH - 1 : W!Ahead(p, i) \in W!Slot
  BY <1>1 DEF W!Ahead, W!Slot
<1> QED
  BY <1>2, <1>3, <1>4, <1>5, <1>6

LEMMA FifoTypes ==
  ASSUME Types
  PROVE  /\ found_rd_ptr \in W!Slot /\ found_wr_ptr \in W!Slot
         /\ found_count \in 0 .. FOUND_DEPTH /\ found_count \in Nat
         /\ FOUND_DEPTH \in Nat /\ presented \in Nat /\ presented <= Len(FindWord)
         /\ found_mem \in [W!Slot -> Find \union {NoFind}]
         /\ \E f \in Find \union {NoFind} : cur_nonce_hi = <<"nonce_hi", f>>
         /\ \E f \in Find \union {NoFind} : cur_workid = <<"work_id", f>>
         /\ HeldFind \in Nat
<1>1. /\ found_rd_ptr \in W!Slot /\ found_wr_ptr \in W!Slot
      /\ found_count \in 0 .. FOUND_DEPTH
      /\ presented \in 0 .. Len(FindWord)
      /\ found_mem \in [W!Slot -> Find \union {NoFind}]
      /\ cur_nonce_hi \in W!HeldHi /\ cur_workid \in W!HeldId
  BY DEF Types, W!TypeOK
<1>2. FOUND_DEPTH \in Nat /\ Len(FindWord) \in Nat
  BY LinkConstants
<1>3. /\ \E f \in Find \union {NoFind} : cur_nonce_hi = <<"nonce_hi", f>>
      /\ \E f \in Find \union {NoFind} : cur_workid = <<"work_id", f>>
  BY <1>1 DEF W!HeldHi, W!HeldId, W!NonceHi, W!WorkId
<1>4. HeldFind \in Nat
  BY <1>2, <1>3, Registers DEF HeldFind, NoFind
<1> QED
  BY <1>1, <1>2, <1>3, <1>4

LEMMA InitFifo == LinkInit => FifoInv
<1> SUFFICES ASSUME LinkInit PROVE FifoInv
  OBVIOUS
<1>1. /\ found_wr_ptr = 0 /\ found_rd_ptr = 0 /\ found_count = 0 /\ presented = 0
      /\ cur_nonce_hi = <<"nonce_hi", NoFind>> /\ cur_workid = <<"work_id", NoFind>>
  BY DEF LinkInit, W!Init, W!NonceHi, W!WorkId
<1>2. W!Ahead(0, 0) = 0
  BY LinkConstants DEF W!Ahead
<1> QED
  BY <1>1, <1>2 DEF FifoInv, Taken, HeldFind, NoFind

(* A read of FOUND_NONCE0 takes the oldest find there is.                  *)
LEMMA FetchFifo ==
  ASSUME Types, FifoInv, NEW r, NEW d, W!Clock(FALSE, TRUE, r, d, {}), UNCHANGED presented
  PROVE  /\ FifoInv'
         /\ IF Pops(r)
              THEN /\ Taken' = Taken + 1 /\ HeldFind' = Taken + 1
                   /\ rdata' = <<"nonce_lo", Taken + 1>> /\ Taken + 1 \in Find
              ELSE UNCHANGED <<found_count, Taken, HeldFind>>
<1>1. CASE ~Pops(r)
  <2>1. UNCHANGED <<found_mem, found_wr_ptr, found_count, found_rd_ptr, cur_nonce_hi, cur_workid>>
    BY <1>1, BusRead
  <2> QED
    BY <1>1, <2>1 DEF FifoInv, Taken, HeldFind
<1>2. CASE Pops(r)
  <2>1. /\ UNCHANGED <<found_mem, found_wr_ptr>>
        /\ rdata' = W!Answer(r)
        /\ found_count' = found_count - 1
        /\ found_rd_ptr' = W!Advance(found_rd_ptr)
        /\ cur_nonce_hi' = <<"nonce_hi", found_mem[found_rd_ptr]>>
        /\ cur_workid' = <<"work_id", found_mem[found_rd_ptr]>>
        /\ r = "FOUND_NONCE0" /\ found_count # 0
    BY <1>2, BusRead DEF Pops
  <2>2. /\ found_count \in 1 .. FOUND_DEPTH /\ found_rd_ptr \in W!Slot /\ FOUND_DEPTH \in Nat
        /\ presented \in Nat /\ presented <= Len(FindWord)
    BY <2>1, FifoTypes
  <2>3. found_mem[found_rd_ptr] = Taken + 1
    <3>1. 0 \in 0 .. found_count - 1 /\ 0 \in 0 .. FOUND_DEPTH
      BY <2>2
    <3>2. W!Ahead(found_rd_ptr, 0) = found_rd_ptr
      BY <2>2, <3>1, RingMoves
    <3>3. Taken + 1 + 0 = Taken + 1
      BY <2>2 DEF Taken
    <3> QED
      BY <3>1, <3>2, <3>3 DEF FifoInv
  <2>4. Taken' = Taken + 1 /\ HeldFind' = Taken + 1 /\ cur_nonce_hi'[2] = Taken + 1
    BY <2>1, <2>2, <2>3 DEF Taken, HeldFind
  <2>5. found_count' <= presented /\ Taken \in Nat /\ Taken + 1 \in 1 .. Len(FindWord)
    BY <2>1, <2>2, LinkConstants DEF FifoInv, Taken
  <2>6. found_wr_ptr' = W!Ahead(found_rd_ptr', found_count')
    <3>1. found_count - 1 \in 0 .. FOUND_DEPTH /\ found_count - 1 < FOUND_DEPTH
          /\ (found_count - 1) + 1 = found_count
      BY <2>2
    <3>2. W!Ahead(W!Advance(found_rd_ptr), found_count - 1)
             = W!Ahead(found_rd_ptr, (found_count - 1) + 1)
      BY <2>2, <3>1, RingMoves
    <3> QED
      BY <2>1, <3>1, <3>2 DEF FifoInv
  <2>7. ASSUME NEW i \in 0 .. found_count' - 1
        PROVE  found_mem'[W!Ahead(found_rd_ptr', i)] = Taken' + 1 + i
    <3>1. /\ i \in 0 .. FOUND_DEPTH /\ i < FOUND_DEPTH /\ i + 1 \in 0 .. found_count - 1
      BY <2>1, <2>2, <2>7
    <3>2. W!Ahead(W!Advance(found_rd_ptr), i) = W!Ahead(found_rd_ptr, i + 1)
      BY <2>2, <3>1, RingMoves
    <3>3. found_mem[W!Ahead(found_rd_ptr, i + 1)] = Taken + 1 + (i + 1)
      BY <3>1 DEF FifoInv
    <3> QED
      BY <2>1, <2>4, <2>5, <3>1, <3>2, <3>3
  <2>8. rdata' = <<"nonce_lo", Taken + 1>>
    <3>1. /\ "FOUND_NONCE0" \notin JobRegs /\ "FOUND_NONCE0" # "STATUS"
          /\ "FOUND_NONCE0" # "FOUND_COUNT"
      BY LinkConstants DEF W!ReadOnlyAddr
    <3>2. W!Answer("FOUND_NONCE0") = <<"nonce_lo", found_mem[found_rd_ptr]>>
      BY <2>1, <3>1, Zenon DEF W!Answer, W!NonceLo
    <3> QED
      BY <2>1, <2>3, <3>2
  <2>9. FifoInv'
    BY <2>1, <2>4, <2>5, <2>6, <2>7 DEF FifoInv
  <2> QED
    BY <1>2, <2>4, <2>5, <2>8, <2>9, Registers
<1> QED
  BY <1>1, <1>2

LEMMA FoundFifo ==
  ASSUME Types, FifoInv, Found
  PROVE  /\ FifoInv' /\ Taken' = Taken /\ HeldFind' = HeldFind
         /\ found_count' = found_count + 1 /\ presented' = presented + 1
<1>1. /\ found_count \in 0 .. FOUND_DEPTH /\ found_count < FOUND_DEPTH /\ found_count \in Nat
      /\ found_rd_ptr \in W!Slot /\ FOUND_DEPTH \in Nat /\ presented \in Nat
      /\ found_mem \in [W!Slot -> Find \union {NoFind}]
  BY FifoTypes DEF Found
<1>2. /\ found_mem' = [found_mem EXCEPT ![found_wr_ptr] = presented + 1]
      /\ found_wr_ptr' = W!Advance(found_wr_ptr)
      /\ found_count' = found_count + 1
      /\ UNCHANGED <<found_rd_ptr, cur_nonce_hi, cur_workid>>
      /\ presented' = presented + 1
  BY <1>1, BusFind DEF Found
<1>3. Taken' = Taken /\ HeldFind' = HeldFind /\ Taken + 1 + found_count = presented + 1
  BY <1>1, <1>2 DEF Taken, HeldFind
<1>4. found_wr_ptr' = W!Ahead(found_rd_ptr', found_count')
  BY <1>1, <1>2, RingMoves DEF FifoInv
<1>5. ASSUME NEW i \in 0 .. found_count' - 1
      PROVE  found_mem'[W!Ahead(found_rd_ptr', i)] = Taken' + 1 + i
  <2>1. i \in 0 .. FOUND_DEPTH - 1 /\ found_count \in 0 .. FOUND_DEPTH - 1
    BY <1>1, <1>2
  <2>2. W!Ahead(found_rd_ptr, i) \in W!Slot
    BY <1>1, <2>1, RingMoves
  <2>3. CASE i = found_count
    BY <1>1, <1>2, <1>3, <2>2, <2>3 DEF FifoInv
  <2>4. CASE i # found_count
    <3>1. i \in 0 .. found_count - 1
      BY <1>1, <1>2, <1>5, <2>4
    <3>2. W!Ahead(found_rd_ptr, i) # found_wr_ptr
      BY <1>1, <2>1, <2>4, RingMoves DEF FifoInv
    <3>3. found_mem[W!Ahead(found_rd_ptr, i)] = Taken + 1 + i
      BY <3>1 DEF FifoInv
    <3> QED
      BY <1>1, <1>2, <1>3, <2>2, <3>2, <3>3
  <2> QED
    BY <2>3, <2>4
<1>6. found_count' <= presented'
  BY <1>1, <1>2 DEF FifoInv
<1> QED
  BY <1>2, <1>3, <1>4, <1>5, <1>6 DEF FifoInv, HeldFind

LEMMA BoardResetFifo ==
  ASSUME Types, FifoInv, BoardReset
  PROVE  FifoInv' /\ Taken' = presented /\ presented' = presented
<1>1. /\ found_wr_ptr' = 0 /\ found_rd_ptr' = 0 /\ found_count' = 0 /\ presented' = presented
      /\ cur_nonce_hi' = <<"nonce_hi", NoFind>> /\ cur_workid' = <<"work_id", NoFind>>
      /\ presented \in Nat
  BY FifoTypes DEF BoardReset, W!Reset, W!NonceHi, W!WorkId
<1>2. W!Ahead(0, 0) = 0
  BY LinkConstants DEF W!Ahead
<1> QED
  BY <1>1, <1>2 DEF FifoInv, Taken, HeldFind, NoFind

-----------------------------------------------------------------------------
(* Finds, from the FIFO to the caller of pop_found.                        *)

LEMMA ReadValues ==
  ASSUME Types, FifoInv
  PROVE  /\ WordOf(W!Answer("FOUND_COUNT")) = CountWord[found_count]
         /\ HeldFind \in Find =>
              /\ WordOf(W!Answer("FOUND_NONCE1")) = FindWord[HeldFind]
              /\ WordOf(W!Answer("FOUND_WORKID")) = FindWord[HeldFind]
         /\ \A f \in Find : WordOf(<<"nonce_lo", f>>) = FindWord[f]
<1>1. /\ "FOUND_COUNT" \notin JobRegs /\ "FOUND_NONCE1" \notin JobRegs
      /\ "FOUND_WORKID" \notin JobRegs
  BY LinkConstants DEF W!ReadOnlyAddr
<1>2. W!Answer("FOUND_COUNT") = <<"count", found_count>>
  <2>1. "FOUND_COUNT" # "STATUS"
    OBVIOUS
  <2> QED
    BY <1>1, <2>1, Zenon DEF W!Answer, W!Count
<1>3. W!Answer("FOUND_NONCE1") = cur_nonce_hi
  <2>1. /\ "FOUND_NONCE1" # "STATUS" /\ "FOUND_NONCE1" # "FOUND_COUNT"
        /\ "FOUND_NONCE1" # "FOUND_NONCE0"
    OBVIOUS
  <2> QED
    BY <1>1, <2>1, Zenon DEF W!Answer
<1>4. W!Answer("FOUND_WORKID") = cur_workid
  <2>1. /\ "FOUND_WORKID" # "STATUS" /\ "FOUND_WORKID" # "FOUND_COUNT"
        /\ "FOUND_WORKID" # "FOUND_NONCE0" /\ "FOUND_WORKID" # "FOUND_NONCE1"
    OBVIOUS
  <2> QED
    BY <1>1, <2>1, Zenon DEF W!Answer
<1>5. /\ cur_nonce_hi = <<"nonce_hi", HeldFind>> /\ cur_workid = <<"work_id", HeldFind>>
  <2>1. PICK f \in Find \union {NoFind}, g \in Find \union {NoFind} :
          cur_nonce_hi = <<"nonce_hi", f>> /\ cur_workid = <<"work_id", g>>
    BY FifoTypes
  <2>2. cur_nonce_hi[2] = f /\ cur_workid[2] = g
    BY <2>1
  <2> QED
    BY <2>1, <2>2 DEF FifoInv, HeldFind
<1>6. \A n : WordOf(<<"count", n>>) = CountWord[n]
  BY DEF WordOf
<1>7. \A f \in Find : /\ WordOf(<<"nonce_lo", f>>) = FindWord[f]
                      /\ WordOf(<<"nonce_hi", f>>) = FindWord[f]
                      /\ WordOf(<<"work_id", f>>) = FindWord[f]
  BY Registers DEF WordOf
<1> QED
  BY <1>2, <1>3, <1>4, <1>5, <1>6, <1>7

LEMMA Later ==
  ASSUME NEW m \in Nat, NEW n \in Nat, m <= n, DeliveredUpTo(m)
  PROVE  DeliveredUpTo(n)
<1>1. \A k \in 1 .. m : k \in 1 .. n
  OBVIOUS
<1> QED
  BY <1>1 DEF DeliveredUpTo

(* Delivered finds are still right when core finds more or the board       *)
(* forgets some.                                                           *)
LEMMA DeliveryStays ==
  ASSUME Delivery, UNCHANGED delivered,
         presented \in Nat, presented' \in Nat, presented <= presented',
         Taken \in Nat, Taken' \in Nat, Taken <= Taken'
  PROVE  Delivery'
<1>1. DeliveredUpTo(Taken)'
  <2>1. PICK m \in Nat, n \in Nat : m = Taken /\ n = Taken'
    OBVIOUS
  <2>2. \A k \in 1 .. m : k \in 1 .. n
    BY <2>1
  <2>3. \A j \in DOMAIN delivered : \E k \in 1 .. m : delivered[j][1] = FindWord[k]
    BY <2>1 DEF Delivery, DeliveredUpTo
  <2>4. \A j \in DOMAIN delivered : \E k \in 1 .. n : delivered[j][1] = FindWord[k]
    BY <2>2, <2>3
  <2> QED
    BY <2>1, <2>4 DEF DeliveredUpTo
<1>2. DeliveredWholeAndOnce'
  <2>1. \A k \in 1 .. presented : k \in 1 .. presented'
    OBVIOUS
  <2> QED
    BY <2>1 DEF Delivery, DeliveredWholeAndOnce
<1> QED
  BY <1>1, <1>2 DEF Delivery

LEMMA InitPop == LinkInit => PopInv
<1> SUFFICES ASSUME LinkInit PROVE PopInv
  OBVIOUS
<1>1. delivered = <<>> /\ todo = <<>>
  BY DEF LinkInit
<1>2. Delivery
  BY <1>1 DEF Delivery, DeliveredWholeAndOnce, DeliveredUpTo
<1> QED
  BY <1>1, <1>2 DEF PopInv, TodoShape, Stages, AtCount, AtNonce0, AtNonce1, AtWorkId, Popping

(* What is to be done next, when it is a part of a pop.                    *)
LEMMA NextToDo ==
  ASSUME Types, TodoShape, todo # <<>>
  PROVE  /\ Head(todo) \in JobRegs \union {"CTRL", "FOUND_COUNT"} \union Parts
         /\ Head(todo) = "FOUND_COUNT" => todo = <<"FOUND_COUNT">>
         /\ Head(todo) = "FOUND_NONCE0" =>
              todo = <<"FOUND_NONCE0", "FOUND_NONCE1", "FOUND_WORKID">>
         /\ Head(todo) = "FOUND_NONCE1" => todo = <<"FOUND_NONCE1", "FOUND_WORKID">>
         /\ Head(todo) = "FOUND_WORKID" => todo = <<"FOUND_WORKID">>
         /\ Head(todo) \in JobRegs \union {"CTRL"} =>
              /\ todo[Len(todo)] = "CTRL"
              /\ \A i \in 1 .. Len(todo) - 1 : todo[i] \in JobRegs
<1>1. \A r \in JobRegs \union {"CTRL"} : r \notin {"FOUND_COUNT"} \union Parts
  BY LinkConstants DEF Parts, W!ReadOnlyAddr
<1>2. CASE /\ todo[Len(todo)] = "CTRL"
           /\ \A i \in 1 .. Len(todo) - 1 : todo[i] \in JobRegs
  <2>1. todo \in Seq(DOMAIN AddrByte) /\ Len(todo) \in Nat /\ Len(todo) > 0
    BY DEF Types
  <2>2. Head(todo) = todo[1] /\ todo[1] \in JobRegs \union {"CTRL"}
    BY <1>2, <2>1
  <2> QED
    BY <1>1, <1>2, <2>2 DEF Parts
<1>3. CASE todo = <<"FOUND_COUNT">>
  <2>1. Head(todo) = "FOUND_COUNT"
    BY <1>3
  <2> QED
    BY <1>1, <1>3, <2>1 DEF Parts
<1>4. CASE todo = <<"FOUND_NONCE0", "FOUND_NONCE1", "FOUND_WORKID">>
  <2>1. Head(todo) = "FOUND_NONCE0"
    BY <1>4
  <2> QED
    BY <1>1, <1>4, <2>1 DEF Parts
<1>5. CASE todo = <<"FOUND_NONCE1", "FOUND_WORKID">>
  <2>1. Head(todo) = "FOUND_NONCE1"
    BY <1>5
  <2> QED
    BY <1>1, <1>5, <2>1 DEF Parts
<1>6. CASE todo = <<"FOUND_WORKID">>
  <2>1. Head(todo) = "FOUND_WORKID"
    BY <1>6
  <2> QED
    BY <1>1, <1>6, <2>1 DEF Parts
<1> QED
  BY <1>2, <1>3, <1>4, <1>5, <1>6 DEF TodoShape

LEMMA FetchStages ==
  ASSUME Types, PhaseInv, FifoInv, PopInv,
         NEW in \in Byte \union {NoByte}, NEW out \in Byte \union {NoByte},
         Moves(in, out), Fetches(in)
  PROVE  Stages' /\ FifoInv' /\ Taken' \in {Taken, Taken + 1}
<1> DEFINE r == RegisterOf(addr_reg)
           word == WordOf(rdata')
<1>1. UNCHANGED <<host, torn, delivered, presented>> /\ req # None
  BY LineMoves
<1>2. served = <<>> /\ (Unknown \/ r = req)
  BY AccessIsOwn
<1>3. served' = <<<<r, FALSE, word>>>>
  BY <1>2 DEF Fetches
<1>4. W!Clock(FALSE, TRUE, r, ZeroBytes, {})
  BY DEF Fetches
<1> HIDE DEF r
<1>5. rdata' = W!Answer(r)
  BY <1>4, BusRead
<1>6. /\ FifoInv'
      /\ IF Pops(r)
              THEN /\ Taken' = Taken + 1 /\ HeldFind' = Taken + 1
                   /\ rdata' = <<"nonce_lo", Taken + 1>> /\ Taken + 1 \in Find
              ELSE UNCHANGED <<found_count, Taken, HeldFind>>
  BY <1>1, <1>4, FetchFifo
<1>7. req = Head(todo) /\ todo # <<>>
  BY <1>1 DEF Types
<1>8. req \in Parts => r = req
  BY <1>2, <1>7 DEF Unknown
<1>9. AtCount'
  <2> SUFFICES ASSUME Popping("FOUND_COUNT")' PROVE
        (/\ popped = <<>>
         /\ req # None /\ (\E w \in Word \ {CountWord[0]} : served = <<<<"FOUND_COUNT", FALSE, w>>>>)
              => found_count > 0)'
    BY DEF AtCount
  <2>1. popped' = <<>>
    BY <1>1 DEF PopInv, Stages, AtCount, Popping, host
  <2>2. ASSUME NEW w \in Word \ {CountWord[0]}, served' = <<<<"FOUND_COUNT", FALSE, w>>>>
        PROVE  found_count' > 0
    <3>1. r = "FOUND_COUNT" /\ word = w
      BY <1>3, <2>2
    <3>2. found_count' = found_count /\ found_count \in Nat
      BY <1>6, <3>1, FifoTypes DEF Pops
    <3>3. w = CountWord[found_count]
      BY <1>5, <3>1, ReadValues
    <3> QED
      BY <2>2, <3>2, <3>3
  <2> QED
    BY <2>1, <2>2
<1>10. AtNonce0'
  <2> SUFFICES ASSUME Popping("FOUND_NONCE0")'
               PROVE  Len(popped') = 1 /\ HoldsNew' /\ Reads(FindWord[HeldFind])'
    BY <1>1, <1>3 DEF AtNonce0, host
  <2>1. Popping("FOUND_NONCE0") /\ req = "FOUND_NONCE0" /\ r = req
    BY <1>1, <1>7, <1>8 DEF Popping, Parts, host
  <2>2. Len(popped) = 1 /\ found_count > 0
    BY <1>2, <2>1 DEF PopInv, Stages, AtNonce0
  <2>3. /\ HeldFind' = Taken + 1 /\ rdata' = <<"nonce_lo", Taken + 1>> /\ Taken + 1 \in Find
    BY <1>6, <2>1, <2>2, FifoTypes DEF Pops
  <2>4. word = FindWord[Taken + 1]
    BY <2>3, ReadValues
  <2>5. DeliveredUpTo(Taken) /\ HeldFind' - 1 = Taken
    BY <2>3, FifoTypes DEF PopInv, Delivery, Taken
  <2>6. HoldsNew'
    BY <1>1, <2>3, <2>5 DEF HoldsNew, DeliveredUpTo
  <2> QED
    BY <1>1, <1>3, <2>1, <2>2, <2>3, <2>4, <2>6 DEF Reads, host
<1>11. ASSUME NEW s \in {"FOUND_NONCE1", "FOUND_WORKID"}, Popping(s)'
       PROVE  /\ Popping(s) /\ HoldsNew /\ HoldsNew' /\ HeldFind' = HeldFind /\ popped' = popped
              /\ Reads(FindWord[HeldFind])'
  <2>1. Popping(s) /\ req = s /\ r = s /\ popped' = popped
    BY <1>1, <1>7, <1>8, <1>11 DEF Popping, Parts, host
  <2>2. HoldsNew
    BY <2>1 DEF PopInv, Stages, AtNonce1, AtWorkId
  <2>3. HeldFind' = HeldFind /\ HeldFind \in Find
    BY <1>6, <2>1, <2>2 DEF Pops, HoldsNew
  <2>4. word = FindWord[HeldFind]
    BY <1>5, <2>1, <2>3, ReadValues
  <2>5. HoldsNew'
    BY <1>1, <2>2, <2>3 DEF HoldsNew, DeliveredUpTo
  <2> QED
    BY <1>1, <1>3, <2>1, <2>2, <2>3, <2>4, <2>5 DEF Reads, host
<1>12. AtNonce1'
  BY <1>1, <1>11 DEF AtNonce1, PopInv, Stages
<1>13. AtWorkId'
  BY <1>1, <1>11 DEF AtWorkId, PopInv, Stages
<1> QED
  BY <1>6, <1>9, <1>10, <1>12, <1>13 DEF Stages

LEMMA TakenTypes ==
  ASSUME Types, FifoInv
  PROVE  Taken \in Nat /\ presented \in Nat /\ Taken <= presented
<1>1. found_count \in Nat /\ presented \in Nat /\ found_count <= presented
  BY FifoTypes DEF FifoInv
<1> QED
  BY <1>1 DEF Taken

LEMMA WiredPop ==
  ASSUME Types, Types', PhaseInv, FifoInv, PopInv, Wired
  PROVE  FifoInv' /\ PopInv'
<1>1. PICK in \in Byte \union {NoByte}, out \in Byte \union {NoByte} : Moves(in, out)
  BY DEF Wired
<1>2. UNCHANGED <<host, torn, delivered, presented>> /\ req # None
  BY <1>1, LineMoves
<1>3. FifoInv' /\ Stages' /\ Taken' \in {Taken, Taken + 1}
  <2>1. CASE UNCHANGED <<board, served>>
    <3>1. FifoInv' /\ Taken' = Taken /\ HeldFind' = HeldFind
      BY <1>2, <2>1 DEF FifoInv, Taken, HeldFind, board
    <3>2. UNCHANGED <<todo, req, popped, served, torn, delivered, found_count, cur_workid>>
      BY <1>2, <2>1 DEF host, board
    <3>3. Stages'
      BY <3>2 DEF PopInv, Stages, AtCount, AtNonce0, AtNonce1, AtWorkId, Popping, HoldsNew,
                  DeliveredUpTo, HeldFind, Reads
    <3> QED
      BY <3>1, <3>3
  <2>2. CASE Writes(in)
    <3> DEFINE r == RegisterOf(addr_reg)
    <3>1. UNCHANGED <<found_mem, found_wr_ptr, found_rd_ptr, found_count, cur_nonce_hi, cur_workid>>
      BY <2>2, BusWrite DEF Writes
    <3>2. FifoInv' /\ Taken' = Taken
      BY <1>2, <3>1 DEF FifoInv, Taken, HeldFind
    <3>3. served = <<>> /\ (Unknown \/ (r = req /\ (OP \in cmd_reg <=> IsWrite(req))))
      BY <1>1, <2>2, AccessIsOwn
    <3>4. served' = <<<<r, TRUE, data_reg>>>> /\ OP \in cmd_reg
      BY <2>2, <3>3 DEF Writes
    <3>5. req = Head(todo) /\ todo # <<>>
      BY <1>2 DEF Types
    <3>6. req \notin Parts
      <4>1. Unknown => req \notin Parts
        BY <3>5 DEF Unknown
      <4>2. IsWrite(req) => req \notin Parts
        BY LinkConstants DEF IsWrite, Parts, W!ReadOnlyAddr
      <4> QED
        BY <3>3, <3>4, <4>1, <4>2
    <3>7. \A s : Popping(s)' => Popping(s) /\ s = req
      BY <1>2, <3>5 DEF Popping, host
    <3>8. AtCount'
      <4>1. \A w : served' # <<<<"FOUND_COUNT", FALSE, w>>>>
        BY <3>4
      <4> QED
        BY <1>2, <3>7, <4>1 DEF PopInv, Stages, AtCount, host
    <3>9. AtNonce0' /\ AtNonce1' /\ AtWorkId'
      BY <3>6, <3>7 DEF AtNonce0, AtNonce1, AtWorkId, Parts
    <3> QED
      BY <3>2, <3>8, <3>9 DEF Stages
  <2>3. CASE Fetches(in)
    BY <1>1, <2>3, FetchStages
  <2> QED
    BY <1>1, <2>1, <2>2, <2>3, ExchangeCases
       DEF Types, Moves, Sends, Idles, Hunts, Fills, Nacks
<1>4. Delivery'
  <2>1. Taken \in Nat /\ Taken' \in Nat /\ Taken <= Taken' /\ presented \in Nat
    BY <1>3, TakenTypes
  <2> QED
    BY <1>2, <2>1, DeliveryStays DEF PopInv
<1>5. TodoShape'
  BY <1>2 DEF PopInv, TodoShape, host
<1> QED
  BY <1>3, <1>4, <1>5 DEF PopInv

(* Steps that leave the FIFO, the finds and what has been delivered alone. *)
LEMMA RestPop ==
  ASSUME FifoInv, PopInv, UNCHANGED <<board, presented>>
  PROVE  /\ FifoInv' /\ Taken' = Taken /\ HeldFind' = HeldFind
         /\ UNCHANGED delivered => Delivery'
         /\ UNCHANGED delivered => (HoldsNew => HoldsNew')
<1>1. UNCHANGED <<found_mem, found_wr_ptr, found_rd_ptr, found_count, cur_nonce_hi, cur_workid,
                  presented>>
  BY DEF board
<1>2. FifoInv' /\ Taken' = Taken /\ HeldFind' = HeldFind
  BY <1>1 DEF FifoInv, Taken, HeldFind
<1>3. ASSUME UNCHANGED delivered PROVE Delivery'
  <2>1. DeliveredWholeAndOnce'
    BY <1>1, <1>3 DEF PopInv, Delivery, DeliveredWholeAndOnce
  <2>2. DeliveredUpTo(Taken)'
    BY <1>2, <1>3 DEF PopInv, Delivery, DeliveredUpTo
  <2> QED
    BY <1>3, <2>1, <2>2 DEF PopInv, Delivery
<1>4. ASSUME UNCHANGED delivered, HoldsNew PROVE HoldsNew'
  BY <1>2, <1>4 DEF HoldsNew, DeliveredUpTo
<1> QED
  BY <1>2, <1>3, <1>4

LEMMA IdlePop ==
  ASSUME Types, FifoInv, PopInv, LoadJob \/ forget \/ PopFound
  PROVE  FifoInv' /\ PopInv'
<1>1. FifoInv' /\ Delivery' /\ req' = None
  BY RestPop DEF LoadJob, forget, PopFound
<1>2. CASE LoadJob
  <2>1. /\ todo' = Append(JobAddr, "CTRL") /\ JobAddr \in Seq(DOMAIN AddrByte)
        /\ \A i \in 1 .. Len(JobAddr) : JobAddr[i] \in JobRegs
    BY <1>2, LinkConstants DEF LoadJob, JobRegs
  <2>2. /\ todo' # <<>> /\ todo'[Len(todo')] = "CTRL"
        /\ \A i \in 1 .. Len(todo') - 1 : todo'[i] \in JobRegs
        /\ Head(todo') \in JobRegs \union {"CTRL"}
    BY <2>1
  <2>3. TodoShape'
    BY <2>2 DEF TodoShape
  <2>4. \A s \in {"FOUND_COUNT"} \union Parts : Head(todo') # s
    BY <2>2, LinkConstants DEF Parts, W!ReadOnlyAddr
  <2>5. Stages'
    BY <2>4 DEF Stages, AtCount, AtNonce0, AtNonce1, AtWorkId, Popping, Parts
  <2> QED
    BY <1>1, <2>3, <2>5 DEF PopInv
<1>3. CASE forget
  BY <1>1, <1>3 DEF forget, PopInv, TodoShape, Stages, AtCount, AtNonce0, AtNonce1, AtWorkId,
                    Popping
<1>4. CASE PopFound
  <2>1. todo' = <<"FOUND_COUNT">> /\ Head(todo') = "FOUND_COUNT" /\ popped' = <<>>
    BY <1>4 DEF PopFound
  <2>2. Stages'
    BY <1>1, <2>1 DEF Stages, AtCount, AtNonce0, AtNonce1, AtWorkId, Popping
  <2> QED
    BY <1>1, <2>1, <2>2 DEF PopInv, TodoShape
<1> QED
  BY <1>2, <1>3, <1>4

LEMMA TransactPop ==
  ASSUME Types, FifoInv, PopInv, Transact
  PROVE  FifoInv' /\ PopInv'
<1>1. PICK i \in DOMAIN todo :
        /\ ~PassedOver(todo[i]) /\ \A j \in 1 .. i - 1 : PassedOver(todo[j])
        /\ todo' = SubSeq(todo, i, Len(todo))
  BY DEF Transact
<1>2. UNCHANGED <<board, popped, presented, delivered, torn>> /\ served' = <<>> /\ req = None
  BY DEF Transact
<1>3. FifoInv' /\ Delivery' /\ (HoldsNew => HoldsNew') /\ HeldFind' = HeldFind
      /\ found_count' = found_count
  BY <1>2, RestPop DEF board
<1>4. /\ todo \in Seq(DOMAIN AddrByte) /\ i \in 1 .. Len(todo) /\ Len(todo) \in Nat
      /\ todo # <<>> /\ Head(todo) = todo[1]
  <2>1. todo \in Seq(DOMAIN AddrByte)
    BY DEF Types
  <2> QED
    BY <1>1, <2>1
<1>5. CASE Head(todo) \in JobRegs \union {"CTRL"}
  <2>1. todo[Len(todo)] = "CTRL" /\ \A k \in 1 .. Len(todo) - 1 : todo[k] \in JobRegs
    BY <1>4, <1>5, NextToDo DEF PopInv
  <2>2. /\ todo' \in Seq(DOMAIN AddrByte) /\ Len(todo') = Len(todo) - i + 1 /\ Len(todo') \in Nat
        /\ \A k \in 1 .. Len(todo') : todo'[k] = todo[k + i - 1]
    BY <1>1, <1>4
  <2>3. todo'[Len(todo')] = "CTRL" /\ todo' # <<>>
    <3> DEFINE m == Len(todo)
               n == Len(todo')
    <3>3. m \in Nat /\ n \in Nat /\ i \in 1 .. m /\ n = m - i + 1
      BY <1>4, <2>2
    <3> HIDE DEF m, n
    <3>4. n >= 1 /\ n + i - 1 = m
      BY <3>3
    <3>1. Len(todo') >= 1 /\ Len(todo') + i - 1 = Len(todo)
      BY <3>4 DEF m, n
    <3>2. Len(todo') \in 1 .. Len(todo')
      BY <2>2, <3>1
    <3> QED
      BY <2>1, <2>2, <3>1, <3>2
  <2>4. ASSUME NEW k \in 1 .. Len(todo') - 1 PROVE todo'[k] \in JobRegs
    <3>1. k \in 1 .. Len(todo') /\ k + i - 1 \in 1 .. Len(todo) - 1
      BY <1>4, <2>2, <2>4
    <3> QED
      BY <2>1, <2>2, <3>1
  <2>5. Head(todo') \in JobRegs \union {"CTRL"}
    <3>1. Head(todo') = todo'[1]
      BY <2>2, <2>3
    <3>2. 1 \in 1 .. Len(todo') - 1 \/ 1 = Len(todo')
      BY <2>2, <2>3
    <3> QED
      BY <2>3, <2>4, <3>1, <3>2
  <2>6. TodoShape'
    BY <2>3, <2>4 DEF TodoShape
  <2>7. \A s \in {"FOUND_COUNT"} \union Parts : Head(todo') # s
    BY <2>5, LinkConstants DEF Parts, W!ReadOnlyAddr
  <2>8. Stages'
    BY <2>7 DEF Stages, AtCount, AtNonce0, AtNonce1, AtWorkId, Popping, Parts
  <2> QED
    BY <1>3, <2>6, <2>8 DEF PopInv
<1>6. CASE Head(todo) \notin JobRegs \union {"CTRL"}
  <2>1. i = 1
    <3>1. ~PassedOver(todo[1])
      BY <1>4, <1>6 DEF PassedOver
    <3>2. ~(1 \in 1 .. i - 1)
      BY <1>1, <3>1
    <3> QED
      BY <1>4, <3>2
  <2>2. todo' = todo
    BY <1>1, <1>4, <2>1
  <2>3. TodoShape'
    BY <2>2 DEF PopInv, TodoShape
  <2>4. \A s : Popping(s)' => Popping(s)
    BY <1>2, <2>2 DEF Popping
  <2>5. served' # <<<<"FOUND_COUNT", FALSE, 0>>>> /\ \A x : served' # <<x>>
    BY <1>2
  <2>6. AtCount' /\ AtNonce0'
    BY <1>2, <1>3, <2>4, <2>5 DEF PopInv, Stages, AtCount, AtNonce0
  <2>7. AtNonce1' /\ AtWorkId'
    BY <1>2, <1>3, <2>4 DEF PopInv, Stages, AtNonce1, AtWorkId, Reads
  <2> QED
    BY <1>3, <2>3, <2>6, <2>7 DEF PopInv, Stages
<1> QED
  BY <1>5, <1>6

(* A call that failed delivers nothing.                                    *)
LEMMA FailPop ==
  ASSUME FifoInv, PopInv, Fail, UNCHANGED <<board, presented>>
  PROVE  FifoInv' /\ PopInv'
<1>1. FifoInv' /\ Delivery' /\ todo' = <<>>
  BY RestPop DEF Fail
<1> QED
  BY <1>1 DEF PopInv, TodoShape, Stages, AtCount, AtNonce0, AtNonce1, AtWorkId, Popping

LEMMA FoundPop ==
  ASSUME Types, Types', FifoInv, PopInv, Found
  PROVE  FifoInv' /\ PopInv'
<1>1. /\ FifoInv' /\ Taken' = Taken /\ HeldFind' = HeldFind
      /\ found_count' = found_count + 1 /\ presented' = presented + 1
  BY FoundFifo
<1>2. UNCHANGED <<todo, req, popped, served, torn, delivered>> /\ found_count \in Nat
  BY FifoTypes DEF Found, host
<1>3. Delivery'
  BY <1>1, <1>2, TakenTypes, DeliveryStays DEF PopInv
<1>4. HoldsNew => HoldsNew'
  BY <1>1, <1>2 DEF HoldsNew, DeliveredUpTo
<1>5. found_count > 0 => found_count' > 0
  BY <1>1, <1>2
<1>6. Stages'
  BY <1>1, <1>2, <1>4, <1>5
     DEF PopInv, Stages, AtCount, AtNonce0, AtNonce1, AtWorkId, Popping, Reads
<1>7. TodoShape'
  BY <1>2 DEF PopInv, TodoShape
<1> QED
  BY <1>1, <1>3, <1>6, <1>7 DEF PopInv

LEMMA BoardResetPop ==
  ASSUME Types, FifoInv, PopInv, BoardReset
  PROVE  FifoInv' /\ PopInv'
<1>1. FifoInv' /\ Taken' = presented /\ presented' = presented
  BY BoardResetFifo
<1>2. UNCHANGED <<todo, delivered>> /\ (torn' <=> todo # <<>>)
  BY DEF BoardReset, host
<1>3. Delivery'
  BY <1>1, <1>2, TakenTypes, DeliveryStays DEF PopInv
<1>4. Stages'
  BY <1>2 DEF Stages, AtCount, AtNonce0, AtNonce1, AtWorkId, Popping
<1>5. TodoShape'
  BY <1>2 DEF PopInv, TodoShape
<1> QED
  BY <1>1, <1>3, <1>4, <1>5 DEF PopInv

(* Appending a word: one longer, the earlier words where they were.        *)
LEMMA WordAppended ==
  ASSUME NEW s \in Seq(Word), NEW d \in Word
  PROVE  /\ Append(s, d) \in Seq(Word)
         /\ Len(s) = 1 => Len(Append(s, d)) = 2 /\ Append(s, d)[2] = d
         /\ Len(s) = 2 => /\ Len(Append(s, d)) = 3
                          /\ Append(s, d)[2] = s[2] /\ Append(s, d)[3] = d
         /\ Len(s) = 3 => /\ Len(Append(s, d)) = 4
                          /\ Append(s, d)[2] = s[2] /\ Append(s, d)[3] = s[3]
                          /\ Append(s, d)[4] = d
<1>1. /\ Append(s, d) \in Seq(Word) /\ Len(Append(s, d)) = Len(s) + 1
      /\ \A i \in 1 .. Len(s) : Append(s, d)[i] = s[i]
      /\ Append(s, d)[Len(s) + 1] = d
  BY AppendProperties
<1>2. Len(s) = 1 => Len(Append(s, d)) = 2 /\ Append(s, d)[2] = d
  <2> SUFFICES ASSUME Len(s) = 1 PROVE Len(s) + 1 = 2
    BY <1>1
  <2> QED
    OBVIOUS
<1>3. Len(s) = 2 => /\ Len(Append(s, d)) = 3
                    /\ Append(s, d)[2] = s[2] /\ Append(s, d)[3] = d
  <2> SUFFICES ASSUME Len(s) = 2 PROVE Len(s) + 1 = 3 /\ 2 \in 1 .. Len(s)
    BY <1>1
  <2> QED
    OBVIOUS
<1>4. Len(s) = 3 => /\ Len(Append(s, d)) = 4
                    /\ Append(s, d)[2] = s[2] /\ Append(s, d)[3] = s[3]
                    /\ Append(s, d)[4] = d
  <2> SUFFICES ASSUME Len(s) = 3
               PROVE  Len(s) + 1 = 4 /\ 2 \in 1 .. Len(s) /\ 3 \in 1 .. Len(s)
    BY <1>1
  <2> QED
    OBVIOUS
<1> QED
  BY <1>1, <1>2, <1>3, <1>4

(* The held find, complete, is the next one delivered.                     *)
LEMMA Delivers ==
  ASSUME Types, FifoInv, PopInv, UNCHANGED presented, Taken' = Taken,
         HoldsNew, popped \in Seq(Word), Len(popped) = 3,
         popped[2] = FindWord[HeldFind], popped[3] = FindWord[HeldFind],
         NEW data \in Word, data = FindWord[HeldFind],
         delivered' = Append(delivered, Tail(Append(popped, data)))
  PROVE  Delivery'
<1>1. HeldFind \in Find /\ DeliveredUpTo(HeldFind - 1) /\ delivered \in Seq(Seq(Word))
  BY DEF HoldsNew, PopInv, Delivery
<1>2. HeldFind \in 1 .. Taken /\ HeldFind \in 1 .. presented /\ HeldFind \in Nat
  BY <1>1, FifoTypes, TakenTypes, Registers DEF FifoInv, NoFind
<1> DEFINE got == Tail(Append(popped, data))
<1>3. got \in Seq(Word) /\ got = <<FindWord[HeldFind], FindWord[HeldFind], FindWord[HeldFind]>>
  <2>1. /\ got \in Seq(Word) /\ Len(got) = 3
        /\ got[1] = popped[2] /\ got[2] = popped[3] /\ got[3] = data
    <3> DEFINE all == Append(popped, data)
    <3>1. /\ all \in Seq(Word) /\ Len(all) = 4
          /\ all[2] = popped[2] /\ all[3] = popped[3] /\ all[4] = data
      BY WordAppended
    <3> HIDE DEF all
    <3>2. /\ Tail(all) \in Seq(Word) /\ Len(Tail(all)) = 3
          /\ Tail(all)[1] = all[2] /\ Tail(all)[2] = all[3] /\ Tail(all)[3] = all[4]
      BY <3>1
    <3> QED
      BY <3>1, <3>2 DEF all
  <2> HIDE DEF got
  <2> QED
    BY <2>1
<1>4. got[1] = FindWord[HeldFind]
  BY <1>3
<1> HIDE DEF got
<1>5. /\ delivered' \in Seq(Seq(Word)) /\ Len(delivered') = Len(delivered) + 1
      /\ \A i \in 1 .. Len(delivered) : delivered'[i] = delivered[i]
      /\ delivered'[Len(delivered) + 1] = got
      /\ DOMAIN delivered = 1 .. Len(delivered) /\ Len(delivered) \in Nat
      /\ DOMAIN delivered' = 1 .. Len(delivered) + 1
  BY <1>1, <1>3 DEF got
<1>6. DeliveredUpTo(Taken)'
  <2>1. ASSUME NEW j \in DOMAIN delivered'
        PROVE  \E k \in 1 .. Taken : delivered'[j][1] = FindWord[k]
    <3>1. CASE j = Len(delivered) + 1
      BY <1>2, <1>4, <1>5, <3>1
    <3>2. CASE j # Len(delivered) + 1
      <4>1. j \in DOMAIN delivered /\ delivered'[j] = delivered[j]
        BY <1>5, <3>2
      <4> QED
        BY <4>1 DEF PopInv, Delivery, DeliveredUpTo
    <3> QED
      BY <3>1, <3>2
  <2> QED
    BY <2>1 DEF DeliveredUpTo
<1>7. DeliveredWholeAndOnce'
  <2>1. ASSUME NEW i \in DOMAIN delivered'
        PROVE  \E k \in 1 .. presented :
                 /\ delivered'[i] = <<FindWord[k], FindWord[k], FindWord[k]>>
                 /\ \A j \in 1 .. i - 1 :
                      \E k2 \in 1 .. k - 1 : delivered'[j][1] = FindWord[k2]
    <3>1. \A j \in 1 .. i - 1 : j \in DOMAIN delivered /\ delivered'[j] = delivered[j]
      BY <1>5
    <3>2. CASE i = Len(delivered) + 1
      <4>1. \A j \in 1 .. i - 1 :
              \E k2 \in 1 .. HeldFind - 1 : delivered'[j][1] = FindWord[k2]
        <5> TAKE j \in 1 .. i - 1
        <5>1. j \in DOMAIN delivered /\ delivered'[j] = delivered[j]
          BY <3>1
        <5> QED
          BY <1>1, <5>1 DEF DeliveredUpTo
      <4>2. delivered'[i] = <<FindWord[HeldFind], FindWord[HeldFind], FindWord[HeldFind]>>
        BY <1>3, <1>5, <3>2
      <4> QED
        BY <1>2, <4>1, <4>2
    <3>3. CASE i # Len(delivered) + 1
      <4>1. i \in DOMAIN delivered /\ delivered'[i] = delivered[i]
        BY <1>5, <3>3
      <4>2. PICK k \in 1 .. presented :
              /\ delivered[i] = <<FindWord[k], FindWord[k], FindWord[k]>>
              /\ \A j \in 1 .. i - 1 : \E k2 \in 1 .. k - 1 : delivered[j][1] = FindWord[k2]
        BY <4>1 DEF PopInv, Delivery, DeliveredWholeAndOnce
      <4> QED
        BY <3>1, <4>1, <4>2
    <3> QED
      BY <3>2, <3>3
  <2> QED
    BY <2>1 DEF DeliveredWholeAndOnce
<1> QED
  BY <1>5, <1>6, <1>7 DEF Delivery

LEMMA AnsweredPop ==
  ASSUME Types, Types', PhaseInv, FifoInv, PopInv, Answered
  PROVE  FifoInv' /\ PopInv'
<1> DEFINE data == DataIn(SubSeq(toHost, 1, FRAME))
<1>1. UNCHANGED <<board, presented, served, torn>> /\ req # None
  BY DEF Answered
<1>2. CASE Fail
  BY <1>1, <1>2, FailPop
<1>3. CASE Accepted(SubSeq(toHost, 1, FRAME)) /\ Succeed(data)
  <2>1. /\ req' = None
        /\ popped' = IF IsWrite(req) THEN popped ELSE Append(popped, data)
        /\ todo' = IF req = "FOUND_COUNT"
               THEN IF data = CountWord[0] THEN <<>>
                    ELSE <<"FOUND_NONCE0", "FOUND_NONCE1", "FOUND_WORKID">>
               ELSE Tail(todo)
        /\ delivered' = IF req = "FOUND_WORKID" /\ ~torn THEN Append(delivered, Tail(popped'))
                                                   ELSE delivered
    BY <1>3 DEF Succeed
  <2>2. data = DataIn(toHost) /\ data \in Word
    BY DataInType DEF Answered, Types
  <2>3. served = <<<<req, IsWrite(req), data>>>>
    BY <1>1, <1>3, <2>2, OwnAnswer DEF Answered
  <2>4. /\ todo \in Seq(DOMAIN AddrByte) /\ todo # <<>> /\ req = Head(todo)
        /\ popped \in Seq(Word)
    BY <1>1 DEF Types
  <2>5. /\ FifoInv' /\ Taken' = Taken /\ HeldFind' = HeldFind
        /\ UNCHANGED delivered => Delivery'
        /\ UNCHANGED delivered => (HoldsNew => HoldsNew')
    BY <1>1, RestPop
  <2>6. /\ Head(todo) \in JobRegs \union {"CTRL", "FOUND_COUNT"} \union Parts
        /\ found_count \in Nat /\ found_count' = found_count
    BY <1>1, <2>4, NextToDo, FifoTypes DEF PopInv, board
  <2> HIDE DEF data
  <2>7. req \in {"FOUND_COUNT"} \union Parts => IsWrite(req) = FALSE
    BY LinkConstants DEF IsWrite, Parts, W!ReadOnlyAddr
  <2>8. req \in {"FOUND_COUNT"} \union Parts =>
          served = <<<<req, FALSE, data>>>> /\ popped' = Append(popped, data)
    BY <2>1, <2>3, <2>7
  <2>9. CASE req \in JobRegs \union {"CTRL"}
    <3>1. /\ IsWrite(req) /\ req # "FOUND_COUNT" /\ req # "FOUND_WORKID"
      BY <2>9, LinkConstants DEF IsWrite, W!ReadOnlyAddr
    <3>2. todo' = Tail(todo) /\ delivered' = delivered
      BY <2>1, <3>1
    <3>3. todo[Len(todo)] = "CTRL" /\ \A k \in 1 .. Len(todo) - 1 : todo[k] \in JobRegs
      BY <2>4, <2>9, NextToDo DEF PopInv
    <3>4. /\ todo' \in Seq(DOMAIN AddrByte) /\ Len(todo') = Len(todo) - 1 /\ Len(todo') \in Nat
          /\ \A k \in 1 .. Len(todo') : todo'[k] = todo[k + 1]
      BY <2>4, <3>2
    <3>5. TodoShape' /\ (todo' # <<>> => Head(todo') \in JobRegs \union {"CTRL"})
      <4>1. CASE todo' = <<>>
        BY <4>1 DEF TodoShape
      <4>2. CASE todo' # <<>>
        <5>1. Len(todo') >= 1
          BY <3>4, <4>2
        <5>2. todo'[Len(todo')] = "CTRL"
          <6>1. Len(todo') \in 1 .. Len(todo') /\ Len(todo') + 1 = Len(todo)
            BY <3>4, <5>1
          <6> QED
            BY <3>3, <3>4, <6>1
        <5>3. ASSUME NEW k \in 1 .. Len(todo') - 1 PROVE todo'[k] \in JobRegs
          <6>1. k \in 1 .. Len(todo') /\ k + 1 \in 1 .. Len(todo) - 1
            BY <3>4, <5>3
          <6> QED
            BY <3>3, <3>4, <6>1
        <5>4. Head(todo') = todo'[1] /\ (1 \in 1 .. Len(todo') - 1 \/ 1 = Len(todo'))
          BY <3>4, <4>2, <5>1
        <5> QED
          BY <4>2, <5>2, <5>3, <5>4 DEF TodoShape
      <4> QED
        BY <4>1, <4>2
    <3>6. \A s \in {"FOUND_COUNT"} \union Parts : ~Popping(s)'
      BY <3>5, LinkConstants DEF Popping, Parts, W!ReadOnlyAddr
    <3>7. Stages'
      BY <3>6 DEF Stages, AtCount, AtNonce0, AtNonce1, AtWorkId, Parts
    <3> QED
      BY <2>5, <3>2, <3>5, <3>7 DEF PopInv
  <2>10. CASE req = "FOUND_COUNT"
    <3>1. delivered' = delivered
      BY <2>1, <2>10
    <3>2. CASE data = CountWord[0]
      <4>1. todo' = <<>>
        BY <2>1, <2>10, <3>2
      <4> QED
        BY <2>5, <3>1, <4>1 DEF PopInv, TodoShape, Stages, AtCount, AtNonce0, AtNonce1, AtWorkId,
                                Popping
    <3>3. CASE data # CountWord[0]
      <4>1. todo' = <<"FOUND_NONCE0", "FOUND_NONCE1", "FOUND_WORKID">>
            /\ Head(todo') = "FOUND_NONCE0"
        BY <2>1, <2>10, <3>3
      <4>2. ASSUME ~torn PROVE Len(popped') = 1 /\ found_count > 0
        <5>1. Popping("FOUND_COUNT")
          BY <2>4, <2>10, <4>2 DEF Popping
        <5>2. popped = <<>> /\ found_count > 0
          BY <1>1, <2>2, <2>8, <2>10, <3>3, <5>1 DEF PopInv, Stages, AtCount
        <5> QED
          BY <2>2, <2>8, <2>10, <5>2
      <4>3. AtNonce0'
        BY <1>1, <2>1, <2>6, <4>2 DEF AtNonce0, Popping
      <4>4. AtCount' /\ AtNonce1' /\ AtWorkId'
        BY <4>1 DEF AtCount, AtNonce1, AtWorkId, Popping
      <4> QED
        BY <2>5, <3>1, <4>1, <4>3, <4>4 DEF PopInv, TodoShape, Stages
    <3> QED
      BY <3>2, <3>3
  <2>11. CASE req = "FOUND_NONCE0"
    <3>1. todo' = <<"FOUND_NONCE1", "FOUND_WORKID">> /\ delivered' = delivered
          /\ Head(todo') = "FOUND_NONCE1"
      <4>1. todo = <<"FOUND_NONCE0", "FOUND_NONCE1", "FOUND_WORKID">>
        BY <2>4, <2>11, NextToDo DEF PopInv
      <4> QED
        BY <2>1, <2>11, <4>1
    <3>2. ASSUME ~torn
          PROVE  HoldsNew /\ Len(popped') = 2 /\ popped'[2] = FindWord[HeldFind]
      <4>1. Popping("FOUND_NONCE0") /\ served = <<<<"FOUND_NONCE0", FALSE, data>>>>
        BY <2>4, <2>8, <2>11, <3>2 DEF Popping, Parts
      <4>2. Len(popped) = 1 /\ HoldsNew /\ data = FindWord[HeldFind]
        BY <1>1, <2>11, <4>1 DEF PopInv, Stages, AtNonce0, Reads
      <4>3. popped' = Append(popped, data) /\ popped \in Seq(Word)
        BY <2>4, <2>8, <2>11 DEF Parts
      <4> QED
        BY <2>2, <2>8, <4>2, <4>3, WordAppended
    <3>3. AtNonce1'
      BY <1>1, <2>1, <2>5, <3>1, <3>2 DEF AtNonce1, Popping
    <3>4. AtCount' /\ AtNonce0' /\ AtWorkId'
      BY <3>1 DEF AtCount, AtNonce0, AtWorkId, Popping
    <3> QED
      BY <2>5, <3>1, <3>3, <3>4 DEF PopInv, TodoShape, Stages
  <2>12. CASE req = "FOUND_NONCE1"
    <3>1. todo' = <<"FOUND_WORKID">> /\ delivered' = delivered
          /\ Head(todo') = "FOUND_WORKID"
      <4>1. todo = <<"FOUND_NONCE1", "FOUND_WORKID">>
        BY <2>4, <2>12, NextToDo DEF PopInv
      <4> QED
        BY <2>1, <2>12, <4>1
    <3>2. ASSUME ~torn
          PROVE  /\ HoldsNew /\ Len(popped') = 3 /\ popped'[2] = FindWord[HeldFind]
                 /\ popped'[3] = FindWord[HeldFind]
      <4>1. Popping("FOUND_NONCE1") /\ served = <<<<"FOUND_NONCE1", FALSE, data>>>>
        BY <2>4, <2>8, <2>12, <3>2 DEF Popping, Parts
      <4>2. /\ Len(popped) = 2 /\ popped[2] = FindWord[HeldFind] /\ HoldsNew
            /\ data = FindWord[HeldFind]
        BY <1>1, <2>12, <4>1 DEF PopInv, Stages, AtNonce1, Reads
      <4>3. popped' = Append(popped, data) /\ popped \in Seq(Word)
        BY <2>4, <2>8, <2>12 DEF Parts
      <4> QED
        BY <2>2, <2>8, <4>2, <4>3, WordAppended
    <3>3. AtWorkId'
      BY <1>1, <2>1, <2>5, <3>1, <3>2 DEF AtWorkId, Popping
    <3>4. AtCount' /\ AtNonce0' /\ AtNonce1'
      BY <3>1 DEF AtCount, AtNonce0, AtNonce1, Popping
    <3> QED
      BY <2>5, <3>1, <3>3, <3>4 DEF PopInv, TodoShape, Stages
  <2>13. CASE req = "FOUND_WORKID"
    <3>1. todo' = <<>>
      <4>1. todo = <<"FOUND_WORKID">>
        BY <2>4, <2>13, NextToDo DEF PopInv
      <4> QED
        BY <2>1, <2>13, <4>1
    <3>2. Delivery'
      <4>1. CASE torn
        BY <2>1, <2>5, <4>1
      <4>2. CASE ~torn
        <5>1. Popping("FOUND_WORKID") /\ served = <<<<"FOUND_WORKID", FALSE, data>>>>
          BY <2>4, <2>8, <2>13, <4>2 DEF Popping, Parts
        <5>2. /\ Len(popped) = 3 /\ popped[2] = FindWord[HeldFind]
              /\ popped[3] = FindWord[HeldFind] /\ HoldsNew
              /\ data = FindWord[HeldFind]
          BY <1>1, <2>13, <5>1 DEF PopInv, Stages, AtWorkId, Reads
        <5>3. delivered' = Append(delivered, Tail(popped')) /\ popped' = Append(popped, data)
          BY <2>1, <2>8, <2>13, <4>2 DEF Parts
        <5> QED
          BY <1>1, <2>2, <2>4, <2>5, <5>2, <5>3, Delivers
      <4> QED
        BY <4>1, <4>2
    <3> QED
      BY <2>5, <3>1, <3>2 DEF PopInv, TodoShape, Stages, AtCount, AtNonce0, AtNonce1, AtWorkId,
                              Popping
  <2> QED
    BY <2>4, <2>6, <2>9, <2>10, <2>11, <2>12, <2>13 DEF Parts
<1> QED
  BY <1>2, <1>3 DEF Answered

LEMMA StepPop ==
  ASSUME Types, PhaseInv, FifoInv, PopInv, [LinkNext]_linkVars
  PROVE  FifoInv' /\ PopInv'
<1>1. Types'
  BY StepTypes
<1>2. CASE Wire \/ WireFault
  BY <1>1, <1>2, WiredCases, WiredPop
<1>3. CASE TimedOut
  BY <1>3, FailPop DEF TimedOut
<1>4. CASE UNCHANGED linkVars
  <2>1. UNCHANGED <<board, presented, delivered, todo, req, popped, served, torn, found_count>>
    BY <1>4 DEF linkVars, host, board
  <2>2. FifoInv' /\ Delivery' /\ (HoldsNew => HoldsNew') /\ HeldFind' = HeldFind
    BY <2>1, RestPop
  <2>3. Stages' /\ TodoShape'
    BY <2>1, <2>2 DEF PopInv, TodoShape, Stages, AtCount, AtNonce0, AtNonce1, AtWorkId, Popping,
                      Reads
  <2> QED
    BY <2>2, <2>3 DEF PopInv
<1> QED
  BY <1>1, <1>2, <1>3, <1>4, IdlePop, TransactPop, AnsweredPop, FoundPop, BoardResetPop
     DEF LinkNext

(* Finds popped over the link are finds core presented: each at most once, *)
(* in the order they came, the three words of one find together, whatever  *)
(* arrives between the three reads, whatever bytes are lost or damaged and *)
(* whatever a failed pop or a reset left behind; the pop that a reset fell *)
(* into is left out (miner_link.py:151-158, work_controller.sv:152-206).   *)
THEOREM FindsDelivered == LinkSpec => []DeliveredWholeAndOnce
<1>1. LinkInit => Types /\ PhaseInv /\ FifoInv /\ PopInv
  BY InitTypes, InitPhase, InitFifo, InitPop
<1>2. Types /\ PhaseInv /\ FifoInv /\ PopInv /\ [LinkNext]_linkVars
        => (Types /\ PhaseInv /\ FifoInv /\ PopInv)'
  BY StepTypes, StepPhase, StepPop
<1>3. PopInv => DeliveredWholeAndOnce
  BY DEF PopInv, Delivery
<1> QED
  BY <1>1, <1>2, <1>3, PTL DEF LinkSpec
=============================================================================
