----------------------------- MODULE FoundQueue -----------------------------
(***************************************************************************)
(* What the host is promised about winning nonces: a bounded queue.  A     *)
(* find enters at the back, reading FOUND_NONCE0 removes the front one and *)
(* answers with its low word, and reading FOUND_NONCE1 or FOUND_WORKID     *)
(* answers with the rest of the find that was removed last.  A find that   *)
(* arrives at a full queue "just overwrites the oldest unread entry"       *)
(* (work_controller.sv:113-118, docs/work_controller.md).                  *)
(***************************************************************************)
EXTENDS Naturals, Sequences

CONSTANTS
  FOUND_DEPTH,  (* Capacity of the queue.                                  *)
  Find,         (* The finds: a winning nonce with the id of its work.     *)
  NoFind        (* What is held before the first removal.                  *)

VARIABLES
  queue,        (* Finds the host has not read yet, oldest first.          *)
  held,         (* The find removed last.                                  *)
  answer        (* What the read port shows.                               *)

vars == <<queue, held, answer>>

(* A read answers with one part of a find, or with a count; any other      *)
(* register answers with a kind of its own.                                *)
NonceLo(f) == <<"nonce_lo", f>>
NonceHi(f) == <<"nonce_hi", f>>
WorkId(f)  == <<"work_id", f>>
Count(n)   == <<"count", n>>
NonEmpty(b) == <<"nonempty", b>>
Empty      == <<"zero">>

FindKinds == {"nonce_lo", "nonce_hi", "work_id", "count", "nonempty"}

Init ==
  /\ queue = <<>>
  /\ held = NoFind
  /\ answer = Empty

(* The queue with the finds in new (none or one) added at the back.        *)
Enqueue(q, new) ==
  IF Len(q \o new) > FOUND_DEPTH THEN Tail(q \o new) ELSE q \o new

Arrivals == {<<>>} \union {<<f>> : f \in Find}

Pop(new) ==
  /\ queue # <<>>
  /\ answer' = NonceLo(Head(queue))
  /\ held' = Head(queue)
  /\ queue' = Enqueue(Tail(queue), new)

(* A read that removes nothing, or no read at all.                         *)
Look(new) ==
  /\ queue' = Enqueue(queue, new)
  /\ held' = held
  /\ \/ answer' = answer
     \/ answer' = NonceHi(held)
     \/ answer' = WorkId(held)
     \/ answer' = Count(Len(queue))
     \/ answer' = NonEmpty(queue # <<>>)
     \/ answer' = Empty /\ queue = <<>>
     \/ answer'[1] \notin FindKinds

Reset ==
  /\ queue' = <<>>
  /\ held' = NoFind
  /\ answer' = Empty

Next ==
  \/ \E new \in Arrivals : Pop(new) \/ Look(new)
  \/ Reset

Spec == Init /\ [][Next]_vars

=============================================================================
