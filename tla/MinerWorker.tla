---------------------------- MODULE MinerWorker -----------------------------
(***************************************************************************)
(* pool_bridge.py, MinerWorker: the thread that owns the UART, and the     *)
(* board as it sees it.  The core numbers its jobs (+1 per START); the     *)
(* thread cannot read the number, so it learns it once (sync) and counts   *)
(* along (load), to know to which work a find belongs (check).             *)
(*                                                                         *)
(* A call of load_job or pop_found is one step; it may fail at any of its  *)
(* transactions, after the board did what was asked or before.  The FIFO   *)
(* does not overflow here: see WorkController.                             *)
(***************************************************************************)
EXTENDS Naturals, Sequences

CONSTANTS
  Work,            (* The works set_work may bring, no two of one header.  *)
  WID_MOD,         (* WID_MASK + 1, and the range of core's work_id.       *)
  WORK_HISTORY,
  RESYNC_AFTER,
  FOUND_DEPTH,
  MAX_FAULTS,      (* Bound: failed calls in one behaviour.                *)
  SYNC, PARK,      (* The jobs of sync: an easy target, an impossible one. *)
  OLD,             (* What the board ran before the bridge was started.    *)
  None

ASSUME WorkerConstants ==
  /\ WID_MOD \in Nat /\ WORK_HISTORY \in 1 .. WID_MOD - 1
  /\ RESYNC_AFTER \in Nat \ {0} /\ FOUND_DEPTH \in Nat \ {0}
  /\ MAX_FAULTS \in Nat
  /\ {SYNC, PARK, OLD} \intersect Work = {} /\ PARK \notin {SYNC, OLD}
  /\ None \notin Work \union {SYNC, PARK, OLD} \union (0 .. WID_MOD - 1)

(* At most one job is loaded per pop: what waits in a full FIFO is popped  *)
(* before it is forgotten (64 works of history, four finds).               *)
ASSUME HistoryOutlivesFifo == FOUND_DEPTH < WORK_HISTORY

Wid == 0 .. WID_MOD - 1
Entry == [wid : Wid, of : Work \union {SYNC, OLD}]

VARIABLES
  (* the thread *)
  pc,              (* where run() is                                       *)
  pending,         (* the newest work, shared with the event loop          *)
  taken, found,    (* run()'s work and found, while they are used          *)
  works, next_wid, bad_streak, last_work,
  (* the board *)
  work_id,         (* core's, of the last START                            *)
  running,         (* the job of the last START                            *)
  late,            (* a find that may still come of the job before         *)
  fifo,
  (* ghosts: on_find's last arguments, whether sync learned the id of its  *)
  (* own job, failed calls                                                 *)
  handed, rightly, faults

books == <<works, next_wid, bad_streak, last_work>>
core == <<work_id, running, late, fifo>>
vars == <<pc, pending, taken, found, books, core, handed, rightly, faults>>

NoWorks == [w \in Wid |-> None]

-----------------------------------------------------------------------------
(* The board.                                                              *)

Mines(job) == job \in Work \union {SYNC, OLD}

(* load_job has arrived whole (MinerLink) and START with it.               *)
Starts(job) ==
  /\ work_id' = (work_id + 1) % WID_MOD
  /\ running' = job
  /\ late' = IF Mines(running) THEN [wid |-> work_id, of |-> running] ELSE None
  /\ UNCHANGED fifo

(* A find carries the id of its own job, also when that job has just been  *)
(* replaced (Core).                                                        *)
Finds ==
  /\ Len(fifo) < FOUND_DEPTH
  /\ \/ Mines(running) /\ fifo' = Append(fifo, [wid |-> work_id, of |-> running])
        /\ UNCHANGED late
     \/ late # None /\ fifo' = Append(fifo, late) /\ late' = None
  /\ UNCHANGED <<pc, pending, taken, found, books, work_id, running, handed,
                 rightly, faults>>

(* A pop.  The pipeline of core is empty of an earlier job long before a   *)
(* transaction over the UART ends.                                         *)
Pops ==
  /\ late' = None
  /\ fifo' = IF fifo = <<>> THEN fifo ELSE Tail(fifo)
  /\ UNCHANGED <<work_id, running>>

-----------------------------------------------------------------------------
(* The event loop.                                                         *)

set_work ==
  /\ \E w \in Work : pending' = w
  /\ UNCHANGED <<pc, taken, found, books, core, handed, rightly, faults>>

-----------------------------------------------------------------------------
(* The thread.                                                             *)

(* Slip: the counted id is kept when a call fails.                         *)
Mutant_FailsKeepsId ==
  /\ faults < MAX_FAULTS
  /\ faults' = faults + 1
  /\ pc' = "top"
  /\ taken' = None /\ found' = None /\ handed' = <<>>
  /\ UNCHANGED <<pending, books, rightly>>

(* The except clause of run().                                             *)
Fails ==
  /\ faults < MAX_FAULTS
  /\ faults' = faults + 1
  /\ next_wid' = None
  /\ pc' = "top"
  /\ taken' = None /\ found' = None /\ handed' = <<>>
  /\ UNCHANGED <<pending, works, bad_streak, last_work, rightly>>

(* A load_job that raises: before START got through, or after.             *)
LoadJobFails(job) ==
  /\ UNCHANGED core \/ Starts(job)
  /\ Fails

(* sync: forget, and load the easy job.                                    *)
SyncStart ==
  /\ pc = "top" /\ next_wid = None
  /\ \/ /\ Starts(SYNC)
        /\ pc' = "sync_find"
        /\ UNCHANGED <<pending, taken, found, books, handed, rightly, faults>>
     \/ LoadJobFails(SYNC)

(* The first find that is popped is taken for one of that job.             *)
SyncFind ==
  /\ pc = "sync_find"
  /\ Pops
  /\ IF fifo = <<>> THEN UNCHANGED <<pc, found, rightly>>
     ELSE /\ found' = Head(fifo)
          /\ rightly' = (Head(fifo).wid = work_id)
          /\ pc' = "sync_park"
  /\ UNCHANGED <<pending, taken, books, handed, faults>>

(* SyncError after five seconds; a failed pop may have popped.             *)
PopFails ==
  /\ pc \in {"sync_find", "drain", "pop"}
  /\ UNCHANGED core \/ Pops
  /\ Fails

SyncPark ==
  /\ pc = "sync_park"
  /\ \/ /\ Starts(PARK)
        /\ pc' = "drain"
        /\ UNCHANGED <<pending, taken, found, books, handed, rightly, faults>>
     \/ LoadJobFails(PARK)

(* Slip: what ran before is not started again.                             *)
Mutant_DrainNoReload ==
  /\ pc = "drain"
  /\ Pops
  /\ IF fifo # <<>> THEN UNCHANGED <<pc, pending, found, books>>
     ELSE /\ next_wid' = (found.wid + 2) % WID_MOD
          /\ works' = NoWorks
          /\ bad_streak' = 0
          /\ pc' = "take"
          /\ found' = None
          /\ UNCHANGED <<last_work, pending>>
  /\ UNCHANGED <<taken, handed, rightly, faults>>

(* Pop until the FIFO is empty, then set up the books.                     *)
Drain ==
  /\ pc = "drain"
  /\ Pops
  /\ IF fifo # <<>> THEN UNCHANGED <<pc, pending, found, books>>
     ELSE /\ next_wid' = (found.wid + 2) % WID_MOD
          /\ works' = NoWorks
          /\ bad_streak' = 0
          /\ pending' = IF pending = None THEN last_work ELSE pending
          /\ pc' = "take"
          /\ found' = None
          /\ UNCHANGED last_work
  /\ UNCHANGED <<taken, handed, rightly, faults>>

Take ==
  /\ pc = "take" \/ (pc = "top" /\ next_wid # None)
  /\ taken' = pending
  /\ pending' = None
  /\ pc' = IF pending = None THEN "pop" ELSE "load"
  /\ handed' = <<>>
  /\ UNCHANGED <<found, books, core, rightly, faults>>

(* Slip: one work too many is forgotten.                                   *)
Mutant_RecordForgetsSooner ==
  /\ works' = [works EXCEPT ![next_wid] = taken,
                            ![(next_wid + WID_MOD - WORK_HISTORY + 1) % WID_MOD] = None]
  /\ next_wid' = (next_wid + 1) % WID_MOD
  /\ last_work' = taken
  /\ UNCHANGED bad_streak

(* Slip: the id does not wrap.                                             *)
Mutant_RecordNoWrap ==
  /\ works' = [works EXCEPT ![next_wid] = taken,
                            ![(next_wid + WID_MOD - WORK_HISTORY) % WID_MOD] = None]
  /\ next_wid' = next_wid + 1
  /\ last_work' = taken
  /\ UNCHANGED bad_streak

(* The books of load(), after load_job has returned.                       *)
Record ==
  /\ works' = [works EXCEPT ![next_wid] = taken,
                            ![(next_wid + WID_MOD - WORK_HISTORY) % WID_MOD] = None]
  /\ next_wid' = (next_wid + 1) % WID_MOD
  /\ last_work' = taken
  /\ UNCHANGED bad_streak

Load ==
  /\ pc = "load"
  /\ \/ /\ Starts(taken)
        /\ Record
        /\ pc' = "pop"
        /\ taken' = None
        /\ UNCHANGED <<pending, found, handed, rightly, faults>>
     \/ LoadJobFails(taken)

Pop ==
  /\ pc = "pop"
  /\ Pops
  /\ IF fifo = <<>> THEN pc' = "top" /\ UNCHANGED found
                    ELSE pc' = "check" /\ found' = Head(fifo)
  /\ UNCHANGED <<pending, taken, books, handed, rightly, faults>>

bad ==
  /\ bad_streak' = bad_streak + 1
  /\ next_wid' = IF bad_streak + 1 >= RESYNC_AFTER THEN None ELSE next_wid
  /\ UNCHANGED handed

(* Slip: the find is not hashed again.                                     *)
Mutant_IsShareTrusting(work, find) == TRUE

(* The find hashed again with the header of `work`.                        *)
IsShare(work, find) == find.of = work

Check ==
  /\ pc = "check"
  /\ LET work == works[found.wid]
     IN  IF work # None /\ IsShare(work, found)
           THEN /\ bad_streak' = 0
                /\ handed' = <<work, found>>
                /\ UNCHANGED next_wid
           ELSE bad
  /\ pc' = "top"
  /\ found' = None
  /\ UNCHANGED <<pending, taken, works, last_work, core, rightly, faults>>

Init ==
  /\ pc = "top"
  /\ pending = None /\ taken = None /\ found = None
  /\ works = NoWorks /\ next_wid = None /\ bad_streak = 0 /\ last_work = None
  /\ work_id = 0 /\ running \in {OLD, PARK}
  /\ late = None /\ fifo = <<>>
  /\ handed = <<>> /\ rightly = FALSE /\ faults = 0

Next ==
  \/ SyncStart \/ SyncFind \/ SyncPark \/ Drain
  \/ Take \/ Load \/ Pop \/ Check \/ PopFails
  \/ set_work \/ Finds

Spec == Init /\ [][Next]_vars

(* The thread runs while its calls return, and the sync job finds.         *)
FairSpec ==
  /\ Spec
  /\ WF_vars(SyncStart \/ SyncFind \/ SyncPark \/ Drain \/ Take \/ Load \/ Pop \/ Check)
  /\ WF_vars(Finds /\ running = SYNC)

-----------------------------------------------------------------------------

(* The books keep their shape (pool_bridge.py:86-96).                     *)
TypeOK ==
  /\ pc \in {"top", "sync_find", "sync_park", "drain", "take", "load", "pop", "check"}
  /\ {pending, last_work, taken} \subseteq Work \union {None}
  /\ pc = "load" => taken # None
  /\ pc \in {"sync_park", "drain", "check"} => found \in Entry
  /\ works \in [Wid -> Work \union {None}]
  /\ next_wid \in Wid \union {None}
  /\ pc \in {"take", "load", "pop", "check"} => next_wid # None
  /\ bad_streak \in 0 .. RESYNC_AFTER
  /\ fifo \in Seq(Entry) /\ Len(fifo) <= FOUND_DEPTH

(* Once sync learned the id of its own job, the thread's count stays that  *)
(* of core, through loads, parks and calls that failed after the board had *)
(* already started the job (pool_bridge.py:116-158, core.sv:326-339).      *)
IdsInStep ==
  rightly /\ next_wid # None => next_wid = (work_id + 1) % WID_MOD

(* Then every find is looked up under the work it was found for, however   *)
(* many jobs were loaded while it sat in the FIFO and though the ids wrap: *)
(* no valid share is called a hardware error or thrown away as unknown     *)
(* (pool_bridge.py:33-35, 155-156, 160-174).                               *)
FindsCredited ==
  rightly /\ pc = "check" => works[found.wid] = found.of

(* Even when the count is wrong, a find handed over for a work is a find   *)
(* of that work (pool_bridge.py:5-7, 166-174).                             *)
HandedOverAreShares == handed # <<>> => handed[2].of = handed[1]

(* Whatever fails, once a work has been loaded the board comes back to     *)
(* mining one: it does not stay on the sync job or parked                  *)
(* (pool_bridge.py:103-144).                                               *)
WorkResumes == last_work # None ~> running \in Work

(* The newest work is mined until there is a newer one, also when a call   *)
(* fails ("Loads the newest work", pool_bridge.py:83-84, 98-101).          *)
NewestIsMined == \A w \in Work : pending = w ~> running = w \/ pending \notin {w, None}

(* "run an easy-target job so the first find carries its id": what sync    *)
(* learns is the id of its own job (pool_bridge.py:122-125).               *)
SyncLearnsItsId == pc = "take" => next_wid = (work_id + 1) % WID_MOD

=============================================================================
