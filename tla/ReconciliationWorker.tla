------------------------ MODULE ReconciliationWorker ------------------------
(***************************************************************************)
(* runReconciliationWorker() and its lease store                           *)
(* (packages/core/src/reconciliation-worker.ts): several processes run a   *)
(* worker of one name, of which the holder of a lease sweeps the findings  *)
(* page by page, in the order of their ids, and checkpoints a cursor.      *)
(*                                                                         *)
(* Every call of the store, the scan and a handler is awaited, so each is  *)
(* a step.  The clock is left out: a lease may lapse at any moment.  A     *)
(* process runs one worker at a time and keeps a token no longer than the  *)
(* run, so the process stands for the token of its run.                    *)
(***************************************************************************)
EXTENDS Naturals, FiniteSets, FiniteSetsExt

CONSTANTS
  Workers,     \* processes that run the worker
  Records,     \* how many records there are; their ids are 1 .. Records
  Wanted,      \* those the filter selects
  BatchSize,   \* ReconciliationWorkerOptions.batchSize
  Concurrency, \* ReconciliationWorkerOptions.concurrency
  MaxPages,    \* ReconciliationWorkerOptions.maxPages, of each process
  MaxTrouble,  \* bound: crashes, failures, aborts and lapses of a running worker
  NoOne        \* the holder of a free lease

ASSUME WorkersAssumption == NoOne \notin Workers
ASSUME RecordsAssumption == Records \in Nat
ASSUME WantedAssumption == Wanted \subseteq 1 .. Records
ASSUME BatchSizeAssumption == BatchSize \in Nat \ {0}
ASSUME ConcurrencyAssumption == Concurrency \in Nat \ {0}
ASSUME MaxPagesAssumption == MaxPages \in [Workers -> Nat \ {0}]
ASSUME MaxTroubleAssumption == MaxTrouble \in Nat

Findings == 1 .. Records

VARIABLES
  lease,   \* the store's record: holder, whether it is unexpired, cursor
  pc,      \* what each process awaits
  run,     \* the local variables of its run
  open,    \* findings a scan would return now
  due,     \* history: open since the sweep began, not handled in it
  left,    \* history: due, and passed by the cursor
  lapsed,  \* history: processes whose lease lapsed during their run
  trouble  \* how much went wrong

vars == <<lease, pc, run, open, due, left, lapsed, trouble>>

(* An absent cursor is 0: every id is above it. *)
Cursor == 0 .. Records

(* The local variables of a run, and of one that has not begun. *)
Run ==
  [cursor : Cursor, pages : Nat, todo : SUBSET Wanted, running : SUBSET Wanted,
   next : Cursor, failed : BOOLEAN]

Idle == [cursor |-> 0, pages |-> 0, todo |-> {}, running |-> {}, next |-> 0, failed |-> FALSE]

TypeOK ==
  /\ lease \in [holder : Workers \cup {NoOne}, live : BOOLEAN, cursor : Cursor]
  /\ pc \in [Workers -> {"idle", "renew", "scan", "handle", "renewAgain", "checkpoint", "release"}]
  /\ run \in [Workers -> Run]
  /\ open \subseteq Findings /\ due \subseteq open /\ left \subseteq Wanted
  /\ lapsed \subseteq Workers
  /\ trouble \in 0 .. MaxTrouble

Init ==
  /\ lease = [holder |-> NoOne, live |-> FALSE, cursor |-> 0]
  /\ pc = [w \in Workers |-> "idle"]
  /\ run = [w \in Workers |-> Idle]
  /\ open \in SUBSET Findings
  /\ due = open
  /\ left = {}
  /\ lapsed = {}
  /\ trouble = 0

Goes(w, step) == pc' = [pc EXCEPT ![w] = step]

GoesWrong ==
  /\ trouble < MaxTrouble
  /\ trouble' = trouble + 1

-----------------------------------------------------------------------------
(* The lease store.  renew() demands an unexpired lease, checkpoint() and  *)
(* release() only one that nobody has taken over.                          *)

Free == lease.holder = NoOne \/ ~lease.live

Holds(w) == lease.holder = w

(* Mutant: checkpoint() asks for some lease, not for the caller's token. *)
MayCheckpointAny(w) == lease.holder # NoOne
MayCheckpoint(w) == Holds(w)

(* Mutant: a takeover starts the sweep again. *)
StoreAcquireAnew(w) == lease' = [holder |-> w, live |-> TRUE, cursor |-> 0]

(* acquire(): the cursor outlives the lease it was stored under. *)
StoreAcquire(w) == lease' = [holder |-> w, live |-> TRUE, cursor |-> lease.cursor]

(* checkpoint(), with its effect on the sweep: without a cursor the sweep is *)
(* over and the next one owes every finding then open.                       *)
StoreCheckpoint(w) ==
  LET cursor == run[w].next
      passed == {f \in due \cap Wanted : cursor = 0 \/ f <= cursor}
  IN IF MayCheckpoint(w)
     THEN /\ lease' = [lease EXCEPT !.cursor = cursor]
          /\ left' = left \cup passed
          /\ due' = IF cursor = 0 THEN open ELSE due
     ELSE UNCHANGED <<lease, left, due>>

(* release() *)
StoreRelease(w) ==
  lease' = IF Holds(w) THEN [lease EXCEPT !.holder = NoOne, !.live = FALSE] ELSE lease

-----------------------------------------------------------------------------
(* runReconciliationWorker() *)

(* acquire(); a run that gets no lease returns at once. *)
Acquire(w) ==
  /\ pc[w] = "idle" /\ Free
  /\ StoreAcquire(w)
  /\ Goes(w, "renew")
  /\ run' = [run EXCEPT ![w] = [Idle EXCEPT !.cursor = lease'.cursor, !.running = run[w].running]]
  /\ lapsed' = lapsed \ {w}
  /\ UNCHANGED <<open, due, left, trouble>>

(* The first renew() of a turn of the loop. *)
Renew(w) ==
  /\ pc[w] = "renew"
  /\ Goes(w, IF Holds(w) /\ lease.live THEN "scan" ELSE "release")
  /\ UNCHANGED <<lease, run, open, due, left, lapsed, trouble>>

(* The ids above the cursor, and the first BatchSize of them. *)
Beyond(cursor) == {f \in open : f > cursor}

Page(cursor) == {f \in Beyond(cursor) : Cardinality({g \in Beyond(cursor) : g < f}) < BatchSize}

Selected(cursor) == Page(cursor) \cap Wanted

(* scan(): reconcileEffectsPage() or reconcileSagasPage(), one keyset page. *)
Scan(w) ==
  /\ pc[w] = "scan"
  /\ LET r == run[w]
         more == Cardinality(Beyond(r.cursor)) > BatchSize
         next == IF more THEN Max(Page(r.cursor)) ELSE 0
     IN run' = [run EXCEPT ![w] = [r EXCEPT !.pages = r.pages + 1,
                                            !.todo = Selected(r.cursor), !.next = next]]
  /\ Goes(w, "handle")
  /\ UNCHANGED <<lease, open, due, left, lapsed, trouble>>

(* boundedMap(): one of its workers takes the next finding. *)
StartHandler(w) ==
  /\ pc[w] = "handle" /\ ~run[w].failed /\ run[w].todo # {}
  /\ Cardinality(run[w].running) < Concurrency
  /\ LET r == run[w]
         f == Min(r.todo)
     IN run' = [run EXCEPT ![w] = [r EXCEPT !.todo = r.todo \ {f}, !.running = r.running \cup {f}]]
  /\ UNCHANGED <<lease, pc, open, due, left, lapsed, trouble>>

(* A handler has reconciled a finding, or only reported it. *)
Handled(w, f) ==
  /\ f \in run[w].running
  /\ run' = [run EXCEPT ![w].running = @ \ {f}]
  /\ due' = due \ {f}
  /\ open' \in {open, open \ {f}}
  /\ UNCHANGED <<lease, pc, left, lapsed, trouble>>

(* A handler rejects. *)
HandlerFails(w, f) ==
  /\ f \in run[w].running
  /\ GoesWrong
  /\ LET r == run[w]
     IN run' = [run EXCEPT ![w] = [r EXCEPT !.running = r.running \ {f}, !.failed = TRUE]]
  /\ UNCHANGED <<lease, pc, open, due, left, lapsed>>

(* The signal is aborted before a handler is called. *)
HandlerAborted(w) ==
  /\ pc[w] = "handle" /\ ~run[w].failed /\ run[w].todo # {}
  /\ Cardinality(run[w].running) < Concurrency
  /\ GoesWrong
  /\ run' = [run EXCEPT ![w].failed = TRUE]
  /\ UNCHANGED <<lease, pc, open, due, left, lapsed>>

(* Mutant: the first rejection ends the page while its siblings run. *)
SettledEarly(w) == run[w].failed \/ (run[w].running = {} /\ run[w].todo = {})

(* Promise.all() of boundedMap(): every started handler has settled. *)
Settled(w) == run[w].running = {} /\ (run[w].failed \/ run[w].todo = {})

HandlersSettle(w) ==
  /\ pc[w] = "handle" /\ Settled(w)
  /\ Goes(w, IF run[w].failed THEN "release" ELSE "renewAgain")
  /\ UNCHANGED <<lease, run, open, due, left, lapsed, trouble>>

(* The renew() after the page's work. *)
RenewAgain(w) ==
  /\ pc[w] = "renewAgain"
  /\ Goes(w, IF Holds(w) /\ lease.live THEN "checkpoint" ELSE "release")
  /\ UNCHANGED <<lease, run, open, due, left, lapsed, trouble>>

Checkpoint(w) ==
  /\ pc[w] = "checkpoint"
  /\ StoreCheckpoint(w)
  /\ run' = [run EXCEPT ![w].cursor = run[w].next]
  /\ Goes(w, IF MayCheckpoint(w) /\ run[w].next # 0 /\ run[w].pages < MaxPages[w]
             THEN "renew" ELSE "release")
  /\ UNCHANGED <<open, lapsed, trouble>>

(* release() in the finally block: the run is over, its handlers are not stopped. *)
Release(w) ==
  /\ pc[w] = "release"
  /\ StoreRelease(w)
  /\ Goes(w, "idle")
  /\ run' = [run EXCEPT ![w] = [Idle EXCEPT !.running = run[w].running]]
  /\ UNCHANGED <<open, due, left, lapsed, trouble>>

-----------------------------------------------------------------------------
(* What goes wrong, and what time and others do. *)

(* The store or the scan rejects, or the signal is aborted. *)
Throw(w) ==
  /\ pc[w] \in {"renew", "scan", "renewAgain", "checkpoint"}
  /\ GoesWrong
  /\ Goes(w, "release")
  /\ UNCHANGED <<lease, run, open, due, left, lapsed>>

(* The answer of a call that took effect is lost. *)
AcquireUnanswered(w) ==
  /\ pc[w] = "idle" /\ Free
  /\ GoesWrong
  /\ StoreAcquire(w)
  /\ UNCHANGED <<pc, run, open, due, left, lapsed>>

CheckpointUnanswered(w) ==
  /\ pc[w] = "checkpoint"
  /\ GoesWrong
  /\ StoreCheckpoint(w)
  /\ Goes(w, "release")
  /\ UNCHANGED <<run, open, lapsed>>

(* release() rejects, or the process dies with all it had started. *)
Stop(w) ==
  /\ pc[w] # "idle"
  /\ GoesWrong
  /\ Goes(w, "idle")
  /\ run' = [run EXCEPT ![w] = Idle]
  /\ UNCHANGED <<lease, open, due, left, lapsed>>

(* The lease of a run passes its expiry. *)
Lapse(w) ==
  /\ Holds(w) /\ lease.live /\ pc[w] # "idle"
  /\ GoesWrong
  /\ lease' = [lease EXCEPT !.live = FALSE]
  /\ lapsed' = lapsed \cup {w}
  /\ UNCHANGED <<pc, run, open, due, left>>

(* So does one no run renews any more. *)
Expire(w) ==
  /\ Holds(w) /\ lease.live /\ pc[w] = "idle"
  /\ lease' = [lease EXCEPT !.live = FALSE]
  /\ UNCHANGED <<pc, run, open, due, left, lapsed, trouble>>

(* A record becomes stale enough to be found, or is settled by others. *)
Appear(f) ==
  /\ f \notin open
  /\ open' = open \cup {f}
  /\ UNCHANGED <<lease, pc, run, due, left, lapsed, trouble>>

Vanish(f) ==
  /\ f \in open
  /\ open' = open \ {f}
  /\ due' = due \ {f}
  /\ UNCHANGED <<lease, pc, run, left, lapsed, trouble>>

-----------------------------------------------------------------------------
Step(w) ==
  \/ Renew(w) \/ Scan(w) \/ StartHandler(w) \/ HandlersSettle(w)
  \/ RenewAgain(w) \/ Checkpoint(w) \/ Release(w)
  \/ \E f \in Wanted : Handled(w, f)

Next ==
  \/ \E w \in Workers :
       \/ Acquire(w) \/ Step(w) \/ HandlerAborted(w) \/ Throw(w) \/ AcquireUnanswered(w)
       \/ CheckpointUnanswered(w) \/ Stop(w) \/ Lapse(w) \/ Expire(w)
       \/ \E f \in Wanted : HandlerFails(w, f)
  \/ \E f \in Findings : Appear(f) \/ Vanish(f)

Spec == Init /\ [][Next]_vars

(* Calls are answered and handlers settle; the worker is run again and     *)
(* again; an expiry passes.  Not assumed of anything that goes wrong.      *)
Fairness ==
  /\ \A w \in Workers : WF_vars(Step(w)) /\ WF_vars(Expire(w))
  /\ WF_vars(\E w \in Workers : Acquire(w))

FairSpec == Spec /\ Fairness

-----------------------------------------------------------------------------
(* The cursor never passes, and a sweep never ends without, a finding that *)
(* was open during the whole sweep and that no handler of the sweep has    *)
(* handled, whichever processes shared the sweep (the checkpoint follows   *)
(* the handlers, and only the lease's token may store it).                 *)
NothingIsLeft == left = {}

(* While a handler runs, the lease is its run's, or lapsed during the run: *)
(* no run gives the lease away before its handlers settle (the comment at  *)
(* the end of boundedMap()).                                               *)
HandlersHoldTheLease ==
  \A w \in Workers : run[w].running # {} => Holds(w) \/ w \in lapsed

(* Every finding the sweep owes is handled in it, or settled otherwise:    *)
(* runs that end at maxPages, fail or die are continued where they stopped.*)
SweepsFinish == \A f \in Wanted : f \in due ~> f \notin due
=============================================================================
