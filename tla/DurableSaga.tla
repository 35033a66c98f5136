----------------------------- MODULE DurableSaga -----------------------------
(***************************************************************************)
(* The durable saga engine of packages/core/src/durable-saga.ts, with the  *)
(* parts of packages/core/src/effect-scope.ts that order its transitions:  *)
(* one stored saga, and every call - execute, resume, compensate, from any *)
(* number of processes - that works on it.                                 *)
(*                                                                         *)
(* A call is a sequence of store operations with user code between them.   *)
(* Each action serves one get() or compareAndSet() and runs the call up to *)
(* its next one; pc names the operation the call waits for.  Calls are     *)
(* named by the owner id withFreshOwner() draws for them.                  *)
(*                                                                         *)
(* A record's version grows with every write, so a compareAndSet succeeds  *)
(* exactly when nobody wrote since the call read or wrote its copy.  That  *)
(* is what is kept of versions: `fresh` holds the calls whose copy is      *)
(* current, and a current copy is the stored record itself.                *)
(*                                                                         *)
(* The provider's side is kept too: which effects have landed, and which   *)
(* have been undone.                                                       *)
(***************************************************************************)
EXTENDS Naturals, FiniteSets

CONSTANTS
  Calls,       \* calls that can be under way at a time
  NoOwner,     \* SagaRecord.owner = undefined
  Steps,       \* how many steps definition.run() takes, in order
  Retired,     \* steps whose compensator some deploys do not have
  Fallbacks,   \* whether run() catches a step's error and goes on
  MaxAttempts, \* definition.retry.maxAttempts
  LeaseMs,     \* SagaEngineOptions.leaseMs, in ticks
  MaxBackoff,  \* bound: the longest retry delay, in ticks
  MaxCrashes,  \* bound: calls whose process dies
  MaxFailures, \* bound: store operations that throw
  MaxAborts    \* bound: calls whose signal fires

Step == 1..Steps

ASSUME CallsAssumption == NoOwner \notin Calls
ASSUME StepsAssumption == Steps \in Nat
ASSUME RetiredAssumption == Retired \subseteq Step
ASSUME FallbacksAssumption == Fallbacks \in BOOLEAN
ASSUME MaxAttemptsAssumption == MaxAttempts \in Nat \ {0}
ASSUME LeaseMsAssumption == LeaseMs \in Nat \ {0}
ASSUME SagaBoundsAssumption ==
  MaxBackoff \in Nat /\ MaxCrashes \in Nat /\ MaxFailures \in Nat /\ MaxAborts \in Nat

VARIABLES
  state,    \* SagaRecord.state, "absent" before create()
  owner,    \* SagaRecord.owner
  left,     \* SagaRecord.leaseUntil - now, 0 once it has passed
  step,     \* SagaStepRecord.state of each step, "none" before its intent
  attempts, \* SagaStepRecord.attempts
  next,     \* SagaStepRecord.nextAttemptAt - now
  pc,       \* what each call does or waits for
  at,       \* the step it is at
  fresh,    \* calls whose copy of the record has the stored version
  aborted,  \* calls whose signal has fired
  landed,   \* provider: steps whose effect has taken place
  undone,   \* provider: steps whose compensation has taken place
  begun,    \* history: how often each step's execute() was called
  undos,    \* history: how often each step's compensator was called
  crashes, failures, aborts

record == <<state, owner, left, step, attempts, next>>
provider == <<landed, undone, begun, undos>>
vars == <<record, pc, at, fresh, aborted, provider, crashes, failures, aborts>>

SagaState == {"absent", "running", "compensating", "completed", "compensated",
              "manual-review"}
Terminal == {"completed", "compensated"}
StepState == {"none", "executing", "committed", "failed", "ambiguous",
              "compensating", "compensation-failed", "compensated"}
(* States in which nobody knows whether an effect has landed. *)
Unfinished == {"executing", "ambiguous", "compensating"}

(* How a step's execution failed: conclusively without an effect, with an
   unknown outcome, or because the saga was taken over. *)
Why == {"known", "unknown", "conflict"}
FailAt == [known |-> "failKnown", unknown |-> "failUnknown",
           conflict |-> "failConflict"]
FailSaveAt == [known |-> "saveKnown", unknown |-> "saveUnknown",
               conflict |-> "saveConflict"]
(* What the step then throws: a SagaConcurrencyError, or another error. *)
Threw(w) == IF w = "conflict" THEN "conflicted" ELSE "threw"

Label ==
  {"idle", "load", "claim", "run", "review", "intent", "intended", "executing",
   "commit", "commitSave", "failKnown", "failUnknown", "failConflict",
   "saveKnown", "saveUnknown", "saveConflict", "threw", "conflicted",
   "returned", "completeSave", "caught", "compLoad", "compClaim", "compCheck",
   "undo", "undoing", "undone", "undoFailed", "undoInvalid", "release",
   "releaseSave"}

TypeOK ==
  /\ state \in SagaState
  /\ owner \in Calls \cup {NoOwner}
  /\ left \in 0..LeaseMs
  /\ step \in [Step -> StepState]
  /\ attempts \in [Step -> Nat]
  /\ next \in [Step -> 0..MaxBackoff]
  /\ pc \in [Calls -> Label]
  /\ at \in [Calls -> 0..Steps]
  /\ fresh \subseteq Calls
  /\ aborted \subseteq Calls
  /\ landed \subseteq Step
  /\ undone \subseteq Step
  /\ begun \in [Step -> Nat]
  /\ undos \in [Step -> Nat]
  /\ crashes \in 0..MaxCrashes
  /\ failures \in 0..MaxFailures
  /\ aborts \in 0..MaxAborts

Init ==
  /\ state = "absent"
  /\ owner = NoOwner
  /\ left = 0
  /\ step = [s \in Step |-> "none"]
  /\ attempts = [s \in Step |-> 0]
  /\ next = [s \in Step |-> 0]
  /\ pc = [c \in Calls |-> "idle"]
  /\ at = [c \in Calls |-> 0]
  /\ fresh = {}
  /\ aborted = {}
  /\ landed = {} /\ undone = {}
  /\ begun = [s \in Step |-> 0]
  /\ undos = [s \in Step |-> 0]
  /\ crashes = 0 /\ failures = 0 /\ aborts = 0

-----------------------------------------------------------------------------
(* Store operations *)

Goto(c, l) == pc' = [pc EXCEPT ![c] = l]

(* load(): the call reads the record and goes on to `then`, or the store
   throws and it goes on to `broke`. *)
Get(c, then, broke) ==
  /\ \/ Goto(c, then) /\ fresh' = fresh \cup {c} /\ UNCHANGED failures
     \/ /\ failures < MaxFailures
        /\ failures' = failures + 1
        /\ Goto(c, broke)
        /\ UNCHANGED fresh
  /\ UNCHANGED <<record, aborted, provider, crashes, aborts>>

(* What a transition writes, apart from the lease. *)
ToState(st) == state' = st /\ UNCHANGED <<owner, step, attempts, next>>
ToOwner(o) == owner' = o /\ UNCHANGED <<state, step, attempts, next>>
ToStep(s, stepState, n, delay, st) ==
  /\ step' = [step EXCEPT ![s] = stepState]
  /\ attempts' = [attempts EXCEPT ![s] = n]
  /\ next' = [next EXCEPT ![s] = delay]
  /\ state' = st
  /\ UNCHANGED owner

(* Every transition of an owned record renews its lease. *)
Renewed == left' = IF owner' = NoOwner THEN 0 ELSE LeaseMs

(* save(): the compareAndSet is accepted, or refused because the record
   has moved on, or throws - having written or not. *)

(* Mutant: an unconditional write. *)
SaveAnyway(c, write, done, lost, broke) ==
  /\ write /\ Renewed /\ fresh' = {c} /\ Goto(c, done)
  /\ UNCHANGED <<failures, aborted, crashes, aborts>>
Save(c, write, done, lost, broke) ==
  /\ \/ /\ c \in fresh
        /\ write /\ Renewed /\ fresh' = {c}
        /\ Goto(c, done)
        /\ UNCHANGED failures
     \/ /\ c \notin fresh
        /\ UNCHANGED <<record, fresh, failures>>
        /\ Goto(c, lost)
     \/ /\ failures < MaxFailures
        /\ failures' = failures + 1
        /\ Goto(c, broke)
        /\ \/ UNCHANGED <<record, fresh>>
           \/ c \in fresh /\ write /\ Renewed /\ fresh' = {}
  /\ UNCHANGED <<aborted, crashes, aborts>>

-----------------------------------------------------------------------------
(* execute(), and the start of resume() and compensate() *)

(* create() accepts the saga; the same call goes on to resume it. *)
Create(c) ==
  /\ pc[c] = "idle"
  /\ state = "absent"
  /\ state' = "running"
  /\ Goto(c, "load")
  /\ UNCHANGED <<owner, left, step, attempts, next, at, fresh, aborted, provider,
                 crashes, failures, aborts>>

(* resume() starts at "load", compensate() at "compLoad".  An id whose
   lease is still stored is not drawn again. *)
Call(c, entry) ==
  /\ pc[c] = "idle"
  /\ owner # c
  /\ state # "absent"
  /\ Goto(c, entry)
  /\ UNCHANGED <<record, at, fresh, aborted, provider, crashes, failures, aborts>>

(* Mutant: a lapsed lease keeps others out. *)
ClaimableIfFree == owner = NoOwner
Claimable == owner = NoOwner \/ left = 0

(* resumeOwned() up to the claim. *)
Load(c) ==
  /\ pc[c] = "load"
  /\ UNCHANGED at
  /\ IF c \in aborted
     THEN /\ Goto(c, "release")
          /\ UNCHANGED <<record, fresh, aborted, provider, crashes, failures, aborts>>
     ELSE Get(c, IF state = "running" /\ Claimable THEN "claim" ELSE "release",
              "release")

Claim(c) ==
  /\ pc[c] = "claim"
  /\ Save(c, ToOwner(c), IF c \in aborted THEN "caught" ELSE "run",
          "release", "release")
  /\ UNCHANGED <<at, provider>>

-----------------------------------------------------------------------------
(* definition.run() and context.step() *)

(* The next step is called: what loadOwned() finds decides. *)

(* Mutant: an execution in doubt is started again. *)
StepOutcomeRetries(c, s) ==
  IF owner # c \/ state # "running" THEN "conflicted"
  ELSE IF step[s] = "committed" THEN "run"
  ELSE IF step[s] \in {"none", "executing", "ambiguous"} THEN "intent"
  ELSE "threw"
StepOutcome(c, s) ==
  IF owner # c \/ state # "running" THEN "conflicted"
  ELSE IF step[s] = "committed" THEN "run"
  ELSE IF step[s] = "none" THEN "intent"
  ELSE IF step[s] \in {"executing", "ambiguous"} THEN "review"
  ELSE "threw"

(* A fired signal, or a step that the call's deploy has no compensator for,
   makes it throw before the record is read. *)
StepCalled(c) ==
  /\ pc[c] = "run"
  /\ at[c] < Steps
  /\ at' = [at EXCEPT ![c] = @ + 1]
  /\ \/ /\ c \notin aborted
        /\ Get(c, StepOutcome(c, at[c] + 1), "threw")
     \/ /\ c \in aborted \/ at[c] + 1 \in Retired
        /\ Goto(c, "threw")
        /\ UNCHANGED <<record, fresh, aborted, provider, crashes, failures, aborts>>

(* run() throws of its own accord. *)
RunThrows(c) ==
  /\ pc[c] = "run"
  /\ Goto(c, "caught")
  /\ UNCHANGED <<record, at, fresh, aborted, provider, crashes, failures, aborts>>

RunReturns(c) ==
  /\ pc[c] = "run"
  /\ at[c] = Steps
  /\ Goto(c, "returned")
  /\ UNCHANGED <<record, at, fresh, aborted, provider, crashes, failures, aborts>>

(* An execution in doubt stops the saga until someone reviews it. *)
Review(c) ==
  /\ pc[c] = "review"
  /\ Save(c, ToState("manual-review"), "threw", "conflicted", "threw")
  /\ UNCHANGED <<at, provider>>

(* transitions.intent(): the step is on record before it runs. *)
Intent(c) ==
  /\ pc[c] = "intent"
  /\ Save(c, ToStep(at[c], "executing", 0, 0, state),
          "intended", "conflicted", "failKnown")
  /\ UNCHANGED <<at, provider>>

Execute(c) ==
  /\ pc[c] = "intended"
  /\ IF c \in aborted
     THEN Goto(c, "failKnown") /\ UNCHANGED begun
     ELSE Goto(c, "executing") /\ begun' = [begun EXCEPT ![at[c]] = @ + 1]
  /\ UNCHANGED <<record, at, fresh, aborted, landed, undone, undos, crashes,
                 failures, aborts>>

(* The effect takes place at the provider. *)
Land(c) ==
  /\ pc[c] = "executing"
  /\ at[c] \notin landed
  /\ landed' = landed \cup {at[c]}
  /\ UNCHANGED <<record, pc, at, fresh, aborted, undone, begun, undos, crashes,
                 failures, aborts>>

(* execute() returns; or throws SagaStepNotCommittedError, which promises
   that nothing landed; or throws anything else. *)
Executed(c) ==
  /\ pc[c] = "executing"
  /\ \/ at[c] \in landed /\ Goto(c, "commit")
     \/ at[c] \notin landed /\ Goto(c, "failKnown")
     \/ Goto(c, "failUnknown")
  /\ UNCHANGED <<record, at, fresh, aborted, provider, crashes, failures, aborts>>

(* transitions.committed() *)
Commit(c) ==
  /\ pc[c] = "commit"
  /\ UNCHANGED at
  /\ Get(c, IF owner = c THEN "commitSave" ELSE "failConflict", "failUnknown")

CommitSave(c) ==
  /\ pc[c] = "commitSave"
  /\ Save(c, ToStep(at[c], "committed", attempts[at[c]], next[at[c]], state),
          "run", "failConflict", "failUnknown")
  /\ UNCHANGED <<at, provider>>

(* transitions.failed(), whose own errors are swallowed. *)
Fail(c) ==
  \E w \in Why :
    /\ pc[c] = FailAt[w]
    /\ UNCHANGED at
    /\ Get(c, IF owner = c /\ step[at[c]] # "none" THEN FailSaveAt[w] ELSE Threw(w),
           Threw(w))

FailSave(c) ==
  \E w \in Why :
    /\ pc[c] = FailSaveAt[w]
    /\ Save(c, ToStep(at[c], IF w = "known" THEN "failed" ELSE "ambiguous",
                      attempts[at[c]], next[at[c]],
                      IF w = "known" THEN "compensating" ELSE "manual-review"),
            Threw(w), Threw(w), Threw(w))
    /\ UNCHANGED <<at, provider>>

(* run() passes the error on, or catches it and goes on without the step. *)
RunRejects(c) ==
  /\ \/ pc[c] = "threw" /\ Goto(c, "caught")
     \/ pc[c] = "conflicted" /\ Goto(c, "release")
     \/ Fallbacks /\ pc[c] \in {"threw", "conflicted"} /\ Goto(c, "run")
  /\ UNCHANGED <<record, at, fresh, aborted, provider, crashes, failures, aborts>>

-----------------------------------------------------------------------------
(* The end of resumeOwned() *)

Returned(c) ==
  /\ pc[c] = "returned"
  /\ UNCHANGED at
  /\ Get(c, IF owner = c /\ state = "running" THEN "completeSave" ELSE "release",
         "caught")

CompleteSave(c) ==
  /\ pc[c] = "completeSave"
  /\ Save(c, ToState("completed"), "release", "release", "caught")
  /\ UNCHANGED <<at, provider>>

(* The catch: roll back, unless the saga is in review or somebody else's. *)
Caught(c) ==
  /\ pc[c] = "caught"
  /\ UNCHANGED at
  /\ Get(c, IF state = "manual-review" \/ owner # c THEN "release" ELSE "compLoad",
         "release")

-----------------------------------------------------------------------------
(* compensateOwned() *)

CompLoad(c) ==
  /\ pc[c] = "compLoad"
  /\ UNCHANGED at
  /\ IF c \in aborted
     THEN /\ Goto(c, "release")
          /\ UNCHANGED <<record, fresh, aborted, provider, crashes, failures, aborts>>
     ELSE Get(c, IF state \in Terminal THEN "release"
                 ELSE IF owner = c THEN "compCheck"
                 ELSE IF Claimable THEN "compClaim"
                 ELSE "release",
              "release")

CompClaim(c) ==
  /\ pc[c] = "compClaim"
  /\ Save(c, ToOwner(c), "compCheck", "release", "release")
  /\ UNCHANGED <<at, provider>>

(* A call that works on an outdated copy cannot write any more. *)
Overtaken(c) ==
  /\ pc[c] \in {"compCheck", "undo", "undoFailed"}
  /\ c \notin fresh
  /\ Goto(c, "release")
  /\ UNCHANGED <<record, at, fresh, aborted, provider, crashes, failures, aborts>>

(* Mutant: an executing step is taken for one that never ran. *)
InDoubtButExecuting == \E s \in Step : step[s] \in {"ambiguous", "compensating"}
InDoubt == \E s \in Step : step[s] \in Unfinished

CompCheck(c) ==
  /\ pc[c] = "compCheck"
  /\ c \in fresh
  /\ IF InDoubt
     THEN IF state = "manual-review"
          THEN Goto(c, "release") /\ UNCHANGED <<record, fresh, aborted, crashes,
                                                 failures, aborts>>
          ELSE Save(c, ToState("manual-review"), "release", "release", "release")
     ELSE IF state = "compensating"
          THEN Goto(c, "undo") /\ UNCHANGED <<record, fresh, aborted, crashes,
                                              failures, aborts>>
          ELSE Save(c, ToState("compensating"), "undo", "release", "release")
  /\ UNCHANGED <<at, provider>>

(* The loop over the steps, last one first. *)
ToUndo == {s \in Step : step[s] \in {"committed", "compensation-failed"}}

(* Mutant: first one first. *)
IsNextToUndoFirst(s) == s \in ToUndo /\ \A t \in ToUndo : s <= t
IsNextToUndo(s) == s \in ToUndo /\ \A t \in ToUndo : t <= s

(* Mutant: one attempt too many. *)
ExhaustedLate(s) == attempts[s] > MaxAttempts
Exhausted(s) == attempts[s] >= MaxAttempts

UndoneAll(c) ==
  /\ pc[c] = "undo" /\ c \in fresh
  /\ ToUndo = {}
  /\ Save(c, ToState("compensated"), "release", "release", "release")
  /\ UNCHANGED <<at, provider>>

(* A fired signal ends the call before the next recorded step, or - if it
   fires once the effect scope has been entered - as a failed attempt. *)
UndoAborted(c) ==
  /\ pc[c] = "undo" /\ c \in fresh
  /\ c \in aborted
  /\ \E s \in Step :
       \/ step[s] # "none" /\ Goto(c, "release") /\ UNCHANGED at
       \/ /\ IsNextToUndo(s) /\ next[s] = 0 /\ ~Exhausted(s)
          /\ Goto(c, "undoFailed")
          /\ at' = [at EXCEPT ![c] = s]
  /\ UNCHANGED <<record, fresh, aborted, provider, crashes, failures, aborts>>

(* The step's retry is not due yet. *)
UndoLater(c) ==
  /\ pc[c] = "undo" /\ c \in fresh /\ c \notin aborted
  /\ \E s \in Step : IsNextToUndo(s) /\ next[s] > 0
  /\ Goto(c, "release")
  /\ UNCHANGED <<record, at, fresh, aborted, provider, crashes, failures, aborts>>

(* The step has no compensator any more, or no attempt left. *)
UndoGivesUp(c) ==
  /\ pc[c] = "undo" /\ c \in fresh /\ c \notin aborted
  /\ \E s \in Step :
       IsNextToUndo(s) /\ next[s] = 0 /\ (s \in Retired \/ Exhausted(s))
  /\ Save(c, ToState("manual-review"), "release", "release", "release")
  /\ UNCHANGED <<at, provider>>

(* transitions.executing(), after which the compensator is called. *)
UndoStarts(c) ==
  /\ pc[c] = "undo" /\ c \in fresh /\ c \notin aborted
  /\ \E s \in Step :
       /\ IsNextToUndo(s) /\ next[s] = 0 /\ ~Exhausted(s)
       /\ at' = [at EXCEPT ![c] = s]
       /\ Save(c, ToStep(s, "compensating", attempts[s] + 1, 0, state),
               "undoing", "release", "undoFailed")
       /\ undos' = IF pc'[c] = "undoing" THEN [undos EXCEPT ![s] = @ + 1] ELSE undos
  /\ UNCHANGED <<landed, undone, begun>>

(* The compensation takes place at the provider. *)
UndoLands(c) ==
  /\ pc[c] = "undoing"
  /\ at[c] \notin undone
  /\ undone' = undone \cup {at[c]}
  /\ UNCHANGED <<record, pc, at, fresh, aborted, landed, begun, undos, crashes,
                 failures, aborts>>

Undid(c) ==
  /\ pc[c] = "undoing"
  /\ \/ at[c] \in undone /\ Goto(c, "undone")
     \/ Goto(c, "undoFailed")
  /\ UNCHANGED <<record, at, fresh, aborted, provider, crashes, failures, aborts>>

(* transitions.committed() *)
UndoneSave(c) ==
  /\ pc[c] = "undone"
  /\ Save(c, ToStep(at[c], "compensated", attempts[at[c]], next[at[c]], state),
          "undo", "undoFailed", "undoFailed")
  /\ UNCHANGED <<at, provider>>

(* transitions.failed(): the attempt counts even if it never began. *)
Attempt(s) == IF step[s] = "compensating" THEN attempts[s] ELSE attempts[s] + 1

UndoFailedSave(c) ==
  /\ pc[c] = "undoFailed" /\ c \in fresh
  /\ IF Attempt(at[c]) >= MaxAttempts
     THEN Save(c, ToStep(at[c], "compensation-failed", Attempt(at[c]), 0, "manual-review"),
               "release", "release", "undoInvalid")
     ELSE \E d \in 0..MaxBackoff :
            Save(c, ToStep(at[c], "compensation-failed", Attempt(at[c]), d, "compensating"),
                 "release", "release", "undoInvalid")
  /\ UNCHANGED <<at, provider>>

(* A backoff that returns no delay, like a store that throws, leaves the
   step to a reviewer. *)
BackoffInvalid(c) ==
  /\ pc[c] = "undoFailed" /\ c \in fresh
  /\ Attempt(at[c]) < MaxAttempts
  /\ Goto(c, "undoInvalid")
  /\ UNCHANGED <<record, at, fresh, aborted, provider, crashes, failures, aborts>>

UndoInvalidSave(c) ==
  /\ pc[c] = "undoInvalid"
  /\ Save(c, ToStep(at[c], "compensation-failed", Attempt(at[c]), 0, "manual-review"),
          "release", "release", "release")
  /\ UNCHANGED <<at, provider>>

-----------------------------------------------------------------------------
(* release(), whose errors are swallowed *)

Ended(c) ==
  /\ Goto(c, "idle")
  /\ at' = [at EXCEPT ![c] = 0]
  /\ aborted' = aborted \ {c}

Release(c) ==
  /\ pc[c] = "release"
  /\ \/ /\ owner # c
        /\ Ended(c) /\ fresh' = fresh \ {c} /\ UNCHANGED failures
     \/ /\ owner = c
        /\ Goto(c, "releaseSave") /\ fresh' = fresh \cup {c}
        /\ UNCHANGED <<at, aborted, failures>>
     \/ /\ failures < MaxFailures
        /\ failures' = failures + 1
        /\ Ended(c) /\ fresh' = fresh \ {c}
  /\ UNCHANGED <<record, provider, crashes, aborts>>

ReleaseSave(c) ==
  /\ pc[c] = "releaseSave"
  /\ Ended(c)
  /\ \/ c \in fresh /\ ToOwner(NoOwner) /\ Renewed /\ fresh' = {} /\ UNCHANGED failures
     \/ c \notin fresh /\ UNCHANGED <<record, fresh, failures>>
     \/ /\ failures < MaxFailures
        /\ failures' = failures + 1
        /\ \/ fresh' = fresh \ {c} /\ UNCHANGED record
           \/ c \in fresh /\ ToOwner(NoOwner) /\ Renewed /\ fresh' = {}
  /\ UNCHANGED <<provider, crashes, aborts>>

-----------------------------------------------------------------------------
(* resolveAmbiguity(): a reviewer writes down what the provider confirms,
   once nothing is on its way to the provider any more. *)

OnItsWay(s) ==
  \E c \in Calls : at[c] = s /\ pc[c] \in {"intended", "executing", "undoing"}

Resolve(s) ==
  /\ ~OnItsWay(s)
  /\ \/ /\ step[s] \in {"executing", "ambiguous"}
        /\ IF s \in landed
           THEN ToStep(s, "committed", attempts[s], next[s], "running")
           ELSE ToStep(s, "failed", attempts[s], next[s], "compensating")
     \/ /\ step[s] = "compensating"
        /\ IF s \in undone
           THEN ToStep(s, "compensated", attempts[s], 0, "compensating")
           ELSE ToStep(s, "compensation-failed", attempts[s], 0,
                       IF Exhausted(s) THEN "manual-review" ELSE "compensating")
  /\ Renewed
  /\ fresh' = {}
  /\ UNCHANGED <<pc, at, aborted, provider, crashes, failures, aborts>>

(* The surroundings: signals fire, processes die, time passes. *)

Abort(c) ==
  /\ pc[c] # "idle"
  /\ c \notin aborted
  /\ aborts < MaxAborts
  /\ aborts' = aborts + 1
  /\ aborted' = aborted \cup {c}
  /\ UNCHANGED <<record, pc, at, fresh, provider, crashes, failures>>

Crash(c) ==
  /\ pc[c] # "idle"
  /\ crashes < MaxCrashes
  /\ crashes' = crashes + 1
  /\ Ended(c)
  /\ fresh' = fresh \ {c}
  /\ UNCHANGED <<record, provider, failures, aborts>>

Tick ==
  /\ left > 0 \/ \E s \in Step : next[s] > 0
  /\ left' = IF left > 0 THEN left - 1 ELSE 0
  /\ next' = [s \in Step |-> IF next[s] > 0 THEN next[s] - 1 ELSE 0]
  /\ UNCHANGED <<state, owner, step, attempts, pc, at, fresh, aborted, provider,
                 crashes, failures, aborts>>

-----------------------------------------------------------------------------
(* What a call does on its own once it has been made. *)
Proceeds(c) ==
  \/ Load(c) \/ Claim(c)
  \/ StepCalled(c) \/ RunReturns(c) \/ Review(c)
  \/ Intent(c) \/ Execute(c) \/ Executed(c) \/ Commit(c) \/ CommitSave(c)
  \/ Fail(c) \/ FailSave(c) \/ RunRejects(c)
  \/ Returned(c) \/ CompleteSave(c) \/ Caught(c)
  \/ CompLoad(c) \/ CompClaim(c) \/ Overtaken(c) \/ CompCheck(c)
  \/ UndoneAll(c) \/ UndoAborted(c) \/ UndoLater(c) \/ UndoGivesUp(c)
  \/ UndoStarts(c) \/ Undid(c) \/ UndoneSave(c)
  \/ UndoFailedSave(c) \/ BackoffInvalid(c) \/ UndoInvalidSave(c)
  \/ Release(c) \/ ReleaseSave(c)

Resumes == \E c \in Calls : Call(c, "load")
Compensates == \E c \in Calls : Call(c, "compLoad")

Next ==
  \/ \E c \in Calls :
       \/ Create(c)
       \/ Proceeds(c)
       \/ RunThrows(c) \/ Land(c) \/ UndoLands(c)
       \/ Abort(c) \/ Crash(c)
  \/ Resumes \/ Compensates
  \/ \E s \in Step : Resolve(s)
  \/ Tick

Spec == Init /\ [][Next]_vars

(* User code returns or throws, the store answers, and somebody keeps
   calling resume() for a running saga and compensate() for one that is
   rolling back, as reconcileSagas() asks for.  A reviewer need not act.
   In the end no step outlasts the lease, which is what leaseMs is for:
   "longer than any one step should run". *)
Lapses == \E c \in Calls : owner = c /\ pc[c] # "idle" /\ left = 1 /\ left' = 0

Fairness ==
  /\ \A c \in Calls : WF_vars(Proceeds(c))
  /\ SF_vars(state = "running" /\ Resumes)
  /\ SF_vars(state = "compensating" /\ Compensates)
  /\ WF_vars(Tick)
  /\ <>[][~Lapses]_vars

FairSpec == Spec /\ Fairness

-----------------------------------------------------------------------------
(* Properties *)

(* An effect is never started twice: whatever crashes, lapses or throws, a
   step that may have run is never executed again, only reviewed. *)
NeverExecutedTwice == \A s \in Step : begun[s] <= 1

(* Two calls never have user code at the provider at the same time, not
   even when a call that lost its lease is still running its step - as long
   as run() passes the errors of its steps on.  One that catches them may
   go past a step it could not read, or could not put under review. *)
AtMostOneHandler ==
  ~Fallbacks =>
    \A c, d \in Calls :
      (/\ pc[c] \in {"executing", "undoing"}
       /\ pc[d] \in {"executing", "undoing"}) => c = d

(* retry.maxAttempts bounds how often a step's compensator is called, over
   all calls, crashes and reviews together. *)
CompensationsBounded == \A s \in Step : undos[s] <= MaxAttempts

(* The states reconcileSagasPage() scans. *)
Scanned == {"running", "compensating", "manual-review"}

(* "Reconciliation sees the unfinished durable state"
   (packages/core/src/effect-scope.ts:255): a saga with an effect in doubt
   is in a state reconcileSagasPage() scans, even if the store throws as the
   doubt is written down - as long as run() passes the errors of its steps
   on.  One that catches them may return and complete the saga over it. *)
UnfinishedIsScanned == (\E s \in Step : step[s] \in Unfinished) => state \in Scanned

(* "A second call while the lease is live ... changes nothing", and "once
   another call took it over, `owner` must stop writing": a step of call c
   that writes the record finds c its owner, or takes over a saga that has
   none or whose lease has lapsed. *)
OnlyTheOwnerWrites ==
  [][\A c \in Calls : (pc'[c] # pc[c] /\ record' # record /\ state # "absent")
        => \/ owner = c
           \/ (owner = NoOwner \/ left = 0) /\ owner' = c]_vars

(* The saga as its caller sees it. *)
Outcome == INSTANCE SagaOutcome
Implements == Outcome!Spec

(* With somebody calling, a saga does not stay running or compensating: it
   completes, is rolled back, or waits for a reviewer. *)
SagaSettles ==
  state \in {"running", "compensating"} ~>
    state \in {"completed", "compensated", "manual-review"}
=============================================================================
