------------------------- MODULE DurableSaga_proofs -------------------------
(***************************************************************************)
(* Proofs about DurableSaga for every number of calls and steps, every     *)
(* lease and every bound on crashes, store errors and signals.             *)
(*                                                                         *)
(* What a step of one call may do to another is said once, in Overtakes:   *)
(* it leaves the other's copy of the record current only if it wrote       *)
(* nothing.  The invariants are then proved action by action for the call  *)
(* that moves, and carried over for the others: Once, Bounded and Owned    *)
(* about the effects and the writes; OneActive, that one call at most is   *)
(* at a step; and InStep, that the record is true of the provider, from    *)
(* which the refinement of SagaOutcome follows.                            *)
(***************************************************************************)
EXTENDS DurableSaga, TLAPS

(* What a call may do: the parts of Next that are about one call. *)
Acts(c) ==
  \/ Create(c) \/ Call(c, "load") \/ Call(c, "compLoad")
  \/ Proceeds(c) \/ RunThrows(c) \/ Land(c) \/ UndoLands(c)
  \/ Abort(c) \/ Crash(c)

(* Its steps that touch nothing but the call or the provider, *)
Moves(c) ==
  \/ Call(c, "load") \/ Call(c, "compLoad")
  \/ RunThrows(c) \/ RunReturns(c) \/ RunRejects(c)
  \/ Execute(c) \/ Land(c) \/ Executed(c)
  \/ Overtaken(c) \/ UndoAborted(c) \/ UndoLater(c)
  \/ UndoLands(c) \/ Undid(c) \/ BackoffInvalid(c)
  \/ Abort(c) \/ Crash(c)

(* those that read the record, *)
Reads(c) ==
  \/ Load(c) \/ StepCalled(c) \/ Commit(c) \/ Fail(c)
  \/ Returned(c) \/ Caught(c) \/ CompLoad(c) \/ Release(c)

(* and those that write it: its state or owner, or one of its steps. *)
WritesState(c) ==
  \/ Claim(c) \/ Review(c) \/ CompleteSave(c) \/ CompClaim(c) \/ CompCheck(c)
  \/ UndoneAll(c) \/ UndoGivesUp(c) \/ ReleaseSave(c)
WritesStep(c) ==
  \/ Intent(c) \/ CommitSave(c) \/ FailSave(c) \/ UndoStarts(c) \/ UndoneSave(c)
  \/ UndoFailedSave(c) \/ UndoInvalidSave(c)

(* These are all the steps there are. *)
LEMMA ActsSplit ==
  ASSUME NEW c \in Calls, Acts(c)
  PROVE  Create(c) \/ Moves(c) \/ Reads(c) \/ WritesState(c) \/ WritesStep(c)
BY DEF Acts, Proceeds, Moves, Reads, WritesState, WritesStep

(* A step is some call's, a reviewer's, the clock's, or none. *)
LEMMA NextSplit ==
  ASSUME [Next]_vars
  PROVE  \/ \E c \in Calls : Acts(c)
         \/ \E s \in Step : Resolve(s)
         \/ Tick
         \/ UNCHANGED vars
BY DEF Next, Acts, Resumes, Compensates

-----------------------------------------------------------------------------
(* Type correctness, part by part *)

RecordTypes ==
  /\ state \in SagaState
  /\ owner \in Calls \cup {NoOwner}
  /\ left \in 0..LeaseMs
  /\ step \in [Step -> StepState]
  /\ attempts \in [Step -> Nat]
  /\ next \in [Step -> 0..MaxBackoff]

CallTypes ==
  /\ pc \in [Calls -> Label]
  /\ at \in [Calls -> 0..Steps]
  /\ fresh \subseteq Calls
  /\ aborted \subseteq Calls

ProviderTypes ==
  /\ landed \subseteq Step
  /\ undone \subseteq Step
  /\ begun \in [Step -> Nat]
  /\ undos \in [Step -> Nat]

BoundTypes ==
  /\ crashes \in 0..MaxCrashes
  /\ failures \in 0..MaxFailures
  /\ aborts \in 0..MaxAborts

(* The type invariant is the conjunction of these parts. *)
LEMMA TypeParts ==
  TypeOK <=> RecordTypes /\ CallTypes /\ ProviderTypes /\ BoundTypes
BY DEF TypeOK, RecordTypes, CallTypes, ProviderTypes, BoundTypes

(* A call that moves or reads leaves the record alone. *)
LEMMA RecordKept ==
  ASSUME NEW c \in Calls, Moves(c) \/ Reads(c)
  PROVE  UNCHANGED record
<1>1. CASE Moves(c)
  BY <1>1 DEF Moves, Call, RunThrows, RunReturns, RunRejects, Execute, Land,
              Executed, Overtaken, UndoAborted, UndoLater, UndoLands, Undid,
              BackoffInvalid, Abort, Crash
<1>2. CASE Reads(c)
  BY <1>2 DEF Reads, Load, StepCalled, Commit, Fail, Returned, Caught, CompLoad,
              Release, Get
<1> QED
  BY <1>1, <1>2

(* The record keeps its types, whoever writes it. *)
LEMMA RecordTyped ==
  ASSUME RecordTypes, NEW c \in Calls, Acts(c)
  PROVE  RecordTypes'
<1> USE LeaseMsAssumption, SagaBoundsAssumption DEF RecordTypes, Save, Renewed, record
<1>1. CASE Create(c)
  BY <1>1 DEF Create, SagaState
<1>2. CASE Moves(c) \/ Reads(c)
  BY <1>2, RecordKept
<1>3. CASE Claim(c) \/ CompClaim(c)
  BY <1>3 DEF Claim, CompClaim, ToOwner
<1>4. CASE ReleaseSave(c)
  BY <1>4 DEF ReleaseSave, ToOwner
<1>5. CASE Review(c) \/ CompleteSave(c) \/ UndoneAll(c) \/ UndoGivesUp(c)
  BY <1>5 DEF Review, CompleteSave, UndoneAll, UndoGivesUp, ToState, SagaState
<1>6. CASE CompCheck(c)
  BY <1>6 DEF CompCheck, ToState, SagaState
<1>7. CASE Intent(c)
  BY <1>7 DEF Intent, ToStep, StepState
<1>8. CASE CommitSave(c) \/ UndoneSave(c)
  BY <1>8 DEF CommitSave, UndoneSave, ToStep, StepState
<1>9. CASE FailSave(c)
  BY <1>9 DEF FailSave, ToStep, StepState, SagaState
<1>10. CASE UndoStarts(c)
  BY <1>10 DEF UndoStarts, ToStep, StepState
<1>11. CASE UndoFailedSave(c) \/ UndoInvalidSave(c)
  BY <1>11 DEF UndoFailedSave, UndoInvalidSave, Attempt, ToStep, StepState, SagaState
<1> QED
  BY <1>1, <1>2, <1>3, <1>4, <1>5, <1>6, <1>7, <1>8, <1>9, <1>10, <1>11, ActsSplit
     DEF WritesState, WritesStep

(* So do the calls: each action takes its call to one of the labels. *)
LEMMA CallsTyped ==
  ASSUME CallTypes, NEW c \in Calls, Acts(c)
  PROVE  CallTypes'
<1> USE StepsAssumption DEF CallTypes, Goto, Label, Get, Save, Step
<1>1. CASE Create(c) \/ Call(c, "load") \/ Call(c, "compLoad")
  BY <1>1 DEF Create, Call
<1>2. CASE RunThrows(c) \/ RunReturns(c) \/ RunRejects(c)
  BY <1>2 DEF RunThrows, RunReturns, RunRejects
<1>3. CASE Execute(c) \/ Land(c) \/ UndoLands(c) \/ Executed(c) \/ Undid(c)
  BY <1>3 DEF Execute, Land, UndoLands, Executed, Undid
<1>4. CASE Overtaken(c) \/ UndoLater(c) \/ BackoffInvalid(c)
  BY <1>4 DEF Overtaken, UndoLater, BackoffInvalid
<1>5. CASE UndoAborted(c)
  BY <1>5 DEF UndoAborted
<1>6. CASE Abort(c) \/ Crash(c)
  BY <1>6 DEF Abort, Crash, Ended
<1>7. CASE Load(c) \/ CompLoad(c)
  BY <1>7 DEF Load, CompLoad
<1>8. CASE StepCalled(c)
  BY <1>8 DEF StepCalled, StepOutcome
<1>9. CASE Commit(c) \/ Returned(c) \/ Caught(c)
  BY <1>9 DEF Commit, Returned, Caught
<1>10. CASE Fail(c) \/ FailSave(c)
  BY <1>10 DEF Fail, FailSave, Why, FailAt, FailSaveAt, Threw
<1>11. CASE Release(c) \/ ReleaseSave(c)
  BY <1>11 DEF Release, ReleaseSave, Ended
<1>12. CASE Claim(c) \/ Review(c) \/ CompleteSave(c) \/ CompClaim(c)
  BY <1>12 DEF Claim, Review, CompleteSave, CompClaim
<1>13. CASE CompCheck(c)
  BY <1>13 DEF CompCheck
<1>14. CASE UndoneAll(c) \/ UndoGivesUp(c)
  BY <1>14 DEF UndoneAll, UndoGivesUp
<1>15. CASE Intent(c) \/ CommitSave(c) \/ UndoneSave(c)
  BY <1>15 DEF Intent, CommitSave, UndoneSave
<1>16. CASE UndoStarts(c)
  BY <1>16 DEF UndoStarts
<1>17. CASE UndoFailedSave(c) \/ UndoInvalidSave(c)
  BY <1>17 DEF UndoFailedSave, UndoInvalidSave
<1> QED
  BY <1>1, <1>2, <1>3, <1>4, <1>5, <1>6, <1>7, <1>8, <1>9, <1>10, <1>11, <1>12,
     <1>13, <1>14, <1>15, <1>16, <1>17, ActsSplit
     DEF Moves, Reads, WritesState, WritesStep

(* Only user code reaches the provider. *)
LEMMA ProviderKept ==
  ASSUME NEW c \in Calls, Acts(c),
         ~Execute(c), ~Land(c), ~UndoLands(c), ~UndoStarts(c)
  PROVE  UNCHANGED provider
<1>1. CASE Create(c)
  BY <1>1 DEF Create
<1>2. CASE Moves(c)
  BY <1>2 DEF Moves, Call, RunThrows, RunReturns, RunRejects, Executed, Overtaken,
              UndoAborted, UndoLater, Undid, BackoffInvalid, Abort, Crash
<1>3. CASE Reads(c)
  BY <1>3 DEF Reads, Load, StepCalled, Commit, Fail, Returned, Caught, CompLoad,
              Release, Get
<1>4. CASE WritesState(c)
  BY <1>4 DEF WritesState, Claim, Review, CompleteSave, CompClaim, CompCheck,
              UndoneAll, UndoGivesUp, ReleaseSave
<1>5. CASE WritesStep(c)
  BY <1>5 DEF WritesStep, Intent, CommitSave, FailSave, UndoneSave, UndoFailedSave,
              UndoInvalidSave
<1> QED
  BY <1>1, <1>2, <1>3, <1>4, <1>5, ActsSplit

(* A call whose user code runs, or is about to, is at a step. *)
AtUserCode == {"intent", "intended", "executing", "undoing"}
Placed ==
  \A c \in Calls : pc[c] \in AtUserCode => at[c] \in Step

(* What a call does to the others: it leaves them where they are, and what
   they read stays current only if the record stays as it is. *)
LEMMA Overtakes ==
  ASSUME CallTypes, NEW c \in Calls, Acts(c), NEW d \in Calls \ {c}
  PROVE  /\ pc'[d] = pc[d] /\ at'[d] = at[d]
         /\ d \in fresh' => d \in fresh /\ UNCHANGED <<owner, left, step, attempts>>
<1> USE DEF CallTypes, Goto, Get, Save, record
<1>1. CASE Create(c)
  BY <1>1 DEF Create
<1>2. CASE Moves(c)
  BY <1>2 DEF Moves, Call, RunThrows, RunReturns, RunRejects, Execute, Land,
              Executed, Overtaken, UndoAborted, UndoLater, UndoLands, Undid,
              BackoffInvalid, Abort, Crash, Ended
<1>3. CASE Load(c) \/ StepCalled(c) \/ Commit(c) \/ CompLoad(c)
  BY <1>3 DEF Load, StepCalled, Commit, CompLoad
<1>4. CASE Fail(c) \/ Returned(c) \/ Caught(c) \/ Release(c)
  BY <1>4 DEF Fail, Returned, Caught, Release, Ended
<1>5. CASE Claim(c) \/ Review(c) \/ CompleteSave(c) \/ CompClaim(c)
  BY <1>5 DEF Claim, Review, CompleteSave, CompClaim
<1>6. CASE CompCheck(c) \/ UndoneAll(c) \/ UndoGivesUp(c) \/ ReleaseSave(c)
  BY <1>6 DEF CompCheck, UndoneAll, UndoGivesUp, ReleaseSave, Ended
<1>7. CASE Intent(c) \/ CommitSave(c) \/ FailSave(c) \/ UndoneSave(c)
  BY <1>7 DEF Intent, CommitSave, FailSave, UndoneSave
<1>8. CASE UndoStarts(c) \/ UndoFailedSave(c) \/ UndoInvalidSave(c)
  BY <1>8 DEF UndoStarts, UndoFailedSave, UndoInvalidSave
<1> QED
  BY <1>1, <1>2, <1>3, <1>4, <1>5, <1>6, <1>7, <1>8, ActsSplit
     DEF Reads, WritesState, WritesStep

(* Where the call that acts gets to user code. *)
LEMMA Arrives ==
  ASSUME CallTypes, NEW c \in Calls, Acts(c), pc'[c] \in AtUserCode
  PROVE  \/ pc[c] \in AtUserCode /\ at'[c] = at[c]
         \/ StepCalled(c)
         \/ UndoStarts(c)
<1> USE DEF CallTypes, AtUserCode, Goto, Get, Save
<1>1. CASE Create(c)
  BY <1>1 DEF Create
<1>2. CASE Moves(c)
  BY <1>2 DEF Moves, Call, RunThrows, RunReturns, RunRejects, Execute, Land,
              Executed, Overtaken, UndoAborted, UndoLater, UndoLands, Undid,
              BackoffInvalid, Abort, Crash, Ended
<1>3. CASE Load(c) \/ Commit(c) \/ CompLoad(c)
  BY <1>3 DEF Load, Commit, CompLoad
<1>4. CASE Fail(c) \/ FailSave(c)
  BY <1>4 DEF Fail, FailSave, Why, FailAt, FailSaveAt, Threw
<1>5. CASE Returned(c) \/ Caught(c) \/ Release(c) \/ ReleaseSave(c)
  BY <1>5 DEF Returned, Caught, Release, ReleaseSave, Ended
<1>6. CASE Claim(c) \/ Review(c) \/ CompleteSave(c) \/ CompClaim(c)
  BY <1>6 DEF Claim, Review, CompleteSave, CompClaim
<1>7. CASE CompCheck(c) \/ UndoneAll(c) \/ UndoGivesUp(c)
  BY <1>7 DEF CompCheck, UndoneAll, UndoGivesUp
<1>8. CASE Intent(c) \/ CommitSave(c) \/ UndoneSave(c)
  BY <1>8 DEF Intent, CommitSave, UndoneSave
<1>9. CASE UndoFailedSave(c) \/ UndoInvalidSave(c)
  BY <1>9 DEF UndoFailedSave, UndoInvalidSave
<1> QED
  BY <1>1, <1>2, <1>3, <1>4, <1>5, <1>6, <1>7, <1>8, <1>9, ActsSplit
     DEF Reads, WritesState, WritesStep

(* A call gets to user code only by calling a step or starting to undo one. *)
LEMMA PlacedKept ==
  ASSUME CallTypes, Placed, NEW c \in Calls, Acts(c)
  PROVE  Placed'
<1>1. ASSUME pc'[c] \in AtUserCode PROVE at'[c] \in Step
  <2>1. CASE pc[c] \in AtUserCode /\ at'[c] = at[c]
    BY <2>1 DEF Placed, AtUserCode
  <2>2. CASE StepCalled(c)
    BY <2>2, StepsAssumption DEF StepCalled, CallTypes, Step
  <2>3. CASE UndoStarts(c)
    BY <2>3 DEF UndoStarts, CallTypes
  <2> QED
    BY <1>1, <2>1, <2>2, <2>3, Arrives
<1>2. ASSUME NEW d \in Calls \ {c}, pc'[d] \in AtUserCode PROVE at'[d] \in Step
  BY <1>2, Overtakes DEF Placed, AtUserCode
<1> QED
  BY <1>1, <1>2 DEF Placed, AtUserCode

(* The provider knows only of steps. *)
LEMMA ProviderTyped ==
  ASSUME ProviderTypes, Placed, NEW c \in Calls, Acts(c)
  PROVE  ProviderTypes'
<1> USE DEF ProviderTypes
<1>1. CASE Execute(c)
  BY <1>1 DEF Execute
<1>2. CASE Land(c) \/ UndoLands(c)
  <2>1. at[c] \in Step
    BY <1>2 DEF Land, UndoLands, Placed, AtUserCode
  <2> QED
    BY <1>2, <2>1 DEF Land, UndoLands
<1>3. CASE UndoStarts(c)
  BY <1>3 DEF UndoStarts
<1>4. CASE UNCHANGED provider
  BY <1>4 DEF provider
<1> QED
  BY <1>1, <1>2, <1>3, <1>4, ProviderKept

(* Crashes, store errors and signals stay within their bounds. *)
LEMMA BoundsTyped ==
  ASSUME BoundTypes, NEW c \in Calls, Acts(c)
  PROVE  BoundTypes'
<1> USE SagaBoundsAssumption DEF BoundTypes, Get, Save
<1>1. CASE Create(c)
  BY <1>1 DEF Create
<1>2. CASE Moves(c)
  BY <1>2 DEF Moves, Call, RunThrows, RunReturns, RunRejects, Execute, Land,
              Executed, Overtaken, UndoAborted, UndoLater, UndoLands, Undid,
              BackoffInvalid, Abort, Crash
<1>3. CASE Reads(c)
  BY <1>3 DEF Reads, Load, StepCalled, Commit, Fail, Returned, Caught, CompLoad,
              Release
<1>4. CASE WritesState(c)
  BY <1>4 DEF WritesState, Claim, Review, CompleteSave, CompClaim, CompCheck,
              UndoneAll, UndoGivesUp, ReleaseSave
<1>5. CASE WritesStep(c)
  BY <1>5 DEF WritesStep, Intent, CommitSave, FailSave, UndoStarts, UndoneSave,
              UndoFailedSave, UndoInvalidSave
<1> QED
  BY <1>1, <1>2, <1>3, <1>4, <1>5, ActsSplit

(* The part of a state in which everything has its type. *)
Typed == TypeOK /\ Placed

(* The engine starts with everything typed. *)
LEMMA TypedInit == Init => Typed
<1> SUFFICES ASSUME Init PROVE Typed
  OBVIOUS
<1> USE StepsAssumption, LeaseMsAssumption, SagaBoundsAssumption DEF Init
<1>1. RecordTypes
  BY DEF RecordTypes, SagaState, StepState
<1>2. CallTypes
  BY DEF CallTypes, Label
<1>3. ProviderTypes /\ BoundTypes
  BY DEF ProviderTypes, BoundTypes
<1>4. Placed
  BY DEF Placed, AtUserCode
<1> QED
  BY <1>1, <1>2, <1>3, <1>4, TypeParts DEF Typed

(* Every step keeps it so. *)
LEMMA TypedInductive ==
  ASSUME Typed, [Next]_vars
  PROVE  Typed'
<1> USE StepsAssumption, LeaseMsAssumption, SagaBoundsAssumption
<1>1. RecordTypes /\ CallTypes /\ ProviderTypes /\ BoundTypes /\ Placed
  BY TypeParts DEF Typed
<1>2. (RecordTypes /\ CallTypes /\ ProviderTypes /\ BoundTypes /\ Placed)' => Typed'
  BY DEF Typed, TypeOK, RecordTypes, CallTypes, ProviderTypes, BoundTypes
<1>3. ASSUME NEW c \in Calls, Acts(c) PROVE Typed'
  BY <1>1, <1>2, <1>3, RecordTyped, CallsTyped, ProviderTyped, BoundsTyped, PlacedKept
<1>4. ASSUME NEW s \in Step, Resolve(s) PROVE Typed'
  <2>1. RecordTypes'
    BY <1>1, <1>4 DEF Resolve, RecordTypes, ToStep, Renewed, SagaState, StepState
  <2>2. UNCHANGED <<pc, at, aborted, provider, crashes, failures, aborts>> /\ fresh' = {}
    BY <1>4 DEF Resolve
  <2>3. CallTypes' /\ ProviderTypes' /\ BoundTypes' /\ Placed'
    BY <1>1, <2>2 DEF CallTypes, ProviderTypes, BoundTypes, Placed, provider
  <2> QED
    BY <1>2, <2>1, <2>3
<1>5. ASSUME Tick PROVE Typed'
  <2>1. RecordTypes'
    BY <1>1, <1>5 DEF Tick, RecordTypes
  <2>2. CallTypes' /\ ProviderTypes' /\ BoundTypes' /\ Placed'
    BY <1>1, <1>5 DEF Tick, CallTypes, ProviderTypes, BoundTypes, Placed, provider
  <2> QED
    BY <1>2, <2>1, <2>2
<1>6. ASSUME UNCHANGED vars PROVE Typed'
  BY <1>1, <1>2, <1>6
     DEF vars, record, provider, RecordTypes, CallTypes, ProviderTypes, BoundTypes, Placed
<1> QED
  BY <1>3, <1>4, <1>5, <1>6, NextSplit

(* The stored record, the calls and the provider keep their types in every
   schedule, crash and store failure of the engine. *)
THEOREM TypeCorrect == Spec => []TypeOK
<1>1. Typed /\ [Next]_vars => Typed'
  BY TypedInductive
<1>2. Typed => TypeOK
  BY DEF Typed
<1> QED
  BY <1>1, <1>2, TypedInit, PTL DEF Spec

-----------------------------------------------------------------------------
(* No effect is started twice, and compensations are bounded *)

(* The argument.  A call that is about to record an intent from a current
   copy finds no record of the step.  Once the intent is recorded nobody
   else can record it, for a step is never forgotten; so at most one call
   is ever about to execute the step, and it has not been executed. *)
Once ==
  /\ \A c \in Calls, s \in Step :
       pc[c] = "intent" /\ c \in fresh /\ at[c] = s => step[s] = "none"
  /\ \A c \in Calls, s \in Step :
       pc[c] = "intended" /\ at[c] = s => step[s] # "none" /\ begun[s] = 0
  /\ \A c, d \in Calls, s \in Step :
       pc[c] = "intended" /\ pc[d] = "intended" /\ at[c] = s /\ at[d] = s => c = d
  /\ \A s \in Step : step[s] = "none" => begun[s] = 0 /\ undos[s] = 0
  /\ \A s \in Step : begun[s] <= 1

(* A compensator is called at most as often as the record counts. *)
Bounded ==
  \A s \in Step : undos[s] <= attempts[s] /\ undos[s] <= MaxAttempts

(* What recording an intent does: the copy being current, the step was not
   on record; now it is, and nobody else's copy is current. *)
LEMMA IntentEffect ==
  ASSUME Typed, Once, NEW c \in Calls, Intent(c)
  PROVE  /\ UNCHANGED provider /\ at' = at
         /\ pc'[c] # "intent"
         /\ \/ UNCHANGED <<step, attempts>> /\ pc'[c] # "intended"
            \/ /\ c \in fresh /\ step[at[c]] = "none"
               /\ step' = [step EXCEPT ![at[c]] = "executing"]
               /\ attempts' = [attempts EXCEPT ![at[c]] = 0]
<1>1. pc[c] = "intent" /\ at[c] \in Step /\ pc \in [Calls -> Label]
  BY DEF Intent, Typed, Placed, AtUserCode, TypeOK
<1>2. c \in fresh => step[at[c]] = "none"
  BY <1>1 DEF Once
<1> QED
  BY <1>1, <1>2 DEF Intent, Save, ToStep, Goto, record, provider

(* Any other step of a call keeps each step's record a record, and starts
   no effect but the one Execute is there for. *)
LEMMA OtherEffects ==
  ASSUME Typed, NEW c \in Calls, Acts(c), ~Intent(c), ~Execute(c), ~UndoStarts(c)
  PROVE  /\ UNCHANGED <<begun, undos>>
         /\ \A s \in Step :
              (step'[s] = "none" => step[s] = "none") /\ attempts'[s] >= attempts[s]
<1> USE DEF Typed, TypeOK
<1>1. UNCHANGED <<begun, undos>>
  <2>1. CASE Land(c) \/ UndoLands(c)
    BY <2>1 DEF Land, UndoLands
  <2>2. CASE UNCHANGED provider
    BY <2>2 DEF provider
  <2> QED
    BY <2>1, <2>2, ProviderKept
<1>2. CASE UNCHANGED <<step, attempts>>
  BY <1>1, <1>2
<1>3. CASE Create(c) \/ Moves(c) \/ Reads(c)
  <2>1. UNCHANGED <<step, attempts>>
    BY <1>3, RecordKept DEF Create, record
  <2> QED
    BY <1>2, <2>1
<1>4. CASE WritesState(c)
  <2>1. UNCHANGED <<step, attempts>>
    BY <1>4 DEF WritesState, Claim, Review, CompleteSave, CompClaim, CompCheck,
                UndoneAll, UndoGivesUp, ReleaseSave, Save, ToState, ToOwner, record
  <2> QED
    BY <1>2, <2>1
<1>5. CASE CommitSave(c) \/ UndoneSave(c)
  BY <1>1, <1>5 DEF CommitSave, UndoneSave, Save, ToStep, record
<1>6. CASE FailSave(c)
  BY <1>1, <1>6 DEF FailSave, Save, ToStep, record
<1>7. CASE UndoFailedSave(c)
  BY <1>1, <1>7 DEF UndoFailedSave, Attempt, Save, ToStep, record
<1>8. CASE UndoInvalidSave(c)
  BY <1>1, <1>8 DEF UndoInvalidSave, Attempt, Save, ToStep, record
<1> QED
  BY <1>3, <1>4, <1>5, <1>6, <1>7, <1>8, ActsSplit DEF WritesStep

(* A call that is about to record an intent, or to execute, got there by
   the step before. *)
LEMMA ArrivesOnce ==
  ASSUME Typed, NEW c \in Calls, Acts(c), pc'[c] \in {"intent", "intended"}
  PROVE  \/ pc'[c] = pc[c] /\ at'[c] = at[c] /\ (c \in fresh' => c \in fresh)
            /\ ~Intent(c) /\ ~Execute(c)
         \/ Intent(c)
         \/ /\ StepCalled(c)
            /\ pc'[c] = "intent" => c \in fresh' /\ step'[at'[c]] = "none"
            /\ pc'[c] # "intended"
<1> USE DEF Goto, Typed, TypeOK
<1>1. CallTypes
  BY DEF CallTypes
<1>2. CASE StepCalled(c)
  BY <1>2 DEF StepCalled, StepOutcome, Get, record
<1>3. CASE UndoStarts(c)
  BY <1>3 DEF UndoStarts, Save
<1>4. CASE pc[c] \in AtUserCode /\ at'[c] = at[c]
  <2>1. CASE Moves(c)
    BY <1>4, <2>1 DEF AtUserCode, Moves, Call, RunThrows, RunReturns, RunRejects,
                Execute, Land, Executed, Overtaken, UndoAborted, UndoLater,
                UndoLands, Undid, BackoffInvalid, Abort, Crash, Ended, Intent
  <2>2. ~Create(c) /\ ~Reads(c) /\ ~WritesState(c)
    BY <1>4 DEF AtUserCode, Create, Reads, Load, StepCalled, Commit, Fail, Why, FailAt,
                Returned, Caught, CompLoad, Release, WritesState, Claim, Review,
                CompleteSave, CompClaim, CompCheck, UndoneAll, UndoGivesUp, ReleaseSave
  <2>3. WritesStep(c) => Intent(c)
    BY <1>4 DEF AtUserCode, WritesStep, CommitSave, FailSave, Why, FailSaveAt,
                UndoStarts, UndoneSave, UndoFailedSave, UndoInvalidSave
  <2> QED
    BY <2>1, <2>2, <2>3, ActsSplit
<1> QED
  BY <1>1, <1>2, <1>3, <1>4, Arrives DEF AtUserCode

(* What starting a compensation does. *)
LEMMA UndoStartsEffect ==
  ASSUME Typed, NEW c \in Calls, UndoStarts(c)
  PROVE  /\ UNCHANGED begun
         /\ pc'[c] \notin {"intent", "intended"}
         /\ \A s \in Step : step'[s] = "none" => step[s] = "none" /\ undos'[s] = undos[s]
         /\ \A s \in Step :
              \/ undos'[s] = undos[s] /\ attempts'[s] >= attempts[s]
              \/ /\ undos'[s] = undos[s] + 1 /\ attempts'[s] = attempts[s] + 1
                 /\ attempts[s] < MaxAttempts
<1> USE DEF Typed, TypeOK
<1>1. PICK s \in Step :
        /\ IsNextToUndo(s) /\ ~Exhausted(s)
        /\ Save(c, ToStep(s, "compensating", attempts[s] + 1, 0, state),
                "undoing", "release", "undoFailed")
        /\ undos' = IF pc'[c] = "undoing" THEN [undos EXCEPT ![s] = @ + 1] ELSE undos
  BY DEF UndoStarts
<1>2. step[s] # "none" /\ attempts[s] < MaxAttempts
  BY <1>1, MaxAttemptsAssumption DEF IsNextToUndo, ToUndo, Exhausted
<1>3. UNCHANGED begun
  BY DEF UndoStarts
<1>4. \/ /\ step' = [step EXCEPT ![s] = "compensating"]
         /\ attempts' = [attempts EXCEPT ![s] = attempts[s] + 1]
         /\ pc'[c] \in {"undoing", "undoFailed"}
      \/ UNCHANGED <<step, attempts>> /\ pc'[c] \in {"release", "undoFailed"}
  BY <1>1 DEF Save, ToStep, Goto, record
<1> QED
  BY <1>1, <1>2, <1>3, <1>4

(* Every step of a call keeps Once: recording an intent, executing it, and
   the rest, which neither do. *)
LEMMA OnceKept ==
  ASSUME Typed, Once, NEW c \in Calls, Acts(c)
  PROVE  Once'
<1>1. /\ pc \in [Calls -> Label] /\ fresh \subseteq Calls
      /\ step \in [Step -> StepState] /\ begun \in [Step -> Nat] /\ CallTypes
  BY DEF Typed, TypeOK, CallTypes
<1>2. \A d \in Calls \ {c} :
        /\ pc'[d] = pc[d] /\ at'[d] = at[d]
        /\ d \in fresh' => d \in fresh /\ UNCHANGED step
  BY <1>1, Overtakes
<1>3. CASE Intent(c)
  <2>1. /\ UNCHANGED <<begun, undos>> /\ at' = at /\ pc'[c] # "intent"
        /\ \/ UNCHANGED step /\ pc'[c] # "intended"
           \/ step[at[c]] = "none" /\ step' = [step EXCEPT ![at[c]] = "executing"]
    BY <1>3, IntentEffect DEF provider
  <2>2. at[c] \in Step
    BY <1>3 DEF Intent, Typed, Placed, AtUserCode
  <2>3. CASE UNCHANGED step /\ pc'[c] # "intended"
    BY <1>1, <1>2, <2>1, <2>3 DEF Once
  <2>4. CASE step[at[c]] = "none" /\ step' = [step EXCEPT ![at[c]] = "executing"]
    <3>1. begun[at[c]] = 0
      BY <2>2, <2>4 DEF Once
    <3>2. \A d \in Calls : pc[d] = "intended" => at[d] # at[c]
      BY <2>2, <2>4 DEF Once
    <3>3. \A d \in Calls, s \in Step :
            pc'[d] = "intent" /\ d \in fresh' /\ at'[d] = s => step'[s] = "none"
      BY <1>2, <2>1 DEF Once
    <3>4. \A d \in Calls, s \in Step :
            pc'[d] = "intended" /\ at'[d] = s => step'[s] # "none" /\ begun'[s] = 0
      BY <1>1, <1>2, <2>1, <2>4, <3>1 DEF Once
    <3>5. \A d, e \in Calls, s \in Step :
            pc'[d] = "intended" /\ pc'[e] = "intended" /\ at'[d] = s /\ at'[e] = s => d = e
      BY <1>2, <2>1, <3>2 DEF Once
    <3>6. \A s \in Step : /\ step'[s] = "none" => begun'[s] = 0 /\ undos'[s] = 0
                          /\ begun'[s] <= 1
      BY <1>1, <2>1, <2>4 DEF Once
    <3> QED
      BY <3>3, <3>4, <3>5, <3>6 DEF Once
  <2> QED
    BY <2>1, <2>3, <2>4
<1>4. CASE Execute(c)
  <2>1. pc[c] = "intended" /\ at[c] \in Step
    BY <1>4 DEF Execute, Typed, Placed, AtUserCode
  <2>2. UNCHANGED <<step, at, fresh, undos>> /\ pc'[c] \notin {"intent", "intended"}
    BY <1>1, <1>4 DEF Execute, Goto, record
  <2>3. begun' = begun \/ begun' = [begun EXCEPT ![at[c]] = @ + 1]
    BY <1>4 DEF Execute
  <2>4. begun[at[c]] = 0 /\ step[at[c]] # "none"
    BY <2>1 DEF Once
  <2>5. \A d \in Calls \ {c} : pc[d] = "intended" => at[d] # at[c]
    BY <2>1 DEF Once
  <2>6. \A s \in Step : s # at[c] => begun'[s] = begun[s]
    BY <1>1, <2>3
  <2>7. begun'[at[c]] <= 1
    BY <1>1, <2>1, <2>3, <2>4
  <2> QED
    BY <1>1, <1>2, <2>2, <2>4, <2>5, <2>6, <2>7 DEF Once
<1>5. CASE ~Intent(c) /\ ~Execute(c)
  <2>1. /\ UNCHANGED begun
        /\ \A s \in Step : step'[s] = "none" => step[s] = "none" /\ undos'[s] = undos[s]
    BY <1>5, UndoStartsEffect, OtherEffects
  <2>2. \A s \in Step : /\ step'[s] = "none" => begun'[s] = 0 /\ undos'[s] = 0
                        /\ begun'[s] <= 1
    BY <2>1 DEF Once
  <2>3. ASSUME NEW d \in Calls, NEW s \in Step, pc'[d] = "intent", d \in fresh', at'[d] = s
        PROVE  step'[s] = "none"
    <3>1. CASE d # c
      BY <1>2, <2>3, <3>1 DEF Once
    <3>2. CASE d = c
      <4>1. CASE pc'[c] = pc[c] /\ at'[c] = at[c] /\ (c \in fresh' => c \in fresh)
        <5>1. step[s] = "none"
          BY <2>3, <3>2, <4>1 DEF Once
        <5>2. UNCHANGED step
          <6>1. Create(c) \/ Moves(c) \/ Reads(c) \/ WritesState(c) \/ WritesStep(c)
            BY ActsSplit
          <6>2. pc[c] = "intent"
            BY <2>3, <3>2, <4>1
          <6>3. ~WritesState(c)
            BY <6>2 DEF WritesState, Claim, Review, CompleteSave, CompClaim, CompCheck,
                        UndoneAll, UndoGivesUp, ReleaseSave
          <6>4. ~WritesStep(c)
            BY <1>5, <6>2 DEF WritesStep, CommitSave, FailSave, Why, FailSaveAt,
                      UndoStarts, UndoneSave, UndoFailedSave, UndoInvalidSave
          <6> QED
            BY <6>1, <6>3, <6>4, RecordKept DEF Create, record
        <5> QED
          BY <5>1, <5>2
      <4> QED
        BY <1>5, <2>3, <3>2, <4>1, ArrivesOnce
    <3> QED
      BY <3>1, <3>2
  <2>4. \A d \in Calls : pc'[d] = "intended" => pc[d] = "intended" /\ at'[d] = at[d]
    BY <1>2, <1>5, ArrivesOnce
  <2> QED
    BY <2>1, <2>2, <2>3, <2>4 DEF Once
<1> QED
  BY <1>3, <1>4, <1>5

(* Every step of a call keeps Bounded: an intent resets the count of a step
   never undone, and each start of a compensation is counted first. *)
LEMMA BoundedKept ==
  ASSUME Typed, Once, Bounded, NEW c \in Calls, Acts(c)
  PROVE  Bounded'
<1>1. /\ attempts \in [Step -> Nat] /\ undos \in [Step -> Nat]
      /\ MaxAttempts \in Nat \ {0}
  BY MaxAttemptsAssumption DEF Typed, TypeOK
<1>2. attempts' \in [Step -> Nat]
  BY RecordTyped, TypeParts DEF Typed, RecordTypes
<1>3. CASE Intent(c)
  <2>1. /\ UNCHANGED undos
        /\ \/ UNCHANGED attempts
           \/ step[at[c]] = "none" /\ attempts' = [attempts EXCEPT ![at[c]] = 0]
    BY <1>3, IntentEffect DEF provider
  <2>2. at[c] \in Step
    BY <1>3 DEF Intent, Typed, Placed, AtUserCode
  <2>3. step[at[c]] = "none" => undos[at[c]] = 0
    BY <2>2 DEF Once
  <2> QED
    BY <1>1, <2>1, <2>3 DEF Bounded
<1>4. CASE Execute(c)
  <2>1. UNCHANGED <<attempts, undos>>
    BY <1>4 DEF Execute, record
  <2> QED
    BY <2>1 DEF Bounded
<1>5. CASE UndoStarts(c)
  <2> SUFFICES ASSUME NEW s \in Step
               PROVE  undos'[s] <= attempts'[s] /\ undos'[s] <= MaxAttempts
    BY DEF Bounded
  <2>1. undos[s] <= attempts[s] /\ undos[s] <= MaxAttempts
    BY DEF Bounded
  <2>2. \/ undos'[s] = undos[s] /\ attempts'[s] >= attempts[s]
        \/ /\ undos'[s] = undos[s] + 1 /\ attempts'[s] = attempts[s] + 1
           /\ attempts[s] < MaxAttempts
    BY <1>5, UndoStartsEffect
  <2> QED
    BY <1>1, <1>2, <2>1, <2>2
<1>6. CASE ~Intent(c) /\ ~Execute(c) /\ ~UndoStarts(c)
  <2>1. undos' = undos /\ \A s \in Step : attempts'[s] >= attempts[s]
    BY <1>6, OtherEffects
  <2> SUFFICES ASSUME NEW s \in Step
               PROVE  undos'[s] <= attempts'[s] /\ undos'[s] <= MaxAttempts
    BY DEF Bounded
  <2>2. undos[s] <= attempts[s] /\ undos[s] <= MaxAttempts
    BY DEF Bounded
  <2> QED
    BY <1>1, <1>2, <2>1, <2>2
<1> QED
  BY <1>3, <1>4, <1>5, <1>6

(* The steps that are no call's: a reviewer's and the clock's. *)
LEMMA SurroundingsKeep ==
  ASSUME Typed, Once, Bounded,
         \/ \E s \in Step : Resolve(s)
         \/ Tick
         \/ UNCHANGED vars
  PROVE  Once' /\ Bounded'
<1> USE DEF Typed, TypeOK
<1>1. ASSUME NEW s \in Step, Resolve(s)
      PROVE  /\ UNCHANGED <<pc, at, begun, undos, attempts>> /\ fresh' = {}
             /\ step[s] # "none"
             /\ \A t \in Step : step'[t] = "none" <=> step[t] = "none"
  BY <1>1 DEF Resolve, ToStep, provider
<1>2. ASSUME Tick \/ UNCHANGED vars
      PROVE  UNCHANGED <<pc, at, fresh, begun, undos, attempts, step>>
  BY <1>2 DEF Tick, vars, record, provider
<1>3. CASE \E s \in Step : Resolve(s)
  BY <1>1, <1>3 DEF Once, Bounded
<1>4. CASE Tick \/ UNCHANGED vars
  BY <1>2, <1>4 DEF Once, Bounded
<1> QED
  BY <1>3, <1>4

(* Typed, Once and Bounded together are inductive. *)
LEMMA HistoryInductive ==
  /\ Init => Typed /\ Once /\ Bounded
  /\ Typed /\ Once /\ Bounded /\ [Next]_vars => (Typed /\ Once /\ Bounded)'
<1>1. ASSUME Init PROVE Once /\ Bounded
  BY <1>1, MaxAttemptsAssumption DEF Init, Once, Bounded
<1>2. ASSUME Typed, Once, Bounded, [Next]_vars PROVE Once' /\ Bounded'
  BY <1>2, NextSplit, OnceKept, BoundedKept, SurroundingsKeep
<1> QED
  BY <1>1, <1>2, TypedInit, TypedInductive

(* Whatever crashes, lapses or throws, no effect is started twice. *)
THEOREM EffectsStartOnce == Spec => []NeverExecutedTwice
<1>1. Typed /\ Once /\ Bounded => NeverExecutedTwice
  BY DEF Once, NeverExecutedTwice
<1> QED
  BY <1>1, HistoryInductive, PTL DEF Spec

(* No schedule of calls, crashes and reviews gets a compensator called more
   than maxAttempts times. *)
THEOREM CompensationsAreBounded == Spec => []CompensationsBounded
<1>1. Typed /\ Once /\ Bounded => CompensationsBounded
  BY DEF Bounded, CompensationsBounded
<1> QED
  BY <1>1, HistoryInductive, PTL DEF Spec

-----------------------------------------------------------------------------
(* Only the owner writes *)

(* The argument.  The only thing a call's current copy tells it that it
   relies on later is who the owner is: the copy being current, nobody has
   become owner since.  A copy from which it claims shows no live lease,
   and a lease only runs down while nobody writes. *)
OwnerLabels ==
  {"review", "intent", "commitSave", "saveKnown", "saveUnknown", "saveConflict",
   "completeSave", "compCheck", "undo", "undoing", "undone", "undoFailed",
   "undoInvalid", "releaseSave"}

OwnedBy(c) ==
  /\ pc[c] \in OwnerLabels => owner = c
  /\ pc[c] \in {"claim", "compClaim"} => Claimable

Owned == \A c \in fresh : OwnedBy(c)

(* The call that acts. *)
LEMMA OwnStepOwned ==
  ASSUME Typed, Owned, NEW c \in Calls, Acts(c), c \in fresh'
  PROVE  OwnedBy(c)'
<1> USE DEF Typed, TypeOK, OwnedBy, OwnerLabels, Claimable, Goto, record
<1>1. CASE Moves(c)
  <2>1. c \in fresh => OwnedBy(c)
    BY DEF Owned
  <2>2. c \in fresh
    BY <1>1 DEF Moves, Call, RunThrows, RunReturns, RunRejects, Execute, Land,
                Executed, Overtaken, UndoAborted, UndoLater, UndoLands, Undid,
                BackoffInvalid, Abort, Crash
  <2>3. UNCHANGED record
    BY <1>1, RecordKept
  <2>4. CASE Call(c, "load") \/ Call(c, "compLoad") \/ RunThrows(c) \/ RunReturns(c)
             \/ RunRejects(c) \/ Execute(c) \/ Executed(c)
    BY <2>4 DEF Call, RunThrows, RunReturns, RunRejects, Execute, Executed
  <2>5. CASE Land(c) \/ UndoLands(c) \/ Abort(c)
    BY <2>1, <2>2, <2>3, <2>5 DEF Land, UndoLands, Abort
  <2>6. CASE Overtaken(c) \/ UndoAborted(c) \/ UndoLater(c)
    BY <2>1, <2>2, <2>3, <2>6 DEF Overtaken, UndoAborted, UndoLater
  <2>7. CASE Undid(c) \/ BackoffInvalid(c)
    BY <2>1, <2>2, <2>3, <2>7 DEF Undid, BackoffInvalid
  <2>8. CASE Crash(c)
    BY <2>8 DEF Crash, Ended
  <2> QED
    BY <1>1, <2>4, <2>5, <2>6, <2>7, <2>8 DEF Moves
<1>2. CASE Reads(c)
  <2>1. UNCHANGED record
    BY <1>2, RecordKept
  <2>2. CASE Load(c) \/ CompLoad(c)
    BY <2>1, <2>2 DEF Load, CompLoad, Get
  <2>3. CASE StepCalled(c)
    BY <2>1, <2>3 DEF StepCalled, StepOutcome, Get
  <2>4. CASE Commit(c) \/ Returned(c) \/ Caught(c)
    BY <2>1, <2>4 DEF Commit, Returned, Caught, Get
  <2>5. CASE Fail(c)
    BY <2>1, <2>5 DEF Fail, Why, FailAt, FailSaveAt, Threw, Get
  <2>6. CASE Release(c)
    BY <2>1, <2>6 DEF Release, Ended
  <2> QED
    BY <1>2, <2>2, <2>3, <2>4, <2>5, <2>6 DEF Reads
<1>3. CASE Create(c)
  BY <1>3 DEF Create
<1>4. CASE Claim(c) \/ CompClaim(c)
  BY <1>4 DEF Claim, CompClaim, Save, ToOwner
<1>5. CASE Review(c) \/ CompleteSave(c) \/ UndoneAll(c) \/ UndoGivesUp(c)
  BY <1>5 DEF Review, CompleteSave, UndoneAll, UndoGivesUp, Save, ToState
<1>6. CASE CompCheck(c)
  BY <1>6 DEF CompCheck, Save, ToState, Owned
<1>7. CASE ReleaseSave(c)
  BY <1>7 DEF ReleaseSave, Ended
<1>8. CASE Intent(c) \/ CommitSave(c)
  BY <1>8 DEF Intent, CommitSave, Save, ToStep
<1>9. CASE FailSave(c)
  BY <1>9 DEF FailSave, Why, FailSaveAt, Threw, Save, ToStep
<1>10. CASE UndoStarts(c)
  BY <1>10 DEF UndoStarts, Save, ToStep, Owned
<1>11. CASE UndoneSave(c)
  BY <1>11 DEF UndoneSave, Save, ToStep, Owned
<1>12. CASE UndoFailedSave(c)
  BY <1>12 DEF UndoFailedSave, Save, ToStep, Owned
<1>13. CASE UndoInvalidSave(c)
  BY <1>13 DEF UndoInvalidSave, Save, ToStep, Owned
<1> QED
  BY <1>1, <1>2, <1>3, <1>4, <1>5, <1>6, <1>7, <1>8, <1>9, <1>10, <1>11, <1>12, <1>13,
     ActsSplit DEF WritesState, WritesStep

(* Owned is inductive: the call that moves keeps it by OwnStepOwned, the
   others by Overtakes. *)
LEMMA OwnedInductive ==
  /\ Init => Owned
  /\ Typed /\ Owned /\ [Next]_vars => Owned'
<1>1. ASSUME Init PROVE Owned
  BY <1>1 DEF Init, Owned
<1>2. ASSUME Typed, Owned, NEW c \in Calls, Acts(c) PROVE Owned'
  <2>1. CallTypes /\ CallTypes'
    BY <1>2, TypeParts, CallsTyped DEF Typed
  <2>2. ASSUME NEW d \in Calls, d \in fresh' PROVE OwnedBy(d)'
    <3>1. CASE d = c
      BY <1>2, <2>2, <3>1, OwnStepOwned
    <3>2. CASE d # c
      <4>1. /\ pc'[d] = pc[d] /\ d \in fresh /\ UNCHANGED <<owner, left>>
        BY <1>2, <2>1, <2>2, <3>2, Overtakes
      <4> QED
        BY <1>2, <4>1 DEF Owned, OwnedBy, Claimable
    <3> QED
      BY <3>1, <3>2
  <2>3. fresh' \subseteq Calls
    BY <2>1 DEF CallTypes
  <2> QED
    BY <2>2, <2>3 DEF Owned
<1>3. ASSUME Typed, Owned, NEW s \in Step, Resolve(s) PROVE Owned'
  BY <1>3 DEF Resolve, Owned
<1>4. ASSUME Typed, Owned, Tick PROVE Owned'
  <2>1. UNCHANGED <<pc, fresh, owner>> /\ (left = 0 => left' = 0)
    BY <1>4 DEF Tick
  <2> QED
    BY <1>4, <2>1 DEF Owned, OwnedBy, Claimable
<1>5. ASSUME Owned, UNCHANGED vars PROVE Owned'
  BY <1>5 DEF vars, record, Owned, OwnedBy, Claimable
<1> QED
  BY <1>1, <1>2, <1>3, <1>4, <1>5, NextSplit

(* A call writes only from a copy that is current, so what Owned says of
   its copy holds of the record it writes to. *)
LEMMA WriterOwns ==
  ASSUME Typed, Owned, NEW c \in Calls, Acts(c), ~Create(c), record' # record
  PROVE  owner = c \/ (Claimable /\ owner' = c)
<1> USE DEF Owned, OwnedBy, OwnerLabels, record
<1>1. WritesState(c) \/ WritesStep(c)
  BY ActsSplit, RecordKept
<1>2. CASE Claim(c) \/ CompClaim(c)
  BY <1>2 DEF Claim, CompClaim, Save, ToOwner
<1>3. CASE Review(c) \/ CompleteSave(c) \/ UndoneAll(c) \/ UndoGivesUp(c)
  BY <1>3 DEF Review, CompleteSave, UndoneAll, UndoGivesUp, Save
<1>4. CASE CompCheck(c) \/ ReleaseSave(c)
  BY <1>4 DEF CompCheck, ReleaseSave, Save
<1>5. CASE Intent(c) \/ CommitSave(c) \/ UndoneSave(c)
  BY <1>5 DEF Intent, CommitSave, UndoneSave, Save
<1>6. CASE FailSave(c)
  BY <1>6 DEF FailSave, Why, FailSaveAt, Save
<1>7. CASE UndoStarts(c) \/ UndoFailedSave(c) \/ UndoInvalidSave(c)
  BY <1>7 DEF UndoStarts, UndoFailedSave, UndoInvalidSave, Save
<1> QED
  BY <1>1, <1>2, <1>3, <1>4, <1>5, <1>6, <1>7 DEF WritesState, WritesStep

(* A call that was overtaken stops writing, and none takes a saga over
   from a live lease. *)
THEOREM OnlyTheOwnerEverWrites == Spec => OnlyTheOwnerWrites
<1> DEFINE Kept ==
      \A c \in Calls : (pc'[c] # pc[c] /\ record' # record /\ state # "absent")
        => \/ owner = c
           \/ (owner = NoOwner \/ left = 0) /\ owner' = c
<1>1. ASSUME Typed, Owned, [Next]_vars PROVE Kept
  <2> SUFFICES ASSUME NEW c \in Calls, pc'[c] # pc[c], record' # record, state # "absent"
               PROVE  owner = c \/ ((owner = NoOwner \/ left = 0) /\ owner' = c)
    OBVIOUS
  <2>1. \E d \in Calls : Acts(d)
    <3>1. ~(\E s \in Step : Resolve(s)) /\ ~Tick /\ ~UNCHANGED vars
      BY DEF Resolve, Tick, vars
    <3> QED
      BY <1>1, <3>1, NextSplit
  <2>2. Acts(c)
    BY <1>1, <2>1, Overtakes, TypeParts DEF Typed
  <2>3. ~Create(c)
    BY DEF Create
  <2> QED
    BY <1>1, <2>2, <2>3, WriterOwns DEF Claimable
<1>2. Typed /\ Owned /\ [Next]_vars => (Typed /\ Owned)'
  BY TypedInductive, OwnedInductive
<1>3. Init => Typed /\ Owned
  BY TypedInit, OwnedInductive
<1>4. Spec => [](Typed /\ Owned)
  BY <1>2, <1>3, PTL DEF Spec
<1>5. Spec => [][Kept]_vars
  BY <1>1, <1>4, PTL DEF Spec
<1> QED
  BY <1>5 DEF OnlyTheOwnerWrites

-----------------------------------------------------------------------------
(* One handler at a time *)

(* The argument, for a run() that passes errors on.  While a call has user
   code under way, or is about to start it, its step is the one in doubt,
   every step before it is committed, and nobody writes a step: a call that
   takes the saga over cannot get past the step - as a run it stops there
   for review, as a rollback it finds it in doubt - and a reviewer waits. *)
Active == {"intended", "executing", "undoing"}

(* Where the owner can be while another call is active. *)
Onlooker == {"idle", "load", "claim", "run", "review", "threw", "conflicted",
             "caught", "release", "releaseSave", "compLoad", "compClaim", "compCheck"}

(* Labels of a call whose step is on record, whoever owns the saga by now. *)
Recorded == {"intended", "executing", "commit", "commitSave", "saveKnown",
             "saveUnknown", "saveConflict", "undoing", "undone", "undoFailed",
             "undoInvalid"}
Forward == {"intent", "intended", "executing", "commit", "commitSave"}

AtNone(c) == pc[c] \in {"idle", "load", "claim"} => at[c] = 0
OnRecord(c) == pc[c] \in Recorded /\ at[c] \in Step => step[at[c]] # "none"

Before(c) == \A t \in Step : t < at[c] => step[t] = "committed"
Through(c) == \A t \in Step : t <= at[c] => step[t] = "committed"

(* An owner's run has the steps before it committed. *)
InOrder(c) ==
  owner = c => /\ pc[c] = "run" => Through(c)
               /\ pc[c] \in Forward => Before(c)

OnlyInDoubt(s) == \A t \in Step : step[t] \in Unfinished => t = s

(* What the copy of a call tells it, if it is current. *)
Informed(c) ==
  c \in fresh =>
    /\ pc[c] = "claim" => state = "running"
    /\ pc[c] \in {"undo", "undoing", "undone"} => state = "compensating"
    /\ pc[c] = "undo" => ~InDoubt
    /\ pc[c] = "undone" => OnlyInDoubt(at[c])

Prefix == \A s, t \in Step : s < t /\ step[s] = "none" => step[t] = "none"

Aside(d, c) ==
  owner = d => pc[d] \in Onlooker /\ (pc[d] = "run" => pc[c] # "undoing" /\ at[d] < at[c])

Alone(c) ==
  pc[c] \in Active =>
    /\ \A d \in Calls \ {c} : pc[d] \notin Active /\ Aside(d, c)
    /\ step[at[c]] = IF pc[c] = "undoing" THEN "compensating" ELSE "executing"
    /\ OnlyInDoubt(at[c])
    /\ IF pc[c] = "undoing" THEN state \notin {"absent", "running"} ELSE Before(c)

OneActive ==
  /\ Prefix
  /\ \A c \in Calls : AtNone(c) /\ OnRecord(c) /\ InOrder(c) /\ Informed(c) /\ Alone(c)

(* Who writes what. *)
LEMMA WhoWrites ==
  ASSUME Typed, Owned, NEW c \in Calls, Acts(c)
  PROVE  /\ owner' \in {owner, c, NoOwner}
         /\ owner' = c => owner = c \/ Claim(c) \/ CompClaim(c)
         /\ step' # step => owner = c /\ owner' = c /\ WritesStep(c) /\ c \in fresh
         /\ state' \in {"absent", "running"} => state \in {"absent", "running"}
<1> USE DEF record
<1>1. CASE Create(c)
  BY <1>1 DEF Create
<1>2. CASE Moves(c) \/ Reads(c)
  BY <1>2, RecordKept
<1>3. CASE Claim(c) \/ CompClaim(c)
  BY <1>3 DEF Claim, CompClaim, Save, ToOwner
<1>4. CASE Review(c) \/ CompleteSave(c) \/ UndoneAll(c) \/ UndoGivesUp(c)
  BY <1>4 DEF Review, CompleteSave, UndoneAll, UndoGivesUp, Save, ToState
<1>5. CASE CompCheck(c)
  BY <1>5 DEF CompCheck, Save, ToState
<1>6. CASE ReleaseSave(c)
  BY <1>6, CallsAssumption DEF ReleaseSave, ToOwner
<1>7. CASE WritesStep(c)
  <2>1. UNCHANGED owner
    BY <1>7 DEF WritesStep, Intent, CommitSave, FailSave, UndoStarts, UndoneSave,
                UndoFailedSave, UndoInvalidSave, Save, ToStep
  <2>2. step' # step => c \in fresh
    BY <1>7 DEF WritesStep, Intent, CommitSave, FailSave, UndoStarts, UndoneSave,
                UndoFailedSave, UndoInvalidSave, Save, ToStep
  <2>3. pc[c] \in OwnerLabels
    BY <1>7 DEF WritesStep, Intent, CommitSave, FailSave, Why, FailSaveAt, UndoStarts,
                UndoneSave, UndoFailedSave, UndoInvalidSave, OwnerLabels
  <2>4. state' \in {"absent", "running"} => state' = state
    BY <1>7 DEF WritesStep, Intent, CommitSave, FailSave, UndoStarts, UndoneSave,
                UndoFailedSave, UndoInvalidSave, Save, ToStep
  <2> QED
    BY <1>7, <2>1, <2>2, <2>3, <2>4 DEF Owned, OwnedBy
<1> QED
  BY <1>1, <1>2, <1>3, <1>4, <1>5, <1>6, <1>7, ActsSplit DEF WritesState

(* A copy that stays current has the state that is stored. *)
LEMMA StateSeen ==
  ASSUME CallTypes, NEW c \in Calls, Acts(c), NEW d \in Calls \ {c}, d \in fresh'
  PROVE  UNCHANGED state \/ state = "absent"
<1> USE DEF record
<1>1. CASE Create(c)
  BY <1>1 DEF Create
<1>2. CASE Moves(c) \/ Reads(c)
  BY <1>2, RecordKept
<1>3. CASE WritesState(c)
  BY <1>3 DEF WritesState, Claim, Review, CompleteSave, CompClaim, CompCheck, UndoneAll,
              UndoGivesUp, ReleaseSave, Save, ToOwner
<1>4. CASE WritesStep(c)
  BY <1>4 DEF WritesStep, Intent, CommitSave, FailSave, UndoStarts, UndoneSave,
              UndoFailedSave, UndoInvalidSave, Save
<1> QED
  BY <1>1, <1>2, <1>3, <1>4, ActsSplit

(* A call that has no step yet is at none. *)
LEMMA AtNoneKept ==
  ASSUME Typed, NEW c \in Calls, Acts(c), AtNone(c)
  PROVE  AtNone(c)'
<1> USE DEF Typed, TypeOK, AtNone, Goto, Get, Save
<1>1. CASE Create(c) \/ Call(c, "load") \/ Call(c, "compLoad")
  BY <1>1 DEF Create, Call
<1>2. CASE RunThrows(c) \/ RunReturns(c) \/ RunRejects(c)
  BY <1>2 DEF RunThrows, RunReturns, RunRejects
<1>3. CASE Execute(c) \/ Land(c) \/ UndoLands(c) \/ Executed(c) \/ Undid(c)
  BY <1>3 DEF Execute, Land, UndoLands, Executed, Undid
<1>4. CASE Overtaken(c) \/ UndoLater(c) \/ BackoffInvalid(c) \/ UndoAborted(c)
  BY <1>4 DEF Overtaken, UndoLater, BackoffInvalid, UndoAborted
<1>5. CASE Abort(c) \/ Crash(c)
  BY <1>5 DEF Abort, Crash, Ended
<1>6. CASE Load(c) \/ CompLoad(c)
  BY <1>6 DEF Load, CompLoad
<1>7. CASE StepCalled(c)
  BY <1>7 DEF StepCalled, StepOutcome
<1>8. CASE Commit(c) \/ Returned(c) \/ Caught(c)
  BY <1>8 DEF Commit, Returned, Caught
<1>9. CASE Fail(c) \/ FailSave(c)
  BY <1>9 DEF Fail, FailSave, Why, FailAt, FailSaveAt, Threw
<1>10. CASE Release(c) \/ ReleaseSave(c)
  BY <1>10 DEF Release, ReleaseSave, Ended
<1>11. CASE Claim(c) \/ Review(c) \/ CompleteSave(c) \/ CompClaim(c)
  BY <1>11 DEF Claim, Review, CompleteSave, CompClaim
<1>12. CASE CompCheck(c) \/ UndoneAll(c) \/ UndoGivesUp(c)
  BY <1>12 DEF CompCheck, UndoneAll, UndoGivesUp
<1>13. CASE Intent(c) \/ CommitSave(c) \/ UndoneSave(c)
  BY <1>13 DEF Intent, CommitSave, UndoneSave
<1>14. CASE UndoStarts(c) \/ UndoFailedSave(c) \/ UndoInvalidSave(c)
  BY <1>14 DEF UndoStarts, UndoFailedSave, UndoInvalidSave
<1> QED
  BY <1>1, <1>2, <1>3, <1>4, <1>5, <1>6, <1>7, <1>8, <1>9, <1>10, <1>11, <1>12,
     <1>13, <1>14, ActsSplit DEF Moves, Reads, WritesState, WritesStep

(* A step on record stays on record. *)
LEMMA NeverForgotten ==
  ASSUME Typed, Once, NEW c \in Calls, Acts(c), NEW s \in Step, step[s] # "none"
  PROVE  step'[s] # "none"
<1>1. CASE Intent(c)
  BY <1>1, IntentEffect DEF Typed, TypeOK
<1>2. CASE Execute(c)
  BY <1>2 DEF Execute, record
<1>3. CASE UndoStarts(c)
  BY <1>3, UndoStartsEffect
<1>4. CASE ~Intent(c) /\ ~Execute(c) /\ ~UndoStarts(c)
  BY <1>4, OtherEffects
<1> QED
  BY <1>1, <1>2, <1>3, <1>4

LEMMA OnRecordKept ==
  ASSUME Typed, Once, NEW c \in Calls, Acts(c), OnRecord(c)
  PROVE  OnRecord(c)'
<1> SUFFICES ASSUME pc'[c] \in Recorded, at'[c] \in Step PROVE step'[at'[c]] # "none"
  BY DEF OnRecord
<1> USE DEF Typed, TypeOK, Recorded, Goto, Get, Save
<1>1. CASE pc[c] \in Recorded /\ at'[c] = at[c]
  BY <1>1, NeverForgotten DEF OnRecord
<1>2. CASE Create(c) \/ Call(c, "load") \/ Call(c, "compLoad")
  BY <1>2 DEF Create, Call
<1>3. CASE RunThrows(c) \/ RunReturns(c) \/ RunRejects(c)
  BY <1>3 DEF RunThrows, RunReturns, RunRejects
<1>4. CASE Execute(c) \/ Land(c) \/ UndoLands(c) \/ Executed(c) \/ Undid(c)
  BY <1>1, <1>4 DEF Execute, Land, UndoLands, Executed, Undid
<1>5. CASE Overtaken(c) \/ UndoLater(c) \/ BackoffInvalid(c)
  BY <1>1, <1>5 DEF Overtaken, UndoLater, BackoffInvalid
<1>6. CASE UndoAborted(c)
  BY <1>6 DEF UndoAborted, IsNextToUndo, ToUndo, record
<1>7. CASE Abort(c) \/ Crash(c)
  BY <1>1, <1>7 DEF Abort, Crash, Ended
<1>8. CASE Load(c) \/ CompLoad(c)
  BY <1>8 DEF Load, CompLoad
<1>9. CASE StepCalled(c)
  BY <1>9 DEF StepCalled, StepOutcome
<1>10. CASE Commit(c) \/ Returned(c) \/ Caught(c)
  BY <1>1, <1>10 DEF Commit, Returned, Caught
<1>11. CASE Fail(c)
  BY <1>11 DEF Fail, Why, FailAt, FailSaveAt, Threw, record
<1>12. CASE FailSave(c)
  BY <1>12 DEF FailSave, Why, FailSaveAt, Threw
<1>13. CASE Release(c) \/ ReleaseSave(c)
  BY <1>13 DEF Release, ReleaseSave, Ended
<1>14. CASE Claim(c) \/ Review(c) \/ CompleteSave(c) \/ CompClaim(c)
  BY <1>14 DEF Claim, Review, CompleteSave, CompClaim
<1>15. CASE CompCheck(c) \/ UndoneAll(c) \/ UndoGivesUp(c)
  BY <1>15 DEF CompCheck, UndoneAll, UndoGivesUp
<1>16. CASE Intent(c)
  BY <1>16 DEF Intent, ToStep
<1>17. CASE CommitSave(c) \/ UndoneSave(c)
  BY <1>1, <1>17 DEF CommitSave, UndoneSave
<1>18. CASE UndoStarts(c)
  <2> PICK s \in Step :
        /\ IsNextToUndo(s) /\ at' = [at EXCEPT ![c] = s]
        /\ step' = step \/ step' = [step EXCEPT ![s] = "compensating"]
    BY <1>18 DEF UndoStarts, ToStep, record
  <2> QED
    BY DEF IsNextToUndo, ToUndo
<1>19. CASE UndoFailedSave(c) \/ UndoInvalidSave(c)
  BY <1>1, <1>19 DEF UndoFailedSave, UndoInvalidSave
<1> QED
  BY <1>2, <1>3, <1>4, <1>5, <1>6, <1>7, <1>8, <1>9, <1>10, <1>11, <1>12, <1>13, <1>14,
     <1>15, <1>16, <1>17, <1>18, <1>19, ActsSplit DEF Moves, Reads, WritesState, WritesStep

(* What the others know and hold once a call has acted: their copies, if
   still current, say what they said, and an owner stays in order. *)
LEMMA OthersKept ==
  ASSUME Typed, Owned, NEW c \in Calls, Acts(c), NEW d \in Calls \ {c}
  PROVE  /\ Informed(d) => Informed(d)'
         /\ InOrder(d) => InOrder(d)'
         /\ AtNone(d) => AtNone(d)'
<1>1. CallTypes
  BY TypeParts DEF Typed
<1>2. /\ pc'[d] = pc[d] /\ at'[d] = at[d]
      /\ d \in fresh' => d \in fresh /\ UNCHANGED step
  BY <1>1, Overtakes
<1>3. d \in fresh' => UNCHANGED state \/ state = "absent"
  BY <1>1, StateSeen
<1>4. ASSUME Informed(d) PROVE Informed(d)'
  <2> SUFFICES ASSUME d \in fresh' PROVE Informed(d)'
    BY DEF Informed
  <2> QED
    BY <1>2, <1>3, <1>4 DEF Informed, InDoubt, OnlyInDoubt
<1>5. ASSUME InOrder(d) PROVE InOrder(d)'
  <2> SUFFICES ASSUME owner' = d PROVE InOrder(d)'
    BY DEF InOrder
  <2>1. owner = d /\ UNCHANGED step
    BY WhoWrites, CallsAssumption
  <2> QED
    BY <1>2, <1>5, <2>1 DEF InOrder, Through, Before
<1>6. AtNone(d) => AtNone(d)'
  BY <1>2 DEF AtNone
<1> QED
  BY <1>4, <1>5, <1>6

(* The call that acts goes by what it has just read, or written from a
   current copy. *)
LEMMA InformedKept ==
  ASSUME Typed, NEW c \in Calls, Acts(c), Informed(c), Alone(c)
  PROVE  Informed(c)'
<1> SUFFICES ASSUME c \in fresh' PROVE Informed(c)'
  BY DEF Informed
<1> USE DEF Typed, TypeOK, Informed, Goto
<1>1. CASE Create(c) \/ Call(c, "load") \/ Call(c, "compLoad")
  BY <1>1 DEF Create, Call
<1>2. CASE RunThrows(c) \/ RunReturns(c) \/ RunRejects(c)
  BY <1>2 DEF RunThrows, RunReturns, RunRejects
<1>3. CASE Execute(c) \/ Executed(c)
  BY <1>3 DEF Execute, Executed
<1>4. CASE Land(c) \/ UndoLands(c) \/ Abort(c)
  <2>1. /\ UNCHANGED <<record, pc, at, fresh>>
    BY <1>4 DEF Land, UndoLands, Abort
  <2> QED
    BY <2>1 DEF record, InDoubt, OnlyInDoubt
<1>5. CASE Overtaken(c) \/ UndoLater(c) \/ BackoffInvalid(c) \/ UndoAborted(c)
  BY <1>5 DEF Overtaken, UndoLater, BackoffInvalid, UndoAborted
<1>6. CASE Undid(c)
  <2>1. OnlyInDoubt(at[c]) /\ UNCHANGED <<record, at, fresh>> /\ pc[c] = "undoing"
    BY <1>6 DEF Undid, Alone, Active
  <2>2. pc'[c] \in {"undone", "undoFailed"}
    BY <1>6 DEF Undid
  <2> QED
    BY <2>1, <2>2 DEF record, InDoubt, OnlyInDoubt
<1>7. CASE Crash(c) \/ Release(c) \/ ReleaseSave(c)
  BY <1>7 DEF Crash, Release, ReleaseSave, Ended
<1>8. CASE Load(c) \/ CompLoad(c)
  BY <1>8 DEF Load, CompLoad, Get, record
<1>9. CASE StepCalled(c)
  BY <1>9 DEF StepCalled, StepOutcome, Get
<1>10. CASE Commit(c) \/ Returned(c) \/ Caught(c)
  BY <1>10 DEF Commit, Returned, Caught, Get
<1>11. CASE Fail(c) \/ FailSave(c)
  BY <1>11 DEF Fail, FailSave, Why, FailAt, FailSaveAt, Threw, Get, Save
<1>12. CASE Claim(c) \/ Review(c) \/ CompleteSave(c) \/ CompClaim(c)
  BY <1>12 DEF Claim, Review, CompleteSave, CompClaim, Save
<1>13. CASE CompCheck(c)
  <2>1. /\ pc'[c] \in {"release", "undo"}
        /\ pc'[c] = "undo" => state' = "compensating" /\ ~InDoubt /\ UNCHANGED step
    BY <1>13 DEF CompCheck, Save, ToState, record
  <2> QED
    BY <2>1 DEF InDoubt
<1>14. CASE UndoneAll(c) \/ UndoGivesUp(c)
  BY <1>14 DEF UndoneAll, UndoGivesUp, Save
<1>15. CASE Intent(c) \/ CommitSave(c)
  BY <1>15 DEF Intent, CommitSave, Save
<1>16. CASE UndoneSave(c)
  <2>1. /\ pc'[c] \in {"undo", "undoFailed"}
        /\ pc'[c] = "undo" => /\ c \in fresh /\ pc[c] = "undone" /\ UNCHANGED state
                              /\ step' = [step EXCEPT ![at[c]] = "compensated"]
    BY <1>16 DEF UndoneSave, Save, ToStep
  <2>2. ASSUME pc'[c] = "undo" PROVE ~InDoubt' /\ state' = "compensating"
    <3>1. OnlyInDoubt(at[c]) /\ state = "compensating"
      BY <2>1, <2>2
    <3> QED
      BY <2>1, <2>2, <3>1 DEF OnlyInDoubt, InDoubt, Unfinished
  <2> QED
    BY <2>1, <2>2
<1>17. CASE UndoStarts(c)
  <2>1. /\ pc'[c] \in {"undoing", "release", "undoFailed"}
        /\ c \in fresh /\ pc[c] = "undo" /\ UNCHANGED state
    BY <1>17 DEF UndoStarts, Save, ToStep, record
  <2> QED
    BY <2>1
<1>18. CASE UndoFailedSave(c) \/ UndoInvalidSave(c)
  BY <1>18 DEF UndoFailedSave, UndoInvalidSave, Save
<1> QED
  BY <1>1, <1>2, <1>3, <1>4, <1>5, <1>6, <1>7, <1>8, <1>9, <1>10, <1>11, <1>12, <1>13,
     <1>14, <1>15, <1>16, <1>17, <1>18, ActsSplit DEF Moves, Reads, WritesState, WritesStep

(* An owner's run goes past a step only once the step is committed. *)
LEMMA InOrderKept ==
  ASSUME Typed, Owned, ~Fallbacks, NEW c \in Calls, Acts(c), AtNone(c), InOrder(c)
  PROVE  InOrder(c)'
<1> SUFFICES ASSUME owner' = c PROVE InOrder(c)'
  BY DEF InOrder
<1>0. owner = c \/ Claim(c) \/ CompClaim(c)
  BY WhoWrites
<1> USE StepsAssumption DEF Typed, TypeOK, InOrder, Forward, Goto
<1>1. CASE Create(c) \/ Call(c, "load") \/ Call(c, "compLoad")
  BY <1>1 DEF Create, Call
<1>2. CASE RunThrows(c) \/ RunReturns(c) \/ RunRejects(c)
  BY <1>2 DEF RunThrows, RunReturns, RunRejects
<1>3. CASE Execute(c) \/ Land(c) \/ Executed(c) \/ Abort(c)
  <2>1. /\ UNCHANGED <<record, at>>
        /\ pc'[c] = "run" => pc[c] = "run"
        /\ pc'[c] \in Forward => pc[c] \in Forward
    BY <1>3 DEF Execute, Land, Executed, Abort
  <2> QED
    BY <1>0, <1>3, <2>1 DEF record, Through, Before, Claim, CompClaim, Execute, Land, Executed,
                       Abort
<1>4. CASE UndoLands(c) \/ Undid(c)
  BY <1>4 DEF UndoLands, Undid
<1>5. CASE Overtaken(c) \/ UndoLater(c) \/ BackoffInvalid(c) \/ UndoAborted(c)
  BY <1>5 DEF Overtaken, UndoLater, BackoffInvalid, UndoAborted
<1>6. CASE Crash(c) \/ Release(c) \/ ReleaseSave(c)
  BY <1>6 DEF Crash, Release, ReleaseSave, Ended
<1>7. CASE Load(c) \/ CompLoad(c)
  BY <1>7 DEF Load, CompLoad, Get
<1>8. CASE StepCalled(c)
  <2>1. owner = c /\ pc[c] = "run" /\ Through(c) /\ at[c] \in 0..Steps
    BY <1>0, <1>8 DEF StepCalled, Claim, CompClaim
  <2>2. /\ UNCHANGED step /\ at'[c] = at[c] + 1
        /\ pc'[c] \in {"conflicted", "run", "intent", "review", "threw"}
        /\ pc'[c] = "run" => step[at[c] + 1] = "committed"
    BY <1>8 DEF StepCalled, StepOutcome, Get, record
  <2>3. ASSUME NEW t \in Step, t <= at[c] PROVE step'[t] = "committed"
    BY <2>1, <2>2, <2>3 DEF Through
  <2>4. ASSUME NEW t \in Step, t < at'[c] PROVE step'[t] = "committed"
    <3>1. t <= at[c]
      BY <2>1, <2>2, <2>4 DEF Step
    <3> QED
      BY <2>3, <3>1
  <2>5. ASSUME NEW t \in Step, t <= at'[c], pc'[c] = "run" PROVE step'[t] = "committed"
    <3>1. PICK n \in Nat : n = at[c]
      BY <2>1
    <3>2. t \in Nat /\ t <= n + 1
      BY <2>2, <2>5, <3>1 DEF Step
    <3>3. t <= n \/ t = n + 1
      BY <3>2
    <3> QED
      BY <2>2, <2>3, <2>5, <3>1, <3>3
  <2> QED
    BY <2>4, <2>5 DEF Before, Through
<1>9. CASE Commit(c)
  <2>1. /\ UNCHANGED <<record, at>> /\ pc[c] = "commit"
        /\ pc'[c] \in {"commitSave", "failConflict", "failUnknown"}
    BY <1>9 DEF Commit, Get
  <2> QED
    BY <1>0, <2>1 DEF record, Before, Claim, CompClaim
<1>10. CASE Returned(c) \/ Caught(c)
  BY <1>10 DEF Returned, Caught, Get
<1>11. CASE Fail(c) \/ FailSave(c)
  BY <1>11 DEF Fail, FailSave, Why, FailAt, FailSaveAt, Threw, Get, Save
<1>12. CASE Claim(c)
  <2>1. /\ UNCHANGED at /\ pc'[c] \in {"run", "caught", "release"} /\ pc[c] = "claim"
    BY <1>12 DEF Claim, Save
  <2>2. Through(c)'
    BY <2>1 DEF AtNone, Through, Step
  <2> QED
    BY <2>1, <2>2
<1>13. CASE Review(c) \/ CompleteSave(c) \/ CompClaim(c)
  BY <1>13 DEF Review, CompleteSave, CompClaim, Save
<1>14. CASE CompCheck(c) \/ UndoneAll(c) \/ UndoGivesUp(c)
  BY <1>14 DEF CompCheck, UndoneAll, UndoGivesUp, Save
<1>15. CASE Intent(c)
  <2>1. /\ pc[c] = "intent" /\ owner = c /\ Before(c)
    BY <1>0, <1>15 DEF Intent, Claim, CompClaim
  <2>2. /\ UNCHANGED at /\ pc'[c] \in {"intended", "conflicted", "failKnown"}
        /\ step' = step \/ step' = [step EXCEPT ![at[c]] = "executing"]
    BY <1>15 DEF Intent, Save, ToStep, record
  <2>3. ASSUME NEW t \in Step, t < at[c] PROVE step'[t] = "committed"
    <3>1. step[t] = "committed" /\ t # at[c]
      BY <2>1, <2>3 DEF Before, Step
    <3> QED
      BY <2>2, <3>1
  <2> QED
    BY <2>2, <2>3 DEF Before
<1>16. CASE CommitSave(c)
  <2>1. /\ pc[c] = "commitSave" /\ owner = c /\ Before(c)
    BY <1>0, <1>16 DEF CommitSave, Claim, CompClaim
  <2>2. /\ UNCHANGED at /\ pc'[c] \in {"run", "failConflict", "failUnknown"}
        /\ pc'[c] = "run" => step' = [step EXCEPT ![at[c]] = "committed"]
    BY <1>16 DEF CommitSave, Save, ToStep
  <2>3. ASSUME NEW t \in Step, t <= at[c], pc'[c] = "run" PROVE step'[t] = "committed"
    <3>1. t < at[c] \/ t = at[c]
      BY <2>3 DEF Step
    <3> QED
      BY <2>1, <2>2, <2>3, <3>1 DEF Before
  <2> QED
    BY <2>2, <2>3 DEF Through
<1>17. CASE UndoneSave(c) \/ UndoStarts(c)
  BY <1>17 DEF UndoneSave, UndoStarts, Save
<1>18. CASE UndoFailedSave(c) \/ UndoInvalidSave(c)
  BY <1>18 DEF UndoFailedSave, UndoInvalidSave, Save
<1> QED
  BY <1>1, <1>2, <1>3, <1>4, <1>5, <1>6, <1>7, <1>8, <1>9, <1>10, <1>11, <1>12, <1>13,
     <1>14, <1>15, <1>16, <1>17, <1>18, ActsSplit DEF Moves, Reads, WritesState, WritesStep

(* Steps get on record in order. *)
LEMMA PrefixKept ==
  ASSUME Typed, Once, Owned, NEW c \in Calls, Acts(c), OnRecord(c), InOrder(c), Prefix
  PROVE  Prefix'
<1> USE DEF Typed, TypeOK
<1>1. CASE Intent(c)
  <2>1. CASE step' = step
    BY <2>1 DEF Prefix
  <2>2. CASE step' # step
    <3>1. /\ owner = c /\ pc[c] = "intent" /\ Before(c)
      BY <1>1, <2>2, WhoWrites DEF Intent, InOrder, Forward
    <3>2. step' = [step EXCEPT ![at[c]] = "executing"]
      BY <1>1, <2>2, IntentEffect
    <3> SUFFICES ASSUME NEW s \in Step, NEW t \in Step, s < t, step'[s] = "none"
                 PROVE  step'[t] = "none"
      BY DEF Prefix
    <3>3. step[s] = "none"
      BY <3>2
    <3>4. t # at[c]
      BY <3>1, <3>3 DEF Before
    <3>5. step[t] = "none"
      BY <3>3 DEF Prefix
    <3> QED
      BY <3>2, <3>4, <3>5
  <2> QED
    BY <2>1, <2>2
<1>2. CASE ~Intent(c)
  <2>1. ASSUME NEW s \in Step, step[s] = "none" PROVE step'[s] = "none"
    <3>1. CASE step' = step
      BY <2>1, <3>1
    <3>2. CASE UndoStarts(c)
      <4> PICK r \in Step :
            /\ IsNextToUndo(r)
            /\ step' = step \/ step' = [step EXCEPT ![r] = "compensating"]
        BY <3>2 DEF UndoStarts, Save, ToStep, record
      <4> QED
        BY <2>1 DEF IsNextToUndo, ToUndo
    <3>3. CASE step' # step /\ ~UndoStarts(c)
      <4>1. WritesStep(c)
        BY <3>3, WhoWrites
      <4>2. pc[c] \in Recorded /\ \E x : step' = [step EXCEPT ![at[c]] = x]
        BY <1>2, <3>3, <4>1 DEF WritesStep, CommitSave, FailSave, Why, FailSaveAt, UndoneSave,
             UndoFailedSave, UndoInvalidSave, Save, ToStep, record, Recorded
      <4>3. at[c] # s
        BY <2>1, <4>2 DEF OnRecord
      <4> QED
        BY <2>1, <4>2, <4>3
    <3> QED
      BY <3>1, <3>2, <3>3
  <2>2. ASSUME NEW s \in Step, step'[s] = "none" PROVE step[s] = "none"
    BY <2>2, NeverForgotten
  <2> QED
    BY <2>1, <2>2 DEF Prefix
<1> QED
  BY <1>1, <1>2

(* An owner that looks on stays one: whatever it reads or is refused, it
   does not get past a step in doubt. *)
LEMMA OnlookerKept ==
  ASSUME Typed, Owned, ~Fallbacks, NEW c \in Calls, Acts(c), AtNone(c), Informed(c),
         NEW d \in Calls \ {c}, pc[d] \in Active, Alone(d), owner' = c
  PROVE  /\ pc'[c] \in Onlooker
         /\ pc'[c] = "run" => pc[d] # "undoing" /\ at'[c] < at[d]
<1>1. /\ at[d] \in Step /\ step[at[d]] \in Unfinished
      /\ pc[d] # "undoing" => Before(d) /\ step[at[d]] = "executing"
      /\ pc[d] = "undoing" => state # "running"
      /\ Aside(c, d)
  BY DEF Alone, Active, Unfinished, Typed, Placed, AtUserCode
<1>2. CASE Claim(c)
  <2>1. /\ pc'[c] \in {"run", "caught", "release"} /\ at'[c] = 0
        /\ pc'[c] = "run" => state = "running"
    BY <1>2 DEF Claim, Save, Goto, AtNone, Informed, Typed, TypeOK
  <2> QED
    BY <1>1, <2>1 DEF Onlooker, Step
<1>3. CASE CompClaim(c)
  BY <1>3 DEF CompClaim, Save, Goto, Onlooker, Typed, TypeOK
<1>4. CASE owner = c
  <2>1. /\ pc[c] \in Onlooker
        /\ pc[c] = "run" => pc[d] # "undoing" /\ at[c] < at[d]
    BY <1>1, <1>4 DEF Aside
  <2> USE DEF Typed, TypeOK, Goto, Onlooker
  <2>2. CASE Create(c) \/ Call(c, "load") \/ Call(c, "compLoad")
    BY <2>2 DEF Create, Call
  <2>3. CASE RunThrows(c) \/ RunRejects(c)
    BY <2>3 DEF RunThrows, RunRejects
  <2>4. ~RunReturns(c)
    <3> SUFFICES ASSUME RunReturns(c) PROVE FALSE
      OBVIOUS
    <3>1. at[c] = Steps /\ at[c] < at[d]
      BY <2>1 DEF RunReturns
    <3> QED
      BY <1>1, <3>1, StepsAssumption DEF Step
  <2>5. CASE Abort(c)
    BY <2>1, <2>5 DEF Abort
  <2>6. CASE Crash(c) \/ Release(c) \/ ReleaseSave(c)
    BY <2>6 DEF Crash, Release, ReleaseSave, Ended
  <2>7. CASE Load(c) \/ CompLoad(c)
    BY <2>7 DEF Load, CompLoad, Get
  <2>8. CASE StepCalled(c)
    <3>0. pc[c] = "run" /\ pc[d] # "undoing" /\ at[c] < at[d] /\ at[c] < Steps
      BY <2>1, <2>8 DEF StepCalled
    <3>1. pc[c] = "run" /\ pc[d] # "undoing" /\ at[c] < at[d] /\ at[c] + 1 \in Step
      <4>1. PICK n \in 0..Steps : n = at[c]
        OBVIOUS
      <4>2. n < Steps
        BY <3>0, <4>1
      <4>3. n \in Nat /\ n + 1 \in Nat /\ 1 <= n + 1 /\ n + 1 <= Steps
        BY <4>2, StepsAssumption
      <4> QED
        BY <3>0, <4>1, <4>3, StepsAssumption DEF Step
    <3>2. at'[c] = at[c] + 1 /\ pc'[c] \in {StepOutcome(c, at[c] + 1), "threw"}
      BY <2>8 DEF StepCalled, Get
    <3>3. CASE at[c] + 1 = at[d]
      <4>1. StepOutcome(c, at[c] + 1) \in {"conflicted", "review"}
        BY <1>1, <3>1, <3>3 DEF StepOutcome
      <4> QED
        BY <3>2, <4>1
    <3>4. CASE at[c] + 1 # at[d]
      <4>1. at[c] + 1 < at[d]
        BY <1>1, <3>1, <3>4 DEF Step
      <4>2. step[at[c] + 1] = "committed"
        BY <1>1, <3>1, <4>1 DEF Before
      <4>3. StepOutcome(c, at[c] + 1) \in {"conflicted", "run"}
        BY <4>2 DEF StepOutcome
      <4> QED
        BY <3>1, <3>2, <4>1, <4>3
    <3> QED
      BY <3>3, <3>4
  <2>9. CASE Caught(c)
    BY <2>9 DEF Caught, Get
  <2>10. CASE Claim(c) \/ CompClaim(c)
    BY <1>2, <1>3, <2>10
  <2>11. CASE Review(c)
    BY <2>11 DEF Review, Save
  <2>12. CASE Overtaken(c)
    BY <2>12 DEF Overtaken
  <2>13. CASE CompCheck(c)
    <3>1. InDoubt
      BY <1>1 DEF InDoubt
    <3> QED
      BY <2>13, <3>1 DEF CompCheck, Save
  <2>14. ~Execute(c) /\ ~Land(c) /\ ~UndoLands(c) /\ ~Executed(c) /\ ~Undid(c)
    BY <2>1 DEF Execute, Land, UndoLands, Executed, Undid
  <2>15. ~UndoLater(c) /\ ~BackoffInvalid(c) /\ ~UndoAborted(c)
    BY <2>1 DEF UndoLater, BackoffInvalid, UndoAborted
  <2>16. ~Commit(c) /\ ~Returned(c) /\ ~Fail(c) /\ ~CompleteSave(c)
    BY <2>1 DEF Commit, Returned, Fail, Why, FailAt, CompleteSave
  <2>17. ~UndoneAll(c) /\ ~UndoGivesUp(c) /\ ~WritesStep(c)
    BY <2>1 DEF UndoneAll, UndoGivesUp, WritesStep, Intent, CommitSave, FailSave, Why,
       FailSaveAt, UndoStarts, UndoneSave, UndoFailedSave, UndoInvalidSave
  <2> QED
    BY <2>2, <2>3, <2>4, <2>5, <2>6, <2>7, <2>8, <2>9, <2>10, <2>11, <2>12, <2>13, <2>14,
       <2>15, <2>16, <2>17, ActsSplit DEF Moves, Reads, WritesState
<1> QED
  BY <1>2, <1>3, <1>4, WhoWrites

(* What starts user code, or gets to where it is about to start. *)
LEMMA BecomesActive ==
  ASSUME Typed, Owned, NEW c \in Calls, Acts(c), pc'[c] \in Active
  PROVE  \/ /\ pc[c] \in Active /\ (pc'[c] = "undoing" <=> pc[c] = "undoing")
            /\ UNCHANGED <<record, at>>
         \/ /\ Intent(c) /\ c \in fresh /\ owner = c /\ pc[c] = "intent"
            /\ pc'[c] = "intended" /\ UNCHANGED <<at, state, owner>>
            /\ step' = [step EXCEPT ![at[c]] = "executing"]
         \/ /\ UndoStarts(c) /\ c \in fresh /\ owner = c /\ pc[c] = "undo"
            /\ pc'[c] = "undoing" /\ UNCHANGED <<state, owner>>
            /\ at'[c] \in Step /\ step' = [step EXCEPT ![at'[c]] = "compensating"]
<1>1. CallTypes /\ pc'[c] \in AtUserCode
  BY TypeParts DEF Typed, Active, AtUserCode
<1> USE DEF Typed, TypeOK, Active, Goto, record
<1>2. CASE StepCalled(c)
  BY <1>2 DEF StepCalled, StepOutcome, Get
<1>3. CASE UndoStarts(c)
  <2>1. c \in fresh /\ pc[c] = "undo" /\ owner = c
    BY <1>3 DEF UndoStarts, Owned, OwnedBy, OwnerLabels
  <2>2. PICK s \in Step :
          /\ at' = [at EXCEPT ![c] = s]
          /\ Save(c, ToStep(s, "compensating", attempts[s] + 1, 0, state),
                  "undoing", "release", "undoFailed")
    BY <1>3 DEF UndoStarts
  <2>3. pc'[c] = "undoing" /\ UNCHANGED <<state, owner>>
        /\ step' = [step EXCEPT ![s] = "compensating"]
    BY <2>2 DEF Save, ToStep
  <2> QED
    BY <1>3, <2>1, <2>2, <2>3
<1>4. CASE pc[c] \in AtUserCode /\ at'[c] = at[c] /\ ~StepCalled(c) /\ ~UndoStarts(c)
  <2>1. CASE Intent(c)
    <3>1. c \in fresh /\ pc[c] = "intent" /\ pc'[c] = "intended"
          /\ UNCHANGED <<at, state, owner>> /\ step' = [step EXCEPT ![at[c]] = "executing"]
      BY <2>1 DEF Intent, Save, ToStep
    <3> QED
      BY <2>1, <3>1 DEF Owned, OwnedBy, OwnerLabels
  <2>2. CASE Moves(c)
    BY <1>4, <2>2 DEF AtUserCode, Moves, Call, RunThrows, RunReturns, RunRejects,
                Execute, Land, Executed, Overtaken, UndoAborted, UndoLater,
                UndoLands, Undid, BackoffInvalid, Abort, Crash, Ended
  <2>3. ~Create(c) /\ ~Reads(c) /\ ~WritesState(c)
    BY <1>4 DEF AtUserCode, Create, Reads, Load, StepCalled, Commit, Fail, Why, FailAt,
                Returned, Caught, CompLoad, Release, WritesState, Claim, Review,
                CompleteSave, CompClaim, CompCheck, UndoneAll, UndoGivesUp, ReleaseSave
  <2>4. WritesStep(c) => Intent(c)
    BY <1>4 DEF AtUserCode, WritesStep, CommitSave, FailSave, Why, FailSaveAt,
                UndoneSave, UndoFailedSave, UndoInvalidSave
  <2> QED
    BY <2>1, <2>2, <2>3, <2>4, ActsSplit
<1> QED
  BY <1>1, <1>2, <1>3, <1>4, Arrives

(* Alone is kept by the call that acts, which starts user code only where
   the record says that nobody else has any under way, *)
LEMMA AloneKeptActing ==
  ASSUME Typed, Once, Owned, ~Fallbacks, OneActive, NEW c \in Calls, Acts(c)
  PROVE  Alone(c)'
<1> SUFFICES ASSUME pc'[c] \in Active PROVE Alone(c)'
  BY DEF Alone
<1>1. /\ Prefix /\ InOrder(c) /\ Informed(c)
      /\ \A d \in Calls : Alone(d)
  BY DEF OneActive
<1>2. \A d \in Calls \ {c} : pc'[d] = pc[d] /\ at'[d] = at[d]
  BY Overtakes, TypeParts DEF Typed
<1>3. CASE /\ pc[c] \in Active /\ (pc'[c] = "undoing" <=> pc[c] = "undoing")
           /\ UNCHANGED <<record, at>>
  <2>1. Alone(c)
    BY <1>1
  <2> QED
    BY <1>2, <1>3, <2>1 DEF Alone, Aside, OnlyInDoubt, Before, record
<1>4. ASSUME owner = c, pc[c] \notin Onlooker PROVE \A d \in Calls \ {c} : pc[d] \notin Active
  BY <1>1, <1>4 DEF Alone, Aside
<1>5. CASE /\ Intent(c) /\ c \in fresh /\ owner = c /\ pc[c] = "intent"
           /\ pc'[c] = "intended" /\ UNCHANGED <<at, state, owner>>
           /\ step' = [step EXCEPT ![at[c]] = "executing"]
  <2>1. at[c] \in Step /\ step \in [Step -> StepState] /\ step[at[c]] = "none" /\ Before(c)
    BY <1>1, <1>5 DEF Typed, TypeOK, Placed, AtUserCode, Once, InOrder, Forward
  <2>2. \A d \in Calls \ {c} : pc[d] \notin Active
    BY <1>4, <1>5 DEF Onlooker
  <2>3. ASSUME NEW t \in Step, t # at[c] PROVE step[t] \in {"committed", "none"}
    <3>1. t < at[c] \/ at[c] < t
      BY <2>1, <2>3 DEF Step
    <3> QED
      BY <1>1, <2>1, <3>1 DEF Before, Prefix
  <2>4. OnlyInDoubt(at[c])'
    BY <1>5, <2>1, <2>3 DEF OnlyInDoubt, Unfinished
  <2>5. ASSUME NEW t \in Step, t < at[c] PROVE step'[t] = "committed"
    <3>1. t # at[c] /\ step[t] = "committed"
      BY <2>1, <2>5 DEF Before, Step
    <3> QED
      BY <1>5, <3>1
  <2>6. Before(c)'
    BY <1>5, <2>5 DEF Before
  <2>7. \A d \in Calls \ {c} : pc'[d] \notin Active /\ Aside(d, c)'
    BY <1>2, <1>5, <2>2 DEF Aside
  <2> QED
    BY <1>5, <2>1, <2>4, <2>6, <2>7 DEF Alone
<1>6. CASE /\ UndoStarts(c) /\ c \in fresh /\ owner = c /\ pc[c] = "undo"
           /\ pc'[c] = "undoing" /\ UNCHANGED <<state, owner>>
           /\ at'[c] \in Step /\ step' = [step EXCEPT ![at'[c]] = "compensating"]
  <2>1. state = "compensating" /\ ~InDoubt /\ step \in [Step -> StepState]
    BY <1>1, <1>6 DEF Informed, Typed, TypeOK
  <2>2. \A d \in Calls \ {c} : pc[d] \notin Active
    BY <1>4, <1>6 DEF Onlooker
  <2>3. OnlyInDoubt(at[c])'
    BY <1>6, <2>1 DEF OnlyInDoubt, InDoubt
  <2>4. \A d \in Calls \ {c} : pc'[d] \notin Active /\ Aside(d, c)'
    BY <1>2, <1>6, <2>2 DEF Aside
  <2> QED
    BY <1>6, <2>1, <2>3, <2>4 DEF Alone
<1> QED
  BY <1>3, <1>5, <1>6, BecomesActive

(* and for the others, whose step is in doubt to the call that acts. *)
LEMMA AloneKeptOthers ==
  ASSUME Typed, Owned, ~Fallbacks, OneActive, NEW c \in Calls, Acts(c),
         NEW d \in Calls \ {c}
  PROVE  Alone(d)'
<1>1. pc'[d] = pc[d] /\ at'[d] = at[d]
  BY Overtakes, TypeParts DEF Typed
<1> SUFFICES ASSUME pc[d] \in Active PROVE Alone(d)'
  BY <1>1 DEF Alone
<1>2. Alone(d) /\ AtNone(c) /\ Informed(c)
  BY DEF OneActive
<1>3. pc[c] \notin Active /\ Aside(c, d)
  BY <1>2 DEF Alone
<1>4. UNCHANGED step
  <2>1. owner = c => ~WritesStep(c)
    BY <1>3 DEF Aside, Onlooker, WritesStep, Intent, CommitSave, FailSave, Why, FailSaveAt,
                UndoStarts, UndoneSave, UndoFailedSave, UndoInvalidSave
  <2> QED
    BY <2>1, WhoWrites
<1>5. state' \in {"absent", "running"} => state \in {"absent", "running"}
  BY WhoWrites
<1>6. pc'[c] \notin Active
  BY <1>3, BecomesActive DEF Aside, Onlooker
<1>7. Aside(c, d)'
  BY <1>1, <1>2, OnlookerKept DEF Aside
<1>8. ASSUME NEW e \in Calls \ {c, d} PROVE pc'[e] \notin Active /\ Aside(e, d)'
  <2>1. pc'[e] = pc[e] /\ at'[e] = at[e]
    BY Overtakes, TypeParts DEF Typed
  <2>2. pc[e] \notin Active /\ Aside(e, d)
    BY <1>2 DEF Alone
  <2>3. owner' = e => owner = e
    BY WhoWrites, CallsAssumption
  <2> QED
    BY <1>1, <2>1, <2>2, <2>3 DEF Aside
<1> QED
  BY <1>1, <1>2, <1>4, <1>5, <1>6, <1>7, <1>8 DEF Alone, OnlyInDoubt, Before

(* A reviewer writes only while nobody is active: the step of an active
   call is the one in doubt, and that one is on its way. *)
LEMMA ReviewKeepsAlone ==
  ASSUME Typed, OneActive, NEW s \in Step, Resolve(s)
  PROVE  OneActive'
<1> USE DEF Typed, TypeOK
<1>1. UNCHANGED <<pc, at, owner>> /\ fresh' = {}
  BY DEF Resolve, ToStep
<1>2. /\ step[s] \in Unfinished
      /\ \E x \in StepState \ {"none"} : step' = [step EXCEPT ![s] = x]
  BY DEF Resolve, ToStep, Unfinished, StepState
<1>3. ASSUME NEW c \in Calls PROVE pc[c] \notin Active
  <2> SUFFICES ASSUME pc[c] \in Active PROVE FALSE
    OBVIOUS
  <2>1. at[c] = s
    BY <1>2 DEF OneActive, Alone, OnlyInDoubt
  <2> QED
    BY <2>1 DEF Resolve, OnItsWay, Active
<1>4. \A t \in Step : /\ step'[t] = "none" <=> step[t] = "none"
                      /\ step[t] = "committed" => step'[t] = "committed"
  BY <1>2 DEF Unfinished
<1>5. Prefix'
  BY <1>4 DEF OneActive, Prefix
<1>6. ASSUME NEW c \in Calls
      PROVE  (AtNone(c) /\ OnRecord(c) /\ InOrder(c) /\ Informed(c) /\ Alone(c))'
  <2>1. AtNone(c) /\ OnRecord(c) /\ InOrder(c)
    BY DEF OneActive
  <2>2. AtNone(c)' /\ OnRecord(c)'
    BY <1>1, <1>4, <2>1 DEF AtNone, OnRecord
  <2>3. InOrder(c)'
    BY <1>1, <1>4, <2>1 DEF InOrder, Through, Before
  <2>4. Informed(c)' /\ Alone(c)'
    BY <1>1, <1>3 DEF Informed, Alone
  <2> QED
    BY <2>2, <2>3, <2>4
<1> QED
  BY <1>5, <1>6 DEF OneActive

(* OneActive is inductive when run() passes errors on. *)
LEMMA OneActiveInductive ==
  ASSUME ~Fallbacks
  PROVE  /\ Init => OneActive
         /\ Typed /\ Once /\ Owned /\ OneActive /\ [Next]_vars => OneActive'
<1>1. ASSUME Init PROVE OneActive
  BY <1>1 DEF Init, OneActive, Prefix, AtNone, OnRecord, Recorded, InOrder, Forward,
             Informed, Alone, Active
<1>2. ASSUME Typed, Once, Owned, OneActive, NEW c \in Calls, Acts(c) PROVE OneActive'
  <2>1. \A d \in Calls : AtNone(d) /\ OnRecord(d) /\ InOrder(d) /\ Informed(d) /\ Alone(d)
    BY <1>2 DEF OneActive
  <2>2. Prefix'
    BY <1>2, <2>1, PrefixKept DEF OneActive
  <2>3. ASSUME NEW d \in Calls \ {c}
        PROVE  (AtNone(d) /\ OnRecord(d) /\ InOrder(d) /\ Informed(d) /\ Alone(d))'
    <3>1. pc'[d] = pc[d] /\ at'[d] = at[d]
      BY <1>2, Overtakes, TypeParts DEF Typed
    <3>2. \A s \in Step : step[s] # "none" => step'[s] # "none"
      BY <1>2, NeverForgotten
    <3>3. OnRecord(d)'
      BY <2>1, <3>1, <3>2 DEF OnRecord
    <3> QED
      BY <1>2, <2>1, <3>3, OthersKept, AloneKeptOthers
  <2>4. (AtNone(c) /\ OnRecord(c) /\ InOrder(c) /\ Informed(c) /\ Alone(c))'
    BY <1>2, <2>1, AtNoneKept, OnRecordKept, InOrderKept, InformedKept, AloneKeptActing
  <2>5. ASSUME NEW d \in Calls
        PROVE  (AtNone(d) /\ OnRecord(d) /\ InOrder(d) /\ Informed(d) /\ Alone(d))'
    BY <2>3, <2>4
  <2> QED
    BY <2>2, <2>5 DEF OneActive
<1>3. ASSUME Typed, OneActive, \E s \in Step : Resolve(s) PROVE OneActive'
  BY <1>3, ReviewKeepsAlone
<1>4. ASSUME OneActive, Tick \/ UNCHANGED vars PROVE OneActive'
  <2>1. UNCHANGED <<state, owner, step, pc, at, fresh>>
    BY <1>4 DEF Tick, vars, record
  <2>2. Prefix'
    BY <1>4, <2>1 DEF OneActive, Prefix
  <2>3. ASSUME NEW c \in Calls
        PROVE  (AtNone(c) /\ OnRecord(c) /\ InOrder(c) /\ Informed(c) /\ Alone(c))'
    <3>1. AtNone(c) /\ OnRecord(c) /\ InOrder(c) /\ Informed(c) /\ Alone(c)
      BY <1>4 DEF OneActive
    <3> QED
      BY <2>1, <3>1 DEF AtNone, OnRecord, InOrder, Through, Before, Informed, InDoubt,
         OnlyInDoubt, Alone, Aside
  <2> QED
    BY <2>2, <2>3 DEF OneActive
<1> QED
  BY <1>1, <1>2, <1>3, <1>4, NextSplit

(* Whoever loses a lease, takes a saga over or reviews it: while a call has
   a handler at the provider, no other call gets one there. *)
THEOREM OneHandlerAtATime == Spec => []AtMostOneHandler
<1>1. CASE Fallbacks
  <2>1. AtMostOneHandler
    BY <1>1 DEF AtMostOneHandler
  <2>2. []AtMostOneHandler
    BY <2>1, PTL
  <2> QED
    BY <2>2
<1>2. CASE ~Fallbacks
  <2>1. Init => Typed /\ Once /\ Bounded /\ Owned /\ OneActive
    BY <1>2, HistoryInductive, OwnedInductive, OneActiveInductive
  <2>2. Typed /\ Once /\ Bounded /\ Owned /\ OneActive /\ [Next]_vars
          => (Typed /\ Once /\ Bounded /\ Owned /\ OneActive)'
    BY <1>2, HistoryInductive, OwnedInductive, OneActiveInductive
  <2>3. Typed /\ Once /\ Bounded /\ Owned /\ OneActive => AtMostOneHandler
    BY DEF OneActive, Alone, Active, AtMostOneHandler
  <2> QED
    BY <2>1, <2>2, <2>3, PTL DEF Spec
<1> QED
  BY <1>1, <1>2

-----------------------------------------------------------------------------
(* The saga as its caller sees it *)

(* The argument, again for a run() that passes errors on.  The record tells
   the truth about the provider (Honest); a step in doubt has all before it
   committed and none after it on record, and only steps after which
   nothing is left to undo are undone (Ordered).  An owner at its run knows
   that nothing has been undone, and a current copy in a rollback that no
   step is in doubt. *)
Fails == {"failKnown", "failUnknown", "failConflict", "saveKnown", "saveUnknown",
          "saveConflict"}
AtStep == Forward \cup Fails
AtRun == AtStep \cup {"run", "review", "threw", "conflicted", "returned", "completeSave"}
AtUndo == {"undoing", "undone", "undoFailed", "undoInvalid"}

Undergoing == {"compensating", "compensation-failed", "compensated"}
Over == {"none", "failed", "compensated"}
Doubted == {"executing", "ambiguous"}

NothingUndone == undone = {} /\ \A s \in Step : step[s] \notin Undergoing
NoneBefore(s) == \A t \in Step : t < s => step[t] = "committed"
NoneAfter(s) == \A t \in Step : s < t => step[t] = "none"
LastToUndo(s) == \A t \in Step : s < t => step[t] \in Over

Honest(s) ==
  /\ step[s] \in {"none", "failed"} => s \notin landed
  /\ step[s] \in {"committed"} \cup Undergoing => s \in landed
  /\ step[s] = "compensated" => s \in undone
  /\ s \in undone => step[s] \in Undergoing

Ordered(s) ==
  /\ step[s] \in Doubted => /\ NoneBefore(s) /\ NoneAfter(s)
                            /\ state \in {"running", "manual-review"}
                            /\ NothingUndone
  /\ step[s] = "compensating" => state \in {"compensating", "manual-review"}
  /\ step[s] \in Undergoing => LastToUndo(s)

Truthful ==
  /\ state \in {"absent", "running", "completed"} => NothingUndone
  /\ \A s \in Step : Honest(s) /\ Ordered(s)

ByOwner(c) ==
  owner = c =>
    /\ pc[c] \in AtRun => NothingUndone /\ state \in Scanned
    /\ pc[c] \in AtStep => NoneBefore(at[c]) /\ NoneAfter(at[c])
    /\ pc[c] = "intent" => step[at[c]] = "none"
    /\ pc[c] \in {"failKnown", "saveKnown"} => at[c] \notin landed
    /\ pc[c] \in {"returned", "completeSave"} => \A s \in Step : step[s] = "committed"

ByCopy(c) ==
  c \in fresh =>
    /\ pc[c] \in {"intent", "review", "completeSave"} => state = "running"
    /\ pc[c] \in {"compClaim", "compCheck"} => state \in Scanned
    /\ pc[c] \in AtUndo \cup {"undo"} => /\ state = "compensating"
                                        /\ \A s \in Step : step[s] \notin Doubted
    /\ pc[c] \in AtUndo \ {"undoing"} =>
         step[at[c]] \in {"committed", "compensation-failed", "compensating"} /\ LastToUndo(at[c])

ByEffect(c) ==
  /\ pc[c] \in AtStep \cup AtUndo => at[c] \in Step
  /\ pc[c] = "intended" => at[c] \notin landed
  /\ pc[c] \in {"commit", "commitSave"} => at[c] \in landed
  /\ pc[c] \in AtUndo => at[c] \in landed
  /\ pc[c] = "undone" => at[c] \in undone

Awake == state = "absent" => \A c \in Calls : pc[c] = "idle"

InStep ==
  Truthful /\ Awake /\ \A c \in Calls : ByOwner(c) /\ ByCopy(c) /\ ByEffect(c)

Shown == [Outcome!Next]_(Outcome!vars)

(* The state changes and no step does. *)
LEMMA Turned ==
  ASSUME Typed, Truthful, UNCHANGED <<step, landed, undone>>,
         \/ state = "absent" /\ state' = "running"
         \/ state = "running" /\ state' = "completed" /\ \A s \in Step : step[s] = "committed"
         \/ state = "compensating" /\ state' = "compensated" /\ \A s \in Step : step[s] \in Over
         \/ state \in Scanned /\ state' = "compensating" /\ ~InDoubt
         \/ state \in Scanned /\ state' = "manual-review"
         \/ state' = state
  PROVE  Truthful' /\ Shown
<1>1. /\ UNCHANGED NothingUndone
      /\ \A s \in Step : UNCHANGED <<Honest(s), NoneBefore(s), NoneAfter(s), LastToUndo(s)>>
  BY DEF NothingUndone, Honest, NoneBefore, NoneAfter, LastToUndo
<1>2. ASSUME NEW s \in Step PROVE Honest(s)' /\ Ordered(s)'
  <2>1. Honest(s) /\ Ordered(s)
    BY DEF Truthful
  <2> QED
    BY <1>1, <2>1 DEF Ordered, InDoubt, Unfinished, Doubted, Over, Scanned
<1>3. state' \in {"absent", "running", "completed"} => NothingUndone'
  BY <1>1 DEF Truthful
<1>4. Truthful'
  BY <1>2, <1>3 DEF Truthful
<1>5. CASE state = "absent" /\ state' = "running"
  BY <1>4, <1>5 DEF Shown, Outcome!Next, Outcome!Accept
<1>6. CASE state = "running" /\ state' = "completed" /\ \A s \in Step : step[s] = "committed"
  <2>1. undone = {} /\ landed = Step
    BY <1>6 DEF Truthful, NothingUndone, Honest, Typed, TypeOK
  <2>2. Outcome!Complete
    BY <1>6, <2>1 DEF Outcome!Complete, Outcome!Step, Step
  <2> QED
    BY <1>4, <2>2 DEF Shown, Outcome!Next
<1>7. CASE state = "compensating" /\ state' = "compensated" /\ \A s \in Step : step[s] \in Over
  <2>1. \A s \in Step : s \in landed <=> s \in undone
    BY <1>7 DEF Truthful, Honest, Over, Undergoing
  <2>2. landed = undone
    BY <2>1 DEF Typed, TypeOK
  <2> QED
    BY <1>4, <1>7, <2>2 DEF Shown, Outcome!Next, Outcome!RolledBack
<1>8. CASE state \in Scanned /\ state' = "compensating"
  BY <1>4, <1>8 DEF Shown, Outcome!Next, Outcome!RollBack, Outcome!vars, Scanned
<1>9. CASE state \in Scanned /\ state' = "manual-review"
  BY <1>4, <1>9 DEF Shown, Outcome!Next, Outcome!AskForReview, Outcome!vars, Scanned
<1>10. CASE state' = state
  BY <1>4, <1>10 DEF Shown, Outcome!vars
<1> QED
  BY <1>4, <1>5, <1>6, <1>7, <1>8, <1>9, <1>10

(* A step is written, by the saga's owner or a reviewer.  What may be
   written is what the provider's side bears out. *)
Writes(s, x) ==
  /\ s \in Step /\ step'[s] = x /\ \A t \in Step \ {s} : step'[t] = step[t]
  /\ UNCHANGED <<landed, undone>>

(* While the saga runs: nothing has been undone, ... *)
LEMMA WrittenForward ==
  ASSUME Typed, Truthful, NothingUndone, NEW s, NEW x, Writes(s, x),
         NoneBefore(s), NoneAfter(s),
         state \in Scanned, state' \in Scanned,
         state' = "running" => state \in {"running", "manual-review"},
         \/ x = "executing" /\ s \notin landed /\ state' \in {"running", "manual-review"}
         \/ x = "committed" /\ s \in landed
         \/ x = "failed" /\ s \notin landed
         \/ x = "ambiguous" /\ state' = "manual-review"
  PROVE  Truthful' /\ Shown
<1> USE DEF Writes
<1>0. state \in SagaState /\ s \in Nat /\ Step \subseteq Nat
  BY DEF Typed, TypeOK, Step
<1>1. NothingUndone'
  BY DEF NothingUndone, Undergoing
<1>2. ASSUME NEW t \in Step PROVE Honest(t)'
  <2>1. CASE t = s
    BY <1>1, <2>1 DEF Honest, NothingUndone, Undergoing
  <2>2. CASE t # s
    BY <2>2 DEF Truthful, Honest
  <2> QED
    BY <2>1, <2>2
<1>3. \A t \in Step : step'[t] \in Doubted => t = s
  <2> SUFFICES ASSUME NEW t \in Step, t # s PROVE step'[t] \notin Doubted
    OBVIOUS
  <2>1. t < s \/ s < t
    BY <1>0
  <2> QED
    BY <2>1 DEF NoneBefore, NoneAfter, Doubted
<1>4. ASSUME NEW t \in Step, t < s PROVE step'[t] = "committed"
  <2>1. t # s /\ step[t] = "committed"
    BY <1>0, <1>4 DEF NoneBefore
  <2> QED
    BY <2>1
<1>5. ASSUME NEW t \in Step, s < t PROVE step'[t] = "none"
  <2>1. t # s /\ step[t] = "none"
    BY <1>0, <1>5 DEF NoneAfter
  <2> QED
    BY <2>1
<1>6. ASSUME NEW t \in Step PROVE Ordered(t)'
  <2>1. step'[t] \notin Undergoing
    BY <1>1 DEF NothingUndone
  <2>2. step'[t] \in Doubted => t = s /\ state' \in {"running", "manual-review"}
    BY <1>3 DEF Doubted
  <2> QED
    BY <1>1, <1>4, <1>5, <2>1, <2>2 DEF Ordered, NoneBefore, NoneAfter, Undergoing
<1>7. Truthful'
  BY <1>1, <1>2, <1>6 DEF Truthful
<1>8. CASE state' = state
  BY <1>7, <1>8 DEF Shown, Outcome!vars
<1>9. CASE state' = "compensating"
  BY <1>7, <1>9 DEF Shown, Outcome!Next, Outcome!RollBack, Outcome!vars, Scanned
<1>10. CASE state' = "manual-review"
  BY <1>7, <1>10 DEF Shown, Outcome!Next, Outcome!AskForReview, Outcome!vars, Scanned
<1>11. CASE state' = "running"
  BY <1>7, <1>11 DEF Shown, Outcome!Next, Outcome!GoOn, Outcome!vars, NothingUndone
<1> QED
  BY <1>7, <1>8, <1>9, <1>10, <1>11 DEF Scanned

(* ... and while it is rolled back: no step is in doubt but the one that is
   being undone, and what comes after it is over. *)
LEMMA WrittenBackward ==
  ASSUME Typed, Truthful, NEW s, NEW x, Writes(s, x),
         step[s] \in {"committed", "compensation-failed", "compensating"},
         \A t \in Step : step[t] \notin Doubted, LastToUndo(s),
         state \in {"compensating", "manual-review"},
         state' \in {"compensating", "manual-review"},
         \/ x \in {"compensating", "compensation-failed"}
         \/ x = "compensated" /\ s \in undone
  PROVE  Truthful' /\ Shown
<1> USE DEF Writes
<1>0. s \in Nat /\ Step \subseteq Nat
  BY DEF Step
<1>1. ASSUME NEW t \in Step PROVE Honest(t)'
  <2>1. CASE t = s
    BY <2>1 DEF Truthful, Honest, Undergoing
  <2>2. CASE t # s
    BY <2>2 DEF Truthful, Honest
  <2> QED
    BY <2>1, <2>2
<1>2. ASSUME NEW t \in Step, s < t PROVE step'[t] \in Over
  <2>1. t # s
    BY <1>0, <1>2
  <2> QED
    BY <1>2, <2>1 DEF LastToUndo
<1>3. ASSUME NEW t \in Step PROVE Ordered(t)'
  <2>1. step'[t] \notin Doubted
    BY DEF Doubted
  <2>2. ASSUME step'[t] \in Undergoing, t # s, NEW r \in Step, t < r PROVE step'[r] \in Over
    <3>1. step[r] \in Over
      BY <2>2 DEF Truthful, Ordered, LastToUndo
    <3>2. r # s
      BY <3>1 DEF Over
    <3> QED
      BY <3>1, <3>2
  <2> QED
    BY <1>2, <2>1, <2>2 DEF Ordered, LastToUndo
<1>4. Truthful'
  BY <1>1, <1>3 DEF Truthful
<1>5. CASE state' = state
  BY <1>4, <1>5 DEF Shown, Outcome!vars
<1>6. CASE state' = "compensating"
  BY <1>4, <1>6 DEF Shown, Outcome!Next, Outcome!RollBack, Outcome!vars
<1>7. CASE state' = "manual-review"
  BY <1>4, <1>7 DEF Shown, Outcome!Next, Outcome!AskForReview, Outcome!vars
<1> QED
  BY <1>4, <1>5, <1>6, <1>7

(* An effect takes place: it is the next one, and nothing has been undone. *)
LEMMA Landed ==
  ASSUME Typed, Truthful, NEW s \in Step, step[s] = "executing", s \notin landed,
         landed' = landed \cup {s}, UNCHANGED <<state, step, undone>>
  PROVE  Truthful' /\ Shown
<1>1. /\ UNCHANGED NothingUndone
      /\ \A t \in Step : UNCHANGED Ordered(t)
  BY DEF NothingUndone, Ordered, NoneBefore, NoneAfter, LastToUndo
<1>2. ASSUME NEW t \in Step PROVE Honest(t)'
  <2>1. Honest(t)
    BY DEF Truthful
  <2> QED
    BY <2>1 DEF Honest, Undergoing
<1>3. Truthful'
  BY <1>1, <1>2 DEF Truthful
<1>4. /\ NoneBefore(s) /\ NoneAfter(s) /\ NothingUndone
      /\ state \in {"running", "manual-review"}
  BY DEF Truthful, Ordered, Doubted
<1>5. landed = 1..(s - 1) /\ \A t \in landed : t < s
  <2>1. landed \subseteq Step /\ Step = 1..Steps /\ Steps \in Nat
    BY StepsAssumption DEF Typed, TypeOK, Step
  <2>2. ASSUME NEW t \in landed PROVE t < s
    <3>1. ~(s < t)
      BY <1>4, <2>1 DEF Truthful, Honest, NoneAfter
    <3> QED
      BY <2>1, <3>1
  <2>3. ASSUME NEW t \in Step, t < s PROVE t \in landed
    BY <1>4, <2>3 DEF Truthful, Honest, NoneBefore
  <2>4. ASSUME NEW t \in 1..(s - 1) PROVE t \in landed
    <3>1. t \in Step /\ t < s
      BY <2>1
    <3> QED
      BY <2>3, <3>1
  <2>5. ASSUME NEW t \in landed PROVE t \in 1..(s - 1)
    <3>1. t \in Step /\ t < s
      BY <2>1, <2>2
    <3> QED
      BY <2>1, <3>1
  <2>6. landed = 1..(s - 1)
    BY <2>4, <2>5
  <2> QED
    BY <2>2, <2>6
<1>6. Outcome!Land(s)
  BY <1>4, <1>5 DEF Outcome!Land, NothingUndone
<1>7. s \in Outcome!Step
  BY DEF Outcome!Step, Step
<1> QED
  BY <1>3, <1>6, <1>7 DEF Shown, Outcome!Next

(* A compensation takes place: all later effects have been undone. *)
LEMMA Undone ==
  ASSUME Typed, Truthful, NEW s \in Step, step[s] = "compensating",
         undone' = undone \cup {s}, UNCHANGED <<state, step, landed>>
  PROVE  Truthful' /\ Shown
<1>1. /\ LastToUndo(s) /\ s \in landed /\ state \in {"compensating", "manual-review"}
      /\ ~NothingUndone
  BY DEF Truthful, Honest, Ordered, NothingUndone, Undergoing
<1>2. ASSUME NEW t \in Step PROVE Honest(t)' /\ Ordered(t)'
  <2>1. Honest(t) /\ Ordered(t)
    BY DEF Truthful
  <2>2. Honest(t)'
    BY <2>1 DEF Honest, Undergoing
  <2>3. Ordered(t)'
    BY <1>1, <2>1 DEF Ordered, LastToUndo
  <2> QED
    BY <2>2, <2>3
<1>3. Truthful'
  BY <1>1, <1>2 DEF Truthful
<1>4. \A t \in landed : t > s => t \in undone
  <2> SUFFICES ASSUME NEW t \in landed, t > s PROVE t \in undone
    OBVIOUS
  <2>1. t \in Step /\ s < t
    BY DEF Typed, TypeOK, Step
  <2> QED
    BY <1>1, <2>1 DEF LastToUndo, Over, Truthful, Honest
<1>5. Outcome!Undo(s)
  BY <1>1, <1>4 DEF Outcome!Undo
<1>6. s \in Outcome!Step
  BY DEF Outcome!Step, Step
<1> QED
  BY <1>3, <1>5, <1>6 DEF Shown, Outcome!Next

(* Every step of a call that acts as the invariant says keeps the record
   true and is a step of the saga its caller sees, or none. *)
LEMMA ActsTruthfully ==
  ASSUME Typed, Once, Owned, OneActive, InStep, NEW c \in Calls, Acts(c)
  PROVE  Truthful' /\ Shown
<1>1. /\ Truthful /\ ByOwner(c) /\ ByCopy(c) /\ ByEffect(c) /\ Alone(c)
      /\ c \in fresh => OwnedBy(c)
      /\ c \in fresh => Informed(c)
  BY DEF InStep, OneActive, Owned
<1> USE DEF Typed, TypeOK
<1>2. CASE UNCHANGED <<state, step, landed, undone>>
  BY <1>1, <1>2, Turned
<1>3. CASE Create(c)
  <2>1. state = "absent" /\ state' = "running" /\ UNCHANGED <<step, landed, undone>>
    BY <1>3 DEF Create, provider
  <2> QED
    BY <1>1, <2>1, Turned
<1>4. CASE Land(c)
  <2>1. /\ at[c] \in Step /\ step[at[c]] = "executing" /\ at[c] \notin landed
        /\ landed' = landed \cup {at[c]} /\ UNCHANGED <<state, step, undone>>
    BY <1>1, <1>4 DEF Land, Alone, Active, Placed, AtUserCode, record
  <2> QED
    BY <1>1, <2>1, Landed
<1>5. CASE UndoLands(c)
  <2>1. /\ at[c] \in Step /\ step[at[c]] = "compensating"
        /\ undone' = undone \cup {at[c]} /\ UNCHANGED <<state, step, landed>>
    BY <1>1, <1>5 DEF UndoLands, Alone, Active, Placed, AtUserCode, record
  <2> QED
    BY <1>1, <2>1, Undone
<1>6. CASE (Moves(c) \/ Reads(c)) /\ ~Land(c) /\ ~UndoLands(c)
  <2>1. UNCHANGED record
    BY <1>6, RecordKept
  <2>2. UNCHANGED <<landed, undone>>
    BY <1>6, ProviderKept DEF provider, Execute, UndoStarts, Moves, Reads
  <2> QED
    BY <1>2, <2>1, <2>2 DEF record
<1>7. CASE Claim(c) \/ CompClaim(c) \/ ReleaseSave(c)
  <2>1. UNCHANGED <<state, step, landed, undone>>
    BY <1>7 DEF Claim, CompClaim, ReleaseSave, Save, ToOwner, record, provider
  <2> QED
    BY <1>2, <2>1
<1>8. CASE Review(c)
  <2>1. /\ UNCHANGED <<step, landed, undone>>
        /\ state' = state \/ (state = "running" /\ state' = "manual-review")
    BY <1>1, <1>8 DEF Review, Save, ToState, record, provider, ByCopy
  <2> QED
    BY <1>1, <2>1, Turned DEF Scanned
<1>9. CASE CompleteSave(c)
  <2>1. /\ UNCHANGED <<step, landed, undone>>
        /\ \/ state' = state
           \/ c \in fresh /\ pc[c] = "completeSave" /\ state' = "completed"
    BY <1>9 DEF CompleteSave, Save, ToState, record, provider
  <2>2. c \in fresh /\ pc[c] = "completeSave" =>
          state = "running" /\ \A s \in Step : step[s] = "committed"
    BY <1>1 DEF ByCopy, ByOwner, OwnedBy, OwnerLabels
  <2> QED
    BY <1>1, <2>1, <2>2, Turned
<1>10. CASE CompCheck(c)
  <2>1. /\ UNCHANGED <<step, landed, undone>> /\ state \in Scanned
        /\ \/ state' = state
           \/ state' = "manual-review"
           \/ state' = "compensating" /\ ~InDoubt
    BY <1>1, <1>10 DEF CompCheck, Save, ToState, record, provider, ByCopy
  <2> QED
    BY <1>1, <2>1, Turned
<1>11. CASE UndoneAll(c) \/ UndoGivesUp(c)
  <2>1. /\ UNCHANGED <<step, landed, undone>> /\ state = "compensating" /\ ~InDoubt
        /\ \/ state' = state
           \/ state' = "manual-review"
           \/ state' = "compensated" /\ ToUndo = {}
    BY <1>1, <1>11 DEF UndoneAll, UndoGivesUp, Save, ToState, record, provider, Informed
  <2>2. ToUndo = {} => \A s \in Step : step[s] \in Over
    BY <2>1 DEF ToUndo, InDoubt, Unfinished, StepState, Over
  <2> QED
    BY <1>1, <2>1, <2>2, Turned DEF Scanned
<1>12. CASE Intent(c) \/ CommitSave(c) \/ FailSave(c)
  <2>1. UNCHANGED <<landed, undone>>
    BY <1>12 DEF Intent, CommitSave, FailSave, provider
  <2>2. CASE UNCHANGED record
    BY <1>2, <2>1, <2>2 DEF record
  <2>3. CASE c \in fresh /\ ~UNCHANGED record
    <3>1. pc[c] \in {"intent", "commitSave", "saveKnown", "saveUnknown", "saveConflict"}
      BY <1>12 DEF Intent, CommitSave, FailSave, Why, FailSaveAt
    <3>2. owner = c
      BY <1>1, <2>3, <3>1 DEF OwnedBy, OwnerLabels
    <3>3. /\ at[c] \in Step /\ NothingUndone /\ state \in Scanned
          /\ NoneBefore(at[c]) /\ NoneAfter(at[c])
      BY <1>1, <3>1, <3>2 DEF ByOwner, ByEffect, AtRun, AtStep, Forward, Fails
    <3>4. PICK x \in {"executing", "committed", "failed", "ambiguous"} :
            /\ step' = [step EXCEPT ![at[c]] = x]
            /\ \/ Intent(c) /\ x = "executing" /\ state' = state
               \/ CommitSave(c) /\ x = "committed" /\ state' = state
               \/ FailSave(c) /\ pc[c] = "saveKnown" /\ x = "failed"
                  /\ state' = "compensating"
               \/ FailSave(c) /\ x = "ambiguous" /\ state' = "manual-review"
      BY <1>12, <2>3 DEF Intent, CommitSave, FailSave, Why, FailSaveAt, Save, ToStep
    <3>5. Writes(at[c], x)
      BY <2>1, <3>3, <3>4 DEF Writes
    <3>6. Intent(c) => state = "running" /\ at[c] \notin landed
      <4>1. Intent(c) => pc[c] = "intent"
        BY DEF Intent
      <4> QED
        BY <1>1, <2>3, <3>2, <3>3, <4>1 DEF ByCopy, ByOwner, Truthful, Honest
    <3>7. CommitSave(c) => at[c] \in landed
      BY <1>1 DEF CommitSave, ByEffect
    <3>8. pc[c] = "saveKnown" => at[c] \notin landed
      BY <1>1, <3>2 DEF ByOwner
    <3> QED
      BY <1>1, <3>3, <3>4, <3>5, <3>6, <3>7, <3>8, WrittenForward DEF Scanned
  <2> QED
    BY <1>12, <2>2, <2>3 DEF Intent, CommitSave, FailSave, Save
<1>13. CASE UndoStarts(c)
  <2>0. PICK s \in Step :
          /\ IsNextToUndo(s)
          /\ Save(c, ToStep(s, "compensating", attempts[s] + 1, 0, state),
                  "undoing", "release", "undoFailed")
    BY <1>13 DEF UndoStarts
  <2>1. /\ IsNextToUndo(s)
        /\ state' = state
        /\ UNCHANGED record \/ step' = [step EXCEPT ![s] = "compensating"]
    BY <2>0 DEF Save, ToStep, record
  <2>2. state = "compensating" /\ ~InDoubt /\ UNCHANGED <<landed, undone>>
    BY <1>1, <1>13 DEF UndoStarts, Informed
  <2>3. step[s] \in {"committed", "compensation-failed"}
    BY <2>1 DEF IsNextToUndo, ToUndo
  <2>4. LastToUndo(s)
    <3> SUFFICES ASSUME NEW t \in Step, s < t PROVE step[t] \in Over
      BY DEF LastToUndo
    <3>1. t \notin ToUndo
      BY <2>1 DEF IsNextToUndo, Step
    <3> QED
      BY <2>2, <3>1 DEF ToUndo, InDoubt, Unfinished, StepState, Over
  <2>5. CASE UNCHANGED record
    BY <1>2, <2>2, <2>5 DEF record
  <2>6. CASE step' = [step EXCEPT ![s] = "compensating"] /\ state' = state
    <3>1. Writes(s, "compensating")
      BY <2>2, <2>6 DEF Writes
    <3>2. \A t \in Step : step[t] \notin Doubted
      BY <2>2 DEF InDoubt, Unfinished, Doubted
    <3> QED
      BY <1>1, <2>2, <2>3, <2>4, <2>6, <3>1, <3>2, WrittenBackward
  <2> QED
    BY <2>1, <2>5, <2>6
<1>14. CASE UndoneSave(c) \/ UndoFailedSave(c) \/ UndoInvalidSave(c)
  <2>1. UNCHANGED <<landed, undone>>
    BY <1>14 DEF UndoneSave, UndoFailedSave, UndoInvalidSave, provider
  <2>2. CASE UNCHANGED record
    BY <1>2, <2>1, <2>2 DEF record
  <2>3. CASE c \in fresh /\ ~UNCHANGED record
    <3>1. pc[c] \in {"undone", "undoFailed", "undoInvalid"}
      BY <1>14 DEF UndoneSave, UndoFailedSave, UndoInvalidSave
    <3>2. /\ at[c] \in Step /\ state = "compensating"
          /\ \A s \in Step : step[s] \notin Doubted
          /\ step[at[c]] \in {"committed", "compensation-failed", "compensating"}
          /\ LastToUndo(at[c])
      BY <1>1, <2>3, <3>1 DEF ByCopy, ByEffect, AtUndo
    <3>3. PICK x :
            /\ step' = [step EXCEPT ![at[c]] = x]
            /\ state' \in {"compensating", "manual-review"}
            /\ \/ UndoneSave(c) /\ x = "compensated"
               \/ x = "compensation-failed"
      <4>1. CASE UndoneSave(c)
        BY <2>3, <3>2, <4>1 DEF UndoneSave, Save, ToStep
      <4>2. CASE UndoFailedSave(c)
        BY <2>3, <4>2 DEF UndoFailedSave, Save, ToStep
      <4>3. CASE UndoInvalidSave(c)
        BY <2>3, <4>3 DEF UndoInvalidSave, Save, ToStep
      <4> QED
        BY <1>14, <4>1, <4>2, <4>3
    <3>4. Writes(at[c], x)
      BY <2>1, <3>2, <3>3 DEF Writes
    <3>5. UndoneSave(c) => at[c] \in undone
      BY <1>1 DEF UndoneSave, ByEffect
    <3> QED
      BY <1>1, <3>2, <3>3, <3>4, <3>5, WrittenBackward
  <2> QED
    BY <1>14, <2>2, <2>3 DEF UndoneSave, UndoFailedSave, UndoInvalidSave, Save
<1> QED
  BY <1>3, <1>4, <1>5, <1>6, <1>7, <1>8, <1>9, <1>10, <1>11, <1>12, <1>13, <1>14, ActsSplit
     DEF WritesState, WritesStep

(* What holds of the other calls goes on to hold: a call that acts writes
   only as the owner, and takes no step of theirs to the provider. *)
LEMMA StateWriter ==
  ASSUME Typed, Owned, NEW c \in Calls, Acts(c), state' # state
  PROVE  owner = c \/ state = "absent"
<1> USE DEF Owned, OwnedBy, OwnerLabels, record
<1>1. CASE Create(c)
  BY <1>1 DEF Create
<1>2. CASE Moves(c) \/ Reads(c)
  BY <1>2, RecordKept
<1>3. CASE Claim(c) \/ CompClaim(c) \/ ReleaseSave(c)
  BY <1>3 DEF Claim, CompClaim, ReleaseSave, Save, ToOwner
<1>4. CASE Review(c) \/ CompleteSave(c) \/ CompCheck(c) \/ UndoneAll(c) \/ UndoGivesUp(c)
  BY <1>4 DEF Review, CompleteSave, CompCheck, UndoneAll, UndoGivesUp, Save
<1>5. CASE WritesStep(c)
  BY <1>5 DEF WritesStep, Intent, CommitSave, FailSave, Why, FailSaveAt, UndoStarts,
              UndoneSave, UndoFailedSave, UndoInvalidSave, Save
<1> QED
  BY <1>1, <1>2, <1>3, <1>4, <1>5, ActsSplit DEF WritesState

LEMMA OthersInStep ==
  ASSUME Typed, Once, Owned, OneActive, InStep, NEW c \in Calls, Acts(c), NEW d \in Calls \ {c}
  PROVE  ByOwner(d)' /\ ByCopy(d)' /\ ByEffect(d)'
<1>0. CallTypes
  BY TypeParts DEF Typed
<1>1. /\ pc'[d] = pc[d] /\ at'[d] = at[d]
      /\ d \in fresh' => d \in fresh /\ UNCHANGED step
  BY <1>0, Overtakes
<1>2. /\ Truthful /\ ByOwner(d) /\ ByCopy(d) /\ ByEffect(d)
      /\ Alone(c) /\ Alone(d)
  BY DEF InStep, OneActive
<1>3. /\ landed' = landed \/ (Land(c) /\ landed' = landed \cup {at[c]})
      /\ undone' = undone \/ (UndoLands(c) /\ undone' = undone \cup {at[c]})
  <2>1. CASE Land(c)
    BY <2>1 DEF Land
  <2>2. CASE UndoLands(c)
    BY <2>2 DEF UndoLands
  <2>3. CASE Execute(c) \/ UndoStarts(c)
    BY <2>3 DEF Execute, UndoStarts
  <2> QED
    BY <2>1, <2>2, <2>3, ProviderKept DEF provider
<1>4. ByCopy(d)'
  <2> SUFFICES ASSUME d \in fresh' PROVE ByCopy(d)'
    BY DEF ByCopy
  <2>1. UNCHANGED state \/ state = "absent"
    BY <1>0, StateSeen
  <2>2. d \in fresh /\ UNCHANGED step
    BY <1>1
  <2> QED
    BY <1>1, <1>2, <2>1, <2>2 DEF ByCopy, Scanned, LastToUndo
<1>5. ByEffect(d)'
  <2>1. Land(c) => pc[d] # "intended"
    BY <1>2 DEF Land, Alone, Active
  <2> QED
    BY <1>1, <1>2, <1>3, <2>1 DEF ByEffect
<1>6. ByOwner(d)'
  <2> SUFFICES ASSUME owner' = d PROVE ByOwner(d)'
    BY DEF ByOwner
  <2>1. owner = d /\ UNCHANGED step
    BY WhoWrites, CallsAssumption
  <2>2. pc[d] \in AtRun => UNCHANGED <<state, undone>>
    <3> SUFFICES ASSUME pc[d] \in AtRun PROVE UNCHANGED <<state, undone>>
      OBVIOUS
    <3>1. NothingUndone /\ state \in Scanned
      BY <1>2, <2>1 DEF ByOwner
    <3>2. UNCHANGED state
      BY <2>1, <3>1, StateWriter DEF Scanned
    <3>3. ~UndoLands(c)
      BY <1>2, <3>1 DEF UndoLands, Alone, Active, NothingUndone, Undergoing, Typed, Placed,
         AtUserCode
    <3> QED
      BY <1>3, <3>2, <3>3
  <2>3. pc[d] \in {"failKnown", "saveKnown"} => UNCHANGED landed
    <3>1. Land(c) => pc[d] \in Onlooker
      BY <1>2, <2>1 DEF Land, Alone, Active, Aside
    <3> QED
      BY <1>3, <3>1 DEF Onlooker
  <2> QED
    BY <1>1, <1>2, <2>1, <2>2, <2>3
       DEF ByOwner, NothingUndone, NoneBefore, NoneAfter, AtRun, AtStep, Forward, Fails
<1> QED
  BY <1>4, <1>5, <1>6

(* The call that acts knows what it has read and done: where its effects
   are, *)
LEMMA ByEffectKept ==
  ASSUME Typed, Once, OneActive, InStep, NEW c \in Calls, Acts(c)
  PROVE  ByEffect(c)'
<1>1. Truthful /\ ByCopy(c) /\ ByEffect(c)
  BY DEF InStep
<1>2. landed \subseteq landed' /\ undone \subseteq undone'
  <2>1. CASE Execute(c) \/ Land(c) \/ UndoLands(c) \/ UndoStarts(c)
    BY <2>1 DEF Execute, Land, UndoLands, UndoStarts
  <2>2. CASE UNCHANGED provider
    BY <2>2 DEF provider
  <2> QED
    BY <2>1, <2>2, ProviderKept
<1> USE StepsAssumption
        DEF Typed, TypeOK, ByEffect, AtStep, AtUndo, Forward, Fails, Goto, Get, Save
<1>3. CASE Create(c) \/ Call(c, "load") \/ Call(c, "compLoad")
  BY <1>3 DEF Create, Call
<1>4. CASE RunThrows(c) \/ RunReturns(c) \/ RunRejects(c)
  BY <1>4 DEF RunThrows, RunReturns, RunRejects
<1>5. CASE Execute(c)
  BY <1>1, <1>5 DEF Execute
<1>6. CASE Land(c) \/ Executed(c)
  BY <1>1, <1>2, <1>6 DEF Land, Executed, provider
<1>7. CASE UndoLands(c) \/ Undid(c)
  BY <1>1, <1>2, <1>7 DEF UndoLands, Undid, provider
<1>8. CASE Abort(c) \/ BackoffInvalid(c)
  BY <1>1, <1>8 DEF Abort, BackoffInvalid, provider
<1>9. CASE Overtaken(c) \/ UndoLater(c)
  BY <1>9 DEF Overtaken, UndoLater
<1>10. CASE UndoAborted(c)
  BY <1>1, <1>10 DEF UndoAborted, provider, IsNextToUndo, ToUndo, Truthful, Honest, Undergoing
<1>11. CASE Crash(c) \/ Release(c) \/ ReleaseSave(c)
  BY <1>11 DEF Crash, Release, ReleaseSave, Ended
<1>12. CASE Load(c) \/ CompLoad(c)
  BY <1>12 DEF Load, CompLoad
<1>13. CASE StepCalled(c)
  <2>1. at'[c] = at[c] + 1 /\ at[c] < Steps /\ at[c] \in 0..Steps
        /\ pc'[c] \in {"conflicted", "run", "intent", "review", "threw"}
    BY <1>13 DEF StepCalled, StepOutcome
  <2>2. at'[c] \in Step
    BY <2>1 DEF Step
  <2> QED
    BY <2>1, <2>2
<1>14. CASE Commit(c)
  BY <1>1, <1>14 DEF Commit, provider
<1>15. CASE Returned(c) \/ Caught(c)
  BY <1>15 DEF Returned, Caught
<1>16. CASE Fail(c) \/ FailSave(c)
  BY <1>1, <1>16 DEF Fail, FailSave, Why, FailAt, FailSaveAt, Threw
<1>17. CASE Claim(c) \/ Review(c) \/ CompleteSave(c) \/ CompClaim(c)
  BY <1>17 DEF Claim, Review, CompleteSave, CompClaim
<1>18. CASE CompCheck(c) \/ UndoneAll(c) \/ UndoGivesUp(c)
  BY <1>18 DEF CompCheck, UndoneAll, UndoGivesUp
<1>19. CASE Intent(c)
  <2>1. /\ pc[c] = "intent" /\ at' = at /\ landed' = landed
        /\ pc'[c] \in {"intended", "conflicted", "failKnown"}
        /\ pc'[c] = "intended" => c \in fresh
    BY <1>19 DEF Intent, provider
  <2>2. c \in fresh => step[at[c]] = "none" /\ at[c] \in Step
    BY <1>1, <2>1 DEF Once
  <2> QED
    BY <1>1, <2>1, <2>2 DEF Truthful, Honest
<1>20. CASE CommitSave(c) \/ UndoneSave(c)
  BY <1>1, <1>20 DEF CommitSave, UndoneSave, provider
<1>21. CASE UndoStarts(c)
  <2>1. PICK s \in Step :
          /\ IsNextToUndo(s) /\ at' = [at EXCEPT ![c] = s]
          /\ pc'[c] \in {"undoing", "release", "undoFailed"}
          /\ UNCHANGED <<landed, undone>>
    BY <1>21 DEF UndoStarts
  <2>2. s \in landed
    BY <1>1, <2>1 DEF IsNextToUndo, ToUndo, Truthful, Honest, Undergoing
  <2> QED
    BY <2>1, <2>2
<1>22. CASE UndoFailedSave(c) \/ UndoInvalidSave(c)
  BY <1>1, <1>22 DEF UndoFailedSave, UndoInvalidSave, provider
<1> QED
  BY <1>3, <1>4, <1>5, <1>6, <1>7, <1>8, <1>9, <1>10, <1>11, <1>12, <1>13, <1>14, <1>15,
     <1>16, <1>17, <1>18, <1>19, <1>20, <1>21, <1>22, ActsSplit
     DEF Moves, Reads, WritesState, WritesStep

(* that the saga has been accepted, *)
LEMMA AwakeKept ==
  ASSUME Typed, Awake, NEW c \in Calls, Acts(c)
  PROVE  state' # "absent" /\ (~Create(c) => state # "absent")
<1> USE DEF record
<1>1. CASE Create(c)
  BY <1>1 DEF Create
<1>2. CASE ~Create(c)
  <2>1. state # "absent"
    <3>1. CASE Moves(c)
      BY <3>1 DEF Awake, Moves, Call, RunThrows, RunReturns, RunRejects, Execute, Land,
           Executed, Overtaken, UndoAborted, UndoLater, UndoLands, Undid, BackoffInvalid,
           Abort, Crash
    <3>2. CASE Reads(c)
      BY <3>2 DEF Awake, Reads, Load, StepCalled, Commit, Fail, Why, FailAt, Returned,
           Caught, CompLoad, Release
    <3>3. CASE WritesState(c)
      BY <3>3 DEF Awake, WritesState, Claim, Review, CompleteSave, CompClaim, CompCheck,
           UndoneAll, UndoGivesUp, ReleaseSave
    <3>4. CASE WritesStep(c)
      BY <3>4 DEF Awake, WritesStep, Intent, CommitSave, FailSave, Why, FailSaveAt,
           UndoStarts, UndoneSave, UndoFailedSave, UndoInvalidSave
    <3> QED
      BY <1>2, <3>1, <3>2, <3>3, <3>4, ActsSplit
  <2>2. state' # "absent"
    <3>1. CASE Moves(c) \/ Reads(c)
      BY <2>1, <3>1, RecordKept
    <3>2. CASE WritesState(c)
      BY <2>1, <3>2 DEF WritesState, Claim, Review, CompleteSave, CompClaim, CompCheck,
           UndoneAll, UndoGivesUp, ReleaseSave, Save, ToState, ToOwner
    <3>3. CASE WritesStep(c)
      BY <2>1, <3>3 DEF WritesStep, Intent, CommitSave, FailSave,
           UndoStarts, UndoneSave, UndoFailedSave, UndoInvalidSave, Save, ToStep
    <3> QED
      BY <1>2, <3>1, <3>2, <3>3, ActsSplit
  <2> QED
    BY <2>1, <2>2
<1> QED
  BY <1>1, <1>2

(* The step that is undone next is the last one there is to undo. *)
LEMMA NextIsLast ==
  ASSUME Typed, ~InDoubt, NEW s \in Step, IsNextToUndo(s)
  PROVE  step[s] \in {"committed", "compensation-failed"} /\ LastToUndo(s)
<1>1. step[s] \in {"committed", "compensation-failed"}
  BY DEF IsNextToUndo, ToUndo
<1>2. ASSUME NEW t \in Step, s < t PROVE step[t] \in Over
  <2>1. t \notin ToUndo
    BY <1>2 DEF IsNextToUndo, Step
  <2> QED
    BY <2>1 DEF ToUndo, InDoubt, Unfinished, StepState, Over, Typed, TypeOK
<1> QED
  BY <1>1, <1>2 DEF LastToUndo

(* what its copy says, *)
LEMMA ByCopyKept ==
  ASSUME Typed, OneActive, InStep, NEW c \in Calls, Acts(c)
  PROVE  ByCopy(c)'
<1> SUFFICES ASSUME c \in fresh' PROVE ByCopy(c)'
  BY DEF ByCopy
<1>1. Truthful /\ Awake /\ ByCopy(c) /\ Informed(c) /\ Alone(c)
  BY DEF InStep, OneActive
<1>2. ASSUME UNCHANGED <<state, step, at>>, c \in fresh,
             pc'[c] \in {"intent", "review", "completeSave"} => pc'[c] = pc[c],
             pc'[c] \in {"compClaim", "compCheck"} => pc'[c] = pc[c],
             pc'[c] \in AtUndo \cup {"undo"} => pc[c] \in AtUndo \cup {"undo"},
             pc'[c] \in AtUndo \ {"undoing"} => pc[c] \in AtUndo \ {"undoing"}
      PROVE  ByCopy(c)'
  BY <1>1, <1>2 DEF ByCopy, LastToUndo
<1> USE DEF Typed, TypeOK, AtUndo, Goto
<1>3. CASE Create(c) \/ Call(c, "load") \/ Call(c, "compLoad")
  BY <1>3 DEF ByCopy, Create, Call
<1>4. CASE RunThrows(c) \/ RunReturns(c) \/ RunRejects(c)
  BY <1>4 DEF ByCopy, RunThrows, RunReturns, RunRejects
<1>5. CASE Execute(c) \/ Executed(c)
  BY <1>5 DEF ByCopy, Execute, Executed
<1>6. CASE Land(c) \/ UndoLands(c) \/ Abort(c)
  <2>1. UNCHANGED <<record, pc, at, fresh>>
    BY <1>6 DEF Land, UndoLands, Abort
  <2> QED
    BY <1>2, <2>1 DEF record
<1>7. CASE Overtaken(c) \/ UndoLater(c)
  BY <1>7 DEF ByCopy, Overtaken, UndoLater
<1>8. CASE BackoffInvalid(c)
  <2>1. UNCHANGED <<record, at, fresh>> /\ pc[c] = "undoFailed" /\ pc'[c] = "undoInvalid"
    BY <1>8 DEF BackoffInvalid
  <2> QED
    BY <1>2, <2>1 DEF record
<1>9. CASE UndoAborted(c)
  <2>1. /\ UNCHANGED <<record, fresh>> /\ c \in fresh /\ pc[c] = "undo"
        /\ \E s \in Step :
             \/ pc'[c] = "release"
             \/ IsNextToUndo(s) /\ pc'[c] = "undoFailed" /\ at'[c] = s
    BY <1>9 DEF UndoAborted
  <2>2. ~InDoubt /\ state = "compensating" /\ \A s \in Step : step[s] \notin Doubted
    BY <1>1, <2>1 DEF Informed, ByCopy
  <2> QED
    BY <2>1, <2>2, NextIsLast DEF ByCopy, LastToUndo, record
<1>10. CASE Undid(c)
  <2>1. /\ UNCHANGED <<record, at, fresh>> /\ pc[c] = "undoing"
        /\ pc'[c] \in {"undone", "undoFailed"}
    BY <1>10 DEF Undid
  <2>2. at[c] \in Step /\ step[at[c]] = "compensating"
    BY <1>1, <2>1 DEF Alone, Active, Placed, AtUserCode
  <2>3. LastToUndo(at[c])
    BY <1>1, <2>2 DEF Truthful, Ordered, Undergoing
  <2> QED
    BY <1>1, <2>1, <2>2, <2>3 DEF ByCopy, LastToUndo, record
<1>11. CASE Crash(c) \/ Release(c) \/ ReleaseSave(c)
  BY <1>11 DEF ByCopy, Crash, Release, ReleaseSave, Ended
<1>12. CASE Load(c)
  BY <1>12 DEF ByCopy, Load, Get
<1>13. CASE CompLoad(c)
  <2>1. /\ UNCHANGED state
        /\ pc'[c] \in {"release", "compCheck", "compClaim"}
        /\ pc'[c] # "release" => state \notin Terminal
    BY <1>13 DEF CompLoad, Get, record
  <2>2. state # "absent"
    BY <1>1, <1>13 DEF Awake, CompLoad
  <2> QED
    BY <2>1, <2>2 DEF ByCopy, Terminal, SagaState, Scanned
<1>14. CASE StepCalled(c)
  BY <1>14 DEF ByCopy, StepCalled, StepOutcome, Get, record
<1>15. CASE Commit(c) \/ Caught(c)
  BY <1>15 DEF ByCopy, Commit, Caught, Get
<1>16. CASE Returned(c)
  BY <1>16 DEF ByCopy, Returned, Get, record
<1>17. CASE Fail(c) \/ FailSave(c)
  BY <1>17 DEF ByCopy, Fail, FailSave, Why, FailAt, FailSaveAt, Threw, Get, Save
<1>18. CASE Claim(c) \/ Review(c) \/ CompleteSave(c)
  BY <1>18 DEF ByCopy, Claim, Review, CompleteSave, Save
<1>19. CASE CompClaim(c)
  BY <1>1, <1>19 DEF ByCopy, CompClaim, Save, ToOwner
<1>20. CASE CompCheck(c)
  <2>1. /\ pc'[c] \in {"release", "undo"} /\ UNCHANGED step
        /\ pc'[c] = "undo" => state' = "compensating" /\ ~InDoubt
    BY <1>20 DEF CompCheck, Save, ToState, record
  <2> QED
    BY <2>1 DEF ByCopy, InDoubt, Unfinished, Doubted
<1>21. CASE UndoneAll(c) \/ UndoGivesUp(c)
  BY <1>21 DEF ByCopy, UndoneAll, UndoGivesUp, Save
<1>22. CASE Intent(c) \/ CommitSave(c)
  BY <1>22 DEF ByCopy, Intent, CommitSave, Save
<1>23. CASE UndoneSave(c)
  <2>1. /\ UNCHANGED at /\ pc[c] = "undone"
        /\ \/ /\ c \in fresh /\ pc'[c] = "undo" /\ UNCHANGED state
              /\ step' = [step EXCEPT ![at[c]] = "compensated"]
           \/ /\ pc'[c] = "undoFailed" /\ c \in fresh /\ UNCHANGED <<state, step>>
    BY <1>23 DEF UndoneSave, Save, ToStep, record
  <2>2. CASE pc'[c] = "undoFailed" /\ c \in fresh /\ UNCHANGED <<state, step>>
    BY <1>2, <2>1, <2>2
  <2>3. CASE /\ c \in fresh /\ pc'[c] = "undo" /\ UNCHANGED state
             /\ step' = [step EXCEPT ![at[c]] = "compensated"]
    <3>1. state = "compensating" /\ \A s \in Step : step[s] \notin Doubted
      BY <1>1, <2>1, <2>3 DEF ByCopy
    <3> QED
      BY <2>1, <2>3, <3>1 DEF ByCopy, Doubted
  <2> QED
    BY <2>1, <2>2, <2>3
<1>24. CASE UndoStarts(c)
  <2>0. PICK s \in Step :
          /\ IsNextToUndo(s) /\ at' = [at EXCEPT ![c] = s]
          /\ Save(c, ToStep(s, "compensating", attempts[s] + 1, 0, state),
                  "undoing", "release", "undoFailed")
    BY <1>24 DEF UndoStarts
  <2>1. /\ c \in fresh /\ pc[c] = "undo" /\ at'[c] = s
        /\ \/ /\ pc'[c] = "undoing" /\ UNCHANGED state
              /\ step' = [step EXCEPT ![s] = "compensating"]
           \/ pc'[c] = "undoFailed" /\ UNCHANGED <<state, step>>
    BY <1>24, <2>0 DEF UndoStarts, Save, ToStep, record
  <2>2. ~InDoubt /\ state = "compensating" /\ \A t \in Step : step[t] \notin Doubted
    BY <1>1, <2>1 DEF Informed, ByCopy
  <2>3. step[s] \in {"committed", "compensation-failed"} /\ LastToUndo(s)
    BY <2>0, <2>2, NextIsLast
  <2> QED
    BY <2>1, <2>2, <2>3 DEF ByCopy, LastToUndo, Doubted
<1>25. CASE UndoFailedSave(c) \/ UndoInvalidSave(c)
  <2>1. /\ pc[c] \in {"undoFailed", "undoInvalid"}
        /\ \/ pc'[c] = "release"
           \/ pc'[c] = "undoInvalid" /\ UNCHANGED <<state, step, at>> /\ c \in fresh
    BY <1>25 DEF UndoFailedSave, UndoInvalidSave, Save, record
  <2> QED
    BY <1>2, <2>1 DEF ByCopy
<1> QED
  BY <1>3, <1>4, <1>5, <1>6, <1>7, <1>8, <1>9, <1>10, <1>11, <1>12, <1>13, <1>14, <1>15,
     <1>16, <1>17, <1>18, <1>19, <1>20, <1>21, <1>22, <1>23, <1>24, <1>25, ActsSplit
     DEF Moves, Reads, WritesState, WritesStep

(* and, as the owner, what its run has come to. *)
LEMMA ByOwnerKept ==
  ASSUME Typed, Once, Owned, ~Fallbacks, OneActive, InStep, NEW c \in Calls, Acts(c)
  PROVE  ByOwner(c)'
<1> SUFFICES ASSUME owner' = c PROVE ByOwner(c)'
  BY DEF ByOwner
<1>0. owner = c \/ Claim(c) \/ CompClaim(c)
  BY WhoWrites
<1>1. /\ Truthful /\ ByOwner(c) /\ ByEffect(c) /\ Informed(c) /\ InOrder(c) /\ Prefix
  BY DEF InStep, OneActive
(* A step that goes from one label of the run to another. *)
<1>2. ASSUME owner = c, UNCHANGED <<step, undone, at>>, state' \in Scanned, pc[c] \in AtRun,
             pc'[c] \in AtStep => pc[c] \in AtStep,
             pc'[c] \in {"failKnown", "saveKnown"} => at[c] \notin landed',
             pc'[c] = "intent" => pc[c] = "intent",
             pc'[c] \in {"returned", "completeSave"} => pc[c] \in {"returned", "completeSave"}
      PROVE  ByOwner(c)'
  BY <1>1, <1>2 DEF ByOwner, NothingUndone, NoneBefore, NoneAfter
<1> USE DEF Typed, TypeOK, AtStep, AtRun, Forward, Fails, Goto
<1>3. CASE Create(c) \/ Call(c, "load") \/ Call(c, "compLoad")
  BY <1>3 DEF ByOwner, Create, Call
<1>4. CASE RunThrows(c) \/ RunRejects(c)
  BY <1>4 DEF ByOwner, RunThrows, RunRejects
<1>5. CASE RunReturns(c)
  <2>1. /\ UNCHANGED <<record, at, provider>> /\ pc[c] = "run" /\ pc'[c] = "returned"
        /\ at[c] = Steps
    BY <1>5 DEF RunReturns
  <2>2. owner = c /\ Through(c)
    BY <1>0, <1>1, <2>1 DEF Claim, CompClaim, InOrder
  <2>3. \A s \in Step : step[s] = "committed"
    BY <2>1, <2>2, StepsAssumption DEF Through, Step
  <2> QED
    BY <1>1, <2>1, <2>2, <2>3 DEF ByOwner, NothingUndone, record, provider
<1>6. CASE Execute(c)
  <2>1. /\ UNCHANGED <<record, at, landed, undone>> /\ pc[c] = "intended"
        /\ pc'[c] \in {"failKnown", "executing"}
    BY <1>6 DEF Execute
  <2> QED
    BY <1>0, <1>1, <1>2, <2>1 DEF ByOwner, ByEffect, record, Claim, CompClaim
<1>7. CASE Land(c)
  <2>1. /\ UNCHANGED <<record, pc, at, undone>> /\ pc[c] = "executing"
    BY <1>7 DEF Land
  <2> QED
    BY <1>0, <1>1, <1>2, <2>1 DEF ByOwner, record, Claim, CompClaim
<1>8. CASE Executed(c)
  <2>1. /\ UNCHANGED <<record, at, landed, undone>> /\ pc[c] = "executing"
        /\ \/ pc'[c] \in {"commit", "failUnknown"}
           \/ pc'[c] = "failKnown" /\ at[c] \notin landed
    BY <1>8 DEF Executed, provider
  <2> QED
    BY <1>0, <1>1, <1>2, <2>1 DEF ByOwner, record, Claim, CompClaim
<1>9. CASE Abort(c)
  <2>1. UNCHANGED <<record, pc, at, provider>>
    BY <1>9 DEF Abort
  <2> QED
    BY <1>0, <1>1, <1>9, <2>1 DEF ByOwner, record, provider, NothingUndone, NoneBefore,
       NoneAfter, Abort, Claim, CompClaim
<1>10. CASE Overtaken(c) \/ UndoLater(c) \/ BackoffInvalid(c) \/ UndoAborted(c)
  BY <1>10 DEF ByOwner, Overtaken, UndoLater, BackoffInvalid, UndoAborted
<1>11. CASE UndoLands(c) \/ Undid(c)
  BY <1>11 DEF ByOwner, UndoLands, Undid
<1>12. CASE Crash(c) \/ Release(c) \/ ReleaseSave(c)
  BY <1>12 DEF ByOwner, Crash, Release, ReleaseSave, Ended
<1>13. CASE Load(c) \/ CompLoad(c) \/ Caught(c)
  BY <1>13 DEF ByOwner, Load, CompLoad, Caught, Get
<1>14. CASE StepCalled(c)
  <2>1. /\ UNCHANGED <<state, step, undone>> /\ pc[c] = "run" /\ owner = c
        /\ at'[c] = at[c] + 1
        /\ pc'[c] \in {"conflicted", "run", "intent", "review", "threw"}
        /\ pc'[c] = "intent" => step[at[c] + 1] = "none"
    BY <1>0, <1>14 DEF StepCalled, StepOutcome, Get, record, provider, Claim, CompClaim
  <2>2. NothingUndone /\ state \in Scanned
    BY <1>1, <2>1 DEF ByOwner
  <2>3. CASE pc'[c] # "intent"
    BY <2>1, <2>2, <2>3 DEF ByOwner, NothingUndone
  <2>4. CASE pc'[c] = "intent"
    <3>1. Before(c)'
      BY <1>1, <2>4, InOrderKept DEF InOrder, OneActive
    <3>2. PICK n \in Step : n = at[c] + 1
      <4>1. at[c] \in 0..Steps /\ at[c] < Steps
        BY <1>14 DEF StepCalled
      <4> QED
        BY <4>1, StepsAssumption DEF Step
    <3>3. NoneAfter(n)
      BY <1>1, <2>1, <2>4, <3>2 DEF Prefix, NoneAfter
    <3> QED
      BY <2>1, <2>2, <2>4, <3>1, <3>2, <3>3
         DEF ByOwner, NothingUndone, Before, NoneBefore, NoneAfter
  <2> QED
    BY <2>3, <2>4
<1>15. CASE Commit(c)
  <2>1. /\ UNCHANGED <<record, at, provider>> /\ pc[c] = "commit"
        /\ pc'[c] \in {"commitSave", "failConflict", "failUnknown"}
    BY <1>15 DEF Commit, Get
  <2> QED
    BY <1>0, <1>1, <1>2, <2>1 DEF ByOwner, record, provider, Claim, CompClaim
<1>16. CASE Returned(c)
  <2>1. /\ UNCHANGED <<record, at, provider>> /\ pc[c] = "returned"
        /\ pc'[c] \in {"completeSave", "release", "caught"}
    BY <1>16 DEF Returned, Get
  <2>2. CASE pc'[c] = "completeSave"
    BY <1>0, <1>1, <1>2, <2>1, <2>2 DEF ByOwner, record, provider, Claim, CompClaim
  <2> QED
    BY <2>1, <2>2 DEF ByOwner
<1>17. CASE Fail(c)
  <2>1. /\ UNCHANGED <<record, at, provider>>
        /\ \/ pc'[c] \in {"threw", "conflicted"} /\ pc[c] \in Fails
           \/ pc[c] = "failKnown" /\ pc'[c] = "saveKnown"
           \/ pc[c] = "failUnknown" /\ pc'[c] = "saveUnknown"
           \/ pc[c] = "failConflict" /\ pc'[c] = "saveConflict"
    BY <1>17 DEF Fail, Why, FailAt, FailSaveAt, Threw, Get
  <2>2. owner = c /\ NothingUndone /\ state \in Scanned
    BY <1>0, <1>1, <2>1 DEF ByOwner, Claim, CompClaim
  <2>3. pc'[c] = "saveKnown" => at[c] \notin landed
    BY <1>1, <2>1, <2>2 DEF ByOwner
  <2> QED
    BY <1>2, <2>1, <2>2, <2>3 DEF record, provider
<1>18. CASE Claim(c)
  <2>1. /\ UNCHANGED <<state, step, undone>> /\ pc[c] = "claim"
        /\ \/ pc'[c] = "release"
           \/ pc'[c] \in {"run", "caught"} /\ c \in fresh
    BY <1>18 DEF Claim, Save, ToOwner, record, provider
  <2>2. c \in fresh => state = "running" /\ NothingUndone
    BY <1>1, <2>1 DEF Informed, Truthful
  <2> QED
    BY <2>1, <2>2 DEF ByOwner, NothingUndone, Scanned
<1>19. CASE Review(c)
  <2>1. /\ UNCHANGED <<step, undone, at>> /\ pc[c] = "review"
        /\ state' \in {state, "manual-review"} /\ pc'[c] \in {"threw", "conflicted"}
    BY <1>19 DEF Review, Save, ToState, record, provider
  <2>2. owner = c /\ state \in Scanned
    BY <1>0, <1>1, <2>1 DEF ByOwner, Claim, CompClaim
  <2> QED
    BY <1>2, <2>1, <2>2 DEF Scanned
<1>20. CASE CompleteSave(c) \/ CompClaim(c)
  BY <1>20 DEF ByOwner, CompleteSave, CompClaim, Save
<1>21. CASE CompCheck(c) \/ UndoneAll(c) \/ UndoGivesUp(c)
  BY <1>21 DEF ByOwner, CompCheck, UndoneAll, UndoGivesUp, Save
<1>22. CASE Intent(c) \/ CommitSave(c) \/ FailSave(c)
  <2>0. pc[c] \in {"intent", "commitSave", "saveKnown", "saveUnknown", "saveConflict"}
    BY <1>22 DEF Intent, CommitSave, FailSave, Why, FailSaveAt
  <2>1. owner = c /\ NothingUndone /\ NoneBefore(at[c]) /\ NoneAfter(at[c])
        /\ state \in Scanned /\ at[c] \in Step
    BY <1>0, <1>1, <2>0 DEF ByOwner, ByEffect, Claim, CompClaim
  <2>2. PICK x \in {"executing", "committed", "failed", "ambiguous"} :
          step' = step \/ step' = [step EXCEPT ![at[c]] = x]
    BY <1>22 DEF Intent, CommitSave, FailSave, Save, ToStep, record
  <2>3. UNCHANGED <<at, landed, undone>> /\ state' \in Scanned
    BY <1>22, <2>1 DEF Intent, CommitSave, FailSave, Save, ToStep, record, provider, Scanned
  <2>4. /\ pc'[c] \in {"run", "threw", "conflicted"} \cup AtStep
        /\ pc'[c] \notin {"intent", "saveKnown"}
        /\ pc'[c] = "failKnown" => Intent(c)
    BY <1>22 DEF Intent, CommitSave, FailSave, Why, FailSaveAt, Threw, Save
  <2>5. NothingUndone'
    BY <2>1, <2>2, <2>3 DEF NothingUndone, Undergoing
  <2>6. NoneBefore(at[c])' /\ NoneAfter(at[c])'
    <3>1. ASSUME NEW t \in Step, t # at[c] PROVE step'[t] = step[t]
      BY <2>2, <3>1
    <3>2. \A t \in Step : t < at[c] \/ at[c] < t => t # at[c]
      BY <2>1 DEF Step
    <3> QED
      BY <2>1, <2>3, <3>1, <3>2 DEF NoneBefore, NoneAfter
  <2>7. Intent(c) => at[c] \notin landed
    BY <1>1, <2>1 DEF Intent, ByOwner, Truthful, Honest
  <2> QED
    BY <2>3, <2>4, <2>5, <2>6, <2>7 DEF ByOwner
<1>23. CASE UndoneSave(c) \/ UndoStarts(c)
  BY <1>23 DEF ByOwner, UndoneSave, UndoStarts, Save
<1>24. CASE UndoFailedSave(c) \/ UndoInvalidSave(c)
  BY <1>24 DEF ByOwner, UndoFailedSave, UndoInvalidSave, Save
<1> QED
  BY <1>3, <1>4, <1>5, <1>6, <1>7, <1>8, <1>9, <1>10, <1>11, <1>12, <1>13, <1>14, <1>15,
     <1>16, <1>17, <1>18, <1>19, <1>20, <1>21, <1>22, <1>23, <1>24, ActsSplit
     DEF Moves, Reads, WritesState, WritesStep

(* A reviewer writes down what the provider confirms. *)
LEMMA ReviewsTruthfully ==
  ASSUME Typed, InStep, NEW s \in Step, Resolve(s)
  PROVE  InStep' /\ Shown
<1>1. /\ Truthful /\ Awake /\ \A c \in Calls : ByOwner(c) /\ ByEffect(c)
      /\ Ordered(s) /\ Honest(s)
  BY DEF InStep, Truthful
<1>2. UNCHANGED <<pc, at, owner, landed, undone>> /\ fresh' = {}
  BY DEF Resolve, ToStep, provider
<1> USE DEF Typed, TypeOK
<1>3. PICK x \in {"committed", "failed", "compensated", "compensation-failed"} :
        /\ step' = [step EXCEPT ![s] = x]
        /\ \/ step[s] \in Doubted /\ s \in landed /\ x = "committed" /\ state' = "running"
           \/ step[s] \in Doubted /\ s \notin landed /\ x = "failed" /\ state' = "compensating"
           \/ /\ step[s] = "compensating" /\ state' \in {"compensating", "manual-review"}
              /\ x = "compensation-failed" \/ (x = "compensated" /\ s \in undone)
  BY DEF Resolve, ToStep, Doubted
<1>4. Writes(s, x)
  BY <1>2, <1>3 DEF Writes
<1>5. Truthful' /\ Shown
  <2>1. CASE step[s] \in Doubted
    <3>1. /\ NoneBefore(s) /\ NoneAfter(s) /\ NothingUndone
          /\ state \in {"running", "manual-review"}
      BY <1>1, <2>1 DEF Ordered
    <3> QED
      BY <1>1, <1>3, <1>4, <2>1, <3>1, WrittenForward DEF Scanned, Doubted
  <2>2. CASE step[s] = "compensating"
    <3>1. LastToUndo(s) /\ state \in {"compensating", "manual-review"}
      BY <1>1, <2>2 DEF Ordered, Undergoing
    <3>2. ~NothingUndone
      BY <2>2 DEF NothingUndone, Undergoing
    <3>3. \A t \in Step : step[t] \notin Doubted
      BY <1>1, <3>2 DEF Truthful, Ordered
    <3> QED
      BY <1>1, <1>3, <1>4, <2>2, <3>1, <3>3, WrittenBackward DEF Doubted
  <2> QED
    BY <1>3, <2>1, <2>2
<1>6. \A t \in Step : step[t] \in {"none", "committed"} => step'[t] = step[t]
  BY <1>3 DEF Doubted
<1>7. ASSUME NEW c \in Calls PROVE ByOwner(c)' /\ ByCopy(c)' /\ ByEffect(c)'
  <2>1. ByOwner(c) /\ ByEffect(c)
    BY <1>1
  <2>2. NothingUndone => NothingUndone' /\ state' \in Scanned
    BY <1>2, <1>3 DEF NothingUndone, Undergoing, Scanned, Doubted
  <2>3. ByOwner(c)'
    BY <1>2, <1>6, <2>1, <2>2 DEF ByOwner, NoneBefore, NoneAfter, ByEffect, AtStep, Forward
  <2>4. ByCopy(c)' /\ ByEffect(c)'
    BY <1>2, <2>1 DEF ByCopy, ByEffect
  <2> QED
    BY <2>3, <2>4
<1>8. Awake'
  BY <1>3 DEF Awake
<1> QED
  BY <1>5, <1>7, <1>8 DEF InStep

(* InStep is inductive when run() passes errors on, and its steps are the
   abstract saga's. *)
LEMMA InStepInductive ==
  ASSUME ~Fallbacks
  PROVE  /\ Init => InStep /\ Outcome!Init
         /\ Typed /\ Once /\ Owned /\ OneActive /\ InStep /\ [Next]_vars => InStep' /\ Shown
<1>1. ASSUME Init PROVE InStep /\ Outcome!Init
  <2>1. Truthful /\ Awake
    BY <1>1 DEF Init, Truthful, Awake, Honest, Ordered, NothingUndone, Doubted, Undergoing
  <2>2. \A c \in Calls : ByOwner(c) /\ ByCopy(c) /\ ByEffect(c)
    BY <1>1 DEF Init, ByOwner, ByCopy, ByEffect, AtRun, AtStep, Forward, Fails, AtUndo
  <2>3. Outcome!Init
    BY <1>1 DEF Init, Outcome!Init
  <2> QED
    BY <2>1, <2>2, <2>3 DEF InStep
<1>2. ASSUME Typed, Once, Owned, OneActive, InStep, NEW c \in Calls, Acts(c)
      PROVE  InStep' /\ Shown
  <2>1. Truthful' /\ Shown
    BY <1>2, ActsTruthfully
  <2>2. Awake'
    BY <1>2, AwakeKept DEF InStep, Awake
  <2>3. ASSUME NEW d \in Calls PROVE ByOwner(d)' /\ ByCopy(d)' /\ ByEffect(d)'
    <3>1. CASE d = c
      BY <1>2, <3>1, ByOwnerKept, ByCopyKept, ByEffectKept
    <3>2. CASE d # c
      BY <1>2, <3>2, OthersInStep
    <3> QED
      BY <3>1, <3>2
  <2> QED
    BY <2>1, <2>2, <2>3 DEF InStep
<1>3. ASSUME Typed, InStep, \E s \in Step : Resolve(s) PROVE InStep' /\ Shown
  BY <1>3, ReviewsTruthfully
<1>4. ASSUME Typed, InStep, Tick \/ UNCHANGED vars PROVE InStep' /\ Shown
  <2>1. UNCHANGED <<state, owner, step, pc, at, fresh, landed, undone>>
    BY <1>4 DEF Tick, vars, record, provider
  <2>2. Truthful' /\ Shown
    BY <1>4, <2>1, Turned DEF InStep
  <2>3. ASSUME NEW c \in Calls PROVE ByOwner(c)' /\ ByCopy(c)' /\ ByEffect(c)'
    <3>1. ByOwner(c) /\ ByCopy(c) /\ ByEffect(c)
      BY <1>4 DEF InStep
    <3> QED
      BY <2>1, <3>1 DEF ByOwner, ByCopy, ByEffect, NothingUndone, NoneBefore, NoneAfter,
         LastToUndo
  <2>4. Awake'
    BY <1>4, <2>1 DEF InStep, Awake
  <2> QED
    BY <2>2, <2>3, <2>4 DEF InStep
<1> QED
  BY <1>1, <1>2, <1>3, <1>4, NextSplit

(* Under all its calls, leases, retries, crashes and reviews a saga is what
   its caller was promised: its steps take effect in order or are undone in
   reverse order, and the outcome it reports is true. *)
THEOREM SagasKeepTheirPromise == ~Fallbacks => (Spec => Implements)
<1> SUFFICES ASSUME ~Fallbacks PROVE Spec => Implements
  OBVIOUS
<1> DEFINE Inv == Typed /\ Once /\ Bounded /\ Owned /\ OneActive /\ InStep
<1>1. Init => Inv /\ Outcome!Init
  BY HistoryInductive, OwnedInductive, OneActiveInductive, InStepInductive
<1>2. Inv /\ [Next]_vars => Inv' /\ [Outcome!Next]_(Outcome!vars)
  BY HistoryInductive, OwnedInductive, OneActiveInductive, InStepInductive DEF Shown
<1> QED
  BY <1>1, <1>2, PTL DEF Spec, Implements, Outcome!Spec

(* "Reconciliation sees the unfinished durable state": when run() passes
   errors on, a saga with a step in doubt is in a state that is scanned, even
   if the store failed as the step's failure was recorded.  (A run() that
   catches the error may complete the saga over it; see README.) *)
THEOREM UnfinishedIsAlwaysScanned == ~Fallbacks => (Spec => []UnfinishedIsScanned)
<1> SUFFICES ASSUME ~Fallbacks PROVE Spec => []UnfinishedIsScanned
  OBVIOUS
<1> DEFINE Inv == Typed /\ Once /\ Bounded /\ Owned /\ OneActive /\ InStep
<1>1. Init => Inv
  BY HistoryInductive, OwnedInductive, OneActiveInductive, InStepInductive
<1>2. Inv /\ [Next]_vars => Inv'
  BY HistoryInductive, OwnedInductive, OneActiveInductive, InStepInductive
<1>3. InStep => UnfinishedIsScanned
  <2> SUFFICES ASSUME Truthful, NEW s \in Step, step[s] \in Unfinished
               PROVE  state \in Scanned
    BY DEF InStep, UnfinishedIsScanned, InDoubt
  <2>1. Ordered(s)
    BY DEF Truthful
  <2> QED
    BY <2>1 DEF Ordered, Unfinished, Doubted, Scanned
<1> QED
  BY <1>1, <1>2, <1>3, PTL DEF Spec
=============================================================================
