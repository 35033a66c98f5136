------------------------------ MODULE Effects ------------------------------
(***************************************************************************)
(* Owned effects: executeCapability() (packages/core/src/capabilities.ts)  *)
(* runs one effect behind an approval gate (durable-approval.ts) and keeps *)
(* a durable record of it (durable-effect.ts), in the order that           *)
(* createEffectScope().run() prescribes (effect-scope.ts).                 *)
(*                                                                         *)
(* Every call of a store is awaited.  It may reject; a call that rejects   *)
(* may have taken effect, or take effect later: the request is under way.  *)
(* A process may die between any two steps.  A call's effect id and the    *)
(* id of the approval it asks for are unique, so the call stands for both. *)
(* What an approval is bound to (tenant, principal, capability, target and *)
(* digest) is one value.  The lifecycle observers, the token-only ledger   *)
(* and the evidence kept for request idempotency are left out.             *)
(***************************************************************************)
EXTENDS Naturals, FiniteSets

CONSTANTS
  Calls,       \* calls of executeCapability()
  Bindings,    \* what an approval may be bound to
  NoGate,      \* the capability needs no approval
  NoToken,     \* it does, and the caller has no resume token
  MaxFailures  \* bound: calls of a store that reject, and crashes

ASSUME GateAssumption == NoGate # NoToken /\ {NoGate, NoToken} \cap Calls = {}
ASSUME MaxFailuresAssumption == MaxFailures \in Nat

VARIABLES
  pc,        \* what each call awaits
  gate,      \* its approval: none, to be asked for, or the token it presents
  bind,      \* what it asks or presents its approval for
  record,    \* the effect store
  version,   \* of each record; 0 while there is none
  sent,      \* transitions whose call rejected and that may still be applied
  seen,      \* the version failed() read
  began,     \* calls whose executor was called
  effect,    \* what became of each effect outside
  approval,  \* the approval store
  late,      \* approvals past their expiry
  issued,    \* approvals whose token a caller has
  granted,   \* history: the approval each call was let through with
  failures   \* how much went wrong

journalVars == <<record, version, sent, seen>>
approvalVars == <<approval, late, issued, granted>>
callVars == <<pc, gate, bind, began>>
vars == <<callVars, journalVars, effect, approvalVars, failures>>

Steps ==
  {"new", "intent", "create", "verify", "consume", "admitted", "run", "commit",
   "fail", "failing", "over"}

(* What a record may say, "none" of an effect that has no record. *)
States == {"none", "admission", "executing", "committed", "failed", "unknown"}

Transition == [call : Calls, version : Nat, from : States, to : States]

TypeOK ==
  /\ pc \in [Calls -> Steps]
  /\ gate \in [Calls -> Calls \cup {NoGate, NoToken}]
  /\ bind \in [Calls -> Bindings]
  /\ record \in [Calls -> States]
  /\ version \in [Calls -> Nat]
  /\ sent \subseteq Transition
  /\ seen \in [Calls -> Nat]
  /\ began \subseteq Calls
  /\ effect \in [Calls -> {"not begun", "begun", "returned"}]
  /\ approval \in [Calls -> {"none", "pending", "approved", "denied", "consumed", "expired"}]
  /\ late \subseteq Calls /\ issued \subseteq Calls
  /\ granted \in [Calls -> Calls \cup {NoGate}]
  /\ failures \in 0 .. MaxFailures
  /\ \A e \in Calls : record[e] = "none" <=> version[e] = 0

Init ==
  /\ pc = [e \in Calls |-> "new"]
  /\ gate = [e \in Calls |-> NoGate]
  /\ bind \in [Calls -> Bindings]
  /\ record = [e \in Calls |-> "none"]
  /\ version = [e \in Calls |-> 0]
  /\ sent = {}
  /\ seen = [e \in Calls |-> 0]
  /\ began = {}
  /\ effect = [e \in Calls |-> "not begun"]
  /\ approval = [e \in Calls |-> "none"]
  /\ late = {} /\ issued = {}
  /\ granted = [e \in Calls |-> NoGate]
  /\ failures = 0

Goes(e, step) == pc' = [pc EXCEPT ![e] = step]

GoesWrong ==
  /\ failures < MaxFailures
  /\ failures' = failures + 1

-----------------------------------------------------------------------------
(* The effect store: create() and transition() *)

(* durableEffectProtocol: a transition is for one version and one state.   *)
Fits(t) == version[t.call] = t.version /\ record[t.call] = t.from

Apply(t) ==
  /\ record' = [record EXCEPT ![t.call] = t.to]
  /\ version' = [version EXCEPT ![t.call] = t.version + 1]

Of(e, from, to) == [call |-> e, version |-> version[e], from |-> from, to |-> to]

(* A call of the store is answered, and the caller goes on to `next`; or   *)
(* it rejects before, with or without taking effect.                       *)
Journal(e, t, next) ==
  \/ /\ Fits(t) /\ Apply(t)
     /\ Goes(e, next)
     /\ UNCHANGED <<sent, failures>>
  \/ /\ ~Fits(t)
     /\ Goes(e, IF pc[e] = "failing" THEN "over" ELSE "fail")
     /\ UNCHANGED <<record, version, sent, failures>>
  \/ /\ GoesWrong
     /\ Goes(e, IF pc[e] = "failing" THEN "over" ELSE "fail")
     /\ sent' \in {sent, sent \cup {t}}
     /\ UNCHANGED <<record, version>>

(* A request that was given up reaches the store. *)
Arrive(t) ==
  /\ t \in sent
  /\ sent' = sent \ {t}
  /\ IF Fits(t) THEN Apply(t) ELSE UNCHANGED <<record, version>>
  /\ UNCHANGED <<callVars, seen, effect, approvalVars, failures>>

-----------------------------------------------------------------------------
(* run(): intent, admission, execution *)

(* A call without approval, a first call, or one that resumes with a token. *)
Start(e) ==
  /\ pc[e] = "new"
  /\ gate' \in {[gate EXCEPT ![e] = g] : g \in {NoGate, NoToken} \cup issued}
  /\ Goes(e, "intent")
  /\ UNCHANGED <<bind, began, journalVars, effect, approvalVars, failures>>

(* journal.intent() *)
Intent(e) ==
  /\ pc[e] = "intent"
  /\ Journal(e, Of(e, "none", "admission"),
             CASE gate[e] = NoGate -> "admitted"
               [] gate[e] = NoToken -> "create"
               [] OTHER -> "verify")
  /\ UNCHANGED <<gate, bind, began, seen, effect, approvalVars>>

(* The signal is aborted, an interceptor refuses, or the executor throws.  *)
Throw(e) ==
  /\ pc[e] \in {"intent", "verify", "create", "consume", "admitted", "run"}
  /\ Goes(e, "fail")
  /\ UNCHANGED <<gate, bind, began, journalVars, effect, approvalVars, failures>>

(* authorize() without a token: the caller is told to come back with one.  *)
CreateApproval(e) ==
  /\ pc[e] = "create"
  /\ approval' = [approval EXCEPT ![e] = "pending"]
  /\ \/ issued' = issued \cup {e} /\ UNCHANGED failures
     \/ UNCHANGED issued /\ GoesWrong
  /\ Goes(e, "fail")
  /\ UNCHANGED <<gate, bind, began, journalVars, effect, late, granted>>

(* verify(): the token carries its expiry. *)
Verify(e) ==
  /\ pc[e] = "verify"
  /\ Goes(e, IF gate[e] \in late THEN "fail" ELSE "consume")
  /\ UNCHANGED <<gate, bind, began, journalVars, effect, approvalVars, failures>>

(* durableApprovalProtocol.consume() *)
Usable(a, e) == approval[a] = "approved" /\ bind[a] = bind[e]

(* Mutant: consume() answers without storing that it did. *)
StoreConsumeUnwritten(a, e) == UNCHANGED approval
StoreConsume(a, e) ==
  approval' = IF ~Usable(a, e) THEN approval
              ELSE [approval EXCEPT ![a] = IF a \in late THEN "expired" ELSE "consumed"]

(* authorize() with a token.  Its answer may be lost. *)
Consume(e) ==
  /\ pc[e] = "consume"
  /\ LET a == gate[e]
     IN /\ StoreConsume(a, e)
        /\ \/ /\ Usable(a, e) /\ a \notin late
              /\ Goes(e, "admitted")
              /\ granted' = [granted EXCEPT ![e] = a]
              /\ UNCHANGED failures
           \/ /\ ~Usable(a, e) \/ a \in late
              /\ Goes(e, "fail")
              /\ UNCHANGED <<granted, failures>>
           \/ /\ GoesWrong
              /\ Goes(e, "fail")
              /\ UNCHANGED granted
  /\ UNCHANGED <<gate, bind, began, journalVars, effect, late, issued>>

(* journal.executing(); then the executor is called. *)
Execute(e) ==
  /\ pc[e] = "admitted"
  /\ Journal(e, Of(e, "admission", "executing"), "run")
  /\ began' = IF pc'[e] = "run" THEN began \cup {e} ELSE began
  /\ UNCHANGED <<gate, bind, seen, effect, approvalVars>>

(* What the executor asked for begins outside, perhaps after it has thrown *)
(* or its process has died.                                                *)
Begin(e) ==
  /\ e \in began /\ effect[e] = "not begun"
  /\ effect' = [effect EXCEPT ![e] = "begun"]
  /\ UNCHANGED <<callVars, journalVars, approvalVars, failures>>

(* It returns. *)
Return(e) ==
  /\ pc[e] = "run" /\ effect[e] = "begun"
  /\ effect' = [effect EXCEPT ![e] = "returned"]
  /\ Goes(e, "commit")
  /\ UNCHANGED <<gate, bind, began, journalVars, approvalVars, failures>>

(* journal.committed() *)
Commit(e) ==
  /\ pc[e] = "commit"
  /\ Journal(e, Of(e, "executing", "committed"), "over")
  /\ UNCHANGED <<gate, bind, began, seen, effect, approvalVars>>

-----------------------------------------------------------------------------
(* run(): the catch block.  What goes wrong in it is swallowed. *)

(* journal.failed() reads the record... *)
ReadRecord(e) ==
  /\ pc[e] = "fail"
  /\ Goes(e, IF record[e] = "none" THEN "over" ELSE "failing")
  /\ seen' = [seen EXCEPT ![e] = version[e]]
  /\ UNCHANGED <<gate, bind, began, record, version, sent, effect, approvalVars, failures>>

(* Mutant: an effect that began is recorded as if it had not. *)
SettledFailed(e) == "failed"
Settled(e) == IF e \in began THEN "unknown" ELSE "failed"

(* ... and settles it: whatever it says, from the version it read. *)
Fail(e) ==
  /\ pc[e] = "failing"
  /\ Journal(e, [Of(e, record[e], Settled(e)) EXCEPT !.version = seen[e]], "over")
  /\ UNCHANGED <<gate, bind, began, seen, effect, approvalVars>>

-----------------------------------------------------------------------------
(* What others do *)

(* decide() *)
Decide(a) ==
  /\ approval[a] = "pending" /\ a \notin late
  /\ approval' \in {[approval EXCEPT ![a] = d] : d \in {"approved", "denied"}}
  /\ UNCHANGED <<callVars, journalVars, effect, late, issued, granted, failures>>

(* An approval's expiry passes. *)
Expire(a) ==
  /\ approval[a] # "none" /\ a \notin late
  /\ late' = late \cup {a}
  /\ UNCHANGED <<callVars, journalVars, effect, approval, issued, granted, failures>>

(* The process dies. *)
Crash(e) ==
  /\ pc[e] \notin {"new", "over"}
  /\ Goes(e, "over")
  /\ UNCHANGED <<gate, bind, began, journalVars, effect, approvalVars, failures>>

Next ==
  \/ \E e \in Calls :
       \/ Start(e) \/ Intent(e) \/ CreateApproval(e) \/ Verify(e) \/ Consume(e)
       \/ Execute(e) \/ Begin(e) \/ Return(e) \/ Commit(e)
       \/ Throw(e) \/ ReadRecord(e) \/ Fail(e) \/ Crash(e)
       \/ Decide(e) \/ Expire(e)
  \/ \E t \in sent : Arrive(t)

Spec == Init /\ [][Next]_vars

-----------------------------------------------------------------------------
(* The journal tells the truth, through rejected calls that took effect,   *)
(* late requests and crashes: see EffectOutcome.                           *)
Outcome == INSTANCE EffectOutcome WITH Effects <- Calls
Implements == Outcome!Spec

(* "Single-use resume tokens": an approval lets one call through, one it   *)
(* is bound to, and is used up by it; and no effect behind the gate begins *)
(* without one.                                                            *)
ApprovalsAreSpentOnce ==
  /\ \A e \in Calls :
       /\ granted[e] # NoGate =>
            approval[granted[e]] = "consumed" /\ bind[granted[e]] = bind[e]
       /\ e \in began /\ gate[e] # NoGate => granted[e] # NoGate
  /\ \A e, f \in Calls : granted[e] = granted[f] /\ granted[e] # NoGate => e = f
=============================================================================
