--------------------------- MODULE Effects_proofs ---------------------------
(***************************************************************************)
(* Proofs about Effects for any set of calls and bindings and any number   *)
(* of store calls that reject.                                             *)
(***************************************************************************)
EXTENDS Effects, TLAPS

-----------------------------------------------------------------------------
(* Types, part by part *)

CallTypes ==
  /\ pc \in [Calls -> Steps]
  /\ gate \in [Calls -> Calls \cup {NoGate, NoToken}]
  /\ bind \in [Calls -> Bindings]
  /\ began \subseteq Calls
  /\ effect \in [Calls -> {"not begun", "begun", "returned"}]
  /\ failures \in 0 .. MaxFailures

JournalTypes ==
  /\ record \in [Calls -> States]
  /\ version \in [Calls -> Nat]
  /\ sent \subseteq Transition
  /\ seen \in [Calls -> Nat]
  /\ \A e \in Calls : record[e] = "none" <=> version[e] = 0

ApprovalTypes ==
  /\ approval \in [Calls -> {"none", "pending", "approved", "denied", "consumed", "expired"}]
  /\ late \subseteq Calls /\ issued \subseteq Calls
  /\ granted \in [Calls -> Calls \cup {NoGate}]

LEMMA TypeParts == TypeOK <=> CallTypes /\ JournalTypes /\ ApprovalTypes
  BY DEF TypeOK, CallTypes, JournalTypes, ApprovalTypes

(* A call that presents a token has one. *)
TokensPresented ==
  \A e \in Calls : pc[e] \in {"verify", "consume"} => gate[e] \in Calls

Typed == CallTypes /\ JournalTypes /\ ApprovalTypes /\ TokensPresented

(* A transition of the journal names another state, and no record is made  *)
(* to be none.                                                             *)
Moves(t) == t \in Transition /\ t.to # "none"
Sent == \A t \in sent : Moves(t)

LEMMA AppliedTypes ==
  ASSUME JournalTypes, NEW t, Moves(t), Apply(t)
  PROVE  /\ record' \in [Calls -> States]
         /\ version' \in [Calls -> Nat]
         /\ \A e \in Calls : record'[e] = "none" <=> version'[e] = 0
<1>1. t.call \in Calls /\ t.to \in States /\ t.to # "none" /\ t.version + 1 \in Nat /\ t.version + 1 # 0
  BY DEF Moves, Transition
<1> QED
  BY <1>1 DEF JournalTypes, Apply

LEMMA Counted == CallTypes /\ GoesWrong => failures' \in 0 .. MaxFailures
<1> SUFFICES ASSUME CallTypes, GoesWrong PROVE failures' \in 0 .. MaxFailures
  OBVIOUS
<1>1. failures \in 0 .. MaxFailures /\ failures < MaxFailures /\ failures' = failures + 1
  BY DEF CallTypes, GoesWrong
<1>2. MaxFailures \in Nat
  BY MaxFailuresAssumption
<1> QED
  BY ONLY <1>1, <1>2

(* What a call of the journal does to the store and to its caller. *)
LEMMA JournalEffect ==
  ASSUME Typed, Sent, NEW e \in Calls, NEW t, Moves(t), NEW next \in Steps,
         pc[e] \in Steps, Journal(e, t, next), UNCHANGED seen
  PROVE  /\ JournalTypes' /\ Sent'
         /\ failures' \in 0 .. MaxFailures
         /\ pc' \in [Calls -> Steps]
         /\ \A f \in Calls \ {e} : pc'[f] = pc[f]
         /\ pc'[e] \in {next, "over", "fail"}
<1>1. CASE Fits(t) /\ Apply(t) /\ Goes(e, next) /\ UNCHANGED <<sent, failures>>
  BY <1>1, AppliedTypes DEF Typed, CallTypes, JournalTypes, Goes, Sent, Moves
<1>2. CASE /\ Goes(e, IF pc[e] = "failing" THEN "over" ELSE "fail")
           /\ UNCHANGED <<record, version, sent, failures>>
  BY <1>2 DEF Typed, CallTypes, JournalTypes, Goes, Sent, Moves, Steps
<1>3. CASE /\ GoesWrong
           /\ Goes(e, IF pc[e] = "failing" THEN "over" ELSE "fail")
           /\ sent' \in {sent, sent \cup {t}}
           /\ UNCHANGED <<record, version>>
  <2>1. failures' \in 0 .. MaxFailures
    BY <1>3, Counted DEF Typed
  <2>2. sent' \subseteq Transition /\ Sent'
    BY <1>3 DEF Sent, Moves, Typed, JournalTypes
  <2>3. JournalTypes'
    BY <1>3, <2>2 DEF Typed, JournalTypes
  <2> QED
    BY <1>3, <2>1, <2>2, <2>3 DEF Typed, CallTypes, Goes, Steps
<1> QED
  BY <1>1, <1>2, <1>3 DEF Journal

LEMMA TypedInit == Init => Typed /\ Sent
<1> SUFFICES ASSUME Init PROVE Typed /\ Sent
  OBVIOUS
<1>1. 0 \in 0 .. MaxFailures
  BY MaxFailuresAssumption
<1> QED
  BY <1>1
  DEF Init, Typed, CallTypes, JournalTypes, ApprovalTypes, TokensPresented, Sent, Steps, States

LEMMA TypedNext == Typed /\ Sent /\ [Next]_vars => Typed' /\ Sent'
<1> SUFFICES ASSUME Typed, Sent, [Next]_vars PROVE Typed' /\ Sent'
  OBVIOUS
<1>a. ASSUME NEW e \in Calls, NEW step \in Steps, Goes(e, step)
      PROVE  pc' \in [Calls -> Steps] /\ pc'[e] = step /\ \A f \in Calls \ {e} : pc'[f] = pc[f]
  BY <1>a DEF Goes, Typed, CallTypes
<1>b. ASSUME NEW e \in Calls, NEW from \in States, NEW to \in States \ {"none"}
      PROVE  Moves(Of(e, from, to)) /\ \A v \in Nat : Moves([Of(e, from, to) EXCEPT !.version = v])
  BY DEF Moves, Of, Transition, Typed, JournalTypes
<1>1. ASSUME NEW e \in Calls, Start(e) PROVE Typed' /\ Sent'
  <2>1. gate' \in [Calls -> Calls \cup {NoGate, NoToken}]
    BY <1>1 DEF Start, Typed, CallTypes, ApprovalTypes
  <2>2. \A f \in Calls \ {e} : gate'[f] = gate[f]
    BY <1>1 DEF Start, Typed, CallTypes
  <2>3. pc' \in [Calls -> Steps] /\ pc'[e] = "intent" /\ \A f \in Calls \ {e} : pc'[f] = pc[f]
    BY <1>1, <1>a DEF Start, Steps
  <2> QED
    BY <1>1, <2>1, <2>2, <2>3
    DEF Start, Typed, CallTypes, JournalTypes, ApprovalTypes, TokensPresented, journalVars, approvalVars, Sent
<1>2. ASSUME NEW e \in Calls, Intent(e) PROVE Typed' /\ Sent'
  <2> DEFINE t == Of(e, "none", "admission")
             next == CASE gate[e] = NoGate -> "admitted"
                       [] gate[e] = NoToken -> "create"
                       [] OTHER -> "verify"
  <2>1. Moves(t)
    BY <1>b DEF States
  <2>2. next \in {"admitted", "create", "verify"} /\ (next = "verify" => gate[e] \notin {NoGate, NoToken})
    OBVIOUS
  <2>3. Journal(e, t, next) /\ UNCHANGED <<gate, bind, began, seen, effect, approvalVars>>
    BY <1>2 DEF Intent
  <2> HIDE DEF t, next
  <2>4. next \in Steps /\ pc[e] \in Steps
    BY <2>2 DEF Steps, Typed, CallTypes
  <2>5. /\ JournalTypes' /\ Sent' /\ failures' \in 0 .. MaxFailures /\ pc' \in [Calls -> Steps]
        /\ \A f \in Calls \ {e} : pc'[f] = pc[f]
        /\ pc'[e] \in {next, "over", "fail"}
    BY <2>1, <2>3, <2>4, JournalEffect
  <2>6. TokensPresented'
    BY <2>2, <2>3, <2>5 DEF TokensPresented, Typed, CallTypes
  <2> QED
    BY <2>3, <2>5, <2>6 DEF Typed, CallTypes, ApprovalTypes, approvalVars
<1>3. ASSUME NEW e \in Calls, CreateApproval(e) PROVE Typed' /\ Sent'
  <2>1. failures' \in 0 .. MaxFailures
    BY <1>3, Counted DEF CreateApproval, Typed, CallTypes
  <2>2. pc' \in [Calls -> Steps] /\ pc'[e] = "fail" /\ \A f \in Calls \ {e} : pc'[f] = pc[f]
    BY <1>3, <1>a DEF CreateApproval, Steps
  <2>3. issued' \subseteq Calls
    BY <1>3 DEF CreateApproval, Typed, ApprovalTypes
  <2> QED
    BY <1>3, <2>1, <2>2, <2>3
    DEF CreateApproval, Typed, CallTypes, JournalTypes, ApprovalTypes, TokensPresented, journalVars, Sent
<1>4. ASSUME NEW e \in Calls, Verify(e) \/ Throw(e) \/ Crash(e) PROVE Typed' /\ Sent'
  <2>1. PICK step \in {"fail", "consume", "over"} : Goes(e, step) /\ (step = "consume" => pc[e] = "verify")
    BY <1>4 DEF Verify, Throw, Crash
  <2>2. pc' \in [Calls -> Steps] /\ pc'[e] = step /\ \A f \in Calls \ {e} : pc'[f] = pc[f]
    BY <2>1, <1>a DEF Steps
  <2>3. UNCHANGED <<gate, bind, began, journalVars, effect, approvalVars, failures>>
    BY <1>4 DEF Verify, Throw, Crash
  <2>4. TokensPresented'
    BY <2>1, <2>2, <2>3 DEF TokensPresented, Typed
  <2> QED
    BY <2>2, <2>3, <2>4 DEF Typed, CallTypes, JournalTypes, ApprovalTypes, journalVars, approvalVars, Sent
<1>5. ASSUME NEW e \in Calls, Consume(e) PROVE Typed' /\ Sent'
  <2>0. gate[e] \in Calls
    BY <1>5 DEF Consume, Typed, TokensPresented
  <2>1. failures' \in 0 .. MaxFailures
    BY <1>5, Counted DEF Consume, Typed, CallTypes
  <2>2. PICK step \in {"admitted", "fail"} : Goes(e, step)
    BY <1>5 DEF Consume
  <2>3. pc' \in [Calls -> Steps] /\ pc'[e] = step /\ \A f \in Calls \ {e} : pc'[f] = pc[f]
    BY <2>2, <1>a DEF Steps
  <2>4. approval' \in [Calls -> {"none", "pending", "approved", "denied", "consumed", "expired"}]
    BY <1>5 DEF Consume, StoreConsume, Typed, ApprovalTypes
  <2>5. granted' \in [Calls -> Calls \cup {NoGate}]
    BY <1>5, <2>0 DEF Consume, Typed, ApprovalTypes
  <2> QED
    BY <1>5, <2>1, <2>2, <2>3, <2>4, <2>5
    DEF Consume, Typed, CallTypes, JournalTypes, ApprovalTypes, TokensPresented, journalVars, Sent
<1>6. ASSUME NEW e \in Calls, Execute(e) PROVE Typed' /\ Sent'
  <2>1. Moves(Of(e, "admission", "executing")) /\ "run" \in Steps /\ pc[e] \in Steps
    BY <1>b DEF States, Steps, Typed, CallTypes
  <2>2. /\ JournalTypes' /\ Sent' /\ failures' \in 0 .. MaxFailures /\ pc' \in [Calls -> Steps]
        /\ \A f \in Calls \ {e} : pc'[f] = pc[f]
        /\ pc'[e] \in {"run", "over", "fail"}
    BY <1>6, <2>1, JournalEffect DEF Execute
  <2>3. began' \subseteq Calls
    BY <1>6 DEF Execute, Typed, CallTypes
  <2> QED
    BY <1>6, <2>2, <2>3 DEF Execute, Typed, CallTypes, ApprovalTypes, TokensPresented, approvalVars
<1>7. ASSUME NEW e \in Calls, Begin(e) PROVE Typed' /\ Sent'
  BY <1>7 DEF Begin, Typed, CallTypes, JournalTypes, ApprovalTypes, TokensPresented, callVars, journalVars, approvalVars, Sent
<1>8. ASSUME NEW e \in Calls, Return(e) PROVE Typed' /\ Sent'
  <2>1. pc' \in [Calls -> Steps] /\ pc'[e] = "commit" /\ \A f \in Calls \ {e} : pc'[f] = pc[f]
    BY <1>8, <1>a DEF Return, Steps
  <2> QED
    BY <1>8, <2>1
    DEF Return, Typed, CallTypes, JournalTypes, ApprovalTypes, TokensPresented, journalVars, approvalVars, Sent
<1>9. ASSUME NEW e \in Calls, Commit(e) PROVE Typed' /\ Sent'
  <2>1. Moves(Of(e, "executing", "committed")) /\ "over" \in Steps /\ pc[e] \in Steps
    BY <1>b DEF States, Steps, Typed, CallTypes
  <2>2. /\ JournalTypes' /\ Sent' /\ failures' \in 0 .. MaxFailures /\ pc' \in [Calls -> Steps]
        /\ \A f \in Calls \ {e} : pc'[f] = pc[f]
        /\ pc'[e] \in {"over", "fail"}
    BY <1>9, <2>1, JournalEffect DEF Commit
  <2> QED
    BY <1>9, <2>2 DEF Commit, Typed, CallTypes, ApprovalTypes, TokensPresented, approvalVars
<1>10. ASSUME NEW e \in Calls, ReadRecord(e) PROVE Typed' /\ Sent'
  <2>1. PICK step \in {"over", "failing"} : Goes(e, step)
    BY <1>10 DEF ReadRecord
  <2>2. pc' \in [Calls -> Steps] /\ pc'[e] = step /\ \A f \in Calls \ {e} : pc'[f] = pc[f]
    BY <2>1, <1>a DEF Steps
  <2>3. seen' \in [Calls -> Nat]
    BY <1>10 DEF ReadRecord, Typed, JournalTypes
  <2> QED
    BY <1>10, <2>2, <2>3
    DEF ReadRecord, Typed, CallTypes, JournalTypes, ApprovalTypes, TokensPresented, approvalVars, Sent
<1>11. ASSUME NEW e \in Calls, Fail(e) PROVE Typed' /\ Sent'
  <2> DEFINE t == [Of(e, record[e], Settled(e)) EXCEPT !.version = seen[e]]
  <2>1. record[e] \in States /\ seen[e] \in Nat /\ Settled(e) \in States \ {"none"}
    BY DEF Settled, States, Typed, JournalTypes
  <2>2. Moves(t) /\ "over" \in Steps /\ pc[e] \in Steps
    BY <1>b, <2>1 DEF Steps, Typed, CallTypes
  <2>3. Journal(e, t, "over")
    BY <1>11 DEF Fail
  <2> HIDE DEF t
  <2>4. /\ JournalTypes' /\ Sent' /\ failures' \in 0 .. MaxFailures /\ pc' \in [Calls -> Steps]
        /\ \A f \in Calls \ {e} : pc'[f] = pc[f]
        /\ pc'[e] \in {"over", "fail"}
    BY <1>11, <2>2, <2>3, JournalEffect DEF Fail
  <2> QED
    BY <1>11, <2>4 DEF Fail, Typed, CallTypes, ApprovalTypes, TokensPresented, approvalVars
<1>12. ASSUME NEW a \in Calls, Decide(a) \/ Expire(a) PROVE Typed' /\ Sent'
  BY <1>12
  DEF Decide, Expire, Typed, CallTypes, JournalTypes, ApprovalTypes, TokensPresented, callVars, journalVars, Sent
<1>13. ASSUME NEW t \in sent, Arrive(t) PROVE Typed' /\ Sent'
  <2>1. Moves(t)
    BY DEF Sent
  <2>2. /\ record' \in [Calls -> States] /\ version' \in [Calls -> Nat]
        /\ \A e \in Calls : record'[e] = "none" <=> version'[e] = 0
    BY <1>13, <2>1, AppliedTypes DEF Arrive, Typed, JournalTypes
  <2> QED
    BY <1>13, <2>2 DEF Arrive, Typed, CallTypes, JournalTypes, ApprovalTypes, TokensPresented, callVars, approvalVars, Sent
<1>14. CASE UNCHANGED vars
  BY <1>14
  DEF vars, Typed, CallTypes, JournalTypes, ApprovalTypes, TokensPresented, callVars, journalVars, approvalVars, Sent
<1> QED
  BY <1>1, <1>2, <1>3, <1>4, <1>5, <1>6, <1>7, <1>8, <1>9, <1>10, <1>11, <1>12, <1>13, <1>14 DEF Next

(* Every variable keeps its type, and a record has a version when it exists. *)
THEOREM TypeCorrect == Spec => []TypeOK
<1>1. Typed /\ Sent => TypeOK
  BY TypeParts DEF Typed
<1> QED
  BY <1>1, TypedInit, TypedNext, PTL DEF Spec

-----------------------------------------------------------------------------
(* Approvals *)

Ended == {"fail", "failing", "over"}

(* Who may be at the executor, behind the gate or before it; and what the  *)
(* grants say of the approval store.                                       *)
Spent ==
  /\ \A e \in Calls : approval[e] # "none" => pc[e] \in Ended
  /\ \A e \in Calls : granted[e] # NoGate =>
       approval[granted[e]] = "consumed" /\ bind[granted[e]] = bind[e]
  /\ \A e, f \in Calls : granted[e] = granted[f] /\ granted[e] # NoGate => e = f
  /\ \A e \in Calls : pc[e] = "admitted" /\ gate[e] # NoGate => granted[e] # NoGate
  /\ \A e \in began : pc[e] # "new" /\ (gate[e] # NoGate => granted[e] # NoGate)

LEMMA SpentInit == Init => Spent
  BY DEF Init, Spent

(* A call of the journal lets its caller go on, or ends it. *)
LEMMA JournalGoes ==
  ASSUME Typed, NEW e \in Calls, NEW t, NEW next, Journal(e, t, next)
  PROVE  /\ \A f \in Calls \ {e} : pc'[f] = pc[f]
         /\ pc'[e] \in {next, "over", "fail"}
         /\ pc[e] = "failing" => pc'[e] \in {next, "over"}
  BY DEF Journal, Goes, Typed, CallTypes

LEMMA SpentNext == Typed /\ Spent /\ [Next]_vars => Spent'
<1> SUFFICES ASSUME Typed, Spent, [Next]_vars PROVE Spent'
  OBVIOUS
<1>a. ASSUME NEW e \in Calls, NEW step, Goes(e, step)
      PROVE  pc'[e] = step /\ \A f \in Calls \ {e} : pc'[f] = pc[f]
  BY <1>a DEF Goes, Typed, CallTypes
<1>b. /\ began \subseteq Calls
      /\ granted \in [Calls -> Calls \cup {NoGate}]
      /\ approval \in [Calls -> {"none", "pending", "approved", "denied", "consumed", "expired"}]
      /\ NoGate \notin Calls
  BY GateAssumption DEF Typed, CallTypes, ApprovalTypes
<1>1. ASSUME NEW e \in Calls, Start(e) PROVE Spent'
  <2>1. /\ pc[e] = "new" /\ pc'[e] = "intent" /\ \A f \in Calls \ {e} : pc'[f] = pc[f]
        /\ UNCHANGED <<bind, began, approval, granted>>
    BY <1>1, <1>a DEF Start, approvalVars
  <2>2. \A f \in Calls \ {e} : gate'[f] = gate[f]
    BY <1>1 DEF Start, Typed, CallTypes
  <2>3. e \notin began
    BY <2>1 DEF Spent
  <2> QED
    BY <1>b, <2>1, <2>2, <2>3 DEF Spent, Ended
<1>2. ASSUME NEW e \in Calls, Intent(e) PROVE Spent'
  <2>1. /\ pc[e] = "intent"
        /\ pc'[e] \in {"over", "fail"} \cup
             {IF gate[e] = NoGate THEN "admitted" ELSE IF gate[e] = NoToken THEN "create" ELSE "verify"}
        /\ \A f \in Calls \ {e} : pc'[f] = pc[f]
        /\ UNCHANGED <<gate, bind, began, approval, granted>>
    BY <1>2, JournalGoes, GateAssumption DEF Intent, approvalVars
  <2> QED
    BY <1>b, <2>1 DEF Spent, Ended
<1>3. ASSUME NEW e \in Calls, CreateApproval(e) PROVE Spent'
  <2>1. /\ pc[e] = "create" /\ pc'[e] = "fail" /\ \A f \in Calls \ {e} : pc'[f] = pc[f]
        /\ UNCHANGED <<gate, bind, began, granted>>
        /\ \A f \in Calls \ {e} : approval'[f] = approval[f]
    BY <1>3, <1>a, <1>b DEF CreateApproval
  <2>2. approval[e] = "none"
    BY <2>1 DEF Spent, Ended
  <2> QED
    BY <1>b, <2>1, <2>2 DEF Spent, Ended
<1>4. ASSUME NEW e \in Calls, Verify(e) \/ Throw(e) \/ Crash(e) PROVE Spent'
  <2>1. /\ pc'[e] \in {"fail", "consume", "over"} /\ \A f \in Calls \ {e} : pc'[f] = pc[f]
        /\ pc'[e] = "consume" => pc[e] = "verify"
        /\ UNCHANGED <<gate, bind, began, approval, granted>>
    BY <1>4, <1>a DEF Verify, Throw, Crash, approvalVars
  <2> QED
    BY <1>b, <2>1 DEF Spent, Ended
<1>5. ASSUME NEW e \in Calls, Consume(e) PROVE Spent'
  <2> DEFINE a == gate[e]
  <2>0. a \in Calls /\ a # NoGate
    BY <1>5, <1>b DEF Consume, Typed, TokensPresented
  <2>1. /\ pc[e] = "consume" /\ UNCHANGED <<gate, bind, began>>
        /\ StoreConsume(a, e)
    BY <1>5 DEF Consume
  <2>2. /\ \A f \in Calls : approval[f] = "consumed" => approval'[f] = "consumed"
        /\ \A f \in Calls : approval'[f] # "none" => approval[f] # "none"
    BY <1>b, <2>0, <2>1 DEF StoreConsume, Usable
  <2>3. CASE /\ Usable(a, e) /\ a \notin late /\ Goes(e, "admitted")
             /\ granted' = [granted EXCEPT ![e] = a]
    <3>1. pc'[e] = "admitted" /\ \A f \in Calls \ {e} : pc'[f] = pc[f]
      BY <2>3, <1>a
    <3>2. granted'[e] = a /\ \A f \in Calls \ {e} : granted'[f] = granted[f]
      BY <2>3, <1>b
    <3>3. approval'[a] = "consumed" /\ approval[a] = "approved" /\ bind[a] = bind[e]
      BY <2>0, <2>1, <2>3, <1>b DEF StoreConsume, Usable
    <3>4. \A f \in Calls : granted[f] # a
      BY <3>3, <2>0 DEF Spent
    <3> HIDE DEF a
    <3> QED
      BY <1>b, <2>0, <2>1, <2>2, <3>1, <3>2, <3>3, <3>4 DEF Spent, Ended
  <2>4. CASE Goes(e, "fail") /\ UNCHANGED granted
    <3>1. pc'[e] = "fail" /\ \A f \in Calls \ {e} : pc'[f] = pc[f]
      BY <2>4, <1>a
    <3> QED
      BY <1>b, <2>1, <2>2, <2>4, <3>1 DEF Spent, Ended
  <2> QED
    BY <1>5, <2>3, <2>4 DEF Consume
<1>6. ASSUME NEW e \in Calls, Execute(e) PROVE Spent'
  <2>1. /\ pc[e] = "admitted" /\ pc'[e] \in {"run", "over", "fail"}
        /\ \A f \in Calls \ {e} : pc'[f] = pc[f]
        /\ began' \subseteq began \cup {e}
        /\ UNCHANGED <<gate, bind, approval, granted>>
    BY <1>6, JournalGoes DEF Execute, approvalVars
  <2> QED
    BY <1>b, <2>1 DEF Spent, Ended
<1>7. ASSUME NEW e \in Calls, Begin(e) PROVE Spent'
  BY <1>7, <1>b DEF Begin, callVars, approvalVars, Spent
<1>8. ASSUME NEW e \in Calls, Return(e) \/ Commit(e) \/ ReadRecord(e) \/ Fail(e) PROVE Spent'
  <2>1. /\ pc[e] \in {"run", "commit", "fail", "failing"}
        /\ pc'[e] \in {"commit", "over", "fail", "failing"}
        /\ pc[e] \in Ended => pc'[e] \in Ended
        /\ \A f \in Calls \ {e} : pc'[f] = pc[f]
        /\ UNCHANGED <<gate, bind, began, approval, granted>>
    <3>1. CASE Return(e)
      BY <3>1, <1>a DEF Return, Ended, approvalVars
    <3>2. CASE Commit(e)
      BY <3>2, JournalGoes DEF Commit, Ended, approvalVars
    <3>3. CASE ReadRecord(e)
      BY <3>3, <1>a DEF ReadRecord, Ended, approvalVars
    <3>4. CASE Fail(e)
      BY <3>4, JournalGoes DEF Fail, Ended, approvalVars
    <3> QED
      BY <1>8, <3>1, <3>2, <3>3, <3>4
  <2> QED
    BY <1>b, <2>1 DEF Spent, Ended
<1>9. ASSUME NEW a \in Calls, Decide(a) \/ Expire(a) PROVE Spent'
  <2>1. /\ UNCHANGED <<pc, gate, bind, began, granted>>
        /\ \A f \in Calls : approval[f] = "consumed" => approval'[f] = "consumed"
        /\ \A f \in Calls : approval'[f] # "none" => approval[f] # "none"
    BY <1>9, <1>b DEF Decide, Expire, callVars
  <2> QED
    BY <1>b, <2>1 DEF Spent
<1>10. ASSUME NEW t \in sent, Arrive(t) PROVE Spent'
  BY <1>10, <1>b DEF Arrive, callVars, approvalVars, Spent
<1>11. CASE UNCHANGED vars
  BY <1>11, <1>b DEF vars, callVars, approvalVars, Spent
<1> QED
  BY <1>1, <1>2, <1>3, <1>4, <1>5, <1>6, <1>7, <1>8, <1>9, <1>10, <1>11 DEF Next

(* An approval lets one call through, however many present its token and   *)
(* whatever becomes of the store's answers (ApprovalsAreSpentOnce).        *)
THEOREM ApprovalsAreAlwaysSpentOnce == Spec => []ApprovalsAreSpentOnce
<1>1. Typed /\ Spent => ApprovalsAreSpentOnce
  BY DEF Spent, ApprovalsAreSpentOnce, Typed, CallTypes
<1> QED
  BY <1>1, TypedInit, TypedNext, SpentInit, SpentNext, PTL DEF Spec

-----------------------------------------------------------------------------
(* The journal tells the truth *)

Settles(t) == t.to \in {"failed", "unknown"}

(* What the step a call is at says of its record; a call that has ended    *)
(* may have left any record but one that contradicts the effect.           *)
Agrees(e) ==
  /\ pc[e] \in {"new", "intent"} => record[e] = "none"
  /\ pc[e] \in {"create", "verify", "consume", "admitted"} => record[e] = "admission"
  /\ pc[e] \in {"run", "commit"} => record[e] = "executing" /\ e \in began
  /\ pc[e] = "commit" => effect[e] = "returned"
  /\ pc[e] = "failing" => seen[e] # 0
  /\ record[e] \in {"failed", "unknown"} => pc[e] = "over"

Truthful(e) ==
  /\ effect[e] # "not begun" => e \in began
  /\ e \in began => /\ record[e] \in {"executing", "committed", "unknown"}
                    /\ pc[e] \in {"run", "commit"} \cup Ended
  /\ record[e] = "committed" => effect[e] = "returned"

(* A request whose answer was given up comes from a call that has ended,   *)
(* and what it asks for stays true until it arrives.                       *)
Justified(t) ==
  /\ pc[t.call] \in Ended
  /\ t.to = "admission" => t.from = "none"
  /\ t.to = "executing" => t.from = "admission"
  /\ t.to = "committed" => t.from = "executing" /\ effect[t.call] = "returned"
  /\ Settles(t) => /\ pc[t.call] = "over"
                   /\ record[t.call] \notin {"failed", "unknown"}
                   /\ t.version # 0
                   /\ t.to = "failed" <=> t.call \notin began

Truth ==
  /\ \A e \in Calls : Agrees(e) /\ Truthful(e)
  /\ \A t \in sent : Justified(t)
  /\ \A t, u \in sent : Settles(t) /\ Settles(u) /\ t.call = u.call => t = u

(* What the store makes of a request is a step of EffectOutcome.           *)
Recorded(e, to) ==
  \/ record[e] = "none" /\ to = "admission"
  \/ record[e] = "admission" /\ to = "executing"
  \/ record[e] = "executing" /\ to = "committed" /\ effect[e] = "returned"
  \/ record[e] \in {"admission", "executing"} /\ to = "failed" /\ effect[e] = "not begun"
  \/ record[e] \in {"executing", "committed"} /\ to = "unknown"

LEMMA RecordedMaps ==
  ASSUME Typed, NEW t, Moves(t), Apply(t), Recorded(t.call, t.to), UNCHANGED effect
  PROVE  Outcome!Next
<1> DEFINE e == t.call
<1>1. e \in Calls /\ record' = [record EXCEPT ![e] = t.to] /\ record \in [Calls -> States]
  BY DEF Apply, Moves, Transition, Typed, JournalTypes
<1>2. CASE record[e] = "none" /\ t.to = "admission"
  <2>1. Outcome!Intend(e)
    BY <1>1, <1>2 DEF Outcome!Intend, Outcome!Records
  <2> QED
    BY <1>1, <2>1 DEF Outcome!Next
<1>3. CASE record[e] = "admission" /\ t.to = "executing"
  <2>1. Outcome!Prepare(e)
    BY <1>1, <1>3 DEF Outcome!Prepare, Outcome!Records
  <2> QED
    BY <1>1, <2>1 DEF Outcome!Next
<1>4. CASE record[e] = "executing" /\ t.to = "committed" /\ effect[e] = "returned"
  <2>1. Outcome!Commit(e)
    BY <1>1, <1>4 DEF Outcome!Commit, Outcome!Records
  <2> QED
    BY <1>1, <2>1 DEF Outcome!Next
<1>5. CASE record[e] \in {"admission", "executing"} /\ t.to = "failed" /\ effect[e] = "not begun"
  <2>1. Outcome!Refuse(e)
    BY <1>1, <1>5 DEF Outcome!Refuse, Outcome!Records
  <2> QED
    BY <1>1, <2>1 DEF Outcome!Next
<1>6. CASE record[e] \in {"executing", "committed"} /\ t.to = "unknown"
  <2>1. Outcome!Doubt(e)
    BY <1>1, <1>6 DEF Outcome!Doubt, Outcome!Records
  <2> QED
    BY <1>1, <2>1 DEF Outcome!Next
<1> QED
  BY <1>2, <1>3, <1>4, <1>5, <1>6 DEF Recorded

(* A request that reaches the store finds the state it was meant for.      *)
LEMMA ArrivesRecorded ==
  ASSUME Typed, Sent, Truth, NEW t \in sent, Fits(t)
  PROVE  Recorded(t.call, t.to)
<1>1. t.call \in Calls /\ t.to \in States \ {"none"} /\ Justified(t)
  BY DEF Sent, Moves, Transition, Truth
<1>2. record[t.call] = t.from /\ version[t.call] = t.version
  BY DEF Fits
<1>3. Truthful(t.call) /\ (record[t.call] = "none" <=> version[t.call] = 0)
      /\ record[t.call] \in States /\ effect[t.call] \in {"not begun", "begun", "returned"}
  BY <1>1 DEF Truth, Typed, JournalTypes, CallTypes
<1>4. CASE Settles(t)
  BY <1>1, <1>2, <1>3, <1>4 DEF Settles, Justified, Truthful, Recorded, States
<1>5. CASE ~Settles(t)
  BY <1>1, <1>2, <1>5 DEF Settles, Justified, Recorded, States
<1> QED
  BY <1>4, <1>5

LEMMA TruthInit == Init => Truth /\ Outcome!Init
  BY DEF Init, Truth, Agrees, Truthful, Outcome!Init

(* A step of one call disturbs what is said of that call only.             *)
LEMMA LocalStep ==
  ASSUME Typed, Sent, Truth, NEW e \in Calls,
         \A f \in Calls \ {e} : /\ pc'[f] = pc[f] /\ record'[f] = record[f] /\ seen'[f] = seen[f]
                                /\ effect'[f] = effect[f] /\ (f \in began' <=> f \in began),
         \A t \in sent' : t \in sent \/ t.call = e,
         Agrees(e)', Truthful(e)',
         \A t \in sent' : t.call = e => Justified(t)',
         \A t, u \in sent' : Settles(t) /\ Settles(u) /\ t.call = e /\ u.call = e => t = u
  PROVE  Truth'
<1>1. ASSUME NEW f \in Calls \ {e} PROVE Agrees(f)' /\ Truthful(f)'
  BY <1>1 DEF Truth, Agrees, Truthful
<1>2. ASSUME NEW t \in sent', t.call # e PROVE Justified(t)'
  <2>1. t \in sent /\ t.call \in Calls \ {e} /\ Justified(t)
    BY <1>2 DEF Sent, Moves, Transition, Truth
  <2>2. /\ pc'[t.call] = pc[t.call] /\ record'[t.call] = record[t.call]
        /\ effect'[t.call] = effect[t.call] /\ (t.call \in began' <=> t.call \in began)
    BY <2>1
  <2> QED
    BY <2>1, <2>2 DEF Justified
<1>3. \A t, u \in sent' : Settles(t) /\ Settles(u) /\ t.call = u.call => t = u
  BY DEF Truth
<1> QED
  BY <1>1, <1>2, <1>3 DEF Truth

(* A call of the journal takes effect and is answered, or it ends its      *)
(* caller and leaves the record as it is, perhaps to arrive later.         *)
LEMMA JournalOutcome ==
  ASSUME Typed, NEW e \in Calls, NEW t, Moves(t), t.call = e, NEW next, Journal(e, t, next)
  PROVE  /\ \A f \in Calls \ {e} : pc'[f] = pc[f] /\ record'[f] = record[f]
         /\ \/ /\ Fits(t) /\ Apply(t)
               /\ pc'[e] = next /\ record'[e] = t.to /\ sent' = sent
            \/ /\ record' = record
               /\ pc'[e] = IF pc[e] = "failing" THEN "over" ELSE "fail"
               /\ sent' \in {sent, sent \cup {t}}
  BY DEF Journal, Apply, Goes, Typed, CallTypes, JournalTypes

(* A call that goes on has no request under way. *)
LEMMA NothingUnderWay ==
  ASSUME Truth, NEW e \in Calls, pc[e] \notin Ended
  PROVE  \A t \in sent : t.call # e
  BY DEF Truth, Justified

LEMMA TruthNext ==
  Typed /\ Sent /\ Truth /\ [Next]_vars => Truth' /\ [Outcome!Next]_(Outcome!vars)
<1> SUFFICES ASSUME Typed, Sent, Truth, [Next]_vars
             PROVE  Truth' /\ [Outcome!Next]_(Outcome!vars)
  OBVIOUS
<1>a. ASSUME NEW e \in Calls, NEW step, Goes(e, step)
      PROVE  pc'[e] = step /\ \A f \in Calls \ {e} : pc'[f] = pc[f]
  BY <1>a DEF Goes, Typed, CallTypes
<1>b. ASSUME NEW e \in Calls, NEW from \in States, NEW to \in States \ {"none"}
      PROVE  /\ Moves(Of(e, from, to))
             /\ Of(e, from, to).call = e /\ Of(e, from, to).from = from /\ Of(e, from, to).to = to
  BY DEF Moves, Of, Transition, Typed, JournalTypes
<1>c. began \subseteq Calls /\ \A e \in Calls : Agrees(e) /\ Truthful(e)
  BY DEF Typed, CallTypes, Truth
<1>d. ASSUME UNCHANGED <<record, effect>> PROVE [Outcome!Next]_(Outcome!vars)
  BY <1>d DEF Outcome!vars
<1>1. ASSUME NEW e \in Calls,
             \/ Start(e) \/ CreateApproval(e) \/ Verify(e) \/ Consume(e) \/ Throw(e)
             \/ Crash(e) \/ ReadRecord(e)
      PROVE  Truth' /\ [Outcome!Next]_(Outcome!vars)
  <2>1. /\ UNCHANGED <<record, effect, began, sent>>
        /\ \A f \in Calls \ {e} : pc'[f] = pc[f] /\ seen'[f] = seen[f]
    BY <1>1, <1>a
    DEF Start, CreateApproval, Verify, Consume, Throw, Crash, ReadRecord, journalVars, Typed, JournalTypes
  <2>2. \/ pc[e] = "new" /\ pc'[e] = "intent"
        \/ pc[e] \in {"create", "verify", "consume"} /\ pc'[e] \in {"consume", "admitted", "fail"}
        \/ pc[e] \in {"intent", "verify", "create", "consume", "admitted", "run"} /\ pc'[e] = "fail"
        \/ pc'[e] = "over"
        \/ pc'[e] = "failing" /\ pc[e] = "fail" /\ seen'[e] # 0
    <3>1. CASE Start(e) \/ CreateApproval(e) \/ Verify(e) \/ Consume(e) \/ Throw(e) \/ Crash(e)
      BY <3>1, <1>a DEF Start, CreateApproval, Verify, Consume, Throw, Crash
    <3>2. CASE ReadRecord(e)
      BY <3>2, <1>a DEF ReadRecord, Typed, JournalTypes
    <3> QED
      BY <1>1, <3>1, <3>2
  <2>3. Agrees(e)' /\ Truthful(e)'
    BY <1>c, <2>1, <2>2 DEF Agrees, Truthful, Ended
  <2>4. ASSUME NEW t \in sent', t.call = e PROVE Justified(t)'
    <3>1. Justified(t) /\ pc[e] \in Ended
      BY <2>1, <2>4 DEF Truth, Justified
    <3>2. pc'[e] \in Ended /\ (pc[e] = "over" => pc'[e] = "over")
      BY <2>2, <3>1 DEF Ended
    <3> QED
      BY <2>1, <2>4, <3>1, <3>2 DEF Justified
  <2>5. Truth'
    BY <2>1, <2>3, <2>4, LocalStep DEF Truth
  <2> QED
    BY <1>d, <2>1, <2>5
<1>2. ASSUME NEW e \in Calls, Intent(e) PROVE Truth' /\ [Outcome!Next]_(Outcome!vars)
  <2> DEFINE t == Of(e, "none", "admission")
             next == CASE gate[e] = NoGate -> "admitted"
                       [] gate[e] = NoToken -> "create"
                       [] OTHER -> "verify"
  <2>1. Moves(t) /\ t.call = e /\ t.from = "none" /\ t.to = "admission"
    BY <1>b DEF States
  <2>2. next \in {"admitted", "create", "verify"}
    OBVIOUS
  <2>3. /\ Journal(e, t, next) /\ pc[e] = "intent"
        /\ UNCHANGED <<began, seen, effect>>
    BY <1>2 DEF Intent
  <2> HIDE DEF t, next
  <2>4. /\ record[e] = "none" /\ e \notin began /\ effect[e] = "not begun"
        /\ \A u \in sent : u.call # e
    BY <1>c, <2>3, NothingUnderWay DEF Agrees, Truthful, Ended, Typed, CallTypes
  <2>5. /\ \A f \in Calls \ {e} : pc'[f] = pc[f] /\ record'[f] = record[f]
        /\ \/ /\ Fits(t) /\ Apply(t)
              /\ pc'[e] = next /\ record'[e] = "admission" /\ sent' = sent
           \/ /\ record' = record /\ pc'[e] = "fail" /\ sent' \in {sent, sent \cup {t}}
    BY <2>1, <2>3, JournalOutcome
  <2>6. Agrees(e)' /\ Truthful(e)'
    BY <2>2, <2>3, <2>4, <2>5 DEF Agrees, Truthful
  <2>7. \A u \in sent' : u.call = e => u = t /\ Justified(u)'
    BY <2>1, <2>4, <2>5 DEF Justified, Settles, Ended
  <2>8. Truth'
    BY <2>1, <2>3, <2>5, <2>6, <2>7, LocalStep
  <2>9. ASSUME Apply(t) PROVE Outcome!Next
    BY <2>1, <2>3, <2>4, <2>9, RecordedMaps DEF Recorded
  <2> QED
    BY <1>d, <2>3, <2>5, <2>8, <2>9
<1>3. ASSUME NEW e \in Calls, Execute(e) PROVE Truth' /\ [Outcome!Next]_(Outcome!vars)
  <2> DEFINE t == Of(e, "admission", "executing")
  <2>1. Moves(t) /\ t.call = e /\ t.from = "admission" /\ t.to = "executing"
    BY <1>b DEF States
  <2>2. /\ Journal(e, t, "run") /\ pc[e] = "admitted"
        /\ began' = IF pc'[e] = "run" THEN began \cup {e} ELSE began
        /\ UNCHANGED <<seen, effect>>
    BY <1>3 DEF Execute
  <2> HIDE DEF t
  <2>3. /\ record[e] = "admission" /\ e \notin began /\ effect[e] = "not begun"
        /\ \A u \in sent : u.call # e
    BY <1>c, <2>2, NothingUnderWay DEF Agrees, Truthful, Ended, Typed, CallTypes
  <2>4. /\ \A f \in Calls \ {e} : pc'[f] = pc[f] /\ record'[f] = record[f]
        /\ \/ /\ Fits(t) /\ Apply(t)
              /\ pc'[e] = "run" /\ record'[e] = "executing" /\ sent' = sent
           \/ /\ record' = record /\ pc'[e] = "fail" /\ sent' \in {sent, sent \cup {t}}
    BY <2>1, <2>2, JournalOutcome
  <2>5. Agrees(e)' /\ Truthful(e)'
    BY <2>2, <2>3, <2>4 DEF Agrees, Truthful
  <2>6. \A u \in sent' : u.call = e => u = t /\ Justified(u)'
    BY <2>1, <2>3, <2>4 DEF Justified, Settles, Ended
  <2>7. Truth'
    BY <2>1, <2>2, <2>4, <2>5, <2>6, LocalStep
  <2>8. ASSUME Apply(t) PROVE Outcome!Next
    BY <2>1, <2>2, <2>3, <2>8, RecordedMaps DEF Recorded
  <2> QED
    BY <1>d, <2>2, <2>4, <2>7, <2>8
<1>4. ASSUME NEW e \in Calls, Commit(e) PROVE Truth' /\ [Outcome!Next]_(Outcome!vars)
  <2> DEFINE t == Of(e, "executing", "committed")
  <2>1. Moves(t) /\ t.call = e /\ t.from = "executing" /\ t.to = "committed"
    BY <1>b DEF States
  <2>2. /\ Journal(e, t, "over") /\ pc[e] = "commit"
        /\ UNCHANGED <<began, seen, effect>>
    BY <1>4 DEF Commit
  <2> HIDE DEF t
  <2>3. /\ record[e] = "executing" /\ e \in began /\ effect[e] = "returned"
        /\ \A u \in sent : u.call # e
    BY <1>c, <2>2, NothingUnderWay DEF Agrees, Ended
  <2>4. /\ \A f \in Calls \ {e} : pc'[f] = pc[f] /\ record'[f] = record[f]
        /\ \/ /\ Fits(t) /\ Apply(t)
              /\ pc'[e] = "over" /\ record'[e] = "committed" /\ sent' = sent
           \/ /\ record' = record /\ pc'[e] = "fail" /\ sent' \in {sent, sent \cup {t}}
    BY <2>1, <2>2, JournalOutcome
  <2>5. Agrees(e)' /\ Truthful(e)'
    BY <2>2, <2>3, <2>4 DEF Agrees, Truthful, Ended
  <2>6. \A u \in sent' : u.call = e => u = t /\ Justified(u)'
    BY <2>1, <2>2, <2>3, <2>4 DEF Justified, Settles, Ended
  <2>7. Truth'
    BY <2>1, <2>2, <2>4, <2>5, <2>6, LocalStep
  <2>8. ASSUME Apply(t) PROVE Outcome!Next
    BY <2>1, <2>2, <2>3, <2>8, RecordedMaps DEF Recorded
  <2> QED
    BY <1>d, <2>2, <2>4, <2>7, <2>8
<1>5. ASSUME NEW e \in Calls, Fail(e) PROVE Truth' /\ [Outcome!Next]_(Outcome!vars)
  <2> DEFINE t == [Of(e, record[e], Settled(e)) EXCEPT !.version = seen[e]]
  <2>0. record[e] \in States /\ seen[e] \in Nat /\ Settled(e) \in States \ {"none"}
    BY DEF Settled, States, Typed, JournalTypes
  <2>1. /\ Moves(t) /\ t.call = e /\ t.from = record[e] /\ t.version = seen[e]
        /\ t.to = Settled(e) /\ Settles(t) /\ (t.to = "failed" <=> e \notin began)
    BY <2>0 DEF Of, Moves, Transition, Settled, Settles
  <2>2. Journal(e, t, "over") /\ pc[e] = "failing" /\ UNCHANGED <<began, seen, effect>>
    BY <1>5 DEF Fail
  <2> HIDE DEF t
  <2>3. seen[e] # 0 /\ record[e] \notin {"failed", "unknown"}
    BY <1>c, <2>2 DEF Agrees
  <2>4. \A u \in sent : u.call = e => Justified(u) /\ ~Settles(u)
    BY <2>2 DEF Truth, Justified
  <2>5. /\ \A f \in Calls \ {e} : pc'[f] = pc[f] /\ record'[f] = record[f]
        /\ pc'[e] = "over"
        /\ \/ Fits(t) /\ Apply(t) /\ record'[e] = t.to /\ sent' = sent
           \/ record' = record /\ sent' \in {sent, sent \cup {t}}
    BY <2>1, <2>2, JournalOutcome
  <2>6. CASE Fits(t) /\ Apply(t) /\ record'[e] = t.to /\ sent' = sent
    <3>1. record[e] # "none"
      BY <2>1, <2>3, <2>6 DEF Fits, Typed, JournalTypes
    <3>2. Recorded(e, t.to)
      BY <1>c, <2>0, <2>1, <2>3, <3>1 DEF Truthful, Recorded, States, Settles, Typed, CallTypes
    <3>3. Outcome!Next
      BY <2>1, <2>2, <2>6, <3>2, RecordedMaps
    <3>4. Agrees(e)' /\ Truthful(e)'
      BY <1>c, <2>1, <2>2, <2>5, <2>6 DEF Agrees, Truthful, Ended, Settles
    <3>5. \A u \in sent' : u.call = e => Justified(u)' /\ ~Settles(u)
      BY <2>2, <2>4, <2>5, <2>6 DEF Justified, Ended
    <3>6. Truth'
      BY <2>2, <2>5, <2>6, <3>4, <3>5, LocalStep
    <3> QED
      BY <3>3, <3>6
  <2>7. CASE record' = record /\ sent' \in {sent, sent \cup {t}}
    <3>1. Agrees(e)' /\ Truthful(e)'
      BY <1>c, <2>2, <2>5, <2>7 DEF Agrees, Truthful, Ended
    <3>2. \A u \in sent' : u.call = e => Justified(u)'
      <4>1. ASSUME NEW u, u = t PROVE Justified(u)'
        BY <4>1, <2>1, <2>2, <2>3, <2>5, <2>7 DEF Justified, Ended, Settles
      <4>2. \A u \in sent : u.call = e => Justified(u)'
        BY <2>2, <2>4, <2>5, <2>7 DEF Justified, Ended
      <4> QED
        BY <2>7, <4>1, <4>2
    <3>3. \A u, v \in sent' : Settles(u) /\ Settles(v) /\ u.call = e /\ v.call = e => u = v
      BY <2>4, <2>7
    <3>4. \A u \in sent' : u \in sent \/ u.call = e
      BY <2>1, <2>7
    <3>5. \A f \in Calls \ {e} :
            /\ pc'[f] = pc[f] /\ record'[f] = record[f] /\ seen'[f] = seen[f]
            /\ effect'[f] = effect[f] /\ (f \in began' <=> f \in began)
      BY <2>2, <2>5
    <3>6. Truth'
      BY <3>1, <3>2, <3>3, <3>4, <3>5, LocalStep
    <3> QED
      BY <1>d, <2>2, <2>7, <3>6
  <2> QED
    BY <2>5, <2>6, <2>7
<1>6. ASSUME NEW e \in Calls, Begin(e) \/ Return(e) PROVE Truth' /\ [Outcome!Next]_(Outcome!vars)
  <2>1. /\ UNCHANGED <<record, began, sent, seen>> /\ e \in began
        /\ \/ effect[e] = "not begun" /\ effect' = [effect EXCEPT ![e] = "begun"] /\ pc' = pc
           \/ /\ effect[e] = "begun" /\ effect' = [effect EXCEPT ![e] = "returned"]
              /\ pc[e] = "run" /\ pc'[e] = "commit"
        /\ \A f \in Calls \ {e} : pc'[f] = pc[f]
    BY <1>6, <1>a, <1>c DEF Begin, Return, callVars, journalVars, Agrees, Truthful
  <2>2. /\ effect'[e] \in {"begun", "returned"} /\ effect[e] # "returned"
        /\ \A f \in Calls \ {e} : effect'[f] = effect[f]
        /\ pc'[e] = "commit" /\ pc[e] # "commit" => effect'[e] = "returned"
    BY <2>1 DEF Typed, CallTypes
  <2>3. record[e] \in {"executing", "unknown"} /\ pc[e] # "commit"
    BY <1>c, <2>1, <2>2 DEF Agrees, Truthful
  <2>4. Agrees(e)' /\ Truthful(e)'
    BY <1>c, <2>1, <2>2, <2>3 DEF Agrees, Truthful, Ended
  <2>5. \A u \in sent : u.call = e => Justified(u)'
    <3>1. ASSUME NEW u \in sent, u.call = e PROVE Justified(u)'
      <4>1. Justified(u) /\ pc[e] \in Ended /\ u.to # "committed"
        BY <3>1, <2>2 DEF Truth, Justified
      <4>2. pc'[e] = pc[e]
        BY <2>1, <4>1 DEF Ended
      <4> QED
        BY <2>1, <3>1, <4>1, <4>2 DEF Justified
    <3> QED
      BY <3>1
  <2>6. Truth'
    BY <2>1, <2>2, <2>4, <2>5, LocalStep DEF Truth
  <2>7. Outcome!Begin(e) \/ Outcome!Return(e)
    BY <2>1, <2>3 DEF Outcome!Begin, Outcome!Return
  <2> QED
    BY <2>6, <2>7 DEF Outcome!Next
<1>7. ASSUME NEW t \in sent, Arrive(t) PROVE Truth' /\ [Outcome!Next]_(Outcome!vars)
  <2> DEFINE e == t.call
  <2>1. /\ e \in Calls /\ t.to \in States \ {"none"} /\ Moves(t) /\ Justified(t)
        /\ record \in [Calls -> States]
    BY DEF Sent, Moves, Transition, Truth, Typed, JournalTypes
  <2>2. /\ sent' = sent \ {t} /\ UNCHANGED <<pc, began, seen, effect>>
        /\ IF Fits(t) THEN Apply(t) ELSE UNCHANGED <<record, version>>
    BY <1>7 DEF Arrive, callVars
  <2>3. CASE ~Fits(t)
    <3>1. UNCHANGED <<record, effect>>
      BY <2>2, <2>3
    <3>2. Truth'
      BY <2>2, <3>1 DEF Truth, Agrees, Truthful, Justified
    <3> QED
      BY <1>d, <3>1, <3>2
  <2>4. CASE Fits(t)
    <3>1. /\ Recorded(e, t.to) /\ Apply(t) /\ record'[e] = t.to
          /\ \A f \in Calls \ {e} : record'[f] = record[f]
      BY <2>1, <2>2, <2>4, ArrivesRecorded DEF Apply
    <3>2. Outcome!Next
      BY <2>1, <2>2, <3>1, RecordedMaps
    <3>3. pc[e] \in Ended /\ Agrees(e) /\ Truthful(e) /\ (Settles(t) => pc[e] = "over")
      BY <1>c, <2>1 DEF Justified
    <3>4. (t.to = "failed" => e \notin began) /\ (t.to = "admission" => e \notin began)
      BY <2>1, <3>1, <3>3 DEF Justified, Settles, Recorded, Truthful
    <3>5. Agrees(e)' /\ Truthful(e)'
      BY <2>2, <3>1, <3>3, <3>4 DEF Agrees, Truthful, Ended, Settles, Recorded
    <3>6. ASSUME NEW u \in sent', u.call = e PROVE Justified(u)'
      <4>1. u \in sent /\ Justified(u) /\ (Settles(u) => ~Settles(t))
        BY <2>2, <3>6 DEF Truth
      <4>2. Settles(u) => record'[e] \notin {"failed", "unknown"}
        BY <3>1, <4>1 DEF Settles
      <4> HIDE DEF e
      <4> QED
        BY <2>2, <3>6, <4>1, <4>2 DEF Justified
    <3>7. \A u, v \in sent' : Settles(u) /\ Settles(v) /\ u.call = e /\ v.call = e => u = v
      BY <2>2 DEF Truth
    <3> HIDE DEF e
    <3>8. Truth'
      BY <2>1, <2>2, <3>1, <3>5, <3>6, <3>7, LocalStep
    <3> QED
      BY <3>2, <3>8
  <2> QED
    BY <2>3, <2>4
<1>8. ASSUME NEW a \in Calls, Decide(a) \/ Expire(a) PROVE Truth' /\ [Outcome!Next]_(Outcome!vars)
  <2>1. UNCHANGED <<pc, record, version, sent, seen, began, effect>>
    BY <1>8 DEF Decide, Expire, callVars, journalVars
  <2> QED
    BY <1>d, <2>1 DEF Truth, Agrees, Truthful, Justified
<1>9. CASE UNCHANGED vars
  <2>1. UNCHANGED <<pc, record, version, sent, seen, began, effect>>
    BY <1>9 DEF vars, callVars, journalVars
  <2> QED
    BY <1>d, <2>1 DEF Truth, Agrees, Truthful, Justified
<1> QED
  BY <1>1, <1>2, <1>3, <1>4, <1>5, <1>6, <1>7, <1>8, <1>9 DEF Next

(* Calls, journal and approvals together implement EffectOutcome: no       *)
(* sequence of rejected calls, late requests and crashes makes the journal *)
(* deny an effect that began or claim one that did not (Implements).       *)
THEOREM JournalIsTruthful == Spec => Implements
<1>1. Init => Typed /\ Sent /\ Truth /\ Outcome!Init
  BY TypedInit, TruthInit
<1>2. Typed /\ Sent /\ Truth /\ [Next]_vars
        => Typed' /\ Sent' /\ Truth' /\ [Outcome!Next]_(Outcome!vars)
  BY TypedNext, TruthNext
<1> QED
  BY <1>1, <1>2, PTL DEF Spec, Implements, Outcome!Spec

=============================================================================
