------------------------ MODULE ReportLifecycleProofs ------------------------
(***************************************************************************)
(* Proofs about ReportLifecycle, for any number of reports and sessions    *)
(* and any form.  LifecycleInv is inductive; the three theorems about      *)
(* states follow from it, and with it every step is a step of ReportRecord *)
(* or leaves the record alone.                                             *)
(***************************************************************************)
EXTENDS ReportLifecycle, TLAPS

USE LifecycleAssumption

\* Nothing has happened, so the invariant holds.
LEMMA InitInv == Init => LifecycleInv
<1> SUFFICES ASSUME Init PROVE LifecycleInv
  OBVIOUS
<1>1. TypeOK
  BY DEF Init, TypeOK, Statuses, Steps
<1>2. \A r \in Reports : RowShape(r)
  BY DEF Init, RowShape
<1>3. \A s \in Sessions : /\ SessionOnRow(s)
                          /\ CheckedStaysTrue(s)
                          /\ LoadedFinalStays(s)
                          /\ InsertedBeforeFlip(s)
  BY DEF Init, SessionOnRow, CheckedStaysTrue, LoadedFinalStays,
         InsertedBeforeFlip
<1>4. \A r \in evaluated : status[r] \in Final
  BY DEF Init
<1>5. SubmittedContentApproved
  BY DEF Init, SubmittedContentApproved, Final
<1>6. RevisedHasSuccessor
  BY DEF Init, RevisedHasSuccessor
<1> QED
  BY <1>1, <1>2, <1>3, <1>4, <1>5, <1>6 DEF LifecycleInv

\* A step that leaves the rows alone keeps what the invariant says of rows.
LEMMA RowsKept ==
  ASSUME LifecycleInv, UNCHANGED rows
  PROVE  /\ \A r \in Reports : RowShape(r)'
         /\ (\A r \in evaluated : status[r] \in Final)'
         /\ SubmittedContentApproved'
         /\ RevisedHasSuccessor'
BY DEF LifecycleInv, rows, RowShape, SubmittedContentApproved,
       ContentApproved, RolesSigned, RevisedHasSuccessor

\* A route that loads a row of the right status starts a session that may
\* rely on what it loaded.
LEMMA LoadStep ==
  ASSUME LifecycleInv, NEW s \in Sessions, NEW r \in Reports,
         \/ PatchLoad(s, r) \/ SignLoad(s, r) \/ SubmitLoad(s, r)
         \/ LockLoad(s, r) \/ ReviseLoad(s, r)
  PROVE  LifecycleInv'
<1> USE DEF LifecycleInv
<1>1. PICK step \in {"patch", "sign", "submit_check", "lock", "revise_insert"} :
        /\ Load(s, r, step)
        /\ status[r] # "absent"
        /\ step \in {"lock", "revise_insert"} => status[r] \in Final
  BY DEF PatchLoad, SignLoad, SubmitLoad, LockLoad, ReviseLoad, Final
<1>2. UNCHANGED rows
  BY <1>1 DEF Load
<1>3. payload[r] \in Payloads
  BY <1>1 DEF RowShape, TypeOK
<1>4. TypeOK'
  BY <1>1, <1>3 DEF TypeOK, Load, rows, Steps
<1>5. ASSUME NEW t \in Sessions
      PROVE  /\ SessionOnRow(t)' /\ CheckedStaysTrue(t)'
             /\ LoadedFinalStays(t)' /\ InsertedBeforeFlip(t)'
  BY <1>1, <1>2, <1>3 DEF TypeOK, Load, rows, SessionOnRow, CheckedStaysTrue,
     LoadedFinalStays, InsertedBeforeFlip, RolesSigned
<1> QED
  BY <1>2, <1>4, <1>5, RowsKept

\* The actions that write rows, one lemma each.

LEMMA CreateStep ==
  ASSUME LifecycleInv, NEW r \in Reports, NEW p \in Payloads, CreateDraft(r, p)
  PROVE  LifecycleInv'
<1> USE DEF LifecycleInv, CreateDraft, InsertRow, session
<1>1. TypeOK'
  BY DEF TypeOK, Statuses
<1>2. \A x \in Reports : RowShape(x)'
  BY DEF TypeOK, RowShape, Final
<1>3. ASSUME NEW t \in Sessions
      PROVE  /\ SessionOnRow(t)' /\ CheckedStaysTrue(t)'
             /\ LoadedFinalStays(t)' /\ InsertedBeforeFlip(t)'
  BY DEF TypeOK, SessionOnRow, CheckedStaysTrue, LoadedFinalStays,
     InsertedBeforeFlip, RolesSigned, RowShape, Final
<1>4. (\A x \in evaluated : status[x] \in Final)'
  BY DEF TypeOK, Final
<1>5. SubmittedContentApproved'
  BY DEF TypeOK, SubmittedContentApproved, ContentApproved, RolesSigned, Final
<1>6. \A x \in Reports : revisionOf[x] # NoReport => revisionOf'[x] = revisionOf[x]
  BY DEF TypeOK, RowShape
<1>7. RevisedHasSuccessor'
  BY <1>6 DEF TypeOK, RevisedHasSuccessor
<1> QED
  BY <1>1, <1>2, <1>3, <1>4, <1>5, <1>7

LEMMA PatchStep ==
  ASSUME LifecycleInv, NEW s \in Sessions, NEW p \in Payloads, PatchWrite(s, p)
  PROVE  LifecycleInv'
<1> DEFINE r == target[s]
<1>1. r \in Reports /\ status[r] # "absent"
  BY DEF LifecycleInv, SessionOnRow, PatchWrite
<1>2. \/ status[r] = "draft" /\ payload' = [payload EXCEPT ![r] = p]
      \/ payload' = payload
  BY <1>1 DEF LifecycleInv, TypeOK, PatchWrite, Writable, GuardAdmits
<1> USE <1>1, <1>2 DEF LifecycleInv, PatchWrite, EndSession
<1>3. TypeOK'
  BY DEF TypeOK, Steps
<1>4. \A x \in Reports : RowShape(x)'
  BY DEF TypeOK, RowShape, Final
<1>5. ASSUME NEW t \in Sessions
      PROVE  /\ SessionOnRow(t)' /\ CheckedStaysTrue(t)'
             /\ LoadedFinalStays(t)' /\ InsertedBeforeFlip(t)'
  BY DEF TypeOK, SessionOnRow, CheckedStaysTrue, LoadedFinalStays,
     InsertedBeforeFlip, RolesSigned, Final
<1>6. SubmittedContentApproved'
  BY DEF TypeOK, SubmittedContentApproved, ContentApproved, RolesSigned, Final
<1>7. RevisedHasSuccessor'
  BY DEF RevisedHasSuccessor
<1> QED
  BY <1>3, <1>4, <1>5, <1>6, <1>7

LEMMA SignStep ==
  ASSUME LifecycleInv, NEW s \in Sessions, NEW role \in SignatureRoles,
         SignInsert(s, role)
  PROVE  LifecycleInv'
<1> DEFINE r == target[s]
           g == [role |-> role, payload |-> seen[s]]
<1>1. r \in Reports /\ seen[s] \in Payloads
  BY DEF LifecycleInv, SessionOnRow, SignInsert
<1>2. \/ status[r] = "draft" /\ signatures' = [signatures EXCEPT ![r] = @ \cup {g}]
      \/ signatures' = signatures
  BY DEF SignInsert, SignatureAdmitted, AddSignature
<1>3. \A x \in Reports : signatures[x] \subseteq signatures'[x]
  BY <1>1, <1>2 DEF LifecycleInv, TypeOK
<1>4. TypeOK'
  BY <1>1, <1>2 DEF LifecycleInv, TypeOK, SignInsert, EndSession, Signature, Steps
<1>5. \A x \in Reports : RowShape(x)'
  BY DEF LifecycleInv, SignInsert, RowShape
<1>6. ASSUME NEW t \in Sessions
      PROVE  /\ SessionOnRow(t)' /\ CheckedStaysTrue(t)'
             /\ LoadedFinalStays(t)' /\ InsertedBeforeFlip(t)'
  BY <1>3 DEF LifecycleInv, TypeOK, SignInsert, EndSession, SessionOnRow,
     CheckedStaysTrue, LoadedFinalStays, InsertedBeforeFlip, RolesSigned
<1>7. SubmittedContentApproved'
  BY <1>3 DEF LifecycleInv, SignInsert, SubmittedContentApproved,
     ContentApproved, RolesSigned
<1>8. RevisedHasSuccessor' /\ (\A x \in evaluated : status[x] \in Final)'
  BY DEF LifecycleInv, SignInsert, RevisedHasSuccessor
<1> QED
  BY <1>4, <1>5, <1>6, <1>7, <1>8 DEF LifecycleInv

LEMMA SubmitCheckStep ==
  ASSUME LifecycleInv, NEW s \in Sessions, SubmitCheck(s)
  PROVE  LifecycleInv'
<1> USE DEF LifecycleInv, SubmitCheck, Continue
<1>1. UNCHANGED rows
  OBVIOUS
<1>2. TypeOK'
  BY DEF TypeOK, rows, Steps
<1>3. ASSUME NEW t \in Sessions
      PROVE  /\ SessionOnRow(t)' /\ CheckedStaysTrue(t)'
             /\ LoadedFinalStays(t)' /\ InsertedBeforeFlip(t)'
  BY DEF TypeOK, rows, SessionOnRow, CheckedStaysTrue, LoadedFinalStays,
     InsertedBeforeFlip, RolesSigned
<1> QED
  BY <1>1, <1>2, <1>3, RowsKept

\* The one step where content becomes final: what the session checked about
\* the payload it loaded is what the report now owes its readers.
LEMMA SubmitWriteStep ==
  ASSUME LifecycleInv, NEW s \in Sessions, SubmitWrite(s)
  PROVE  LifecycleInv'
<1> DEFINE r == target[s]
<1>1. pc[s] = "submit_write" /\ Continue(s, "submit_write", "enqueue")
  BY DEF SubmitWrite
<1>2. r \in Reports /\ status[r] # "absent" /\ seen[s] \in Payloads
  BY <1>1 DEF LifecycleInv, SessionOnRow
<1>3. Strip[seen[s]] \in Payloads
  BY <1>2
<1>4. CASE /\ Writable(r, "submitted", FALSE)
           /\ status'  = [status EXCEPT ![r] = "submitted"]
           /\ payload' = [payload EXCEPT ![r] = Strip[seen[s]]]
           /\ warned'  = [warned EXCEPT ![r] = seen[s] \notin Valid]
           /\ UNCHANGED <<revisionOf, signatures, evaluated>>
  <2> USE <1>1, <1>2, <1>3, <1>4 DEF LifecycleInv, Continue
  <2>1. status[r] = "draft"
    BY DEF Writable, PolicyAdmits, GuardAdmits
  <2>2. TypeOK'
    BY DEF TypeOK, Statuses, Steps
  <2>3. \A x \in Reports : RowShape(x)'
    BY <2>1 DEF TypeOK, RowShape, Final
  <2>4. ASSUME NEW t \in Sessions
        PROVE  /\ SessionOnRow(t)' /\ CheckedStaysTrue(t)'
               /\ LoadedFinalStays(t)' /\ InsertedBeforeFlip(t)'
    BY <2>1 DEF TypeOK, SessionOnRow, CheckedStaysTrue, LoadedFinalStays,
       InsertedBeforeFlip, RolesSigned, Final
  <2>5. SubmittedContentApproved'
    <3> SUFFICES ASSUME NEW x \in Reports, status'[x] \in Final
                 PROVE  ContentApproved(x)'
      BY DEF SubmittedContentApproved
    <3>1. CASE x = r
      <4>1. payload'[r] = Strip[seen[s]] /\ warned'[r] = (seen[s] \notin Valid)
        BY DEF TypeOK
      <4>2. /\ RolesSigned(r, seen[s], RequiredRoles)
            /\ seen[s] \in Valid \/ SubmitPolicy = "warn_and_submit"
        BY DEF CheckedStaysTrue
      <4> QED
        BY <3>1, <4>1, <4>2 DEF ContentApproved, RolesSigned
    <3>2. CASE x # r
      BY <3>2 DEF TypeOK, SubmittedContentApproved, ContentApproved, RolesSigned
    <3> QED
      BY <3>1, <3>2
  <2>6. RevisedHasSuccessor' /\ (\A x \in evaluated : status[x] \in Final)'
    BY DEF TypeOK, RevisedHasSuccessor, Final
  <2> QED
    BY <2>2, <2>3, <2>4, <2>5, <2>6
<1>5. CASE ~ Writable(r, "submitted", FALSE) /\ UNCHANGED rows
  <2> USE <1>1, <1>2, <1>5 DEF LifecycleInv, Continue
  <2>1. status[r] \in Final
    BY DEF TypeOK, Statuses, Final, Writable, PolicyAdmits, GuardAdmits
  <2>2. TypeOK'
    BY DEF TypeOK, rows, Steps
  <2>3. ASSUME NEW t \in Sessions
        PROVE  /\ SessionOnRow(t)' /\ CheckedStaysTrue(t)'
               /\ LoadedFinalStays(t)' /\ InsertedBeforeFlip(t)'
    BY <2>1 DEF TypeOK, rows, SessionOnRow, CheckedStaysTrue,
       LoadedFinalStays, InsertedBeforeFlip, RolesSigned
  <2> QED
    BY <2>2, <2>3, RowsKept
<1> QED
  BY <1>4, <1>5 DEF SubmitWrite

LEMMA EnqueueStep ==
  ASSUME LifecycleInv, NEW s \in Sessions, Enqueue(s)
  PROVE  LifecycleInv'
<1> USE DEF LifecycleInv, Enqueue, EndSession
<1>1. target[s] \in Reports
  BY DEF SessionOnRow
<1>2. TypeOK'
  BY <1>1 DEF TypeOK, Steps
<1>3. \A x \in Reports : RowShape(x)'
  BY DEF RowShape
<1>4. ASSUME NEW t \in Sessions
      PROVE  /\ SessionOnRow(t)' /\ CheckedStaysTrue(t)'
             /\ LoadedFinalStays(t)' /\ InsertedBeforeFlip(t)'
  BY DEF TypeOK, SessionOnRow, CheckedStaysTrue, LoadedFinalStays,
     InsertedBeforeFlip, RolesSigned
<1>5. (\A x \in evaluated : status[x] \in Final)'
  BY <1>1 DEF Final
<1>6. SubmittedContentApproved' /\ RevisedHasSuccessor'
  BY DEF SubmittedContentApproved, ContentApproved, RolesSigned,
     RevisedHasSuccessor
<1> QED
  BY <1>2, <1>3, <1>4, <1>5, <1>6

LEMMA LockStep ==
  ASSUME LifecycleInv, NEW s \in Sessions, LockWrite(s)
  PROVE  LifecycleInv'
<1> DEFINE r == target[s]
<1>1. r \in Reports /\ status[r] \in Final
  BY DEF LifecycleInv, SessionOnRow, LoadedFinalStays, LockWrite
<1>2. \/ status[r] # "revised" /\ status' = [status EXCEPT ![r] = "locked"]
      \/ status' = status
  BY DEF LockWrite, Writable, PolicyAdmits
<1> USE <1>1, <1>2 DEF LifecycleInv, LockWrite, EndSession
<1>3. TypeOK'
  BY DEF TypeOK, Statuses, Steps
<1>4. \A x \in Reports : RowShape(x)'
  BY DEF TypeOK, RowShape, Final
<1>5. ASSUME NEW t \in Sessions
      PROVE  /\ SessionOnRow(t)' /\ CheckedStaysTrue(t)'
             /\ LoadedFinalStays(t)' /\ InsertedBeforeFlip(t)'
  BY DEF TypeOK, SessionOnRow, CheckedStaysTrue, LoadedFinalStays,
     InsertedBeforeFlip, RolesSigned, Final
<1>6. (\A x \in evaluated : status[x] \in Final)'
  BY DEF TypeOK, Final
<1>7. SubmittedContentApproved'
  BY DEF TypeOK, SubmittedContentApproved, ContentApproved, RolesSigned, Final
<1>8. RevisedHasSuccessor'
  BY DEF TypeOK, RevisedHasSuccessor
<1> QED
  BY <1>3, <1>4, <1>5, <1>6, <1>7, <1>8

LEMMA ReviseInsertStep ==
  ASSUME LifecycleInv, NEW s \in Sessions, NEW x \in Reports, ReviseInsert(s, x)
  PROVE  LifecycleInv'
<1> DEFINE r == target[s]
<1> USE DEF LifecycleInv, ReviseInsert, InsertRow, Continue
<1>1. r \in Reports /\ status[r] \in Final /\ seen[s] \in Payloads
  BY DEF SessionOnRow, LoadedFinalStays
<1>2. x # r
  BY <1>1 DEF Final
<1>3. revisionOf'[x] = r
  BY DEF TypeOK
<1>4. TypeOK'
  BY <1>1 DEF TypeOK, Statuses, Steps
<1>5. \A y \in Reports : RowShape(y)'
  BY <1>1, <1>2 DEF TypeOK, RowShape, Final
<1>6. ASSUME NEW t \in Sessions
      PROVE  /\ SessionOnRow(t)' /\ CheckedStaysTrue(t)'
             /\ LoadedFinalStays(t)'
  BY <1>1 DEF TypeOK, SessionOnRow, CheckedStaysTrue, LoadedFinalStays,
     RolesSigned, Final
<1>7. \A y \in Reports : revisionOf[y] # NoReport => revisionOf'[y] = revisionOf[y]
  BY DEF TypeOK, RowShape
<1>8. ASSUME NEW t \in Sessions
      PROVE  InsertedBeforeFlip(t)'
  <2> SUFFICES ASSUME pc'[t] = "revise_flip"
               PROVE  \E y \in Reports : revisionOf'[y] = target'[t]
    BY DEF InsertedBeforeFlip
  <2>1. CASE t = s
    BY <1>3, <2>1
  <2>2. CASE t # s
    BY <1>7, <2>2 DEF TypeOK, InsertedBeforeFlip, SessionOnRow
  <2> QED
    BY <2>1, <2>2
<1>9. (\A y \in evaluated : status[y] \in Final)'
  BY DEF TypeOK, Final
<1>10. SubmittedContentApproved'
  BY DEF TypeOK, SubmittedContentApproved, ContentApproved, RolesSigned, Final
<1>11. RevisedHasSuccessor'
  BY <1>7 DEF TypeOK, RevisedHasSuccessor
<1> QED
  BY <1>4, <1>5, <1>6, <1>8, <1>9, <1>10, <1>11

LEMMA ReviseFlipStep ==
  ASSUME LifecycleInv, NEW s \in Sessions, ReviseFlip(s)
  PROVE  LifecycleInv'
<1> DEFINE r == target[s]
<1>1. /\ r \in Reports /\ status[r] \in Final
      /\ \E x \in Reports : revisionOf[x] = r
  BY DEF LifecycleInv, SessionOnRow, LoadedFinalStays, InsertedBeforeFlip,
     ReviseFlip
<1>2. status' = [status EXCEPT ![r] = "revised"] \/ status' = status
  BY DEF ReviseFlip
<1> USE <1>1, <1>2 DEF LifecycleInv, ReviseFlip, EndSession
<1>3. TypeOK'
  BY DEF TypeOK, Statuses, Steps
<1>4. \A x \in Reports : RowShape(x)'
  BY DEF TypeOK, RowShape, Final
<1>5. ASSUME NEW t \in Sessions
      PROVE  /\ SessionOnRow(t)' /\ CheckedStaysTrue(t)'
             /\ LoadedFinalStays(t)' /\ InsertedBeforeFlip(t)'
  BY DEF TypeOK, SessionOnRow, CheckedStaysTrue, LoadedFinalStays,
     InsertedBeforeFlip, RolesSigned, Final
<1>6. (\A x \in evaluated : status[x] \in Final)'
  BY DEF TypeOK, Final
<1>7. SubmittedContentApproved'
  BY DEF TypeOK, SubmittedContentApproved, ContentApproved, RolesSigned, Final
<1>8. RevisedHasSuccessor'
  BY DEF TypeOK, RevisedHasSuccessor
<1> QED
  BY <1>3, <1>4, <1>5, <1>6, <1>7, <1>8

LEMMA FailStep ==
  ASSUME LifecycleInv, NEW s \in Sessions, Fail(s)
  PROVE  LifecycleInv'
<1> USE DEF LifecycleInv, Fail, EndSession
<1>1. TypeOK'
  BY DEF TypeOK, rows, Steps
<1>2. ASSUME NEW t \in Sessions
      PROVE  /\ SessionOnRow(t)' /\ CheckedStaysTrue(t)'
             /\ LoadedFinalStays(t)' /\ InsertedBeforeFlip(t)'
  BY DEF TypeOK, rows, SessionOnRow, CheckedStaysTrue, LoadedFinalStays,
     InsertedBeforeFlip, RolesSigned
<1> QED
  BY <1>1, <1>2, RowsKept

LEMMA StutterStep ==
  ASSUME LifecycleInv, UNCHANGED vars
  PROVE  LifecycleInv'
BY DEF LifecycleInv, vars, TypeOK, RowShape, SessionOnRow, CheckedStaysTrue,
   LoadedFinalStays, InsertedBeforeFlip, SubmittedContentApproved,
   ContentApproved, RolesSigned, RevisedHasSuccessor

LEMMA NextInv == LifecycleInv /\ [Next]_vars => LifecycleInv'
BY LoadStep, CreateStep, PatchStep, SignStep, SubmitCheckStep,
   SubmitWriteStep, EnqueueStep, LockStep, ReviseInsertStep, ReviseFlipStep,
   FailStep, StutterStep DEF Next

\* The invariant that carries the others: what each session may still rely on
\* at its next call, whatever the other sessions did meanwhile.
THEOREM Invariance == Spec => []LifecycleInv
<1>1. LifecycleInv /\ [Next]_vars => LifecycleInv'
  BY NextInv
<1> QED
  BY InitInv, <1>1, PTL DEF Spec

\* Every row and every session always holds values of its type.
THEOREM TypeCorrect == Spec => []TypeOK
<1>1. LifecycleInv => TypeOK
  BY DEF LifecycleInv
<1> QED
  BY Invariance, <1>1, PTL

\* No overlap of edits, signatures and submits lets a report be submitted
\* with content its required signers did not sign or nothing validated.
THEOREM Approval == Spec => []SubmittedContentApproved
<1>1. LifecycleInv => SubmittedContentApproved
  BY DEF LifecycleInv
<1> QED
  BY Invariance, <1>1, PTL

\* However a revision fails between its two writes, a revised report has a
\* successor.
THEOREM Succession == Spec => []RevisedHasSuccessor
<1>1. LifecycleInv => RevisedHasSuccessor
  BY DEF LifecycleInv
<1> QED
  BY Invariance, <1>1, PTL

-----------------------------------------------------------------------------
\* A step of a session is one step of the record or none.
LEMMA RecordStep == LifecycleInv /\ [Next]_vars => [Record!Next]_(Record!vars)
<1> SUFFICES ASSUME LifecycleInv, [Next]_vars
             PROVE  [Record!Next]_(Record!vars)
  OBVIOUS
<1> USE DEF Record!Next, Record!vars
<1> DEFINE Unseen == UNCHANGED <<status, payload, revisionOf, warned, signatures>>
<1>1. ASSUME NEW r \in Reports, NEW p \in Payloads, CreateDraft(r, p)
      PROVE  Record!Write(r, p)
  <2>1. revisionOf' = revisionOf
    BY <1>1 DEF CreateDraft, InsertRow, LifecycleInv, TypeOK, RowShape
  <2> QED
    BY <1>1, <2>1 DEF CreateDraft, InsertRow, Record!Write
<1>2. ASSUME NEW s \in Sessions, NEW r \in Reports,
             \/ PatchLoad(s, r) \/ SignLoad(s, r) \/ SubmitLoad(s, r)
             \/ LockLoad(s, r) \/ ReviseLoad(s, r)
      PROVE  Unseen
  BY <1>2 DEF PatchLoad, SignLoad, SubmitLoad, LockLoad, ReviseLoad, Load, rows
<1>3. ASSUME NEW s \in Sessions, NEW p \in Payloads, PatchWrite(s, p)
      PROVE  Record!Edit(target[s], p) \/ Unseen
  BY <1>3 DEF PatchWrite, Writable, PolicyAdmits, GuardAdmits, LifecycleInv,
     TypeOK, SessionOnRow, Record!Edit
<1>4. ASSUME NEW s \in Sessions, NEW role \in SignatureRoles, SignInsert(s, role)
      PROVE  Record!Sign(target[s], role, seen[s]) \/ Unseen
  BY <1>4 DEF SignInsert, SignatureAdmitted, AddSignature, Record!Sign
<1>5. ASSUME NEW s \in Sessions, SubmitWrite(s)
      PROVE  Record!Submit(target[s], seen[s]) \/ Unseen
  <2>1. CheckedStaysTrue(s) /\ pc[s] = "submit_write"
    BY <1>5 DEF LifecycleInv, SubmitWrite
  <2> QED
    BY <1>5, <2>1 DEF SubmitWrite, Writable, PolicyAdmits, GuardAdmits, rows,
       CheckedStaysTrue, RolesSigned, Record!Submit, Record!SignedFor
<1>6. ASSUME NEW s \in Sessions, LockWrite(s)
      PROVE  Record!Lock(target[s]) \/ Unseen
  <2>1. target[s] \in Reports /\ status[target[s]] \in Final
    BY <1>6 DEF LockWrite, LifecycleInv, SessionOnRow, LoadedFinalStays
  <2> QED
    BY <1>6, <2>1 DEF LockWrite, Writable, PolicyAdmits, GuardAdmits, Final,
       LifecycleInv, TypeOK, Record!Lock
<1>7. ASSUME NEW s \in Sessions, NEW x \in Reports, ReviseInsert(s, x)
      PROVE  Record!Succeed(x, target[s])
  <2>1. /\ status[target[s]] \in Final
        /\ seen[s] = payload[target[s]]
    BY <1>7 DEF ReviseInsert, Continue, LifecycleInv, LoadedFinalStays
  <2> QED
    BY <1>7, <2>1 DEF ReviseInsert, InsertRow, Final, Record!Succeed
<1>8. ASSUME NEW s \in Sessions, ReviseFlip(s)
      PROVE  Record!Revise(target[s]) \/ Unseen
  <2>1. /\ target[s] \in Reports /\ status[target[s]] \in Final
        /\ \E x \in Reports : revisionOf[x] = target[s]
    BY <1>8 DEF ReviseFlip, LifecycleInv, SessionOnRow, LoadedFinalStays,
       InsertedBeforeFlip
  <2> QED
    BY <1>8, <2>1 DEF ReviseFlip, Writable, PolicyAdmits, GuardAdmits, Final,
       Record!Revise
<1>9. ASSUME NEW s \in Sessions,
             SubmitCheck(s) \/ Enqueue(s) \/ Fail(s)
      PROVE  Unseen
  BY <1>9 DEF SubmitCheck, Enqueue, Fail, rows
<1>10. \A s \in Sessions : pc[s] # "idle" => target[s] \in Reports /\ seen[s] \in Payloads
  BY DEF LifecycleInv, SessionOnRow
<1>11. ASSUME NEW s \in Sessions
       PROVE  /\ \A p \in Payloads : PatchWrite(s, p) => pc[s] # "idle"
              /\ \A role \in SignatureRoles : SignInsert(s, role) => pc[s] # "idle"
              /\ \A x \in Reports : ReviseInsert(s, x) => pc[s] # "idle"
              /\ SubmitWrite(s) \/ LockWrite(s) \/ ReviseFlip(s) => pc[s] # "idle"
  BY DEF PatchWrite, SignInsert, ReviseInsert, Continue, SubmitWrite, LockWrite,
     ReviseFlip
<1>12. CASE UNCHANGED vars
  BY <1>12 DEF vars
<1>13. CASE Next
  BY <1>13, <1>1, <1>2, <1>3, <1>4, <1>5, <1>6, <1>7, <1>8, <1>9, <1>10, <1>11
     DEF Next
<1> QED
  BY <1>12, <1>13

\* The routes with their loads, overlaps and failures implement the record:
\* after its submission a report changes in nothing but its status, and that
\* only forward.
THEOREM Refinement == Spec => ImplementsRecord
<1>1. Init => Record!Init
  BY DEF Init, Record!Init
<1>2. LifecycleInv /\ [Next]_vars => [Record!Next]_(Record!vars)
  BY RecordStep
<1> QED
  BY <1>1, <1>2, Invariance, PTL DEF Spec, ImplementsRecord, Record!Spec
=============================================================================
