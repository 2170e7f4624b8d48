------------------------- MODULE JobLifecycleProofs -------------------------
(***************************************************************************)
(* Theorems about JobLifecycle for any set of jobs, workers and cancel     *)
(* calls.  Those about types and cancellations hold under all faults.  The *)
(* others exclude the faults that break them, and name them: a lost lock   *)
(* gives a job two handlers, an add whose answer is lost fails a job that  *)
(* the queue has, a worker that crashes leaves what it has uploaded.       *)
(***************************************************************************)
EXTENDS JobLifecycle, TLAPS

(* Unfolding of Next into the steps the proofs below go through. *)
LEMMA NextCases ==
    ASSUME Next
    PROVE  \/ \E j \in Jobs : \/ CreateCommit(j) \/ AddSucceeds(j) \/ AddFails(j)
                              \/ MarkQueued(j) \/ Promote(j) \/ StalledCheck(j)
           \/ \E c \in Cancels : CancelRemove(c) \/ \E j \in Jobs : CancelRead(c, j)
           \/ \E a \in Requests : \/ TxUpdate(a) \/ RefundFind(a) \/ TxCommit(a)
                                  \/ ApiCrash(a)
           \/ \E w \in Workers :
                \/ \E j \in Jobs : Take(w, j)
                \/ HandleRead(w) \/ EnsureJobNotCancelled(w) \/ CleanBeforeRun(w)
                \/ SetProcessing(w) \/ ProviderAnswers(w) \/ Upload(w)
                \/ CreateAsset(w) \/ CreateVersion(w) \/ Complete(w)
                \/ StageFails(w) \/ Rollback(w) \/ CatchCleanup(w) \/ Requeue(w)
                \/ Fail(w) \/ RefundCheck(w) \/ RefundWrite(w) \/ LogFailed(w)
                \/ Acknowledge(w) \/ Reject(w) \/ CatchFails(w)
                \/ WorkerCrash(w) \/ LockLost(w)
BY DEF Next, CreateStep, TxStep, HandlerStep, TryStep, CatchStep

LEMMA AfterType == ASSUME NEW s PROVE After(s) \in Stages
BY DEF After, Stages, TryStages, CheckStages, ProcessingStages, UploadStages,
       AssetStages, VersionStages, CatchStages

LEMMA OutputType == ASSUME NEW s, NEW r \in Nat PROVE Output(s, r) \in Assets
BY DEF Output, Assets

(* One more refund entry leaves the ledger a ledger. *)
LEMMA LedgerType ==
    ASSUME NEW f \in [Jobs -> [RefundReasons -> Nat]], NEW x \in Jobs \cup {None},
           NEW r \in RefundReasons
    PROVE  [f EXCEPT ![x][r] = @ + 1] \in [Jobs -> [RefundReasons -> Nat]]
<1> DEFINE row(j) == [f[j] EXCEPT ![r] = @ + 1]
<1>1. ASSUME NEW j \in Jobs PROVE row(j) \in [RefundReasons -> Nat]
  OBVIOUS
<1>2. [f EXCEPT ![x][r] = @ + 1] = [j \in Jobs |-> IF j = x THEN row(j) ELSE f[j]]
  OBVIOUS
<1> HIDE DEF row
<1> QED BY <1>1, <1>2

(* Every action keeps every variable in its type. *)
THEOREM TypeCorrect == Spec => []TypeOK
<1>1. Init => TypeOK
  BY DEF Init, TypeOK, JobStatus, BullState, RequestStep, Stages, Error, Requests
<1>2. TypeOK /\ [Next]_vars => TypeOK'
  <2> SUFFICES ASSUME TypeOK, [Next]_vars PROVE TypeOK'
    OBVIOUS
  <2> USE DEF TypeOK
  <2>1. CASE UNCHANGED vars
    BY <2>1 DEF vars, dbVars, apiVars, queueVars, workVars
  <2>2. ASSUME NEW j \in Jobs,
               \/ CreateCommit(j) \/ AddSucceeds(j) \/ AddFails(j)
               \/ MarkQueued(j) \/ Promote(j) \/ StalledCheck(j)
        PROVE  TypeOK'
    <3>1. CASE CreateCommit(j)
      BY <3>1 DEF CreateCommit, queueVars, workVars, JobStatus, RequestStep, Requests
    <3>2. CASE AddSucceeds(j)
      BY <3>2 DEF AddSucceeds, dbVars, workVars, BullState, RequestStep, Requests
    <3>3. CASE AddFails(j)
      BY <3>3 DEF AddFails, dbVars, workVars, BullState, RequestStep, Requests
    <3>4. CASE MarkQueued(j)
      BY <3>4 DEF MarkQueued, SetStatus, queueVars, workVars, JobStatus, RequestStep, Requests
    <3>5. CASE Promote(j)
      BY <3>5 DEF Promote, dbVars, apiVars, workVars, BullState
    <3>6. CASE StalledCheck(j)
      BY <3>6 DEF StalledCheck, dbVars, apiVars, workVars, BullState
    <3> QED BY <2>2, <3>1, <3>2, <3>3, <3>4, <3>5, <3>6
  <2>3. ASSUME NEW c \in Cancels, CancelRemove(c) \/ \E j \in Jobs : CancelRead(c, j)
        PROVE  TypeOK'
    <3>1. CASE CancelRemove(c)
      BY <3>1 DEF CancelRemove, dbVars, queueVars, workVars, BullState, RequestStep,
                  Requests
    <3>2. ASSUME NEW j \in Jobs, CancelRead(c, j) PROVE TypeOK'
      BY <3>2 DEF CancelRead, dbVars, queueVars, workVars, RequestStep, Requests
    <3> QED BY <2>3, <3>1, <3>2
  <2>4. ASSUME NEW a \in Requests,
               TxUpdate(a) \/ RefundFind(a) \/ TxCommit(a) \/ ApiCrash(a)
        PROVE  TypeOK'
    <3>1. CASE TxUpdate(a)
      BY <2>4, <3>1 DEF TxUpdate, queueVars, workVars, RequestStep
    <3>2. CASE RefundFind(a)
      BY <2>4, <3>2 DEF RefundFind, dbVars, queueVars, workVars, RequestStep
    <3>3. CASE TxCommit(a)
      <4>1. ledger' \in [Jobs -> [RefundReasons -> Nat]]
        BY <3>3, LedgerType DEF TxCommit, Reason, RefundReasons
      <4>2. status' \in [Jobs -> JobStatus]
        BY <3>3 DEF TxCommit, Verdict, JobStatus
      <4> QED BY <3>3, <4>1, <4>2 DEF TxCommit, queueVars, workVars, RequestStep
    <3>4. CASE ApiCrash(a)
      BY <2>4, <3>4 DEF ApiCrash, queueVars, workVars, RequestStep, Requests
    <3> QED BY <2>4, <3>1, <3>2, <3>3, <3>4
  <2>5. ASSUME NEW w \in Workers, NEW j \in Jobs, Take(w, j) PROVE TypeOK'
    BY <2>5 DEF Take, dbVars, apiVars, BullState, Stages, Error
  <2>6. ASSUME NEW w \in Workers,
               HandleRead(w) \/ ProviderAnswers(w) \/ RefundCheck(w) \/ LogFailed(w) \/ CatchFails(w)
        PROVE  TypeOK'
    <3>1. CASE HandleRead(w)
      BY <3>1 DEF HandleRead, Goto, dbVars, apiVars, queueVars, Stages, TryStages, CheckStages, ProcessingStages, CatchStages
    <3>2. CASE ProviderAnswers(w)
      BY <3>2 DEF ProviderAnswers, Goto, dbVars, apiVars, queueVars, Stages, TryStages, CheckStages, ProcessingStages, CatchStages
    <3>3. CASE RefundCheck(w)
      BY <3>3 DEF RefundCheck, Goto, dbVars, apiVars, queueVars, Stages, TryStages, CheckStages, ProcessingStages, CatchStages
    <3>4. CASE LogFailed(w)
      BY <3>4 DEF LogFailed, Goto, dbVars, apiVars, queueVars, Stages, TryStages, CheckStages, ProcessingStages, CatchStages
    <3>5. CASE CatchFails(w)
      BY <3>5 DEF CatchFails, Goto, dbVars, apiVars, queueVars, Stages, TryStages, CheckStages, ProcessingStages, CatchStages
    <3> QED BY <2>6, <3>1, <3>2, <3>3, <3>4, <3>5
  <2>7. ASSUME NEW w \in Workers,
               EnsureJobNotCancelled(w) \/ StageFails(w)
        PROVE  TypeOK'
    <3>1. CASE EnsureJobNotCancelled(w)
      <4>1. pc' \in [Workers -> Stages]
        <5>1. CASE status[on[w]] = "CANCELLED"
          BY <3>1, <5>1 DEF EnsureJobNotCancelled, Goto, Stages, CatchStages
        <5>2. CASE status[on[w]] # "CANCELLED"
          BY <3>1, <5>2, AfterType DEF EnsureJobNotCancelled, Goto
        <5> QED BY <5>1, <5>2
      <4>2. err' \in [Workers -> Error]
        BY <3>1 DEF EnsureJobNotCancelled, Error
      <4> QED BY <3>1, <4>1, <4>2 DEF EnsureJobNotCancelled, dbVars, apiVars, queueVars
    <3>2. CASE StageFails(w)
      BY <3>2, AfterType DEF StageFails, Goto, dbVars, apiVars, queueVars, Stages, CatchStages, Error
    <3> QED BY <2>7, <3>1, <3>2
  <2>8. ASSUME NEW w \in Workers,
               SetProcessing(w) \/ Complete(w) \/ Requeue(w) \/ Fail(w)
        PROVE  TypeOK'
    <3>1. CASE SetProcessing(w)
      BY <3>1, AfterType DEF SetProcessing, SetStatus, Goto, apiVars, queueVars, JobStatus, Stages, CatchStages
    <3>2. CASE Complete(w)
      BY <3>2, AfterType DEF Complete, SetStatus, Goto, apiVars, queueVars, JobStatus, Stages, CatchStages
    <3>3. CASE Requeue(w)
      BY <3>3, AfterType DEF Requeue, SetStatus, Goto, apiVars, queueVars, JobStatus, Stages, CatchStages
    <3>4. CASE Fail(w)
      BY <3>4, AfterType DEF Fail, SetStatus, Goto, apiVars, queueVars, JobStatus, Stages, CatchStages
    <3> QED BY <2>8, <3>1, <3>2, <3>3, <3>4
  <2>9. ASSUME NEW w \in Workers,
               CleanBeforeRun(w) \/ CatchCleanup(w) \/ Rollback(w)
        PROVE  TypeOK'
    <3>1. CASE CleanBeforeRun(w)
      BY <3>1 DEF CleanBeforeRun, CleanupOutputArtifacts, Goto, apiVars, queueVars, Stages, TryStages, ProcessingStages, CatchStages
    <3>2. CASE CatchCleanup(w)
      BY <3>2 DEF CatchCleanup, CleanupOutputArtifacts, Goto, apiVars, queueVars, Stages, TryStages, ProcessingStages, CatchStages
    <3>3. CASE Rollback(w)
      BY <3>3 DEF Rollback, CleanupOutputArtifacts, Goto, apiVars, queueVars, Stages, TryStages, ProcessingStages, CatchStages
    <3> QED BY <2>9, <3>1, <3>2, <3>3
  <2>10. ASSUME NEW w \in Workers,
               Upload(w) \/ CreateAsset(w) \/ CreateVersion(w)
        PROVE  TypeOK'
    <3>1. Output(pc[w], run[w]) \in Assets
      BY OutputType
    <3>2. CASE Upload(w)
      BY <3>2, <3>1, AfterType DEF Upload, Goto, apiVars, queueVars
    <3>3. CASE CreateAsset(w)
      BY <3>3, <3>1, AfterType DEF CreateAsset, Goto, apiVars, queueVars
    <3>4. CASE CreateVersion(w)
      BY <3>4, <3>1, AfterType DEF CreateVersion, Goto, apiVars, queueVars
    <3> QED BY <2>10, <3>2, <3>3, <3>4
  <2>11. ASSUME NEW w \in Workers, RefundWrite(w) PROVE TypeOK'
    <3>1. ledger' \in [Jobs -> [RefundReasons -> Nat]]
      BY <2>11, LedgerType DEF RefundWrite, RefundReasons
    <3> QED BY <2>11, <3>1 DEF RefundWrite, Goto, apiVars, queueVars, Stages, CatchStages
  <2>12. ASSUME NEW w \in Workers,
               Acknowledge(w) \/ Reject(w)
        PROVE  TypeOK'
    <3>1. CASE Acknowledge(w)
      BY <3>1 DEF Acknowledge, Release, dbVars, apiVars, BullState, Stages
    <3>2. CASE Reject(w)
      <4>1. tries' \in [Jobs -> Nat]
        <5>1. CASE holder[on[w]] = w
          <6>1. tries' = [tries EXCEPT ![on[w]] = @ + 1]
            BY <3>2, <5>1 DEF Reject
          <6>2. CASE on[w] \in Jobs
            <7>1. tries[on[w]] + 1 \in Nat
              BY <6>2
            <7> QED BY <6>1, <7>1
          <6>3. CASE on[w] \notin Jobs
            BY <6>1, <6>3
          <6> QED BY <6>2, <6>3
        <5>2. CASE holder[on[w]] # w
          BY <3>2, <5>2 DEF Reject
        <5> QED BY <5>1, <5>2
      <4>2. bull' \in [Jobs -> BullState]
        BY <3>2 DEF Reject, BullState
      <4> QED BY <3>2, <4>1, <4>2 DEF Reject, Release, dbVars, apiVars, Stages
    <3> QED BY <2>12, <3>1, <3>2
  <2>13. ASSUME NEW w \in Workers,
               WorkerCrash(w) \/ LockLost(w)
        PROVE  TypeOK'
    <3>1. CASE WorkerCrash(w)
      BY <3>1 DEF WorkerCrash, DropLock, Release, dbVars, apiVars, Stages
    <3>2. CASE LockLost(w)
      BY <3>2 DEF LockLost, DropLock, Release, dbVars, apiVars, Stages
    <3> QED BY <2>13, <3>1, <3>2
  <2> QED
    BY <2>1, <2>2, <2>3, <2>4, <2>5, <2>6, <2>7, <2>8, <2>9, <2>10, <2>11, <2>12,
       <2>13, NextCases
<1> QED BY <1>1, <1>2, PTL DEF Spec

----------------------------------------------------------------------------
(* The cancellation refund.  A transaction past its first update holds the  *)
(* row lock; under the lock a decision to refund stays right until commit.  *)

HasTarget(a) ==
    /\ a \in Jobs => target[a] = a
    /\ step[a] \in {"remove", "lock", "find", "refund", "plain"}
          => target[a] \in Jobs

HoldsRow(a) ==
    step[a] \in {"find", "refund", "plain"} => rowLock[target[a]] = a

DecisionStands(a) ==
    /\ step[a] = "refund" => target[a] \in Charged
    /\ step[a] = "refund" /\ a \in Cancels
          => ledger[target[a]]["REFUND_CANCELED_JOB"] = 0

RefundInv ==
    /\ TypeOK
    /\ \A a \in Requests : HasTarget(a) /\ HoldsRow(a) /\ DecisionStands(a)
    /\ CancelRefundOnce

(* Whatever leaves the API calls, the row locks and the cancellation refunds *)
(* alone keeps the invariant.                                                *)
LEMMA RefundFrame ==
    ASSUME RefundInv, TypeOK', UNCHANGED <<apiVars, rowLock>>,
           \A j \in Jobs : ledger'[j]["REFUND_CANCELED_JOB"]
                             = ledger[j]["REFUND_CANCELED_JOB"]
    PROVE  RefundInv'
<1>1. ASSUME NEW a \in Requests
      PROVE  HasTarget(a)' /\ HoldsRow(a)' /\ DecisionStands(a)'
  BY DEF RefundInv, HasTarget, HoldsRow, DecisionStands, apiVars
<1>2. CancelRefundOnce'
  BY DEF RefundInv, CancelRefundOnce
<1> QED BY <1>1, <1>2 DEF RefundInv

LEMMA RefundInvHolds == Spec => []RefundInv
<1>1. Init => RefundInv
  <2> SUFFICES ASSUME Init PROVE RefundInv
    OBVIOUS
  <2>1. TypeOK
    BY DEF Init, TypeOK, JobStatus, BullState, RequestStep, Stages, Error, Requests
  <2>2. \A a \in Requests : HasTarget(a) /\ HoldsRow(a) /\ DecisionStands(a)
    BY DEF Init, HasTarget, HoldsRow, DecisionStands, Requests
  <2>3. CancelRefundOnce
    <3>1. ASSUME NEW j \in Jobs PROVE ledger[j]["REFUND_CANCELED_JOB"] <= 1
      <4>1. ledger[j]["REFUND_CANCELED_JOB"] = 0
        BY DEF Init, RefundReasons
      <4> QED BY <4>1
    <3> QED BY <3>1 DEF CancelRefundOnce
  <2> QED BY <2>1, <2>2, <2>3 DEF RefundInv
<1>2. RefundInv /\ TypeOK' /\ [Next]_vars => RefundInv'
  <2> SUFFICES ASSUME RefundInv, TypeOK', [Next]_vars PROVE RefundInv'
    OBVIOUS
  <2>1. CASE UNCHANGED vars
    BY <2>1, RefundFrame DEF vars, dbVars, apiVars
  <2>2. ASSUME NEW j \in Jobs,
               CreateCommit(j) \/ AddSucceeds(j) \/ AddFails(j) \/ MarkQueued(j)
        PROVE  RefundInv'
    <3>1. /\ UNCHANGED <<ledger, rowLock, target>>
          /\ \E s \in {"add", "markQueued", "lock", "done"} :
               step' = [step EXCEPT ![j] = s]
      BY <2>2 DEF CreateCommit, AddSucceeds, AddFails, MarkQueued, dbVars
    <3>2. target[j] \in Jobs
      BY DEF RefundInv, HasTarget, Requests
    <3>3. ASSUME NEW a \in Requests
          PROVE  HasTarget(a)' /\ HoldsRow(a)' /\ DecisionStands(a)'
      BY <3>1, <3>2 DEF RefundInv, TypeOK, HasTarget, HoldsRow, DecisionStands, Requests
    <3>4. CancelRefundOnce'
      BY <3>1 DEF RefundInv, CancelRefundOnce
    <3> QED BY <3>3, <3>4 DEF RefundInv
  <2>3. ASSUME NEW j \in Jobs, Promote(j) \/ StalledCheck(j) PROVE RefundInv'
    BY <2>3, RefundFrame DEF Promote, StalledCheck, dbVars, apiVars
  <2>4. ASSUME NEW c \in Cancels, CancelRemove(c) PROVE RefundInv'
    <3>1. /\ UNCHANGED <<ledger, rowLock, target>>
          /\ step[c] = "remove" /\ step' = [step EXCEPT ![c] = "lock"]
      BY <2>4 DEF CancelRemove, dbVars
    <3>2. ASSUME NEW a \in Requests
          PROVE  HasTarget(a)' /\ HoldsRow(a)' /\ DecisionStands(a)'
      BY <3>1 DEF RefundInv, TypeOK, HasTarget, HoldsRow, DecisionStands, Requests
    <3>3. CancelRefundOnce'
      BY <3>1 DEF RefundInv, CancelRefundOnce
    <3> QED BY <3>2, <3>3 DEF RefundInv
  <2>5. ASSUME NEW c \in Cancels, NEW j \in Jobs, CancelRead(c, j) PROVE RefundInv'
    <3>1. /\ UNCHANGED <<ledger, rowLock>>
          /\ step' = [step EXCEPT ![c] = "remove"]
          /\ target' = [target EXCEPT ![c] = j]
          /\ c \notin Jobs
      BY <2>5, RequestsAssumption DEF CancelRead, dbVars
    <3>2. ASSUME NEW a \in Requests
          PROVE  HasTarget(a)' /\ HoldsRow(a)' /\ DecisionStands(a)'
      BY <3>1 DEF RefundInv, TypeOK, HasTarget, HoldsRow, DecisionStands, Requests
    <3>3. CancelRefundOnce'
      BY <3>1 DEF RefundInv, CancelRefundOnce
    <3> QED BY <3>2, <3>3 DEF RefundInv
  <2>6. ASSUME NEW a \in Requests, TxUpdate(a) PROVE RefundInv'
    <3>1. target[a] \in Jobs /\ rowLock[target[a]] = None
      BY <2>6 DEF TxUpdate, RefundInv, HasTarget
    <3>2. ASSUME NEW b \in Requests
          PROVE  HasTarget(b)' /\ HoldsRow(b)' /\ DecisionStands(b)'
      <4>1. b # None
        BY NoneAssumption DEF Requests
      <4> QED BY <2>6, <3>1, <4>1
              DEF TxUpdate, RefundInv, TypeOK, HasTarget, HoldsRow, DecisionStands
    <3>3. CancelRefundOnce'
      BY <2>6 DEF TxUpdate, RefundInv, CancelRefundOnce
    <3> QED BY <3>2, <3>3 DEF RefundInv
  <2>7. ASSUME NEW a \in Requests, RefundFind(a) PROVE RefundInv'
    <3>1. UNCHANGED <<ledger, rowLock, target>>
      BY <2>7 DEF RefundFind, dbVars
    <3>2. ASSUME NEW b \in Requests
          PROVE  HasTarget(b)' /\ HoldsRow(b)' /\ DecisionStands(b)'
      BY <2>7, <3>1 DEF RefundFind, RefundDue, Reason, RefundInv, TypeOK, HasTarget, HoldsRow,
                        DecisionStands
    <3>3. CancelRefundOnce'
      BY <3>1 DEF RefundInv, CancelRefundOnce
    <3> QED BY <3>2, <3>3 DEF RefundInv
  <2>8. ASSUME NEW a \in Requests, TxCommit(a) PROVE RefundInv'
    <3>1. /\ step[a] \in {"refund", "plain"}
          /\ target[a] \in Jobs
          /\ rowLock[target[a]] = a
          /\ step' = [step EXCEPT ![a] = "done"]
          /\ rowLock' = [rowLock EXCEPT ![target[a]] = None]
          /\ UNCHANGED target
      BY <2>8 DEF TxCommit, RefundInv, HasTarget, HoldsRow
    <3>2. ASSUME NEW j \in Jobs, j # target[a] PROVE ledger'[j] = ledger[j]
      BY <2>8, <3>2 DEF TxCommit, RefundInv, TypeOK
    <3>3. ledger'[target[a]]["REFUND_CANCELED_JOB"] <= 1
      <4>1. CASE step[a] = "refund" /\ a \in Cancels
        <5>1. ledger' = [ledger EXCEPT ![target[a]]["REFUND_CANCELED_JOB"] = @ + 1]
          BY <2>8, <4>1 DEF TxCommit, Reason
        <5>2. ledger[target[a]]["REFUND_CANCELED_JOB"] = 0
          BY <4>1 DEF RefundInv, DecisionStands
        <5> QED BY <3>1, <5>1, <5>2 DEF RefundInv, TypeOK, RefundReasons
      <4>2. CASE step[a] = "refund" /\ a \notin Cancels
        <5>1. ledger' = [ledger EXCEPT ![target[a]]["REFUND_FAILED_JOB"] = @ + 1]
          BY <2>8, <4>2 DEF TxCommit, Reason
        <5> QED BY <3>1, <5>1 DEF RefundInv, TypeOK, RefundReasons, CancelRefundOnce
      <4>3. CASE step[a] # "refund"
        BY <2>8, <3>1, <4>3 DEF TxCommit, RefundInv, CancelRefundOnce
      <4> QED BY <4>1, <4>2, <4>3
    <3>4. ASSUME NEW b \in Requests
          PROVE  HasTarget(b)' /\ HoldsRow(b)' /\ DecisionStands(b)'
      <4>1. CASE b = a
        BY <3>1, <4>1 DEF RefundInv, TypeOK, HasTarget, HoldsRow, DecisionStands
      <4>2. CASE b # a
        <5>1. step'[b] = step[b] /\ target'[b] = target[b]
          BY <3>1, <4>2 DEF RefundInv, TypeOK
        <5>2. HasTarget(b) /\ HoldsRow(b) /\ DecisionStands(b)
          BY DEF RefundInv
        <5>3. step[b] \in {"find", "refund", "plain"}
                => target[b] \in Jobs /\ target[b] # target[a]
          BY <3>1, <4>2, <5>2 DEF HasTarget, HoldsRow
        <5>4. HoldsRow(b)'
          BY <3>1, <5>1, <5>2, <5>3 DEF HoldsRow, RefundInv, TypeOK
        <5>5. DecisionStands(b)'
          BY <3>2, <5>1, <5>2, <5>3 DEF DecisionStands
        <5> QED BY <5>1, <5>2, <5>4, <5>5 DEF HasTarget
      <4> QED BY <4>1, <4>2
    <3>5. CancelRefundOnce'
      BY <3>2, <3>3 DEF CancelRefundOnce, RefundInv
    <3> QED BY <3>4, <3>5 DEF RefundInv
  <2>9. ASSUME NEW a \in Requests, ApiCrash(a) PROVE RefundInv'
    <3>1. /\ UNCHANGED <<ledger, target>>
          /\ step' = [step EXCEPT ![a] = "done"]
          /\ rowLock' = [j \in Jobs |-> IF rowLock[j] = a THEN None ELSE rowLock[j]]
      BY <2>9 DEF ApiCrash
    <3>2. ASSUME NEW b \in Requests
          PROVE  HasTarget(b)' /\ HoldsRow(b)' /\ DecisionStands(b)'
      BY <3>1 DEF RefundInv, TypeOK, HasTarget, HoldsRow, DecisionStands
    <3>3. CancelRefundOnce'
      BY <3>1 DEF RefundInv, CancelRefundOnce
    <3> QED BY <3>2, <3>3 DEF RefundInv
  <2>10. ASSUME NEW w \in Workers, NEW j \in Jobs, Take(w, j) PROVE RefundInv'
    BY <2>10, RefundFrame DEF Take, dbVars, apiVars
  <2>11. ASSUME NEW w \in Workers, RefundWrite(w) PROVE RefundInv'
    <3>1. \A j \in Jobs : ledger'[j]["REFUND_CANCELED_JOB"]
                            = ledger[j]["REFUND_CANCELED_JOB"]
      BY <2>11 DEF RefundWrite, RefundInv, TypeOK, RefundReasons
    <3> QED BY <2>11, <3>1, RefundFrame DEF RefundWrite, apiVars
  <2>12. ASSUME NEW w \in Workers,
                \/ HandleRead(w) \/ EnsureJobNotCancelled(w) \/ CleanBeforeRun(w)
                \/ SetProcessing(w) \/ ProviderAnswers(w) \/ Upload(w)
                \/ CreateAsset(w) \/ CreateVersion(w) \/ Complete(w)
                \/ StageFails(w) \/ Rollback(w) \/ CatchCleanup(w) \/ Requeue(w)
                \/ Fail(w) \/ RefundCheck(w) \/ LogFailed(w)
                \/ Acknowledge(w) \/ Reject(w) \/ CatchFails(w)
                \/ WorkerCrash(w) \/ LockLost(w)
         PROVE  RefundInv'
    <3>1. UNCHANGED <<ledger, rowLock, apiVars>>
      BY <2>12 DEF HandleRead, EnsureJobNotCancelled, CleanBeforeRun, SetProcessing,
                   ProviderAnswers, Upload, CreateAsset, CreateVersion, Complete,
                   StageFails, Rollback, CatchCleanup, Requeue, Fail, RefundCheck,
                   LogFailed, Acknowledge, Reject, CatchFails, WorkerCrash, LockLost,
                   DropLock, dbVars
    <3> QED BY <3>1, RefundFrame
  <2> QED
    BY <2>1, <2>2, <2>3, <2>4, <2>5, <2>6, <2>7, <2>8, <2>9, <2>10, <2>11, <2>12,
       NextCases
<1> QED BY <1>1, <1>2, TypeCorrect, PTL DEF Spec

(* No interleaving of API calls, handlers, crashes and lost locks refunds a  *)
(* job twice as cancelled.                                                   *)
THEOREM CancelRefundAtMostOnce == Spec => []CancelRefundOnce
<1>1. RefundInv => CancelRefundOnce
  BY DEF RefundInv
<1> QED BY <1>1, RefundInvHolds, PTL

----------------------------------------------------------------------------
(* What is refunded, under every fault.  A decision not to refund stays      *)
(* right: entries are never taken back.                                      *)

PlainStands(a) ==
    step[a] = "plain" => target[a] \notin Charged \/ ledger[target[a]][Reason(a)] > 0

RefundsCharged(w) == pc[w] = "refundWrite" => on[w] \in Charged

CancelInv ==
    /\ CancelledIsRefunded
    /\ \A a \in Requests : PlainStands(a)
    /\ \A w \in Workers : RefundsCharged(w)

LEMMA AfterIsTryStage == ASSUME NEW s PROVE After(s) \in TryStages \cup {"return"}
BY DEF After, TryStages, CheckStages, ProcessingStages, UploadStages, AssetStages,
       VersionStages

LEMMA RefundsType ==
    ASSUME TypeOK, NEW j \in Jobs
    PROVE  /\ ledger[j]["REFUND_FAILED_JOB"] \in Nat
           /\ ledger[j]["REFUND_CANCELED_JOB"] \in Nat
           /\ Refunds(j) \in Nat
BY DEF TypeOK, RefundReasons, Refunds

(* One more entry, seen from each job. *)
LEMMA LedgerWrite ==
    ASSUME TypeOK, NEW x \in Jobs, NEW r \in RefundReasons,
           ledger' = [ledger EXCEPT ![x][r] = @ + 1]
    PROVE  /\ \A j \in Jobs : j # x => ledger'[j] = ledger[j] /\ Refunds(j)' = Refunds(j)
           /\ ledger'[x][r] = ledger[x][r] + 1
           /\ \A q \in RefundReasons : q # r => ledger'[x][q] = ledger[x][q]
           /\ Refunds(x)' = Refunds(x) + 1
           /\ \A j \in Jobs, q \in RefundReasons : ledger'[j][q] >= ledger[j][q]
<1>1. /\ \A j \in Jobs : j # x => ledger'[j] = ledger[j]
      /\ ledger'[x] = [ledger[x] EXCEPT ![r] = @ + 1]
  BY DEF TypeOK
<1>2. ledger[x] \in [RefundReasons -> Nat]
  BY DEF TypeOK
<1>3. /\ ledger'[x][r] = ledger[x][r] + 1
      /\ \A q \in RefundReasons : q # r => ledger'[x][q] = ledger[x][q]
  BY <1>1, <1>2
<1>4. Refunds(x)' = Refunds(x) + 1
  BY <1>2, <1>3 DEF Refunds, RefundReasons
<1>5. ASSUME NEW j \in Jobs, NEW q \in RefundReasons PROVE ledger'[j][q] >= ledger[j][q]
  <2>1. ledger[j][q] \in Nat
    BY DEF TypeOK
  <2> QED BY <1>1, <1>3, <2>1
<1> QED BY <1>1, <1>3, <1>4, <1>5 DEF Refunds

LEMMA CancelFrame ==
    ASSUME CancelInv, UNCHANGED ledger,
           \A j \in Jobs : status'[j] = "CANCELLED" => status[j] = "CANCELLED",
           \A a \in Requests :
              step'[a] = "plain" => step[a] = "plain" /\ target'[a] = target[a],
           \A w \in Workers :
              pc'[w] = "refundWrite" => pc[w] = "refundWrite" /\ on'[w] = on[w]
    PROVE  CancelInv'
<1>1. CancelledIsRefunded'
  BY DEF CancelInv, CancelledIsRefunded, Refunds
<1>2. \A a \in Requests : PlainStands(a)'
  BY DEF CancelInv, PlainStands, Reason
<1>3. \A w \in Workers : RefundsCharged(w)'
  BY DEF CancelInv, RefundsCharged
<1> QED BY <1>1, <1>2, <1>3 DEF CancelInv

(* After the commit a charged job has been paid back, as failed or as        *)
(* cancelled.                                                                *)
LEMMA CommitRepays ==
    ASSUME RefundInv, CancelInv, NEW a \in Requests, TxCommit(a), NEW x \in Jobs,
           x = target[a]
    PROVE  /\ \A j \in Jobs, q \in RefundReasons : ledger'[j][q] >= ledger[j][q]
           /\ \A j \in Jobs : j # x => Refunds(j)' = Refunds(j)
           /\ x \notin Charged => Refunds(x)' = Refunds(x)
           /\ x \in Charged => Refunds(x)' > 0
<1>0. step[a] \in {"refund", "plain"} /\ TypeOK
  BY DEF TxCommit, RefundInv
<1>1. CASE step[a] = "refund"
  <2>1. ledger' = [ledger EXCEPT ![x][Reason(a)] = @ + 1] /\ Reason(a) \in RefundReasons
    BY <1>1 DEF TxCommit, Reason, RefundReasons
  <2>2. x \in Charged
    BY <1>1 DEF RefundInv, DecisionStands
  <2>3. /\ \A j \in Jobs : j # x => Refunds(j)' = Refunds(j)
        /\ Refunds(x)' = Refunds(x) + 1
        /\ \A j \in Jobs, q \in RefundReasons : ledger'[j][q] >= ledger[j][q]
    BY <1>0, <2>1, LedgerWrite
  <2>4. Refunds(x) \in Nat
    BY <1>0, RefundsType
  <2> QED BY <2>2, <2>3, <2>4
<1>2. CASE step[a] = "plain"
  <2>1. ledger' = ledger /\ (x \in Charged => ledger[x][Reason(a)] > 0)
    BY <1>2 DEF TxCommit, CancelInv, PlainStands
  <2>2. x \in Charged => Refunds(x) > 0
    BY <1>0, <2>1, RefundsType DEF Reason, Refunds
  <2>3. \A j \in Jobs, q \in RefundReasons : ledger[j][q] \in Nat
    BY <1>0 DEF TypeOK
  <2> QED BY <2>1, <2>2, <2>3 DEF Refunds
<1> QED BY <1>0, <1>1, <1>2

LEMMA CancelCommitStep ==
    ASSUME RefundInv, CancelInv, NEW a \in Requests, TxCommit(a) PROVE CancelInv'
<1>. PICK x \in Jobs : x = target[a]
  BY DEF TxCommit, RefundInv, HasTarget
<1>1. /\ step' = [step EXCEPT ![a] = "done"] /\ step[a] \in {"refund", "plain"}
      /\ status' = [status EXCEPT ![x] = Verdict(a)]
      /\ UNCHANGED <<target, workVars>> /\ TypeOK
  BY DEF TxCommit, RefundInv
<1>2. /\ \A j \in Jobs, q \in RefundReasons : ledger'[j][q] >= ledger[j][q]
      /\ \A j \in Jobs : j # x => Refunds(j)' = Refunds(j)
      /\ x \notin Charged => Refunds(x)' = Refunds(x)
      /\ x \in Charged => Refunds(x)' > 0
  BY CommitRepays
<1>3. CancelledIsRefunded'
  <2>1. \A j \in Jobs : j # x => status'[j] = status[j]
    BY <1>1 DEF TypeOK
  <2> QED BY <1>2, <2>1 DEF CancelInv, CancelledIsRefunded
<1>4. ASSUME NEW b \in Requests PROVE PlainStands(b)'
  <2>1. step'[b] = "plain" => step[b] = "plain" /\ b # a
    BY <1>1 DEF TypeOK
  <2>2. step[b] = "plain" => target[b] \in Jobs
    BY DEF RefundInv, HasTarget
  <2>3. Reason(b) \in RefundReasons /\ Reason(b)' = Reason(b)
    BY DEF Reason, RefundReasons
  <2>4. ASSUME NEW j \in Jobs, NEW q \in RefundReasons, ledger[j][q] > 0
        PROVE  ledger'[j][q] > 0
    <3>1. ledger[j][q] \in Nat /\ ledger'[j][q] >= ledger[j][q]
      BY <1>1, <1>2 DEF TypeOK
    <3>2. ledger'[j][q] \in Nat
      <4>1. CASE step[a] = "refund"
        <5>1. ledger' \in [Jobs -> [RefundReasons -> Nat]]
          BY <1>1, <4>1, LedgerType DEF TxCommit, TypeOK, Reason, RefundReasons
        <5> QED BY <5>1
      <4>2. CASE step[a] = "plain"
        BY <3>1, <4>2 DEF TxCommit
      <4> QED BY <1>1, <4>1, <4>2
    <3> QED BY <2>4, <3>1, <3>2
  <2> QED BY <1>1, <2>1, <2>2, <2>3, <2>4 DEF CancelInv, PlainStands
<1>5. \A w \in Workers : RefundsCharged(w)'
  BY <1>1 DEF CancelInv, RefundsCharged, workVars
<1> QED BY <1>3, <1>4, <1>5 DEF CancelInv

LEMMA CancelInvStep ==
    ASSUME RefundInv, CancelInv, [Next]_vars PROVE CancelInv'
<1> USE DEF dbVars, apiVars, queueVars, workVars
<1>0. TypeOK
  BY DEF RefundInv
<1>1. CASE UNCHANGED vars
  BY <1>1, CancelFrame DEF vars
<1>2. ASSUME NEW j \in Jobs,
             \/ CreateCommit(j) \/ AddSucceeds(j) \/ AddFails(j)
             \/ MarkQueued(j) \/ Promote(j) \/ StalledCheck(j)
      PROVE  CancelInv'
  <2>1. /\ UNCHANGED <<ledger, target, pc, on>>
        /\ step' = step \/ \E s \in {"add", "markQueued", "lock", "done"} :
                              step' = [step EXCEPT ![j] = s]
        /\ status' = status \/ \E s \in {"PENDING", "QUEUED"} :
                                  status' = [status EXCEPT ![j] = s]
    BY <1>2 DEF CreateCommit, AddSucceeds, AddFails, MarkQueued, Promote,
                StalledCheck, SetStatus
  <2> QED BY <1>0, <2>1, CancelFrame DEF TypeOK, Requests
<1>3. ASSUME NEW c \in Cancels, CancelRemove(c) \/ \E j \in Jobs : CancelRead(c, j)
      PROVE  CancelInv'
  <2>1. /\ UNCHANGED <<ledger, status, pc, on>>
        /\ \E s \in {"remove", "lock"} : step' = [step EXCEPT ![c] = s]
        /\ target' = target \/ \E j \in Jobs : target' = [target EXCEPT ![c] = j]
    BY <1>3 DEF CancelRemove, CancelRead
  <2> QED BY <1>0, <2>1, CancelFrame DEF TypeOK, Requests
<1>4. ASSUME NEW a \in Requests, TxUpdate(a) \/ ApiCrash(a) PROVE CancelInv'
  <2>1. /\ UNCHANGED <<ledger, status, target, pc, on>>
        /\ \E s \in {"find", "done"} : step' = [step EXCEPT ![a] = s]
    BY <1>4 DEF TxUpdate, ApiCrash
  <2> QED BY <1>0, <2>1, CancelFrame DEF TypeOK
<1>5. ASSUME NEW a \in Requests, RefundFind(a) PROVE CancelInv'
  <2>1. /\ UNCHANGED <<ledger, status, target, pc, on>>
        /\ step' = [step EXCEPT ![a] = IF RefundDue(a) THEN "refund" ELSE "plain"]
        /\ target[a] \in Jobs
    BY <1>5 DEF RefundFind, RefundInv, HasTarget
  <2>2. CancelledIsRefunded' /\ \A w \in Workers : RefundsCharged(w)'
    BY <2>1 DEF CancelInv, CancelledIsRefunded, Refunds, RefundsCharged
  <2>3. ASSUME NEW b \in Requests PROVE PlainStands(b)'
    <3>1. Reason(b)' = Reason(b) /\ Reason(b) \in RefundReasons
      BY DEF Reason, RefundReasons
    <3>2. CASE b = a
      <4>1. ledger[target[a]][Reason(a)] \in Nat
        BY <1>0, <2>1, <3>1, <3>2 DEF TypeOK
      <4> QED BY <1>0, <2>1, <3>1, <3>2, <4>1 DEF PlainStands, RefundDue, TypeOK
    <3>3. CASE b # a
      BY <1>0, <2>1, <3>1, <3>3 DEF CancelInv, PlainStands, TypeOK
    <3> QED BY <3>2, <3>3
  <2> QED BY <2>2, <2>3 DEF CancelInv
<1>6. ASSUME NEW w \in Workers, NEW j \in Jobs, Take(w, j) PROVE CancelInv'
  BY <1>0, <1>6, CancelFrame DEF Take, TypeOK
<1>7. ASSUME NEW w \in Workers, RefundCheck(w) PROVE CancelInv'
  <2>1. /\ UNCHANGED <<ledger, status, step, target, on>>
        /\ pc' = [pc EXCEPT ![w] = IF NoRefundYet(on[w]) THEN "refundWrite" ELSE "logFailed"]
    BY <1>7 DEF RefundCheck, Goto
  <2>2. CancelledIsRefunded' /\ \A a \in Requests : PlainStands(a)'
    BY <2>1 DEF CancelInv, CancelledIsRefunded, Refunds, PlainStands, Reason
  <2>3. \A v \in Workers : RefundsCharged(v)'
    BY <1>0, <2>1 DEF CancelInv, RefundsCharged, NoRefundYet, TypeOK
  <2> QED BY <2>2, <2>3 DEF CancelInv
<1>8. ASSUME NEW w \in Workers, RefundWrite(w) PROVE CancelInv'
  <2>1. on[w] \in Charged /\ on[w] \in Jobs
    BY <1>8, JobsAssumption DEF RefundWrite, CancelInv, RefundsCharged
  <2>2. /\ UNCHANGED <<status, step, target, on>>
        /\ pc' = [pc EXCEPT ![w] = "logFailed"]
        /\ ledger' = [ledger EXCEPT ![on[w]]["REFUND_FAILED_JOB"] = @ + 1]
    BY <1>8 DEF RefundWrite, Goto
  <2>3. /\ \A j \in Jobs : j # on[w] => Refunds(j)' = Refunds(j)
        /\ Refunds(on[w])' = Refunds(on[w]) + 1
        /\ \A j \in Jobs, q \in RefundReasons : ledger'[j][q] >= ledger[j][q]
    <3>. PICK x \in Jobs : x = on[w]
      BY <2>1
    <3>1. ledger' = [ledger EXCEPT ![x]["REFUND_FAILED_JOB"] = @ + 1]
          /\ "REFUND_FAILED_JOB" \in RefundReasons
      BY <2>2 DEF RefundReasons
    <3>2. /\ \A j \in Jobs : j # x => Refunds(j)' = Refunds(j)
          /\ Refunds(x)' = Refunds(x) + 1
          /\ \A j \in Jobs, q \in RefundReasons : ledger'[j][q] >= ledger[j][q]
      BY <1>0, <3>1, LedgerWrite
    <3>3. Refunds(on[w])' = Refunds(x)'
      BY <2>2 DEF Refunds
    <3> QED BY <3>2, <3>3
  <2>4. CancelledIsRefunded'
    <3>1. \A j \in Jobs : Refunds(j) \in Nat
      BY <1>0, RefundsType
    <3>2. ASSUME NEW j \in Jobs
          PROVE  /\ j \notin Charged => Refunds(j)' = 0
                 /\ status'[j] = "CANCELLED" /\ j \in Charged => Refunds(j)' > 0
      <4>1. CASE j = on[w]
        <5>1. Refunds(j)' = Refunds(j) + 1
          BY <2>2, <2>3, <4>1 DEF Refunds
        <5> QED BY <2>1, <3>1, <4>1, <5>1
      <4>2. CASE j # on[w]
        BY <2>2, <2>3, <4>2 DEF CancelInv, CancelledIsRefunded
      <4> QED BY <4>1, <4>2
    <3> QED BY <3>2 DEF CancelledIsRefunded
  <2>5. ASSUME NEW b \in Requests PROVE PlainStands(b)'
    <3>1. Reason(b)' = Reason(b) /\ Reason(b) \in RefundReasons
      BY DEF Reason, RefundReasons
    <3>2. step[b] = "plain" => target[b] \in Jobs
      BY DEF RefundInv, HasTarget
    <3>3. ledger' \in [Jobs -> [RefundReasons -> Nat]]
      BY <1>0, <2>2, LedgerType, <2>1 DEF TypeOK, RefundReasons
    <3>4. \A j \in Jobs, q \in RefundReasons :
             ledger[j][q] \in Nat /\ ledger'[j][q] \in Nat
      BY <1>0, <3>3 DEF TypeOK
    <3> QED BY <2>2, <2>3, <3>1, <3>2, <3>4 DEF CancelInv, PlainStands
  <2>6. \A v \in Workers : RefundsCharged(v)'
    BY <1>0, <2>2 DEF CancelInv, RefundsCharged, TypeOK
  <2> QED BY <2>4, <2>5, <2>6 DEF CancelInv
<1>9. ASSUME NEW w \in Workers,
             SetProcessing(w) \/ Complete(w) \/ Requeue(w) \/ Fail(w)
      PROVE  CancelInv'
  <2>1. /\ UNCHANGED <<ledger, step, target, on>>
        /\ \E s \in {"PROCESSING", "COMPLETED", "QUEUED", "FAILED"} :
             status' = [status EXCEPT ![on[w]] = s]
        /\ \E s \in TryStages \cup {"return", "throw", "refundCheck"} :
             pc' = [pc EXCEPT ![w] = s]
    BY <1>9, AfterIsTryStage DEF SetProcessing, Complete, Requeue, Fail, SetStatus, Goto
  <2>2. "refundWrite" \notin TryStages \cup {"return", "throw", "refundCheck"}
    BY DEF TryStages, CheckStages, ProcessingStages, UploadStages, AssetStages,
           VersionStages
  <2> QED BY <1>0, <2>1, <2>2, CancelFrame DEF TypeOK
<1>10. ASSUME NEW w \in Workers,
              \/ HandleRead(w) \/ EnsureJobNotCancelled(w) \/ CleanBeforeRun(w)
              \/ ProviderAnswers(w) \/ Upload(w) \/ CreateAsset(w) \/ CreateVersion(w)
              \/ StageFails(w) \/ Rollback(w) \/ CatchCleanup(w) \/ LogFailed(w)
              \/ Acknowledge(w) \/ Reject(w) \/ CatchFails(w) \/ WorkerCrash(w)
       PROVE  CancelInv'
  <2> DEFINE S == TryStages \cup {"idle", "return", "throw", "check1", "p5", "p60",
                                  "rollback", "cancelCleanup", "finalCleanup", "requeue", "fail"}
  <2>1. /\ UNCHANGED <<ledger, status, step, target>>
        /\ \E s \in S : pc' = [pc EXCEPT ![w] = s]
        /\ \A v \in Workers : v # w => on'[v] = on[v]
    <3>1. UNCHANGED <<ledger, status, step, target>>
      BY <1>10 DEF HandleRead, EnsureJobNotCancelled, CleanBeforeRun, ProviderAnswers,
                   Upload, CreateAsset, CreateVersion, StageFails, Rollback, CatchCleanup,
                   LogFailed, Acknowledge, Reject, CatchFails, WorkerCrash, DropLock
    <3>2. \E s \in S : pc' = [pc EXCEPT ![w] = s]
      BY <1>10, AfterIsTryStage
         DEF HandleRead, EnsureJobNotCancelled, CleanBeforeRun, ProviderAnswers,
             Upload, CreateAsset, CreateVersion, StageFails, Rollback, CatchCleanup,
             LogFailed, Acknowledge, Reject, CatchFails, WorkerCrash, Release, Goto
    <3>3. \A v \in Workers : v # w => on'[v] = on[v]
      BY <1>0, <1>10
         DEF HandleRead, EnsureJobNotCancelled, CleanBeforeRun, ProviderAnswers,
             Upload, CreateAsset, CreateVersion, StageFails, Rollback, CatchCleanup,
             LogFailed, Acknowledge, Reject, CatchFails, WorkerCrash, Release, TypeOK
    <3> QED BY <3>1, <3>2, <3>3
  <2>2. "refundWrite" \notin S
    BY DEF TryStages, CheckStages, ProcessingStages, UploadStages, AssetStages,
           VersionStages
  <2> HIDE DEF S
  <2> QED BY <1>0, <2>1, <2>2, CancelFrame DEF TypeOK
<1>11. ASSUME NEW w \in Workers, LockLost(w) PROVE CancelInv'
  BY <1>11, CancelFrame DEF LockLost, DropLock
<1> QED
  BY <1>1, <1>2, <1>3, <1>4, <1>5, <1>6, <1>7, <1>8, <1>9, <1>10, <1>11,
     CancelCommitStep, NextCases

LEMMA CancelInvHolds == Spec => []CancelInv
<1>1. Init => CancelInv
  <2> SUFFICES ASSUME Init PROVE CancelInv
    OBVIOUS
  <2>1. ASSUME NEW j \in Jobs PROVE Refunds(j) = 0
    <3>1. \A r \in RefundReasons : ledger[j][r] = 0
      BY DEF Init
    <3> QED BY <3>1 DEF Refunds, RefundReasons
  <2>2. CancelledIsRefunded
    BY <2>1 DEF Init, CancelledIsRefunded
  <2>3. \A a \in Requests : PlainStands(a)
    BY DEF Init, PlainStands
  <2>4. \A w \in Workers : RefundsCharged(w)
    BY DEF Init, RefundsCharged
  <2> QED BY <2>2, <2>3, <2>4 DEF CancelInv
<1>2. RefundInv /\ CancelInv /\ [Next]_vars => CancelInv'
  BY CancelInvStep
<1> QED BY <1>1, <1>2, RefundInvHolds, PTL DEF Spec

(* Only what was charged is refunded, and a charged job that is CANCELLED has *)
(* been refunded, whatever crashed, raced or was delivered twice.            *)
THEOREM CancelledJobsRefunded == Spec => []CancelledIsRefunded
<1>1. CancelInv => CancelledIsRefunded
  BY DEF CancelInv
<1> QED BY <1>1, CancelInvHolds, PTL

----------------------------------------------------------------------------
(* The BullMQ lock.  Unless a lock is lost under a running handler, a job is *)
(* with at most one handler, and the queue has it as active meanwhile.       *)

OneHandler(w) ==
    /\ pc[w] = "idle" <=> on[w] = None
    /\ on[w] # None => holder[on[w]] = w

HeldByHandler(j) == holder[j] # None => bull[j] = "active" /\ on[holder[j]] = j

NotYetAdded(j) == step[j] \in {"new", "add"} => bull[j] = "absent" /\ tries[j] = 0

LockInv ==
    /\ \A w \in Workers : OneHandler(w)
    /\ \A j \in Jobs : HeldByHandler(j) /\ NotYetAdded(j)

(* The steps of a handler between its pickup and its end. *)
InsideStep(w) == \/ HandleRead(w) \/ TryStep(w) \/ StageFails(w) \/ CatchStep(w)
                 \/ CatchFails(w)

LEMMA InsideMoves ==
    ASSUME NEW w \in Workers, InsideStep(w)
    PROVE  /\ UNCHANGED <<rowLock, apiVars, queueVars, on, run, attempt, crashes>>
           /\ pc[w] # "idle"
           /\ \E s \in Stages \ {"idle"} : pc' = [pc EXCEPT ![w] = s]
<1>1. UNCHANGED <<rowLock, apiVars, queueVars, on, run, attempt, crashes>>
  BY DEF InsideStep, TryStep, CatchStep, HandleRead, EnsureJobNotCancelled, CleanBeforeRun,
         SetProcessing, ProviderAnswers, Upload, CreateAsset, CreateVersion, Complete,
         StageFails, Rollback, CatchCleanup, Requeue, Fail, RefundCheck, RefundWrite,
         LogFailed, CatchFails, dbVars
<1>2. pc[w] # "idle"
  BY DEF InsideStep, TryStep, CatchStep, HandleRead, EnsureJobNotCancelled, CleanBeforeRun,
         SetProcessing, ProviderAnswers, Upload, CreateAsset, CreateVersion, Complete,
         StageFails, Rollback, CatchCleanup, Requeue, Fail, RefundCheck, RefundWrite,
         LogFailed, CatchFails, TryStages, CatchStages, CheckStages, ProcessingStages,
         UploadStages, AssetStages, VersionStages
<1>3. \E s \in TryStages \cup CatchStages \cup {"return", "throw"} :
         pc' = [pc EXCEPT ![w] = s]
  <2> DEFINE S == TryStages \cup {"return", "throw", "check1", "p5", "p60",
                                  "rollback", "cancelCleanup", "finalCleanup", "requeue",
                                  "fail", "refundCheck", "refundWrite", "logFailed"}
  <2>1. \E s \in S : pc' = [pc EXCEPT ![w] = s]
    BY AfterIsTryStage
       DEF InsideStep, TryStep, CatchStep, HandleRead, EnsureJobNotCancelled, CleanBeforeRun,
           SetProcessing, ProviderAnswers, Upload, CreateAsset, CreateVersion, Complete,
           StageFails, Rollback, CatchCleanup, Requeue, Fail, RefundCheck, RefundWrite,
           LogFailed, CatchFails, Goto
  <2>2. S \subseteq TryStages \cup CatchStages \cup {"return", "throw"}
    BY DEF TryStages, CatchStages, CheckStages, ProcessingStages
  <2> HIDE DEF S
  <2> QED BY <2>1, <2>2
<1>4. TryStages \cup CatchStages \cup {"return", "throw"} \subseteq Stages \ {"idle"}
  BY DEF Stages, TryStages, CatchStages, CheckStages, ProcessingStages, UploadStages,
         AssetStages, VersionStages
<1> QED BY <1>1, <1>2, <1>3, <1>4

LEMMA LockFrame ==
    ASSUME LockInv, UNCHANGED <<bull, tries, holder, on>>,
           \A w \in Workers : pc'[w] = "idle" <=> pc[w] = "idle",
           \A j \in Jobs : step'[j] \in {"new", "add"} => step[j] \in {"new", "add"}
    PROVE  LockInv'
<1>1. \A w \in Workers : OneHandler(w)'
  BY DEF LockInv, OneHandler
<1>2. \A j \in Jobs : HeldByHandler(j)' /\ NotYetAdded(j)'
  BY DEF LockInv, HeldByHandler, NotYetAdded
<1> QED BY <1>1, <1>2 DEF LockInv

(* Steps that move a job in the queue without touching its lock. *)
LEMMA LockQueueStep ==
    ASSUME TypeOK, LockInv, UNCHANGED <<holder, on, pc, tries>>, NEW x, NEW b,
           x \in Jobs => holder[x] = None, bull' = [bull EXCEPT ![x] = b],
           \A j \in Jobs : step'[j] \in {"new", "add"} =>
              step[j] \in {"new", "add"} /\ (j = x => b = "absent")
    PROVE  LockInv'
<1>1. \A w \in Workers : OneHandler(w)'
  BY DEF LockInv, OneHandler
<1>2. ASSUME NEW j \in Jobs PROVE HeldByHandler(j)' /\ NotYetAdded(j)'
  <2>1. HeldByHandler(j)'
    BY DEF LockInv, HeldByHandler, TypeOK
  <2>2. NotYetAdded(j)'
    BY DEF LockInv, NotYetAdded, TypeOK
  <2> QED BY <2>1, <2>2
<1> QED BY <1>1, <1>2 DEF LockInv

LEMMA LockInvStep ==
    ASSUME "lostLock" \notin Faults, TypeOK, LockInv, [Next]_vars
    PROVE  LockInv'
<1> USE DEF dbVars, apiVars, queueVars, workVars
<1>1. CASE UNCHANGED vars
  BY <1>1, LockFrame DEF vars
<1>2. ASSUME NEW j \in Jobs, CreateCommit(j) \/ MarkQueued(j) PROVE LockInv'
  BY <1>2, LockFrame DEF CreateCommit, MarkQueued, TypeOK, Requests
<1>3. ASSUME NEW j \in Jobs, AddSucceeds(j) \/ AddFails(j) PROVE LockInv'
  <2>1. /\ step[j] = "add" /\ UNCHANGED <<holder, on, pc, tries>>
        /\ bull' = bull \/ bull' = [bull EXCEPT ![j] = "waiting"]
        /\ \E s \in {"markQueued", "lock"} : step' = [step EXCEPT ![j] = s]
    BY <1>3 DEF AddSucceeds, AddFails
  <2>2. holder[j] = None
    BY <2>1 DEF LockInv, NotYetAdded, HeldByHandler
  <2>3. \A i \in Jobs : step'[i] \in {"new", "add"} => step[i] \in {"new", "add"} /\ i # j
    BY <2>1 DEF TypeOK, Requests
  <2>4. CASE bull' = bull
    BY <2>1, <2>3, <2>4, LockFrame
  <2>5. CASE bull' = [bull EXCEPT ![j] = "waiting"]
    BY <2>1, <2>2, <2>3, <2>5, LockQueueStep
  <2> QED BY <2>1, <2>4, <2>5
<1>4. ASSUME NEW j \in Jobs, Promote(j) PROVE LockInv'
  <2>1. holder[j] = None /\ step[j] \notin {"new", "add"}
    BY <1>4 DEF Promote, LockInv, HeldByHandler, NotYetAdded
  <2> QED BY <1>4, <2>1, LockQueueStep DEF Promote
<1>5. ASSUME NEW j \in Jobs, StalledCheck(j) PROVE LockInv'
  <2>1. step[j] \notin {"new", "add"}
    BY <1>5 DEF StalledCheck, LockInv, NotYetAdded
  <2>2. /\ \E b \in BullState : bull' = [bull EXCEPT ![j] = b]
        /\ holder[j] = None /\ UNCHANGED <<holder, on, pc, tries, step>>
    BY <1>5 DEF StalledCheck, BullState
  <2> QED BY <2>1, <2>2, LockQueueStep
<1>6. ASSUME NEW c \in Cancels, CancelRemove(c) PROVE LockInv'
  <2>1. \A j \in Jobs : step'[j] \in {"new", "add"} => step[j] \in {"new", "add"}
    BY <1>6 DEF CancelRemove, TypeOK, Requests
  <2>2. UNCHANGED <<holder, on, pc, tries>>
    BY <1>6 DEF CancelRemove
  <2>3. CASE holder[target[c]] = None
    BY <1>6, <2>1, <2>2, <2>3, LockQueueStep DEF CancelRemove
  <2>4. CASE holder[target[c]] # None
    BY <1>6, <2>1, <2>2, <2>4, LockFrame DEF CancelRemove
  <2> QED BY <2>3, <2>4
<1>7. ASSUME NEW c \in Cancels, NEW j \in Jobs, CancelRead(c, j) PROVE LockInv'
  BY <1>7, LockFrame DEF CancelRead, TypeOK, Requests
<1>8. ASSUME NEW a \in Requests,
             TxUpdate(a) \/ RefundFind(a) \/ TxCommit(a) \/ ApiCrash(a)
      PROVE  LockInv'
  <2>1. /\ UNCHANGED <<bull, tries, holder, on, pc>>
        /\ \E s \in {"find", "refund", "plain", "done"} : step' = [step EXCEPT ![a] = s]
    BY <1>8 DEF TxUpdate, RefundFind, TxCommit, ApiCrash
  <2> QED BY <2>1, LockFrame DEF TypeOK, Requests
<1>9. ASSUME NEW w \in Workers, NEW j \in Jobs, Take(w, j) PROVE LockInv'
  <2>1. holder[j] = None /\ step[j] \notin {"new", "add"} /\ on[w] = None
    BY <1>9 DEF Take, LockInv, HeldByHandler, NotYetAdded, OneHandler
  <2>2. w # None /\ j # None
    BY NoneAssumption
  <2>3. /\ holder' = [holder EXCEPT ![j] = w] /\ on' = [on EXCEPT ![w] = j]
        /\ pc' = [pc EXCEPT ![w] = "read"] /\ bull' = [bull EXCEPT ![j] = "active"]
        /\ UNCHANGED <<step, tries>>
    BY <1>9 DEF Take
  <2>4. ASSUME NEW v \in Workers PROVE OneHandler(v)'
    BY <2>1, <2>2, <2>3, NoneAssumption DEF LockInv, OneHandler, TypeOK
  <2>5. ASSUME NEW i \in Jobs PROVE HeldByHandler(i)' /\ NotYetAdded(i)'
    <3>1. HeldByHandler(i)'
      <4>1. CASE i = j
        BY <2>3, <4>1 DEF HeldByHandler, TypeOK
      <4>2. CASE i # j
        <5>1. holder'[i] = holder[i] /\ bull'[i] = bull[i]
          BY <2>3, <4>2 DEF TypeOK
        <5>2. holder[i] # None => holder[i] # w /\ holder[i] \in Workers
          BY <2>1, NoneAssumption DEF LockInv, HeldByHandler, TypeOK
        <5> QED BY <2>3, <5>1, <5>2 DEF LockInv, HeldByHandler, TypeOK
      <4> QED BY <4>1, <4>2
    <3>2. NotYetAdded(i)'
      BY <2>1, <2>3 DEF LockInv, NotYetAdded, TypeOK
    <3> QED BY <3>1, <3>2
  <2> QED BY <2>4, <2>5 DEF LockInv
<1>10. ASSUME NEW w \in Workers, Acknowledge(w) \/ Reject(w) PROVE LockInv'
  <2>. PICK x \in Jobs : x = on[w]
    BY <1>10 DEF Acknowledge, Reject, LockInv, OneHandler, TypeOK
  <2>1. /\ holder[x] = w /\ bull[x] = "active"
        /\ step[x] \notin {"new", "add"} /\ w # None
    BY <1>10, NoneAssumption
       DEF Acknowledge, Reject, LockInv, OneHandler, HeldByHandler, NotYetAdded, TypeOK
  <2>2. /\ holder' = [holder EXCEPT ![x] = None]
        /\ on' = [on EXCEPT ![w] = None] /\ pc' = [pc EXCEPT ![w] = "idle"]
        /\ \A i \in Jobs : i # x => bull'[i] = bull[i] /\ tries'[i] = tries[i]
        /\ UNCHANGED step
    <3>1. CASE Acknowledge(w)
      BY <2>1, <3>1 DEF Acknowledge, Release, TypeOK
    <3>2. CASE Reject(w)
      BY <2>1, <3>2 DEF Reject, Release, TypeOK
    <3> QED BY <1>10, <3>1, <3>2
  <2>3. ASSUME NEW v \in Workers PROVE OneHandler(v)'
    BY <2>1, <2>2 DEF LockInv, OneHandler, TypeOK
  <2>4. ASSUME NEW i \in Jobs PROVE HeldByHandler(i)' /\ NotYetAdded(i)'
    <3>1. CASE i = x
      BY <2>1, <2>2, <3>1 DEF HeldByHandler, NotYetAdded, TypeOK
    <3>2. CASE i # x
      <4>1. holder[i] # w \/ holder[i] = None
        BY <2>1, <3>2 DEF LockInv, HeldByHandler
      <4>2. HeldByHandler(i)'
        BY <2>1, <2>2, <3>2, <4>1 DEF LockInv, HeldByHandler, TypeOK
      <4>3. NotYetAdded(i)'
        BY <2>2, <3>2 DEF LockInv, NotYetAdded
      <4> QED BY <4>2, <4>3
    <3> QED BY <3>1, <3>2
  <2> QED BY <2>3, <2>4 DEF LockInv
<1>11. ASSUME NEW w \in Workers, WorkerCrash(w) PROVE LockInv'
  <2>1. /\ holder' = [j \in Jobs |-> IF holder[j] = w THEN None ELSE holder[j]]
        /\ on' = [on EXCEPT ![w] = None] /\ pc' = [pc EXCEPT ![w] = "idle"]
        /\ UNCHANGED <<bull, tries, step>> /\ w # None
    BY <1>11, NoneAssumption DEF WorkerCrash, DropLock, Release
  <2>2. ASSUME NEW v \in Workers PROVE OneHandler(v)'
    BY <2>1 DEF LockInv, OneHandler, TypeOK
  <2>3. ASSUME NEW i \in Jobs PROVE HeldByHandler(i)' /\ NotYetAdded(i)'
    BY <2>1 DEF LockInv, HeldByHandler, NotYetAdded, TypeOK
  <2> QED BY <2>2, <2>3 DEF LockInv
<1>12. ASSUME NEW w \in Workers, LockLost(w) PROVE LockInv'
  BY <1>12 DEF LockLost
<1>13. ASSUME NEW w \in Workers, InsideStep(w) PROVE LockInv'
  BY <1>13, InsideMoves, LockFrame DEF TypeOK
<1> QED
  BY <1>1, <1>2, <1>3, <1>4, <1>5, <1>6, <1>7, <1>8, <1>9, <1>10, <1>11, <1>12, <1>13
     DEF Next, CreateStep, TxStep, HandlerStep, InsideStep

LEMMA LockInvHolds ==
    ASSUME "lostLock" \notin Faults PROVE Spec => []LockInv
<1>1. Init => LockInv
  BY DEF Init, LockInv, OneHandler, HeldByHandler, NotYetAdded, Requests
<1>2. TypeOK /\ LockInv /\ [Next]_vars => LockInv'
  BY LockInvStep
<1> QED BY <1>1, <1>2, TypeCorrect, PTL DEF Spec

(* Of a handler's steps only RefundWrite touches the ledger, and it comes    *)
(* right after RefundCheck.                                                  *)
LEMMA InsideRefunds ==
    ASSUME TypeOK, NEW w \in Workers, InsideStep(w)
    PROVE  /\ RefundWrite(w) \/ UNCHANGED ledger
           /\ RefundCheck(w) \/ pc'[w] # "refundWrite"
<1>1. RefundWrite(w) \/ UNCHANGED ledger
  BY DEF InsideStep, TryStep, CatchStep, HandleRead, EnsureJobNotCancelled, CleanBeforeRun,
         SetProcessing, ProviderAnswers, Upload, CreateAsset, CreateVersion, Complete,
         StageFails, Rollback, CatchCleanup, Requeue, Fail, RefundCheck, LogFailed,
         CatchFails, dbVars
<1>2. RefundCheck(w) \/ pc'[w] # "refundWrite"
  <2> DEFINE S == TryStages \cup {"return", "throw", "check1", "p5", "p60",
                                  "rollback", "cancelCleanup", "finalCleanup", "requeue",
                                  "fail", "refundCheck", "logFailed"}
  <2>1. RefundCheck(w) \/ \E s \in S : pc' = [pc EXCEPT ![w] = s]
    BY AfterIsTryStage
       DEF InsideStep, TryStep, CatchStep, HandleRead, EnsureJobNotCancelled, CleanBeforeRun,
           SetProcessing, ProviderAnswers, Upload, CreateAsset, CreateVersion, Complete,
           StageFails, Rollback, CatchCleanup, Requeue, Fail, RefundWrite, LogFailed,
           CatchFails, Goto
  <2>2. "refundWrite" \notin S
    BY DEF TryStages, CheckStages, ProcessingStages, UploadStages, AssetStages,
           VersionStages
  <2> HIDE DEF S
  <2> QED BY <2>1, <2>2 DEF TypeOK
<1> QED BY <1>1, <1>2

----------------------------------------------------------------------------
(* The refund of a failed job, without lost locks and without an add that    *)
(* fails although it was carried out.  createVideoJob refunds only what never *)
(* got into the queue, a handler what it holds the lock of.                  *)

Unqueued == {"new", "add", "lock", "find", "refund", "plain"}

AddRefused(j) == step[j] \in Unqueued => bull[j] = "absent"

FailDecided(j) == step[j] = "refund" => ledger[j]["REFUND_FAILED_JOB"] = 0

FailPending(w) == pc[w] = "refundWrite" => ledger[on[w]]["REFUND_FAILED_JOB"] = 0

FailInv ==
    /\ FailRefundOnce
    /\ \A j \in Jobs : AddRefused(j) /\ FailDecided(j)
    /\ \A w \in Workers : FailPending(w)

LEMMA FailFrame ==
    ASSUME FailInv, UNCHANGED ledger,
           \A j \in Jobs : step'[j] \in Unqueued =>
              step[j] \in Unqueued /\ bull'[j] \in {bull[j], "absent"},
           \A j \in Jobs : step'[j] = "refund" => step[j] = "refund",
           \A w \in Workers :
              pc'[w] = "refundWrite" => pc[w] = "refundWrite" /\ on'[w] = on[w]
    PROVE  FailInv'
<1>1. FailRefundOnce'
  BY DEF FailInv, FailRefundOnce
<1>2. \A j \in Jobs : AddRefused(j)' /\ FailDecided(j)'
  BY DEF FailInv, AddRefused, FailDecided
<1>3. \A w \in Workers : FailPending(w)'
  BY DEF FailInv, FailPending
<1> QED BY <1>1, <1>2, <1>3 DEF FailInv

(* A handler is with a job of the queue, and with one that no other has. *)
LEMMA HandledJob ==
    ASSUME TypeOK, LockInv, NEW w \in Workers, pc[w] # "idle"
    PROVE  /\ on[w] \in Jobs /\ holder[on[w]] = w /\ bull[on[w]] = "active"
           /\ \A v \in Workers : v # w => on[v] # on[w]
<1>1. on[w] \in Jobs /\ holder[on[w]] = w /\ w # None
  BY NoneAssumption DEF LockInv, OneHandler, TypeOK
<1>2. bull[on[w]] = "active"
  BY <1>1 DEF LockInv, HeldByHandler
<1>3. \A v \in Workers : v # w => on[v] # on[w]
  BY <1>1, NoneAssumption DEF LockInv, OneHandler
<1> QED BY <1>1, <1>2, <1>3

LEMMA FailCommitStep ==
    ASSUME RefundInv, LockInv, FailInv, NEW a \in Requests, TxCommit(a) PROVE FailInv'
<1>. PICK x \in Jobs : x = target[a]
  BY DEF TxCommit, RefundInv, HasTarget
<1>1. /\ step[a] \in {"refund", "plain"} /\ step' = [step EXCEPT ![a] = "done"]
      /\ UNCHANGED <<bull, pc, on>> /\ TypeOK
      /\ a \in Jobs => x = a
  BY DEF TxCommit, RefundInv, HasTarget, queueVars, workVars
<1>2. CASE step[a] = "refund" /\ a \in Jobs
  <2>1. ledger' = [ledger EXCEPT ![x]["REFUND_FAILED_JOB"] = @ + 1]
        /\ "REFUND_FAILED_JOB" \in RefundReasons
    BY <1>2, RequestsAssumption DEF TxCommit, Reason, RefundReasons
  <2>2. /\ \A j \in Jobs : j # x => ledger'[j] = ledger[j]
        /\ ledger'[x]["REFUND_FAILED_JOB"] = ledger[x]["REFUND_FAILED_JOB"] + 1
    BY <1>1, <2>1, LedgerWrite
  <2>3. ledger[x]["REFUND_FAILED_JOB"] = 0 /\ bull[x] = "absent"
    BY <1>1, <1>2 DEF FailInv, FailDecided, AddRefused, Unqueued
  <2>4. FailRefundOnce'
    BY <2>2, <2>3 DEF FailInv, FailRefundOnce
  <2>5. ASSUME NEW j \in Jobs PROVE AddRefused(j)' /\ FailDecided(j)'
    <3>1. step'[j] = IF j = x THEN "done" ELSE step[j]
      BY <1>1, <1>2 DEF TypeOK
    <3> QED BY <1>1, <2>2, <3>1 DEF FailInv, AddRefused, FailDecided, Unqueued
  <2>6. ASSUME NEW w \in Workers PROVE FailPending(w)'
    <3>1. pc[w] = "refundWrite" => on[w] \in Jobs /\ on[w] # x
      BY <1>1, <2>3, HandledJob
    <3> QED BY <1>1, <2>2, <3>1 DEF FailInv, FailPending
  <2> QED BY <2>4, <2>5, <2>6 DEF FailInv
<1>3. CASE step[a] = "refund" /\ a \notin Jobs
  <2>1. ledger' = [ledger EXCEPT ![x]["REFUND_CANCELED_JOB"] = @ + 1]
        /\ "REFUND_CANCELED_JOB" \in RefundReasons /\ "REFUND_FAILED_JOB" \in RefundReasons
    BY <1>3 DEF TxCommit, Reason, RefundReasons, Requests
  <2>2. /\ \A j \in Jobs : j # x => ledger'[j] = ledger[j]
        /\ ledger'[x]["REFUND_FAILED_JOB"] = ledger[x]["REFUND_FAILED_JOB"]
    <3>1. \A q \in RefundReasons : q # "REFUND_CANCELED_JOB" => ledger'[x][q] = ledger[x][q]
      BY <1>1, <2>1, LedgerWrite
    <3>2. \A j \in Jobs : j # x => ledger'[j] = ledger[j]
      BY <1>1, <2>1, LedgerWrite
    <3> QED BY <2>1, <3>1, <3>2
  <2>3. FailRefundOnce'
    BY <2>2 DEF FailInv, FailRefundOnce
  <2>4. \A j \in Jobs : AddRefused(j)' /\ FailDecided(j)'
    BY <1>1, <2>2 DEF FailInv, AddRefused, FailDecided, TypeOK, Unqueued
  <2>5. ASSUME NEW w \in Workers PROVE FailPending(w)'
    <3>1. pc[w] = "refundWrite" => on[w] \in Jobs
      BY <1>1, HandledJob
    <3> QED BY <1>1, <2>2, <3>1 DEF FailInv, FailPending
  <2> QED BY <2>3, <2>4, <2>5 DEF FailInv
<1>4. CASE step[a] = "plain"
  BY <1>1, <1>4, FailFrame DEF TxCommit, TypeOK, Unqueued
<1> QED BY <1>1, <1>2, <1>3, <1>4

LEMMA FailWriteStep ==
    ASSUME TypeOK, LockInv, FailInv, NEW w \in Workers, RefundWrite(w) PROVE FailInv'
<1>. PICK x \in Jobs : x = on[w]
  BY HandledJob DEF RefundWrite
<1>1. /\ bull[x] = "active"
      /\ \A v \in Workers : v # w => on[v] # x
      /\ ledger[x]["REFUND_FAILED_JOB"] = 0
  BY HandledJob DEF RefundWrite, FailInv, FailPending
<1>2. /\ ledger' = [ledger EXCEPT ![x]["REFUND_FAILED_JOB"] = @ + 1]
      /\ "REFUND_FAILED_JOB" \in RefundReasons
      /\ pc' = [pc EXCEPT ![w] = "logFailed"]
      /\ UNCHANGED <<bull, step, on>>
  BY DEF RefundWrite, Goto, RefundReasons, apiVars, queueVars
<1>3. /\ \A j \in Jobs : j # x => ledger'[j] = ledger[j]
      /\ ledger'[x]["REFUND_FAILED_JOB"] = ledger[x]["REFUND_FAILED_JOB"] + 1
  BY <1>2, LedgerWrite
<1>4. FailRefundOnce'
  BY <1>1, <1>3 DEF FailInv, FailRefundOnce
<1>5. \A j \in Jobs : AddRefused(j)' /\ FailDecided(j)'
  BY <1>1, <1>2, <1>3 DEF FailInv, AddRefused, FailDecided, Unqueued
<1>6. ASSUME NEW v \in Workers PROVE FailPending(v)'
  <2>1. pc[v] = "refundWrite" => on[v] \in Jobs
    BY HandledJob
  <2> QED BY <1>1, <1>2, <1>3, <2>1 DEF FailInv, FailPending, TypeOK
<1> QED BY <1>4, <1>5, <1>6 DEF FailInv

LEMMA FailInvStep ==
    ASSUME Faults \cap {"lostLock", "ambiguousAdd"} = {},
           RefundInv, LockInv, FailInv, [Next]_vars
    PROVE  FailInv'
<1> USE DEF dbVars, apiVars, queueVars, workVars
<1>0. TypeOK
  BY DEF RefundInv
<1>1. CASE UNCHANGED vars
  BY <1>1, FailFrame DEF vars
<1>2. ASSUME NEW j \in Jobs,
             CreateCommit(j) \/ AddSucceeds(j) \/ AddFails(j) \/ MarkQueued(j)
      PROVE  FailInv'
  <2>1. /\ UNCHANGED <<ledger, pc, on>>
        /\ \/ UNCHANGED bull /\ step[j] \in {"new", "add"}
              /\ \E s \in {"add", "lock"} : step' = [step EXCEPT ![j] = s]
           \/ /\ \E b \in BullState : bull' = [bull EXCEPT ![j] = b]
              /\ step' = [step EXCEPT ![j] = "markQueued"]
           \/ UNCHANGED bull /\ step' = [step EXCEPT ![j] = "done"]
    BY <1>2 DEF CreateCommit, AddSucceeds, AddFails, MarkQueued, BullState
  <2> QED BY <1>0, <2>1, FailFrame DEF TypeOK, Requests, Unqueued
<1>3. ASSUME NEW j \in Jobs, Promote(j) \/ StalledCheck(j) PROVE FailInv'
  <2>1. step[j] \notin Unqueued
    BY <1>3 DEF Promote, StalledCheck, FailInv, AddRefused
  <2>2. /\ UNCHANGED <<ledger, pc, on, step>>
        /\ \A i \in Jobs : i # j => bull'[i] = bull[i]
    BY <1>0, <1>3 DEF Promote, StalledCheck, TypeOK
  <2> QED BY <2>1, <2>2, FailFrame
<1>4. ASSUME NEW c \in Cancels, CancelRemove(c) \/ \E j \in Jobs : CancelRead(c, j)
      PROVE  FailInv'
  <2>1. /\ UNCHANGED <<ledger, pc, on>>
        /\ \A j \in Jobs : step'[j] = step[j] /\ bull'[j] \in {bull[j], "absent"}
    BY <1>0, <1>4, RequestsAssumption DEF CancelRemove, CancelRead, TypeOK, Requests
  <2> QED BY <2>1, FailFrame
<1>5. ASSUME NEW a \in Requests, TxUpdate(a) \/ ApiCrash(a) PROVE FailInv'
  <2>1. /\ UNCHANGED <<ledger, bull, pc, on>>
        /\ \/ step[a] = "lock" /\ step' = [step EXCEPT ![a] = "find"]
           \/ step' = [step EXCEPT ![a] = "done"]
    BY <1>5 DEF TxUpdate, ApiCrash
  <2> QED BY <1>0, <2>1, FailFrame DEF TypeOK, Unqueued, Requests
<1>6. ASSUME NEW a \in Requests, RefundFind(a) PROVE FailInv'
  <2>1. /\ UNCHANGED <<ledger, bull, pc, on>> /\ step[a] = "find"
        /\ step' = [step EXCEPT ![a] = IF RefundDue(a) THEN "refund" ELSE "plain"]
        /\ a \in Jobs => target[a] = a
    BY <1>6 DEF RefundFind, RefundInv, HasTarget
  <2>2. \A j \in Jobs : AddRefused(j)'
    BY <1>0, <2>1 DEF FailInv, AddRefused, Unqueued, TypeOK, Requests
  <2>3. ASSUME NEW j \in Jobs PROVE FailDecided(j)'
    <3>1. CASE j = a
      BY <1>0, <2>1, <3>1, RequestsAssumption DEF FailDecided, RefundDue, Reason, TypeOK
    <3>2. CASE j # a
      BY <1>0, <2>1, <3>2 DEF FailInv, FailDecided, TypeOK, Requests
    <3> QED BY <3>1, <3>2
  <2>4. FailRefundOnce' /\ \A w \in Workers : FailPending(w)'
    BY <2>1 DEF FailInv, FailRefundOnce, FailPending
  <2> QED BY <2>2, <2>3, <2>4 DEF FailInv
<1>7. ASSUME NEW w \in Workers, NEW j \in Jobs, Take(w, j) PROVE FailInv'
  <2>1. step[j] \notin Unqueued
    BY <1>7 DEF Take, FailInv, AddRefused
  <2>2. /\ UNCHANGED <<ledger, step>>
        /\ \A i \in Jobs : i # j => bull'[i] = bull[i]
        /\ pc' = [pc EXCEPT ![w] = "read"] /\ on' = [on EXCEPT ![w] = j]
    BY <1>0, <1>7 DEF Take, TypeOK
  <2> QED BY <1>0, <2>1, <2>2, FailFrame DEF TypeOK
<1>8. ASSUME NEW w \in Workers, Acknowledge(w) \/ Reject(w) PROVE FailInv'
  <2>1. on[w] \in Jobs /\ bull[on[w]] = "active"
    BY <1>0, <1>8, HandledJob DEF Acknowledge, Reject
  <2>2. step[on[w]] \notin Unqueued
    BY <2>1 DEF FailInv, AddRefused
  <2>3. /\ UNCHANGED <<ledger, step>>
        /\ \A i \in Jobs : i # on[w] => bull'[i] = bull[i]
        /\ pc' = [pc EXCEPT ![w] = "idle"] /\ on' = [on EXCEPT ![w] = None]
    BY <1>0, <1>8 DEF Acknowledge, Reject, Release, TypeOK
  <2> QED BY <1>0, <2>1, <2>2, <2>3, FailFrame DEF TypeOK
<1>9. ASSUME NEW w \in Workers, WorkerCrash(w) PROVE FailInv'
  BY <1>0, <1>9, FailFrame DEF WorkerCrash, DropLock, Release, TypeOK
<1>10. ASSUME NEW w \in Workers, LockLost(w) PROVE FailInv'
  BY <1>10 DEF LockLost
<1>11. ASSUME NEW w \in Workers, RefundCheck(w) PROVE FailInv'
  <2>1. /\ UNCHANGED <<ledger, bull, step, on>>
        /\ pc' = [pc EXCEPT ![w] = IF NoRefundYet(on[w]) THEN "refundWrite" ELSE "logFailed"]
    BY <1>11 DEF RefundCheck, Goto
  <2>2. FailRefundOnce' /\ \A j \in Jobs : AddRefused(j)' /\ FailDecided(j)'
    BY <2>1 DEF FailInv, FailRefundOnce, AddRefused, FailDecided
  <2>3. \A v \in Workers : FailPending(v)'
    BY <1>0, <2>1 DEF FailInv, FailPending, NoRefundYet, TypeOK
  <2> QED BY <2>2, <2>3 DEF FailInv
<1>12. ASSUME NEW w \in Workers, InsideStep(w), ~RefundCheck(w), ~RefundWrite(w)
       PROVE  FailInv'
  <2>1. UNCHANGED <<ledger, bull, step, on>> /\ pc'[w] # "refundWrite"
    BY <1>0, <1>12, InsideMoves, InsideRefunds
  <2>2. \A v \in Workers : v # w => pc'[v] = pc[v]
    BY <1>0, <1>12, InsideMoves DEF TypeOK
  <2> QED BY <2>1, <2>2, FailFrame
<1> QED
  BY <1>0, <1>1, <1>2, <1>3, <1>4, <1>5, <1>6, <1>7, <1>8, <1>9, <1>10, <1>11, <1>12,
     FailCommitStep, FailWriteStep
     DEF Next, CreateStep, TxStep, HandlerStep, InsideStep

LEMMA FailInvHolds ==
    ASSUME Faults \cap {"lostLock", "ambiguousAdd"} = {} PROVE Spec => []FailInv
<1>1. Init => FailInv
  <2> SUFFICES ASSUME Init PROVE FailInv
    OBVIOUS
  <2>1. ASSUME NEW j \in Jobs PROVE ledger[j]["REFUND_FAILED_JOB"] = 0
    BY DEF Init, RefundReasons
  <2>2. FailRefundOnce
    <3>1. \A n : n = 0 => n <= 1
      OBVIOUS
    <3> QED BY <2>1, <3>1 DEF FailRefundOnce
  <2>3. \A j \in Jobs : AddRefused(j) /\ FailDecided(j)
    BY DEF Init, AddRefused, FailDecided, Requests
  <2>4. \A w \in Workers : FailPending(w)
    BY DEF Init, FailPending
  <2> QED BY <2>2, <2>3, <2>4 DEF FailInv
<1>2. RefundInv /\ LockInv /\ FailInv /\ [Next]_vars => FailInv'
  BY FailInvStep
<1>3. "lostLock" \notin Faults
  OBVIOUS
<1>4. Spec => []LockInv
  BY <1>3, LockInvHolds
<1> QED BY <1>1, <1>2, <1>4, RefundInvHolds, PTL DEF Spec

(* A job is refunded at most once as failed, for any number of workers,      *)
(* whoever crashes and whatever the database rejects.                        *)
THEOREM FailRefundAtMostOnce ==
    ASSUME Faults \cap {"lostLock", "ambiguousAdd"} = {} PROVE Spec => []FailRefundOnce
<1>1. FailInv => FailRefundOnce
  BY DEF FailInv
<1>2. Spec => []FailInv
  BY FailInvHolds
<1> QED BY <1>1, <1>2, PTL

----------------------------------------------------------------------------
(* A completed job.  No handler past its first read works for a job that is  *)
(* COMPLETED.                                                                *)

Outside == {"idle", "read", "return", "throw"}

NotReworking(w) == pc[w] \notin Outside => status[on[w]] # "COMPLETED"

WorkInv == \A w \in Workers : NotReworking(w)

(* What a step of a handler may do to the row of its job. *)
LEMMA InsideStatus ==
    ASSUME NEW w \in Workers, InsideStep(w)
    PROVE  /\ \/ UNCHANGED status
              \/ Complete(w)
              \/ Fail(w)
              \/ pc[w] \notin Outside
                 /\ \E s \in {"PROCESSING", "QUEUED"} :
                       status' = [status EXCEPT ![on[w]] = s]
           /\ HandleRead(w) \/ pc[w] \notin Outside
<1> USE DEF Outside
<1>1. \/ UNCHANGED status
      \/ Complete(w)
      \/ Fail(w)
      \/ pc[w] \notin Outside
         /\ \E s \in {"PROCESSING", "QUEUED"} :
               status' = [status EXCEPT ![on[w]] = s]
  BY DEF InsideStep, TryStep, CatchStep, HandleRead, EnsureJobNotCancelled, CleanBeforeRun,
         SetProcessing, ProviderAnswers, Upload, CreateAsset, CreateVersion,
         StageFails, Rollback, CatchCleanup, Requeue, RefundCheck, RefundWrite, LogFailed,
         CatchFails, SetStatus, ProcessingStages, dbVars
<1>2. HandleRead(w) \/ pc[w] \notin Outside
  BY DEF InsideStep, TryStep, CatchStep, EnsureJobNotCancelled, CleanBeforeRun,
         SetProcessing, ProviderAnswers, Upload, CreateAsset, CreateVersion, Complete,
         StageFails, Rollback, CatchCleanup, Requeue, Fail, RefundCheck, RefundWrite,
         LogFailed, CatchFails, TryStages, CatchStages, CheckStages, ProcessingStages,
         UploadStages, AssetStages, VersionStages
<1> QED BY <1>1, <1>2

LEMMA WorkFrame ==
    ASSUME WorkInv,
           \A j \in Jobs : status'[j] = "COMPLETED" => status[j] = "COMPLETED",
           \A w \in Workers : pc'[w] \notin Outside =>
              pc[w] \notin Outside /\ on'[w] = on[w] /\ on[w] \in Jobs
    PROVE  WorkInv'
BY DEF WorkInv, NotReworking

LEMMA WorkHandlerStep ==
    ASSUME TypeOK, LockInv, WorkInv, NEW w \in Workers, InsideStep(w) PROVE WorkInv'
<1>1. on[w] \in Jobs /\ \A v \in Workers : v # w => on[v] # on[w]
  BY InsideMoves, HandledJob
<1>2. UNCHANGED on /\ \A v \in Workers : v # w => pc'[v] = pc[v]
  BY InsideMoves DEF TypeOK
<1>3. \A v \in Workers : pc[v] \notin Outside => on[v] \in Jobs
  BY HandledJob DEF Outside
<1>4. CASE HandleRead(w)
  <2>1. /\ status' = status
        /\ pc' = [pc EXCEPT ![w] = IF status[on[w]] \in NotProcessedAgain
                                   THEN "return" ELSE "check1"]
    BY <1>4 DEF HandleRead, Goto, dbVars
  <2>2. ASSUME NEW v \in Workers PROVE NotReworking(v)'
    <3>1. CASE v = w
      BY <1>2, <2>1, <3>1 DEF NotReworking, NotProcessedAgain, Outside, TypeOK
    <3>2. CASE v # w
      BY <1>2, <2>1, <3>2 DEF WorkInv, NotReworking
    <3> QED BY <3>1, <3>2
  <2> QED BY <2>2 DEF WorkInv
<1>5. CASE Complete(w)
  <2>1. status' = [status EXCEPT ![on[w]] = "COMPLETED"] /\ pc' = [pc EXCEPT ![w] = "return"]
    BY <1>5 DEF Complete, SetStatus, Goto
  <2> QED BY <1>1, <1>2, <1>3, <2>1 DEF WorkInv, NotReworking, Outside, TypeOK
<1>6. CASE ~HandleRead(w) /\ ~Complete(w)
  <2>1. pc[w] \notin Outside
    BY <1>6, InsideStatus
  <2>2. status' = status \/ \E s \in {"PROCESSING", "QUEUED", "FAILED"} :
                               status' = [status EXCEPT ![on[w]] = s]
    BY <1>6, InsideStatus DEF Fail, SetStatus
  <2>3. \A j \in Jobs : status'[j] = "COMPLETED" => status[j] = "COMPLETED"
    BY <2>2 DEF TypeOK
  <2> QED BY <1>1, <1>2, <1>3, <2>1, <2>3, WorkFrame
<1> QED BY <1>4, <1>5, <1>6

(* Only the handler that completes a job turns its row COMPLETED. *)
LEMMA CompletedBy ==
    ASSUME TypeOK, [Next]_vars, NEW j \in Jobs,
           status[j] # "COMPLETED", status'[j] = "COMPLETED"
    PROVE  \E w \in Workers : Complete(w) /\ on[w] = j
<1>1. ASSUME UNCHANGED status PROVE FALSE
  BY <1>1
<1>2. ASSUME NEW i \in Jobs, CreateCommit(i) \/ MarkQueued(i) PROVE FALSE
  BY <1>2 DEF CreateCommit, MarkQueued, SetStatus, TypeOK
<1>3. ASSUME NEW a \in Requests, TxCommit(a) PROVE FALSE
  BY <1>3 DEF TxCommit, Verdict, TypeOK
<1>4. ASSUME NEW w \in Workers, InsideStep(w) PROVE Complete(w) /\ on[w] = j
  <2>1. CASE Complete(w)
    BY <2>1 DEF Complete, SetStatus, TypeOK
  <2>2. CASE \E s \in {"PROCESSING", "QUEUED", "FAILED"} : status' = [status EXCEPT ![on[w]] = s]
    BY <2>2 DEF TypeOK
  <2> QED BY <1>1, <1>4, <2>1, <2>2, InsideStatus DEF Fail, SetStatus
<1> QED
  BY <1>1, <1>2, <1>3, <1>4
     DEF Next, CreateStep, TxStep, HandlerStep, InsideStep, vars, AddSucceeds, AddFails,
         Promote, StalledCheck, CancelRemove, CancelRead, TxUpdate, RefundFind, ApiCrash,
         Take, Acknowledge, Reject, WorkerCrash, LockLost, DropLock, dbVars

LEMMA WorkInvStep ==
    ASSUME TypeOK, LockInv, WorkInv, [Next]_vars PROVE WorkInv'
<1>0. \A w \in Workers : pc[w] \notin Outside => on[w] \in Jobs
  BY HandledJob DEF Outside
<1>1. ASSUME NEW w \in Workers, InsideStep(w) PROVE WorkInv'
  BY <1>1, WorkHandlerStep
<1>2. CASE \A w \in Workers : ~InsideStep(w)
  <2>1. \A j \in Jobs : status'[j] = "COMPLETED" => status[j] = "COMPLETED"
    BY <1>2, CompletedBy DEF InsideStep, TryStep
  <2>2. ASSUME NEW w \in Workers, pc'[w] \notin Outside
        PROVE  pc[w] \notin Outside /\ on'[w] = on[w]
    <3>1. CASE pc'[w] = pc[w] /\ on'[w] = on[w]
      BY <2>2, <3>1
    <3>2. ASSUME NEW v \in Workers,
                 \/ \E j \in Jobs : Take(v, j)
                 \/ Acknowledge(v) \/ Reject(v) \/ WorkerCrash(v)
          PROVE  pc'[w] = pc[w] /\ on'[w] = on[w]
      <4>1. /\ \E s \in {"read", "idle"} : pc' = [pc EXCEPT ![v] = s]
            /\ \E x : on' = [on EXCEPT ![v] = x]
        BY <3>2 DEF Take, Acknowledge, Reject, WorkerCrash, Release
      <4>2. w # v
        BY <2>2, <4>1 DEF Outside, TypeOK
      <4> QED BY <4>1, <4>2 DEF TypeOK
    <3> QED
      BY <1>2, <3>1, <3>2, <2>2
         DEF Next, CreateStep, TxStep, HandlerStep, InsideStep, vars, CreateCommit,
             AddSucceeds, AddFails, MarkQueued, Promote, StalledCheck, CancelRemove,
             CancelRead, TxUpdate, RefundFind, TxCommit, ApiCrash, LockLost, workVars
  <2> QED BY <1>0, <2>1, <2>2, WorkFrame
<1> QED BY <1>1, <1>2

LEMMA WorkInvHolds ==
    ASSUME "lostLock" \notin Faults PROVE Spec => []WorkInv
<1>1. Init => WorkInv
  BY DEF Init, WorkInv, NotReworking, Outside
<1>2. TypeOK /\ LockInv /\ WorkInv /\ [Next]_vars => WorkInv'
  BY WorkInvStep
<1> QED BY <1>1, <1>2, TypeCorrect, LockInvHolds, PTL DEF Spec

(* The call of a job that is not in the queue has not seen it completed. *)
UncompletedInv == \A j \in Jobs : step[j] \in Unqueued => status[j] # "COMPLETED"

(* A call that has got past the queue does not come back. *)
LEMMA UnqueuedBefore ==
    ASSUME TypeOK, [Next]_vars, NEW j \in Jobs, step'[j] \in Unqueued
    PROVE  step[j] \in Unqueued
<1>1. CASE UNCHANGED step
  BY <1>1
<1>2. ASSUME NEW a \in Requests, NEW s, step' = [step EXCEPT ![a] = s],
             step[a] \in Unqueued \/ s \notin Unqueued \/ a \notin Jobs
      PROVE  step[j] \in Unqueued
  BY <1>2 DEF TypeOK
<1>3. ASSUME NEW i \in Jobs,
             CreateCommit(i) \/ AddSucceeds(i) \/ AddFails(i) \/ MarkQueued(i)
      PROVE  step[j] \in Unqueued
  BY <1>2, <1>3 DEF CreateCommit, AddSucceeds, AddFails, MarkQueued, Unqueued, Requests
<1>4. ASSUME NEW c \in Cancels, CancelRemove(c) \/ \E i \in Jobs : CancelRead(c, i)
      PROVE  step[j] \in Unqueued
  BY <1>2, <1>4, RequestsAssumption DEF CancelRemove, CancelRead, Requests
<1>5. ASSUME NEW a \in Requests,
             TxUpdate(a) \/ RefundFind(a) \/ TxCommit(a) \/ ApiCrash(a)
      PROVE  step[j] \in Unqueued
  BY <1>2, <1>5 DEF TxUpdate, RefundFind, TxCommit, ApiCrash, Unqueued
<1>6. ASSUME NEW w \in Workers, InsideStep(w) PROVE step[j] \in Unqueued
  BY <1>1, <1>6, InsideMoves DEF apiVars
<1> QED
  BY <1>1, <1>3, <1>4, <1>5, <1>6
     DEF Next, CreateStep, TxStep, HandlerStep, InsideStep, vars, Promote, StalledCheck,
         Take, Acknowledge, Reject, WorkerCrash, LockLost, DropLock, apiVars

LEMMA UncompletedInvHolds ==
    ASSUME Faults \cap {"lostLock", "ambiguousAdd"} = {} PROVE Spec => []UncompletedInv
<1>1. Init => UncompletedInv
  BY DEF Init, UncompletedInv
<1>2. ASSUME RefundInv, LockInv, FailInv, UncompletedInv, [Next]_vars PROVE UncompletedInv'
  <2>0. TypeOK
    BY <1>2 DEF RefundInv
  <2> SUFFICES ASSUME NEW j \in Jobs, step'[j] \in Unqueued PROVE status'[j] # "COMPLETED"
    BY DEF UncompletedInv
  <2>1. step[j] \in Unqueued /\ status[j] # "COMPLETED" /\ bull[j] = "absent"
    BY <1>2, <2>0, UnqueuedBefore DEF UncompletedInv, FailInv, AddRefused
  <2>2. ASSUME NEW w \in Workers, Complete(w), on[w] = j PROVE FALSE
    <3>1. bull[j] = "active"
      BY <1>2, <2>0, <2>2, HandledJob DEF Complete
    <3> QED BY <2>1, <3>1
  <2> QED BY <1>2, <2>0, <2>1, <2>2, CompletedBy
<1>3. "lostLock" \notin Faults
  OBVIOUS
<1>4. (Spec => []LockInv) /\ (Spec => []FailInv)
  BY <1>3, LockInvHolds, FailInvHolds
<1>5. RefundInv /\ LockInv /\ FailInv /\ UncompletedInv /\ [Next]_vars => UncompletedInv'
  BY <1>2
<1> QED BY <1>1, <1>5, <1>4, RefundInvHolds, PTL DEF Spec

(* A handler or a call never takes a job back from another handler that      *)
(* completed it, whatever crashes: only a cancellation does, or the late     *)
(* QUEUED of the createVideoJob call that has not noticed.                   *)
THEOREM NoReworkOfCompleted ==
    ASSUME Faults \cap {"lostLock", "ambiguousAdd"} = {}
    PROVE  Spec => CompletedIsNotReworked
<1> DEFINE Kept == \A j \in Jobs : status[j] = "COMPLETED"
                     => status'[j] \in {"COMPLETED", "CANCELLED"} \/ step[j] = "markQueued"
<1>1. ASSUME RefundInv, LockInv, WorkInv, UncompletedInv, Next PROVE Kept
  <2>0. TypeOK
    BY <1>1 DEF RefundInv
  <2>1. CASE UNCHANGED status
    BY <2>1
  <2>2. ASSUME NEW j \in Jobs, CreateCommit(j) \/ MarkQueued(j) PROVE Kept
    BY <1>1, <2>0, <2>2
       DEF CreateCommit, MarkQueued, SetStatus, UncompletedInv, Unqueued, TypeOK
  <2>3. ASSUME NEW a \in Requests, TxCommit(a) PROVE Kept
    <3>1. status' = [status EXCEPT ![target[a]] = Verdict(a)]
          /\ step[a] \in Unqueued
      BY <2>3 DEF TxCommit, Unqueued
    <3>2. CASE a \in Cancels
      BY <2>0, <3>1, <3>2 DEF Verdict, TypeOK
    <3>3. CASE a \in Jobs
      <4>1. target[a] = a
        BY <1>1, <2>3, <3>3 DEF RefundInv, HasTarget
      <4> QED BY <1>1, <2>0, <3>1, <3>3, <4>1 DEF UncompletedInv, TypeOK
    <3> QED BY <3>2, <3>3 DEF Requests
  <2>4. ASSUME NEW w \in Workers, InsideStep(w) PROVE Kept
    <3>1. CASE Complete(w)
      BY <2>0, <3>1 DEF Complete, SetStatus, TypeOK
    <3>2. CASE ~Complete(w) /\ ~UNCHANGED status
      <4>1. pc[w] \notin Outside
        BY <2>4, <3>2, InsideStatus DEF Fail, Outside
      <4>2. \E s : status' = [status EXCEPT ![on[w]] = s]
        BY <2>4, <3>2, InsideStatus DEF Fail, SetStatus
      <4> QED BY <1>1, <2>0, <4>1, <4>2 DEF WorkInv, NotReworking, TypeOK
    <3> QED BY <2>1, <3>1, <3>2
  <2> QED
    BY <1>1, <2>1, <2>2, <2>3, <2>4
       DEF Next, CreateStep, TxStep, HandlerStep, InsideStep, AddSucceeds, AddFails, Promote,
           StalledCheck, CancelRemove, CancelRead, TxUpdate, RefundFind, ApiCrash, Take,
           Acknowledge, Reject, WorkerCrash, LockLost, DropLock, dbVars
<1>2. "lostLock" \notin Faults
  OBVIOUS
<1>3. (Spec => []LockInv) /\ (Spec => []WorkInv) /\ (Spec => []UncompletedInv)
  BY <1>2, LockInvHolds, WorkInvHolds, UncompletedInvHolds
<1>4. RefundInv /\ LockInv /\ WorkInv /\ UncompletedInv /\ [Next]_vars => [Kept]_vars
  BY <1>1
<1> QED BY <1>3, <1>4, RefundInvHolds, PTL DEF Spec, CompletedIsNotReworked

----------------------------------------------------------------------------
(* Jobs that end FAILED.  Entries of the ledger and the targets of cancelJob *)
(* calls stay, so what is paid back or asked for stays so.                   *)

Repaid(j) == j \in Charged => Refunds(j) > 0

LEMMA RepaidStays ==
    ASSUME RefundInv, LockInv, [Next]_vars, NEW j, Repaid(j) PROVE Repaid(j)'
<1>0. TypeOK
  BY DEF RefundInv
<1>1. CASE UNCHANGED ledger
  BY <1>1 DEF Repaid, Refunds
<1>2. ASSUME NEW x \in Jobs, NEW r \in RefundReasons,
             ledger' = [ledger EXCEPT ![x][r] = @ + 1]
      PROVE  Repaid(j)'
  <2>1. CASE j \in Charged
    <3>1. j \in Jobs /\ Refunds(j) > 0
      BY <2>1, JobsAssumption DEF Repaid
    <3>2. Refunds(j) \in Nat
      BY <1>0, <3>1, RefundsType
    <3>3. Refunds(j)' = Refunds(j) \/ Refunds(j)' = Refunds(j) + 1
      BY <1>0, <1>2, <3>1, LedgerWrite
    <3>4. Refunds(j)' > 0
      BY <3>1, <3>2, <3>3
    <3> QED BY <3>4 DEF Repaid
  <2>2. CASE j \notin Charged
    BY <2>2 DEF Repaid
  <2> QED BY <2>1, <2>2
<1>3. ASSUME NEW a \in Requests, TxCommit(a) PROVE Repaid(j)'
  <2>1. target[a] \in Jobs /\ Reason(a) \in RefundReasons
    BY <1>3 DEF TxCommit, RefundInv, HasTarget, Reason, RefundReasons
  <2> QED BY <1>1, <1>2, <1>3, <2>1 DEF TxCommit
<1>4. ASSUME NEW w \in Workers, InsideStep(w) PROVE Repaid(j)'
  <2>1. CASE RefundWrite(w)
    <3>1. on[w] \in Jobs /\ "REFUND_FAILED_JOB" \in RefundReasons
      BY <1>0, <2>1, HandledJob DEF RefundWrite, RefundReasons
    <3> QED BY <1>2, <2>1, <3>1 DEF RefundWrite
  <2> QED BY <1>0, <1>1, <1>4, <2>1, InsideRefunds
<1> QED
  BY <1>1, <1>3, <1>4
     DEF Next, CreateStep, TxStep, HandlerStep, InsideStep, vars, CreateCommit, AddSucceeds,
         AddFails, MarkQueued, Promote, StalledCheck, CancelRemove, CancelRead, TxUpdate,
         RefundFind, ApiCrash, Take, Acknowledge, Reject, WorkerCrash, LockLost, DropLock,
         dbVars

(* The counters of BullMQ, and the calls that have not read a job yet. *)
Counts(j) ==
    /\ tries[j] <= MaxAttempts /\ stalls[j] <= MaxStalls
    /\ bull[j] \in {"waiting", "active", "delayed"} => tries[j] < MaxAttempts
    /\ bull[j] = "failed" => tries[j] = MaxAttempts \/ stalls[j] = MaxStalls

QueueInv ==
    /\ \A j \in Jobs : Counts(j)
    /\ \A c \in Cancels : step[c] = "new" => target[c] = None

LEMMA QueueFrame ==
    ASSUME QueueInv, UNCHANGED <<tries, stalls>>,
           \A j \in Jobs : bull'[j] \in {bull[j], "absent"},
           \A c \in Cancels :
              step'[c] = "new" => step[c] = "new" /\ target'[c] = target[c]
    PROVE  QueueInv'
BY DEF QueueInv, Counts

(* One job moves in the queue. *)
LEMMA QueueMove ==
    ASSUME QueueInv, NEW x \in Jobs, Counts(x)',
           \A j \in Jobs : j # x =>
              bull'[j] = bull[j] /\ tries'[j] = tries[j] /\ stalls'[j] = stalls[j],
           \A c \in Cancels :
              step'[c] = "new" => step[c] = "new" /\ target'[c] = target[c]
    PROVE  QueueInv'
BY DEF QueueInv, Counts

LEMMA QueueInvStep ==
    ASSUME "lostLock" \notin Faults, TypeOK, LockInv, QueueInv, [Next]_vars
    PROVE  QueueInv'
<1> USE DEF dbVars, apiVars, queueVars, workVars
<1>1. CASE UNCHANGED vars
  BY <1>1, QueueFrame DEF vars
<1>2. ASSUME NEW j \in Jobs, CreateCommit(j) \/ MarkQueued(j) PROVE QueueInv'
  BY <1>2, QueueFrame, RequestsAssumption DEF CreateCommit, MarkQueued, TypeOK, Requests
<1>3. ASSUME NEW j \in Jobs, AddSucceeds(j) \/ AddFails(j) PROVE QueueInv'
  <2>1. tries[j] = 0 /\ stalls[j] <= MaxStalls /\ Counts(j)
    BY <1>3 DEF AddSucceeds, AddFails, LockInv, NotYetAdded, QueueInv, Counts
  <2>2. /\ UNCHANGED <<tries, stalls, target>>
        /\ bull' = bull \/ bull' = [bull EXCEPT ![j] = "waiting"]
        /\ \A c \in Cancels : step'[c] = step[c]
    BY <1>3, RequestsAssumption DEF AddSucceeds, AddFails, TypeOK, Requests
  <2>3. Counts(j)'
    BY <2>1, <2>2, BoundsAssumption DEF Counts, TypeOK
  <2>4. \A i \in Jobs : i # j => bull'[i] = bull[i]
    BY <2>2 DEF TypeOK
  <2> QED BY <2>2, <2>3, <2>4, QueueMove
<1>4. ASSUME NEW j \in Jobs, Promote(j) PROVE QueueInv'
  BY <1>4, QueueMove DEF Promote, QueueInv, Counts, TypeOK
<1>5. ASSUME NEW j \in Jobs, StalledCheck(j) PROVE QueueInv'
  <2>1. /\ Counts(j) /\ bull[j] = "active" /\ tries'[j] = tries[j]
        /\ \/ stalls[j] < MaxStalls /\ bull'[j] = "waiting" /\ stalls'[j] = stalls[j] + 1
           \/ ~(stalls[j] < MaxStalls) /\ bull'[j] = "failed" /\ stalls'[j] = stalls[j]
    BY <1>5 DEF StalledCheck, QueueInv, TypeOK
  <2>2. tries[j] \in Nat /\ stalls[j] \in Nat
    BY DEF TypeOK
  <2>3. Counts(j)'
    BY <2>1, <2>2, BoundsAssumption DEF Counts
  <2>4. /\ UNCHANGED <<tries, step, target>>
        /\ \A i \in Jobs : i # j => bull'[i] = bull[i] /\ stalls'[i] = stalls[i]
    BY <1>5 DEF StalledCheck, TypeOK
  <2> QED BY <2>3, <2>4, QueueMove
<1>6. ASSUME NEW c \in Cancels, CancelRemove(c) \/ \E j \in Jobs : CancelRead(c, j)
      PROVE  QueueInv'
  <2>1. /\ UNCHANGED <<tries, stalls>>
        /\ \A j \in Jobs : bull'[j] \in {bull[j], "absent"}
        /\ \E s \in {"remove", "lock"} : step' = [step EXCEPT ![c] = s]
        /\ target' = target \/ \E j \in Jobs : target' = [target EXCEPT ![c] = j]
    BY <1>6 DEF CancelRemove, CancelRead, TypeOK
  <2> QED BY <2>1, QueueFrame DEF TypeOK, Requests
<1>7. ASSUME NEW a \in Requests,
             TxUpdate(a) \/ RefundFind(a) \/ TxCommit(a) \/ ApiCrash(a)
      PROVE  QueueInv'
  <2>1. /\ UNCHANGED <<bull, tries, stalls, target>>
        /\ \E s \in {"find", "refund", "plain", "done"} : step' = [step EXCEPT ![a] = s]
    BY <1>7 DEF TxUpdate, RefundFind, TxCommit, ApiCrash
  <2> QED BY <2>1, QueueFrame DEF TypeOK, Requests
<1>8. ASSUME NEW w \in Workers, NEW j \in Jobs, Take(w, j) PROVE QueueInv'
  BY <1>8, QueueMove DEF Take, QueueInv, Counts, TypeOK
<1>9. ASSUME NEW w \in Workers, Acknowledge(w) \/ Reject(w) PROVE QueueInv'
  <2>. PICK x \in Jobs : x = on[w]
    BY <1>9, HandledJob DEF Acknowledge, Reject
  <2>1. holder[x] = w /\ bull[x] = "active" /\ Counts(x)
    BY <1>9, HandledJob DEF Acknowledge, Reject, QueueInv
  <2>2. tries[x] \in Nat /\ stalls[x] \in Nat
    BY DEF TypeOK
  <2>3. CASE Acknowledge(w)
    BY <2>1, <2>3, QueueMove DEF Acknowledge, Counts, TypeOK
  <2>4. CASE Reject(w)
    <3>1. /\ tries'[x] = tries[x] + 1 /\ stalls'[x] = stalls[x]
          /\ bull'[x] = IF tries[x] + 1 < MaxAttempts THEN "delayed" ELSE "failed"
      BY <2>1, <2>4 DEF Reject, TypeOK
    <3>2. Counts(x)'
      BY <2>1, <2>2, <3>1, BoundsAssumption DEF Counts
    <3>3. /\ UNCHANGED <<stalls, step, target>>
          /\ \A i \in Jobs : i # x => bull'[i] = bull[i] /\ tries'[i] = tries[i]
      BY <2>1, <2>4 DEF Reject, TypeOK
    <3> QED BY <3>2, <3>3, QueueMove
  <2> QED BY <1>9, <2>3, <2>4
<1>10. ASSUME NEW w \in Workers, WorkerCrash(w) PROVE QueueInv'
  BY <1>10, QueueFrame DEF WorkerCrash, DropLock
<1>11. ASSUME NEW w \in Workers, LockLost(w) PROVE QueueInv'
  BY <1>11 DEF LockLost
<1>12. ASSUME NEW w \in Workers, InsideStep(w) PROVE QueueInv'
  BY <1>12, InsideMoves, QueueFrame
<1> QED
  BY <1>1, <1>2, <1>3, <1>4, <1>5, <1>6, <1>7, <1>8, <1>9, <1>10, <1>11, <1>12
     DEF Next, CreateStep, TxStep, HandlerStep, InsideStep

LEMMA QueueInvHolds ==
    ASSUME "lostLock" \notin Faults PROVE Spec => []QueueInv
<1>1. Init => QueueInv
  BY BoundsAssumption, RequestsAssumption DEF Init, QueueInv, Counts, Requests
<1>2. TypeOK /\ LockInv /\ QueueInv /\ [Next]_vars => QueueInv'
  BY QueueInvStep
<1> QED BY <1>1, <1>2, TypeCorrect, LockInvHolds, PTL DEF Spec

LEMMA AskedStays ==
    ASSUME TypeOK, QueueInv, [Next]_vars, NEW j \in Jobs, AskedToCancel(j)
    PROVE  AskedToCancel(j)'
<1>1. CASE UNCHANGED target
  BY <1>1 DEF AskedToCancel
<1>2. ASSUME NEW c \in Cancels, NEW i \in Jobs, CancelRead(c, i) PROVE AskedToCancel(j)'
  <2>1. target' = [target EXCEPT ![c] = i] /\ target[c] = None
    BY <1>2 DEF CancelRead, QueueInv
  <2> QED BY <2>1, NoneAssumption DEF AskedToCancel, TypeOK
<1>3. ASSUME NEW w \in Workers, InsideStep(w) PROVE AskedToCancel(j)'
  BY <1>1, <1>3, InsideMoves DEF apiVars
<1> QED
  BY <1>1, <1>2, <1>3
     DEF Next, CreateStep, TxStep, HandlerStep, InsideStep, vars, CreateCommit, AddSucceeds,
         AddFails, MarkQueued, Promote, StalledCheck, CancelRemove, TxUpdate, RefundFind,
         TxCommit, ApiCrash, Take, Acknowledge, Reject, WorkerCrash, LockLost, DropLock,
         apiVars

(* Who turns a row FAILED. *)
LEMMA FailedBy ==
    ASSUME TypeOK, RefundInv, [Next]_vars, NEW j \in Jobs,
           status[j] # "FAILED", status'[j] = "FAILED"
    PROVE  \/ j \in Requests /\ TxCommit(j)
           \/ \E w \in Workers : Fail(w) /\ on[w] = j
<1>1. ASSUME UNCHANGED status PROVE FALSE
  BY <1>1
<1>2. ASSUME NEW i \in Jobs, CreateCommit(i) \/ MarkQueued(i) PROVE FALSE
  BY <1>2 DEF CreateCommit, MarkQueued, SetStatus, TypeOK
<1>3. ASSUME NEW a \in Requests, TxCommit(a) PROVE a = j
  <2>1. status' = [status EXCEPT ![target[a]] = Verdict(a)]
    BY <1>3 DEF TxCommit
  <2>2. target[a] = j /\ Verdict(a) = "FAILED"
    BY <2>1 DEF TypeOK
  <2> QED BY <2>2 DEF Verdict, Requests, RefundInv, HasTarget
<1>4. ASSUME NEW w \in Workers, InsideStep(w) PROVE Fail(w) /\ on[w] = j
  <2>1. CASE Complete(w)
    BY <2>1 DEF Complete, SetStatus, TypeOK
  <2>2. CASE Fail(w)
    BY <2>2 DEF Fail, SetStatus, TypeOK
  <2>3. CASE \E s \in {"PROCESSING", "QUEUED"} : status' = [status EXCEPT ![on[w]] = s]
    BY <2>3 DEF TypeOK
  <2> QED BY <1>1, <1>4, <2>1, <2>2, <2>3, InsideStatus
<1> QED
  BY <1>1, <1>2, <1>3, <1>4
     DEF Next, CreateStep, TxStep, HandlerStep, InsideStep, vars, AddSucceeds, AddFails,
         Promote, StalledCheck, CancelRemove, CancelRead, TxUpdate, RefundFind, ApiCrash,
         Take, Acknowledge, Reject, WorkerCrash, LockLost, DropLock, dbVars, Requests

(* A handler that returns has paid a FAILED job back; so has the queue of a   *)
(* job that is over, but for those that gave up.                             *)
GivenUp(w) ==
    /\ pc[w] = "cancelCleanup" => err[w] = "cancelled"
    /\ err[w] = "cancelled" /\ pc[w] # "idle" => Repaid(on[w])
    /\ pc[w] = "logFailed" => Repaid(on[w])
    /\ pc[w] = "return" /\ status[on[w]] = "FAILED" => Repaid(on[w])

Over(j) ==
    /\ bull[j] = "completed" /\ status[j] = "FAILED" => Repaid(j)
    /\ bull[j] = "absent" /\ status[j] = "FAILED" => Repaid(j) \/ AskedToCancel(j)

EndInv ==
    /\ \A w \in Workers : GivenUp(w)
    /\ \A j \in Jobs : Over(j)

LEMMA AfterStays ==
    ASSUME NEW s \in TryStages, s # "complete" PROVE After(s) \in TryStages
BY DEF After, TryStages, CheckStages, ProcessingStages, UploadStages, AssetStages,
       VersionStages

(* A job that turns FAILED under a handler that returns is paid back by the   *)
(* call that writes it: its add failed although it was carried out.          *)
LEMMA ReturnStays ==
    ASSUME RefundInv, CancelInv, LockInv, [Next]_vars,
           NEW w \in Workers, pc[w] = "return", status'[on[w]] = "FAILED"
    PROVE  status[on[w]] = "FAILED" \/ Repaid(on[w])'
<1>0. TypeOK
  BY DEF RefundInv
<1>. PICK x \in Jobs : x = on[w]
  BY <1>0, HandledJob
<1>1. \A v \in Workers : v # w => on[v] # x
  BY <1>0, HandledJob
<1>2. ASSUME x \in Requests, TxCommit(x) PROVE Repaid(on[w])'
  <2>1. target[x] = x /\ on' = on
    BY <1>2 DEF RefundInv, HasTarget, Requests, TxCommit, workVars
  <2>2. Repaid(x)'
    BY <1>2, <2>1, CommitRepays DEF Repaid
  <2> QED BY <2>1, <2>2
<1>3. ASSUME NEW v \in Workers, Fail(v), on[v] = x PROVE FALSE
  BY <1>1, <1>3 DEF Fail
<1> QED BY <1>0, <1>2, <1>3, FailedBy

(* The stages a handler can reach in one step of its own. *)
LEMMA GivenUpStep ==
    ASSUME RefundInv, CancelInv, LockInv, EndInv, [Next]_vars,
           NEW w \in Workers, InsideStep(w)
    PROVE  GivenUp(w)'
<1>0. TypeOK
  BY DEF RefundInv
<1>1. /\ on'[w] = on[w] /\ on[w] \in Jobs /\ pc[w] # "idle"
      /\ Repaid(on[w]) => Repaid(on[w])'
  BY <1>0, InsideMoves, HandledJob, RepaidStays
<1>2. GivenUp(w)
  BY DEF EndInv
<1> DEFINE T == TryStages \cup {"rollback", "finalCleanup", "requeue", "fail",
                                "refundCheck", "refundWrite", "throw"}
<1>3. T \cap {"cancelCleanup", "logFailed", "return", "idle"} = {}
  BY DEF TryStages, CheckStages, ProcessingStages, UploadStages, AssetStages,
         VersionStages
<1> HIDE DEF T
<1>4. ASSUME pc'[w] \in T, err'[w] = "cancelled" => err[w] = "cancelled"
      PROVE  GivenUp(w)'
  BY <1>1, <1>2, <1>3, <1>4 DEF GivenUp
<1>5. CASE HandleRead(w)
  <2>1. /\ pc'[w] = IF status[on[w]] \in NotProcessedAgain THEN "return" ELSE "check1"
        /\ err' = err /\ status' = status
    BY <1>0, <1>5 DEF HandleRead, Goto, dbVars, TypeOK
  <2> QED BY <1>1, <1>2, <2>1 DEF GivenUp, NotProcessedAgain
<1>6. CASE EnsureJobNotCancelled(w)
  <2>1. CASE status[on[w]] = "CANCELLED"
    <3>1. pc'[w] = "rollback"
      BY <1>0, <1>6, <2>1 DEF EnsureJobNotCancelled, Goto, TypeOK
    <3>2. Repaid(on[w])
      BY <1>1, <2>1 DEF CancelInv, CancelledIsRefunded, Repaid
    <3> QED BY <1>1, <3>1, <3>2 DEF GivenUp
  <2>2. CASE status[on[w]] # "CANCELLED"
    <3>1. pc[w] \in TryStages \ {"complete"} /\ pc'[w] = After(pc[w]) /\ err' = err
      BY <1>0, <1>6, <2>2 DEF EnsureJobNotCancelled, Goto, TypeOK, TryStages, CheckStages
    <3> QED BY <1>4, <3>1, AfterStays DEF T
  <2> QED BY <2>1, <2>2
<1>7. CASE SetProcessing(w) \/ Upload(w) \/ CreateAsset(w) \/ CreateVersion(w)
  <2>1. pc[w] \in TryStages \ {"complete"} /\ pc'[w] = After(pc[w]) /\ err' = err
    BY <1>0, <1>7 DEF SetProcessing, Upload, CreateAsset, CreateVersion, Goto, TypeOK,
                      TryStages, CheckStages, ProcessingStages, UploadStages, AssetStages,
                      VersionStages
  <2> QED BY <1>4, <2>1, AfterStays DEF T
<1>8. CASE CleanBeforeRun(w) \/ ProviderAnswers(w)
  BY <1>0, <1>4, <1>8 DEF CleanBeforeRun, ProviderAnswers, Goto, TypeOK, T, TryStages,
                          ProcessingStages
<1>9. CASE Complete(w)
  <2>1. pc'[w] = "return" /\ err' = err /\ status'[on[w]] = "COMPLETED"
    BY <1>0, <1>1, <1>9 DEF Complete, SetStatus, Goto, TypeOK
  <2> QED BY <1>1, <1>2, <2>1 DEF GivenUp
<1>10. CASE StageFails(w)
  <2>1. pc'[w] = "rollback" /\ err'[w] \in {"retryable", "fatal"}
    BY <1>0, <1>10 DEF StageFails, Goto, TypeOK
  <2> QED BY <1>4, <2>1 DEF T
<1>11. CASE Rollback(w)
  <2>1. /\ err' = err
        /\ \/ pc'[w] = "cancelCleanup" /\ err[w] = "cancelled"
           \/ pc'[w] \in {"finalCleanup", "requeue"}
    BY <1>0, <1>11 DEF Rollback, Goto, TypeOK
  <2> QED BY <1>1, <1>2, <1>4, <2>1 DEF GivenUp, T
<1>12. CASE CatchCleanup(w)
  <2>1. /\ err' = err
        /\ \/ pc'[w] = "return" /\ err[w] = "cancelled"
           \/ pc'[w] = "fail"
    BY <1>0, <1>2, <1>12 DEF CatchCleanup, Goto, TypeOK, GivenUp
  <2> QED BY <1>1, <1>2, <1>4, <2>1 DEF GivenUp, T
<1>13. CASE Requeue(w) \/ Fail(w) \/ CatchFails(w)
  BY <1>0, <1>4, <1>13 DEF Requeue, Fail, CatchFails, Goto, TypeOK, T
<1>14. CASE RefundCheck(w)
  <2>1. /\ err' = err
        /\ pc'[w] = IF NoRefundYet(on[w]) THEN "refundWrite" ELSE "logFailed"
    BY <1>0, <1>14 DEF RefundCheck, Goto, TypeOK
  <2>2. ~NoRefundYet(on[w]) => Repaid(on[w])
    BY <1>0, <1>1, RefundsType DEF NoRefundYet, Repaid, Refunds
  <2> QED BY <1>1, <1>2, <1>4, <2>1, <2>2 DEF GivenUp, T
<1>15. CASE RefundWrite(w)
  <2>. PICK x \in Jobs : x = on[w]
    BY <1>1
  <2>1. pc'[w] = "logFailed" /\ err' = err
    BY <1>0, <1>15 DEF RefundWrite, Goto, TypeOK
  <2>2. ledger' = [ledger EXCEPT ![x]["REFUND_FAILED_JOB"] = @ + 1]
        /\ "REFUND_FAILED_JOB" \in RefundReasons
    BY <1>15 DEF RefundWrite, RefundReasons
  <2>3. Refunds(x)' = Refunds(x) + 1
    BY <1>0, <2>2, LedgerWrite
  <2>4. Refunds(x)' > 0
    BY <1>0, <2>3, RefundsType
  <2>5. Repaid(on[w])'
    BY <1>1, <2>4 DEF Repaid
  <2> QED BY <1>1, <2>1, <2>5 DEF GivenUp
<1>16. CASE LogFailed(w)
  <2>1. err' = err /\ pc'[w] \in {"return", "throw"} /\ Repaid(on[w])
    BY <1>0, <1>2, <1>16 DEF LogFailed, Goto, TypeOK, GivenUp
  <2> QED BY <1>1, <2>1 DEF GivenUp
<1> QED
  BY <1>5, <1>6, <1>7, <1>8, <1>9, <1>10, <1>11, <1>12, <1>13, <1>14, <1>15, <1>16
     DEF InsideStep, TryStep, CatchStep

LEMMA GivenUpKept ==
    ASSUME RefundInv, CancelInv, LockInv, EndInv, "lostLock" \notin Faults,
           [Next]_vars, NEW w \in Workers
    PROVE  GivenUp(w)'
<1>0. TypeOK /\ GivenUp(w)
  BY DEF RefundInv, EndInv
<1>1. ASSUME pc'[w] = pc[w], on'[w] = on[w], err'[w] = err[w] PROVE GivenUp(w)'
  <2>1. Repaid(on[w]) => Repaid(on[w])'
    BY <1>1, RepaidStays
  <2>2. pc[w] = "return" /\ status'[on[w]] = "FAILED"
           => status[on[w]] = "FAILED" \/ Repaid(on[w])'
    BY ReturnStays
  <2> QED BY <1>0, <1>1, <2>1, <2>2 DEF GivenUp
<1>2. ASSUME NEW v \in Workers, InsideStep(v) PROVE GivenUp(w)'
  <2>1. CASE v = w
    BY <1>2, <2>1, GivenUpStep
  <2>2. CASE v # w
    <3>1. pc'[w] = pc[w] /\ on'[w] = on[w]
      BY <1>0, <1>2, <2>2, InsideMoves DEF TypeOK
    <3>2. err'[w] = err[w]
      BY <1>0, <1>2, <2>2
         DEF InsideStep, TryStep, CatchStep, HandleRead, EnsureJobNotCancelled, CleanBeforeRun,
             SetProcessing, ProviderAnswers, Upload, CreateAsset, CreateVersion, Complete,
             StageFails, Rollback, CatchCleanup, Requeue, Fail, RefundCheck, RefundWrite,
             LogFailed, CatchFails, TypeOK
    <3> QED BY <1>1, <3>1, <3>2
  <2> QED BY <2>1, <2>2
<1>3. ASSUME NEW v \in Workers,
             \/ \E j \in Jobs : Take(v, j)
             \/ Acknowledge(v) \/ Reject(v) \/ WorkerCrash(v)
      PROVE  GivenUp(w)'
  <2>1. CASE v = w
    <3>1. pc'[w] \in {"read", "idle"} /\ (pc'[w] = "read" => err'[w] = "none")
      BY <1>0, <1>3, <2>1 DEF Take, Acknowledge, Reject, WorkerCrash, Release, TypeOK
    <3> QED BY <3>1 DEF GivenUp
  <2>2. CASE v # w
    <3>1. pc'[w] = pc[w] /\ on'[w] = on[w] /\ err'[w] = err[w]
      BY <1>0, <1>3, <2>2
         DEF Take, Acknowledge, Reject, WorkerCrash, DropLock, Release, TypeOK
    <3> QED BY <1>1, <3>1
  <2> QED BY <2>1, <2>2
<1> QED
  BY <1>1, <1>2, <1>3
     DEF Next, CreateStep, TxStep, HandlerStep, InsideStep, vars, CreateCommit, AddSucceeds,
         AddFails, MarkQueued, Promote, StalledCheck, CancelRemove, CancelRead, TxUpdate,
         RefundFind, TxCommit, ApiCrash, LockLost, workVars

LEMMA OverKept ==
    ASSUME RefundInv, CancelInv, LockInv, QueueInv, EndInv, [Next]_vars, NEW j \in Jobs
    PROVE  Over(j)'
<1>0. TypeOK /\ Over(j)
  BY DEF RefundInv, EndInv
<1>1. /\ Repaid(j) => Repaid(j)'
      /\ AskedToCancel(j) => AskedToCancel(j)'
  BY <1>0, RepaidStays, AskedStays
<1>2. CASE status[j] # "FAILED" /\ status'[j] = "FAILED"
  <2>1. CASE TxCommit(j) /\ j \in Requests
    <3>1. target[j] = j
      BY DEF RefundInv, HasTarget, Requests
    <3>2. Repaid(j)'
      BY <2>1, <3>1, CommitRepays DEF Repaid
    <3> QED BY <3>2 DEF Over
  <2>2. ASSUME NEW w \in Workers, Fail(w), on[w] = j PROVE Over(j)'
    <3>1. bull[j] = "active" /\ bull' = bull
      BY <1>0, <2>2, HandledJob DEF Fail, queueVars
    <3> QED BY <3>1 DEF Over
  <2> QED BY <1>0, <1>2, <2>1, <2>2, FailedBy
<1>3. CASE status'[j] = "FAILED" => status[j] = "FAILED"
  <2>1. ASSUME bull'[j] = bull[j] \/ bull'[j] \notin {"completed", "absent"} PROVE Over(j)'
    BY <1>0, <1>1, <1>3, <2>1 DEF Over
  <2>2. ASSUME NEW i \in Jobs, AddSucceeds(i) \/ AddFails(i) \/ Promote(i) \/ StalledCheck(i)
        PROVE  Over(j)'
    BY <1>0, <2>1, <2>2 DEF AddSucceeds, AddFails, Promote, StalledCheck, TypeOK
  <2>3. ASSUME NEW c \in Cancels, CancelRemove(c) PROVE Over(j)'
    <3>1. target[c] = j => AskedToCancel(j)'
      BY <1>1, <2>3 DEF AskedToCancel
    <3>2. target[c] # j => bull'[j] = bull[j]
      BY <1>0, <2>3 DEF CancelRemove, TypeOK
    <3>3. bull'[j] \in {bull[j], "absent"}
      BY <1>0, <2>3 DEF CancelRemove, TypeOK
    <3> QED BY <2>1, <3>1, <3>2, <3>3 DEF Over
  <2>4. ASSUME NEW w \in Workers, NEW i \in Jobs, Take(w, i) PROVE Over(j)'
    BY <1>0, <2>1, <2>4 DEF Take, TypeOK
  <2>5. ASSUME NEW w \in Workers, Acknowledge(w) PROVE Over(j)'
    <3>1. CASE on[w] = j
      <4>1. GivenUp(w) /\ pc[w] = "return" /\ bull'[j] \in {bull[j], "completed"}
        BY <1>0, <2>5, <3>1 DEF EndInv, Acknowledge, TypeOK
      <4> QED BY <1>1, <1>3, <2>1, <3>1, <4>1 DEF GivenUp, Over
    <3>2. CASE on[w] # j
      BY <1>0, <2>1, <2>5, <3>2 DEF Acknowledge, TypeOK
    <3> QED BY <3>1, <3>2
  <2>6. ASSUME NEW w \in Workers, Reject(w) PROVE Over(j)'
    BY <1>0, <2>1, <2>6 DEF Reject, TypeOK
  <2>7. ASSUME NEW w \in Workers, InsideStep(w) PROVE Over(j)'
    BY <2>1, <2>7, InsideMoves DEF queueVars
  <2> QED
    BY <2>1, <2>2, <2>3, <2>4, <2>5, <2>6, <2>7
       DEF Next, CreateStep, TxStep, HandlerStep, InsideStep, vars, CreateCommit,
           MarkQueued, CancelRead, TxUpdate, RefundFind, TxCommit, ApiCrash, WorkerCrash,
           LockLost, DropLock, queueVars
<1> QED BY <1>2, <1>3

LEMMA EndInvHolds ==
    ASSUME "lostLock" \notin Faults PROVE Spec => []EndInv
<1>1. Init => EndInv
  BY DEF Init, EndInv, GivenUp, Over
<1>2. RefundInv /\ CancelInv /\ LockInv /\ QueueInv /\ EndInv /\ [Next]_vars => EndInv'
  BY GivenUpKept, OverKept DEF EndInv
<1>3. (Spec => []LockInv) /\ (Spec => []QueueInv)
  BY LockInvHolds, QueueInvHolds
<1> QED BY <1>1, <1>2, <1>3, RefundInvHolds, CancelInvHolds, PTL DEF Spec

(* The only charged jobs that stay FAILED without a refund are those whose   *)
(* queue entry gave up in the middle, with every attempt or stall used, or   *)
(* removed by a cancelJob call: whatever crashed, was rejected or was added   *)
(* without an answer.                                                        *)
THEOREM UnrefundedJobsWereGivenUp ==
    ASSUME "lostLock" \notin Faults PROVE Spec => []UnrefundedWasGivenUp
<1>1. QueueInv /\ EndInv => UnrefundedWasGivenUp
  BY JobsAssumption DEF QueueInv, EndInv, Counts, Over, Repaid, UnrefundedWasGivenUp, Settled
<1>2. (Spec => []QueueInv) /\ (Spec => []EndInv)
  BY QueueInvHolds, EndInvHolds
<1> QED BY <1>1, <1>2, PTL

----------------------------------------------------------------------------
(* The artifacts of a job.  Only its handler touches them, and what a        *)
(* handler has made of them follows from the stage it has reached.           *)

Artifacts == <<rows, versions, objects>>

NoRow == {"p5", "p15", "p30", "check2", "provider", "p60", "check3", "p80", "check4",
          "uploadVideo", "p90", "assetVideo"}
VideoRow == {"p95", "versionVideo", "uploadThumb", "assetThumb"}
BothRows == {"versionThumb", "complete"}
NoVersion == NoRow \cup {"p95", "versionVideo"}
VideoVersion == {"uploadThumb", "assetThumb", "versionThumb"}
VideoStored == {"p90", "assetVideo"} \cup VideoRow \cup BothRows
ThumbStored == {"assetThumb"} \cup BothRows

(* No attempt and no stall starts a run with a higher number. *)
LastRun == MaxAttempts + MaxStalls

Progress(w) ==
    LET j == on[w]
        video == <<"VIDEO", run[w]>>
        thumb == <<"THUMBNAIL", run[w]>>
    IN  /\ pc[w] \in NoRow => rows[j] = {}
        /\ pc[w] \in VideoRow => rows[j] = {video}
        /\ pc[w] \in BothRows => rows[j] = {video, thumb}
        /\ pc[w] \in NoVersion => versions[j] = {}
        /\ pc[w] \in VideoVersion => versions[j] = {video}
        /\ pc[w] = "complete" => versions[j] = {video, thumb}
        /\ pc[w] \in VideoStored => video \in objects[j]
        /\ pc[w] \in ThumbStored => thumb \in objects[j]
        /\ pc[w] # "idle" => run[w] <= LastRun

DeliveryInv == CompletedIsDelivered /\ \A w \in Workers : Progress(w)

(* One handler works on the artifacts of its own job. *)
LEMMA InsideArtifacts ==
    ASSUME TypeOK, NEW w \in Workers, InsideStep(w)
    PROVE  /\ \A j \in Jobs : j # on[w] =>
                 rows'[j] = rows[j] /\ versions'[j] = versions[j] /\ objects'[j] = objects[j]
           /\ UNCHANGED Artifacts \/ pc[w] \notin Outside
<1>1. CASE UNCHANGED Artifacts
  BY <1>1 DEF Artifacts
<1>2. CASE CleanBeforeRun(w) \/ CatchCleanup(w)
  BY <1>2 DEF CleanBeforeRun, CatchCleanup, CleanupOutputArtifacts, Outside, TypeOK
<1>3. CASE Upload(w) \/ CreateAsset(w) \/ CreateVersion(w) \/ Rollback(w)
  BY <1>3 DEF Upload, CreateAsset, CreateVersion, Rollback, Outside, UploadStages,
              AssetStages, VersionStages, TypeOK
<1> QED
  BY <1>1, <1>2, <1>3
     DEF InsideStep, TryStep, CatchStep, HandleRead, EnsureJobNotCancelled, SetProcessing,
         ProviderAnswers, Complete, StageFails, Requeue, Fail, RefundCheck, RefundWrite,
         LogFailed, CatchFails, Artifacts, dbVars

LEMMA ArtifactsBy ==
    ASSUME [Next]_vars
    PROVE  UNCHANGED Artifacts \/ \E w \in Workers : InsideStep(w)
BY DEF Next, CreateStep, TxStep, HandlerStep, InsideStep, vars, CreateCommit, AddSucceeds,
       AddFails, MarkQueued, Promote, StalledCheck, CancelRemove, CancelRead, TxUpdate,
       RefundFind, TxCommit, ApiCrash, Take, Acknowledge, Reject, WorkerCrash, LockLost,
       DropLock, Artifacts, dbVars

(* What the stages that write artifacts and those that do not lead to. *)
LEMMA ProgressStep ==
    ASSUME TypeOK, LockInv, NEW w \in Workers, Progress(w), InsideStep(w)
    PROVE  Progress(w)'
<1>. PICK j \in Jobs : j = on[w]
  BY InsideMoves, HandledJob
<1>0. on'[w] = j /\ run'[w] = run[w] /\ pc[w] # "idle" /\ run[w] <= LastRun
  BY InsideMoves DEF Progress
<1> DEFINE Late == {"check1", "rollback", "cancelCleanup", "finalCleanup", "requeue", "fail",
                    "refundCheck", "refundWrite", "logFailed", "return", "throw", "clean"}
<1> USE DEF NoRow, VideoRow, BothRows, NoVersion, VideoVersion, VideoStored, ThumbStored
<1>1. ASSUME pc'[w] \in Late PROVE Progress(w)'
  BY <1>0, <1>1 DEF Progress, LastRun
<1>2. ASSUME UNCHANGED Artifacts, pc'[w] = After(pc[w]),
             pc[w] \in CheckStages \cup ProcessingStages \cup {"provider"}
      PROVE  Progress(w)'
  <2>1. pc[w] \in {"check1", "check2", "check3", "check4", "p5", "p15", "p30", "p60",
                   "p80", "p90", "p95", "provider"}
    BY <1>2 DEF CheckStages, ProcessingStages
  <2>2. CASE pc[w] \in {"p5", "p15", "p30", "check2", "provider", "p60", "check3", "p80",
                        "check4"}
    <3>1. pc'[w] \in {"p15", "p30", "check2", "provider", "p60", "check3", "p80",
                        "check4", "uploadVideo"}
      BY <1>2, <2>2 DEF After
    <3> QED BY <1>0, <1>2, <2>2, <3>1 DEF Progress, Artifacts, LastRun
  <2>3. CASE pc[w] = "check1"
    BY <1>1, <1>2, <2>3 DEF After
  <2>4. CASE pc[w] = "p90"
    <3>1. pc'[w] = "assetVideo"
      BY <1>2, <2>4 DEF After
    <3> QED BY <1>0, <1>2, <2>4, <3>1 DEF Progress, Artifacts, LastRun
  <2>5. CASE pc[w] = "p95"
    <3>1. pc'[w] = "versionVideo"
      BY <1>2, <2>5 DEF After
    <3> QED BY <1>0, <1>2, <2>5, <3>1 DEF Progress, Artifacts, LastRun
  <2> QED BY <2>1, <2>2, <2>3, <2>4, <2>5
<1>3. CASE HandleRead(w) \/ StageFails(w) \/ CatchStep(w) \/ CatchFails(w) \/ Complete(w)
  <2>1. pc'[w] \in Late
    BY <1>3 DEF HandleRead, StageFails, CatchStep, CatchFails, Complete, Rollback,
                CatchCleanup, Requeue, Fail, RefundCheck, RefundWrite, LogFailed, Goto, TypeOK
  <2> QED BY <1>1, <2>1
<1>4. CASE EnsureJobNotCancelled(w)
  <2>1. CASE status[on[w]] = "CANCELLED"
    BY <1>1, <1>4, <2>1 DEF EnsureJobNotCancelled, Goto, TypeOK
  <2>2. CASE status[on[w]] # "CANCELLED"
    BY <1>2, <1>4, <2>2 DEF EnsureJobNotCancelled, Goto, TypeOK, Artifacts, dbVars
  <2> QED BY <2>1, <2>2
<1>5. CASE SetProcessing(w)
  BY <1>2, <1>5 DEF SetProcessing, Goto, TypeOK, Artifacts
<1>6. CASE ProviderAnswers(w)
  BY <1>2, <1>6 DEF ProviderAnswers, Goto, TypeOK, Artifacts, dbVars, After
<1>7. CASE CleanBeforeRun(w)
  <2>1. /\ rows'[j] = {} /\ versions'[j] = {} /\ pc'[w] = "p5"
    BY <1>7 DEF CleanBeforeRun, CleanupOutputArtifacts, Goto, TypeOK
  <2> QED BY <1>0, <2>1 DEF Progress, LastRun
<1>8. CASE Upload(w)
  <2>1. /\ objects'[j] = objects[j] \cup {Output(pc[w], run[w])}
        /\ UNCHANGED <<rows, versions>> /\ pc'[w] = After(pc[w])
        /\ pc[w] \in {"uploadVideo", "uploadThumb"}
    BY <1>8 DEF Upload, Goto, UploadStages, TypeOK
  <2>2. CASE pc[w] = "uploadVideo"
    <3>1. pc'[w] = "p90" /\ Output(pc[w], run[w]) = <<"VIDEO", run[w]>>
      BY <2>1, <2>2 DEF After, Output
    <3> QED BY <1>0, <2>1, <2>2, <3>1 DEF Progress, LastRun
  <2>3. CASE pc[w] = "uploadThumb"
    <3>1. pc'[w] = "assetThumb" /\ Output(pc[w], run[w]) = <<"THUMBNAIL", run[w]>>
      BY <2>1, <2>3 DEF After, Output
    <3> QED BY <1>0, <2>1, <2>3, <3>1 DEF Progress, LastRun
  <2> QED BY <2>1, <2>2, <2>3
<1>9. CASE CreateAsset(w)
  <2>1. /\ rows'[j] = rows[j] \cup {Output(pc[w], run[w])}
        /\ UNCHANGED <<objects, versions>> /\ pc'[w] = After(pc[w])
        /\ pc[w] \in {"assetVideo", "assetThumb"}
    BY <1>9 DEF CreateAsset, Goto, AssetStages, TypeOK
  <2>2. CASE pc[w] = "assetVideo"
    <3>1. pc'[w] = "p95" /\ Output(pc[w], run[w]) = <<"VIDEO", run[w]>>
      BY <2>1, <2>2 DEF After, Output
    <3>2. rows'[j] = {<<"VIDEO", run[w]>>}
      BY <2>1, <2>2, <3>1 DEF Progress
    <3> QED BY <1>0, <2>1, <2>2, <3>1, <3>2 DEF Progress, LastRun
  <2>3. CASE pc[w] = "assetThumb"
    <3>1. pc'[w] = "versionThumb" /\ Output(pc[w], run[w]) = <<"THUMBNAIL", run[w]>>
      BY <2>1, <2>3 DEF After, Output
    <3>2. rows'[j] = {<<"VIDEO", run[w]>>, <<"THUMBNAIL", run[w]>>}
      BY <2>1, <2>3, <3>1 DEF Progress
    <3> QED BY <1>0, <2>1, <2>3, <3>1, <3>2 DEF Progress, LastRun
  <2> QED BY <2>1, <2>2, <2>3
<1>10. CASE CreateVersion(w)
  <2>1. /\ versions'[j] = versions[j] \cup {Output(pc[w], run[w])}
        /\ UNCHANGED <<objects, rows>> /\ pc'[w] = After(pc[w])
        /\ pc[w] \in {"versionVideo", "versionThumb"}
    BY <1>10 DEF CreateVersion, Goto, VersionStages, TypeOK
  <2>2. CASE pc[w] = "versionVideo"
    <3>1. pc'[w] = "uploadThumb" /\ Output(pc[w], run[w]) = <<"VIDEO", run[w]>>
      BY <2>1, <2>2 DEF After, Output
    <3>2. versions'[j] = {<<"VIDEO", run[w]>>}
      BY <2>1, <2>2, <3>1 DEF Progress
    <3> QED BY <1>0, <2>1, <2>2, <3>1, <3>2 DEF Progress, LastRun
  <2>3. CASE pc[w] = "versionThumb"
    <3>1. pc'[w] = "complete" /\ Output(pc[w], run[w]) = <<"THUMBNAIL", run[w]>>
      BY <2>1, <2>3 DEF After, Output
    <3>2. versions'[j] = {<<"VIDEO", run[w]>>, <<"THUMBNAIL", run[w]>>}
      BY <2>1, <2>3, <3>1 DEF Progress
    <3> QED BY <1>0, <2>1, <2>3, <3>1, <3>2 DEF Progress, LastRun
  <2> QED BY <2>1, <2>2, <2>3
<1> QED
  BY <1>3, <1>4, <1>5, <1>6, <1>7, <1>8, <1>9, <1>10 DEF InsideStep, TryStep

(* A handler whose stage, run and artifacts stay has come as far as it had. *)
LEMMA ProgressFrame ==
    ASSUME NEW w, Progress(w), pc'[w] = pc[w], on'[w] = on[w], run'[w] = run[w],
           pc[w] \notin Outside =>
              /\ rows'[on[w]] = rows[on[w]]
              /\ versions'[on[w]] = versions[on[w]]
              /\ objects'[on[w]] = objects[on[w]]
    PROVE  Progress(w)'
<1>1. CASE pc[w] \in Outside
  BY <1>1 DEF Progress, LastRun, Outside, NoRow, VideoRow, BothRows, NoVersion,
              VideoVersion, VideoStored, ThumbStored
<1>2. CASE pc[w] \notin Outside
  BY <1>2 DEF Progress, LastRun
<1> QED BY <1>1, <1>2

LEMMA ProgressKept ==
    ASSUME TypeOK, LockInv, QueueInv, DeliveryInv, [Next]_vars, NEW w \in Workers
    PROVE  Progress(w)'
<1>0. Progress(w)
  BY DEF DeliveryInv
<1>1. ASSUME NEW v \in Workers, InsideStep(v) PROVE Progress(w)'
  <2>1. CASE v = w
    BY <1>0, <1>1, <2>1, ProgressStep
  <2>2. CASE v # w
    <3>1. pc'[w] = pc[w] /\ on'[w] = on[w] /\ run'[w] = run[w]
      BY <1>1, <2>2, InsideMoves DEF TypeOK
    <3>2. pc[w] # "idle" => on[w] \in Jobs /\ on[w] # on[v]
      BY <2>2, HandledJob
    <3>3. pc[w] \notin Outside =>
              /\ rows'[on[w]] = rows[on[w]]
              /\ versions'[on[w]] = versions[on[w]]
              /\ objects'[on[w]] = objects[on[w]]
      BY <1>1, <3>2, InsideArtifacts DEF Outside
    <3> QED BY <1>0, <3>1, <3>3, ProgressFrame
  <2> QED BY <2>1, <2>2
<1>2. ASSUME NEW v \in Workers, NEW j \in Jobs, Take(v, j) PROVE Progress(w)'
  <2>1. UNCHANGED <<rows, versions, objects>>
    BY <1>2 DEF Take, dbVars
  <2>2. CASE v = w
    <3>1. pc'[w] = "read" /\ run'[w] = tries[j] + stalls[j]
      BY <1>2, <2>2 DEF Take, TypeOK
    <3>2. tries[j] <= MaxAttempts /\ stalls[j] <= MaxStalls
      BY DEF QueueInv, Counts
    <3>3. run'[w] <= LastRun
      BY <3>1, <3>2, BoundsAssumption DEF LastRun, TypeOK
    <3> QED BY <3>1, <3>3
            DEF Progress, LastRun, NoRow, VideoRow, BothRows, NoVersion, VideoVersion,
                VideoStored, ThumbStored
  <2>3. CASE v # w
    <3>1. pc'[w] = pc[w] /\ on'[w] = on[w] /\ run'[w] = run[w]
      BY <1>2, <2>3 DEF Take, TypeOK
    <3> QED BY <1>0, <2>1, <3>1, ProgressFrame
  <2> QED BY <2>2, <2>3
<1>3. ASSUME NEW v \in Workers, Acknowledge(v) \/ Reject(v) \/ WorkerCrash(v)
      PROVE  Progress(w)'
  <2>1. UNCHANGED <<rows, versions, objects, run>>
    BY <1>3 DEF Acknowledge, Reject, WorkerCrash, DropLock, dbVars
  <2>2. CASE v = w
    <3>1. pc'[w] = "idle"
      BY <1>3, <2>2 DEF Acknowledge, Reject, WorkerCrash, Release, TypeOK
    <3> QED BY <3>1
            DEF Progress, NoRow, VideoRow, BothRows, NoVersion, VideoVersion, VideoStored,
                ThumbStored
  <2>3. CASE v # w
    <3>1. pc'[w] = pc[w] /\ on'[w] = on[w]
      BY <1>3, <2>3 DEF Acknowledge, Reject, WorkerCrash, Release, TypeOK
    <3> QED BY <1>0, <2>1, <3>1, ProgressFrame
  <2> QED BY <2>2, <2>3
<1>4. CASE UNCHANGED <<pc, on, run, rows, versions, objects>>
  BY <1>0, <1>4, ProgressFrame
<1> QED
  BY <1>1, <1>2, <1>3, <1>4
     DEF Next, CreateStep, TxStep, HandlerStep, InsideStep, vars, CreateCommit, AddSucceeds,
         AddFails, MarkQueued, Promote, StalledCheck, CancelRemove, CancelRead, TxUpdate,
         RefundFind, TxCommit, ApiCrash, LockLost, DropLock, dbVars, workVars

LEMMA DeliveredKept ==
    ASSUME TypeOK, LockInv, WorkInv, DeliveryInv, [Next]_vars,
           NEW j \in Jobs, status'[j] = "COMPLETED"
    PROVE  Delivered(j)'
<1>1. CASE status[j] = "COMPLETED"
  <2>1. Delivered(j)
    BY <1>1 DEF DeliveryInv, CompletedIsDelivered
  <2>2. ASSUME NEW w \in Workers, InsideStep(w)
        PROVE  rows'[j] = rows[j] /\ versions'[j] = versions[j] /\ objects'[j] = objects[j]
    <3>1. pc[w] \notin Outside => on[w] # j
      BY <1>1 DEF WorkInv, NotReworking
    <3> QED BY <2>2, <3>1, InsideArtifacts DEF Artifacts
  <2>3. rows'[j] = rows[j] /\ versions'[j] = versions[j] /\ objects'[j] = objects[j]
    BY <2>2, ArtifactsBy DEF Artifacts
  <2> QED BY <2>1, <2>3 DEF Delivered
<1>2. CASE status[j] # "COMPLETED"
  <2>. PICK w \in Workers : Complete(w) /\ on[w] = j
    BY <1>2, CompletedBy
  <2>1. /\ pc[w] = "complete" /\ UNCHANGED <<rows, versions, objects>>
        /\ Progress(w) /\ run[w] \in Nat
    BY DEF Complete, DeliveryInv, TypeOK
  <2>2. /\ rows[j] = {<<"VIDEO", run[w]>>, <<"THUMBNAIL", run[w]>>}
        /\ versions[j] = {<<"VIDEO", run[w]>>, <<"THUMBNAIL", run[w]>>}
        /\ <<"VIDEO", run[w]>> \in objects[j] /\ <<"THUMBNAIL", run[w]>> \in objects[j]
        /\ run[w] <= MaxAttempts + MaxStalls
    BY <2>1 DEF Progress, BothRows, VideoStored, ThumbStored, LastRun
  <2>3. run[w] \in 0..(MaxAttempts + MaxStalls)
    BY <2>1, <2>2, BoundsAssumption
  <2> QED BY <2>1, <2>2, <2>3 DEF Delivered
<1> QED BY <1>1, <1>2

LEMMA DeliveryInvHolds ==
    ASSUME "lostLock" \notin Faults PROVE Spec => []DeliveryInv
<1>1. Init => DeliveryInv
  BY DEF Init, DeliveryInv, CompletedIsDelivered, Progress, NoRow, VideoRow, BothRows,
         NoVersion, VideoVersion, VideoStored, ThumbStored
<1>2. ASSUME TypeOK, LockInv, QueueInv, WorkInv, DeliveryInv, [Next]_vars
      PROVE  DeliveryInv'
  <2>1. CompletedIsDelivered'
    BY <1>2, DeliveredKept DEF CompletedIsDelivered
  <2>2. \A w \in Workers : Progress(w)'
    BY <1>2, ProgressKept
  <2> QED BY <2>1, <2>2 DEF DeliveryInv
<1>3. TypeOK /\ LockInv /\ QueueInv /\ WorkInv /\ DeliveryInv /\ [Next]_vars
        => DeliveryInv'
  BY <1>2
<1>4. (Spec => []LockInv) /\ (Spec => []QueueInv) /\ (Spec => []WorkInv)
  BY LockInvHolds, QueueInvHolds, WorkInvHolds
<1> QED BY <1>1, <1>3, <1>4, TypeCorrect, PTL DEF Spec

(* A COMPLETED job has exactly the artifacts of one run, all of them in      *)
(* storage, after any number of retries, crashes and stalls, even when the   *)
(* createVideoJob call believes that its add failed.                         *)
THEOREM CompletedJobsDelivered ==
    ASSUME "lostLock" \notin Faults PROVE Spec => []CompletedIsDelivered
<1>1. DeliveryInv => CompletedIsDelivered
  BY DEF DeliveryInv
<1>2. Spec => []DeliveryInv
  BY DeliveryInvHolds
<1> QED BY <1>1, <1>2, PTL

----------------------------------------------------------------------------
(* Without crashes of the worker, lost locks and lost replies.  What a job    *)
(* leaves at rest, and whether it is delivered or refunded.                  *)

LEMMA CalmCases ==
    ASSUME Faults \subseteq {"apiCrash", "dbError"}, Next
    PROVE  \/ \E j \in Jobs : \/ CreateCommit(j) \/ AddSucceeds(j) \/ AddFails(j)
                              \/ MarkQueued(j) \/ Promote(j) \/ StalledCheck(j)
           \/ \E c \in Cancels : CancelRemove(c) \/ \E j \in Jobs : CancelRead(c, j)
           \/ \E a \in Requests : \/ TxUpdate(a) \/ RefundFind(a) \/ TxCommit(a)
                                  \/ ApiCrash(a)
           \/ \E w \in Workers : \/ InsideStep(w) \/ Acknowledge(w) \/ Reject(w)
                                 \/ \E j \in Jobs : Take(w, j)
BY DEF Next, CreateStep, TxStep, HandlerStep, InsideStep, WorkerCrash, LockLost

(* A step inside one handler leaves the others where they are. *)
LEMMA InsideOthers ==
    ASSUME TypeOK, NEW w \in Workers, InsideStep(w), NEW v \in Workers, v # w
    PROVE  pc'[v] = pc[v] /\ err'[v] = err[v]
<1>1. pc'[v] = pc[v]
  BY InsideMoves DEF TypeOK
<1>2. err'[v] = err[v]
  BY DEF InsideStep, TryStep, CatchStep, HandleRead, EnsureJobNotCancelled, CleanBeforeRun,
         SetProcessing, ProviderAnswers, Upload, CreateAsset, CreateVersion, Complete,
         StageFails, Rollback, CatchCleanup, Requeue, Fail, RefundCheck, RefundWrite,
         LogFailed, CatchFails, TypeOK
<1> QED BY <1>1, <1>2

(* Objects without a version are those of the run in progress. *)
Running == (TryStages \ {"check1", "clean"}) \cup {"rollback"}

Tidy(j) ==
    \/ objects[j] \subseteq versions[j]
    \/ \E w \in Workers : /\ on[w] = j
                          /\ pc[w] \in Running
                          /\ objects[j] \subseteq versions[j] \cup UploadedKeys(w)

TidyInv == \A j \in Jobs : Tidy(j)

LEMMA AfterRuns ==
    ASSUME NEW s \in TryStages, s \notin {"check1", "complete"}
    PROVE  After(s) \in Running
BY DEF After, Running, TryStages, CheckStages, ProcessingStages, UploadStages, AssetStages,
       VersionStages

LEMMA TidyFrame ==
    ASSUME NEW j, Tidy(j), objects'[j] = objects[j], versions'[j] = versions[j],
           \A w \in Workers : on[w] = j /\ pc[w] \in Running =>
              pc'[w] = pc[w] /\ on'[w] = on[w] /\ run'[w] = run[w]
    PROVE  Tidy(j)'
BY DEF Tidy, UploadedKeys

LEMMA TidyStep ==
    ASSUME TypeOK, LockInv, DeliveryInv, TidyInv, NEW w \in Workers, InsideStep(w),
           NEW j \in Jobs, on[w] = j
    PROVE  Tidy(j)'
<1>0. /\ on'[w] = on[w] /\ run'[w] = run[w] /\ on' = on
      /\ UploadedKeys(w)' = UploadedKeys(w)
  BY InsideMoves DEF UploadedKeys
<1>1. \/ objects[j] \subseteq versions[j]
      \/ pc[w] \in Running /\ objects[j] \subseteq versions[j] \cup UploadedKeys(w)
  BY InsideMoves, HandledJob DEF TidyInv, Tidy
<1>2. ASSUME objects'[j] \subseteq versions'[j] PROVE Tidy(j)'
  BY <1>0, <1>2 DEF Tidy
<1>3. ASSUME pc'[w] \in Running, objects'[j] \subseteq versions'[j] \cup UploadedKeys(w)
      PROVE  Tidy(j)'
  BY <1>0, <1>3 DEF Tidy
<1>4. CASE Rollback(w)
  <2>1. /\ objects'[j] = objects[j] \ UploadedKeys(w) /\ versions' = versions
    BY <1>4 DEF Rollback, TypeOK
  <2> QED BY <1>1, <1>2, <2>1
<1>5. CASE CleanBeforeRun(w) \/ CatchCleanup(w)
  <2>1. /\ objects'[j] = objects[j] \ versions[j]
        /\ pc[w] \in {"clean", "cancelCleanup", "finalCleanup"}
    BY <1>5 DEF CleanBeforeRun, CatchCleanup, CleanupOutputArtifacts, TypeOK
  <2>2. pc[w] \notin Running
    BY <2>1 DEF Running, TryStages, CheckStages, ProcessingStages, UploadStages,
                AssetStages, VersionStages
  <2> QED BY <1>1, <1>2, <2>1, <2>2
<1>6. CASE Upload(w)
  <2>1. /\ objects'[j] = objects[j] \cup {Output(pc[w], run[w])} /\ versions' = versions
        /\ pc[w] \in TryStages /\ pc[w] \notin {"check1", "complete"}
        /\ pc'[w] = After(pc[w])
    BY <1>6 DEF Upload, Goto, UploadStages, TryStages, TypeOK
  <2>2. Output(pc[w], run[w]) \in UploadedKeys(w)
    BY DEF Output, UploadedKeys
  <2> QED BY <1>1, <1>3, <2>1, <2>2, AfterRuns
<1>7. CASE SetProcessing(w) \/ CreateAsset(w) \/ CreateVersion(w)
  <2>1. /\ objects' = objects /\ versions[j] \subseteq versions'[j]
        /\ pc[w] \in TryStages /\ pc[w] \notin {"check1", "complete"}
        /\ pc'[w] = After(pc[w])
    BY <1>7 DEF SetProcessing, CreateAsset, CreateVersion, Goto, ProcessingStages,
                AssetStages, VersionStages, TryStages, TypeOK
  <2> QED BY <1>1, <1>3, <2>1, AfterRuns
<1>8. CASE ProviderAnswers(w)
  <2>1. objects' = objects /\ versions' = versions /\ pc'[w] = "p60"
    BY <1>8 DEF ProviderAnswers, Goto, dbVars, TypeOK
  <2>2. "p60" \in Running
    BY DEF Running, TryStages, ProcessingStages
  <2> QED BY <1>1, <1>3, <2>1, <2>2
<1>9. CASE StageFails(w)
  <2>1. objects' = objects /\ versions' = versions /\ pc'[w] = "rollback"
    BY <1>9 DEF StageFails, Goto, dbVars, TypeOK
  <2> QED BY <1>1, <1>3, <2>1 DEF Running
<1>10. CASE EnsureJobNotCancelled(w)
  <2>1. objects' = objects /\ versions' = versions
    BY <1>10 DEF EnsureJobNotCancelled, dbVars
  <2>2. CASE pc[w] = "check1"
    <3>1. pc[w] \notin Running
      BY <2>2 DEF Running
    <3> QED BY <1>1, <1>2, <2>1, <3>1
  <2>3. CASE pc[w] # "check1"
    <3>1. pc[w] \in TryStages /\ pc[w] \notin {"check1", "complete"}
          /\ pc'[w] \in {"rollback", After(pc[w])}
      BY <1>10, <2>3 DEF EnsureJobNotCancelled, Goto, CheckStages, TryStages, TypeOK
    <3>2. pc'[w] \in Running
      BY <3>1, AfterRuns DEF Running
    <3> QED BY <1>1, <1>3, <2>1, <3>2
  <2> QED BY <2>2, <2>3
<1>11. CASE Complete(w)
  <2>1. objects' = objects /\ versions' = versions /\ pc[w] = "complete" /\ Progress(w)
    BY <1>11 DEF Complete, DeliveryInv
  <2>2. versions[j] = UploadedKeys(w)
    BY <2>1 DEF Progress, UploadedKeys
  <2> QED BY <1>1, <1>2, <2>1, <2>2
<1>12. CASE \/ HandleRead(w) \/ Requeue(w) \/ Fail(w) \/ RefundCheck(w) \/ RefundWrite(w)
            \/ LogFailed(w) \/ CatchFails(w)
  <2>1. objects' = objects /\ versions' = versions
    BY <1>12 DEF HandleRead, Requeue, Fail, RefundCheck, RefundWrite, LogFailed, CatchFails,
                 dbVars
  <2>2. pc[w] \in {"read"} \cup (CatchStages \ {"rollback"})
    BY <1>12 DEF HandleRead, Requeue, Fail, RefundCheck, RefundWrite, LogFailed, CatchFails,
                 CatchStages
  <2>3. pc[w] \notin Running
    BY <2>2 DEF CatchStages, Running, TryStages, CheckStages, ProcessingStages,
                UploadStages, AssetStages, VersionStages
  <2> QED BY <1>1, <1>2, <2>1, <2>3
<1> QED
  BY <1>4, <1>5, <1>6, <1>7, <1>8, <1>9, <1>10, <1>11, <1>12
     DEF InsideStep, TryStep, CatchStep

LEMMA TidyInvHolds ==
    ASSUME Faults \subseteq {"apiCrash", "dbError"} PROVE Spec => []TidyInv
<1>1. Init => TidyInv
  BY DEF Init, TidyInv, Tidy
<1>2. ASSUME TypeOK, LockInv, DeliveryInv, TidyInv, [Next]_vars, NEW j \in Jobs
      PROVE  Tidy(j)'
  <2>0. Tidy(j)
    BY <1>2 DEF TidyInv
  <2>1. CASE UNCHANGED <<objects, versions, pc, on, run>>
    BY <2>0, <2>1, TidyFrame
  <2>2. ASSUME NEW w \in Workers, InsideStep(w) PROVE Tidy(j)'
    <3>1. CASE on[w] = j
      BY <1>2, <2>2, <3>1, TidyStep
    <3>2. CASE on[w] # j
      <4>1. objects'[j] = objects[j] /\ versions'[j] = versions[j]
        BY <1>2, <2>2, <3>2, InsideArtifacts
      <4>2. UNCHANGED <<on, run>> /\ \A v \in Workers : v # w => pc'[v] = pc[v]
        BY <1>2, <2>2, InsideMoves, InsideOthers
      <4> QED BY <2>0, <3>2, <4>1, <4>2, TidyFrame
    <3> QED BY <3>1, <3>2
  <2>3. ASSUME NEW w \in Workers,
               Acknowledge(w) \/ Reject(w) \/ \E i \in Jobs : Take(w, i)
        PROVE  Tidy(j)'
    <3>1. UNCHANGED <<objects, versions>>
      BY <2>3 DEF Acknowledge, Reject, Take, dbVars
    <3>2. pc[w] \notin Running
      BY <2>3 DEF Acknowledge, Reject, Take, Running, TryStages, CheckStages,
                  ProcessingStages, UploadStages, AssetStages, VersionStages
    <3>3. \A v \in Workers : v # w => pc'[v] = pc[v] /\ on'[v] = on[v] /\ run'[v] = run[v]
      BY <1>2, <2>3 DEF Acknowledge, Reject, Take, Release, TypeOK
    <3> QED BY <2>0, <3>1, <3>2, <3>3, TidyFrame
  <2> QED
    BY <1>2, <2>1, <2>2, <2>3, CalmCases
       DEF vars, CreateCommit, AddSucceeds, AddFails, MarkQueued, Promote, StalledCheck,
           CancelRemove, CancelRead, TxUpdate, RefundFind, TxCommit, ApiCrash, dbVars, workVars
<1>3. TypeOK /\ LockInv /\ DeliveryInv /\ TidyInv /\ [Next]_vars => TidyInv'
  BY <1>2 DEF TidyInv
<1>4. (Spec => []LockInv) /\ (Spec => []DeliveryInv)
  BY LockInvHolds, DeliveryInvHolds
<1> QED BY <1>1, <1>3, <1>4, TypeCorrect, PTL DEF Spec

(* Cancellations.  A job is CANCELLED, taken out of the queue before it is    *)
(* QUEUED, or given up by its handler, only because a user asked to.         *)
AskInv ==
    /\ \A j \in Jobs : status[j] = "CANCELLED" => AskedToCancel(j)
    /\ \A j \in Jobs : bull[j] = "absent" /\ step[j] = "markQueued" => AskedToCancel(j)
    /\ \A w \in Workers : pc[w] # "idle" /\ err[w] = "cancelled" => AskedToCancel(on[w])

LEMMA CancelledBy ==
    ASSUME TypeOK, [Next]_vars, NEW j \in Jobs,
           status[j] # "CANCELLED", status'[j] = "CANCELLED"
    PROVE  \E c \in Cancels : TxCommit(c) /\ target[c] = j
<1>1. ASSUME UNCHANGED status PROVE FALSE
  BY <1>1
<1>2. ASSUME NEW i \in Jobs, CreateCommit(i) \/ MarkQueued(i) PROVE FALSE
  BY <1>2 DEF CreateCommit, MarkQueued, SetStatus, TypeOK
<1>3. ASSUME NEW a \in Requests, TxCommit(a) PROVE a \in Cancels /\ target[a] = j
  BY <1>3 DEF TxCommit, Verdict, TypeOK
<1>4. ASSUME NEW w \in Workers, InsideStep(w) PROVE FALSE
  <2>1. CASE \E s \in {"PROCESSING", "QUEUED", "FAILED", "COMPLETED"} :
               status' = [status EXCEPT ![on[w]] = s]
    BY <2>1 DEF TypeOK
  <2> QED BY <1>1, <1>4, <2>1, InsideStatus DEF Complete, Fail, SetStatus
<1> QED
  BY <1>1, <1>2, <1>3, <1>4
     DEF Next, CreateStep, TxStep, HandlerStep, InsideStep, vars, AddSucceeds, AddFails,
         Promote, StalledCheck, CancelRemove, CancelRead, TxUpdate, RefundFind, ApiCrash,
         Take, Acknowledge, Reject, WorkerCrash, LockLost, DropLock, dbVars

(* What a step inside a handler catches. *)
LEMMA InsideCaught ==
    ASSUME TypeOK, NEW w \in Workers, InsideStep(w)
    PROVE  \/ err' = err
           \/ err'[w] \in {"retryable", "fatal"} /\ pc'[w] = "rollback"
           \/ err'[w] = "cancelled" /\ pc'[w] = "rollback" /\ status[on[w]] = "CANCELLED"
<1>1. CASE EnsureJobNotCancelled(w) \/ StageFails(w)
  BY <1>1 DEF EnsureJobNotCancelled, StageFails, Goto, TypeOK
<1> QED
  BY <1>1
     DEF InsideStep, TryStep, CatchStep, HandleRead, CleanBeforeRun, SetProcessing,
         ProviderAnswers, Upload, CreateAsset, CreateVersion, Complete, Rollback,
         CatchCleanup, Requeue, Fail, RefundCheck, RefundWrite, LogFailed, CatchFails

LEMMA AskInvHolds ==
    ASSUME Faults \subseteq {"apiCrash", "dbError"} PROVE Spec => []AskInv
<1>1. Init => AskInv
  BY DEF Init, AskInv, Requests
<1>2. ASSUME TypeOK, LockInv, QueueInv, AskInv, [Next]_vars PROVE AskInv'
  <2>1. ASSUME NEW j \in Jobs, status'[j] = "CANCELLED" PROVE AskedToCancel(j)'
    <3>1. CASE status[j] = "CANCELLED"
      BY <1>2, <3>1, AskedStays DEF AskInv
    <3>2. CASE status[j] # "CANCELLED"
      <4>1. PICK c \in Cancels : TxCommit(c) /\ target[c] = j
        BY <1>2, <2>1, <3>2, CancelledBy
      <4> QED BY <4>1 DEF TxCommit, AskedToCancel
    <3> QED BY <3>1, <3>2
  <2>2. ASSUME NEW j \in Jobs, bull'[j] = "absent", step'[j] = "markQueued"
        PROVE  AskedToCancel(j)'
    <3>1. CASE bull[j] = "absent" /\ step[j] = "markQueued"
      BY <1>2, <3>1, AskedStays DEF AskInv
    <3>2. ASSUME NEW i \in Jobs,
                 \/ CreateCommit(i) \/ AddSucceeds(i) \/ AddFails(i)
                 \/ MarkQueued(i) \/ Promote(i) \/ StalledCheck(i)
          PROVE  AskedToCancel(j)'
      <4>1. bull[j] = "absent" /\ step[j] = "markQueued"
        BY <1>2, <2>2, <3>2 DEF CreateCommit, AddSucceeds, AddFails, MarkQueued, Promote,
             StalledCheck, TypeOK, Requests, queueVars, apiVars
      <4> QED BY <3>1, <4>1
    <3>3. ASSUME NEW c \in Cancels, CancelRemove(c) PROVE AskedToCancel(j)'
      <4>1. step[j] = "markQueued"
        BY <1>2, <2>2, <3>3, RequestsAssumption DEF CancelRemove, TypeOK, Requests
      <4>2. CASE target[c] = j
        BY <3>3, <4>2 DEF CancelRemove, AskedToCancel
      <4>3. CASE target[c] # j
        BY <1>2, <2>2, <3>1, <3>3, <4>1, <4>3 DEF CancelRemove, TypeOK
      <4> QED BY <4>2, <4>3
    <3>4. ASSUME NEW a \in Requests, \/ TxUpdate(a) \/ RefundFind(a) \/ TxCommit(a) \/ ApiCrash(a)
                                     \/ \E i \in Jobs : CancelRead(a, i)
          PROVE  AskedToCancel(j)'
      <4>1. /\ bull' = bull
            /\ \E s \in {"find", "refund", "plain", "done", "remove"} :
                 step' = [step EXCEPT ![a] = s]
        BY <3>4 DEF TxUpdate, RefundFind, TxCommit, ApiCrash, CancelRead, queueVars
      <4>2. step[j] = "markQueued"
        BY <1>2, <2>2, <4>1 DEF TypeOK, Requests
      <4> QED BY <2>2, <3>1, <4>1, <4>2
    <3>5. ASSUME NEW w \in Workers,
                 \/ InsideStep(w) \/ Acknowledge(w) \/ Reject(w)
                 \/ \E i \in Jobs : Take(w, i)
          PROVE  AskedToCancel(j)'
      <4>1. step' = step
        BY <3>5, InsideMoves DEF Acknowledge, Reject, Take, apiVars
      <4>2. bull[j] = "absent"
        BY <1>2, <2>2, <3>5, InsideMoves DEF Acknowledge, Reject, Take, queueVars, TypeOK
      <4> QED BY <2>2, <3>1, <4>1, <4>2
    <3>6. CASE UNCHANGED vars
      BY <2>2, <3>1, <3>6 DEF vars, apiVars, queueVars
    <3> QED BY <1>2, <3>2, <3>3, <3>4, <3>5, <3>6, CalmCases DEF Requests
  <2>3. ASSUME NEW w \in Workers, pc'[w] # "idle", err'[w] = "cancelled"
        PROVE  AskedToCancel(on[w])'
    <3>1. CASE pc[w] # "idle" /\ err[w] = "cancelled" /\ on'[w] = on[w]
      <4>. PICK j \in Jobs : j = on[w]
        BY <1>2, <3>1, HandledJob
      <4>1. AskedToCancel(j)'
        BY <1>2, <3>1, AskedStays DEF AskInv
      <4> QED BY <3>1, <4>1 DEF AskedToCancel
    <3>2. ASSUME NEW v \in Workers, InsideStep(v) PROVE AskedToCancel(on[w])'
      <4>1. on' = on /\ pc[v] # "idle" /\ on[v] \in Jobs
        BY <1>2, <3>2, InsideMoves, HandledJob
      <4>2. CASE v = w
        <5>1. CASE err'[w] = err[w]
          BY <2>3, <3>1, <4>1, <4>2, <5>1
        <5>2. CASE status[on[w]] = "CANCELLED"
          BY <1>2, <4>1, <4>2, <5>2, AskedStays DEF AskInv, AskedToCancel
        <5> QED BY <1>2, <2>3, <3>2, <4>2, <5>1, <5>2, InsideCaught
      <4>3. CASE v # w
        BY <1>2, <2>3, <3>1, <3>2, <4>1, <4>3, InsideOthers
      <4> QED BY <4>2, <4>3
    <3>3. ASSUME NEW v \in Workers,
                 Acknowledge(v) \/ Reject(v) \/ \E i \in Jobs : Take(v, i)
          PROVE  AskedToCancel(on[w])'
      <4>1. v # w
        BY <1>2, <2>3, <3>3 DEF Acknowledge, Reject, Take, Release, TypeOK
      <4>2. pc'[w] = pc[w] /\ err'[w] = err[w] /\ on'[w] = on[w]
        BY <1>2, <3>3, <4>1 DEF Acknowledge, Reject, Take, Release, TypeOK
      <4> QED BY <2>3, <3>1, <4>2
    <3>4. CASE UNCHANGED workVars
      BY <2>3, <3>1, <3>4 DEF workVars
    <3> QED
      BY <1>2, <3>2, <3>3, <3>4, CalmCases
         DEF vars, CreateCommit, AddSucceeds, AddFails, MarkQueued, Promote, StalledCheck,
             CancelRemove, CancelRead, TxUpdate, RefundFind, TxCommit,
             ApiCrash
  <2> QED BY <2>1, <2>2, <2>3 DEF AskInv
<1>3. TypeOK /\ LockInv /\ QueueInv /\ AskInv /\ [Next]_vars => AskInv'
  BY <1>2
<1>4. (Spec => []LockInv) /\ (Spec => []QueueInv)
  BY LockInvHolds, QueueInvHolds
<1> QED BY <1>1, <1>3, <1>4, TypeCorrect, PTL DEF Spec

(* The branch of the catch block a handler is in is that of its attempt, and  *)
(* the final branch has emptied the job.                                     *)
FinalStages == {"fail", "refundCheck", "refundWrite", "logFailed"}

LastAttempt(w) == attempt[w] + 1 >= MaxAttempts

Catch(w) ==
    /\ pc[w] \in FinalStages \cup {"finalCleanup"} => IsFinalAttempt(w)
    /\ pc[w] = "requeue" => ~IsFinalAttempt(w)
    /\ pc[w] \in FinalStages => rows[on[w]] = {}
    /\ pc[w] # "idle" => attempt[w] = tries[on[w]]

CatchInv == \A w \in Workers : Catch(w)

LEMMA CatchFrame ==
    ASSUME NEW w, Catch(w), pc'[w] = pc[w], on'[w] = on[w], err'[w] = err[w],
           attempt'[w] = attempt[w],
           pc[w] # "idle" => rows'[on[w]] = rows[on[w]] /\ tries'[on[w]] = tries[on[w]]
    PROVE  Catch(w)'
BY DEF Catch, IsFinalAttempt, FinalStages

LEMMA CatchOwnStep ==
    ASSUME TypeOK, LockInv, CatchInv, NEW w \in Workers, InsideStep(w)
    PROVE  Catch(w)'
<1>. PICK j \in Jobs : j = on[w]
  BY InsideMoves, HandledJob
<1>0. /\ on'[w] = on[w] /\ attempt' = attempt /\ tries' = tries
      /\ attempt[w] = tries[j] /\ Catch(w)
  BY InsideMoves DEF queueVars, CatchInv, Catch
<1>1. ASSUME pc'[w] \notin FinalStages \cup {"finalCleanup", "requeue"} PROVE Catch(w)'
  BY <1>0, <1>1 DEF Catch
<1>2. CASE Rollback(w)
  <2>1. /\ err' = err
        /\ \/ pc'[w] = "cancelCleanup"
           \/ pc'[w] = "finalCleanup" /\ IsFinalAttempt(w)
           \/ pc'[w] = "requeue" /\ ~IsFinalAttempt(w)
    BY <1>2 DEF Rollback, Goto, TypeOK
  <2> QED BY <1>0, <2>1 DEF Catch, IsFinalAttempt, FinalStages
<1>3. CASE CatchCleanup(w)
  <2>1. /\ err' = err /\ rows'[j] = {}
        /\ \/ pc'[w] = "return"
           \/ pc'[w] = "fail" /\ pc[w] = "finalCleanup"
    BY <1>3 DEF CatchCleanup, CleanupOutputArtifacts, Goto, TypeOK
  <2> QED BY <1>0, <2>1 DEF Catch, IsFinalAttempt, FinalStages
<1>4. CASE Fail(w) \/ RefundCheck(w) \/ RefundWrite(w) \/ LogFailed(w)
  <2>1. /\ err' = err /\ rows' = rows /\ pc[w] \in FinalStages
        /\ pc'[w] \in {"refundCheck", "refundWrite", "logFailed", "return", "throw"}
    BY <1>4 DEF Fail, RefundCheck, RefundWrite, LogFailed, Goto, dbVars, FinalStages, TypeOK
  <2> QED BY <1>0, <2>1 DEF Catch, IsFinalAttempt, FinalStages
<1>5. CASE ~Rollback(w) /\ ~CatchCleanup(w) /\ ~Fail(w) /\ ~RefundCheck(w)
           /\ ~RefundWrite(w) /\ ~LogFailed(w)
  <2> DEFINE S == TryStages \cup {"return", "throw", "check1", "p5", "p60", "rollback"}
  <2>1. \E s \in S : pc' = [pc EXCEPT ![w] = s]
    BY <1>5, AfterIsTryStage
       DEF InsideStep, TryStep, CatchStep, HandleRead, EnsureJobNotCancelled, CleanBeforeRun,
           SetProcessing, ProviderAnswers, Upload, CreateAsset, CreateVersion, Complete,
           StageFails, Requeue, CatchFails, Goto
  <2>2. S \cap (FinalStages \cup {"finalCleanup", "requeue"}) = {}
    BY DEF FinalStages, TryStages, CheckStages, ProcessingStages, UploadStages, AssetStages,
           VersionStages
  <2> HIDE DEF S
  <2>3. pc'[w] \in S
    BY <2>1 DEF TypeOK
  <2> QED BY <1>1, <2>2, <2>3
<1> QED BY <1>2, <1>3, <1>4, <1>5

LEMMA CatchInvHolds ==
    ASSUME Faults \subseteq {"apiCrash", "dbError"} PROVE Spec => []CatchInv
<1>1. Init => CatchInv
  BY DEF Init, CatchInv, Catch, FinalStages
<1>2. ASSUME TypeOK, LockInv, CatchInv, [Next]_vars, NEW w \in Workers PROVE Catch(w)'
  <2>0. Catch(w)
    BY <1>2 DEF CatchInv
  <2>1. CASE UNCHANGED <<workVars, rows, tries>>
    BY <2>0, <2>1, CatchFrame DEF workVars
  <2>2. ASSUME NEW v \in Workers, InsideStep(v) PROVE Catch(w)'
    <3>1. CASE v = w
      BY <1>2, <2>2, <3>1, CatchOwnStep
    <3>2. CASE v # w
      <4>1. pc'[w] = pc[w] /\ err'[w] = err[w]
        BY <1>2, <2>2, <3>2, InsideOthers
      <4>2. UNCHANGED <<on, attempt, tries>>
        BY <2>2, InsideMoves DEF queueVars
      <4>3. pc[w] # "idle" => on[w] \in Jobs /\ on[w] # on[v]
        BY <1>2, <3>2, HandledJob
      <4>4. pc[w] # "idle" => rows'[on[w]] = rows[on[w]]
        BY <1>2, <2>2, <4>3, InsideArtifacts
      <4> QED BY <2>0, <4>1, <4>2, <4>4, CatchFrame
    <3> QED BY <3>1, <3>2
  <2>3. ASSUME NEW v \in Workers, NEW j \in Jobs, Take(v, j) PROVE Catch(w)'
    <3>1. rows' = rows /\ tries' = tries
      BY <2>3 DEF Take, dbVars
    <3>2. CASE v = w
      <4>1. pc'[w] = "read" /\ on'[w] = j /\ attempt'[w] = tries[j]
        BY <1>2, <2>3, <3>2 DEF Take, TypeOK
      <4> QED BY <3>1, <4>1 DEF Catch, FinalStages
    <3>3. CASE v # w
      <4>1. pc'[w] = pc[w] /\ on'[w] = on[w] /\ err'[w] = err[w] /\ attempt'[w] = attempt[w]
        BY <1>2, <2>3, <3>3 DEF Take, TypeOK
      <4> QED BY <2>0, <3>1, <4>1, CatchFrame
    <3> QED BY <3>2, <3>3
  <2>4. ASSUME NEW v \in Workers, Acknowledge(v) \/ Reject(v) PROVE Catch(w)'
    <3>1. UNCHANGED <<rows, attempt, err>>
      BY <2>4 DEF Acknowledge, Reject, dbVars
    <3>2. CASE v = w
      <4>1. pc'[w] = "idle"
        BY <1>2, <2>4, <3>2 DEF Acknowledge, Reject, Release, TypeOK
      <4> QED BY <4>1 DEF Catch, FinalStages
    <3>3. CASE v # w
      <4>1. pc'[w] = pc[w] /\ on'[w] = on[w]
        BY <1>2, <2>4, <3>3 DEF Acknowledge, Reject, Release, TypeOK
      <4>2. pc[w] # "idle" => on[w] \in Jobs /\ on[w] # on[v]
        BY <1>2, <3>3, HandledJob
      <4>3. pc[w] # "idle" => tries'[on[w]] = tries[on[w]]
        BY <1>2, <2>4, <4>2 DEF Acknowledge, Reject, TypeOK
      <4> QED BY <2>0, <3>1, <4>1, <4>3, CatchFrame
    <3> QED BY <3>2, <3>3
  <2> QED
    BY <1>2, <2>1, <2>2, <2>3, <2>4, CalmCases
       DEF vars, CreateCommit, AddSucceeds, AddFails, MarkQueued, Promote, StalledCheck,
           CancelRemove, CancelRead, TxUpdate, RefundFind, TxCommit, ApiCrash, dbVars, queueVars
<1>3. TypeOK /\ LockInv /\ CatchInv /\ [Next]_vars => CatchInv'
  BY <1>2 DEF CatchInv
<1>4. Spec => []LockInv
  BY LockInvHolds
<1> QED BY <1>1, <1>3, <1>4, TypeCorrect, PTL DEF Spec

(* A job whose call is still before the queue has no rows; one that is FAILED *)
(* has none either, and nobody who could create one before writing PROCESSING. *)
Producing == TryStages \ {"check1", "clean", "p5"}

Empty(j) ==
    /\ step[j] \in Unqueued => rows[j] = {}
    /\ status[j] = "FAILED" =>
          /\ rows[j] = {}
          /\ \A w \in Workers : on[w] = j => pc[w] \notin Producing

EmptyInv == \A j \in Jobs : Empty(j)

LEMMA EmptyStep ==
    ASSUME TypeOK, NEW w \in Workers, InsideStep(w), pc[w] \notin Producing
    PROVE  \/ SetProcessing(w)
           \/ /\ pc'[w] \notin Producing
              /\ UNCHANGED rows \/ rows' = [rows EXCEPT ![on[w]] = {}]
<1> DEFINE Still == {"check1", "clean", "p5", "return", "throw"} \cup CatchStages
<1>0. Still \cap Producing = {}
  BY DEF Producing, CatchStages, TryStages, CheckStages, ProcessingStages, UploadStages,
         AssetStages, VersionStages
<1>1. CASE EnsureJobNotCancelled(w)
  <2>1. pc[w] = "check1" /\ rows' = rows
    BY <1>1 DEF EnsureJobNotCancelled, CheckStages, Producing, TryStages, dbVars
  <2>2. pc'[w] \in {"rollback", "clean"}
    BY <1>1, <2>1 DEF EnsureJobNotCancelled, Goto, After, TypeOK
  <2> QED BY <1>0, <2>1, <2>2 DEF CatchStages
<1>2. CASE CleanBeforeRun(w) \/ CatchCleanup(w)
  <2>1. rows' = [rows EXCEPT ![on[w]] = {}] /\ pc'[w] \in {"p5", "return", "fail"}
    BY <1>2 DEF CleanBeforeRun, CatchCleanup, CleanupOutputArtifacts, Goto, TypeOK
  <2> QED BY <1>0, <2>1 DEF CatchStages
<1>3. CASE ProviderAnswers(w) \/ Upload(w) \/ CreateAsset(w) \/ CreateVersion(w) \/ Complete(w)
  BY <1>3 DEF ProviderAnswers, Upload, CreateAsset, CreateVersion, Complete, Producing,
              TryStages, UploadStages, AssetStages, VersionStages
<1>4. CASE \/ HandleRead(w) \/ StageFails(w) \/ Rollback(w) \/ Requeue(w) \/ Fail(w)
           \/ RefundCheck(w) \/ RefundWrite(w) \/ LogFailed(w) \/ CatchFails(w)
  <2>1. rows' = rows
    BY <1>4 DEF HandleRead, StageFails, Rollback, Requeue, Fail, RefundCheck, RefundWrite,
                LogFailed, CatchFails, dbVars
  <2>2. pc'[w] \in {"return", "check1", "throw", "rollback", "cancelCleanup", "finalCleanup",
                    "requeue", "refundCheck", "refundWrite", "logFailed"}
    BY <1>4 DEF HandleRead, StageFails, Rollback, Requeue, Fail, RefundCheck, RefundWrite,
                LogFailed, CatchFails, Goto, TypeOK
  <2> QED BY <1>0, <2>1, <2>2 DEF CatchStages
<1> QED BY <1>1, <1>2, <1>3, <1>4 DEF InsideStep, TryStep, CatchStep

LEMMA EmptyKept ==
    ASSUME Faults \subseteq {"apiCrash", "dbError"}, RefundInv, LockInv, FailInv, CatchInv,
           EmptyInv, [Next]_vars, NEW j \in Jobs
    PROVE  Empty(j)'
<1>0. TypeOK /\ Empty(j)
  BY DEF RefundInv, EmptyInv
<1>1. ASSUME step[j] \in Unqueued, NEW w \in Workers PROVE on[w] # j
  <2>1. pc[w] = "idle" => on[w] = None
    BY DEF LockInv, OneHandler
  <2> QED BY <1>0, <1>1, <2>1, HandledJob, NoneAssumption DEF FailInv, AddRefused
<1>2. ASSUME step'[j] \in Unqueued PROVE rows'[j] = {}
  <2>1. step[j] \in Unqueued /\ rows[j] = {}
    BY <1>0, <1>2, UnqueuedBefore DEF Empty
  <2>2. ASSUME NEW w \in Workers, InsideStep(w) PROVE rows'[j] = rows[j]
    BY <1>0, <1>1, <2>1, <2>2, InsideArtifacts
  <2> QED BY <2>1, <2>2, ArtifactsBy DEF Artifacts
<1> DEFINE Ok == rows'[j] = {} /\ \A w \in Workers : on'[w] = j => pc'[w] \notin Producing
<1>3. ASSUME status[j] # "FAILED", status'[j] = "FAILED" PROVE Ok
  <2>1. ASSUME TxCommit(j) PROVE Ok
    <3>1. step[j] \in Unqueued /\ UNCHANGED <<rows, on>>
      BY <2>1 DEF TxCommit, Unqueued, workVars
    <3> QED BY <1>0, <1>1, <3>1 DEF Empty
  <2>2. ASSUME NEW w \in Workers, Fail(w), on[w] = j PROVE Ok
    <3>1. /\ UNCHANGED <<rows, on>> /\ pc[w] \in FinalStages /\ pc[w] # "idle"
          /\ pc'[w] = "refundCheck"
      BY <1>0, <2>2 DEF Fail, Goto, FinalStages, TypeOK
    <3>2. rows[j] = {} /\ \A v \in Workers : v # w => on[v] # j
      BY <1>0, <2>2, <3>1, HandledJob DEF CatchInv, Catch
    <3>3. "refundCheck" \notin Producing
      BY DEF Producing, TryStages, CheckStages, ProcessingStages, UploadStages,
             AssetStages, VersionStages
    <3> QED BY <3>1, <3>2, <3>3
  <2> QED BY <1>0, <1>3, <2>1, <2>2, FailedBy
<1>4. ASSUME status[j] = "FAILED", status'[j] = "FAILED" PROVE Ok
  <2>0. rows[j] = {} /\ \A w \in Workers : on[w] = j => pc[w] \notin Producing
    BY <1>0, <1>4 DEF Empty
  <2>1. CASE UNCHANGED <<rows, on, pc>>
    BY <2>0, <2>1
  <2>2. ASSUME NEW w \in Workers, InsideStep(w) PROVE Ok
    <3>1. on' = on /\ \A v \in Workers : v # w => pc'[v] = pc[v]
      BY <1>0, <2>2, InsideMoves, InsideOthers
    <3>2. CASE on[w] # j
      <4>1. rows'[j] = rows[j]
        BY <1>0, <2>2, <3>2, InsideArtifacts
      <4> QED BY <2>0, <3>1, <3>2, <4>1
    <3>3. CASE on[w] = j
      <4>1. ~SetProcessing(w)
        BY <1>0, <1>4, <3>3 DEF SetProcessing, SetStatus, TypeOK
      <4>2. pc'[w] \notin Producing
            /\ (UNCHANGED rows \/ rows' = [rows EXCEPT ![on[w]] = {}])
        BY <1>0, <2>0, <2>2, <3>3, <4>1, EmptyStep
      <4>3. rows'[j] = {}
        BY <1>0, <2>0, <3>3, <4>2 DEF TypeOK
      <4> QED BY <2>0, <3>1, <4>2, <4>3
    <3> QED BY <3>2, <3>3
  <2>3. ASSUME NEW w \in Workers,
               Acknowledge(w) \/ Reject(w) \/ \E i \in Jobs : Take(w, i)
        PROVE  Ok
    <3>1. /\ rows' = rows /\ pc'[w] \in {"idle", "read"}
          /\ \A v \in Workers : v # w => on'[v] = on[v] /\ pc'[v] = pc[v]
      BY <1>0, <2>3 DEF Acknowledge, Reject, Take, Release, dbVars, TypeOK
    <3>2. {"idle", "read"} \cap Producing = {}
      BY DEF Producing, TryStages, CheckStages, ProcessingStages, UploadStages,
             AssetStages, VersionStages
    <3> QED BY <2>0, <3>1, <3>2
  <2> QED
    BY <2>1, <2>2, <2>3, CalmCases
       DEF vars, CreateCommit, AddSucceeds, AddFails, MarkQueued, Promote, StalledCheck,
           CancelRemove, CancelRead, TxUpdate, RefundFind, TxCommit, ApiCrash, dbVars, workVars
<1>5. status'[j] = "FAILED" => Ok
  BY <1>3, <1>4
<1> QED BY <1>2, <1>5 DEF Empty

LEMMA EmptyInvHolds ==
    ASSUME Faults \subseteq {"apiCrash", "dbError"} PROVE Spec => []EmptyInv
<1>1. Init => EmptyInv
  <2> SUFFICES ASSUME Init, NEW j \in Jobs PROVE Empty(j)
    BY DEF EmptyInv
  <2>1. rows[j] = {} /\ status[j] = "ABSENT"
    BY DEF Init
  <2> QED BY <2>1 DEF Empty
<1>2. RefundInv /\ LockInv /\ FailInv /\ CatchInv /\ EmptyInv /\ [Next]_vars => EmptyInv'
  BY EmptyKept DEF EmptyInv
<1>3. (Spec => []LockInv) /\ (Spec => []FailInv) /\ (Spec => []CatchInv)
  BY LockInvHolds, FailInvHolds, CatchInvHolds
<1> QED BY <1>1, <1>2, <1>3, RefundInvHolds, PTL DEF Spec

(* At rest, every output in storage belongs to a recorded version, and a job *)
(* that is FAILED has neither outputs nor asset rows, though the API may     *)
(* crash and the database reject any query of the catch block.               *)
THEOREM NothingIsLeftBehind ==
    ASSUME Faults \subseteq {"apiCrash", "dbError"} PROVE Spec => []NothingLeftBehind
<1>1. TidyInv /\ EmptyInv => NothingLeftBehind
  BY DEF TidyInv, Tidy, EmptyInv, Empty, NothingLeftBehind, Settled
<1>2. (Spec => []TidyInv) /\ (Spec => []EmptyInv)
  BY TidyInvHolds, EmptyInvHolds
<1> QED BY <1>1, <1>2, PTL

(* Nothing stalls: an active job has its handler. *)
HeldInv == \A j \in Jobs : bull[j] = "active" => holder[j] # None

LEMMA HeldInvHolds ==
    ASSUME Faults \subseteq {"apiCrash", "dbError"} PROVE Spec => []HeldInv
<1>1. Init => HeldInv
  BY DEF Init, HeldInv
<1>2. ASSUME TypeOK, LockInv, HeldInv, [Next]_vars PROVE HeldInv'
  <2>1. CASE UNCHANGED <<bull, holder>>
    BY <1>2, <2>1 DEF HeldInv
  <2>2. ASSUME NEW j \in Jobs, AddSucceeds(j) \/ AddFails(j) \/ Promote(j) \/ StalledCheck(j)
        PROVE  HeldInv'
    BY <1>2, <2>2 DEF AddSucceeds, AddFails, Promote, StalledCheck, HeldInv, TypeOK
  <2>3. ASSUME NEW c \in Cancels, CancelRemove(c) PROVE HeldInv'
    BY <1>2, <2>3 DEF CancelRemove, HeldInv, TypeOK
  <2>4. ASSUME NEW w \in Workers, NEW j \in Jobs, Take(w, j) PROVE HeldInv'
    BY <1>2, <2>4, NoneAssumption DEF Take, HeldInv, TypeOK
  <2>5. ASSUME NEW w \in Workers, Acknowledge(w) PROVE HeldInv'
    <3>1. on[w] \in Jobs /\ holder[on[w]] = w
      BY <1>2, <2>5, HandledJob DEF Acknowledge
    <3> QED BY <1>2, <2>5, <3>1 DEF Acknowledge, HeldInv, TypeOK
  <2>6. ASSUME NEW w \in Workers, Reject(w) PROVE HeldInv'
    <3>1. on[w] \in Jobs /\ holder[on[w]] = w
      BY <1>2, <2>6, HandledJob DEF Reject
    <3> QED BY <1>2, <2>6, <3>1 DEF Reject, HeldInv, TypeOK
  <2>7. ASSUME NEW w \in Workers, InsideStep(w) PROVE HeldInv'
    BY <2>1, <2>7, InsideMoves DEF queueVars
  <2> QED
    BY <1>2, <2>1, <2>2, <2>3, <2>4, <2>5, <2>6, <2>7, CalmCases
       DEF vars, CreateCommit, MarkQueued, CancelRead, TxUpdate, RefundFind, TxCommit, ApiCrash, queueVars
<1>3. TypeOK /\ LockInv /\ HeldInv /\ [Next]_vars => HeldInv'
  BY <1>2
<1>4. Spec => []LockInv
  BY LockInvHolds
<1> QED BY <1>1, <1>3, <1>4, TypeCorrect, PTL DEF Spec

(* No run of the job is under way that could still produce anything, and no  *)
(* other will be started.                                                    *)
Ending == {"refundCheck", "refundWrite", "logFailed", "return", "throw"}

NoMoreRuns(j) ==
    /\ rows[j] = {}
    /\ bull[j] \notin {"waiting", "delayed"}
    /\ \A w \in Workers :
          on[w] = j => pc[w] \in Ending /\ (pc[w] = "throw" => LastAttempt(w))

LEMMA EndingStep ==
    ASSUME Faults \subseteq {"apiCrash"}, TypeOK, CatchInv,
           NEW w \in Workers, InsideStep(w), pc[w] \in Ending
    PROVE  /\ rows' = rows
           /\ pc'[w] \in Ending /\ (pc'[w] = "throw" => LastAttempt(w))
<1>1. CASE RefundCheck(w) \/ RefundWrite(w)
  BY <1>1 DEF RefundCheck, RefundWrite, Goto, Ending, dbVars, TypeOK
<1>2. CASE LogFailed(w)
  BY <1>2 DEF LogFailed, Goto, Ending, dbVars, CatchInv, Catch, FinalStages,
              IsFinalAttempt, LastAttempt, TypeOK
<1>3. CASE HandleRead(w) \/ TryStep(w) \/ StageFails(w) \/ Rollback(w) \/ CatchCleanup(w)
           \/ Requeue(w) \/ Fail(w)
  BY <1>3 DEF HandleRead, TryStep, StageFails, EnsureJobNotCancelled, CleanBeforeRun,
              SetProcessing, ProviderAnswers, Upload, CreateAsset, CreateVersion, Complete,
              Rollback, CatchCleanup, Requeue, Fail, Ending, TryStages, CheckStages,
              ProcessingStages, UploadStages, AssetStages, VersionStages
<1> QED BY <1>1, <1>2, <1>3 DEF InsideStep, CatchStep, CatchFails

(* Only the add that createVideoJob has still to do could start one. *)
LEMMA NoMoreRunsKept ==
    ASSUME Faults \subseteq {"apiCrash"}, TypeOK, LockInv, CatchInv, HeldInv, [Next]_vars,
           NEW j \in Jobs, NoMoreRuns(j), step[j] # "add"
    PROVE  NoMoreRuns(j)'
<1>1. ASSUME UNCHANGED <<rows, on, pc, attempt>>, bull'[j] \in {bull[j], "absent", "failed"}
      PROVE  NoMoreRuns(j)'
  BY <1>1 DEF NoMoreRuns, LastAttempt
<1>2. ASSUME NEW i \in Jobs,
             \/ CreateCommit(i) \/ AddSucceeds(i) \/ AddFails(i)
             \/ MarkQueued(i) \/ Promote(i) \/ StalledCheck(i)
      PROVE  NoMoreRuns(j)'
  <2>1. UNCHANGED <<rows, on, pc, attempt>>
    BY <1>2 DEF CreateCommit, AddSucceeds, AddFails, MarkQueued, Promote, StalledCheck,
                dbVars, workVars
  <2>2. bull'[j] = bull[j]
    BY <1>2 DEF CreateCommit, AddSucceeds, AddFails, MarkQueued, Promote, StalledCheck,
                queueVars, NoMoreRuns, HeldInv, TypeOK
  <2> QED BY <1>1, <2>1, <2>2
<1>3. ASSUME NEW c \in Cancels, CancelRemove(c) \/ \E i \in Jobs : CancelRead(c, i)
      PROVE  NoMoreRuns(j)'
  BY <1>1, <1>3 DEF CancelRemove, CancelRead, dbVars, queueVars, workVars, TypeOK
<1>4. ASSUME NEW a \in Requests,
             TxUpdate(a) \/ RefundFind(a) \/ TxCommit(a) \/ ApiCrash(a)
      PROVE  NoMoreRuns(j)'
  BY <1>1, <1>4 DEF TxUpdate, RefundFind, TxCommit, ApiCrash, dbVars, queueVars,
                      workVars
<1>5. ASSUME NEW w \in Workers, NEW i \in Jobs, Take(w, i) PROVE NoMoreRuns(j)'
  <2>1. i # j
    BY <1>5 DEF Take, NoMoreRuns
  <2>2. /\ rows' = rows /\ bull'[j] = bull[j] /\ on'[w] = i
        /\ \A v \in Workers : v # w =>
              on'[v] = on[v] /\ pc'[v] = pc[v] /\ attempt'[v] = attempt[v]
    BY <1>5, <2>1 DEF Take, dbVars, TypeOK
  <2> QED BY <2>1, <2>2 DEF NoMoreRuns, LastAttempt
<1>6. ASSUME NEW w \in Workers, Acknowledge(w) \/ Reject(w) PROVE NoMoreRuns(j)'
  <2>1. /\ rows' = rows /\ attempt' = attempt /\ on'[w] = None
        /\ \A v \in Workers : v # w => on'[v] = on[v] /\ pc'[v] = pc[v]
    BY <1>6 DEF Acknowledge, Reject, Release, dbVars, TypeOK
  <2>2. bull'[j] \notin {"waiting", "delayed"}
    <3>1. CASE Acknowledge(w)
      BY <3>1 DEF Acknowledge, NoMoreRuns, TypeOK
    <3>2. CASE Reject(w) /\ on[w] = j
      <4>1. ~(tries[j] + 1 < MaxAttempts)
        <5>1. attempt[w] = tries[j] /\ LastAttempt(w) /\ tries[j] \in Nat
          BY <3>2 DEF Reject, NoMoreRuns, CatchInv, Catch, TypeOK
        <5> QED BY <5>1, BoundsAssumption DEF LastAttempt
      <4> QED BY <3>2, <4>1 DEF Reject, NoMoreRuns, TypeOK
    <3>3. CASE Reject(w) /\ on[w] # j
      BY <3>3 DEF Reject, NoMoreRuns, TypeOK
    <3> QED BY <1>6, <3>1, <3>2, <3>3
  <2> QED BY <2>1, <2>2, NoneAssumption DEF NoMoreRuns, LastAttempt
<1>7. ASSUME NEW w \in Workers, InsideStep(w) PROVE NoMoreRuns(j)'
  <2>1. UNCHANGED <<bull, on, attempt>> /\ \A v \in Workers : v # w => pc'[v] = pc[v]
    BY <1>7, InsideMoves, InsideOthers DEF queueVars
  <2>2. CASE on[w] = j
    <3>1. pc[w] \in Ending
      BY <2>2 DEF NoMoreRuns
    <3>2. rows' = rows /\ pc'[w] \in Ending /\ (pc'[w] = "throw" => LastAttempt(w))
      BY <1>7, <3>1, EndingStep
    <3> QED BY <2>1, <3>2 DEF NoMoreRuns, LastAttempt
  <2>3. CASE on[w] # j
    <3>1. rows'[j] = rows[j]
      BY <1>7, <2>3, InsideArtifacts
    <3> QED BY <2>1, <2>3, <3>1 DEF NoMoreRuns, LastAttempt
  <2> QED BY <2>2, <2>3
<1>8. CASE UNCHANGED vars
  BY <1>1, <1>8 DEF vars, dbVars, queueVars, workVars
<1> QED BY <1>2, <1>3, <1>4, <1>5, <1>6, <1>7, <1>8, CalmCases

LEMMA RefundedBy ==
    ASSUME RefundInv, LockInv, [Next]_vars, NEW j \in Jobs, Refunds(j)' # Refunds(j)
    PROVE  \/ \E a \in Requests : TxCommit(a) /\ target[a] = j
           \/ \E w \in Workers : RefundWrite(w) /\ on[w] = j
<1>0. TypeOK
  BY DEF RefundInv
<1>1. ASSUME ledger'[j] = ledger[j] PROVE FALSE
  BY <1>1 DEF Refunds
<1>2. ASSUME NEW a \in Requests, TxCommit(a) PROVE target[a] = j
  BY <1>0, <1>1, <1>2 DEF TxCommit, TypeOK
<1>3. ASSUME NEW w \in Workers, InsideStep(w) PROVE RefundWrite(w) /\ on[w] = j
  <2>1. RefundWrite(w)
    BY <1>0, <1>1, <1>3, InsideRefunds
  <2> QED BY <1>0, <1>1, <2>1 DEF RefundWrite, TypeOK
<1> QED
  BY <1>1, <1>2, <1>3
     DEF Next, CreateStep, TxStep, HandlerStep, InsideStep, vars, CreateCommit, AddSucceeds,
         AddFails, MarkQueued, Promote, StalledCheck, CancelRemove, CancelRead, TxUpdate,
         RefundFind, ApiCrash, Take, Acknowledge, Reject, WorkerCrash, LockLost, DropLock,
         dbVars

(* A job whose call is still before the queue is untouched; one that is      *)
(* FAILED, or refunded although nobody asked to cancel it, has no more runs. *)
Fresh(j) ==
    step[j] \in Unqueued => /\ rows[j] = {}
                            /\ status[j] # "FAILED"
                            /\ Refunds(j) > 0 => AskedToCancel(j)

Spent(j) ==
    /\ status[j] = "FAILED" => NoMoreRuns(j)
    /\ Refunds(j) > 0 => NoMoreRuns(j) \/ AskedToCancel(j)

SpentInv == \A j \in Jobs : Fresh(j) /\ Spent(j)

LEMMA FreshKept ==
    ASSUME RefundInv, LockInv, FailInv, QueueInv, SpentInv, [Next]_vars, NEW j \in Jobs
    PROVE  Fresh(j)'
<1>0. TypeOK
  BY DEF RefundInv
<1> SUFFICES ASSUME step'[j] \in Unqueued
             PROVE  /\ rows'[j] = {}
                    /\ status'[j] # "FAILED"
                    /\ Refunds(j)' > 0 => AskedToCancel(j)'
  BY DEF Fresh
<1>1. /\ step[j] \in Unqueued /\ rows[j] = {} /\ status[j] # "FAILED"
      /\ Refunds(j) > 0 => AskedToCancel(j)
  BY <1>0, UnqueuedBefore DEF SpentInv, Fresh
<1>2. ASSUME NEW w \in Workers, pc[w] # "idle" PROVE on[w] # j
  BY <1>0, <1>1, <1>2, HandledJob DEF FailInv, AddRefused
<1>3. ASSUME TxCommit(j) PROVE FALSE
  BY <1>0, <1>3 DEF TxCommit, Unqueued, TypeOK, Requests
<1>4. rows'[j] = {}
  <2>1. ASSUME NEW w \in Workers, InsideStep(w) PROVE rows'[j] = rows[j]
    BY <1>0, <1>2, <2>1, InsideMoves, InsideArtifacts
  <2> QED BY <1>1, <2>1, ArtifactsBy DEF Artifacts
<1>5. status'[j] # "FAILED"
  BY <1>0, <1>1, <1>2, <1>3, FailedBy DEF Fail
<1>6. ASSUME Refunds(j)' > 0 PROVE AskedToCancel(j)'
  <2>1. CASE Refunds(j) > 0
    BY <1>0, <1>1, <2>1, AskedStays
  <2>2. CASE Refunds(j)' # Refunds(j)
    <3>1. PICK a \in Requests : TxCommit(a) /\ target[a] = j
      BY <1>2, <2>2, RefundedBy DEF RefundWrite
    <3>2. a \notin Jobs
      BY <1>3, <3>1 DEF RefundInv, HasTarget
    <3> QED BY <3>1, <3>2 DEF TxCommit, AskedToCancel, Requests
  <2> QED BY <1>6, <2>1, <2>2
<1> QED BY <1>4, <1>5, <1>6

LEMMA SpentKept ==
    ASSUME Faults \subseteq {"apiCrash"}, RefundInv, LockInv, FailInv, QueueInv, CatchInv, HeldInv, SpentInv,
           [Next]_vars, NEW j \in Jobs
    PROVE  Spent(j)'
<1>0. TypeOK
  BY DEF RefundInv
<1>1. ASSUME TxCommit(j) PROVE NoMoreRuns(j)'
  <2>1. step[j] \in Unqueued /\ UNCHANGED <<rows, bull, on>>
    BY <1>1 DEF TxCommit, Unqueued, queueVars, workVars
  <2>2. rows[j] = {} /\ bull[j] = "absent"
    BY <2>1 DEF SpentInv, Fresh, FailInv, AddRefused
  <2>3. \A w \in Workers : on[w] # j
    <3>1. \A w \in Workers : pc[w] = "idle" => on[w] = None
      BY DEF LockInv, OneHandler
    <3> QED BY <1>0, <2>2, <3>1, HandledJob, NoneAssumption
  <2> QED BY <2>1, <2>2, <2>3 DEF NoMoreRuns
<1>2. ASSUME NEW w \in Workers, Fail(w) \/ RefundWrite(w), on[w] = j PROVE NoMoreRuns(j)'
  <2>1. /\ UNCHANGED <<rows, bull, on>> /\ pc[w] \in FinalStages /\ pc[w] # "idle"
        /\ pc'[w] \in Ending /\ pc'[w] # "throw"
    BY <1>0, <1>2 DEF Fail, RefundWrite, Goto, FinalStages, Ending, queueVars, TypeOK
  <2>2. rows[j] = {} /\ bull[j] = "active" /\ \A v \in Workers : v # w => on[v] # j
    BY <1>0, <1>2, <2>1, HandledJob DEF CatchInv, Catch
  <2> QED BY <2>1, <2>2 DEF NoMoreRuns
<1>3. ASSUME NoMoreRuns(j), step[j] # "add" PROVE NoMoreRuns(j)'
  BY <1>0, <1>3, NoMoreRunsKept
<1>4. ASSUME status'[j] = "FAILED" PROVE NoMoreRuns(j)'
  <2>1. CASE status[j] = "FAILED"
    <3>1. NoMoreRuns(j) /\ step[j] # "add"
      BY <2>1 DEF SpentInv, Spent, Fresh, Unqueued
    <3> QED BY <1>3, <3>1
  <2>2. CASE status[j] # "FAILED"
    BY <1>0, <1>1, <1>2, <1>4, <2>2, FailedBy
  <2> QED BY <2>1, <2>2
<1>5. ASSUME Refunds(j)' > 0 PROVE NoMoreRuns(j)' \/ AskedToCancel(j)'
  <2>1. CASE Refunds(j) > 0
    <3>1. AskedToCancel(j) \/ (NoMoreRuns(j) /\ step[j] # "add")
      BY <2>1 DEF SpentInv, Spent, Fresh, Unqueued
    <3> QED BY <1>0, <1>3, <3>1, AskedStays
  <2>2. CASE Refunds(j)' # Refunds(j)
    <3>1. ASSUME NEW a \in Requests, TxCommit(a), target[a] = j
          PROVE  NoMoreRuns(j)' \/ AskedToCancel(j)'
      <4>1. CASE a \in Jobs
        BY <1>1, <3>1, <4>1 DEF RefundInv, HasTarget
      <4>2. CASE a \in Cancels
        BY <3>1, <4>2 DEF TxCommit, AskedToCancel
      <4> QED BY <4>1, <4>2 DEF Requests
    <3> QED BY <1>2, <2>2, <3>1, RefundedBy
  <2> QED BY <1>5, <2>1, <2>2
<1> QED BY <1>4, <1>5 DEF Spent

LEMMA SpentInvHolds ==
    ASSUME Faults \subseteq {"apiCrash"} PROVE Spec => []SpentInv
<1>1. Init => SpentInv
  <2> SUFFICES ASSUME Init, NEW j \in Jobs PROVE Fresh(j) /\ Spent(j)
    BY DEF SpentInv
  <2>1. Refunds(j) = 0
    <3>1. \A r \in RefundReasons : ledger[j][r] = 0
      BY DEF Init
    <3> QED BY <3>1 DEF Refunds, RefundReasons
  <2> QED BY <2>1 DEF Init, Fresh, Spent
<1>2. RefundInv /\ LockInv /\ FailInv /\ QueueInv /\ CatchInv /\ HeldInv /\ SpentInv
        /\ [Next]_vars => SpentInv'
  BY FreshKept, SpentKept DEF SpentInv
<1>3. /\ Spec => []LockInv
      /\ Spec => []FailInv
      /\ Spec => []QueueInv
      /\ Spec => []CatchInv
      /\ Spec => []HeldInv
  BY LockInvHolds, FailInvHolds, QueueInvHolds, CatchInvHolds, HeldInvHolds
<1> QED BY <1>1, <1>2, <1>3, RefundInvHolds, PTL DEF Spec

(* How a job comes out: paid back, delivered or cancelled by its user. *)
CameOut(j) == Repaid(j) \/ Delivered(j) \/ AskedToCancel(j)

Returns(w) ==
    /\ pc[w] = "throw" /\ LastAttempt(w) => Repaid(on[w])
    /\ pc[w] = "return" => CameOut(on[w])

Ends(j) ==
    /\ bull[j] = "absent" /\ step[j] = "done" => Repaid(j) \/ AskedToCancel(j)
    /\ bull[j] \in {"completed", "failed"} => CameOut(j)

OutcomeInv ==
    /\ \A w \in Workers : Returns(w)
    /\ \A j \in Jobs : Ends(j)

LEMMA CameOutStays ==
    ASSUME RefundInv, LockInv, QueueInv, [Next]_vars, NEW j \in Jobs, CameOut(j),
           rows'[j] = rows[j], versions'[j] = versions[j], objects'[j] = objects[j]
    PROVE  CameOut(j)'
<1>1. Delivered(j) => Delivered(j)'
  BY DEF Delivered
<1>2. Repaid(j) => Repaid(j)'
  BY RepaidStays
<1>3. AskedToCancel(j) => AskedToCancel(j)'
  BY AskedStays DEF RefundInv
<1> QED BY <1>1, <1>2, <1>3 DEF CameOut

LEMMA ReturnsOwnStep ==
    ASSUME Faults = {}, RefundInv, LockInv, QueueInv, WorkInv, DeliveryInv, EndInv, AskInv,
           CatchInv, OutcomeInv, [Next]_vars, NEW w \in Workers, InsideStep(w)
    PROVE  Returns(w)'
<1>0. TypeOK
  BY DEF RefundInv
<1>. PICK j \in Jobs : j = on[w]
  BY <1>0, InsideMoves, HandledJob
<1>1. on'[w] = j /\ attempt' = attempt /\ on' = on
  BY InsideMoves
<1>2. ASSUME UNCHANGED Artifacts, CameOut(j) PROVE CameOut(on[w])'
  <2>1. CameOut(j)'
    BY <1>2, CameOutStays DEF Artifacts
  <2> QED BY <1>1, <2>1 DEF CameOut, Repaid, Refunds, Delivered, AskedToCancel
<1>3. CASE HandleRead(w)
  <2>1. /\ pc'[w] = IF status[j] \in NotProcessedAgain THEN "return" ELSE "check1"
        /\ UNCHANGED Artifacts
    BY <1>0, <1>3 DEF HandleRead, Goto, Artifacts, dbVars, TypeOK
  <2>2. status[j] \in NotProcessedAgain => CameOut(j)
    BY DEF NotProcessedAgain, AskInv, DeliveryInv, CompletedIsDelivered, CameOut
  <2> QED BY <1>2, <2>1, <2>2 DEF Returns
<1>4. CASE Complete(w)
  <2>1. pc'[w] = "return" /\ status'[j] = "COMPLETED"
    BY <1>0, <1>4 DEF Complete, SetStatus, Goto, TypeOK
  <2>2. Delivered(j)'
    BY <1>0, <2>1, DeliveredKept
  <2>3. CameOut(on[w])'
    BY <1>1, <2>2 DEF CameOut, Delivered
  <2> QED BY <2>1, <2>3 DEF Returns
<1>5. CASE CatchCleanup(w)
  <2>1. \/ pc'[w] = "return" /\ err[w] = "cancelled" /\ pc[w] # "idle"
        \/ pc'[w] = "fail"
    BY <1>0, <1>5 DEF CatchCleanup, Goto, EndInv, GivenUp, TypeOK
  <2>2. err[w] = "cancelled" /\ pc[w] # "idle" => AskedToCancel(j)
    BY DEF AskInv
  <2>3. AskedToCancel(j) => CameOut(on[w])'
    BY <1>0, <1>1, AskedStays DEF CameOut, AskedToCancel
  <2> QED BY <2>1, <2>2, <2>3 DEF Returns
<1>6. CASE Requeue(w)
  <2>1. pc'[w] = "throw" /\ ~LastAttempt(w)
    BY <1>0, <1>6 DEF Requeue, Goto, CatchInv, Catch, IsFinalAttempt, LastAttempt, TypeOK
  <2> QED BY <1>1, <2>1 DEF Returns, LastAttempt
<1>7. CASE LogFailed(w)
  <2>1. Repaid(j) /\ UNCHANGED Artifacts /\ pc'[w] \in {"return", "throw"}
    BY <1>0, <1>7 DEF LogFailed, Goto, EndInv, GivenUp, Artifacts, dbVars, TypeOK
  <2>2. Repaid(j)'
    BY <2>1, RepaidStays
  <2>3. Repaid(on[w])' /\ CameOut(on[w])'
    BY <1>1, <2>2 DEF Repaid, Refunds, CameOut
  <2> QED BY <2>1, <2>3 DEF Returns
<1>8. CASE CatchFails(w)
  BY <1>8 DEF CatchFails
<1>9. CASE ~HandleRead(w) /\ ~Complete(w) /\ ~CatchCleanup(w) /\ ~Requeue(w) /\ ~LogFailed(w)
           /\ ~CatchFails(w)
  <2> DEFINE S == TryStages \cup {"p5", "p60", "rollback", "cancelCleanup", "finalCleanup",
                                  "requeue", "fail", "refundCheck", "refundWrite", "logFailed"}
  <2>1. ASSUME \/ EnsureJobNotCancelled(w) \/ SetProcessing(w) \/ Upload(w)
               \/ CreateAsset(w) \/ CreateVersion(w)
        PROVE  pc'[w] \in S
    <3>1. pc[w] \in TryStages \ {"complete"} /\ pc'[w] \in {After(pc[w]), "rollback"}
      BY <1>0, <2>1
         DEF EnsureJobNotCancelled, SetProcessing, Upload, CreateAsset, CreateVersion, Goto,
             CheckStages, ProcessingStages, UploadStages, AssetStages, VersionStages,
             TryStages, TypeOK
    <3> QED BY <3>1, AfterStays
  <2>2. ASSUME \/ CleanBeforeRun(w) \/ ProviderAnswers(w) \/ StageFails(w) \/ Rollback(w)
               \/ Fail(w) \/ RefundCheck(w) \/ RefundWrite(w)
        PROVE  pc'[w] \in S
    BY <1>0, <2>2 DEF CleanBeforeRun, ProviderAnswers, StageFails, Rollback, Fail,
                      RefundCheck, RefundWrite, Goto, TypeOK, TryStages, CheckStages
  <2>3. pc'[w] \in S
    BY <1>0, <1>9, <2>1, <2>2 DEF InsideStep, TryStep, CatchStep
  <2>4. S \cap {"return", "throw"} = {}
    BY DEF TryStages, CheckStages, ProcessingStages, UploadStages, AssetStages, VersionStages
  <2> HIDE DEF S
  <2> QED BY <2>3, <2>4 DEF Returns
<1> QED BY <1>3, <1>4, <1>5, <1>6, <1>7, <1>8, <1>9

LEMMA ReturnsKept ==
    ASSUME Faults = {}, RefundInv, LockInv, QueueInv, WorkInv, DeliveryInv, EndInv, AskInv,
           CatchInv, OutcomeInv, [Next]_vars, NEW w \in Workers
    PROVE  Returns(w)'
<1>0. TypeOK /\ Returns(w)
  BY DEF RefundInv, OutcomeInv
<1>1. ASSUME pc'[w] = pc[w], on'[w] = on[w], attempt'[w] = attempt[w],
             on[w] \in Jobs => /\ rows'[on[w]] = rows[on[w]]
                               /\ versions'[on[w]] = versions[on[w]]
                               /\ objects'[on[w]] = objects[on[w]]
      PROVE  Returns(w)'
  <2>1. CASE pc[w] = "idle"
    BY <1>1, <2>1 DEF Returns
  <2>2. CASE pc[w] # "idle"
    <3>. PICK j \in Jobs : j = on[w]
      BY <1>0, <2>2, HandledJob
    <3>1. /\ Repaid(j) => Repaid(j)'
          /\ CameOut(j) => CameOut(j)'
      BY <1>1, RepaidStays, CameOutStays
    <3>2. /\ Repaid(on[w])' <=> Repaid(j)'
          /\ CameOut(on[w])' <=> CameOut(j)'
      BY <1>1 DEF Repaid, Refunds, CameOut, Delivered, AskedToCancel
    <3> QED BY <1>0, <1>1, <3>1, <3>2 DEF Returns, LastAttempt
  <2> QED BY <2>1, <2>2
<1>2. ASSUME NEW v \in Workers, InsideStep(v) PROVE Returns(w)'
  <2>1. CASE v = w
    BY <1>2, <2>1, ReturnsOwnStep
  <2>2. CASE v # w
    <3>1. pc'[w] = pc[w] /\ UNCHANGED <<on, attempt>>
      BY <1>0, <1>2, <2>2, InsideMoves, InsideOthers
    <3>2. on[w] \in Jobs => on[w] # on[v]
      <4>1. on[v] \in Jobs /\ holder[on[v]] = v
        BY <1>0, <1>2, InsideMoves, HandledJob
      <4> QED BY <2>2, <4>1, NoneAssumption DEF LockInv, OneHandler
    <3> QED BY <1>0, <1>1, <1>2, <3>1, <3>2, InsideArtifacts
  <2> QED BY <2>1, <2>2
<1>3. ASSUME NEW v \in Workers,
             Acknowledge(v) \/ Reject(v) \/ \E i \in Jobs : Take(v, i)
      PROVE  Returns(w)'
  <2>1. CASE v = w
    <3>1. pc'[w] \in {"read", "idle"}
      BY <1>0, <1>3, <2>1 DEF Acknowledge, Reject, Take, Release, TypeOK
    <3> QED BY <3>1 DEF Returns
  <2>2. CASE v # w
    <3>1. /\ pc'[w] = pc[w] /\ on'[w] = on[w] /\ attempt'[w] = attempt[w]
          /\ UNCHANGED <<rows, versions, objects>>
      BY <1>0, <1>3, <2>2 DEF Acknowledge, Reject, Take, Release, dbVars, TypeOK
    <3> QED BY <1>1, <3>1
  <2> QED BY <2>1, <2>2
<1>4. CASE UNCHANGED <<workVars, rows, versions, objects>>
  BY <1>1, <1>4 DEF workVars
<1> QED
  BY <1>2, <1>3, <1>4, CalmCases
     DEF vars, CreateCommit, AddSucceeds, AddFails, MarkQueued, Promote, StalledCheck,
         CancelRemove, CancelRead, TxUpdate, RefundFind, TxCommit, ApiCrash, dbVars

LEMMA EndsKept ==
    ASSUME Faults = {}, RefundInv, CancelInv, LockInv, QueueInv, AskInv, CatchInv, HeldInv,
           OutcomeInv, [Next]_vars, NEW j \in Jobs
    PROVE  Ends(j)'
<1>0. TypeOK /\ Ends(j)
  BY DEF RefundInv, OutcomeInv
<1>1. /\ Repaid(j) => Repaid(j)'
      /\ AskedToCancel(j) => AskedToCancel(j)'
  BY <1>0, RepaidStays, AskedStays
<1>2. ASSUME bull[j] \in {"completed", "failed"} PROVE CameOut(j)'
  <2>1. ASSUME NEW w \in Workers, InsideStep(w)
        PROVE  rows'[j] = rows[j] /\ versions'[j] = versions[j] /\ objects'[j] = objects[j]
    <3>1. on[w] # j
      BY <1>0, <1>2, <2>1, InsideMoves, HandledJob
    <3> QED BY <1>0, <2>1, <3>1, InsideArtifacts
  <2>2. rows'[j] = rows[j] /\ versions'[j] = versions[j] /\ objects'[j] = objects[j]
    BY <2>1, ArtifactsBy DEF Artifacts
  <2> QED BY <1>0, <1>2, <2>2, CameOutStays DEF Ends
<1>3. ASSUME bull'[j] = bull[j], step'[j] = "done" => step[j] = "done" PROVE Ends(j)'
  BY <1>0, <1>1, <1>2, <1>3 DEF Ends
<1>4. ASSUME bull'[j] \notin {"absent", "completed", "failed"} PROVE Ends(j)'
  BY <1>4 DEF Ends
<1>5. ASSUME AskedToCancel(j)' PROVE Ends(j)'
  BY <1>5 DEF Ends, CameOut
<1>6. ASSUME NEW i \in Jobs, \/ CreateCommit(i) \/ AddSucceeds(i) \/ AddFails(i)
                             \/ Promote(i) \/ StalledCheck(i)
      PROVE  Ends(j)'
  BY <1>0, <1>3, <1>4, <1>6
     DEF CreateCommit, AddSucceeds, AddFails, Promote, StalledCheck, HeldInv, TypeOK,
         Requests, queueVars, apiVars
<1>7. ASSUME NEW i \in Jobs, MarkQueued(i) PROVE Ends(j)'
  <2>1. bull' = bull /\ step[i] = "markQueued" /\ step' = [step EXCEPT ![i] = "done"]
    BY <1>7 DEF MarkQueued, queueVars
  <2>2. CASE i = j /\ bull[j] = "absent"
    BY <1>1, <1>5, <2>1, <2>2 DEF AskInv
  <2>3. CASE i = j /\ bull[j] # "absent"
    BY <1>2, <2>1, <2>3 DEF Ends
  <2>4. CASE i # j
    BY <1>0, <1>3, <2>1, <2>4 DEF TypeOK, Requests
  <2> QED BY <2>2, <2>3, <2>4
<1>8. ASSUME NEW c \in Cancels, CancelRemove(c) PROVE Ends(j)'
  <2>1. step'[j] = step[j]
    BY <1>0, <1>8, RequestsAssumption DEF CancelRemove, TypeOK, Requests
  <2>2. CASE target[c] = j
    BY <1>5, <1>8, <2>2 DEF CancelRemove, AskedToCancel
  <2>3. CASE target[c] # j
    BY <1>0, <1>3, <1>8, <2>1, <2>3 DEF CancelRemove, TypeOK
  <2> QED BY <2>2, <2>3
<1>9. ASSUME NEW c \in Cancels, NEW i \in Jobs, CancelRead(c, i) PROVE Ends(j)'
  BY <1>0, <1>3, <1>9 DEF CancelRead, queueVars, TypeOK, Requests
<1>10. ASSUME NEW a \in Requests, TxUpdate(a) \/ RefundFind(a) PROVE Ends(j)'
  BY <1>0, <1>3, <1>10 DEF TxUpdate, RefundFind, queueVars, TypeOK, Requests
<1>11. ASSUME NEW a \in Requests, TxCommit(a) PROVE Ends(j)'
  <2>1. bull' = bull /\ step' = [step EXCEPT ![a] = "done"]
    BY <1>11 DEF TxCommit, queueVars
  <2>2. CASE a = j
    <3>1. target[a] = j
      BY <2>2 DEF RefundInv, HasTarget
    <3>2. Repaid(j)'
      BY <1>11, <3>1, CommitRepays DEF Repaid
    <3> QED BY <3>2 DEF Ends, CameOut
  <2>3. CASE a # j
    BY <1>0, <1>3, <2>1, <2>3 DEF TypeOK
  <2> QED BY <2>2, <2>3
<1>12. ASSUME NEW w \in Workers, NEW i \in Jobs, Take(w, i) PROVE Ends(j)'
  BY <1>0, <1>3, <1>4, <1>12 DEF Take, apiVars, TypeOK
<1>13. ASSUME NEW w \in Workers, Acknowledge(w) \/ Reject(w) PROVE Ends(j)'
  <2>1. step' = step /\ UNCHANGED <<rows, versions, objects>>
    BY <1>13 DEF Acknowledge, Reject, apiVars, dbVars
  <2>2. CASE on[w] # j
    BY <1>0, <1>3, <1>13, <2>1, <2>2 DEF Acknowledge, Reject, TypeOK
  <2>3. CASE Acknowledge(w) /\ on[w] = j
    <3>1. CameOut(j)
      BY <2>3 DEF Acknowledge, OutcomeInv, Returns
    <3>2. CameOut(j)'
      BY <2>1, <3>1, CameOutStays
    <3>3. bull'[j] # "absent"
      BY <1>0, <2>3, HandledJob DEF Acknowledge, TypeOK
    <3> QED BY <3>2, <3>3 DEF Ends
  <2>4. CASE Reject(w) /\ on[w] = j
    <3>1. holder[j] = w /\ bull'[j] = IF tries[j] + 1 < MaxAttempts THEN "delayed" ELSE "failed"
      BY <1>0, <2>4, HandledJob DEF Reject, TypeOK
    <3>2. CASE tries[j] + 1 < MaxAttempts
      BY <1>4, <3>1, <3>2
    <3>3. CASE ~(tries[j] + 1 < MaxAttempts)
      <4>1. attempt[w] = tries[j] /\ tries[j] \in Nat
        BY <1>0, <2>4 DEF Reject, CatchInv, Catch, TypeOK
      <4>2. LastAttempt(w)
        BY <3>3, <4>1, BoundsAssumption DEF LastAttempt
      <4>3. Repaid(j)'
        BY <1>1, <2>4, <4>2 DEF Reject, OutcomeInv, Returns
      <4> QED BY <3>1, <3>3, <4>3 DEF Ends, CameOut
    <3> QED BY <3>2, <3>3
  <2> QED BY <1>13, <2>2, <2>3, <2>4
<1>14. ASSUME NEW w \in Workers, InsideStep(w) PROVE Ends(j)'
  BY <1>3, <1>14, InsideMoves DEF queueVars, apiVars
<1>15. CASE UNCHANGED vars
  BY <1>3, <1>15 DEF vars, queueVars, apiVars
<1> QED
  BY <1>6, <1>7, <1>8, <1>9, <1>10, <1>11, <1>12, <1>13, <1>14, <1>15, CalmCases
     DEF ApiCrash

(* When everything about a charged job has come to rest it was delivered or   *)
(* refunded, and never both, unless the user asked to cancel it.             *)
THEOREM EitherDeliveredOrRefunded ==
    ASSUME Faults = {} PROVE Spec => []DeliveredXorRefunded
<1>1. Init => OutcomeInv
  <2>1. Init => \A w \in Workers : Returns(w)
    BY DEF Init, Returns
  <2>2. Init => \A j \in Jobs : Ends(j)
    BY JobsAssumption DEF Init, Ends, Requests
  <2> QED BY <2>1, <2>2 DEF OutcomeInv
<1>2. RefundInv /\ CancelInv /\ LockInv /\ QueueInv /\ WorkInv /\ DeliveryInv /\ EndInv
        /\ AskInv /\ CatchInv /\ HeldInv /\ OutcomeInv /\ [Next]_vars => OutcomeInv'
  BY ReturnsKept, EndsKept DEF OutcomeInv
<1>3. TypeOK /\ SpentInv /\ OutcomeInv => DeliveredXorRefunded
  <2> SUFFICES ASSUME TypeOK, SpentInv, OutcomeInv, NEW j \in Charged, Settled(j),
                      ~AskedToCancel(j)
               PROVE  Delivered(j) <=> Refunds(j) = 0
    BY DEF DeliveredXorRefunded
  <2>0. j \in Jobs /\ Refunds(j) \in Nat
    BY JobsAssumption, RefundsType
  <2>1. ASSUME Delivered(j), Refunds(j) > 0 PROVE FALSE
    <3>1. rows[j] = {}
      BY <2>0, <2>1 DEF SpentInv, Spent, NoMoreRuns
    <3> QED BY <2>1, <3>1 DEF Delivered
  <2>2. ASSUME Refunds(j) = 0 PROVE Delivered(j)
    <3>1. ~Repaid(j)
      BY <2>2 DEF Repaid
    <3> QED BY <2>0, <3>1 DEF Settled, OutcomeInv, Ends, CameOut
  <2> QED BY <2>0, <2>1, <2>2
<1>4. /\ Spec => []LockInv
      /\ Spec => []QueueInv
      /\ Spec => []WorkInv
      /\ Spec => []DeliveryInv
      /\ Spec => []EndInv
      /\ Spec => []AskInv
      /\ Spec => []CatchInv
      /\ Spec => []HeldInv
      /\ Spec => []SpentInv
  BY LockInvHolds, QueueInvHolds, WorkInvHolds, DeliveryInvHolds, EndInvHolds, AskInvHolds,
     CatchInvHolds, HeldInvHolds, SpentInvHolds
<1> QED BY <1>1, <1>2, <1>3, <1>4, TypeCorrect, RefundInvHolds, CancelInvHolds, PTL DEF Spec
=============================================================================
