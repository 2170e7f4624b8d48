---------------------------- MODULE JobLifecycle ----------------------------
(***************************************************************************)
(* The life of a video job: JobsService.createVideoJob and cancelJob on    *)
(* the API side, VideoWorker.handle on the worker side, the BullMQ queue   *)
(* between them (external), and what the three write to the database (the  *)
(* job row, the refund entries of the credit ledger, the output assets)    *)
(* and to object storage.                                                  *)
(*                                                                         *)
(* The database runs at READ COMMITTED.  A statement outside a transaction *)
(* is one step.  A transaction that updates the job row holds the row's    *)
(* lock (rowLock) from its first update to its commit, and its effects     *)
(* appear at the commit; a read meanwhile sees the old row and another     *)
(* update of the row waits.                                                *)
(*                                                                         *)
(* A request is named after what it works for: the createVideoJob call of  *)
(* job j is the request j, and the cancelJob calls are the requests of     *)
(* Cancels.                                                                *)
(***************************************************************************)
EXTENDS Naturals

CONSTANTS
    Jobs,          \* job rows that createVideoJob may create
    Charged,       \* those whose creditCost is positive after the PRO quota
    Workers,       \* concurrent handler slots of the worker processes
    Cancels,       \* cancelJob calls
    MaxAttempts,   \* "attempts" of videoQueue.add (3 in the code)
    MaxStalls,     \* maxStalledCount of the BullMQ worker (default 1)
    MaxCrashes,    \* bound on worker crashes and lost locks
    Faults,        \* which of AllFaults may occur
    None           \* no job, no lock holder

AllFaults == {"apiCrash", "workerCrash", "lostLock", "ambiguousAdd", "dbError"}

ASSUME JobsAssumption == Charged \subseteq Jobs
ASSUME RequestsAssumption == Jobs \cap Cancels = {}
ASSUME NoneAssumption == None \notin Jobs \cup Cancels \cup Workers
ASSUME BoundsAssumption ==
    MaxAttempts \in Nat \ {0} /\ MaxStalls \in Nat /\ MaxCrashes \in Nat
ASSUME FaultsAssumption == Faults \subseteq AllFaults

VARIABLES
    status,    \* [Jobs -> JobStatus]: the status column of the job row
    ledger,    \* [Jobs -> [RefundReasons -> Nat]]: committed refund entries
    rows,      \* [Jobs -> set of assets]: output and thumbnail asset rows
    versions,  \* those of rows that have their assetVersion row
    objects,   \* [Jobs -> set of assets]: output objects in storage
    rowLock,   \* [Jobs -> request or None]: the transaction holding the row
    step,      \* [Requests -> RequestStep]: where the API call stands
    target,    \* [Requests -> Jobs or None]: the job the call works for
    bull,      \* [Jobs -> BullState]: the job's state in BullMQ
    tries,     \* [Jobs -> Nat]: attemptsMade
    stalls,    \* [Jobs -> Nat]: BullMQ's stalled counter
    holder,    \* [Jobs -> worker or None]: who owns the BullMQ job lock
    pc,        \* [Workers -> Stage]: where VideoWorker.handle stands
    on,        \* [Workers -> Jobs or None]: the job being handled
    run,       \* [Workers -> Nat]: which pickup of that job this is
    attempt,   \* [Workers -> Nat]: bullJob.attemptsMade at the pickup
    err,       \* [Workers -> Error]: what the catch block caught
    crashes    \* worker crashes and lost locks so far

dbVars    == <<status, ledger, rows, versions, objects, rowLock>>
apiVars   == <<step, target>>
queueVars == <<bull, tries, stalls, holder>>
workVars  == <<pc, on, run, attempt, err>>
vars == <<dbVars, apiVars, queueVars, workVars, crashes>>

Requests == Jobs \cup Cancels

JobStatus == {"ABSENT", "PENDING", "QUEUED", "PROCESSING",
              "COMPLETED", "FAILED", "CANCELLED"}
RefundReasons == {"REFUND_FAILED_JOB", "REFUND_CANCELED_JOB"}
RequestStep == {"new", "add", "markQueued", "remove",
                "lock", "find", "refund", "plain", "done"}
BullState == {"absent", "waiting", "active", "delayed", "completed", "failed"}
Error == {"none", "cancelled", "retryable", "fatal"}

(* An output of one run of the handler; every upload gets a key of its own. *)
Assets == {"VIDEO", "THUMBNAIL"} \X Nat

----------------------------------------------------------------------------
(* The stages of VideoWorker.handle.                                        *)

CheckStages == {"check1", "check2", "check3", "check4"}
ProcessingStages == {"p5", "p15", "p30", "p60", "p80", "p90", "p95"}
UploadStages == {"uploadVideo", "uploadThumb"}
AssetStages == {"assetVideo", "assetThumb"}
VersionStages == {"versionVideo", "versionThumb"}
TryStages == CheckStages \cup ProcessingStages \cup UploadStages
             \cup AssetStages \cup VersionStages
             \cup {"clean", "provider", "complete"}
CatchStages == {"rollback", "cancelCleanup", "requeue", "finalCleanup", "fail",
                "refundCheck", "refundWrite", "logFailed"}
Stages == {"idle", "read", "return", "throw"} \cup TryStages \cup CatchStages

(* The order of the try block; a provider or input error is a failing stage. *)
After(s) ==
    CASE s = "check1"       -> "clean"
      [] s = "clean"        -> "p5"
      [] s = "p5"           -> "p15"
      [] s = "p15"          -> "p30"
      [] s = "p30"          -> "check2"
      [] s = "check2"       -> "provider"
      [] s = "provider"     -> "p60"
      [] s = "p60"          -> "check3"
      [] s = "check3"       -> "p80"
      [] s = "p80"          -> "check4"
      [] s = "check4"       -> "uploadVideo"
      [] s = "uploadVideo"  -> "p90"
      [] s = "p90"          -> "assetVideo"
      [] s = "assetVideo"   -> "p95"
      [] s = "p95"          -> "versionVideo"
      [] s = "versionVideo" -> "uploadThumb"
      [] s = "uploadThumb"  -> "assetThumb"
      [] s = "assetThumb"   -> "versionThumb"
      [] s = "versionThumb" -> "complete"
      [] OTHER              -> "return"

Output(s, r) ==
    IF s \in {"uploadVideo", "assetVideo", "versionVideo"}
    THEN <<"VIDEO", r>> ELSE <<"THUMBNAIL", r>>

----------------------------------------------------------------------------
Init ==
    /\ status = [j \in Jobs |-> "ABSENT"]
    /\ ledger = [j \in Jobs |-> [r \in RefundReasons |-> 0]]
    /\ rows = [j \in Jobs |-> {}]
    /\ versions = [j \in Jobs |-> {}]
    /\ objects = [j \in Jobs |-> {}]
    /\ rowLock = [j \in Jobs |-> None]
    /\ step = [a \in Requests |-> "new"]
    /\ target = [a \in Requests |-> IF a \in Jobs THEN a ELSE None]
    /\ bull = [j \in Jobs |-> "absent"]
    /\ tries = [j \in Jobs |-> 0]
    /\ stalls = [j \in Jobs |-> 0]
    /\ holder = [j \in Jobs |-> None]
    /\ pc = [w \in Workers |-> "idle"]
    /\ on = [w \in Workers |-> None]
    /\ run = [w \in Workers |-> 0]
    /\ attempt = [w \in Workers |-> 0]
    /\ err = [w \in Workers |-> "none"]
    /\ crashes = 0

(* An update of the job row outside a transaction (setStatus, unconditional). *)
SetStatus(j, s) ==
    /\ rowLock[j] = None
    /\ status' = [status EXCEPT ![j] = s]

----------------------------------------------------------------------------
(* JobsService.createVideoJob.                                              *)

(* The creating transaction: the charge and the PENDING row commit together. *)
CreateCommit(j) ==
    /\ step[j] = "new"
    /\ status' = [status EXCEPT ![j] = "PENDING"]
    /\ step' = [step EXCEPT ![j] = "add"]
    /\ UNCHANGED <<ledger, rows, versions, objects, rowLock, target,
                   queueVars, workVars, crashes>>

(* videoQueue.add, whose jobId is the row id. *)
AddSucceeds(j) ==
    /\ step[j] = "add"
    /\ bull' = [bull EXCEPT ![j] = "waiting"]
    /\ step' = [step EXCEPT ![j] = "markQueued"]
    /\ UNCHANGED <<dbVars, target, tries, stalls, holder, workVars, crashes>>

(* videoQueue.add rejects.  When the reply was lost the job is in the queue. *)
AddFails(j) ==
    /\ step[j] = "add"
    /\ \/ UNCHANGED bull
       \/ /\ "ambiguousAdd" \in Faults
          /\ bull' = [bull EXCEPT ![j] = "waiting"]
    /\ step' = [step EXCEPT ![j] = "lock"]
    /\ UNCHANGED <<dbVars, target, tries, stalls, holder, workVars, crashes>>

(* The transaction that follows a successful add: QUEUED, whatever the row is. *)
MarkQueued(j) ==
    /\ step[j] = "markQueued"
    /\ SetStatus(j, "QUEUED")
    /\ step' = [step EXCEPT ![j] = "done"]
    /\ UNCHANGED <<ledger, rows, versions, objects, rowLock, target,
                   queueVars, workVars, crashes>>

----------------------------------------------------------------------------
(* JobsService.cancelJob.                                                   *)

(* The row is read outside any transaction; finished jobs are refused. *)
CancelRead(c, j) ==
    /\ step[c] = "new"
    /\ status[j] \in {"PENDING", "QUEUED", "PROCESSING"}
    /\ target' = [target EXCEPT ![c] = j]
    /\ step' = [step EXCEPT ![c] = "remove"]
    /\ UNCHANGED <<dbVars, queueVars, workVars, crashes>>

(* getJob and remove.  BullMQ refuses to remove a job a worker has locked, *)
(* and the code carries on.                                                *)
CancelRemove(c) ==
    /\ step[c] = "remove"
    /\ bull' = IF holder[target[c]] = None
               THEN [bull EXCEPT ![target[c]] = "absent"] ELSE bull
    /\ step' = [step EXCEPT ![c] = "lock"]
    /\ UNCHANGED <<dbVars, target, tries, stalls, holder, workVars, crashes>>

----------------------------------------------------------------------------
(* The transaction that ends a job on the API side: the job row is updated, *)
(* refundCreditIfMissing runs, both commit.                                 *)

Reason(a) == IF a \in Cancels THEN "REFUND_CANCELED_JOB" ELSE "REFUND_FAILED_JOB"
VerdictMisspelt(a) == IF a \in Cancels THEN "CANCELED" ELSE "FAILED"
Verdict(a) == IF a \in Cancels THEN "CANCELLED" ELSE "FAILED"

(* Mutant: the check for a refund comes before the row is locked. *)
TxUpdateUnlocked(a) ==
    /\ step[a] = "lock"
    /\ step' = [step EXCEPT ![a] = "find"]
    /\ UNCHANGED <<dbVars, target, queueVars, workVars, crashes>>

TxUpdate(a) ==
    /\ step[a] = "lock"
    /\ rowLock[target[a]] = None
    /\ rowLock' = [rowLock EXCEPT ![target[a]] = a]
    /\ step' = [step EXCEPT ![a] = "find"]
    /\ UNCHANGED <<status, ledger, rows, versions, objects, target,
                   queueVars, workVars, crashes>>

(* refundCreditIfMissing: nothing for a free job or an existing refund. *)
RefundDueIdle(a) == target[a] \in Charged /\ bull[target[a]] # "active"
RefundDue(a) == target[a] \in Charged /\ ledger[target[a]][Reason(a)] = 0

RefundFind(a) ==
    /\ step[a] = "find"
    /\ step' = [step EXCEPT ![a] = IF RefundDue(a) THEN "refund" ELSE "plain"]
    /\ UNCHANGED <<dbVars, target, queueVars, workVars, crashes>>

TxCommit(a) ==
    /\ step[a] \in {"refund", "plain"}
    /\ status' = [status EXCEPT ![target[a]] = Verdict(a)]
    /\ ledger' = IF step[a] = "refund"
                 THEN [ledger EXCEPT ![target[a]][Reason(a)] = @ + 1]
                 ELSE ledger
    /\ rowLock' = [rowLock EXCEPT ![target[a]] = None]
    /\ step' = [step EXCEPT ![a] = "done"]
    /\ UNCHANGED <<rows, versions, objects, target, queueVars, workVars, crashes>>

(* The API process stops in the middle of a call: an open transaction rolls *)
(* back and nothing resumes the call.                                       *)
ApiCrash(a) ==
    /\ "apiCrash" \in Faults
    /\ step[a] \notin {"new", "done"}
    /\ rowLock' = [j \in Jobs |-> IF rowLock[j] = a THEN None ELSE rowLock[j]]
    /\ step' = [step EXCEPT ![a] = "done"]
    /\ UNCHANGED <<status, ledger, rows, versions, objects, target,
                   queueVars, workVars, crashes>>

----------------------------------------------------------------------------
(* BullMQ.                                                                  *)

(* A slot takes a waiting job, locks it and calls the handler. *)
Take(w, j) ==
    /\ pc[w] = "idle"
    /\ bull[j] = "waiting"
    /\ bull' = [bull EXCEPT ![j] = "active"]
    /\ holder' = [holder EXCEPT ![j] = w]
    /\ pc' = [pc EXCEPT ![w] = "read"]
    /\ on' = [on EXCEPT ![w] = j]
    /\ run' = [run EXCEPT ![w] = tries[j] + stalls[j]]
    /\ attempt' = [attempt EXCEPT ![w] = tries[j]]
    /\ err' = [err EXCEPT ![w] = "none"]
    /\ UNCHANGED <<dbVars, apiVars, tries, stalls, crashes>>

(* The handler is over and the slot is free again. *)
Release(w) ==
    /\ pc' = [pc EXCEPT ![w] = "idle"]
    /\ on' = [on EXCEPT ![w] = None]

(* The handler returned.  Without the lock the outcome is not recorded. *)
Acknowledge(w) ==
    /\ pc[w] = "return"
    /\ Release(w)
    /\ IF holder[on[w]] = w
       THEN /\ bull' = [bull EXCEPT ![on[w]] = "completed"]
            /\ holder' = [holder EXCEPT ![on[w]] = None]
       ELSE UNCHANGED <<bull, holder>>
    /\ UNCHANGED <<dbVars, apiVars, tries, stalls, run, attempt, err, crashes>>

(* The handler threw: a delayed retry while attempts remain. *)
Reject(w) ==
    /\ pc[w] = "throw"
    /\ Release(w)
    /\ IF holder[on[w]] = w
       THEN /\ bull' = [bull EXCEPT ![on[w]] =
                          IF tries[on[w]] + 1 < MaxAttempts
                          THEN "delayed" ELSE "failed"]
            /\ tries' = [tries EXCEPT ![on[w]] = @ + 1]
            /\ holder' = [holder EXCEPT ![on[w]] = None]
       ELSE UNCHANGED <<bull, tries, holder>>
    /\ UNCHANGED <<dbVars, apiVars, stalls, run, attempt, err, crashes>>

(* The backoff of a delayed job is over. *)
Promote(j) ==
    /\ bull[j] = "delayed"
    /\ bull' = [bull EXCEPT ![j] = "waiting"]
    /\ UNCHANGED <<dbVars, apiVars, tries, stalls, holder, workVars, crashes>>

(* The stalled check: an active job without a lock goes back to the queue, *)
(* or fails without its handler being called.                              *)
StalledCheck(j) ==
    /\ bull[j] = "active"
    /\ holder[j] = None
    /\ IF stalls[j] < MaxStalls
       THEN /\ bull' = [bull EXCEPT ![j] = "waiting"]
            /\ stalls' = [stalls EXCEPT ![j] = @ + 1]
       ELSE /\ bull' = [bull EXCEPT ![j] = "failed"]
            /\ UNCHANGED stalls
    /\ UNCHANGED <<dbVars, apiVars, tries, holder, workVars, crashes>>

DropLock(w) ==
    /\ crashes < MaxCrashes
    /\ pc[w] # "idle"
    /\ crashes' = crashes + 1
    /\ holder' = [j \in Jobs |-> IF holder[j] = w THEN None ELSE holder[j]]
    /\ UNCHANGED <<dbVars, apiVars, bull, tries, stalls, run, attempt, err>>

(* The worker process dies in the middle of the handler. *)
WorkerCrash(w) ==
    /\ "workerCrash" \in Faults
    /\ DropLock(w)
    /\ Release(w)

(* The lock is not renewed in time and the handler runs on. *)
LockLost(w) ==
    /\ "lostLock" \in Faults
    /\ DropLock(w)
    /\ UNCHANGED <<pc, on>>

----------------------------------------------------------------------------
(* VideoWorker.handle.                                                      *)

Goto(w, s) == pc' = [pc EXCEPT ![w] = s]

(* The first read: a cancelled or completed job is not processed again. *)
NotProcessedAgainMutant == {"CANCELLED"}
NotProcessedAgain == {"CANCELLED", "COMPLETED"}

HandleRead(w) ==
    /\ pc[w] = "read"
    /\ Goto(w, IF status[on[w]] \in NotProcessedAgain
               THEN "return" ELSE "check1")
    /\ UNCHANGED <<dbVars, apiVars, queueVars, on, run, attempt, err, crashes>>

EnsureJobNotCancelled(w) ==
    /\ pc[w] \in CheckStages
    /\ IF status[on[w]] = "CANCELLED"
       THEN Goto(w, "rollback") /\ err' = [err EXCEPT ![w] = "cancelled"]
       ELSE Goto(w, After(pc[w])) /\ UNCHANGED err
    /\ UNCHANGED <<dbVars, apiVars, queueVars, on, run, attempt, crashes>>

(* cleanupOutputArtifacts: the objects of the versions, then the rows. *)
CleanupOutputArtifacts(j) ==
    /\ objects' = [objects EXCEPT ![j] = @ \ versions[j]]
    /\ versions' = [versions EXCEPT ![j] = {}]
    /\ rows' = [rows EXCEPT ![j] = {}]

(* Mutant: a retry starts on top of what the last attempt left. *)
CleanBeforeRunMutant(w) ==
    /\ pc[w] = "clean"
    /\ Goto(w, "p5")
    /\ UNCHANGED <<dbVars, apiVars, queueVars, on, run, attempt, err, crashes>>

CleanBeforeRun(w) ==
    /\ pc[w] = "clean"
    /\ CleanupOutputArtifacts(on[w])
    /\ Goto(w, "p5")
    /\ UNCHANGED <<status, ledger, rowLock, apiVars, queueVars, on, run, attempt, err, crashes>>

(* setStatus(PROCESSING, progress). *)
SetProcessing(w) ==
    /\ pc[w] \in ProcessingStages
    /\ SetStatus(on[w], "PROCESSING")
    /\ Goto(w, After(pc[w]))
    /\ UNCHANGED <<ledger, rows, versions, objects, rowLock, apiVars, queueVars,
                   on, run, attempt, err, crashes>>

(* executeProviderPlan answers; ProviderPlan.tla has its inside. *)
ProviderAnswers(w) ==
    /\ pc[w] = "provider"
    /\ Goto(w, "p60")
    /\ UNCHANGED <<dbVars, apiVars, queueVars, on, run, attempt, err, crashes>>

Upload(w) ==
    /\ pc[w] \in UploadStages
    /\ objects' = [objects EXCEPT ![on[w]] = @ \cup {Output(pc[w], run[w])}]
    /\ Goto(w, After(pc[w]))
    /\ UNCHANGED <<status, ledger, rows, versions, rowLock, apiVars, queueVars,
                   on, run, attempt, err, crashes>>

CreateAsset(w) ==
    /\ pc[w] \in AssetStages
    /\ rows' = [rows EXCEPT ![on[w]] = @ \cup {Output(pc[w], run[w])}]
    /\ Goto(w, After(pc[w]))
    /\ UNCHANGED <<status, ledger, versions, objects, rowLock, apiVars, queueVars,
                   on, run, attempt, err, crashes>>

(* assetVersion.create refers to the asset row, which must still be there. *)
CreateVersion(w) ==
    /\ pc[w] \in VersionStages
    /\ Output(pc[w], run[w]) \in rows[on[w]]
    /\ versions' = [versions EXCEPT ![on[w]] = @ \cup {Output(pc[w], run[w])}]
    /\ Goto(w, After(pc[w]))
    /\ UNCHANGED <<status, ledger, rows, objects, rowLock, apiVars, queueVars,
                   on, run, attempt, err, crashes>>

Complete(w) ==
    /\ pc[w] = "complete"
    /\ SetStatus(on[w], "COMPLETED")
    /\ Goto(w, "return")
    /\ UNCHANGED <<ledger, rows, versions, objects, rowLock, apiVars, queueVars,
                   on, run, attempt, err, crashes>>

(* A stage of the try block throws.  Only a provider's answer can be       *)
(* non-retryable: isRetryableProviderError takes any other error for       *)
(* retryable.                                                              *)
StageFails(w) ==
    /\ pc[w] \in TryStages
    /\ \E e \in {"retryable", "fatal"} :
         /\ e = "fatal" => pc[w] \in {"provider", "p80"}
         /\ err' = [err EXCEPT ![w] = e]
    /\ Goto(w, "rollback")
    /\ UNCHANGED <<dbVars, apiVars, queueVars, on, run, attempt, crashes>>

IsFinalAttemptMutant(w) == err[w] = "fatal" \/ attempt[w] >= MaxAttempts
IsFinalAttempt(w) ==
    err[w] = "fatal" \/ attempt[w] + 1 >= MaxAttempts

(* The catch block deletes what this run uploaded, then takes the branch of *)
(* the error.  uploadedKeys are the objects of this run.                    *)
UploadedKeysMutant(w) == {<<"VIDEO", run[w]>>}
UploadedKeys(w) == {<<"VIDEO", run[w]>>, <<"THUMBNAIL", run[w]>>}

Rollback(w) ==
    /\ pc[w] = "rollback"
    /\ objects' = [objects EXCEPT ![on[w]] = @ \ UploadedKeys(w)]
    /\ Goto(w, IF err[w] = "cancelled" THEN "cancelCleanup"
               ELSE IF IsFinalAttempt(w) THEN "finalCleanup" ELSE "requeue")
    /\ UNCHANGED <<status, ledger, rows, versions, rowLock, apiVars, queueVars,
                   on, run, attempt, err, crashes>>

CatchCleanup(w) ==
    /\ pc[w] \in {"cancelCleanup", "finalCleanup"}
    /\ CleanupOutputArtifacts(on[w])
    /\ Goto(w, IF pc[w] = "cancelCleanup" THEN "return" ELSE "fail")
    /\ UNCHANGED <<status, ledger, rowLock, apiVars, queueVars, on, run, attempt, err, crashes>>

(* Mutant: the handler itself starts over and never rethrows. *)
RequeueMutant(w) ==
    /\ pc[w] = "requeue"
    /\ SetStatus(on[w], "QUEUED")
    /\ Goto(w, "check1")
    /\ UNCHANGED <<ledger, rows, versions, objects, rowLock, apiVars, queueVars,
                   on, run, attempt, err, crashes>>

(* Not the last attempt: QUEUED, then rethrow to BullMQ. *)
Requeue(w) ==
    /\ pc[w] = "requeue"
    /\ SetStatus(on[w], "QUEUED")
    /\ Goto(w, "throw")
    /\ UNCHANGED <<ledger, rows, versions, objects, rowLock, apiVars, queueVars,
                   on, run, attempt, err, crashes>>

(* Mutant: the final failure is refunded but never written to the row. *)
FailMutant(w) ==
    /\ pc[w] = "fail"
    /\ Goto(w, "refundCheck")
    /\ UNCHANGED <<dbVars, apiVars, queueVars, on, run, attempt, err, crashes>>

Fail(w) ==
    /\ pc[w] = "fail"
    /\ SetStatus(on[w], "FAILED")
    /\ Goto(w, "refundCheck")
    /\ UNCHANGED <<ledger, rows, versions, objects, rowLock, apiVars, queueVars,
                   on, run, attempt, err, crashes>>

(* refundFailedJob looks for a refund before its transaction. *)
NoRefundYetMutant(j) == j \in Charged
NoRefundYet(j) == j \in Charged /\ ledger[j]["REFUND_FAILED_JOB"] = 0

(* Mutant: only a job whose attempts are used up is refunded. *)
RefundCheckMutant(w) ==
    /\ pc[w] = "refundCheck"
    /\ Goto(w, IF NoRefundYet(on[w]) /\ err[w] # "fatal"
               THEN "refundWrite" ELSE "logFailed")
    /\ UNCHANGED <<dbVars, apiVars, queueVars, on, run, attempt, err, crashes>>

RefundCheck(w) ==
    /\ pc[w] = "refundCheck"
    /\ Goto(w, IF NoRefundYet(on[w]) THEN "refundWrite" ELSE "logFailed")
    /\ UNCHANGED <<dbVars, apiVars, queueVars, on, run, attempt, err, crashes>>

RefundWrite(w) ==
    /\ pc[w] = "refundWrite"
    /\ ledger' = [ledger EXCEPT ![on[w]]["REFUND_FAILED_JOB"] = @ + 1]
    /\ Goto(w, "logFailed")
    /\ UNCHANGED <<status, rows, versions, objects, rowLock, apiVars, queueVars,
                   on, run, attempt, err, crashes>>

(* A non-retryable failure returns, so that BullMQ does not try again. *)
LogFailed(w) ==
    /\ pc[w] = "logFailed"
    /\ Goto(w, IF err[w] = "fatal" THEN "return" ELSE "throw")
    /\ UNCHANGED <<dbVars, apiVars, queueVars, on, run, attempt, err, crashes>>

(* A query of the catch block itself is rejected and the handler throws. *)
CatchFails(w) ==
    /\ "dbError" \in Faults
    /\ pc[w] \in CatchStages \ {"rollback"}
    /\ Goto(w, "throw")
    /\ UNCHANGED <<dbVars, apiVars, queueVars, on, run, attempt, err, crashes>>

----------------------------------------------------------------------------
CreateStep(j) == AddSucceeds(j) \/ AddFails(j) \/ MarkQueued(j)
TxStep(a) == TxUpdate(a) \/ RefundFind(a) \/ TxCommit(a)
CatchStep(w) == \/ Rollback(w) \/ CatchCleanup(w) \/ Requeue(w) \/ Fail(w)
                \/ RefundCheck(w) \/ RefundWrite(w) \/ LogFailed(w)
TryStep(w) == \/ EnsureJobNotCancelled(w) \/ CleanBeforeRun(w) \/ SetProcessing(w)
              \/ ProviderAnswers(w) \/ Upload(w) \/ CreateAsset(w)
              \/ CreateVersion(w) \/ Complete(w)
HandlerStep(w) == \/ HandleRead(w) \/ TryStep(w) \/ StageFails(w) \/ CatchStep(w)
                  \/ Acknowledge(w) \/ Reject(w)

Next ==
    \/ \E j \in Jobs : CreateCommit(j) \/ CreateStep(j) \/ Promote(j) \/ StalledCheck(j)
    \/ \E c \in Cancels : CancelRemove(c) \/ \E j \in Jobs : CancelRead(c, j)
    \/ \E a \in Requests : TxStep(a) \/ ApiCrash(a)
    \/ \E w \in Workers : \/ \E j \in Jobs : Take(w, j)
                          \/ HandlerStep(w) \/ CatchFails(w)
                          \/ WorkerCrash(w) \/ LockLost(w)

Spec == Init /\ [][Next]_vars

(* Nothing stops while it can run: the API finishes a call it has started,  *)
(* the event loop of a worker advances every handler, BullMQ delivers,      *)
(* promotes and checks for stalled jobs.  No user has to act.               *)
Fairness ==
    /\ \A j \in Jobs : WF_vars(CreateStep(j)) /\ WF_vars(Promote(j))
                       /\ WF_vars(StalledCheck(j))
    /\ \A c \in Cancels : WF_vars(CancelRemove(c))
    /\ \A a \in Requests : WF_vars(TxStep(a))
    /\ \A w \in Workers : /\ WF_vars(HandlerStep(w))
                          /\ WF_vars(\E j \in Jobs : Take(w, j))

FairSpec == Spec /\ Fairness

----------------------------------------------------------------------------
(* Properties.                                                              *)

TypeOK ==
    /\ status \in [Jobs -> JobStatus]
    /\ ledger \in [Jobs -> [RefundReasons -> Nat]]
    /\ rows \in [Jobs -> SUBSET Assets]
    /\ versions \in [Jobs -> SUBSET Assets]
    /\ objects \in [Jobs -> SUBSET Assets]
    /\ rowLock \in [Jobs -> Requests \cup {None}]
    /\ step \in [Requests -> RequestStep]
    /\ target \in [Requests -> Jobs \cup {None}]
    /\ bull \in [Jobs -> BullState]
    /\ tries \in [Jobs -> Nat]
    /\ stalls \in [Jobs -> Nat]
    /\ holder \in [Jobs -> Workers \cup {None}]
    /\ pc \in [Workers -> Stages]
    /\ on \in [Workers -> Jobs \cup {None}]
    /\ run \in [Workers -> Nat]
    /\ attempt \in [Workers -> Nat]
    /\ err \in [Workers -> Error]
    /\ crashes \in Nat

Refunds(j) == ledger[j]["REFUND_FAILED_JOB"] + ledger[j]["REFUND_CANCELED_JOB"]

(* No call, handler or queue entry works for the job any more. *)
Settled(j) ==
    /\ bull[j] \in {"absent", "completed", "failed"}
    /\ step[j] = "done"
    /\ \A c \in Cancels : target[c] = j => step[c] = "done"
    /\ \A w \in Workers : on[w] # j

AskedToCancel(j) == \E c \in Cancels : target[c] = j

(* A video and a thumbnail of one run, each with its version and its object, *)
(* and nothing left over from another run.                                   *)
Delivered(j) ==
    \E r \in 0..(MaxAttempts + MaxStalls) :
        LET outputs == {<<"VIDEO", r>>, <<"THUMBNAIL", r>>} IN
        /\ rows[j] = outputs
        /\ versions[j] = outputs
        /\ outputs \subseteq objects[j]

(* However many cancelJob calls race, with each other or with anything else, *)
(* a job has at most one cancellation refund: the check of                   *)
(* refundCreditIfMissing runs under the lock of the job row.                 *)
CancelRefundOnce == \A j \in Jobs : ledger[j]["REFUND_CANCELED_JOB"] <= 1

(* A job cannot be refunded twice as failed, though a crash may run the      *)
(* final failure of a job again and the check of refundFailedJob is outside  *)
(* its transaction: the BullMQ lock keeps two handlers of a job apart.       *)
FailRefundOnce == \A j \in Jobs : ledger[j]["REFUND_FAILED_JOB"] <= 1

(* Only what was charged is refunded, and a charged job that is CANCELLED    *)
(* has been refunded, whoever wrote the row before or after.                 *)
CancelledIsRefunded ==
    \A j \in Jobs : /\ j \notin Charged => Refunds(j) = 0
                    /\ status[j] = "CANCELLED" /\ j \in Charged
                         => Refunds(j) > 0

(* The only charged jobs that stay FAILED without a refund are those whose   *)
(* queue entry gave up in the middle, with every attempt or every stall used *)
(* or removed by a cancelJob call that died: a handler that comes to its end *)
(* has paid, whatever crashed before it and however the job failed.          *)
UnrefundedWasGivenUp ==
    \A j \in Charged :
        Settled(j) /\ status[j] = "FAILED" /\ Refunds(j) = 0 =>
            \/ bull[j] = "failed" /\ (tries[j] = MaxAttempts \/ stalls[j] = MaxStalls)
            \/ bull[j] = "absent" /\ AskedToCancel(j)

(* A COMPLETED job has exactly the artifacts of one run, all of them in      *)
(* storage: retries, crashes and stalls neither delete the outputs of a      *)
(* completed job nor leave those of an earlier attempt beside them.          *)
CompletedIsDelivered ==
    \A j \in Jobs : status[j] = "COMPLETED" => Delivered(j)

(* When everything about a charged job has come to rest it was delivered or  *)
(* refunded, and never both, unless the user asked to cancel it.             *)
DeliveredXorRefunded ==
    \A j \in Charged :
        Settled(j) /\ ~AskedToCancel(j) => (Delivered(j) <=> Refunds(j) = 0)

(* At rest, every output in storage belongs to a recorded version, and a job *)
(* that is FAILED has neither outputs nor asset rows.                        *)
NothingLeftBehind ==
    \A j \in Jobs : Settled(j) =>
        /\ objects[j] \subseteq versions[j]
        /\ status[j] = "FAILED" => rows[j] = {}

(* No step but a cancellation takes a job back from a finished attempt: a    *)
(* handler never writes the row of a job that another handler completed.     *)
CompletedIsNotReworked ==
    [][\A j \in Jobs : status[j] = "COMPLETED"
         => status'[j] \in {"COMPLETED", "CANCELLED"} \/ step[j] = "markQueued"]_vars

(* Every job that enters the queue leaves it, however the handler ends. *)
QueueDrains ==
    \A j \in Jobs : bull[j] \in {"waiting", "active", "delayed"}
                      ~> bull[j] \in {"completed", "failed", "absent"}

(* Without crashes a job does not stay PROCESSING. *)
ProcessingEnds ==
    \A j \in Jobs : status[j] = "PROCESSING" ~> status[j] # "PROCESSING"

(* What the documentation says and the code does not keep. *)

(* docs/jobs-sse.md: a job cancelled while a worker runs it is CANCELLED and *)
(* the worker stops when it finds out; it does not end COMPLETED.            *)
CancelledIsNotCompleted ==
    \A j \in Charged :
        ledger[j]["REFUND_CANCELED_JOB"] > 0 => status[j] # "COMPLETED"

(* refundFailedJob's comment: no duplicate refund.  *)
RefundWithinCharge == \A j \in Jobs : Refunds(j) <= 1

(* docs/vastai-deploy-runbook.md: a job whose providers all failed is        *)
(* refunded.                                                                 *)
FailedIsRefunded ==
    \A j \in Charged : Settled(j) /\ status[j] = "FAILED" => Refunds(j) > 0

(* docs/jobs-sse.md: the status of a job runs from PENDING to a final one. *)
FinishedStaysFinished ==
    [][\A j \in Jobs : status[j] \in {"COMPLETED", "FAILED"}
         => status'[j] = status[j]]_vars
=============================================================================
