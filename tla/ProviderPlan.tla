----------------------------- MODULE ProviderPlan -----------------------------
(***************************************************************************)
(* How a worker process gets a video made: executeProviderPlan, run by the *)
(* handlers of the process at the same time, with the circuit breaker of   *)
(* the Vast provider that they share.  A run starts a provider, retries it *)
(* and falls back to the next one; the breaker counts Vast's failures,     *)
(* opens for a cooldown and then closes again after enough successes.      *)
(*                                                                         *)
(* The steps are the code between two awaits.  The providers are external: *)
(* a call answers with a video or one of the error kinds below.            *)
(***************************************************************************)
EXTENDS Integers, Sequences, SequencesExt

CONSTANTS
    Runs,          \* executeProviderPlan calls
    VastEnabled,   \* VastService.isEnabled: its key and endpoint are configured
    Plans,         \* the providerPlan lists, without duplicates
    MaxRetries,    \* [Providers -> Nat]: VAST_MAX_RETRIES, MODAL_MAX_RETRIES
    Threshold,     \* VAST_BREAKER_FAILURE_THRESHOLD
    Window,        \* VAST_BREAKER_WINDOW_SECONDS
    Cooldown,      \* VAST_BREAKER_COOLDOWN_SECONDS
    HalfOpen,      \* VAST_BREAKER_HALF_OPEN_SUCCESS
    MaxTime        \* bound on the clock

Providers == {"vast", "modal"}

(* "billing" is a 429 over the spend limit: not retried, but counted.        *)
ErrorKind == {"transient", "input", "billing"}
Retryable(kind) == kind = "transient"
Counted(kind) == kind # "input"

ASSUME PlansAssumption ==
    /\ VastEnabled \in BOOLEAN
    /\ \A p \in Plans : p # <<>> /\ p \in Seq(Providers) /\ IsInjective(p)
    /\ MaxRetries \in [Providers -> Nat]
ASSUME BreakerAssumption ==
    /\ Threshold \in Nat \ {0} /\ HalfOpen \in Nat \ {0}
    /\ Window \in Nat \ {0} /\ Cooldown \in Nat \ {0} /\ MaxTime \in Nat \ {0}

VARIABLES
    openUntil,   \* vastBreakerOpenedUntilMs, 0 when closed
    failures,    \* vastConsecutiveFailures
    successes,   \* vastHalfOpenSuccessCount
    stamps,      \* vastFailureTimestampsMs
    now,
    pc,          \* [Runs -> Stage]
    plan,        \* [Runs -> Plans]
    index,       \* [Runs -> Nat]: providerIndex, from 1
    retry,       \* [Runs -> Nat]: retryIndex
    seen,        \* [Runs -> Nat]: "now" of shouldUseVastProvider
    refused,     \* [Runs -> SUBSET Providers]: gave up on, after calling it
    lastError,   \* [Runs -> BOOLEAN]: lastRetryableError is set
    recovered    \* successes after the cooldown, since the breaker opened

breaker == <<openUntil, failures, successes, stamps, recovered>>
runVars == <<pc, plan, index, retry, seen, refused, lastError>>
vars == <<breaker, now, runVars>>

Outcome == {"success", "fatal", "exhausted", "unavailable", "thrown"}
Stage == {"new", "choose", "probe", "call"} \cup Outcome

Provider(r) == plan[r][index[r]]
HasNext(r) == index[r] < Len(plan[r])

Init ==
    /\ openUntil = 0 /\ failures = 0 /\ successes = 0 /\ stamps = <<>>
    /\ recovered = 0
    /\ now = 1
    /\ pc = [r \in Runs |-> "new"]
    /\ plan \in [Runs -> Plans]
    /\ index = [r \in Runs |-> 1]
    /\ retry = [r \in Runs |-> 0]
    /\ seen = [r \in Runs |-> 0]
    /\ refused = [r \in Runs |-> {}]
    /\ lastError = [r \in Runs |-> FALSE]

Goto(r, s) == pc' = [pc EXCEPT ![r] = s]

(* The loop takes the next provider, or ends with the error to throw: the    *)
(* last retryable one, if some provider had one, or 'No provider ...'.        *)
Advance(r, failed) ==
    IF HasNext(r)
    THEN index' = [index EXCEPT ![r] = @ + 1] /\ Goto(r, "choose")
    ELSE /\ Goto(r, IF failed THEN "exhausted" ELSE "unavailable")
         /\ UNCHANGED index

----------------------------------------------------------------------------
(* The breaker.                                                             *)

(* Mutant: the successes of the last half-open phase are kept. *)
OpenMutant(t) ==
    /\ openUntil' = t + Cooldown
    /\ failures' = 0
    /\ recovered' = 0
    /\ UNCHANGED successes

Open(t) ==
    /\ openUntil' = t + Cooldown
    /\ failures' = 0
    /\ successes' = 0
    /\ recovered' = 0

Reset ==
    /\ openUntil' = 0 /\ failures' = 0 /\ successes' = 0 /\ stamps' = <<>>
    /\ recovered' = 0

RecordSuccess ==
    IF openUntil > 0 /\ now >= openUntil
    THEN IF successes + 1 >= HalfOpen
         THEN Reset
         ELSE /\ successes' = successes + 1
              /\ recovered' = recovered + 1
              /\ UNCHANGED <<openUntil, failures, stamps>>
    ELSE failures' = 0 /\ UNCHANGED <<openUntil, successes, stamps, recovered>>

(* The consecutive count decides; the timestamps are only collected.         *)
RecordFailure(kind) ==
    IF Counted(kind)
    THEN /\ stamps' = Append(SelectSeq(stamps, LAMBDA t : now - t <= Window), now)
         /\ IF failures + 1 >= Threshold
            THEN Open(now)
            ELSE failures' = failures + 1 /\ UNCHANGED <<openUntil, successes, recovered>>
    ELSE UNCHANGED breaker

----------------------------------------------------------------------------
(* executeProviderPlan.                                                     *)

Start(r) ==
    /\ pc[r] = "new"
    /\ Goto(r, "choose")
    /\ UNCHANGED <<breaker, now, plan, index, retry, seen, refused, lastError>>

BeginCalls(r) == Goto(r, "call") /\ retry' = [retry EXCEPT ![r] = 0]

(* shouldUseVastProvider up to its await: Vast is left out when it is not     *)
(* configured or its breaker is open.                                        *)
ConsiderVast(r) ==
    /\ pc[r] = "choose" /\ Provider(r) = "vast"
    /\ IF ~VastEnabled \/ now < openUntil
       THEN Advance(r, lastError[r]) /\ UNCHANGED <<seen, lastError>>
       ELSE /\ seen' = [seen EXCEPT ![r] = now]
            /\ Goto(r, "probe")
            /\ UNCHANGED <<index, lastError>>
    /\ UNCHANGED <<breaker, now, plan, retry, refused>>

(* The health check answers; a bad answer opens the breaker from the time    *)
(* that was read before it.                                                  *)
ProbeAnswers(r) ==
    /\ pc[r] = "probe"
    /\ \/ BeginCalls(r) /\ UNCHANGED <<breaker, index, lastError>>
       \/ /\ Open(seen[r]) /\ Advance(r, lastError[r])
          /\ UNCHANGED <<stamps, retry, lastError>>
    /\ UNCHANGED <<now, plan, seen, refused>>

ConsiderModal(r) ==
    /\ pc[r] = "choose" /\ Provider(r) = "modal"
    /\ BeginCalls(r)
    /\ UNCHANGED <<breaker, now, plan, index, seen, refused, lastError>>

CallSucceeds(r) ==
    /\ pc[r] = "call"
    /\ IF Provider(r) = "vast" THEN RecordSuccess ELSE UNCHANGED breaker
    /\ Goto(r, "success")
    /\ UNCHANGED <<now, plan, index, retry, seen, refused, lastError>>

Account(r, kind) ==
    IF Provider(r) = "vast" THEN RecordFailure(kind) ELSE UNCHANGED breaker

(* A retryable error, or one of the log written before the call, which is in *)
(* the same try: another attempt if one is left, without another look at the *)
(* breaker, or the next provider.                                            *)
CallRetried(r) ==
    /\ pc[r] = "call"
    /\ retry[r] < MaxRetries[Provider(r)]
    /\ Account(r, "transient")
    /\ retry' = [retry EXCEPT ![r] = @ + 1]
    /\ UNCHANGED <<now, pc, plan, index, seen, refused, lastError>>

CallExhausted(r) ==
    /\ pc[r] = "call"
    /\ retry[r] = MaxRetries[Provider(r)]
    /\ Account(r, "transient")
    /\ lastError' = [lastError EXCEPT ![r] = TRUE]
    /\ refused' = [refused EXCEPT ![r] = @ \cup {Provider(r)}]
    /\ Advance(r, TRUE)
    /\ UNCHANGED <<now, plan, retry, seen>>

(* Mutant: an error that cannot be retried is thrown at once. *)
CallRefusedMutant(r) ==
    /\ pc[r] = "call"
    /\ \E kind \in {k \in ErrorKind : ~Retryable(k)} : Account(r, kind)
    /\ refused' = [refused EXCEPT ![r] = @ \cup {Provider(r)}]
    /\ Goto(r, "fatal")
    /\ UNCHANGED <<now, plan, index, retry, seen, lastError>>

(* An error that cannot be retried: the next provider, or it is thrown.      *)
CallRefused(r) ==
    /\ pc[r] = "call"
    /\ \E kind \in {k \in ErrorKind : ~Retryable(k)} : Account(r, kind)
    /\ refused' = [refused EXCEPT ![r] = @ \cup {Provider(r)}]
    /\ IF HasNext(r) THEN Advance(r, lastError[r]) ELSE Goto(r, "fatal") /\ UNCHANGED index
    /\ UNCHANGED <<now, plan, retry, seen, lastError>>

(* The log of a failed attempt cannot be written: its error leaves the loop. *)
LogThrows(r) ==
    /\ pc[r] = "call"
    /\ \E kind \in ErrorKind :
          /\ Retryable(kind) \/ HasNext(r)
          /\ Account(r, kind)
    /\ Goto(r, "thrown")
    /\ UNCHANGED <<now, plan, index, retry, seen, refused, lastError>>

Tick ==
    /\ now < MaxTime
    /\ now' = now + 1
    /\ UNCHANGED <<breaker, runVars>>

Next ==
    \/ \E r \in Runs :
          \/ Start(r) \/ ConsiderVast(r) \/ ProbeAnswers(r) \/ ConsiderModal(r)
          \/ CallSucceeds(r) \/ CallRetried(r) \/ CallExhausted(r)
          \/ CallRefused(r) \/ LogThrows(r)
    \/ Tick

Spec == Init /\ [][Next]_vars

----------------------------------------------------------------------------
(* Properties.                                                              *)

(* A run never gives up on a job while a provider of its plan could still    *)
(* make it: Modal, which no breaker guards, has then been called and failed. *)
ModalTriedBeforeGivingUp ==
    \A r \in Runs :
        pc[r] \in {"fatal", "exhausted", "unavailable"}
          => \A i \in DOMAIN plan[r] : plan[r][i] = "modal" => "modal" \in refused[r]

(* The breaker closes only after HalfOpen calls that succeeded after the     *)
(* cooldown of its last opening: successes from before it do not count.      *)
ClosesAfterSuccesses ==
    [][openUntil > 0 /\ openUntil' = 0 => recovered + 1 >= HalfOpen]_vars

(* While the breaker is open the worker leaves Vast out and runs Modal. *)
OpenBreakerSkipsVast ==
    [][\A r \in Runs :
          pc'[r] = "call" /\ Provider(r)' = "vast"
            /\ (pc[r] # "call" \/ retry'[r] # retry[r])
            => now >= openUntil']_vars

(* Failures open the breaker when the threshold is passed in the window. *)
OpensWithinWindow ==
    [][stamps' # stamps /\ openUntil' > openUntil
          => Len(stamps') >= Threshold]_vars
=============================================================================
