-------------------------- MODULE JobSupportProofs --------------------------
(***************************************************************************)
(* Theorems about the two services a job leans on: the provider plan, for  *)
(* any number of runs at once, any plans, retries and settings of the      *)
(* breaker (the bound MaxTime plays no part); and the event stream, for    *)
(* any number of connections and writers.                                  *)
(*                                                                         *)
(* NotDeaf is about the moment when nothing is under way; the invariant    *)
(* behind it follows each command from the pipe to Redis and its answer    *)
(* back, and that of TeardownsLocal the order they are in.                 *)
(***************************************************************************)
EXTENDS ProviderPlan, JobEvents, FiniteSetTheorems, TLAPS

-----------------------------------------------------------------------------
(* The provider plan and its breaker.                                        *)

GivenUp == {"fatal", "exhausted", "unavailable"}

RunTypes ==
    /\ pc \in [Runs -> Stage] /\ plan \in [Runs -> Plans]
    /\ index \in [Runs -> Nat] /\ refused \in [Runs -> SUBSET Providers]
    /\ lastError \in [Runs -> BOOLEAN]

(* A run is at a provider of its plan, and is at Vast while it probes it.    *)
AtProvider(r) ==
    /\ index[r] \in 1..Len(plan[r])
    /\ pc[r] = "probe" => Provider(r) = "vast"

(* The providers that a run is done with: those before the one it is at, and *)
(* that one too once it has given up.                                        *)
DoneWith(r, i) == i < index[r] \/ pc[r] \in GivenUp

ModalWasTried(r) ==
    \A i \in 1..Len(plan[r]) :
        DoneWith(r, i) /\ plan[r][i] = "modal" => "modal" \in refused[r]

PlanInv == RunTypes /\ \A r \in Runs : AtProvider(r) /\ ModalWasTried(r)

BreakerTypes ==
    /\ now \in Nat /\ seen \in [Runs -> Nat]
    /\ openUntil \in Nat /\ failures \in Nat /\ successes \in Nat

(* The successes that the breaker has counted are those since its last       *)
(* opening, however often it opened, closed and counted before.              *)
BreakerInv == BreakerTypes /\ recovered = successes

-----------------------------------------------------------------------------
(* What a run is after a step of its own, which may leave the current        *)
(* provider only having called it, or if it is not Modal.                    *)
Advances(r) ==
    /\ index' = [index EXCEPT ![r] = @ + 1] /\ pc' = [pc EXCEPT ![r] = "choose"]
    /\ HasNext(r)

GivesUp(r) ==
    /\ \E s \in GivenUp : pc' = [pc EXCEPT ![r] = s]
    /\ UNCHANGED index /\ ~HasNext(r)

Keeps(r) ==
    /\ \E s \in Stage \ GivenUp :
         pc' = [pc EXCEPT ![r] = s] /\ (s = "probe" => Provider(r) = "vast")
    /\ UNCHANGED <<index, refused>>

Leaves(r) ==
    /\ Advances(r) \/ GivesUp(r)
    /\ \/ Provider(r) = "vast" /\ UNCHANGED refused
       \/ refused' = [refused EXCEPT ![r] = @ \cup {Provider(r)}]

LEMMA ProviderType ==
    ASSUME PlanInv, NEW r \in Runs
    PROVE  /\ Len(plan[r]) \in Nat /\ plan[r] \in Seq(Providers)
           /\ Provider(r) \in Providers
           /\ index[r] \in Nat /\ index[r] >= 1 /\ index[r] <= Len(plan[r])
           /\ DOMAIN plan[r] = 1..Len(plan[r])
<1>1. plan[r] \in Seq(Providers)
  BY PlansAssumption DEF PlanInv, RunTypes
<1>2. index[r] \in 1..Len(plan[r])
  BY DEF PlanInv, AtProvider
<1> QED BY <1>1, <1>2 DEF Provider

(* Every step of a run keeps it where it is or leaves its provider so.       *)
LEMMA RunMoves ==
    ASSUME PlanInv, NEW r \in Runs,
           \/ Start(r) \/ ConsiderVast(r) \/ ProbeAnswers(r) \/ ConsiderModal(r)
           \/ CallSucceeds(r) \/ CallRetried(r) \/ CallExhausted(r)
           \/ CallRefused(r) \/ LogThrows(r)
    PROVE  Keeps(r) \/ Leaves(r)
<1>0. pc \in [Runs -> Stage] /\ pc[r] \in Stage /\ (pc[r] = "probe" => Provider(r) = "vast")
  BY DEF PlanInv, RunTypes, AtProvider
<1>c. "call" \in Stage \ GivenUp
  BY DEF Stage, Outcome, GivenUp
<1>1. ASSUME NEW failed, Advance(r, failed) PROVE Advances(r) \/ GivesUp(r)
  BY <1>1 DEF Advance, Advances, GivesUp, GivenUp, Goto
<1>2. CASE Start(r) \/ ConsiderModal(r) \/ CallSucceeds(r) \/ LogThrows(r)
  BY <1>2 DEF Start, ConsiderModal, BeginCalls, CallSucceeds, LogThrows, Goto, Keeps,
              Stage, Outcome, GivenUp
<1>3. CASE ConsiderVast(r)
  <2>1. CASE ~VastEnabled \/ now < openUntil
    BY <1>1, <1>3, <2>1 DEF ConsiderVast, Leaves
  <2>2. CASE ~(~VastEnabled \/ now < openUntil)
    BY <1>3, <2>2 DEF ConsiderVast, Goto, Keeps, Stage, Outcome, GivenUp
  <2> QED BY <2>1, <2>2
<1>4. CASE ProbeAnswers(r)
  <2>1. CASE BeginCalls(r) /\ UNCHANGED <<breaker, index, lastError>>
    BY <1>4, <1>c, <2>1 DEF ProbeAnswers, BeginCalls, Goto, Keeps
  <2>2. CASE Advance(r, lastError[r])
    BY <1>0, <1>1, <1>4, <2>2 DEF ProbeAnswers, Leaves
  <2> QED BY <1>4, <2>1, <2>2 DEF ProbeAnswers
<1>5. CASE CallRetried(r)
  <2>1. pc[r] = "call" /\ pc' = pc /\ UNCHANGED <<index, refused>>
    BY <1>5 DEF CallRetried
  <2>2. pc' = [pc EXCEPT ![r] = "call"]
    BY <1>0, <2>1
  <2> QED BY <1>c, <2>1, <2>2 DEF Keeps
<1>6. CASE CallExhausted(r)
  BY <1>1, <1>6 DEF CallExhausted, Leaves
<1>7. CASE CallRefused(r)
  <2>1. refused' = [refused EXCEPT ![r] = @ \cup {Provider(r)}]
    BY <1>7 DEF CallRefused
  <2>2. CASE HasNext(r)
    BY <1>1, <1>7, <2>1, <2>2 DEF CallRefused, Leaves
  <2>3. CASE ~HasNext(r)
    BY <1>7, <2>1, <2>3 DEF CallRefused, Leaves, GivesUp, GivenUp, Goto
  <2> QED BY <2>2, <2>3
<1> QED BY <1>2, <1>3, <1>4, <1>5, <1>6, <1>7

LEMMA PlanTypesKept ==
    ASSUME PlanInv, NEW r \in Runs, Keeps(r) \/ Leaves(r),
           UNCHANGED plan, lastError' \in [Runs -> BOOLEAN]
    PROVE  RunTypes'
<1>1. Provider(r) \in Providers
  BY ProviderType
<1> QED
  BY <1>1 DEF PlanInv, RunTypes, Keeps, Leaves, Advances, GivesUp, GivenUp, Stage, Outcome

(* The run that moves, and the others.                                       *)
LEMMA RunKept ==
    ASSUME PlanInv, NEW r \in Runs, Keeps(r) \/ Leaves(r), UNCHANGED plan, NEW q \in Runs
    PROVE  (AtProvider(q) /\ ModalWasTried(q))'
<1>0. RunTypes /\ AtProvider(q) /\ ModalWasTried(q) /\ AtProvider(r) /\ ModalWasTried(r)
  BY DEF PlanInv
<1>1. CASE q # r
  BY <1>0, <1>1
     DEF RunTypes, AtProvider, ModalWasTried, DoneWith, Provider, Keeps, Leaves, Advances,
         GivesUp
<1>2. CASE q = r /\ Keeps(r)
  <2>1. PICK s \in Stage \ GivenUp : /\ pc' = [pc EXCEPT ![r] = s]
                                     /\ s = "probe" => Provider(r) = "vast"
    BY <1>2 DEF Keeps
  <2>2. pc'[r] = s /\ UNCHANGED <<index, refused>>
    BY <1>0, <1>2, <2>1 DEF RunTypes, Keeps
  <2> QED BY <1>0, <1>2, <2>1, <2>2 DEF AtProvider, ModalWasTried, DoneWith, Provider
<1>3. CASE q = r /\ Leaves(r)
  <2>1. Provider(r) = "modal" => "modal" \in refused'[r]
    BY <1>0, <1>3 DEF Leaves, RunTypes
  <2>2. refused[r] \subseteq refused'[r]
    BY <1>0, <1>3 DEF Leaves, RunTypes
  <2>3. CASE Advances(r)
    <3>1. pc'[r] = "choose" /\ index'[r] = index[r] + 1 /\ index[r] < Len(plan[r])
      BY <1>0, <2>3 DEF Advances, HasNext, RunTypes
    <3>2. AtProvider(r)'
      BY <3>1, ProviderType DEF AtProvider
    <3>3. ASSUME NEW i \in 1..Len(plan[r]), i < index'[r], plan[r][i] = "modal"
          PROVE  "modal" \in refused'[r]
      <4>1. i < index[r] \/ i = index[r]
        BY <3>1, <3>3, ProviderType
      <4> QED BY <1>0, <2>1, <2>2, <3>3, <4>1 DEF ModalWasTried, DoneWith, Provider
    <3> QED BY <1>3, <3>1, <3>2, <3>3 DEF ModalWasTried, DoneWith, GivenUp
  <2>4. CASE GivesUp(r)
    <3>1. pc'[r] \in GivenUp /\ index'[r] = index[r] /\ index[r] = Len(plan[r])
      BY <1>0, <2>4, ProviderType DEF GivesUp, HasNext, RunTypes
    <3>2. AtProvider(r)'
      BY <3>1, ProviderType DEF AtProvider, GivenUp
    <3>3. ASSUME NEW i \in 1..Len(plan[r]), plan[r][i] = "modal"
          PROVE  "modal" \in refused'[r]
      <4>1. i < index[r] \/ i = index[r]
        BY <3>1, <3>3, ProviderType
      <4> QED BY <1>0, <2>1, <2>2, <3>3, <4>1 DEF ModalWasTried, DoneWith, Provider
    <3> QED BY <1>3, <3>2, <3>3 DEF ModalWasTried
  <2> QED BY <1>3, <2>3, <2>4 DEF Leaves
<1> QED BY <1>1, <1>2, <1>3

LEMMA PlanInvHolds == Spec => []PlanInv
<1>1. Init => PlanInv
  <2> SUFFICES ASSUME Init PROVE PlanInv
    OBVIOUS
  <2>1. RunTypes
    BY DEF Init, RunTypes, Stage, Outcome
  <2>2. ASSUME NEW r \in Runs PROVE AtProvider(r) /\ ModalWasTried(r)
    <3>1. plan[r] \in Seq(Providers) /\ plan[r] # <<>> /\ index[r] = 1 /\ pc[r] = "new"
      BY PlansAssumption DEF Init
    <3> QED BY <3>1 DEF AtProvider, ModalWasTried, DoneWith, GivenUp
  <2> QED BY <2>1, <2>2 DEF PlanInv
<1>2. PlanInv /\ [Next]_vars => PlanInv'
  <2> SUFFICES ASSUME PlanInv, [Next]_vars PROVE PlanInv'
    OBVIOUS
  <2>1. ASSUME NEW r \in Runs,
               \/ Start(r) \/ ConsiderVast(r) \/ ProbeAnswers(r) \/ ConsiderModal(r)
               \/ CallSucceeds(r) \/ CallRetried(r) \/ CallExhausted(r)
               \/ CallRefused(r) \/ LogThrows(r)
        PROVE  PlanInv'
    <3>1. Keeps(r) \/ Leaves(r)
      BY <2>1, RunMoves
    <3>2. UNCHANGED plan /\ lastError' \in [Runs -> BOOLEAN]
      BY <2>1 DEF PlanInv, RunTypes, Start, ConsiderVast, ProbeAnswers, ConsiderModal,
                  CallSucceeds, CallRetried, CallExhausted, CallRefused, LogThrows
    <3> QED BY <3>1, <3>2, PlanTypesKept, RunKept DEF PlanInv
  <2>2. CASE Tick \/ UNCHANGED vars
    BY <2>2 DEF Tick, vars, runVars, PlanInv, RunTypes, AtProvider, ModalWasTried, DoneWith,
                Provider
  <2> QED BY <2>1, <2>2 DEF Next
<1> QED BY <1>1, <1>2, PTL DEF Spec

(* No run gives up without having called Modal, if its plan has it, whatever *)
(* the breaker did and in whatever order its providers failed.               *)
THEOREM ModalIsTriedFirst == Spec => []ModalTriedBeforeGivingUp
<1>1. PlanInv => ModalTriedBeforeGivingUp
  BY ProviderType DEF PlanInv, ModalWasTried, DoneWith, GivenUp, ModalTriedBeforeGivingUp
<1> QED BY <1>1, PlanInvHolds, PTL

-----------------------------------------------------------------------------
(* What a step may do to the breaker.                                        *)
BreakerMoves ==
    \/ \E t \in Nat : Open(t)
    \/ /\ openUntil > 0 /\ successes + 1 >= HalfOpen
       /\ Reset
    \/ /\ successes' = successes + 1 /\ recovered' = recovered + 1
       /\ UNCHANGED <<openUntil, failures>>
    \/ UNCHANGED <<openUntil, successes, recovered>> /\ failures' \in Nat

LEMMA FailureMoves ==
    ASSUME BreakerInv, NEW kind, RecordFailure(kind) PROVE BreakerMoves
<1>1. \/ UNCHANGED breaker
      \/ Open(now)
      \/ failures' = failures + 1 /\ UNCHANGED <<openUntil, successes, recovered>>
  BY Zenon DEF RecordFailure
<1> QED BY <1>1 DEF BreakerMoves, BreakerInv, BreakerTypes, breaker

LEMMA SuccessMoves == ASSUME BreakerInv, RecordSuccess PROVE BreakerMoves
BY DEF RecordSuccess, BreakerMoves, BreakerInv, BreakerTypes

LEMMA BreakerStep ==
    ASSUME BreakerInv, [Next]_vars
    PROVE  BreakerMoves /\ now' \in Nat /\ seen' \in [Runs -> Nat]
<1>0. BreakerTypes
  BY DEF BreakerInv
<1>u. UNCHANGED breaker => BreakerMoves
  BY <1>0 DEF breaker, BreakerMoves, BreakerTypes
<1>1. now' \in Nat /\ seen' \in [Runs -> Nat]
  <2>1. now' \in {now, now + 1}
    BY DEF Next, vars, Start, ConsiderVast, ProbeAnswers, ConsiderModal, CallSucceeds,
           CallRetried, CallExhausted, CallRefused, LogThrows, Tick
  <2>2. seen' = seen \/ \E r \in Runs : seen' = [seen EXCEPT ![r] = now]
    BY DEF Next, vars, runVars, Start, ConsiderVast, ProbeAnswers, ConsiderModal,
           CallSucceeds, CallRetried, CallExhausted, CallRefused, LogThrows, Tick
  <2> QED BY <1>0, <2>1, <2>2 DEF BreakerTypes
<1>2. ASSUME NEW r \in Runs, NEW kind, Account(r, kind) PROVE BreakerMoves
  BY <1>u, <1>2, FailureMoves DEF Account
<1>3. ASSUME NEW r \in Runs, CallSucceeds(r) PROVE BreakerMoves
  BY <1>u, <1>3, SuccessMoves DEF CallSucceeds
<1>4. ASSUME NEW r \in Runs, ProbeAnswers(r) PROVE BreakerMoves
  <2>1. seen[r] \in Nat
    BY <1>0 DEF BreakerTypes
  <2>2. UNCHANGED breaker \/ Open(seen[r])
    BY <1>4 DEF ProbeAnswers
  <2> QED BY <1>u, <2>1, <2>2 DEF BreakerMoves
<1>5. \/ UNCHANGED breaker
      \/ \E r \in Runs : \/ CallSucceeds(r) \/ ProbeAnswers(r)
                         \/ \E kind \in ErrorKind : Account(r, kind)
  BY DEF Next, vars, Start, ConsiderVast, ConsiderModal, CallRetried, CallExhausted,
         CallRefused, LogThrows, Tick, ErrorKind
<1> QED BY <1>u, <1>1, <1>2, <1>3, <1>4, <1>5

LEMMA BreakerInvHolds == Spec => []BreakerInv
<1>1. Init => BreakerInv
  BY DEF Init, BreakerInv, BreakerTypes
<1>2. BreakerInv /\ [Next]_vars => BreakerInv'
  BY BreakerStep, BreakerAssumption DEF BreakerMoves, Open, Reset, BreakerInv, BreakerTypes
<1> QED BY <1>1, <1>2, PTL DEF Spec

(* The breaker never closes on successes from before its last opening,       *)
(* whichever runs call Vast at once and whenever their probes answer.        *)
THEOREM BreakerClosesAfterSuccesses == Spec => ClosesAfterSuccesses
<1>1. ASSUME BreakerInv, [Next]_vars, openUntil > 0, openUntil' = 0
      PROVE  recovered + 1 >= HalfOpen
  BY <1>1, BreakerStep, BreakerAssumption
     DEF BreakerMoves, Open, Reset, BreakerInv, BreakerTypes
<1>2. BreakerInv /\ [Next]_vars
        => [openUntil > 0 /\ openUntil' = 0 => recovered + 1 >= HalfOpen]_vars
  BY <1>1
<1> QED BY <1>2, BreakerInvHolds, PTL DEF Spec, ClosesAfterSuccesses

-----------------------------------------------------------------------------
(* The event stream. *)
Commands == [op : {"subscribe", "unsubscribe"}, channel : Connections]
Messages == [op : {"message"}, version : Nat]

ServiceStates ==
    [entry : Connections \cup {None}, on : [Connections -> Connections \cup {None}],
     count : [Connections -> Int], flag : [Connections -> BOOLEAN], pipe : Seq(Commands)]

StreamTypeOK ==
    /\ version \in Nat /\ outbox \in [Writers -> Seq(Nat)] /\ subscribed \in BOOLEAN
    /\ inbox \in Seq(Commands \cup Messages)
    /\ conn \in [Connections -> ConnState] /\ shown \in [Connections -> Nat]
    /\ service \in ServiceStates

(* q has such a command for the channel, and what is under way has one.    *)
Has(q, op, ch) == \E i \in 1..Len(q) : q[i].op = op /\ q[i].channel = ch
UnderWay(op, ch) == Has(inbox, op, ch) \/ Has(service.pipe, op, ch)

(* Nothing is known of a channel before its connection has created it.     *)
FreshOK ==
    \A c \in Connections : conn[c] \in {"new", "snapshot"} =>
      /\ service.entry # c /\ ~service.flag[c]
      /\ \A d \in Connections : service.on[d] # c
      /\ \A op \in {"subscribe", "unsubscribe"} : ~UnderWay(op, c)

(* The channel of the map has asked for its subscription, and has it unless *)
(* that is still under way or an unsubscribe is.                            *)
AskedOK ==
    service.entry # None =>
      /\ service.flag[service.entry] \/ UnderWay("subscribe", service.entry)
      /\ \/ \E ch \in Connections : UnderWay("unsubscribe", ch)
         \/ ~service.flag[service.entry] /\ ~Has(inbox, "subscribe", service.entry)
         \/ subscribed

StreamInv == StreamTypeOK /\ FreshOK /\ AskedOK

(* A queue with one more entry, and without its first one. *)
LEMMA HasAppend ==
    ASSUME NEW S, NEW q \in Seq(S), NEW e \in S, NEW op, NEW ch
    PROVE  /\ Append(q, e) \in Seq(S)
           /\ Has(Append(q, e), op, ch) <=> Has(q, op, ch) \/ (e.op = op /\ e.channel = ch)
<1> DEFINE r == Append(q, e)
<1>1. /\ r \in Seq(S) /\ Len(q) \in Nat /\ Len(r) = Len(q) + 1
      /\ \A i \in 1..Len(q) : r[i] = q[i]
      /\ r[Len(q) + 1] = e
  OBVIOUS
<1> HIDE DEF r
<1>2. ASSUME Has(r, op, ch) PROVE Has(q, op, ch) \/ (e.op = op /\ e.channel = ch)
  <2>1. PICK i \in 1..Len(r) : r[i].op = op /\ r[i].channel = ch
    BY <1>2 DEF Has
  <2>2. i \in 1..Len(q) \/ i = Len(q) + 1
    BY <1>1
  <2> QED BY <1>1, <2>1, <2>2 DEF Has
<1>3. ASSUME Has(q, op, ch) PROVE Has(r, op, ch)
  BY <1>1, <1>3 DEF Has
<1>4. ASSUME e.op = op, e.channel = ch PROVE Has(r, op, ch)
  BY <1>1, <1>4 DEF Has
<1> QED BY <1>1, <1>2, <1>3, <1>4 DEF r

LEMMA HasTail ==
    ASSUME NEW S, NEW q \in Seq(S), q # <<>>, NEW op, NEW ch
    PROVE  /\ Tail(q) \in Seq(S) /\ Head(q) \in S
           /\ Has(q, op, ch) <=> Has(Tail(q), op, ch) \/ (Head(q).op = op /\ Head(q).channel = ch)
<1> DEFINE r == Tail(q)
           e == Head(q)
<1>1. /\ r \in Seq(S) /\ e \in S /\ Len(q) \in Nat \ {0} /\ Len(r) = Len(q) - 1
      /\ \A i \in 1..Len(r) : r[i] = q[i + 1]
      /\ q[1] = e
  OBVIOUS
<1> HIDE DEF r, e
<1>2. ASSUME Has(q, op, ch) PROVE Has(r, op, ch) \/ (e.op = op /\ e.channel = ch)
  <2>1. PICK i \in 1..Len(q) : q[i].op = op /\ q[i].channel = ch
    BY <1>2 DEF Has
  <2>2. CASE i = 1
    BY <1>1, <2>1, <2>2
  <2>3. CASE i # 1
    <3>1. i - 1 \in 1..Len(r) /\ r[i - 1] = q[i]
      BY <1>1, <2>3
    <3> QED BY <2>1, <3>1 DEF Has
  <2> QED BY <2>2, <2>3
<1>3. ASSUME Has(r, op, ch) PROVE Has(q, op, ch)
  <2>1. PICK i \in 1..Len(r) : r[i].op = op /\ r[i].channel = ch
    BY <1>3 DEF Has
  <2>2. i + 1 \in 1..Len(q)
    BY <1>1
  <2> QED BY <1>1, <2>1, <2>2 DEF Has
<1>4. ASSUME e.op = op, e.channel = ch PROVE Has(q, op, ch)
  <2>1. 1 \in 1..Len(q)
    BY <1>1
  <2> QED BY <1>1, <1>4, <2>1 DEF Has
<1> QED BY <1>1, <1>2, <1>3, <1>4 DEF r, e

(* What the operations of the service change. *)
LEMMA CountChanged ==
    ASSUME NEW s \in ServiceStates, NEW ch \in Connections, NEW n \in Int,
           NEW t, t = [s EXCEPT !.count[ch] = n]
    PROVE  /\ t \in ServiceStates /\ t.entry = s.entry /\ t.on = s.on
           /\ t.flag = s.flag /\ t.pipe = s.pipe
<1> DEFINE count == [s.count EXCEPT ![ch] = n]
<1>1. t = [s EXCEPT !.count = count]
  OBVIOUS
<1>2. count \in [Connections -> Int]
  BY DEF ServiceStates
<1> HIDE DEF count
<1> QED BY <1>1, <1>2 DEF ServiceStates

LEMMA EndDoes ==
    ASSUME NEW s \in ServiceStates, NEW ch \in Connections, NEW t, t = End(s, ch)
    PROVE  /\ t \in ServiceStates /\ t.entry = None /\ t.pipe = s.pipe
           /\ t.flag = [s.flag EXCEPT ![ch] = FALSE]
           /\ \A c \in Connections : t.on[c] = IF s.on[c] = ch THEN None ELSE s.on[c]
<1> DEFINE on == [c \in Connections |-> IF s.on[c] = ch THEN None ELSE s.on[c]]
           n == s.count[ch] - Cardinality(On(s, ch))
           flag == [s.flag EXCEPT ![ch] = FALSE]
           u == [s EXCEPT !.entry = s.entry, !.on = on]
           v == [u EXCEPT !.count[ch] = n]
<1>1. On(s, ch) \subseteq Connections
  BY DEF On
<1>2. n \in Int
  <2>1. Cardinality(On(s, ch)) \in Int
    BY <1>1, ConnectionAssumption, FS_Subset, FS_CardinalityType
  <2> QED BY <2>1 DEF ServiceStates
<1>3. on \in [Connections -> Connections \cup {None}] /\ flag \in [Connections -> BOOLEAN]
      /\ s.entry \in Connections \cup {None}
  BY DEF ServiceStates
<1>4. t = [[s EXCEPT !.on = on, !.count[ch] = n] EXCEPT !.flag = [@ EXCEPT ![ch] = FALSE], !.entry = None]
  BY DEF End, Ended
<1>5. u = [s EXCEPT !.on = on] /\ v = [s EXCEPT !.on = on, !.count[ch] = n]
  BY DEF ServiceStates
<1>6. t = [v EXCEPT !.entry = None, !.flag = [v.flag EXCEPT ![ch] = FALSE]]
  BY <1>4, <1>5
<1> HIDE DEF on, n, flag
<1>7. u \in ServiceStates /\ u.on = on /\ u.flag = s.flag /\ u.pipe = s.pipe
  BY <1>3 DEF ServiceStates
<1> HIDE DEF u
<1>8. v \in ServiceStates /\ v.on = on /\ v.flag = s.flag /\ v.pipe = s.pipe
  BY <1>2, <1>7, CountChanged
<1> HIDE DEF v
<1>9. t = [v EXCEPT !.entry = None, !.flag = flag]
  BY <1>6, <1>8 DEF flag
<1>10. /\ t \in ServiceStates /\ t.entry = None /\ t.flag = flag
       /\ t.on = v.on /\ t.pipe = v.pipe
  BY <1>3, <1>8, <1>9 DEF ServiceStates
<1> QED BY <1>8, <1>10 DEF on, flag

(* A release that ends a channel did not know it subscribed; one that does   *)
(* not end it has sent an unsubscribe at most.                               *)
LEMMA ReleaseDoes ==
    ASSUME NEW s \in ServiceStates, NEW t, t = Release(s)
    PROVE  /\ t \in ServiceStates
           /\ \A c \in Connections : t.on[c] \in {s.on[c], None}
           /\ t.flag = s.flag
           /\ \/ t.entry = s.entry /\ t.pipe = s.pipe
              \/ /\ s.entry # None /\ t.entry = s.entry /\ s.flag[s.entry]
                 /\ t.pipe = Append(s.pipe, Command("unsubscribe", s.entry))
              \/ /\ s.entry # None /\ t.entry = None /\ ~s.flag[s.entry] /\ t.pipe = s.pipe
                 /\ \A c \in Connections : t.on[c] # s.entry
<1> DEFINE ch == s.entry
           u == [s EXCEPT !.count[ch] = @ - 1]
<1>1. CASE ch = None
  BY <1>1 DEF Release
<1>2. CASE ch # None
  <2>1. ch \in Connections
    BY <1>2 DEF ServiceStates
  <2>2. u \in ServiceStates /\ u.entry = ch /\ u.on = s.on /\ u.flag = s.flag /\ u.pipe = s.pipe
    <3>1. s.count[ch] - 1 \in Int /\ u = [s EXCEPT !.count[ch] = s.count[ch] - 1]
      BY <2>1 DEF ServiceStates
    <3> HIDE DEF u
    <3> QED BY <2>1, <3>1, CountChanged
  <2>3. t = IF u.count[ch] > 0 THEN u
            ELSE IF u.flag[ch] THEN [u EXCEPT !.pipe = Append(@, Command("unsubscribe", ch))]
            ELSE End(u, ch)
    BY <1>2 DEF Release
  <2> HIDE DEF u
  <2>4. CASE t = u
    BY <2>2, <2>4
  <2>5. CASE u.flag[ch] /\ t = [u EXCEPT !.pipe = Append(@, Command("unsubscribe", ch))]
    <3>1. Command("unsubscribe", ch) \in Commands
      BY <2>1 DEF Command, Commands
    <3>2. Append(u.pipe, Command("unsubscribe", ch)) \in Seq(Commands)
      BY <2>2, <3>1 DEF ServiceStates
    <3> DEFINE pipe == Append(u.pipe, Command("unsubscribe", ch))
    <3>3. t = [u EXCEPT !.pipe = pipe]
      BY <2>5
    <3> HIDE DEF pipe
    <3>4. t \in ServiceStates /\ t.entry = u.entry /\ t.on = u.on /\ t.flag = u.flag /\ t.pipe = pipe
      BY <2>2, <3>2, <3>3 DEF ServiceStates, pipe
    <3> QED BY <1>2, <2>2, <2>5, <3>4 DEF pipe
  <2>6. CASE ~u.flag[ch] /\ t = End(u, ch)
    <3>1. /\ t \in ServiceStates /\ t.entry = None /\ t.pipe = u.pipe
          /\ t.flag = [u.flag EXCEPT ![ch] = FALSE]
          /\ \A c \in Connections : t.on[c] = IF u.on[c] = ch THEN None ELSE u.on[c]
      BY <2>1, <2>2, <2>6, EndDoes
    <3>2. t.flag = s.flag
      BY <2>1, <2>2, <2>6, <3>1 DEF ServiceStates
    <3>3. \A c \in Connections : t.on[c] \in {s.on[c], None} /\ t.on[c] # s.entry
      BY <1>2, <2>2, <3>1
    <3> QED BY <1>2, <2>2, <2>6, <3>1, <3>2, <3>3
  <2> QED BY <2>3, <2>4, <2>5, <2>6
<1> QED BY <1>1, <1>2

LEMMA SubscribeDoes ==
    ASSUME NEW s \in ServiceStates, NEW c \in Connections, NEW t, t = Subscribe(s, c),
           NEW ch, ch = IF s.entry = None THEN c ELSE s.entry
    PROVE  /\ t \in ServiceStates /\ ch \in Connections
           /\ t.entry = ch /\ t.on = [s.on EXCEPT ![c] = ch] /\ t.flag = s.flag
           /\ t.pipe = IF s.flag[ch] THEN s.pipe ELSE Append(s.pipe, Command("subscribe", ch))
<1> DEFINE u == [s EXCEPT !.entry = ch, !.on[c] = ch, !.count[ch] = @ + 1]
           pipe == Append(u.pipe, Command("subscribe", ch))
<1>1. ch \in Connections
  BY DEF ServiceStates
<1>2. /\ u \in ServiceStates /\ u.entry = ch /\ u.on = [s.on EXCEPT ![c] = ch]
      /\ u.flag = s.flag /\ u.pipe = s.pipe
  <2> DEFINE on == [s.on EXCEPT ![c] = ch]
             v == [s EXCEPT !.entry = ch, !.on = on]
             n == s.count[ch] + 1
  <2>1. on \in [Connections -> Connections \cup {None}] /\ n \in Int
    BY <1>1 DEF ServiceStates
  <2>2. u = [v EXCEPT !.count[ch] = n]
    OBVIOUS
  <2> HIDE DEF on, n, u
  <2>3. v \in ServiceStates /\ v.entry = ch /\ v.on = on /\ v.flag = s.flag /\ v.pipe = s.pipe
    BY <1>1, <2>1 DEF ServiceStates
  <2> HIDE DEF v
  <2> QED BY <1>1, <2>1, <2>2, <2>3, CountChanged DEF on
<1>3. t = IF u.flag[ch] THEN u ELSE [u EXCEPT !.pipe = pipe]
  BY DEF Subscribe
<1> HIDE DEF u
<1>4. Command("subscribe", ch) \in Commands
  BY <1>1 DEF Command, Commands
<1>5. pipe \in Seq(Commands)
  BY <1>2, <1>4 DEF ServiceStates
<1>6. pipe = Append(s.pipe, Command("subscribe", ch))
  BY <1>2
<1> HIDE DEF pipe
<1>7. CASE ~u.flag[ch]
  <2>1. LET v == [u EXCEPT !.pipe = pipe]
        IN  /\ v \in ServiceStates /\ v.entry = u.entry /\ v.on = u.on /\ v.flag = u.flag
            /\ v.pipe = pipe
    BY <1>2, <1>5 DEF ServiceStates
  <2> QED BY <1>1, <1>2, <1>3, <1>6, <1>7, <2>1
<1> QED BY <1>1, <1>2, <1>3, <1>7

-----------------------------------------------------------------------------
(* What a close leaves of the service. *)
LEMMA CloseDoes ==
    ASSUME StreamTypeOK, NEW c \in Connections, Close(c)
    PROVE  LET s == service
               t == service'
           IN  /\ t \in ServiceStates
               /\ \A d \in Connections : t.on[d] \in {s.on[d], None}
               /\ t.flag = s.flag
               /\ \/ t.entry = s.entry /\ t.pipe = s.pipe
                  \/ /\ s.entry # None /\ t.entry = s.entry /\ s.flag[s.entry]
                     /\ t.pipe = Append(s.pipe, Command("unsubscribe", s.entry))
                  \/ /\ s.entry # None /\ t.entry = None /\ ~s.flag[s.entry] /\ t.pipe = s.pipe
                     /\ \A d \in Connections : t.on[d] # s.entry
<1> DEFINE s == service
           on == [s.on EXCEPT ![c] = None]
           u == [s EXCEPT !.on = on]
<1>1. s \in ServiceStates
  BY DEF StreamTypeOK
<1>2. CASE service' = s
  BY <1>1, <1>2
<1>3. CASE service' = Release(u)
  <2>1. on \in [Connections -> Connections \cup {None}]
        /\ \A d \in Connections : on[d] \in {s.on[d], None}
    BY <1>1 DEF ServiceStates
  <2> HIDE DEF on, s
  <2>2. u \in ServiceStates /\ u.entry = s.entry /\ u.on = on /\ u.flag = s.flag /\ u.pipe = s.pipe
    BY <1>1, <2>1 DEF ServiceStates
  <2> HIDE DEF u
  <2> DEFINE t == service'
  <2>3. t = Release(u)
    BY <1>3
  <2> HIDE DEF t
  <2>4. /\ t \in ServiceStates
        /\ \A d \in Connections : t.on[d] \in {u.on[d], None}
        /\ t.flag = u.flag
        /\ \/ t.entry = u.entry /\ t.pipe = u.pipe
           \/ /\ u.entry # None /\ t.entry = u.entry /\ u.flag[u.entry]
              /\ t.pipe = Append(u.pipe, Command("unsubscribe", u.entry))
           \/ /\ u.entry # None /\ t.entry = None /\ ~u.flag[u.entry] /\ t.pipe = u.pipe
              /\ \A d \in Connections : t.on[d] # u.entry
    BY <2>2, <2>3, ReleaseDoes
  <2>5. \A d \in Connections : t.on[d] \in {s.on[d], None}
    BY <2>1, <2>2, <2>4
  <2> QED BY <2>2, <2>4, <2>5 DEF t, s
<1> QED BY <1>2, <1>3 DEF Close

LEMMA StreamTypesKept ==
    ASSUME StreamTypeOK, [StreamNext]_streamVars PROVE StreamTypeOK'
<1> USE DEF StreamTypeOK
<1>1. CASE UNCHANGED streamVars
  BY <1>1 DEF streamVars
<1>2. ASSUME NEW w \in Writers, Write(w) PROVE StreamTypeOK'
  <2>1. version' \in Nat /\ outbox' \in [Writers -> Seq(Nat)]
    BY <1>2 DEF Write
  <2> QED BY <1>2, <2>1 DEF Write
<1>3. ASSUME NEW w \in Writers, RedisPublishes(w) PROVE StreamTypeOK'
  <2> DEFINE e == [op |-> "message", version |-> Head(outbox[w])]
  <2>1. outbox[w] \in Seq(Nat) /\ outbox[w] # <<>>
    BY <1>3 DEF RedisPublishes
  <2>2. Head(outbox[w]) \in Nat /\ Tail(outbox[w]) \in Seq(Nat)
    BY <2>1
  <2>3. e \in Commands \cup Messages
    BY <2>2 DEF Messages
  <2> HIDE DEF e
  <2>4. inbox' \in Seq(Commands \cup Messages)
    <3>1. inbox' = IF subscribed THEN Append(inbox, e) ELSE inbox
      BY <1>3 DEF RedisPublishes, e
    <3> QED BY <2>3, <3>1
  <2>5. outbox' \in [Writers -> Seq(Nat)]
    BY <1>3, <2>2 DEF RedisPublishes
  <2> QED BY <1>3, <2>4, <2>5 DEF RedisPublishes
<1>4. CASE RedisExecutes
  <2>1. service.pipe \in Seq(Commands) /\ service.pipe # <<>>
    BY <1>4 DEF RedisExecutes, ServiceStates
  <2>2. Head(service.pipe) \in Commands /\ Tail(service.pipe) \in Seq(Commands)
    BY <2>1
  <2>3. inbox' \in Seq(Commands \cup Messages)
    BY <1>4, <2>2 DEF RedisExecutes
  <2>4. service' \in ServiceStates
    BY <1>4, <2>2 DEF RedisExecutes, ServiceStates
  <2> QED BY <1>4, <2>3, <2>4 DEF RedisExecutes
<1>5. ASSUME NEW c \in Connections, ReadSnapshot(c) PROVE StreamTypeOK'
  BY <1>5 DEF ReadSnapshot, ConnState
<1>6. ASSUME NEW c \in Connections, OpenStream(c) PROVE StreamTypeOK'
  <2>1. service' \in ServiceStates
    BY <1>6, SubscribeDoes DEF OpenStream
  <2> QED BY <1>6, <2>1 DEF OpenStream, ConnState
<1>7. ASSUME NEW c \in Connections, Close(c) PROVE StreamTypeOK'
  <2>1. service' \in ServiceStates
    BY <1>7, CloseDoes
  <2> QED BY <1>7, <2>1 DEF Close, ConnState
<1>8. CASE ReceiveMessage
  <2>1. inbox # <<>> /\ Head(inbox) \in Commands \cup Messages /\ Head(inbox).op = "message"
        /\ Tail(inbox) \in Seq(Commands \cup Messages)
    BY <1>8 DEF ReceiveMessage
  <2>2. Head(inbox).version \in Nat
    BY <2>1 DEF Commands, Messages
  <2> QED BY <1>8, <2>1, <2>2 DEF ReceiveMessage
<1>9. CASE ReceiveAnswer
  <2> DEFINE e == Head(inbox)
  <2>1. e \in Commands \cup Messages /\ e.op # "message" /\ Tail(inbox) \in Seq(Commands \cup Messages)
    BY <1>9 DEF ReceiveAnswer
  <2>2. e \in Commands
    BY <2>1 DEF Messages
  <2>3. e.channel \in Connections
    BY <2>2 DEF Commands
  <2> DEFINE ch == e.channel
             flag == [service.flag EXCEPT ![ch] = TRUE]
  <2>4. CASE service' = [service EXCEPT !.flag[ch] = TRUE]
    <3>1. flag \in [Connections -> BOOLEAN]
      BY <2>3 DEF ServiceStates
    <3>2. service' = [service EXCEPT !.flag = flag]
      BY <2>4
    <3> HIDE DEF flag
    <3>3. service' \in ServiceStates
      BY <3>1, <3>2 DEF ServiceStates
    <3> QED BY <1>9, <2>1, <3>3 DEF ReceiveAnswer
  <2>5. CASE service' = End(service, ch)
    <3>1. service' \in ServiceStates
      BY <2>3, <2>5, EndDoes
    <3> QED BY <1>9, <2>1, <3>1 DEF ReceiveAnswer
  <2> QED BY <1>9, <2>4, <2>5 DEF ReceiveAnswer
<1> HIDE DEF StreamTypeOK
<1> QED BY <1>1, <1>2, <1>3, <1>4, <1>5, <1>6, <1>7, <1>8, <1>9 DEF StreamNext, Deliver

-----------------------------------------------------------------------------
(* What a step does to the commands and answers under way. *)
Ops == {"subscribe", "unsubscribe"}

LEMMA CommandFields == ASSUME NEW op, NEW ch PROVE Command(op, ch).op = op /\ Command(op, ch).channel = ch
BY DEF Command

LEMMA PublishKeeps ==
    ASSUME StreamTypeOK, NEW w \in Writers, RedisPublishes(w), NEW op \in Ops, NEW ch
    PROVE  (Has(inbox', op, ch) <=> Has(inbox, op, ch)) /\ service' = service
<1> DEFINE e == [op |-> "message", version |-> Head(outbox[w])]
<1>1. e \in Commands \cup Messages
  <2>1. Head(outbox[w]) \in Nat
    BY DEF StreamTypeOK, RedisPublishes
  <2> QED BY <2>1 DEF Messages
<1>2. inbox' = inbox \/ inbox' = Append(inbox, e)
  BY DEF RedisPublishes
<1>3. e.op # op
  BY DEF Ops
<1> HIDE DEF e
<1>4. Has(Append(inbox, e), op, ch) <=> Has(inbox, op, ch)
  BY <1>1, <1>3, HasAppend DEF StreamTypeOK
<1> QED BY <1>2, <1>4 DEF RedisPublishes

LEMMA ExecuteMoves ==
    ASSUME StreamTypeOK, RedisExecutes, NEW op, NEW ch
    PROVE  LET e == Head(service.pipe)
           IN  /\ e \in Commands
               /\ Has(inbox', op, ch) <=> Has(inbox, op, ch) \/ (e.op = op /\ e.channel = ch)
               /\ Has(service.pipe, op, ch)
                    <=> Has(service'.pipe, op, ch) \/ (e.op = op /\ e.channel = ch)
               /\ service'.entry = service.entry /\ service'.on = service.on
               /\ service'.flag = service.flag
               /\ subscribed' = (e.op = "subscribe")
<1> DEFINE e == Head(service.pipe)
<1>1. service.pipe \in Seq(Commands) /\ service.pipe # <<>> /\ inbox \in Seq(Commands \cup Messages)
  BY DEF StreamTypeOK, RedisExecutes, ServiceStates
<1>2. /\ service'.pipe = Tail(service.pipe) /\ inbox' = Append(inbox, e)
      /\ service'.entry = service.entry /\ service'.on = service.on
      /\ service'.flag = service.flag /\ subscribed' = (e.op = "subscribe")
  BY DEF RedisExecutes, StreamTypeOK, ServiceStates
<1>3. e \in Commands
  BY <1>1
<1> HIDE DEF e
<1>4. Has(Append(inbox, e), op, ch) <=> Has(inbox, op, ch) \/ (e.op = op /\ e.channel = ch)
  BY <1>1, <1>3, HasAppend
<1>5. Has(service.pipe, op, ch) <=> Has(Tail(service.pipe), op, ch) \/ (e.op = op /\ e.channel = ch)
  BY <1>1, HasTail DEF e
<1> QED BY <1>2, <1>3, <1>4, <1>5 DEF e

LEMMA ReceiveTakes ==
    ASSUME StreamTypeOK, inbox # <<>>, inbox' = Tail(inbox), NEW op, NEW ch
    PROVE  Has(inbox, op, ch) <=> Has(inbox', op, ch) \/ (Head(inbox).op = op /\ Head(inbox).channel = ch)
BY HasTail DEF StreamTypeOK

LEMMA OpenDoes ==
    ASSUME StreamTypeOK, NEW c \in Connections, OpenStream(c),
           NEW ch, ch = IF service.entry = None THEN c ELSE service.entry
    PROVE  /\ ch \in Connections /\ service'.entry = ch /\ service'.flag = service.flag
           /\ service'.on = [service.on EXCEPT ![c] = ch]
           /\ inbox' = inbox /\ subscribed' = subscribed
           /\ \A op, x : Has(service'.pipe, op, x) <=>
                 Has(service.pipe, op, x) \/ (~service.flag[ch] /\ op = "subscribe" /\ x = ch)
           /\ service'.pipe = IF service.flag[ch] THEN service.pipe
                              ELSE Append(service.pipe, Command("subscribe", ch))
<1>1. service \in ServiceStates /\ service' = Subscribe(service, c)
  BY DEF StreamTypeOK, OpenStream
<1>2. /\ ch \in Connections /\ service'.entry = ch /\ service'.flag = service.flag
      /\ service'.on = [service.on EXCEPT ![c] = ch]
      /\ service'.pipe = IF service.flag[ch] THEN service.pipe
                         ELSE Append(service.pipe, Command("subscribe", ch))
  BY <1>1, SubscribeDoes
<1>3. Command("subscribe", ch) \in Commands /\ service.pipe \in Seq(Commands)
  BY <1>1, <1>2 DEF Command, Commands, ServiceStates
<1>4. \A op, x : Has(Append(service.pipe, Command("subscribe", ch)), op, x) <=>
                 Has(service.pipe, op, x) \/ (op = "subscribe" /\ x = ch)
  BY <1>3, HasAppend, CommandFields
<1> QED BY <1>2, <1>4 DEF OpenStream

(* An unsubscribe is sent for the channel of the map only, when it knows     *)
(* that it is subscribed.                                                    *)
LEMMA ClosePipe ==
    ASSUME StreamTypeOK, NEW c \in Connections, Close(c)
    PROVE  /\ \A op, x : Has(service.pipe, op, x) => Has(service'.pipe, op, x)
           /\ \A op, x : Has(service'.pipe, op, x) =>
                \/ Has(service.pipe, op, x)
                \/ /\ op = "unsubscribe" /\ x = service.entry /\ x \in Connections
                   /\ service.flag[x] /\ service'.entry = x
           /\ inbox' = inbox /\ subscribed' = subscribed
<1>1. inbox' = inbox /\ subscribed' = subscribed
  BY DEF Close
<1>2. \/ service'.pipe = service.pipe
      \/ /\ service.entry \in Connections /\ service.flag[service.entry]
         /\ service'.entry = service.entry
         /\ service'.pipe = Append(service.pipe, Command("unsubscribe", service.entry))
  BY CloseDoes DEF StreamTypeOK, ServiceStates
<1>3. CASE service'.pipe = service.pipe
  BY <1>1, <1>3
<1>4. CASE /\ service.entry \in Connections /\ service.flag[service.entry]
           /\ service'.entry = service.entry
           /\ service'.pipe = Append(service.pipe, Command("unsubscribe", service.entry))
  <2>1. Command("unsubscribe", service.entry) \in Commands /\ service.pipe \in Seq(Commands)
    BY <1>4 DEF Command, Commands, StreamTypeOK, ServiceStates
  <2>2. \A op, x : Has(service'.pipe, op, x) <=>
                   Has(service.pipe, op, x) \/ (op = "unsubscribe" /\ x = service.entry)
    BY <1>4, <2>1, HasAppend, CommandFields
  <2> QED BY <1>1, <1>4, <2>2
<1> QED BY <1>2, <1>3, <1>4

(* An answer to a subscribe sets the flag of its channel; one to an          *)
(* unsubscribe ends its channel.                                             *)
LEMMA AnswerDoes ==
    ASSUME StreamTypeOK, ReceiveAnswer
    PROVE  LET e == Head(inbox)
           IN  /\ e \in Commands /\ service'.pipe = service.pipe /\ subscribed' = subscribed
               /\ inbox # <<>> /\ inbox' = Tail(inbox) /\ conn' = conn
               /\ e.op = "subscribe" =>
                    /\ service'.entry = service.entry /\ service'.on = service.on
                    /\ service'.flag = [service.flag EXCEPT ![e.channel] = TRUE]
               /\ e.op = "unsubscribe" =>
                    /\ service'.entry = None
                    /\ service'.flag = [service.flag EXCEPT ![e.channel] = FALSE]
                    /\ \A c \in Connections : service'.on[c] =
                         IF service.on[c] = e.channel THEN None ELSE service.on[c]
<1> DEFINE e == Head(inbox)
<1>1. e \in Commands
  BY DEF ReceiveAnswer, StreamTypeOK, Messages
<1>2. e.channel \in Connections /\ e.op \in {"subscribe", "unsubscribe"}
  BY <1>1 DEF Commands
<1>3. service \in ServiceStates
  BY DEF StreamTypeOK
<1>4. CASE e.op = "subscribe"
  <2>1. service' = [service EXCEPT !.flag[e.channel] = TRUE]
    BY <1>4 DEF ReceiveAnswer
  <2>2. /\ service'.entry = service.entry /\ service'.on = service.on
        /\ service'.flag = [service.flag EXCEPT ![e.channel] = TRUE]
        /\ service'.pipe = service.pipe
    BY <1>3, <2>1 DEF ServiceStates
  <2> QED BY <1>1, <1>4, <2>2 DEF ReceiveAnswer
<1>5. CASE e.op = "unsubscribe"
  <2>1. service' = End(service, e.channel)
    BY <1>5 DEF ReceiveAnswer
  <2> DEFINE t == service'
             ch == e.channel
  <2> HIDE DEF t, ch
  <2>2. t = End(service, ch) /\ ch \in Connections
    BY <1>2, <2>1 DEF t, ch
  <2>3. /\ t.entry = None /\ t.pipe = service.pipe /\ t.flag = [service.flag EXCEPT ![ch] = FALSE]
        /\ \A c \in Connections : t.on[c] = IF service.on[c] = ch THEN None ELSE service.on[c]
    BY <1>3, <2>2, EndDoes
  <2> QED BY <1>1, <1>5, <2>3 DEF ReceiveAnswer, t, ch
<1> QED BY <1>2, <1>4, <1>5

-----------------------------------------------------------------------------
LEMMA StreamKept == StreamInv /\ [StreamNext]_streamVars => StreamInv'
<1> SUFFICES ASSUME StreamInv, [StreamNext]_streamVars PROVE StreamInv'
  OBVIOUS
<1>0. StreamTypeOK /\ StreamTypeOK' /\ FreshOK /\ AskedOK
  BY StreamTypesKept DEF StreamInv
<1> SUFFICES FreshOK' /\ AskedOK'
  BY <1>0 DEF StreamInv
<1>a. service \in ServiceStates
  BY <1>0 DEF StreamTypeOK
<1>b. ASSUME UNCHANGED <<subscribed, conn>>, service'.entry = service.entry,
             service'.on = service.on, service'.flag = service.flag,
             service'.pipe = service.pipe,
             \A op \in Ops : \A ch : Has(inbox', op, ch) <=> Has(inbox, op, ch)
      PROVE  FreshOK' /\ AskedOK'
  <2>1. \A op \in Ops : \A ch : UnderWay(op, ch)' <=> UnderWay(op, ch)
    BY <1>b DEF UnderWay
  <2>2. Ops = {"subscribe", "unsubscribe"}
    BY DEF Ops
  <2>3. FreshOK'
    BY <1>0, <1>b, <2>1, <2>2 DEF FreshOK
  <2>4. \A ch : UnderWay("subscribe", ch)' <=> UnderWay("subscribe", ch)
    BY <2>1, <2>2
  <2>5. \A ch : UnderWay("unsubscribe", ch)' <=> UnderWay("unsubscribe", ch)
    BY <2>1, <2>2
  <2>6. \A ch : Has(inbox', "subscribe", ch) <=> Has(inbox, "subscribe", ch)
    BY <1>b, <2>2
  <2>7. AskedOK'
    BY <1>0, <1>b, <2>4, <2>5, <2>6 DEF AskedOK
  <2> QED BY <2>3, <2>7
<1>1. CASE UNCHANGED streamVars
  BY <1>1, <1>b DEF streamVars
<1>2. ASSUME NEW w \in Writers, Write(w) PROVE FreshOK' /\ AskedOK'
  BY <1>2, <1>b DEF Write
<1>3. ASSUME NEW w \in Writers, RedisPublishes(w) PROVE FreshOK' /\ AskedOK'
  <2>1. UNCHANGED <<subscribed, conn, service>>
    BY <1>3 DEF RedisPublishes
  <2>2. \A op \in Ops : \A ch : Has(inbox', op, ch) <=> Has(inbox, op, ch)
    BY <1>0, <1>3, PublishKeeps
  <2> QED BY <1>b, <2>1, <2>2
<1>4. CASE RedisExecutes
  <2> DEFINE e == Head(service.pipe)
  <2>1. /\ e \in Commands /\ service'.entry = service.entry /\ service'.on = service.on
        /\ service'.flag = service.flag /\ subscribed' = (e.op = "subscribe")
        /\ \A op, ch :
             /\ Has(inbox', op, ch) <=> Has(inbox, op, ch) \/ (e.op = op /\ e.channel = ch)
             /\ Has(service.pipe, op, ch)
                    <=> Has(service'.pipe, op, ch) \/ (e.op = op /\ e.channel = ch)
    BY <1>0, <1>4, ExecuteMoves
  <2> HIDE DEF e
  <2>2. \A op, ch : UnderWay(op, ch)' <=> UnderWay(op, ch)
    BY <2>1 DEF UnderWay
  <2>3. conn' = conn
    BY <1>4 DEF RedisExecutes
  <2>4. FreshOK'
    BY <1>0, <2>1, <2>2, <2>3 DEF FreshOK
  <2>5. e.op = "subscribe" \/ \E ch \in Connections : UnderWay("unsubscribe", ch)'
    <3>1. e.op \in Ops /\ e.channel \in Connections
      BY <2>1 DEF Commands, Ops
    <3>2. UnderWay(e.op, e.channel)
      BY <2>1 DEF UnderWay
    <3> QED BY <2>2, <3>1, <3>2 DEF Ops
  <2>6. AskedOK'
    BY <1>0, <2>1, <2>2, <2>5 DEF AskedOK
  <2> QED BY <2>4, <2>6
<1>5. ASSUME NEW c \in Connections, ReadSnapshot(c) PROVE FreshOK' /\ AskedOK'
  <2>1. UNCHANGED <<service, inbox, subscribed>>
        /\ \A d \in Connections : conn'[d] \in {"new", "snapshot"} => conn[d] \in {"new", "snapshot"}
    BY <1>0, <1>5 DEF ReadSnapshot, StreamTypeOK
  <2>2. FreshOK'
    BY <1>0, <2>1 DEF FreshOK, UnderWay
  <2>3. AskedOK'
    BY <1>0, <2>1 DEF AskedOK, UnderWay
  <2> QED BY <2>2, <2>3
<1>6. ASSUME NEW c \in Connections, OpenStream(c) PROVE FreshOK' /\ AskedOK'
  <2>0. PICK ch : ch = IF service.entry = None THEN c ELSE service.entry
    OBVIOUS
  <2>1. /\ ch \in Connections /\ service'.entry = ch /\ service'.flag = service.flag
        /\ service'.on = [service.on EXCEPT ![c] = ch]
        /\ inbox' = inbox /\ subscribed' = subscribed
        /\ \A op, x : Has(service'.pipe, op, x) <=>
              Has(service.pipe, op, x) \/ (~service.flag[ch] /\ op = "subscribe" /\ x = ch)
    BY <1>0, <1>6, <2>0, OpenDoes
  <2>2. /\ conn[c] = "snapshot" /\ conn' = [conn EXCEPT ![c] = "live"]
        /\ conn \in [Connections -> ConnState]
    BY <1>0, <1>6 DEF OpenStream, StreamTypeOK
  <2>3. ~service.flag[c] /\ service.entry # c /\ ~UnderWay("subscribe", c)
    BY <1>0, <2>2 DEF FreshOK
  <2>4. ch # None
    BY <2>1, ConnectionAssumption
  <2>5. \A d \in Connections : conn'[d] \in {"new", "snapshot"} =>
             d # c /\ conn[d] \in {"new", "snapshot"} /\ d # ch
    <3>1. \A d \in Connections : conn'[d] \in {"new", "snapshot"} => d # c /\ conn[d] = conn'[d]
      BY <2>2
    <3>2. \A d \in Connections : conn[d] \in {"new", "snapshot"} => service.entry # d
      BY <1>0 DEF FreshOK
    <3> QED BY <2>0, <3>1, <3>2
  <2> DEFINE old == service.entry
  <2>6. ch \in {c, old} /\ (old = None => ch = c) /\ (old # None => ch = old)
    BY <2>0
  <2>7. \A d \in Connections : service'.on[d] \in {service.on[d], ch}
    BY <1>a, <2>1 DEF ServiceStates
  <2>8. FreshOK'
    <3> SUFFICES ASSUME NEW d \in Connections, conn'[d] \in {"new", "snapshot"}
                 PROVE  /\ service'.entry # d /\ ~service'.flag[d]
                        /\ \A x \in Connections : service'.on[x] # d
                        /\ \A op \in {"subscribe", "unsubscribe"} : ~UnderWay(op, d)'
      BY DEF FreshOK
    <3>1. d # ch /\ conn[d] \in {"new", "snapshot"}
      BY <2>5
    <3>2. /\ service.entry # d /\ ~service.flag[d]
          /\ \A x \in Connections : service.on[x] # d
          /\ \A op \in {"subscribe", "unsubscribe"} : ~UnderWay(op, d)
      BY <1>0, <3>1 DEF FreshOK
    <3>3. \A op \in {"subscribe", "unsubscribe"} : ~UnderWay(op, d)'
      BY <2>1, <3>1, <3>2 DEF UnderWay
    <3> QED BY <2>1, <2>7, <3>1, <3>2, <3>3
  <2>9. AskedOK'
    <3>0. Has(service'.pipe, "subscribe", ch) <=>
              Has(service.pipe, "subscribe", ch) \/ ~service.flag[ch]
      BY <2>1
    <3>1. service'.flag[ch] \/ UnderWay("subscribe", ch)'
      BY <2>1, <3>0 DEF UnderWay
    <3>2. \/ \E x \in Connections : UnderWay("unsubscribe", x)'
          \/ ~service'.flag[ch] /\ ~Has(inbox', "subscribe", ch)
          \/ subscribed'
      <4>1. CASE old = None
        BY <2>1, <2>3, <2>6, <4>1 DEF UnderWay
      <4>2. CASE old # None
        <5>1. \/ \E x \in Connections : UnderWay("unsubscribe", x)
              \/ ~service.flag[ch] /\ ~Has(inbox, "subscribe", ch)
              \/ subscribed
          BY <1>0, <2>6, <4>2 DEF AskedOK
        <5>2. \A x \in Connections : UnderWay("unsubscribe", x) => UnderWay("unsubscribe", x)'
          BY <2>1 DEF UnderWay
        <5> QED BY <2>1, <5>1, <5>2
      <4> QED BY <4>1, <4>2
    <3>3. service'.entry = ch
      BY <2>1
    <3> QED BY <3>1, <3>2, <3>3 DEF AskedOK
  <2> QED BY <2>8, <2>9
<1>7. ASSUME NEW c \in Connections, Close(c) PROVE FreshOK' /\ AskedOK'
  <2>1. /\ \A d \in Connections : service'.on[d] \in {service.on[d], None}
        /\ service'.flag = service.flag /\ service'.entry \in {service.entry, None}
    BY <1>0, <1>7, CloseDoes
  <2>2. /\ \A op, x : Has(service.pipe, op, x) => Has(service'.pipe, op, x)
        /\ \A op, x : Has(service'.pipe, op, x) =>
                \/ Has(service.pipe, op, x)
                \/ /\ op = "unsubscribe" /\ x = service.entry /\ x \in Connections
                   /\ service.flag[x] /\ service'.entry = x
        /\ inbox' = inbox /\ subscribed' = subscribed
    BY <1>0, <1>7, ClosePipe
  <2>3. \A d \in Connections : conn'[d] \in {"new", "snapshot"} => conn[d] \in {"new", "snapshot"}
    BY <1>0, <1>7 DEF Close, StreamTypeOK
  <2>4. FreshOK'
    <3> SUFFICES ASSUME NEW d \in Connections, conn'[d] \in {"new", "snapshot"}
                 PROVE  /\ service'.entry # d /\ ~service'.flag[d]
                        /\ \A x \in Connections : service'.on[x] # d
                        /\ \A op \in {"subscribe", "unsubscribe"} : ~UnderWay(op, d)'
      BY DEF FreshOK
    <3>1. /\ service.entry # d /\ ~service.flag[d]
          /\ \A x \in Connections : service.on[x] # d
          /\ \A op \in {"subscribe", "unsubscribe"} : ~UnderWay(op, d)
      BY <1>0, <2>3 DEF FreshOK
    <3>2. d # None
      BY ConnectionAssumption
    <3>3. \A op \in {"subscribe", "unsubscribe"} : ~UnderWay(op, d)'
      BY <2>2, <3>1 DEF UnderWay
    <3> QED BY <2>1, <3>1, <3>2, <3>3
  <2>5. \A op, x : UnderWay(op, x) => UnderWay(op, x)'
    BY <2>2 DEF UnderWay
  <2>6. AskedOK'
    BY <1>0, <2>1, <2>2, <2>5 DEF AskedOK
  <2> QED BY <2>4, <2>6
<1>8. CASE ReceiveMessage
  <2>1. UNCHANGED <<subscribed, conn, service>> /\ inbox # <<>> /\ inbox' = Tail(inbox)
        /\ Head(inbox).op = "message"
    BY <1>8 DEF ReceiveMessage
  <2>2. \A op \in Ops : \A ch : Has(inbox', op, ch) <=> Has(inbox, op, ch)
    BY <1>0, <2>1, ReceiveTakes DEF Ops
  <2> QED BY <1>b, <2>1, <2>2
<1>9. CASE ReceiveAnswer
  <2> DEFINE e == Head(inbox)
  <2>1. /\ e \in Commands /\ service'.pipe = service.pipe /\ subscribed' = subscribed
        /\ inbox # <<>> /\ inbox' = Tail(inbox) /\ conn' = conn
        /\ e.op = "subscribe" =>
             /\ service'.entry = service.entry /\ service'.on = service.on
             /\ service'.flag = [service.flag EXCEPT ![e.channel] = TRUE]
        /\ e.op = "unsubscribe" =>
             /\ service'.entry = None
             /\ service'.flag = [service.flag EXCEPT ![e.channel] = FALSE]
             /\ \A c \in Connections : service'.on[c] =
                  IF service.on[c] = e.channel THEN None ELSE service.on[c]
    BY <1>0, <1>9, AnswerDoes
  <2>2. \A op, ch : Has(inbox, op, ch) <=> Has(inbox', op, ch) \/ (e.op = op /\ e.channel = ch)
    BY <1>0, <2>1, ReceiveTakes
  <2> HIDE DEF e
  <2>3. e.op \in {"subscribe", "unsubscribe"} /\ e.channel \in Connections
    BY <2>1 DEF Commands
  <2>4. UnderWay(e.op, e.channel)
    BY <2>2 DEF UnderWay
  <2>5. \A op, ch : UnderWay(op, ch)' => UnderWay(op, ch)
    BY <2>1, <2>2 DEF UnderWay
  <2>6. FreshOK'
    <3> SUFFICES ASSUME NEW d \in Connections, conn'[d] \in {"new", "snapshot"}
                 PROVE  /\ service'.entry # d /\ ~service'.flag[d]
                        /\ \A x \in Connections : service'.on[x] # d
                        /\ \A op \in {"subscribe", "unsubscribe"} : ~UnderWay(op, d)'
      BY DEF FreshOK
    <3>1. /\ service.entry # d /\ ~service.flag[d] /\ d # None
          /\ \A x \in Connections : service.on[x] # d
          /\ \A op \in {"subscribe", "unsubscribe"} : ~UnderWay(op, d)
      BY <1>0, <2>1, ConnectionAssumption DEF FreshOK
    <3>2. e.channel # d
      BY <2>3, <2>4, <3>1
    <3>3. ~service'.flag[d]
      BY <1>a, <2>1, <2>3, <3>1, <3>2 DEF ServiceStates
    <3>4. service'.entry # d /\ \A x \in Connections : service'.on[x] # d
      BY <2>1, <2>3, <3>1
    <3> QED BY <2>5, <3>1, <3>3, <3>4
  <2>7. AskedOK'
    <3>1. CASE e.op = "unsubscribe"
      BY <2>1, <3>1 DEF AskedOK
    <3>2. CASE e.op = "subscribe"
      <4>0. PICK ch : ch = service.entry
        OBVIOUS
      <4>1. SUFFICES ASSUME ch # None
                     PROVE  /\ service'.flag[ch] \/ UnderWay("subscribe", ch)'
                            /\ \/ \E x \in Connections : UnderWay("unsubscribe", x)'
                               \/ ~service'.flag[ch] /\ ~Has(inbox', "subscribe", ch)
                               \/ subscribed'
        BY <2>1, <3>2, <4>0 DEF AskedOK
      <4>2. ch \in Connections
        BY <1>a, <4>0, <4>1 DEF ServiceStates
      <4>3. /\ service.flag[ch] \/ UnderWay("subscribe", ch)
            /\ \/ \E x \in Connections : UnderWay("unsubscribe", x)
               \/ ~service.flag[ch] /\ ~Has(inbox, "subscribe", ch)
               \/ subscribed
        BY <1>0, <4>0, <4>1 DEF AskedOK
      <4>4. \A x : UnderWay("unsubscribe", x) => UnderWay("unsubscribe", x)'
        BY <2>1, <2>2, <3>2 DEF UnderWay
      <4>5. service'.flag = [service.flag EXCEPT ![e.channel] = TRUE]
            /\ service.flag \in [Connections -> BOOLEAN]
        BY <1>a, <2>1, <3>2 DEF ServiceStates
      <4>6. CASE e.channel = ch
        <5>1. service'.flag[ch]
          BY <4>2, <4>5, <4>6
        <5>2. Has(inbox, "subscribe", ch)
          BY <2>2, <3>2, <4>6
        <5> QED BY <2>1, <4>3, <4>4, <5>1, <5>2
      <4>7. CASE e.channel # ch
        <5>1. service'.flag[ch] = service.flag[ch]
          BY <4>2, <4>5, <4>7
        <5>2. Has(inbox', "subscribe", ch) <=> Has(inbox, "subscribe", ch)
          BY <2>2, <4>7
        <5>3. Has(service'.pipe, "subscribe", ch) <=> Has(service.pipe, "subscribe", ch)
          BY <2>1
        <5>4. UnderWay("subscribe", ch)' <=> UnderWay("subscribe", ch)
          BY <5>2, <5>3 DEF UnderWay
        <5> QED BY <2>1, <4>3, <4>4, <5>1, <5>2, <5>4
      <4> QED BY <4>6, <4>7
    <3> QED BY <2>3, <3>1, <3>2
  <2> QED BY <2>6, <2>7
<1> QED BY <1>1, <1>2, <1>3, <1>4, <1>5, <1>6, <1>7, <1>8, <1>9 DEF StreamNext, Deliver

LEMMA StreamInitially == StreamInit => StreamInv
<1> SUFFICES ASSUME StreamInit PROVE StreamInv
  OBVIOUS
<1> USE DEF StreamInit
<1>1. service \in ServiceStates
  BY DEF ServiceStates
<1>2. StreamTypeOK
  <2>1. version \in Nat /\ subscribed \in BOOLEAN
    OBVIOUS
  <2>a. <<>> \in Seq(Nat)
    OBVIOUS
  <2>4. outbox \in [Writers -> Seq(Nat)]
    BY <2>a
  <2>2. inbox \in Seq(Commands \cup Messages)
    OBVIOUS
  <2>3. conn \in [Connections -> ConnState] /\ shown \in [Connections -> Nat]
    BY DEF ConnState
  <2> QED BY <1>1, <2>1, <2>2, <2>3, <2>4 DEF StreamTypeOK
<1>3. /\ service.entry = None /\ service.pipe = <<>> /\ inbox = <<>>
      /\ \A c \in Connections : ~service.flag[c] /\ service.on[c] = None
  OBVIOUS
<1>4. \A op, ch : ~UnderWay(op, ch)
  BY <1>3 DEF UnderWay, Has
<1>5. FreshOK
  BY <1>3, <1>4, ConnectionAssumption DEF FreshOK
<1>6. AskedOK
  BY <1>3 DEF AskedOK
<1> QED BY <1>2, <1>5, <1>6 DEF StreamInv

(* When all answers are in, the channel of the job has Redis behind it, for  *)
(* every number of connections and however they open and close.              *)
THEOREM StreamsAreNotDeaf == StreamSpec => []NotDeaf
<1>1. StreamInv => NotDeaf
  <2> SUFFICES ASSUME StreamInv, Quiet, service.entry # None PROVE subscribed
    BY DEF NotDeaf
  <2>1. inbox = <<>> /\ service.pipe = <<>>
    BY DEF Quiet
  <2>2. \A op, ch : ~UnderWay(op, ch)
    BY <2>1 DEF UnderWay, Has
  <2> QED BY <2>2 DEF StreamInv, AskedOK
<1> QED BY <1>1, StreamInitially, StreamKept, PTL DEF StreamSpec

(* Every variable keeps to its type. *)
THEOREM StreamTypes == StreamSpec => []StreamTypeOK
<1>1. StreamInv => StreamTypeOK
  BY DEF StreamInv
<1> QED BY <1>1, StreamInitially, StreamKept, PTL DEF StreamSpec


-----------------------------------------------------------------------------
(* The teardowns.  An answer to an unsubscribe ends a channel that the map   *)
(* has, or one that nobody is on: what End computes at once is then what the *)
(* teardowns of its streams do one inside the other.                         *)
TeardownsLocal ==
    inbox # <<>> /\ Head(inbox).op = "unsubscribe" =>
        \/ service.entry = Head(inbox).channel
        \/ On(service, Head(inbox).channel) = {}

(* In q the unsubscribes of other channels are before the subscribes of ch.  *)
Behind(q, ch) ==
    \A i, j \in 1..Len(q) :
        /\ q[i].op = "unsubscribe" /\ q[i].channel # ch
        /\ q[j].op = "subscribe" /\ q[j].channel = ch
        => i < j

UnsubscribedOK ==
    \A ch \in Connections : UnderWay("unsubscribe", ch) =>
        service.entry = ch \/ \A c \in Connections : service.on[c] # ch

(* The commands of earlier channels are all before those of this one, so     *)
(* none is left when it is known to be subscribed.                           *)
EarlierFirst(ch) ==
    /\ Behind(inbox, ch) /\ Behind(service.pipe, ch)
    /\ Has(inbox, "subscribe", ch) =>
         \A x \in Connections : Has(service.pipe, "unsubscribe", x) => x = ch
    /\ service.flag[ch] => \A x \in Connections : UnderWay("unsubscribe", x) => x = ch
    /\ UnderWay("unsubscribe", ch) => service.flag[ch]

TeardownInv == UnsubscribedOK /\ (service.entry # None => EarlierFirst(service.entry))

LEMMA BehindAppend ==
    ASSUME NEW S, NEW q \in Seq(S), NEW e \in S, NEW ch, Behind(q, ch),
           e.op = "unsubscribe" /\ e.channel # ch => ~Has(q, "subscribe", ch)
    PROVE  Behind(Append(q, e), ch)
<1> DEFINE r == Append(q, e)
<1>1. /\ Len(q) \in Nat /\ Len(r) = Len(q) + 1
      /\ \A i \in 1..Len(q) : r[i] = q[i]
      /\ r[Len(q) + 1] = e
  OBVIOUS
<1> HIDE DEF r
<1> SUFFICES ASSUME NEW i \in 1..Len(r), NEW j \in 1..Len(r),
                    r[i].op = "unsubscribe" /\ r[i].channel # ch,
                    r[j].op = "subscribe" /\ r[j].channel = ch
             PROVE  i < j
  BY DEF Behind, r
<1>2. CASE i \in 1..Len(q) /\ j \in 1..Len(q)
  BY <1>1, <1>2 DEF Behind
<1>3. CASE i \in 1..Len(q) /\ j = Len(q) + 1
  BY <1>1, <1>3
<1>4. CASE i = Len(q) + 1 /\ j \in 1..Len(q)
  BY <1>1, <1>4 DEF Has
<1>5. CASE i = Len(q) + 1 /\ j = Len(q) + 1
  BY <1>1, <1>5
<1> QED BY <1>1, <1>2, <1>3, <1>4, <1>5

LEMMA BehindTail ==
    ASSUME NEW S, NEW q \in Seq(S), q # <<>>, NEW ch, Behind(q, ch)
    PROVE  /\ Behind(Tail(q), ch)
           /\ Head(q).op = "subscribe" /\ Head(q).channel = ch =>
                \A x : Has(Tail(q), "unsubscribe", x) => x = ch
<1> DEFINE r == Tail(q)
<1>1. /\ Len(q) \in Nat \ {0} /\ Len(r) = Len(q) - 1
      /\ \A i \in 1..Len(r) : i + 1 \in 1..Len(q) /\ r[i] = q[i + 1]
      /\ 1 \in 1..Len(q) /\ q[1] = Head(q)
  OBVIOUS
<1> HIDE DEF r
<1>2. Behind(r, ch)
  <2> SUFFICES ASSUME NEW i \in 1..Len(r), NEW j \in 1..Len(r),
                      r[i].op = "unsubscribe" /\ r[i].channel # ch,
                      r[j].op = "subscribe" /\ r[j].channel = ch
               PROVE  i < j
    BY DEF Behind
  <2>1. i + 1 < j + 1
    BY <1>1 DEF Behind
  <2> QED BY <2>1
<1>3. ASSUME Head(q).op = "subscribe" /\ Head(q).channel = ch,
             NEW x, Has(r, "unsubscribe", x), x # ch
      PROVE  FALSE
  <2>1. PICK i \in 1..Len(r) : r[i].op = "unsubscribe" /\ r[i].channel = x
    BY <1>3 DEF Has
  <2>2. i + 1 < 1
    BY <1>1, <1>3, <2>1 DEF Behind
  <2> QED BY <2>2
<1> QED BY <1>2, <1>3 DEF r

LEMMA BehindNone == ASSUME NEW q, NEW ch, ~Has(q, "subscribe", ch) PROVE Behind(q, ch)
BY DEF Behind, Has

LEMMA TeardownsKept == StreamInv /\ TeardownInv /\ [StreamNext]_streamVars => TeardownInv'
<1> SUFFICES ASSUME StreamInv, TeardownInv, [StreamNext]_streamVars PROVE TeardownInv'
  OBVIOUS
<1>0. StreamTypeOK /\ FreshOK /\ UnsubscribedOK
  BY DEF StreamInv, TeardownInv
<1>a. service \in ServiceStates /\ inbox \in Seq(Commands \cup Messages)
      /\ service.pipe \in Seq(Commands) /\ service.pipe \in Seq(Commands \cup Messages)
  <2>1. service \in ServiceStates /\ inbox \in Seq(Commands \cup Messages)
    BY <1>0 DEF StreamTypeOK
  <2>2. service.pipe \in Seq(Commands)
    BY <2>1 DEF ServiceStates
  <2> QED BY <2>1, <2>2
<1>e. ASSUME service.entry # None
      PROVE  EarlierFirst(service.entry) /\ service.entry \in Connections
  BY <1>a, <1>e DEF TeardownInv, ServiceStates
<1>b. ASSUME service' = service, \A op \in Ops : \A ch : Has(inbox', op, ch) <=> Has(inbox, op, ch),
             \A ch : Behind(inbox, ch) => Behind(inbox', ch)
      PROVE  TeardownInv'
  <2>1. \A ch : UnderWay("unsubscribe", ch)' <=> UnderWay("unsubscribe", ch)
    BY <1>b DEF UnderWay, Ops
  <2>2. UnsubscribedOK'
    BY <1>0, <1>b, <2>1 DEF UnsubscribedOK
  <2>3. \A ch : Has(inbox', "subscribe", ch) <=> Has(inbox, "subscribe", ch)
    BY <1>b DEF Ops
  <2>4. \A ch \in Connections : EarlierFirst(ch) => EarlierFirst(ch)'
    BY <1>b, <2>1, <2>3 DEF EarlierFirst
  <2> QED BY <1>b, <1>e, <2>2, <2>4 DEF TeardownInv
<1>1. CASE UNCHANGED streamVars
  BY <1>1, <1>b DEF streamVars
<1>2. ASSUME NEW w \in Writers, Write(w) PROVE TeardownInv'
  BY <1>2, <1>b DEF Write
<1>3. ASSUME NEW w \in Writers, RedisPublishes(w) PROVE TeardownInv'
  <2>1. (\A op \in Ops : \A ch : Has(inbox', op, ch) <=> Has(inbox, op, ch)) /\ service' = service
    BY <1>0, <1>3, PublishKeeps DEF RedisPublishes
  <2>2. \A ch : Behind(inbox, ch) => Behind(inbox', ch)
    <3> DEFINE e == [op |-> "message", version |-> Head(outbox[w])]
    <3>1. e \in Commands \cup Messages
      <4>1. Head(outbox[w]) \in Nat
        BY <1>0, <1>3 DEF StreamTypeOK, RedisPublishes
      <4> QED BY <4>1 DEF Messages
    <3>2. inbox' = inbox \/ inbox' = Append(inbox, e)
      BY <1>3 DEF RedisPublishes
    <3>3. e.op # "unsubscribe"
      OBVIOUS
    <3> HIDE DEF e
    <3> QED BY <1>a, <3>1, <3>2, <3>3, BehindAppend
  <2> QED BY <1>b, <2>1, <2>2
<1>4. CASE RedisExecutes
  <2>0. PICK e : e = Head(service.pipe)
    OBVIOUS
  <2>1. /\ e \in Commands /\ service'.entry = service.entry /\ service'.on = service.on
        /\ service'.flag = service.flag
        /\ \A op, ch :
             /\ Has(inbox', op, ch) <=> Has(inbox, op, ch) \/ (e.op = op /\ e.channel = ch)
             /\ Has(service.pipe, op, ch)
                    <=> Has(service'.pipe, op, ch) \/ (e.op = op /\ e.channel = ch)
    BY <1>0, <1>4, <2>0, ExecuteMoves
  <2>2. \A op, ch : UnderWay(op, ch)' <=> UnderWay(op, ch)
    BY <2>1 DEF UnderWay
  <2>3. UnsubscribedOK'
    BY <1>0, <2>1, <2>2 DEF UnsubscribedOK
  <2>4. service.pipe # <<>> /\ inbox' = Append(inbox, e) /\ service'.pipe = Tail(service.pipe)
    BY <1>4, <1>a, <2>0 DEF RedisExecutes, ServiceStates
  <2>5. e.op \in {"subscribe", "unsubscribe"} /\ e.channel \in Connections
    BY <2>1 DEF Commands
  <2>6. ASSUME NEW ch \in Connections, EarlierFirst(ch) PROVE EarlierFirst(ch)'
    <3>1. /\ Behind(inbox, ch) /\ Behind(service.pipe, ch)
          /\ Has(inbox, "subscribe", ch) =>
               \A x \in Connections : Has(service.pipe, "unsubscribe", x) => x = ch
          /\ service.flag[ch] => \A x \in Connections : UnderWay("unsubscribe", x) => x = ch
          /\ UnderWay("unsubscribe", ch) => service.flag[ch]
      BY <2>6 DEF EarlierFirst
    <3>2. Behind(service'.pipe, ch)
          /\ (e.op = "subscribe" /\ e.channel = ch =>
                \A x : Has(service'.pipe, "unsubscribe", x) => x = ch)
      BY <1>a, <2>0, <2>4, <3>1, BehindTail
    <3>3. e.op = "unsubscribe" /\ e.channel # ch => ~Has(inbox, "subscribe", ch)
      BY <2>1, <2>5, <3>1
    <3>4. Behind(inbox', ch)
      BY <1>a, <2>1, <2>4, <3>1, <3>3, BehindAppend
    <3>5. Has(inbox', "subscribe", ch) =>
            \A x \in Connections : Has(service'.pipe, "unsubscribe", x) => x = ch
      BY <2>1, <3>1, <3>2
    <3> QED BY <2>1, <2>2, <3>1, <3>2, <3>4, <3>5 DEF EarlierFirst
  <2> QED BY <1>e, <2>1, <2>3, <2>6 DEF TeardownInv
<1>5. ASSUME NEW c \in Connections, ReadSnapshot(c) PROVE TeardownInv'
  BY <1>5, <1>b DEF ReadSnapshot
<1>6. ASSUME NEW c \in Connections, OpenStream(c) PROVE TeardownInv'
  <2>0. PICK ch : ch = IF service.entry = None THEN c ELSE service.entry
    OBVIOUS
  <2>1. /\ ch \in Connections /\ service'.entry = ch /\ service'.flag = service.flag
        /\ service'.on = [service.on EXCEPT ![c] = ch] /\ inbox' = inbox
        /\ \A op, x : Has(service'.pipe, op, x) <=>
              Has(service.pipe, op, x) \/ (~service.flag[ch] /\ op = "subscribe" /\ x = ch)
    BY <1>0, <1>6, <2>0, OpenDoes
  <2>2. \A x : UnderWay("unsubscribe", x)' <=> UnderWay("unsubscribe", x)
    BY <2>1 DEF UnderWay
  <2>3. conn[c] = "snapshot"
    BY <1>6 DEF OpenStream
  <2>4. \A d \in Connections : service'.on[d] \in {service.on[d], ch}
    BY <1>a, <2>1 DEF ServiceStates
  <2>5. UnsubscribedOK'
    <3> SUFFICES ASSUME NEW x \in Connections, UnderWay("unsubscribe", x)
                 PROVE  ch = x \/ \A d \in Connections : service'.on[d] # x
      BY <2>1, <2>2 DEF UnsubscribedOK
    <3>1. service.entry = x \/ \A d \in Connections : service.on[d] # x
      BY <1>0 DEF UnsubscribedOK
    <3>2. x # None
      BY ConnectionAssumption
    <3> QED BY <2>0, <2>4, <3>1, <3>2
  <2>6. \/ service'.pipe = service.pipe
        \/ service'.pipe = Append(service.pipe, Command("subscribe", ch))
    <3>1. service'.pipe = IF service.flag[ch] THEN service.pipe
                          ELSE Append(service.pipe, Command("subscribe", ch))
      BY <1>0, <1>6, <2>0, OpenDoes
    <3> QED BY <3>1
  <2>7. EarlierFirst(ch)
    <3>1. CASE service.entry = None
      <4>1. ch = c
        BY <2>0, <3>1
      <4>2. ~service.flag[c] /\ ~UnderWay("subscribe", c) /\ ~UnderWay("unsubscribe", c)
        BY <1>0, <2>3 DEF FreshOK
      <4>3. ~Has(inbox, "subscribe", c) /\ ~Has(service.pipe, "subscribe", c)
        BY <4>2 DEF UnderWay
      <4> QED BY <4>1, <4>2, <4>3, BehindNone DEF EarlierFirst
    <3>2. CASE service.entry # None
      BY <1>e, <2>0, <3>2
    <3> QED BY <3>1, <3>2
  <2>8. EarlierFirst(ch)'
    <3>1. Command("subscribe", ch) \in Commands /\ Command("subscribe", ch).op # "unsubscribe"
      BY <2>1 DEF Command, Commands
    <3>2. Behind(service'.pipe, ch)
      BY <1>a, <2>6, <2>7, <3>1, BehindAppend DEF EarlierFirst
    <3>3. \A x : Has(service'.pipe, "unsubscribe", x) <=> Has(service.pipe, "unsubscribe", x)
      BY <2>1
    <3> QED BY <2>1, <2>2, <2>7, <3>2, <3>3 DEF EarlierFirst
  <2> QED BY <2>1, <2>5, <2>8 DEF TeardownInv
<1>7. ASSUME NEW c \in Connections, Close(c) PROVE TeardownInv'
  <2>1. /\ \A d \in Connections : service'.on[d] \in {service.on[d], None}
        /\ service'.flag = service.flag
        /\ \/ service'.entry = service.entry
           \/ /\ service.entry # None /\ service'.entry = None
              /\ \A d \in Connections : service'.on[d] # service.entry
    BY <1>0, <1>7, CloseDoes
  <2>2. /\ \A op, x : Has(service.pipe, op, x) => Has(service'.pipe, op, x)
        /\ \A op, x : Has(service'.pipe, op, x) =>
                \/ Has(service.pipe, op, x)
                \/ /\ op = "unsubscribe" /\ x = service.entry /\ x \in Connections
                   /\ service.flag[x] /\ service'.entry = x
        /\ inbox' = inbox
    BY <1>0, <1>7, ClosePipe
  <2>3. \A x : UnderWay("unsubscribe", x)' =>
                 \/ UnderWay("unsubscribe", x)
                 \/ x = service.entry /\ service.flag[x] /\ service'.entry = x
    BY <2>2 DEF UnderWay
  <2>4. UnsubscribedOK'
    <3> SUFFICES ASSUME NEW x \in Connections, UnderWay("unsubscribe", x)'
                 PROVE  service'.entry = x \/ \A d \in Connections : service'.on[d] # x
      BY DEF UnsubscribedOK
    <3>1. x # None
      BY ConnectionAssumption
    <3>2. CASE service'.entry = x
      BY <3>2
    <3>3. CASE UnderWay("unsubscribe", x)
      <4>1. service.entry = x \/ \A d \in Connections : service.on[d] # x
        BY <1>0, <3>3 DEF UnsubscribedOK
      <4> QED BY <2>1, <3>1, <4>1
    <3> QED BY <2>3, <3>2, <3>3
  <2>5. ASSUME service'.entry # None PROVE EarlierFirst(service.entry)'
    <3>0. PICK ch : ch = service.entry
      OBVIOUS
    <3>1. ch # None /\ service'.entry = ch
      BY <2>1, <2>5, <3>0
    <3>2. EarlierFirst(ch) /\ ch \in Connections
      BY <1>e, <3>0, <3>1
    <3>3. Behind(service'.pipe, ch)
      <4>1. Command("unsubscribe", ch) \in Commands /\ Command("unsubscribe", ch).channel = ch
        BY <3>2 DEF Command, Commands
      <4>2. \/ service'.pipe = service.pipe
            \/ service'.pipe = Append(service.pipe, Command("unsubscribe", ch))
        BY <1>0, <1>7, <3>0, CloseDoes
      <4> QED BY <1>a, <3>2, <4>1, <4>2, BehindAppend DEF EarlierFirst
    <3>4. \A x : Has(service'.pipe, "unsubscribe", x) => Has(service.pipe, "unsubscribe", x) \/ x = ch
      BY <2>2, <3>0
    <3>5. \A x : UnderWay("unsubscribe", x)' =>
                   UnderWay("unsubscribe", x) \/ (x = ch /\ service.flag[ch])
      BY <2>3, <3>0
    <3>6. EarlierFirst(ch)'
      BY <2>1, <2>2, <3>2, <3>3, <3>4, <3>5 DEF EarlierFirst
    <3> QED BY <3>1, <3>6
  <2> QED BY <2>4, <2>5 DEF TeardownInv
<1>8. CASE ReceiveMessage
  <2>1. service' = service /\ inbox # <<>> /\ inbox' = Tail(inbox) /\ Head(inbox).op = "message"
    BY <1>8 DEF ReceiveMessage
  <2>2. \A op \in Ops : \A ch : Has(inbox', op, ch) <=> Has(inbox, op, ch)
    BY <1>0, <2>1, ReceiveTakes DEF Ops
  <2>3. \A ch : Behind(inbox, ch) => Behind(inbox', ch)
    BY <1>a, <2>1, BehindTail
  <2> QED BY <1>b, <2>1, <2>2, <2>3
<1>9. CASE ReceiveAnswer
  <2>0. PICK e : e = Head(inbox)
    OBVIOUS
  <2>1. /\ e \in Commands /\ service'.pipe = service.pipe
        /\ inbox # <<>> /\ inbox' = Tail(inbox)
        /\ e.op = "subscribe" =>
             /\ service'.entry = service.entry /\ service'.on = service.on
             /\ service'.flag = [service.flag EXCEPT ![e.channel] = TRUE]
        /\ e.op = "unsubscribe" =>
             /\ service'.entry = None
             /\ \A c \in Connections : service'.on[c] =
                  IF service.on[c] = e.channel THEN None ELSE service.on[c]
    BY <1>0, <1>9, <2>0, AnswerDoes
  <2>2. \A op, ch : Has(inbox, op, ch) <=> Has(inbox', op, ch) \/ (e.op = op /\ e.channel = ch)
    BY <1>0, <2>0, <2>1, ReceiveTakes
  <2>3. e.op \in {"subscribe", "unsubscribe"} /\ e.channel \in Connections
    BY <2>1 DEF Commands
  <2>4. \A op, ch : UnderWay(op, ch)' => UnderWay(op, ch)
    BY <2>1, <2>2 DEF UnderWay
  <2>5. UnderWay(e.op, e.channel)
    BY <2>2 DEF UnderWay
  <2>6. CASE e.op = "subscribe"
    <3>1. UnsubscribedOK'
      BY <1>0, <2>1, <2>4, <2>6 DEF UnsubscribedOK
    <3>2. service'.flag = [service.flag EXCEPT ![e.channel] = TRUE]
          /\ service.flag \in [Connections -> BOOLEAN]
      BY <1>a, <2>1, <2>6 DEF ServiceStates
    <3>3. ASSUME NEW ch \in Connections, EarlierFirst(ch) PROVE EarlierFirst(ch)'
      <4>1. /\ Behind(inbox, ch) /\ Behind(service.pipe, ch)
            /\ Has(inbox, "subscribe", ch) =>
                 \A x \in Connections : Has(service.pipe, "unsubscribe", x) => x = ch
            /\ service.flag[ch] => \A x \in Connections : UnderWay("unsubscribe", x) => x = ch
            /\ UnderWay("unsubscribe", ch) => service.flag[ch]
        BY <3>3 DEF EarlierFirst
      <4>2. Behind(inbox', ch)
            /\ (e.channel = ch => \A x : Has(inbox', "unsubscribe", x) => x = ch)
        BY <1>a, <2>0, <2>1, <2>6, <4>1, BehindTail
      <4>3. Has(inbox', "subscribe", ch) =>
              \A x \in Connections : Has(service'.pipe, "unsubscribe", x) => x = ch
        BY <2>1, <2>2, <4>1
      <4>4. service'.flag[ch] => \A x \in Connections : UnderWay("unsubscribe", x)' => x = ch
        <5>1. CASE e.channel = ch
          <6>1. \A x \in Connections : Has(service.pipe, "unsubscribe", x) => x = ch
            BY <2>2, <2>6, <4>1, <5>1
          <6>2. \A x \in Connections : Has(service'.pipe, "unsubscribe", x) => x = ch
            BY <2>1, <6>1
          <6> QED BY <4>2, <5>1, <6>2 DEF UnderWay
        <5>2. CASE e.channel # ch
          BY <2>4, <3>2, <4>1, <5>2
        <5> QED BY <5>1, <5>2
      <4>5. UnderWay("unsubscribe", ch)' => service'.flag[ch]
        BY <2>4, <3>2, <4>1
      <4> QED BY <2>1, <4>1, <4>2, <4>3, <4>4, <4>5 DEF EarlierFirst
    <3> QED BY <1>e, <2>1, <2>6, <3>1, <3>3 DEF TeardownInv
  <2>7. CASE e.op = "unsubscribe"
    <3>1. ASSUME NEW x \in Connections, UnderWay("unsubscribe", x)', NEW d \in Connections
          PROVE  service'.on[d] # x
      <4>1. UnderWay("unsubscribe", x) /\ x # None
        BY <2>4, <3>1, ConnectionAssumption
      <4>2. service'.on[d] = IF service.on[d] = e.channel THEN None ELSE service.on[d]
        BY <2>1, <2>7
      <4>3. CASE service.entry # x
        BY <1>0, <4>1, <4>2, <4>3 DEF UnsubscribedOK
      <4>4. CASE service.entry = x
        <5>1. service.flag[x] /\ EarlierFirst(x)
          BY <1>e, <4>1, <4>4 DEF EarlierFirst
        <5>2. e.channel = x
          BY <2>3, <2>5, <2>7, <5>1 DEF EarlierFirst
        <5> QED BY <4>1, <4>2, <5>2
      <4> QED BY <4>3, <4>4
    <3>2. UnsubscribedOK'
      BY <3>1 DEF UnsubscribedOK
    <3> QED BY <2>1, <2>7, <3>2 DEF TeardownInv
  <2> QED BY <2>3, <2>6, <2>7
<1> QED BY <1>1, <1>2, <1>3, <1>4, <1>5, <1>6, <1>7, <1>8, <1>9 DEF StreamNext, Deliver

(* When the answer to an unsubscribe comes, its channel is the one of the    *)
(* map, or nobody is on it any more: the teardowns that the end of a channel *)
(* runs never work on the channel of others.                                 *)
THEOREM TeardownsAreLocal == StreamSpec => []TeardownsLocal
<1> DEFINE Inv == StreamInv /\ TeardownInv
<1>1. StreamInit => Inv
  <2> SUFFICES ASSUME StreamInit PROVE Inv
    OBVIOUS
  <2>1. service.entry = None /\ service.pipe = <<>> /\ inbox = <<>>
    BY DEF StreamInit
  <2>2. \A op, ch : ~UnderWay(op, ch)
    BY <2>1 DEF UnderWay, Has
  <2> QED BY <2>1, <2>2, StreamInitially DEF TeardownInv, UnsubscribedOK
<1>2. Inv /\ [StreamNext]_streamVars => Inv'
  BY StreamKept, TeardownsKept
<1>3. Inv => TeardownsLocal
  <2> SUFFICES ASSUME Inv, inbox # <<>>, Head(inbox).op = "unsubscribe"
               PROVE  \/ service.entry = Head(inbox).channel
                      \/ On(service, Head(inbox).channel) = {}
    BY DEF TeardownsLocal
  <2> DEFINE ch == Head(inbox).channel
  <2>1. inbox \in Seq(Commands \cup Messages)
    BY DEF StreamInv, StreamTypeOK
  <2>2. Head(inbox) \in Commands
    BY <2>1 DEF Messages
  <2>3. ch \in Connections
    BY <2>2 DEF Commands
  <2>4. Has(inbox, "unsubscribe", ch)
    BY <2>1, HasTail
  <2> HIDE DEF ch
  <2>5. service.entry = ch \/ \A c \in Connections : service.on[c] # ch
    BY <2>3, <2>4 DEF TeardownInv, UnsubscribedOK, UnderWay
  <2> QED BY <2>5 DEF On, ch
<1> HIDE DEF Inv
<1> QED BY <1>1, <1>2, <1>3, PTL DEF StreamSpec
=============================================================================
