------------------------------ MODULE JobEvents ------------------------------
(***************************************************************************)
(* The event stream of one job in one API process: JobEventsService and    *)
(* the SSE handler of JobsController over it, with Redis Pub/Sub external. *)
(* The process keeps one channel object per job, shared by the connections *)
(* that watch it and counted by them; the first one subscribes to Redis    *)
(* and the last one unsubscribes.                                          *)
(*                                                                         *)
(* JavaScript runs one handler at a time, so what a handler does up to its *)
(* await is one step: the wait for Redis' answer to (un)subscribe is where *)
(* others run.  Commands and answers keep their order on the connection.   *)
(* A channel object is named after the connection that created it.         *)
(***************************************************************************)
EXTENDS Integers, Sequences, FiniteSets

CONSTANTS
    Connections,   \* SSE connections, each made once
    Writers,       \* processes that update the job and emit (worker, API)
    MaxVersion,    \* bound on the updates of the job
    None           \* no channel

ASSUME ConnectionAssumption == None \notin Connections /\ IsFiniteSet(Connections)
ASSUME BoundAssumption == MaxVersion \in Nat

VARIABLES
    version,    \* updates of the job row so far: its status and progress
    outbox,     \* [Writers -> Seq(versions)]: emitted, not yet in Redis
    subscribed, \* Redis: this process is subscribed to the job's channel
    inbox,      \* what Redis has sent to this process
    conn,       \* [Connections -> ConnState]
    shown,      \* [Connections -> version]: what the client shows
    service     \* the fields below of JobEventsService

streamVars == <<version, outbox, subscribed, inbox, conn, shown, service>>

ConnState == {"new", "snapshot", "live", "closed"}

(* entry: the jobChannels entry of the job;  on: the channel a connection is *)
(* subscribed to, None when it never was or its stream completed;  count and *)
(* flag: subscribers and redisSubscribed of each channel object;  pipe: the  *)
(* commands sent to Redis.                                                   *)
StreamInit ==
    /\ version = 0
    /\ outbox = [w \in Writers |-> <<>>]
    /\ subscribed = FALSE
    /\ inbox = <<>>
    /\ conn = [c \in Connections |-> "new"]
    /\ shown = [c \in Connections |-> 0]
    /\ service = [entry |-> None,
                  on    |-> [c \in Connections |-> None],
                  count |-> [c \in Connections |-> 0],
                  flag  |-> [c \in Connections |-> FALSE],
                  pipe  |-> <<>>]

Command(op, ch) == [op |-> op, channel |-> ch]
On(s, ch) == {c \in Connections : s.on[c] = ch}

----------------------------------------------------------------------------
(* JobEventsService.                                                        *)

(* stream: the channel is found or created, and Redis is asked to subscribe  *)
(* unless the channel knows that it is.                                      *)
Subscribe(s, c) ==
    LET ch == IF s.entry = None THEN c ELSE s.entry
        t == [s EXCEPT !.entry = ch, !.on[c] = ch, !.count[ch] = @ + 1]
    IN  IF t.flag[ch] THEN t
        ELSE [t EXCEPT !.pipe = Append(@, Command("subscribe", ch))]

(* What follows the answer in releaseJobRedisSubscription, its finally block. *)
(* Completing the subject ends the streams that are still on it, and each    *)
(* runs its own teardown, on the channel that the map has until the delete:  *)
(* this one, or there is nobody on it.                                       *)
Ended(s, ch) ==
    [s EXCEPT !.on = [c \in Connections |-> IF s.on[c] = ch THEN None ELSE s.on[c]],
              !.count[ch] = @ - Cardinality(On(s, ch))]

(* Mutant: the channel is kept, with its flag, for the next subscriber. *)
EndMutant(s, ch) == Ended(s, ch)

End(s, ch) == [Ended(s, ch) EXCEPT !.flag[ch] = FALSE, !.entry = None]

(* releaseJobRedisSubscription, which the teardown of a stream runs: it works *)
(* on the channel the map has now.  The last subscriber unsubscribes from     *)
(* Redis and waits for the answer.                                            *)
Release(s) ==
    LET ch == s.entry
        t == [s EXCEPT !.count[ch] = @ - 1]
    IN  IF ch = None THEN s
        ELSE IF t.count[ch] > 0 THEN t
        ELSE IF t.flag[ch]
             THEN [t EXCEPT !.pipe = Append(@, Command("unsubscribe", ch))]
        ELSE End(t, ch)

----------------------------------------------------------------------------
(* The writers, and Redis.                                                  *)

(* setStatus and the like: the row is updated and the event emitted, without *)
(* waiting for Redis.                                                        *)
Write(w) ==
    /\ version < MaxVersion
    /\ version' = version + 1
    /\ outbox' = [outbox EXCEPT ![w] = Append(@, version')]
    /\ UNCHANGED <<subscribed, inbox, conn, shown, service>>

RedisPublishes(w) ==
    /\ outbox[w] # <<>>
    /\ outbox' = [outbox EXCEPT ![w] = Tail(@)]
    /\ inbox' = IF subscribed
                THEN Append(inbox, [op |-> "message", version |-> Head(outbox[w])])
                ELSE inbox
    /\ UNCHANGED <<version, subscribed, conn, shown, service>>

RedisExecutes ==
    /\ service.pipe # <<>>
    /\ subscribed' = (Head(service.pipe).op = "subscribe")
    /\ inbox' = Append(inbox, Head(service.pipe))
    /\ service' = [service EXCEPT !.pipe = Tail(@)]
    /\ UNCHANGED <<version, outbox, conn, shown>>

----------------------------------------------------------------------------
(* The API process.                                                         *)

(* streamJobEvents reads the snapshot of the job first ...                   *)
ReadSnapshot(c) ==
    /\ conn[c] = "new"
    /\ conn' = [conn EXCEPT ![c] = "snapshot"]
    /\ shown' = [shown EXCEPT ![c] = version]
    /\ UNCHANGED <<version, outbox, subscribed, inbox, service>>

(* Mutant: the channel is taken for subscribed as soon as Redis is asked. *)
OpenStreamEarly(c) ==
    /\ conn[c] = "snapshot"
    /\ conn' = [conn EXCEPT ![c] = "live"]
    /\ service' = LET t == Subscribe(service, c) IN [t EXCEPT !.flag[t.on[c]] = TRUE]
    /\ UNCHANGED <<version, outbox, subscribed, inbox, shown>>

(* ... and merges heartbeats with the stream it then opens.                  *)
OpenStream(c) ==
    /\ conn[c] = "snapshot"
    /\ conn' = [conn EXCEPT ![c] = "live"]
    /\ service' = Subscribe(service, c)
    /\ UNCHANGED <<version, outbox, subscribed, inbox, shown>>

(* The client goes.  A stream that has completed has run its teardown.       *)
Close(c) ==
    /\ conn[c] \in {"snapshot", "live"}
    /\ conn' = [conn EXCEPT ![c] = "closed"]
    /\ service' = IF service.on[c] = None THEN service
                  ELSE Release([service EXCEPT !.on[c] = None])
    /\ UNCHANGED <<version, outbox, subscribed, inbox, shown>>

(* handleRedisMessage forwards to the subject that the map has. *)
ReceiveMessage ==
    /\ inbox # <<>> /\ Head(inbox).op = "message"
    /\ inbox' = Tail(inbox)
    /\ shown' = [c \in Connections |->
                   IF service.entry # None /\ service.on[c] = service.entry
                   THEN Head(inbox).version ELSE shown[c]]
    /\ UNCHANGED <<version, outbox, subscribed, conn, service>>

ReceiveAnswer ==
    /\ inbox # <<>> /\ Head(inbox).op # "message"
    /\ inbox' = Tail(inbox)
    /\ service' = LET ch == Head(inbox).channel
                  IN  IF Head(inbox).op = "subscribe"
                      THEN [service EXCEPT !.flag[ch] = TRUE]
                      ELSE End(service, ch)
    /\ UNCHANGED <<version, outbox, subscribed, conn, shown>>

Deliver == RedisExecutes \/ ReceiveMessage \/ ReceiveAnswer
           \/ \E w \in Writers : RedisPublishes(w)

StreamNext ==
    \/ \E w \in Writers : Write(w)
    \/ \E c \in Connections : ReadSnapshot(c) \/ OpenStream(c) \/ Close(c)
    \/ Deliver

StreamSpec == StreamInit /\ [][StreamNext]_streamVars

(* Redis and the event loop go on; clients and writers do as they like. *)
FairStreamSpec ==
    /\ StreamSpec
    /\ WF_streamVars(RedisExecutes)
    /\ WF_streamVars(ReceiveMessage \/ ReceiveAnswer)
    /\ \A w \in Writers : WF_streamVars(RedisPublishes(w))

----------------------------------------------------------------------------
(* Properties.                                                              *)

Quiet == inbox = <<>> /\ service.pipe = <<>> /\ \A w \in Writers : outbox[w] = <<>>

Served(c) ==
    /\ service.on[c] # None
    /\ service.on[c] = service.entry
    /\ service.flag[service.entry]

(* However the subscriptions and releases of several connections cross, when *)
(* all answers are in, a channel with subscribers has Redis behind it.       *)
NotDeaf ==
    Quiet /\ service.entry # None /\ On(service, service.entry) # {} => subscribed

(* An event emitted while a connection is served reaches it, or its stream   *)
(* ends: it never stays on a working stream with an event missing.           *)
ServedGetEvents ==
    \A c \in Connections, w \in Writers, v \in 1..MaxVersion :
        Served(c) /\ (\E i \in DOMAIN outbox[w] : outbox[w][i] = v)
          ~> shown[c] = v \/ ~Served(c)

(* The snapshot is the state of the job "o thoi diem subscribe", at the time *)
(* of subscribing, and events follow: a client is not left behind.           *)
SnapshotIsCurrent ==
    \A c \in Connections : Quiet /\ Served(c) => shown[c] = version

(* The heartbeat confirms the connection is alive: it gets the job's events. *)
HeartbeatMeansAlive ==
    \A c \in Connections : conn[c] = "live" => /\ service.on[c] # None
                                               /\ service.on[c] = service.entry

(* Redis is unsubscribed "when the last listener leaves". *)
NoSubscriptionLeft ==
    Quiet /\ (\A c \in Connections : conn[c] \notin {"snapshot", "live"})
      => ~subscribed
=============================================================================
