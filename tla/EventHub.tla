------------------------------ MODULE EventHub ------------------------------
(***************************************************************************)
(* EventHub (services/events.py) with the server-sent streams of           *)
(* api/events.py and the logout of api/auth.py: hints that resources       *)
(* changed, published to bounded queues, one per stream, each owned by a   *)
(* session.                                                                *)
(*                                                                         *)
(* Every method of the hub runs under its lock without awaiting anything,  *)
(* so each is one step; a stream takes from its queue without the lock,    *)
(* and the logout revokes the session before it closes its streams.        *)
(***************************************************************************)
EXTENDS Naturals, Sequences, FiniteSets

CONSTANTS
  Streams,   \* GET /events requests
  Sessions,
  SessionOf, \* stream -> the session it was authenticated with
  Users,
  UserOf,    \* session -> its user
  QueueSize, \* subscriber_queue_size
  MaxSeq     \* bound: sequence numbers given to published events

ASSUME QueueSizeIsPositive == QueueSize \in Nat \ {0}
ASSUME SessionsOK == SessionOf \in [Streams -> Sessions] /\ UserOf \in [Sessions -> Users]
ASSUME MaxSeqOK == MaxSeq \in Nat

VARIABLES
  seq,         \* _sequence
  subscribers, \* streams whose subscription is in _subscribers
  queue,       \* stream -> its subscription's queue
  closed,      \* stream -> subscription.closed
  hubClosed,   \* _closed
  at,          \* stream -> where its generator is
  sending,     \* stream -> the sequence number of the event last yielded
  revoked,     \* sessions revoked in the database
  closers,     \* logouts that have still to close their session's streams
  expired,     \* sessions past expires_at
  owed         \* history: stream -> numbers sent to it and not yet taken

sessionVars == <<revoked, closers, expired>>
hubVars == <<seq, subscribers, queue, closed, hubClosed>>
eventVars == <<hubVars, at, sending, sessionVars, owed>>

\* What a queue holds.  "end" is the None that ends a stream.
Event(kind, n) == [kind |-> kind, seq |-> n]
End == Event("end", 0)

StreamUser(s) == UserOf[SessionOf[s]]
IsCurrent(x) == x \notin revoked \union expired

HubInit ==
  /\ seq = 0
  /\ subscribers = {}
  /\ queue = [s \in Streams |-> <<>>]
  /\ closed = [s \in Streams |-> FALSE]
  /\ hubClosed = FALSE
  /\ at = [s \in Streams |-> "off"]
  /\ sending = [s \in Streams |-> 0]
  /\ revoked = {} /\ closers = {} /\ expired = {}
  /\ owed = [s \in Streams |-> <<>>]

----------------------------------------------------------------------------
\* The hub

\* _close_subscription for the streams S: one that overflowed keeps its
\* resync event.
CloseSubscriptions(S) ==
  /\ closed' = [s \in Streams |-> closed[s] \/ s \in S]
  /\ queue' = [s \in Streams |-> IF s \in S /\ ~closed[s] THEN <<End>> ELSE queue[s]]

\* Mutant of Publish: an event that finds a queue full is dropped.
PublishDrops(u) ==
  /\ seq < MaxSeq
  /\ seq' = seq + 1
  /\ LET heard == {s \in subscribers : StreamUser(s) = u}
     IN  /\ queue' = [s \in Streams |->
                        IF s \in heard /\ Len(queue[s]) < QueueSize
                          THEN Append(queue[s], Event("hint", seq + 1)) ELSE queue[s]]
         /\ owed' = [s \in Streams |-> IF s \in heard THEN Append(owed[s], seq + 1)
                                        ELSE owed[s]]
  /\ UNCHANGED <<subscribers, closed, hubClosed, at, sending, sessionVars>>

\* publish_*: a stream whose queue is full loses what it holds, is told to
\* resynchronise, and is dropped.
Publish(u) ==
  /\ seq < MaxSeq
  /\ LET heard == {s \in subscribers : StreamUser(s) = u}
         full == {s \in heard : Len(queue[s]) >= QueueSize}
     IN  /\ seq' = seq + 1 + Cardinality(full)
         /\ \E resync \in [full -> (seq + 2)..seq'] :
              /\ \A s, t \in full : resync[s] = resync[t] => s = t
              /\ queue' = [s \in Streams |->
                             IF s \in full THEN <<Event("resync", resync[s])>>
                             ELSE IF s \in heard THEN Append(queue[s], Event("hint", seq + 1))
                             ELSE queue[s]]
         /\ closed' = [s \in Streams |-> closed[s] \/ s \in full]
         /\ subscribers' = subscribers \ full
         /\ owed' = [s \in Streams |-> IF s \in heard THEN Append(owed[s], seq + 1)
                                        ELSE owed[s]]
  /\ UNCHANGED <<hubClosed, at, sending, sessionVars>>

\* close, at shutdown.
CloseHub ==
  /\ ~hubClosed
  /\ hubClosed' = TRUE
  /\ CloseSubscriptions(subscribers)
  /\ subscribers' = {}
  /\ UNCHANGED <<seq, at, sending, sessionVars, owed>>

----------------------------------------------------------------------------
\* Sessions

\* delete_session revokes the session in the database ...
RevokeSession(x) ==
  /\ x \notin revoked
  /\ revoked' = revoked \union {x}
  /\ closers' = closers \union {x}
  /\ UNCHANGED <<hubVars, at, sending, expired, owed>>

\* Mutant of CloseSessionStreams: the streams are only taken off the list.
ForgetSessionStreams(x) ==
  /\ x \in closers
  /\ closers' = closers \ {x}
  /\ subscribers' = {s \in subscribers : SessionOf[s] # x}
  /\ UNCHANGED <<seq, queue, closed, hubClosed, at, sending, revoked, expired, owed>>

\* ... and then closes its streams (close_session_streams).
CloseSessionStreams(x) ==
  /\ x \in closers
  /\ closers' = closers \ {x}
  /\ LET matches == {s \in subscribers : SessionOf[s] = x}
     IN  /\ subscribers' = subscribers \ matches
         /\ CloseSubscriptions(matches)
  /\ UNCHANGED <<seq, hubClosed, at, sending, revoked, expired, owed>>

Expire(x) ==
  /\ x \notin expired
  /\ expired' = expired \union {x}
  /\ UNCHANGED <<hubVars, at, sending, revoked, closers, owed>>

----------------------------------------------------------------------------
\* A stream (_events)

MoveTo(s, place) == at' = [at EXCEPT ![s] = place]

Connect(s) ==
  /\ at[s] = "off"
  /\ MoveTo(s, IF IsCurrent(SessionOf[s]) THEN "register" ELSE "done")
  /\ UNCHANGED <<hubVars, sending, sessionVars, owed>>

\* subscribe raises when the hub is closed.
Subscribe(s) ==
  /\ at[s] = "register"
  /\ IF hubClosed
       THEN MoveTo(s, "done") /\ UNCHANGED <<hubVars, owed>>
       ELSE /\ subscribers' = subscribers \union {s}
            /\ seq' = seq + 1
            /\ queue' = [queue EXCEPT ![s] = <<Event("ready", seq + 1)>>]
            /\ owed' = [owed EXCEPT ![s] = <<seq + 1>>]
            /\ MoveTo(s, "recheck")
            /\ UNCHANGED <<closed, hubClosed>>
  /\ UNCHANGED <<sending, sessionVars>>

\* Mutant of Recheck: the session is not looked up again.
RecheckNothing(s) ==
  /\ at[s] = "recheck"
  /\ MoveTo(s, "top")
  /\ UNCHANGED <<hubVars, sending, sessionVars, owed>>

\* The session is looked up again after the registration.
Recheck(s) ==
  /\ at[s] = "recheck"
  /\ MoveTo(s, IF IsCurrent(SessionOf[s]) THEN "top" ELSE "leave")
  /\ UNCHANGED <<hubVars, sending, sessionVars, owed>>

\* The head of the loop: the session has expired, or receive finds the
\* subscription closed and empty.
LoopTop(s) ==
  /\ at[s] = "top"
  /\ MoveTo(s, IF SessionOf[s] \in expired \/ (closed[s] /\ queue[s] = <<>>)
             THEN "leave" ELSE "wait")
  /\ UNCHANGED <<hubVars, sending, sessionVars, owed>>

\* receive returns the oldest event, which is yielded to the client, or the
\* end.
Take(s) ==
  /\ at[s] = "wait" /\ queue[s] # <<>>
  /\ LET e == Head(queue[s])
     IN  /\ queue' = [queue EXCEPT ![s] = Tail(@)]
         /\ MoveTo(s, CASE e.kind = "end" -> "leave"
                    [] e.kind = "resync" -> "sendLast"
                    [] OTHER -> "send")
         /\ sending' = [sending EXCEPT ![s] = IF e.kind = "end" THEN @ ELSE e.seq]
         /\ owed' = [owed EXCEPT ![s] = IF e.kind \in {"ready", "hint"}
                                               THEN Tail(@) ELSE @]
  /\ UNCHANGED <<seq, subscribers, closed, hubClosed, sessionVars>>

\* The wait times out: a heartbeat, unless the subscription was closed
\* meanwhile.  The timeout may win against an event that has just arrived.
TimesOut(s) ==
  /\ at[s] = "wait"
  /\ MoveTo(s, IF closed[s] THEN "leave" ELSE "top")
  /\ UNCHANGED <<hubVars, sending, sessionVars, owed>>

\* The client has read the event.
Sent(s) ==
  /\ at[s] \in {"send", "sendLast"}
  /\ MoveTo(s, IF at[s] = "send" THEN "top" ELSE "leave")
  /\ UNCHANGED <<hubVars, sending, sessionVars, owed>>

\* The finally clause: unsubscribe.
Leave(s) ==
  /\ at[s] = "leave"
  /\ MoveTo(s, "done")
  /\ subscribers' = subscribers \ {s}
  /\ CloseSubscriptions({s})
  /\ UNCHANGED <<seq, hubClosed, sending, sessionVars, owed>>

\* The client goes away.  A request that is cancelled may be cancelled again
\* at the await of its finally clause, which then does nothing.
Disconnect(s) ==
  /\ \/ at[s] = "register" /\ MoveTo(s, "done")
     \/ at[s] \in {"recheck", "top", "wait", "send", "sendLast"} /\ MoveTo(s, "leave")
     \/ at[s] \in {"recheck", "top", "wait", "send", "sendLast", "leave"} /\ MoveTo(s, "done")
  /\ UNCHANGED <<hubVars, sending, sessionVars, owed>>

----------------------------------------------------------------------------

Stream(s) ==
  \/ Subscribe(s) \/ Recheck(s) \/ LoopTop(s) \/ Take(s) \/ Sent(s) \/ Leave(s)

HubNext ==
  \/ \E u \in Users : Publish(u)
  \/ CloseHub
  \/ \E x \in Sessions : RevokeSession(x) \/ CloseSessionStreams(x) \/ Expire(x)
  \/ \E s \in Streams : Connect(s) \/ Stream(s) \/ TimesOut(s) \/ Disconnect(s)

HubSpec == HubInit /\ [][HubNext]_eventVars

\* The event loop runs what is ready, clients read what they are sent or go
\* away, the waits are timed, and a logout request is carried through.
HubFairSpec ==
  /\ HubSpec
  /\ \A s \in Streams : WF_eventVars(Stream(s)) /\ WF_eventVars(TimesOut(s))
  /\ \A x \in Sessions : WF_eventVars(CloseSessionStreams(x))

----------------------------------------------------------------------------
\* Properties

Serving(s) == at[s] \in {"recheck", "top", "wait", "send"}

Events == [kind : {"ready", "hint", "resync", "end"}, seq : Nat]

HubTypeOK ==
  /\ seq \in Nat
  /\ subscribers \in SUBSET Streams
  /\ queue \in [Streams -> Seq(Events)]
  /\ \A s \in Streams : Len(queue[s]) <= QueueSize
  /\ closed \in [Streams -> BOOLEAN]
  /\ hubClosed \in BOOLEAN
  /\ at \in [Streams -> {"off", "register", "recheck", "top", "wait", "send", "sendLast",
                         "leave", "done"}]
  /\ sending \in [Streams -> Nat]
  /\ revoked \in SUBSET Sessions /\ closers \in SUBSET revoked
  /\ expired \in SUBSET Sessions
  /\ owed \in [Streams -> Seq(Nat)]

Numbers(q) == [k \in 1..Len(q) |-> q[k].seq]

\* A stream that is served and not closed will deliver everything that was
\* published to its user since it registered, in order; one that is closed
\* delivers no hint any more, only the resynchronisation or the end: a loss is
\* never silent (events.py:198-215, 222-230).
Announced(s) ==
  IF closed[s]
    THEN s \notin subscribers /\ \A k \in 1..Len(queue[s]) : queue[s][k].kind \notin {"ready", "hint"}
    ELSE Serving(s) => s \in subscribers /\ Numbers(queue[s]) = owed[s]

LossesAreAnnounced == \A s \in Streams : Announced(s)

\* A stream that waits on a closed subscription has something to wake it.
Wakes(s) == at[s] = "wait" /\ closed[s] => queue[s] # <<>>

ClosedStreamsWake == \A s \in Streams : Wakes(s)

\* A session whose logout is done feeds no stream: however the logout falls
\* into a registration, "race-free stream registration" (api/events.py:39)
\* leaves no stream of that session that is served.
LoggedOut(s) ==
  SessionOf[s] \in revoked \ closers /\ at[s] \in {"top", "wait", "send"} => closed[s]

LoggedOutStreamsAreClosed == \A s \in Streams : LoggedOut(s)

\* What a stream yields carries ever greater sequence numbers, the
\* resynchronisation included; clients use them as event ids.
YieldedInOrder ==
  [][\A s \in Streams : sending'[s] # sending[s] => sending'[s] > sending[s]]_eventVars

\* A stream whose session ended or whose hub closed ends.
EndedStreamsEnd ==
  \A s \in Streams :
    ~IsCurrent(SessionOf[s]) \/ hubClosed ~> at[s] \in {"off", "done"}

=============================================================================
