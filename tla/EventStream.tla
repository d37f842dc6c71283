----------------------------- MODULE EventStream -----------------------------
(***************************************************************************)
(* The live event stream of one API process: the broadcaster               *)
(* (investigation/event_broadcaster.py) and the server-sent event endpoint *)
(* over it (apps/api/routers/investigations.py).  A topic is a tenant and  *)
(* an investigation; a stream is one connection with live=true, a replay   *)
(* one without, which publishes its milestones to the topic as it goes.    *)
(*                                                                         *)
(* The broadcaster's lock is never held across an await, so a publication  *)
(* is one action.  A stream subscribes when its generator is resumed after *)
(* the CONNECTED message, and again awaits after every event it sends.     *)
(* wait_for cancels the generator it waits for, whose finally clause       *)
(* unsubscribes: after one quiet period of 15 s the stream sends a PING    *)
(* and ends.  An event may arrive in the very turn in which the period     *)
(* ends; it goes with the queue.                                           *)
(*                                                                         *)
(* An event is its position in the log of its topic.                       *)
(***************************************************************************)
EXTENDS Naturals, Sequences, SequencesExt

CONSTANTS EsTopics,      \* pairs of a tenant and an investigation
          EsStreams,     \* live connections
          EsReplays,     \* connections without live
          EsTopicOf,     \* the topic of every stream and replay
          EsCapacity,    \* size of a subscriber's queue (256)
          EsMilestones,  \* milestones of a replay (4)
          EsMaxEvents    \* bound: events of a topic

ASSUME EsTopicAssumption == EsTopicOf \in [EsStreams \cup EsReplays -> EsTopics]
ASSUME EsBoundsAssumption == EsCapacity \in Nat \ {0} /\ EsMilestones \in Nat

VARIABLES esLog,     \* history: the kinds of the events of every topic, in order
          esPhase,   \* where every stream is
          esQueue,   \* its queue, meaningful while it is subscribed
          esTold,    \* the events it has sent to its client
          esReplay,  \* milestones every replay has published, one more than there are once it is over
          esSince,   \* history: length of the log when the stream subscribed
          esDropped, \* history: events its queue was full for
          esEnd      \* history: why the stream is closed

esVars == <<esLog, esPhase, esQueue, esTold, esReplay, esSince, esDropped, esEnd>>

EsKinds == {"STATUS_CHANGED", "NODE_PROGRESS", "INVESTIGATION_COMPLETED"}

EsInit == /\ esLog = [k \in EsTopics |-> <<>>]
          /\ esPhase = [c \in EsStreams |-> "new"]
          /\ esQueue = [c \in EsStreams |-> <<>>]
          /\ esTold = [c \in EsStreams |-> <<>>]
          /\ esReplay = [r \in EsReplays |-> 0]
          /\ esSince = [c \in EsStreams |-> 0]
          /\ esDropped = [c \in EsStreams |-> {}]
          /\ esEnd = [c \in EsStreams |-> "open"]

\* The streams in _subscribers of topic k.
EsSubscribers(k) == {c \in EsStreams : EsTopicOf[c] = k /\ esPhase[c] \in {"waiting", "sending"}}

EsFull(c) == Len(esQueue[c]) = EsCapacity

\* Mutant: only streams that wait for an event are given it.
EsPublishToWaiting(k, kind) ==
    LET e == Len(esLog[k]) + 1
        queues == {c \in EsSubscribers(k) : esPhase[c] = "waiting"}
    IN /\ e <= EsMaxEvents
       /\ esLog' = [esLog EXCEPT ![k] = Append(@, kind)]
       /\ esQueue' = [c \in EsStreams |-> IF c \in queues /\ ~EsFull(c) THEN Append(esQueue[c], e)
                                                                          ELSE esQueue[c]]
       /\ esDropped' = [c \in EsStreams |-> IF c \in queues /\ EsFull(c) THEN esDropped[c] \cup {e}
                                                                           ELSE esDropped[c]]
       /\ UNCHANGED <<esPhase, esTold, esSince, esEnd>>

\* publish: a full queue loses the event.
EsPublish(k, kind) ==
    LET e == Len(esLog[k]) + 1
        queues == EsSubscribers(k)
    IN /\ e <= EsMaxEvents
       /\ esLog' = [esLog EXCEPT ![k] = Append(@, kind)]
       /\ esQueue' = [c \in EsStreams |-> IF c \in queues /\ ~EsFull(c) THEN Append(esQueue[c], e)
                                                                          ELSE esQueue[c]]
       /\ esDropped' = [c \in EsStreams |-> IF c \in queues /\ EsFull(c) THEN esDropped[c] \cup {e}
                                                                           ELSE esDropped[c]]
       /\ UNCHANGED <<esPhase, esTold, esSince, esEnd>>

\* Pause, resume and cancel are all a change of status to the stream.
EsSignal(k) == EsPublish(k, "STATUS_CHANGED") /\ UNCHANGED esReplay

\* A replay publishes its next milestone, or its completion: after the last milestone, or
\* earlier when it finds that its client has left. A replay that is cancelled stops where it is.
EsReplayStep(r) ==
    /\ esReplay[r] <= EsMilestones
    /\ \/ /\ esReplay[r] < EsMilestones
          /\ EsPublish(EsTopicOf[r], "NODE_PROGRESS")
          /\ esReplay' = [esReplay EXCEPT ![r] = @ + 1]
       \/ /\ EsPublish(EsTopicOf[r], "INVESTIGATION_COMPLETED")
          /\ esReplay' = [esReplay EXCEPT ![r] = EsMilestones + 1]

\* CONNECTED is sent; nothing is subscribed.
EsConnect(c) == /\ esPhase[c] = "new"
                /\ esPhase' = [esPhase EXCEPT ![c] = "connected"]
                /\ UNCHANGED <<esLog, esQueue, esTold, esReplay, esSince, esDropped, esEnd>>

\* The first __anext__ registers an empty queue and waits.
EsSubscribe(c) == /\ esPhase[c] = "connected"
                  /\ esPhase' = [esPhase EXCEPT ![c] = "waiting"]
                  /\ esSince' = [esSince EXCEPT ![c] = Len(esLog[EsTopicOf[c]])]
                  /\ UNCHANGED <<esLog, esQueue, esTold, esReplay, esDropped, esEnd>>

\* The stream is closed and its queue, if it has one, is gone.
EsCloses(c, why) == /\ esPhase' = [esPhase EXCEPT ![c] = "closed"]
                    /\ esQueue' = [esQueue EXCEPT ![c] = <<>>]
                    /\ esEnd' = [esEnd EXCEPT ![c] = why]

EsIsLast(c, e) == esLog[EsTopicOf[c]][e] = "INVESTIGATION_COMPLETED"

\* The first event of the queue is sent; the last one of an investigation ends the stream.
EsSend(c) ==
    /\ esPhase[c] \in {"waiting", "sending"}
    /\ esQueue[c] # <<>>
    /\ esTold' = [esTold EXCEPT ![c] = Append(@, Head(esQueue[c]))]
    /\ IF EsIsLast(c, Head(esQueue[c]))
       THEN EsCloses(c, "completed")
       ELSE /\ esPhase' = [esPhase EXCEPT ![c] = "sending"]
            /\ esQueue' = [esQueue EXCEPT ![c] = Tail(@)]
            /\ UNCHANGED esEnd
    /\ UNCHANGED <<esLog, esReplay, esSince, esDropped>>

\* The event is with the client and the queue is empty: the stream waits again.
EsWait(c) == /\ esPhase[c] = "sending"
             /\ esQueue[c] = <<>>
             /\ esPhase' = [esPhase EXCEPT ![c] = "waiting"]
             /\ UNCHANGED <<esLog, esQueue, esTold, esReplay, esSince, esDropped, esEnd>>

\* Fifteen seconds without an event: a PING, and the cancelled subscription has no next event.
EsQuiet(c) == /\ esPhase[c] = "waiting"
              /\ EsCloses(c, "quiet")
              /\ UNCHANGED <<esLog, esTold, esReplay, esSince, esDropped>>

EsLeave(c) == /\ esPhase[c] \in {"connected", "waiting", "sending"}
              /\ EsCloses(c, "left")
              /\ UNCHANGED <<esLog, esTold, esReplay, esSince, esDropped>>

EsNext == \/ \E k \in EsTopics : EsSignal(k)
          \/ \E r \in EsReplays : EsReplayStep(r)
          \/ \E c \in EsStreams : \/ EsConnect(c) \/ EsSubscribe(c) \/ EsSend(c) \/ EsWait(c)
                                  \/ EsQuiet(c) \/ EsLeave(c)

EsSpec == EsInit /\ [][EsNext]_esVars

-----------------------------------------------------------------------------
EsTypeOK == /\ esLog \in [EsTopics -> Seq(EsKinds)]
            /\ esPhase \in [EsStreams -> {"new", "connected", "waiting", "sending", "closed"}]
            /\ esQueue \in [EsStreams -> Seq(Nat)]
            /\ esTold \in [EsStreams -> Seq(Nat)]
            /\ esReplay \in [EsReplays -> 0..(EsMilestones + 1)]
            /\ esSince \in [EsStreams -> Nat]
            /\ esDropped \in [EsStreams -> SUBSET Nat]
            /\ esEnd \in [EsStreams -> {"open", "quiet", "left", "completed"}]

\* The events of the topic since the stream subscribed, up to position n.
EsOwed(c, n) == {e \in 1..n : e > esSince[c]}

\* A slow client misses what its queue was full for and nothing else: what a stream was sent,
\* then what is queued for it, is in the order of publication and is, with what was dropped,
\* everything published to its topic since it subscribed, or up to the completion for a stream
\* that ended with it; of other topics it has nothing (event_broadcaster.py:48-61, :79-89;
\* investigations.py:274-304).
EsOnlyFullQueuesLose ==
    \A c \in EsStreams :
        LET k == EsTopicOf[c]
            got == esTold[c] \o esQueue[c]
            upTo == IF esEnd[c] = "completed" THEN Last(esTold[c]) ELSE Len(esLog[k])
        IN /\ \A i, j \in 1..Len(got) : i < j => got[i] < got[j]
           /\ esPhase[c] \in {"waiting", "sending"} \/ esEnd[c] = "completed" =>
                 ToSet(got) \cup {e \in esDropped[c] : e <= upTo} = EsOwed(c, upTo)

\* A stream goes on until its client leaves or the investigation is over: what the broadcaster
\* promises to yield "until unsubscribed or cancelled" (event_broadcaster.py:69) reaches a live
\* client (investigations.py:271-304).
EsGoesOn == \A c \in EsStreams : esPhase[c] = "closed" => esEnd[c] \in {"left", "completed"}
=============================================================================
