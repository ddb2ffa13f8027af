------------------------------ MODULE RunStream ------------------------------
(***************************************************************************)
(* One run's event stream: MemoryStreamBridge (stream_bridge/memory.py),   *)
(* the run worker as its producer (runs/worker.py) and the SSE consumers   *)
(* of the gateway (services.py), which may lose their connection and come  *)
(* back with the id of the last event they received.                       *)
(*                                                                         *)
(* asyncio runs one coroutine at a time and the stream's condition is      *)
(* never held across an await, so publish, publish_end, cleanup and one    *)
(* round of subscribe's loop are each one step.  A wait that times out     *)
(* yields a heartbeat and changes nothing.                                 *)
(***************************************************************************)
EXTENDS Integers, Sequences

CONSTANTS Clients,      \* clients that follow the run
          MaxSize,      \* queue_maxsize
          MaxWire,      \* frames a connection buffers before the consumer blocks
          CancelOnDisconnect, \* record.on_disconnect is "cancel"
          MaxEvents,    \* bound: events published
          MaxConnects   \* bound: connections per client

ASSUME RunStreamAssumption ==
  /\ MaxSize \in Nat \ {0}
  /\ MaxWire \in Nat \ {0}
  /\ CancelOnDisconnect \in BOOLEAN
  /\ MaxEvents \in Nat
  /\ MaxConnects \in Nat

VARIABLES run,        \* what the run worker has come to
          streams,    \* every _RunStream made for this run, oldest first
          current,    \* the one in _streams, 0 when there is none
          counter,    \* _counters
          conn,       \* each client's subscription
          sent,       \* the events sent to each client since it started afresh
          read,       \* how many of those it received
          done,       \* it received END
          connects,   \* connections it made
          abandoned   \* consumers whose client left and that did not notice yet

vars == <<run, streams, current, counter, conn, sent, read, done, connects, abandoned>>

\* An event id "{ts}-{seq}".  Two streams of one run are made at least the
\* cleanup delay apart, so the stream an event belongs to stands for its ts.
Id == [stream : Nat, seq : Nat]

NoId == [stream |-> 0, seq |-> 0]

Stream == [events : Seq(Id), start : Nat, ended : BOOLEAN]

NewStream == [events |-> <<>>, start |-> 0, ended |-> FALSE]

\* A subscription: the stream it was opened on (0: none), next_offset, and
\* whether END was sent.
Subscription == [stream : Nat, next : Nat, ended : BOOLEAN]

NoConn == [stream |-> 0, next |-> 0, ended |-> FALSE]

Init ==
  /\ run = "running"
  /\ streams = <<>>
  /\ current = 0
  /\ counter = 0
  /\ conn = [c \in Clients |-> NoConn]
  /\ sent = [c \in Clients |-> <<>>]
  /\ read = [c \in Clients |-> 0]
  /\ done = [c \in Clients |-> FALSE]
  /\ connects = [c \in Clients |-> 0]
  /\ abandoned = 0

-----------------------------------------------------------------------------
(* The bridge. *)

\* _get_or_create_stream
Opened ==
  IF current = 0
  THEN [streams |-> Append(streams, NewStream), current |-> Len(streams) + 1, counter |-> 0]
  ELSE [streams |-> streams, current |-> current, counter |-> counter]

\* What publish does to a stream: append, then drop what exceeds MaxSize.
Published(s, id) ==
  LET events == Append(s.events, id)
      overflow == IF Len(events) > MaxSize THEN Len(events) - MaxSize ELSE 0
  IN [s EXCEPT !.events = SubSeq(events, overflow + 1, Len(events)),
              !.start = s.start + overflow]

\* Mutants of Resolve: the event itself is replayed; an id that is not found
\* means "from now on".
ResolveInclusive(s, id) ==
  LET local == id.seq - s.start
  IN IF 0 <= local /\ local < Len(s.events) /\ s.events[local + 1] = id
     THEN s.start + local
     ELSE s.start

ResolveSkipping(s, id) ==
  LET local == id.seq - s.start
  IN IF 0 <= local /\ local < Len(s.events) /\ s.events[local + 1] = id
     THEN s.start + local + 1
     ELSE s.start + Len(s.events)

\* _resolve_start_offset.  An absent, malformed or foreign id matches nothing.
Resolve(s, id) ==
  LET local == id.seq - s.start
  IN IF 0 <= local /\ local < Len(s.events) /\ s.events[local + 1] = id
     THEN s.start + local + 1
     ELSE s.start

\* The offset one round of subscribe's loop looks at: a subscriber that fell
\* behind the retained events goes on with the oldest of them.
Position(c) ==
  LET start == streams[conn[c].stream].start
  IN IF conn[c].next < start THEN start ELSE conn[c].next

\* Nothing is retained at or after the position.
Drained(c) ==
  LET s == streams[conn[c].stream]
  IN Position(c) - s.start >= Len(s.events)

-----------------------------------------------------------------------------
(* The run worker. *)

Publish ==
  /\ run = "running"
  /\ Opened.counter < MaxEvents
  /\ LET o == Opened
         id == [stream |-> o.current, seq |-> o.counter]
     IN /\ streams' = [o.streams EXCEPT ![o.current] = Published(@, id)]
        /\ current' = o.current
        /\ counter' = o.counter + 1
  /\ UNCHANGED <<run, conn, sent, read, done, connects, abandoned>>

\* The run ended in any way; cleanup follows after a delay.
PublishEnd ==
  /\ run \in {"running", "aborted"}
  /\ run' = "ended"
  /\ LET o == Opened
     IN /\ streams' = [o.streams EXCEPT ![o.current].ended = TRUE]
        /\ current' = o.current
        /\ counter' = o.counter
  /\ UNCHANGED <<conn, sent, read, done, connects, abandoned>>

Cleanup ==
  /\ run = "ended"
  /\ run' = "released"
  /\ current' = 0
  /\ counter' = 0
  /\ UNCHANGED <<streams, conn, sent, read, done, connects, abandoned>>

-----------------------------------------------------------------------------
(* The clients and their consumers. *)

Subscribe(c, lastEventId) ==
  LET o == Opened
  IN /\ connects[c] < MaxConnects
     /\ conn[c].stream = 0
     /\ streams' = o.streams
     /\ current' = o.current
     /\ counter' = o.counter
     /\ conn' = [conn EXCEPT ![c] = [stream |-> o.current, ended |-> FALSE,
                                     next |-> Resolve(o.streams[o.current], lastEventId)]]
     /\ connects' = [connects EXCEPT ![c] = @ + 1]
     /\ UNCHANGED <<run, abandoned>>

\* A client starts afresh: no Last-Event-ID, or one of another run or of no
\* event at all.  GET .../join and .../stream admit it after the run's end too.
Join(c) ==
  /\ \E n \in 0..MaxEvents : Subscribe(c, [stream |-> 0, seq |-> n])
  /\ sent' = [sent EXCEPT ![c] = <<>>]
  /\ read' = [read EXCEPT ![c] = 0]
  /\ done' = [done EXCEPT ![c] = FALSE]

\* A client that lost its connection comes back where it was.
Reconnect(c) ==
  /\ ~done[c]
  /\ read[c] > 0
  /\ Subscribe(c, sent[c][read[c]])
  /\ UNCHANGED <<sent, read, done>>

\* The consumer is blocked while the connection takes no more frames.
CanSend(c) ==
  /\ conn[c].stream # 0
  /\ ~conn[c].ended
  /\ Len(sent[c]) - read[c] < MaxWire

SendEvent(c) ==
  /\ CanSend(c)
  /\ ~Drained(c)
  /\ LET s == streams[conn[c].stream]
     IN sent' = [sent EXCEPT ![c] = Append(@, s.events[Position(c) - s.start + 1])]
  /\ conn' = [conn EXCEPT ![c].next = Position(c) + 1]
  /\ UNCHANGED <<run, streams, current, counter, read, done, connects, abandoned>>

\* Mutants: END overtakes retained events; END only after some event.
SendEndEagerly(c) ==
  /\ CanSend(c)
  /\ streams[conn[c].stream].ended
  /\ conn' = [conn EXCEPT ![c].next = Position(c), ![c].ended = TRUE]
  /\ UNCHANGED <<run, streams, current, counter, sent, read, done, connects, abandoned>>

SendEndAfterEvents(c) ==
  /\ CanSend(c)
  /\ Drained(c)
  /\ conn[c].next > 0
  /\ streams[conn[c].stream].ended
  /\ conn' = [conn EXCEPT ![c].next = Position(c), ![c].ended = TRUE]
  /\ UNCHANGED <<run, streams, current, counter, sent, read, done, connects, abandoned>>

SendEnd(c) ==
  /\ CanSend(c)
  /\ Drained(c)
  /\ streams[conn[c].stream].ended
  /\ conn' = [conn EXCEPT ![c].next = Position(c), ![c].ended = TRUE]
  /\ UNCHANGED <<run, streams, current, counter, sent, read, done, connects, abandoned>>

ReceiveEvent(c) ==
  /\ conn[c].stream # 0
  /\ read[c] < Len(sent[c])
  /\ read' = [read EXCEPT ![c] = @ + 1]
  /\ UNCHANGED <<run, streams, current, counter, conn, sent, done, connects, abandoned>>

ReceiveEnd(c) ==
  /\ conn[c].ended
  /\ read[c] = Len(sent[c])
  /\ done' = [done EXCEPT ![c] = TRUE]
  /\ conn' = [conn EXCEPT ![c] = NoConn]
  /\ UNCHANGED <<run, streams, current, counter, sent, read, connects, abandoned>>

\* The connection breaks and what it still carried is lost.  A consumer that
\* has not sent END stays behind until it has something to send.
Disconnect(c) ==
  /\ conn[c].stream # 0
  /\ conn' = [conn EXCEPT ![c] = NoConn]
  /\ sent' = [sent EXCEPT ![c] = SubSeq(@, 1, read[c])]
  /\ abandoned' = IF conn[c].ended THEN abandoned ELSE abandoned + 1
  /\ UNCHANGED <<run, streams, current, counter, read, done, connects>>

\* Mutant: a consumer notices more disconnects than there were.
NoticeAnyway ==
  /\ abandoned' = abandoned - 1
  /\ run' = IF CancelOnDisconnect /\ run = "running" THEN "aborted" ELSE run
  /\ UNCHANGED <<streams, current, counter, conn, sent, read, done, connects>>

\* An event, END or a heartbeat makes an abandoned consumer look at its client;
\* its finally block cancels a run that is not over.
NoticeDisconnect ==
  /\ abandoned > 0
  /\ abandoned' = abandoned - 1
  /\ run' = IF CancelOnDisconnect /\ run = "running" THEN "aborted" ELSE run
  /\ UNCHANGED <<streams, current, counter, conn, sent, read, done, connects>>

Next ==
  \/ Publish
  \/ PublishEnd
  \/ Cleanup
  \/ NoticeDisconnect
  \/ \E c \in Clients :
       \/ Join(c)
       \/ Reconnect(c)
       \/ SendEvent(c)
       \/ SendEnd(c)
       \/ ReceiveEvent(c)
       \/ ReceiveEnd(c)
       \/ Disconnect(c)

Spec == Init /\ [][Next]_vars

\* subscribe's loop comes round at the latest after heartbeat_interval, and a
\* client that stays connected reads on.
Fairness ==
  \A c \in Clients :
    /\ WF_vars(SendEvent(c) \/ SendEnd(c))
    /\ WF_vars(ReceiveEvent(c) \/ ReceiveEnd(c))

FairSpec == Spec /\ Fairness

-----------------------------------------------------------------------------
(* Properties *)

\* Every variable keeps its type, and a client has received no more than was
\* sent to it.
TypeOK ==
  /\ run \in {"running", "aborted", "ended", "released"}
  /\ streams \in Seq(Stream)
  /\ current \in 0..Len(streams)
  /\ counter \in Nat
  /\ conn \in [Clients -> Subscription]
  /\ \A c \in Clients : conn[c].stream <= Len(streams)
  /\ sent \in [Clients -> Seq(Id)]
  /\ read \in [Clients -> Nat]
  /\ \A c \in Clients : read[c] <= Len(sent[c])
  /\ done \in [Clients -> BOOLEAN]
  /\ connects \in [Clients -> 0..MaxConnects]
  /\ abandoned \in Nat

\* Event number i of a stream's retained events has sequence number start + i - 1.
Numbered(s, k) ==
  /\ Len(s.events) <= MaxSize
  /\ \A i \in 1..Len(s.events) : s.events[i] = [stream |-> k, seq |-> s.start + i - 1]

\* The retained events of a stream are bounded, and their sequence numbers are
\* their offsets, whatever was published, evicted or made anew: the arithmetic
\* of _resolve_start_offset rests on it.
OffsetsAreIds ==
  /\ \A k \in 1..Len(streams) : Numbered(streams[k], k)
  /\ current # 0 => counter = streams[current].start + Len(streams[current].events)

\* The linear scan of the retained events that _resolve_start_offset replaced
\* (_linear_resolve of test_stream_bridge.py).
LinearResolve(s, id) ==
  IF \E i \in DOMAIN s.events : s.events[i] = id
  THEN s.start + CHOOSE i \in DOMAIN s.events : s.events[i] = id
  ELSE s.start

\* Looking an event id up by arithmetic gives what the scan gives, for retained,
\* evicted, foreign and absent ids, in every reachable stream.
ResolveIsScan ==
  \A k \in DOMAIN streams : \A id \in [stream : 0..Len(streams), seq : 0..MaxEvents] :
    Resolve(streams[k], id) = LinearResolve(streams[k], id)

\* What a client receives, over all its connections, is in publication order
\* and holds no event twice, although connections break with events in flight
\* and events are evicted while it is away.
InOrder ==
  \A c \in Clients : \A i, j \in DOMAIN sent[c] :
    i < j => sent[c][i].seq < sent[c][j].seq

\* A client misses an event only if the bounded history dropped it: the client
\* lacks an event older than one sent to it only when the event was evicted.
GapsAreEvictions ==
  \A c \in Clients : \A i \in DOMAIN sent[c] : \A n \in 0..(sent[c][i].seq - 1) :
    \/ n < streams[1].start
    \/ \E j \in DOMAIN sent[c] : sent[c][j].seq = n

\* END is the last thing a client receives: it has every event that was
\* retained when the run ended.
EndMeansComplete ==
  \A c \in Clients : done[c] =>
    \A k \in DOMAIN streams : \A i \in DOMAIN streams[k].events :
      \E j \in 1..read[c] : sent[c][j] = streams[k].events[i]

(* The stream a client sees is the first one: those made after the cleanup *)
(* stay as they were made.                                                 *)

Start == IF streams = <<>> THEN 0 ELSE streams[1].start

Total == IF streams = <<>> THEN 0 ELSE streams[1].start + Len(streams[1].events)

Over == streams # <<>> /\ streams[1].ended

\* What each client has received since it started afresh.
Received == [c \in Clients |-> [i \in 1..read[c] |-> sent[c][i].seq]]

\* The bridge with its producer, consumers and clients does what OrderedFeed
\* promises, although connections break with events in flight, events are
\* evicted while a client is away, and the stream is removed and made anew
\* under the clients.
Feed == INSTANCE OrderedFeed WITH
  Readers <- Clients, published <- Total, dropped <- Start,
  over <- Over, got <- Received, told <- done
FeedIsOrdered == Feed!FeedSpec

\* The inductive invariant.  Only the first stream of a run ever holds events
\* or is ended: one made after the cleanup stays as it was made.
FirstStream ==
  /\ run \in {"running", "aborted"} =>
       /\ Len(streams) <= 1
       /\ current = Len(streams)
       /\ current = 1 => ~streams[1].ended
  /\ run = "ended" => Len(streams) = 1 /\ current = 1
  /\ run \in {"ended", "released"} => Len(streams) >= 1 /\ streams[1].ended
  /\ \A k \in 1..Len(streams) : k > 1 => streams[k] = NewStream

\* The events numbered below n are among the first m sent to c, or evicted.
Has(c, m, n) ==
  \A x \in 0..(n - 1) : x < Start \/ \E j \in 1..m : sent[c][j].seq = x

FeedOf(c) ==
  /\ \A i \in 1..Len(sent[c]) :
       /\ sent[c][i].stream = 1
       /\ sent[c][i].seq < Total
       /\ Has(c, i - 1, sent[c][i].seq)
  /\ \A i, j \in 1..Len(sent[c]) : i < j => sent[c][i].seq < sent[c][j].seq

ConnOf(c) ==
  /\ conn[c].stream # 1 => read[c] = Len(sent[c]) /\ ~conn[c].ended
  /\ conn[c].stream > 1 => conn[c].next = 0
  /\ conn[c].stream = 1 =>
       /\ \A i \in 1..Len(sent[c]) : sent[c][i].seq < conn[c].next
       /\ conn[c].next <= Total
       /\ Has(c, Len(sent[c]), conn[c].next)
  /\ conn[c].ended => streams[1].ended /\ conn[c].next = Total

DoneOf(c) ==
  done[c] => /\ Len(streams) >= 1
             /\ streams[1].ended
             /\ conn[c].stream = 0
             /\ Has(c, read[c], Total)

IInv ==
  /\ TypeOK
  /\ OffsetsAreIds
  /\ FirstStream
  /\ \A c \in Clients : FeedOf(c) /\ ConnOf(c) /\ DoneOf(c)

\* A subscriber of the stream the run ended gets END, unless it leaves first,
\* even if the stream was cleaned up meanwhile.
SubscribersDrain ==
  \A c \in Clients :
    (conn[c].stream # 0 /\ streams[conn[c].stream].ended) ~> conn[c].stream = 0

=============================================================================
