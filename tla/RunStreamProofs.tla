--------------------------- MODULE RunStreamProofs ---------------------------
(***************************************************************************)
(* Proofs about RunStream for any number of clients, events, connections   *)
(* and any size of the retained history and of the connections.            *)
(***************************************************************************)
EXTENDS RunStream, SequenceTheorems, TLAPS

-----------------------------------------------------------------------------
(* What the operations of the bridge do to one stream. *)

LEMMA PublishedFacts ==
  ASSUME NEW s \in Stream, NEW k \in Nat, Numbered(s, k),
         NEW id, id = [stream |-> k, seq |-> s.start + Len(s.events)]
  PROVE  /\ Published(s, id) \in Stream
         /\ Numbered(Published(s, id), k)
         /\ Published(s, id).start >= s.start
         /\ Published(s, id).start + Len(Published(s, id).events) = s.start + Len(s.events) + 1
         /\ Published(s, id).ended = s.ended
<1> DEFINE evs == Append(s.events, id)
           over == IF Len(evs) > MaxSize THEN Len(evs) - MaxSize ELSE 0
           kept == SubSeq(evs, over + 1, Len(evs))
<1>1. /\ s.events \in Seq(Id)
      /\ s.start \in Nat
      /\ Len(s.events) \in Nat
      /\ Len(s.events) <= MaxSize
      /\ MaxSize \in Nat \ {0}
  BY RunStreamAssumption DEF Stream, Numbered
<1>2. id \in Id
  BY <1>1 DEF Id
<1>3. evs \in Seq(Id) /\ Len(evs) = Len(s.events) + 1
  BY <1>1, <1>2
<1>4. \A i \in 1..Len(evs) : evs[i] = [stream |-> k, seq |-> s.start + i - 1]
  <2> TAKE i \in 1..Len(evs)
  <2>1. CASE i = Len(evs)
    <3>1. evs[i] = id
      BY <1>1, <1>3, <2>1
    <3>2. s.start + i - 1 = s.start + Len(s.events)
      BY <1>1, <1>3, <2>1
    <3>3. QED
      BY <3>1, <3>2
  <2>2. CASE i # Len(evs)
    <3>1. i \in 1..Len(s.events)
      BY <1>1, <1>3, <2>2
    <3>2. evs[i] = s.events[i]
      BY <1>1, <3>1
    <3>3. QED
      BY <3>1, <3>2 DEF Numbered
  <2>3. QED
    BY <2>1, <2>2
<1>5. over \in Nat /\ over <= 1 /\ Len(evs) - over <= MaxSize
  BY <1>1, <1>3
<1> HIDE DEF evs, over
<1>6. /\ kept \in Seq(Id)
      /\ Len(kept) = Len(evs) - over
      /\ \A i \in 1..Len(kept) : kept[i] = evs[over + i]
  BY <1>1, <1>3, <1>5
<1> HIDE DEF kept
<1>7. Published(s, id) = [s EXCEPT !.events = kept, !.start = s.start + over]
  BY DEF Published, kept, over, evs
<1>8. Published(s, id) = [events |-> kept, start |-> s.start + over, ended |-> s.ended]
  BY <1>7 DEF Stream
<1>9. \A i \in 1..Len(kept) : kept[i] = [stream |-> k, seq |-> (s.start + over) + i - 1]
  <2> TAKE i \in 1..Len(kept)
  <2>1. over + i \in 1..Len(evs)
    BY <1>1, <1>3, <1>5, <1>6
  <2>2. kept[i] = [stream |-> k, seq |-> s.start + (over + i) - 1]
    BY <1>4, <1>6, <2>1
  <2>3. s.start + (over + i) - 1 = (s.start + over) + i - 1
    BY <1>1, <1>5, <2>1
  <2>4. QED
    BY <2>2, <2>3
<1>10. Published(s, id) \in Stream
  BY <1>1, <1>5, <1>6, <1>8 DEF Stream
<1>11. Numbered(Published(s, id), k)
  <2>1. Published(s, id).events = kept /\ Published(s, id).start = s.start + over
    BY <1>8
  <2>2. Len(kept) <= MaxSize
    BY <1>5, <1>6
  <2>3. QED
    BY <1>9, <2>1, <2>2 DEF Numbered
<1>12. /\ Published(s, id).start = s.start + over
       /\ Published(s, id).ended = s.ended
       /\ Len(Published(s, id).events) = Len(s.events) + 1 - over
  <2>1. /\ Published(s, id).start = s.start + over
        /\ Published(s, id).ended = s.ended
        /\ Published(s, id).events = kept
    BY <1>8
  <2>2. Len(kept) = Len(s.events) + 1 - over
    BY <1>1, <1>3, <1>5, <1>6
  <2>3. QED
    BY <2>1, <2>2
<1>13. s.start + over >= s.start
  BY <1>1, <1>5
<1>14. (s.start + over) + (Len(s.events) + 1 - over) = s.start + Len(s.events) + 1
  BY <1>1, <1>5
<1>15. QED
  BY <1>10, <1>11, <1>12, <1>13, <1>14

\* Where _resolve_start_offset puts a subscriber.
LEMMA ResolveFacts ==
  ASSUME NEW s \in Stream, NEW k \in Nat, Numbered(s, k), NEW id \in Id
  PROVE  /\ Resolve(s, id) \in Nat
         /\ s.start <= Resolve(s, id)
         /\ Resolve(s, id) <= s.start + Len(s.events)
         /\ \/ /\ id.stream = k
               /\ s.start <= id.seq
               /\ id.seq < s.start + Len(s.events)
               /\ Resolve(s, id) = id.seq + 1
            \/ /\ ~ (/\ id.stream = k
                     /\ s.start <= id.seq
                     /\ id.seq < s.start + Len(s.events))
               /\ Resolve(s, id) = s.start
<1>1. s.start \in Nat /\ Len(s.events) \in Nat /\ id.seq \in Nat
  BY DEF Stream, Id
<1> DEFINE local == id.seq - s.start
<1>2. local \in Int
  BY <1>1
<1>3. CASE 0 <= local /\ local < Len(s.events)
  <2>1. s.events[local + 1] = [stream |-> k, seq |-> id.seq]
    <3>1. local + 1 \in 1..Len(s.events)
      BY <1>1, <1>2, <1>3
    <3>2. s.start + (local + 1) - 1 = id.seq
      BY <1>1
    <3>3. QED
      BY <3>1, <3>2 DEF Numbered
  <2>2. s.events[local + 1] = id <=> id.stream = k
    BY <2>1 DEF Id
  <2>3. Resolve(s, id) = IF id.stream = k THEN s.start + local + 1 ELSE s.start
    BY <1>3, <2>2 DEF Resolve
  <2>4. s.start <= id.seq /\ id.seq < s.start + Len(s.events)
    BY <1>1, <1>3
  <2>5. s.start + local + 1 = id.seq + 1
    BY <1>1
  <2>6. QED
    BY <1>1, <2>3, <2>4, <2>5
<1>4. CASE ~(0 <= local /\ local < Len(s.events))
  <2>1. Resolve(s, id) = s.start
    BY <1>4 DEF Resolve
  <2>2. ~(s.start <= id.seq /\ id.seq < s.start + Len(s.events))
    BY <1>1, <1>4
  <2>3. QED
    BY <1>1, <2>1, <2>2
<1>5. QED
  BY <1>3, <1>4

\* The lookup by arithmetic is the linear scan, for every numbered stream.
LEMMA ResolveIsLinear ==
  ASSUME NEW s \in Stream, NEW k \in Nat, Numbered(s, k), NEW id \in Id
  PROVE  Resolve(s, id) = LinearResolve(s, id)
<1>1. s.start \in Nat /\ s.events \in Seq(Id) /\ Len(s.events) \in Nat /\ id.seq \in Nat
  BY DEF Stream, Id
<1>2. DOMAIN s.events = 1..Len(s.events)
  BY <1>1
<1>3. CASE \E i \in 1..Len(s.events) : s.events[i] = id
  <2> DEFINE w == CHOOSE i \in DOMAIN s.events : s.events[i] = id
  <2>1. w \in 1..Len(s.events) /\ s.events[w] = id
    BY <1>2, <1>3
  <2> HIDE DEF w
  <2>2. id = [stream |-> k, seq |-> s.start + w - 1]
    BY <2>1 DEF Numbered
  <2>3. id.stream = k /\ id.seq = s.start + w - 1
    BY <2>2
  <2>4. Resolve(s, id) = id.seq + 1
    <3>1. s.start <= id.seq /\ id.seq < s.start + Len(s.events)
      BY <1>1, <2>1, <2>3
    <3>2. QED
      BY <2>3, <3>1, ResolveFacts
  <2>5. LinearResolve(s, id) = s.start + w
    BY <1>2, <1>3 DEF LinearResolve, w
  <2>6. QED
    BY <1>1, <2>1, <2>3, <2>4, <2>5
<1>4. CASE ~ \E i \in 1..Len(s.events) : s.events[i] = id
  <2>1. LinearResolve(s, id) = s.start
    BY <1>2, <1>4 DEF LinearResolve
  <2>2. ~(id.stream = k /\ s.start <= id.seq /\ id.seq < s.start + Len(s.events))
    <3> SUFFICES ASSUME id.stream = k, s.start <= id.seq, id.seq < s.start + Len(s.events)
                 PROVE  FALSE
      OBVIOUS
    <3>1. id.seq - s.start + 1 \in 1..Len(s.events)
      BY <1>1
    <3>2. s.start + (id.seq - s.start + 1) - 1 = id.seq
      BY <1>1
    <3>3. s.events[id.seq - s.start + 1] = [stream |-> k, seq |-> id.seq]
      BY <3>1, <3>2 DEF Numbered
    <3>4. QED
      BY <1>4, <3>1, <3>3 DEF Id
  <2>3. QED
    BY <2>1, <2>2, ResolveFacts
<1>5. QED
  BY <1>3, <1>4

-----------------------------------------------------------------------------
(* The streams of the run. *)

StreamsInv == TypeOK /\ OffsetsAreIds /\ FirstStream

LEMMA StreamTypes ==
  ASSUME StreamsInv
  PROVE  /\ Start \in Nat /\ Total \in Nat /\ Start <= Total
         /\ Len(streams) \in Nat
         /\ streams = <<>> <=> Len(streams) = 0
<1>1. streams \in Seq(Stream)
  BY DEF StreamsInv, TypeOK
<1>2. Len(streams) \in Nat /\ (streams = <<>> <=> Len(streams) = 0)
  BY <1>1
<1>3. CASE streams = <<>>
  BY <1>2, <1>3 DEF Start, Total
<1>4. CASE streams # <<>>
  <2>1. 1 \in 1..Len(streams)
    BY <1>2, <1>4
  <2>2. streams[1] \in Stream
    BY <1>1, <2>1
  <2>3. streams[1].start \in Nat /\ Len(streams[1].events) \in Nat
    BY <2>2 DEF Stream
  <2>4. QED
    BY <1>2, <1>4, <2>3 DEF Start, Total
<1>5. QED
  BY <1>3, <1>4

LEMMA NewStreamFacts ==
  /\ NewStream \in Stream
  /\ \A k \in Nat : Numbered(NewStream, k)
  /\ NewStream.start = 0 /\ Len(NewStream.events) = 0 /\ ~NewStream.ended
<1>1. NewStream \in Stream /\ NewStream.start = 0 /\ Len(NewStream.events) = 0 /\ ~NewStream.ended
  BY DEF NewStream, Stream
<1>2. QED
  BY <1>1, RunStreamAssumption DEF Numbered

\* _get_or_create_stream: the streams there were stay as they are, and a new
\* one is the run's first only while it is running.
LEMMA OpenedFacts ==
  ASSUME StreamsInv, NEW o, o = Opened
  PROVE  /\ o.streams \in Seq(Stream)
         /\ o.current \in 1..Len(o.streams)
         /\ \A k \in 1..Len(o.streams) : Numbered(o.streams[k], k)
         /\ \A k \in 1..Len(o.streams) : k > 1 => o.streams[k] = NewStream
         /\ o.counter = o.streams[o.current].start + Len(o.streams[o.current].events)
         /\ o.counter \in Nat
         /\ Len(streams) <= Len(o.streams)
         /\ \A k \in 1..Len(streams) : o.streams[k] = streams[k]
         /\ Start = o.streams[1].start
         /\ Total = o.streams[1].start + Len(o.streams[1].events)
         /\ run \in {"running", "aborted"} => Len(o.streams) = 1 /\ ~o.streams[1].ended
         /\ run = "ended" => Len(o.streams) = 1
         /\ run \in {"ended", "released"} => o.streams[1].ended
<1>1. /\ streams \in Seq(Stream)
      /\ current \in 0..Len(streams)
      /\ counter \in Nat
      /\ Len(streams) \in Nat
      /\ streams = <<>> <=> Len(streams) = 0
      /\ run \in {"running", "aborted", "ended", "released"}
  BY StreamTypes DEF StreamsInv, TypeOK
<1>2. CASE current = 0
  <2>1. o = [streams |-> Append(streams, NewStream), current |-> Len(streams) + 1, counter |-> 0]
    BY <1>2 DEF Opened
  <2> DEFINE new == Append(streams, NewStream)
  <2>2. /\ o.streams = new
        /\ o.current = Len(streams) + 1
        /\ o.counter = 0
    BY <2>1
  <2>3. /\ new \in Seq(Stream)
        /\ Len(new) = Len(streams) + 1
        /\ new[Len(streams) + 1] = NewStream
        /\ \A k \in 1..Len(streams) : new[k] = streams[k]
    BY <1>1, NewStreamFacts
  <2> HIDE DEF new
  <2>4. \A k \in 1..Len(new) : k \in 1..Len(streams) \/ k = Len(streams) + 1
    BY <1>1, <2>3
  <2>5. \A k \in 1..Len(new) : Numbered(new[k], k)
    <3> TAKE k \in 1..Len(new)
    <3>1. CASE k \in 1..Len(streams)
      BY <2>3, <3>1 DEF StreamsInv, OffsetsAreIds
    <3>2. CASE k = Len(streams) + 1
      BY <1>1, <2>3, <3>2, NewStreamFacts
    <3>3. QED
      BY <2>4, <3>1, <3>2
  <2>6. \A k \in 1..Len(new) : k > 1 => new[k] = NewStream
    BY <2>3, <2>4 DEF StreamsInv, FirstStream
  <2>7. Start = new[1].start /\ Total = new[1].start + Len(new[1].events)
    <3>1. CASE streams = <<>>
      BY <1>1, <2>3, <3>1, NewStreamFacts DEF Start, Total
    <3>2. CASE streams # <<>>
      <4>1. new[1] = streams[1]
        BY <1>1, <2>3, <3>2
      <4>2. QED
        BY <3>2, <4>1 DEF Start, Total
    <3>3. QED
      BY <3>1, <3>2
  <2>8. run \in {"running", "aborted"} => Len(new) = 1 /\ ~new[1].ended
    BY <1>1, <1>2, <2>3, NewStreamFacts DEF StreamsInv, FirstStream
  <2>9. run # "ended"
    BY <1>2 DEF StreamsInv, FirstStream
  <2>10. run \in {"ended", "released"} => new[1].ended
    BY <1>1, <2>3 DEF StreamsInv, FirstStream
  <2>11. 0 = new[Len(streams) + 1].start + Len(new[Len(streams) + 1].events)
    BY <2>3, NewStreamFacts
  <2>12. Len(streams) + 1 \in 1..Len(new) /\ Len(streams) <= Len(new)
    BY <1>1, <2>3
  <2>13. QED
    BY <2>2, <2>3, <2>5, <2>6, <2>7, <2>8, <2>9, <2>10, <2>11, <2>12
<1>3. CASE current # 0
  <2>1. o.streams = streams /\ o.current = current /\ o.counter = counter
    BY <1>3 DEF Opened
  <2>2. streams # <<>> /\ current \in 1..Len(streams)
    BY <1>1, <1>3
  <2>3. Start = streams[1].start /\ Total = streams[1].start + Len(streams[1].events)
    BY <2>2 DEF Start, Total
  <2>4. run \in {"running", "aborted"} => Len(streams) = 1 /\ ~streams[1].ended
    <3> SUFFICES ASSUME run \in {"running", "aborted"}
                 PROVE  Len(streams) = 1 /\ ~streams[1].ended
      OBVIOUS
    <3>1. Len(streams) <= 1 /\ current = Len(streams) /\ (current = 1 => ~streams[1].ended)
      BY DEF StreamsInv, FirstStream
    <3>2. current = 1
      BY <1>1, <1>3, <3>1
    <3>3. QED
      BY <3>1, <3>2
  <2>5. /\ run = "ended" => Len(streams) = 1
        /\ run \in {"ended", "released"} => streams[1].ended
        /\ \A k \in 1..Len(streams) : k > 1 => streams[k] = NewStream
    BY DEF StreamsInv, FirstStream
  <2>6. /\ \A k \in 1..Len(streams) : Numbered(streams[k], k)
        /\ counter = streams[current].start + Len(streams[current].events)
    BY <1>3 DEF StreamsInv, OffsetsAreIds
  <2>7. QED
    BY <1>1, <2>1, <2>2, <2>3, <2>4, <2>5, <2>6
<1>4. QED
  BY <1>2, <1>3

-----------------------------------------------------------------------------
(* What the clients have, while the streams change. *)

\* What the invariant says of the clients' types.
LEMMA ClientTypes ==
  ASSUME TypeOK, NEW c \in Clients
  PROVE  /\ sent[c] \in Seq(Id)
         /\ Len(sent[c]) \in Nat
         /\ \A i \in 1..Len(sent[c]) : sent[c][i] \in Id
         /\ \A i \in 1..Len(sent[c]) : sent[c][i].seq \in Nat
         /\ read[c] \in Nat /\ read[c] <= Len(sent[c])
         /\ conn[c] \in Subscription
         /\ conn[c].next \in Nat /\ conn[c].stream \in Nat /\ conn[c].ended \in BOOLEAN
         /\ conn[c].stream <= Len(streams)
<1>1. /\ sent[c] \in Seq(Id) /\ read[c] \in Nat /\ read[c] <= Len(sent[c])
      /\ conn[c] \in Subscription /\ conn[c].stream <= Len(streams)
  BY DEF TypeOK
<1>2. Len(sent[c]) \in Nat /\ \A i \in 1..Len(sent[c]) : sent[c][i] \in Id
  BY <1>1
<1>3. \A i \in 1..Len(sent[c]) : sent[c][i].seq \in Nat
  BY <1>2 DEF Id
<1>4. QED
  BY <1>1, <1>2, <1>3 DEF Subscription

\* Eviction and publication change what a client may lack, never what it was
\* sent: a step that touches neither its connection nor its events keeps its
\* part of the invariant.
LEMMA Untouched ==
  ASSUME StreamsInv, NEW c \in Clients, FeedOf(c), ConnOf(c), DoneOf(c),
         sent'[c] = sent[c], read'[c] = read[c], conn'[c] = conn[c], done'[c] = done[c],
         Start' \in Nat, Total' \in Nat, Start <= Start', Total <= Total',
         Len(streams)' \in Nat, Len(streams) <= Len(streams)',
         (Len(streams) >= 1 /\ streams[1].ended) => (streams'[1].ended /\ Total' = Total)
  PROVE  FeedOf(c)' /\ ConnOf(c)' /\ DoneOf(c)'
<1>1. /\ Start \in Nat /\ Total \in Nat
      /\ Len(streams) \in Nat
      /\ Len(sent[c]) \in Nat
      /\ read[c] \in Nat
      /\ conn[c].next \in Nat /\ conn[c].stream \in Nat
      /\ conn[c].stream <= Len(streams)
  BY StreamTypes, ClientTypes DEF StreamsInv
<1>2. \A m \in Nat, n \in Nat : Has(c, m, n) => Has(c, m, n)'
  <2> SUFFICES ASSUME NEW m \in Nat, NEW n \in Nat, Has(c, m, n), NEW x \in 0..(n - 1)
               PROVE  x < Start' \/ \E j \in 1..m : sent'[c][j].seq = x
    BY DEF Has
  <2>1. x < Start \/ \E j \in 1..m : sent[c][j].seq = x
    BY DEF Has
  <2>2. x < Start => x < Start'
    BY <1>1
  <2>3. QED
    BY <2>1, <2>2
<1>3. ASSUME NEW i \in 1..Len(sent[c])
      PROVE  sent'[c][i].stream = 1 /\ sent'[c][i].seq < Total' /\ Has(c, i - 1, sent[c][i].seq)'
  <2>1. sent[c][i].stream = 1 /\ sent[c][i].seq < Total /\ Has(c, i - 1, sent[c][i].seq)
    BY DEF FeedOf
  <2> PICK q \in Nat : q = sent[c][i].seq
    BY ClientTypes DEF StreamsInv
  <2>2. i - 1 \in Nat
    BY <1>1
  <2>3. Has(c, i - 1, q)'
    BY <1>2, <2>1, <2>2
  <2>4. q < Total'
    BY <1>1, <2>1
  <2>5. QED
    BY <2>1, <2>3, <2>4
<1>4. FeedOf(c)'
  BY <1>3 DEF FeedOf
<1>5. ConnOf(c)'
  <2>1. conn[c].stream = 1 => conn[c].next <= Total'
    BY <1>1 DEF ConnOf
  <2>2. conn[c].stream = 1 => Has(c, Len(sent[c]), conn[c].next)'
    BY <1>1, <1>2 DEF ConnOf
  <2>3. conn[c].ended => streams'[1].ended /\ conn[c].next = Total'
    <3> SUFFICES ASSUME conn[c].ended PROVE streams'[1].ended /\ conn[c].next = Total'
      OBVIOUS
    <3>1. conn[c].stream = 1 /\ streams[1].ended /\ conn[c].next = Total
      BY DEF ConnOf
    <3>2. QED
      BY <1>1, <3>1
  <2>4. QED
    BY <2>1, <2>2, <2>3 DEF ConnOf
<1>6. DoneOf(c)'
  BY <1>1, <1>2 DEF DoneOf
<1>7. QED
  BY <1>4, <1>5, <1>6

\* The same for a step that leaves _RunStream objects alone or makes one.
LEMMA OpenedKeeps ==
  ASSUME StreamsInv, streams' = Opened.streams, current' = Opened.current,
         counter' = Opened.counter, run' = run
  PROVE  /\ streams' \in Seq(Stream)
         /\ current' \in 1..Len(streams')
         /\ counter' \in Nat
         /\ OffsetsAreIds'
         /\ FirstStream'
         /\ Start' = Start /\ Total' = Total
         /\ Len(streams)' \in Nat /\ Len(streams) <= Len(streams)'
         /\ (Len(streams) >= 1 /\ streams[1].ended) => streams'[1].ended
<1> DEFINE o == Opened
<1>1. /\ streams' = o.streams /\ current' = o.current /\ counter' = o.counter
      /\ Len(streams) \in Nat
  BY StreamTypes
<1> HIDE DEF o
<1>2. /\ o.streams \in Seq(Stream)
      /\ o.current \in 1..Len(o.streams)
      /\ \A k \in 1..Len(o.streams) : Numbered(o.streams[k], k)
      /\ \A k \in 1..Len(o.streams) : k > 1 => o.streams[k] = NewStream
      /\ o.counter = o.streams[o.current].start + Len(o.streams[o.current].events)
      /\ o.counter \in Nat
      /\ Len(streams) <= Len(o.streams)
      /\ \A k \in 1..Len(streams) : o.streams[k] = streams[k]
      /\ Start = o.streams[1].start
      /\ Total = o.streams[1].start + Len(o.streams[1].events)
      /\ run \in {"running", "aborted"} => Len(o.streams) = 1 /\ ~o.streams[1].ended
      /\ run = "ended" => Len(o.streams) = 1
      /\ run \in {"ended", "released"} => o.streams[1].ended
  BY OpenedFacts DEF o
<1>3. Len(o.streams) \in Nat /\ Len(o.streams) >= 1 /\ o.streams # <<>>
  BY <1>2
<1>4. OffsetsAreIds'
  BY <1>1, <1>2 DEF OffsetsAreIds
<1>5. FirstStream'
  BY <1>1, <1>2, <1>3 DEF FirstStream
<1>6. Start' = Start /\ Total' = Total
  BY <1>1, <1>2, <1>3 DEF Start, Total
<1>7. (Len(streams) >= 1 /\ streams[1].ended) => o.streams[1].ended
  BY <1>1, <1>2
<1>8. QED
  BY <1>1, <1>2, <1>3, <1>4, <1>5, <1>6, <1>7

-----------------------------------------------------------------------------
(* The inductive invariant, action by action. *)

ClientsInv == \A c \in Clients : FeedOf(c) /\ ConnOf(c) /\ DoneOf(c)

LEMMA InitInv == Init => IInv
<1> SUFFICES ASSUME Init PROVE IInv
  OBVIOUS
<1>1. NoConn \in Subscription
  BY DEF NoConn, Subscription
<1>2. Len(<<>>) = 0 /\ <<>> \in Seq(Stream) /\ <<>> \in Seq(Id)
  OBVIOUS
<1>3. TypeOK
  BY <1>1, <1>2, RunStreamAssumption DEF Init, TypeOK, NoConn
<1>4. OffsetsAreIds /\ FirstStream
  BY <1>2 DEF Init, OffsetsAreIds, FirstStream
<1>5. \A c \in Clients : FeedOf(c) /\ ConnOf(c) /\ DoneOf(c)
  <2> TAKE c \in Clients
  <2>1. sent[c] = <<>> /\ read[c] = 0 /\ conn[c] = NoConn /\ done[c] = FALSE
    BY DEF Init
  <2>2. FeedOf(c) /\ DoneOf(c)
    BY <1>2, <2>1 DEF FeedOf, DoneOf
  <2>3. conn[c].stream = 0 /\ conn[c].ended = FALSE
    BY <2>1 DEF NoConn
  <2>4. ConnOf(c)
    BY <1>2, <2>1, <2>3 DEF ConnOf
  <2>5. QED
    BY <2>2, <2>4
<1>6. QED
  BY <1>3, <1>4, <1>5 DEF IInv

LEMMA PublishInv == IInv /\ Publish => IInv'
<1> SUFFICES ASSUME IInv, Publish PROVE IInv'
  OBVIOUS
<1> DEFINE o == Opened
           id == [stream |-> o.current, seq |-> o.counter]
           s == o.streams[1]
           p == Published(s, id)
<1>1. StreamsInv /\ ClientsInv /\ TypeOK
  BY DEF IInv, StreamsInv, ClientsInv
<1>2. /\ run = "running"
      /\ streams' = [o.streams EXCEPT ![o.current] = Published(o.streams[o.current], id)]
      /\ current' = o.current
      /\ counter' = o.counter + 1
      /\ UNCHANGED <<run, conn, sent, read, done, connects, abandoned>>
  BY DEF Publish
<1> HIDE DEF o
<1>3. /\ o.streams \in Seq(Stream)
      /\ o.current \in 1..Len(o.streams)
      /\ \A k \in 1..Len(o.streams) : Numbered(o.streams[k], k)
      /\ o.counter = o.streams[o.current].start + Len(o.streams[o.current].events)
      /\ o.counter \in Nat
      /\ Len(streams) <= Len(o.streams)
      /\ \A k \in 1..Len(streams) : o.streams[k] = streams[k]
      /\ Start = o.streams[1].start
      /\ Total = o.streams[1].start + Len(o.streams[1].events)
      /\ Len(o.streams) = 1 /\ ~o.streams[1].ended
  BY <1>1, <1>2, OpenedFacts DEF o
<1>4. o.current = 1 /\ s \in Stream /\ Numbered(s, 1) /\ id = [stream |-> 1, seq |-> s.start + Len(s.events)]
  BY <1>3
<1> HIDE DEF id, s
<1>5. /\ p \in Stream
      /\ Numbered(p, 1)
      /\ p.start >= s.start
      /\ p.start + Len(p.events) = s.start + Len(s.events) + 1
      /\ p.ended = s.ended
  BY <1>4, PublishedFacts
<1>6. s.start \in Nat /\ Len(s.events) \in Nat /\ p.start \in Nat /\ Len(p.events) \in Nat
  BY <1>4, <1>5 DEF Stream
<1> HIDE DEF p
<1>7. streams' \in Seq(Stream) /\ Len(streams') = 1 /\ streams'[1] = p /\ streams' # <<>>
  BY <1>2, <1>3, <1>4, <1>5 DEF p, s
<1>8. TypeOK'
  <2>1. Len(streams) \in Nat
    BY <1>1, StreamTypes
  <2>2. \A c \in Clients : conn[c].stream <= Len(streams')
    <3> TAKE c \in Clients
    <3>1. conn[c].stream \in Nat /\ conn[c].stream <= Len(streams)
      BY <1>1, ClientTypes
    <3>2. QED
      BY <1>3, <1>7, <2>1, <3>1
  <2>3. current' \in 0..Len(streams') /\ counter' \in Nat
    BY <1>2, <1>3, <1>4, <1>7
  <2>4. QED
    BY <1>1, <1>2, <1>7, <2>2, <2>3 DEF TypeOK
<1>9. OffsetsAreIds'
  BY <1>2, <1>3, <1>4, <1>5, <1>6, <1>7 DEF OffsetsAreIds, s
<1>10. FirstStream'
  <2>1. run' = "running" /\ current' = 1 /\ Len(streams') = 1 /\ ~streams'[1].ended
    BY <1>2, <1>3, <1>4, <1>5, <1>7 DEF s
  <2>2. \A k \in 1..Len(streams') : ~(k > 1)
    BY <2>1
  <2>3. QED
    BY <2>1, <2>2 DEF FirstStream
<1>11. Start' = p.start /\ Total' = p.start + Len(p.events)
  BY <1>7 DEF Start, Total
<1>12. Start = s.start /\ Total = s.start + Len(s.events)
  BY <1>3 DEF s
<1>13. /\ Start' \in Nat /\ Total' \in Nat /\ Start <= Start' /\ Total <= Total'
       /\ Len(streams)' \in Nat /\ Len(streams) <= Len(streams)'
  <2>1. Start' \in Nat /\ Start <= Start'
    BY <1>5, <1>6, <1>11, <1>12
  <2>2. Total' \in Nat /\ Total <= Total'
    BY <1>5, <1>6, <1>11, <1>12
  <2>3. Len(streams)' \in Nat /\ Len(streams) <= Len(streams)'
    BY <1>3, <1>7
  <2>4. QED
    BY <2>1, <2>2, <2>3
<1>14. ~(Len(streams) >= 1 /\ streams[1].ended)
  <2>1. Len(streams) \in Nat
    BY <1>1, StreamTypes
  <2>2. Len(streams) >= 1 => o.streams[1] = streams[1]
    BY <1>3, <2>1
  <2>3. QED
    BY <1>3, <2>2
<1>15. \A c \in Clients : FeedOf(c)' /\ ConnOf(c)' /\ DoneOf(c)'
  <2> TAKE c \in Clients
  <2>1. FeedOf(c) /\ ConnOf(c) /\ DoneOf(c)
    BY <1>1 DEF ClientsInv
  <2>2. sent'[c] = sent[c] /\ read'[c] = read[c] /\ conn'[c] = conn[c] /\ done'[c] = done[c]
    BY <1>2
  <2>3. QED
    BY <1>1, <1>13, <1>14, <2>1, <2>2, Untouched
<1>16. QED
  BY <1>8, <1>9, <1>10, <1>15 DEF IInv

LEMMA PublishEndInv == IInv /\ PublishEnd => IInv'
<1> SUFFICES ASSUME IInv, PublishEnd PROVE IInv'
  OBVIOUS
<1> DEFINE o == Opened
           s == o.streams[1]
<1>1. StreamsInv /\ ClientsInv /\ TypeOK
  BY DEF IInv, StreamsInv, ClientsInv
<1>2. /\ run \in {"running", "aborted"}
      /\ run' = "ended"
      /\ streams' = [o.streams EXCEPT ![o.current].ended = TRUE]
      /\ current' = o.current
      /\ counter' = o.counter
      /\ UNCHANGED <<conn, sent, read, done, connects, abandoned>>
  BY DEF PublishEnd
<1> HIDE DEF o
<1>3. /\ o.streams \in Seq(Stream)
      /\ o.current \in 1..Len(o.streams)
      /\ \A k \in 1..Len(o.streams) : Numbered(o.streams[k], k)
      /\ o.counter = o.streams[o.current].start + Len(o.streams[o.current].events)
      /\ o.counter \in Nat
      /\ Len(streams) <= Len(o.streams)
      /\ \A k \in 1..Len(streams) : o.streams[k] = streams[k]
      /\ Start = o.streams[1].start
      /\ Total = o.streams[1].start + Len(o.streams[1].events)
      /\ Len(o.streams) = 1 /\ ~o.streams[1].ended
  BY <1>1, <1>2, OpenedFacts DEF o
<1>4. o.current = 1 /\ s \in Stream /\ Numbered(s, 1)
  BY <1>3
<1>5. streams' = [o.streams EXCEPT ![1] = [s EXCEPT !.ended = TRUE]]
  BY <1>2, <1>4
<1> HIDE DEF s
<1>6. /\ [s EXCEPT !.ended = TRUE] \in Stream
      /\ [s EXCEPT !.ended = TRUE].start = s.start
      /\ [s EXCEPT !.ended = TRUE].events = s.events
      /\ [s EXCEPT !.ended = TRUE].ended = TRUE
  BY <1>4 DEF Stream
<1>7. /\ streams' \in Seq(Stream) /\ Len(streams') = 1 /\ streams' # <<>>
      /\ streams'[1].start = s.start
      /\ streams'[1].events = s.events
      /\ streams'[1].ended
  BY <1>3, <1>5, <1>6
<1>8. Len(streams) \in Nat
  BY <1>1, StreamTypes
<1>9. TypeOK'
  <2>1. \A c \in Clients : conn[c].stream <= Len(streams')
    <3> TAKE c \in Clients
    <3>1. conn[c].stream \in Nat /\ conn[c].stream <= Len(streams)
      BY <1>1, ClientTypes
    <3>2. QED
      BY <1>3, <1>7, <1>8, <3>1
  <2>2. current' \in 0..Len(streams') /\ counter' \in Nat
    BY <1>2, <1>3, <1>4, <1>7
  <2>3. QED
    BY <1>1, <1>2, <1>7, <2>1, <2>2 DEF TypeOK
<1>10. OffsetsAreIds'
  <2>1. Numbered(streams'[1], 1)
    BY <1>4, <1>7 DEF Numbered
  <2>2. counter' = streams'[1].start + Len(streams'[1].events) /\ current' = 1
    BY <1>2, <1>3, <1>4, <1>7 DEF s
  <2>3. QED
    BY <1>7, <2>1, <2>2 DEF OffsetsAreIds
<1>11. FirstStream'
  BY <1>2, <1>4, <1>7 DEF FirstStream
<1>12. Start' = Start /\ Total' = Total
  BY <1>3, <1>7 DEF Start, Total, s
<1>13. Start \in Nat /\ Total \in Nat
  BY <1>1, StreamTypes
<1>14. Len(streams)' \in Nat /\ Len(streams) <= Len(streams)'
  BY <1>3, <1>7
<1>15. \A c \in Clients : FeedOf(c)' /\ ConnOf(c)' /\ DoneOf(c)'
  <2> TAKE c \in Clients
  <2>1. FeedOf(c) /\ ConnOf(c) /\ DoneOf(c)
    BY <1>1 DEF ClientsInv
  <2>2. sent'[c] = sent[c] /\ read'[c] = read[c] /\ conn'[c] = conn[c] /\ done'[c] = done[c]
    BY <1>2
  <2>3. QED
    BY <1>1, <1>7, <1>12, <1>13, <1>14, <2>1, <2>2, Untouched
<1>16. QED
  BY <1>9, <1>10, <1>11, <1>15 DEF IInv

\* Steps that leave every _RunStream and the subscriptions as they are.
LEMMA StreamsSame ==
  ASSUME StreamsInv, ClientsInv, streams' = streams
  PROVE  /\ \A k \in 1..Len(streams) : Numbered(streams[k], k)' = Numbered(streams[k], k)
         /\ Start' = Start /\ Total' = Total
         /\ \A c \in Clients :
              (sent'[c] = sent[c] /\ read'[c] = read[c] /\ conn'[c] = conn[c] /\ done'[c] = done[c])
                => FeedOf(c)' /\ ConnOf(c)' /\ DoneOf(c)'
<1>1. Start' = Start /\ Total' = Total
  BY DEF Start, Total
<1>2. Start \in Nat /\ Total \in Nat /\ Len(streams) \in Nat
  BY StreamTypes
<1>3. \A k \in 1..Len(streams) : Numbered(streams[k], k)' = Numbered(streams[k], k)
  BY DEF Numbered
<1>4. ASSUME NEW c \in Clients, sent'[c] = sent[c], read'[c] = read[c], conn'[c] = conn[c],
             done'[c] = done[c]
      PROVE  FeedOf(c)' /\ ConnOf(c)' /\ DoneOf(c)'
  <2>1. FeedOf(c) /\ ConnOf(c) /\ DoneOf(c)
    BY DEF ClientsInv
  <2>2. QED
    BY <1>1, <1>2, <1>4, <2>1, Untouched
<1>5. QED
  BY <1>1, <1>3, <1>4

LEMMA CleanupInv == IInv /\ Cleanup => IInv'
<1> SUFFICES ASSUME IInv, Cleanup PROVE IInv'
  OBVIOUS
<1>1. StreamsInv /\ ClientsInv /\ TypeOK
  BY DEF IInv, StreamsInv, ClientsInv
<1>2. /\ run = "ended" /\ run' = "released" /\ current' = 0 /\ counter' = 0
      /\ UNCHANGED <<streams, conn, sent, read, done, connects, abandoned>>
  BY DEF Cleanup
<1>3. Len(streams) \in Nat
  BY <1>1, StreamTypes
<1>4. TypeOK'
  BY <1>1, <1>2, <1>3 DEF TypeOK
<1>5. OffsetsAreIds'
  BY <1>1, <1>2 DEF StreamsInv, OffsetsAreIds
<1>6. FirstStream'
  BY <1>1, <1>2 DEF StreamsInv, FirstStream
<1>7. \A c \in Clients : FeedOf(c)' /\ ConnOf(c)' /\ DoneOf(c)'
  BY <1>1, <1>2, StreamsSame
<1>8. QED
  BY <1>4, <1>5, <1>6, <1>7 DEF IInv

LEMMA NoticeInv == IInv /\ NoticeDisconnect => IInv'
<1> SUFFICES ASSUME IInv, NoticeDisconnect PROVE IInv'
  OBVIOUS
<1>1. StreamsInv /\ ClientsInv /\ TypeOK
  BY DEF IInv, StreamsInv, ClientsInv
<1>2. /\ abandoned > 0
      /\ abandoned' = abandoned - 1
      /\ run' = run \/ (run = "running" /\ run' = "aborted")
      /\ UNCHANGED <<streams, current, counter, conn, sent, read, done, connects>>
  BY DEF NoticeDisconnect
<1>3. abandoned' \in Nat
  BY <1>1, <1>2 DEF TypeOK
<1>4. TypeOK'
  BY <1>1, <1>2, <1>3 DEF TypeOK
<1>5. OffsetsAreIds'
  BY <1>1, <1>2 DEF StreamsInv, OffsetsAreIds
<1>6. FirstStream'
  BY <1>1, <1>2 DEF StreamsInv, FirstStream
<1>7. \A c \in Clients : FeedOf(c)' /\ ConnOf(c)' /\ DoneOf(c)'
  BY <1>1, <1>2, StreamsSame
<1>8. QED
  BY <1>4, <1>5, <1>6, <1>7 DEF IInv

\* A step of one client's connection.
LEMMA ClientStep ==
  ASSUME IInv, UNCHANGED <<run, streams, current, counter>>, NEW c \in Clients, TypeOK',
         \A d \in Clients \ {c} :
           sent'[d] = sent[d] /\ read'[d] = read[d] /\ conn'[d] = conn[d] /\ done'[d] = done[d],
         FeedOf(c)', ConnOf(c)', DoneOf(c)'
  PROVE  IInv'
<1>1. StreamsInv /\ ClientsInv
  BY DEF IInv, StreamsInv, ClientsInv
<1>2. OffsetsAreIds'
  BY <1>1 DEF StreamsInv, OffsetsAreIds, Numbered
<1>3. FirstStream'
  BY <1>1 DEF StreamsInv, FirstStream
<1>4. \A d \in Clients : FeedOf(d)' /\ ConnOf(d)' /\ DoneOf(d)'
  <2> TAKE d \in Clients
  <2>1. CASE d = c
    BY <2>1
  <2>2. CASE d # c
    BY <1>1, <2>2, StreamsSame
  <2>3. QED
    BY <2>1, <2>2
<1>5. QED
  BY <1>2, <1>3, <1>4 DEF IInv

\* The offset a round of subscribe's loop looks at.
LEMMA PositionFacts ==
  ASSUME IInv, NEW c \in Clients, conn[c].stream # 0
  PROVE  /\ conn[c].stream \in 1..Len(streams)
         /\ streams[conn[c].stream] \in Stream
         /\ Numbered(streams[conn[c].stream], conn[c].stream)
         /\ Position(c) \in Nat
         /\ Position(c) >= conn[c].next
         /\ Position(c) >= streams[conn[c].stream].start
         /\ Position(c) \in {conn[c].next, streams[conn[c].stream].start}
         /\ conn[c].stream = 1 => Position(c) <= Total /\ Has(c, Len(sent[c]), Position(c))
         /\ conn[c].stream # 1 => streams[conn[c].stream] = NewStream /\ Position(c) = 0
<1> DEFINE k == conn[c].stream
           s == streams[k]
<1>1. TypeOK /\ StreamsInv /\ FeedOf(c) /\ ConnOf(c)
  BY DEF IInv, StreamsInv
<1>2. /\ conn[c].next \in Nat /\ k \in Nat /\ k <= Len(streams)
      /\ Len(streams) \in Nat
      /\ Total \in Nat /\ Start \in Nat /\ Start <= Total
      /\ Len(sent[c]) \in Nat
  BY <1>1, ClientTypes, StreamTypes
<1>3. k \in 1..Len(streams)
  BY <1>2
<1>4. s \in Stream /\ Numbered(s, k)
  BY <1>1, <1>3 DEF TypeOK, StreamsInv, OffsetsAreIds
<1>5. s.start \in Nat
  BY <1>4 DEF Stream
<1>6. Position(c) = IF conn[c].next < s.start THEN s.start ELSE conn[c].next
  BY DEF Position
<1>7. /\ Position(c) \in Nat
      /\ Position(c) >= conn[c].next
      /\ Position(c) >= s.start
      /\ Position(c) \in {conn[c].next, s.start}
  BY <1>2, <1>5, <1>6
<1>8. ASSUME k = 1
      PROVE  Position(c) <= Total /\ Has(c, Len(sent[c]), Position(c))
  <2>1. conn[c].next <= Total /\ Has(c, Len(sent[c]), conn[c].next)
    BY <1>1, <1>8 DEF ConnOf
  <2>2. s.start = Start
    BY <1>2, <1>8, <1>1, StreamTypes DEF Start
  <2>3. Has(c, Len(sent[c]), Start)
    BY <1>2 DEF Has
  <2>4. QED
    BY <1>2, <1>7, <2>1, <2>2, <2>3
<1>9. ASSUME k # 1
      PROVE  s = NewStream /\ Position(c) = 0
  <2>1. k > 1
    BY <1>2, <1>3, <1>9
  <2>2. s = NewStream
    BY <1>1, <1>3, <2>1 DEF StreamsInv, FirstStream
  <2>3. conn[c].next = 0
    BY <1>1, <2>1 DEF ConnOf
  <2>4. QED
    BY <1>6, <2>2, <2>3, NewStreamFacts
<1>10. QED
  BY <1>3, <1>4, <1>7, <1>8, <1>9

LEMMA SendEventInv == ASSUME IInv, NEW c \in Clients, SendEvent(c) PROVE IInv'
<1> DEFINE k == conn[c].stream
           s == streams[k]
           e == s.events[Position(c) - s.start + 1]
<1>1. TypeOK /\ StreamsInv /\ ClientsInv /\ FeedOf(c) /\ ConnOf(c) /\ DoneOf(c)
  BY DEF IInv, StreamsInv, ClientsInv
<1>2. /\ k # 0
      /\ ~conn[c].ended
      /\ ~(Position(c) - s.start >= Len(s.events))
      /\ sent' = [sent EXCEPT ![c] = Append(sent[c], e)]
      /\ conn' = [conn EXCEPT ![c].next = Position(c) + 1]
      /\ UNCHANGED <<run, streams, current, counter, read, done, connects, abandoned>>
  BY DEF SendEvent, CanSend, Drained
<1>3. /\ s \in Stream /\ Numbered(s, k) /\ k \in Nat /\ k \in 1..Len(streams)
      /\ Position(c) \in Nat
      /\ Position(c) >= conn[c].next
      /\ Position(c) >= s.start
      /\ k = 1 => Has(c, Len(sent[c]), Position(c))
      /\ k # 1 => s = NewStream /\ Position(c) = 0
  BY <1>1, <1>2, PositionFacts, StreamTypes
<1>4. s.start \in Nat /\ Len(s.events) \in Nat
  BY <1>3 DEF Stream
<1>5. k = 1
  BY <1>2, <1>3, NewStreamFacts
<1>6. Position(c) - s.start + 1 \in 1..Len(s.events)
  <2>1. ~(Position(c) - s.start >= Len(s.events))
    BY <1>2
  <2>2. Position(c) \in Nat /\ Position(c) >= s.start
    BY <1>3
  <2>3. QED
    BY <1>4, <2>1, <2>2
<1>7. e = [stream |-> 1, seq |-> Position(c)]
  <2>1. s.start + (Position(c) - s.start + 1) - 1 = Position(c)
    BY <1>3, <1>4
  <2>2. QED
    BY <1>3, <1>5, <1>6, <2>1 DEF Numbered
<1>8. /\ sent[c] \in Seq(Id) /\ Len(sent[c]) \in Nat
      /\ \A i \in 1..Len(sent[c]) : sent[c][i].seq \in Nat
      /\ conn[c] \in Subscription /\ conn[c].next \in Nat
      /\ read[c] \in Nat /\ read[c] <= Len(sent[c])
      /\ k <= Len(streams)
  BY <1>1, ClientTypes
<1>9. Total = s.start + Len(s.events) /\ Total' = Total /\ Start' = Start /\ Start = s.start
  BY <1>1, <1>2, <1>3, <1>5, StreamsSame, StreamTypes DEF Total, Start
<1>10. Position(c) < Total
  <2>1. Position(c) \in Nat
    BY <1>3
  <2>2. Position(c) < s.start + Len(s.events)
    <3>1. \A x, y \in Nat, z \in Nat : x - y + 1 \in 1..z => x < y + z
      OBVIOUS
    <3>2. QED
      BY <1>4, <1>6, <2>1, <3>1
  <2>3. QED
    BY <1>9, <2>2
<1> PICK p \in Nat : p = Position(c)
  BY <1>3
<1> PICK l \in Nat : l = Len(sent[c])
  BY <1>8
<1> HIDE DEF e, k
<1>11. sent'[c] = Append(sent[c], e) /\ e \in Id /\ e.stream = 1 /\ e.seq = Position(c)
  BY <1>1, <1>2, <1>3, <1>7 DEF TypeOK, Id
<1>12. /\ sent'[c] \in Seq(Id)
       /\ Len(sent'[c]) = Len(sent[c]) + 1
       /\ sent'[c][Len(sent[c]) + 1] = e
       /\ \A i \in 1..Len(sent[c]) : sent'[c][i] = sent[c][i]
  BY <1>8, <1>11
<1>13. /\ conn'[c] \in Subscription
       /\ conn'[c].stream = 1
       /\ conn'[c].next = Position(c) + 1
       /\ conn'[c].ended = conn[c].ended
  <2>1. conn'[c] = [conn[c] EXCEPT !.next = Position(c) + 1]
    BY <1>1, <1>2 DEF TypeOK
  <2>2. QED
    BY <1>3, <1>5, <1>8, <2>1 DEF Subscription, k
<1>14. \A d \in Clients \ {c} : sent'[d] = sent[d] /\ read'[d] = read[d] /\ conn'[d] = conn[d] /\ done'[d] = done[d]
  BY <1>1, <1>2 DEF TypeOK
<1>15. TypeOK'
  <2>1. sent' \in [Clients -> Seq(Id)] /\ conn' \in [Clients -> Subscription]
    BY <1>1, <1>2, <1>11, <1>12, <1>13, <1>14 DEF TypeOK
  <2>2. \A d \in Clients : read[d] <= Len(sent'[d]) /\ conn'[d].stream <= Len(streams)
    <3> TAKE d \in Clients
    <3>1. CASE d = c
      BY <1>5, <1>8, <1>12, <1>13, <3>1 DEF k
    <3>2. CASE d # c
      BY <1>1, <1>14, <3>2 DEF TypeOK
    <3>3. QED
      BY <3>1, <3>2
  <2>3. QED
    BY <1>1, <1>2, <2>1, <2>2 DEF TypeOK
<1>16. \A m \in Nat, n \in Nat : (m <= l /\ Has(c, m, n)) => Has(c, m, n)'
  <2> SUFFICES ASSUME NEW m \in Nat, NEW n \in Nat, m <= l, Has(c, m, n),
                      NEW x \in 0..(n - 1)
               PROVE  x < Start' \/ \E j \in 1..m : sent'[c][j].seq = x
    BY DEF Has
  <2>1. \A j \in 1..m : sent'[c][j] = sent[c][j]
    BY <1>8, <1>12
  <2>2. QED
    BY <1>9, <2>1 DEF Has
<1>17. \A i \in 1..l : sent[c][i].seq < p
  <2> TAKE i \in 1..l
  <2>1. sent[c][i].seq < conn[c].next
    BY <1>1, <1>5 DEF ConnOf, k
  <2>2. sent[c][i].seq \in Nat
    BY <1>8
  <2>3. conn[c].next \in Nat /\ p >= conn[c].next
    BY <1>3, <1>8
  <2>4. QED
    BY <2>1, <2>2, <2>3
<1>18. Has(c, l, p)'
  <2>1. Has(c, l, p)
    BY <1>3, <1>5
  <2>2. QED
    BY <1>16, <2>1
<1>19. FeedOf(c)'
  <2>1. ASSUME NEW i \in 1..Len(sent'[c])
        PROVE  sent'[c][i].stream = 1 /\ sent'[c][i].seq < Total' /\ Has(c, i - 1, sent[c][i].seq)'
    <3>1. CASE i = l + 1
      <4>1. sent'[c][i].stream = 1 /\ sent'[c][i].seq = p /\ i - 1 = l
        BY <1>11, <1>12, <3>1
      <4>2. p < Total'
        BY <1>9, <1>10
      <4>3. QED
        BY <1>18, <4>1, <4>2
    <3>2. CASE i # l + 1
      <4>1. i \in 1..l /\ i - 1 \in Nat /\ i - 1 <= l
        BY <1>12, <3>2
      <4>2. sent'[c][i] = sent[c][i] /\ sent[c][i].seq \in Nat
        BY <1>8, <1>12, <4>1
      <4>3. sent[c][i].stream = 1 /\ sent[c][i].seq < Total /\ Has(c, i - 1, sent[c][i].seq)
        BY <1>1, <4>1 DEF FeedOf
      <4> PICK q \in Nat : q = sent[c][i].seq
        BY <4>2
      <4>4. Has(c, i - 1, q)'
        BY <1>16, <4>1, <4>3
      <4>5. sent'[c][i].seq = q
        BY <4>2
      <4>6. QED
        BY <1>9, <4>2, <4>3, <4>4, <4>5
    <3>3. QED
      BY <3>1, <3>2
  <2>2. ASSUME NEW i \in 1..Len(sent'[c]), NEW j \in 1..Len(sent'[c]), i < j
        PROVE  sent'[c][i].seq < sent'[c][j].seq
    <3>1. i \in 1..l /\ sent'[c][i] = sent[c][i]
      BY <1>8, <1>12, <2>2
    <3>2. CASE j = l + 1
      <4>1. sent'[c][j].seq = p
        BY <1>11, <1>12, <3>2
      <4>2. QED
        BY <1>17, <3>1, <4>1
    <3>3. CASE j # l + 1
      <4>1. j \in 1..l /\ sent'[c][j] = sent[c][j]
        BY <1>8, <1>12, <3>3
      <4>2. QED
        BY <1>1, <2>2, <3>1, <4>1 DEF FeedOf
    <3>4. QED
      BY <3>2, <3>3
  <2>3. QED
    BY <2>1, <2>2 DEF FeedOf
<1>20. ConnOf(c)'
  <2>1. \A i \in 1..Len(sent'[c]) : sent'[c][i].seq < p + 1
    <3> TAKE i \in 1..Len(sent'[c])
    <3>1. CASE i = l + 1
      BY <1>11, <1>12, <3>1
    <3>2. CASE i # l + 1
      <4>1. i \in 1..l /\ sent'[c][i] = sent[c][i] /\ sent[c][i].seq \in Nat
        BY <1>8, <1>12, <3>2
      <4>2. sent[c][i].seq < p
        BY <1>17, <4>1
      <4>3. QED
        BY <4>1, <4>2
    <3>3. QED
      BY <3>1, <3>2
  <2>2. p + 1 <= Total'
    <3>1. Total \in Nat
      BY <1>4, <1>9
    <3>2. QED
      BY <1>9, <1>10, <3>1
  <2>3. Has(c, l + 1, p + 1)'
    <3> SUFFICES ASSUME NEW x \in 0..((p + 1) - 1)
                 PROVE  x < Start' \/ \E j \in 1..(l + 1) : sent'[c][j].seq = x
      BY DEF Has
    <3>1. CASE x = p
      <4>1. sent'[c][l + 1].seq = x
        BY <1>11, <1>12, <3>1
      <4>2. QED
        BY <4>1
    <3>2. CASE x # p
      <4>1. x \in 0..(p - 1)
        BY <3>2
      <4>2. x < Start' \/ \E j \in 1..l : sent'[c][j].seq = x
        BY <1>18, <4>1 DEF Has
      <4>3. QED
        BY <4>2
    <3>3. QED
      BY <3>1, <3>2
  <2>4. ~conn'[c].ended
    BY <1>2, <1>13
  <2>5. conn'[c].next = p + 1 /\ Len(sent'[c]) = l + 1
    BY <1>12, <1>13
  <2>6. QED
    BY <1>13, <2>1, <2>2, <2>3, <2>4, <2>5 DEF ConnOf
<1>21. DoneOf(c)'
  BY <1>1, <1>2 DEF DoneOf, k
<1>22. QED
  BY <1>2, <1>14, <1>15, <1>19, <1>20, <1>21, ClientStep

LEMMA SendEndInv == ASSUME IInv, NEW c \in Clients, SendEnd(c) PROVE IInv'
<1> DEFINE k == conn[c].stream
           s == streams[k]
<1>1. TypeOK /\ StreamsInv /\ ClientsInv /\ FeedOf(c) /\ ConnOf(c) /\ DoneOf(c)
  BY DEF IInv, StreamsInv, ClientsInv
<1>2. /\ k # 0
      /\ ~conn[c].ended
      /\ Position(c) - s.start >= Len(s.events)
      /\ s.ended
      /\ conn' = [conn EXCEPT ![c].next = Position(c), ![c].ended = TRUE]
      /\ UNCHANGED <<run, streams, current, counter, sent, read, done, connects, abandoned>>
  BY DEF SendEnd, CanSend, Drained
<1>3. /\ s \in Stream /\ k \in Nat /\ k \in 1..Len(streams)
      /\ Position(c) \in Nat
      /\ Position(c) >= conn[c].next
      /\ k = 1 => Position(c) <= Total /\ Has(c, Len(sent[c]), Position(c))
      /\ k # 1 => s = NewStream
  BY <1>1, <1>2, PositionFacts, StreamTypes
<1>4. s.start \in Nat /\ Len(s.events) \in Nat
  BY <1>3 DEF Stream
<1>5. k = 1
  BY <1>2, <1>3, NewStreamFacts
<1>6. /\ \A i \in 1..Len(sent[c]) : sent[c][i].seq \in Nat
      /\ Len(sent[c]) \in Nat
      /\ conn[c] \in Subscription /\ conn[c].next \in Nat
      /\ k <= Len(streams)
  BY <1>1, ClientTypes
<1>7. Total = s.start + Len(s.events) /\ Total' = Total /\ Start' = Start
  BY <1>1, <1>2, <1>3, <1>5, StreamsSame, StreamTypes DEF Total
<1>8. Position(c) = Total
  <2>1. Position(c) >= s.start + Len(s.events)
    BY <1>2, <1>3, <1>4
  <2>2. Position(c) <= s.start + Len(s.events)
    BY <1>3, <1>5, <1>7
  <2>3. QED
    BY <1>3, <1>4, <1>7, <2>1, <2>2
<1> PICK p \in Nat : p = Position(c)
  BY <1>3
<1> PICK l \in Nat : l = Len(sent[c])
  BY <1>6
<1> HIDE DEF k
<1>9. conn'[c] = [conn[c] EXCEPT !.next = p, !.ended = TRUE]
  BY <1>1, <1>2 DEF TypeOK
<1>10. conn'[c] \in Subscription /\ conn'[c].stream = 1 /\ conn'[c].next = p /\ conn'[c].ended = TRUE
  BY <1>5, <1>6, <1>9 DEF Subscription, k
<1>11. \A d \in Clients \ {c} : sent'[d] = sent[d] /\ read'[d] = read[d] /\ conn'[d] = conn[d] /\ done'[d] = done[d]
  BY <1>1, <1>2 DEF TypeOK
<1>12. TypeOK'
  <2>1. conn' \in [Clients -> Subscription]
    BY <1>1, <1>2, <1>10, <1>11 DEF TypeOK
  <2>2. \A d \in Clients : conn'[d].stream <= Len(streams)
    <3> TAKE d \in Clients
    <3>1. CASE d = c
      BY <1>5, <1>6, <1>10, <3>1 DEF k
    <3>2. CASE d # c
      BY <1>1, <1>11, <3>2 DEF TypeOK
    <3>3. QED
      BY <3>1, <3>2
  <2>3. QED
    BY <1>1, <1>2, <2>1, <2>2 DEF TypeOK
<1>13. \A m \in Nat, n \in Nat : Has(c, m, n) => Has(c, m, n)'
  BY <1>2, <1>7 DEF Has
<1>14. FeedOf(c)'
  <2>1. ASSUME NEW i \in 1..l
        PROVE  sent'[c][i].stream = 1 /\ sent'[c][i].seq < Total' /\ Has(c, i - 1, sent[c][i].seq)'
    <3>1. sent[c][i].stream = 1 /\ sent[c][i].seq < Total /\ Has(c, i - 1, sent[c][i].seq)
      BY <1>1 DEF FeedOf
    <3> PICK q \in Nat : q = sent[c][i].seq
      BY <1>6
    <3>2. i - 1 \in Nat
      OBVIOUS
    <3>3. Has(c, i - 1, q)'
      BY <1>13, <3>1, <3>2
    <3>4. sent'[c][i].seq = q /\ sent'[c] = sent[c]
      BY <1>2
    <3>5. QED
      BY <1>7, <3>1, <3>3, <3>4
  <2>2. QED
    BY <1>1, <1>2, <2>1 DEF FeedOf
<1>15. ConnOf(c)'
  <2>1. \A i \in 1..Len(sent'[c]) : sent'[c][i].seq < p
    <3> TAKE i \in 1..Len(sent'[c])
    <3>1. i \in 1..l /\ sent'[c][i] = sent[c][i]
      BY <1>2
    <3>2. sent[c][i].seq < Total
      BY <1>1, <3>1 DEF FeedOf
    <3>3. QED
      BY <1>8, <3>1, <3>2
  <2>2. Has(c, l, p)'
    BY <1>3, <1>5, <1>13 DEF k
  <2>3. p <= Total' /\ p = Total'
    BY <1>7, <1>8
  <2>4. streams'[1].ended /\ Len(sent'[c]) = l
    BY <1>2, <1>5
  <2>5. QED
    BY <1>10, <2>1, <2>2, <2>3, <2>4 DEF ConnOf
<1>16. DoneOf(c)'
  BY <1>1, <1>2 DEF DoneOf, k
<1>17. QED
  BY <1>2, <1>11, <1>12, <1>14, <1>15, <1>16, ClientStep

\* A step that leaves what was sent to c, and the streams, as they are.
LEMMA FeedKept ==
  ASSUME IInv, NEW c \in Clients, streams' = streams, sent'[c] = sent[c]
  PROVE  /\ FeedOf(c)'
         /\ \A m \in Nat, n \in Nat : Has(c, m, n) => Has(c, m, n)'
<1>1. StreamsInv /\ ClientsInv /\ TypeOK /\ FeedOf(c)
  BY DEF IInv, StreamsInv, ClientsInv
<1>2. Total' = Total /\ Start' = Start
  BY DEF Total, Start
<1>3. \A m \in Nat, n \in Nat : Has(c, m, n) => Has(c, m, n)'
  BY <1>2 DEF Has
<1>4. ASSUME NEW i \in 1..Len(sent[c])
      PROVE  sent'[c][i].stream = 1 /\ sent'[c][i].seq < Total' /\ Has(c, i - 1, sent[c][i].seq)'
  <2>1. sent[c][i].stream = 1 /\ sent[c][i].seq < Total /\ Has(c, i - 1, sent[c][i].seq)
    BY <1>1 DEF FeedOf
  <2> PICK q \in Nat : q = sent[c][i].seq
    BY <1>1, ClientTypes
  <2>2. i - 1 \in Nat
    BY <1>1, ClientTypes
  <2>3. Has(c, i - 1, q)'
    BY <1>3, <2>1, <2>2
  <2>4. QED
    BY <1>2, <2>1, <2>3
<1>5. FeedOf(c)'
  BY <1>1, <1>4 DEF FeedOf
<1>6. QED
  BY <1>3, <1>5

LEMMA ReceiveEventInv == ASSUME IInv, NEW c \in Clients, ReceiveEvent(c) PROVE IInv'
<1>1. TypeOK /\ StreamsInv /\ ClientsInv /\ ConnOf(c) /\ DoneOf(c)
  BY DEF IInv, StreamsInv, ClientsInv
<1>2. /\ conn[c].stream # 0
      /\ read[c] < Len(sent[c])
      /\ read' = [read EXCEPT ![c] = read[c] + 1]
      /\ UNCHANGED <<run, streams, current, counter, conn, sent, done, connects, abandoned>>
  BY DEF ReceiveEvent
<1>3. read[c] \in Nat /\ Len(sent[c]) \in Nat /\ conn[c].next \in Nat /\ conn[c].stream \in Nat
  BY <1>1, ClientTypes
<1>4. read'[c] = read[c] + 1 /\ read'[c] \in Nat /\ read'[c] <= Len(sent[c])
  BY <1>1, <1>2, <1>3 DEF TypeOK
<1>5. \A d \in Clients \ {c} : sent'[d] = sent[d] /\ read'[d] = read[d] /\ conn'[d] = conn[d] /\ done'[d] = done[d]
  BY <1>1, <1>2 DEF TypeOK
<1>6. TypeOK'
  <2>1. read' \in [Clients -> Nat]
    BY <1>1, <1>2, <1>3 DEF TypeOK
  <2>2. \A d \in Clients : read'[d] <= Len(sent[d])
    BY <1>1, <1>4, <1>5 DEF TypeOK
  <2>3. QED
    BY <1>1, <1>2, <2>1, <2>2 DEF TypeOK
<1>7. FeedOf(c)' /\ \A m \in Nat, n \in Nat : Has(c, m, n) => Has(c, m, n)'
  BY <1>2, FeedKept
<1>8. Total' = Total
  BY <1>2 DEF Total
<1>9. conn[c].stream = 1
  BY <1>1, <1>2, <1>3 DEF ConnOf
<1> PICK p \in Nat : p = conn[c].next
  BY <1>3
<1> PICK l \in Nat : l = Len(sent[c])
  BY <1>3
<1>10. ConnOf(c)'
  <2>1. Has(c, l, p)'
    BY <1>1, <1>7, <1>9 DEF ConnOf
  <2>2. /\ conn'[c].next = p /\ Len(sent'[c]) = l /\ sent'[c] = sent[c] /\ conn'[c] = conn[c]
        /\ streams' = streams
    BY <1>2
  <2>3. QED
    BY <1>1, <1>8, <1>9, <2>1, <2>2 DEF ConnOf
<1>11. DoneOf(c)'
  BY <1>1, <1>2 DEF DoneOf
<1>12. QED
  BY <1>2, <1>5, <1>6, <1>7, <1>10, <1>11, ClientStep

LEMMA ReceiveEndInv == ASSUME IInv, NEW c \in Clients, ReceiveEnd(c) PROVE IInv'
<1>1. TypeOK /\ StreamsInv /\ ClientsInv /\ ConnOf(c) /\ DoneOf(c)
  BY DEF IInv, StreamsInv, ClientsInv
<1>2. /\ conn[c].ended
      /\ read[c] = Len(sent[c])
      /\ done' = [done EXCEPT ![c] = TRUE]
      /\ conn' = [conn EXCEPT ![c] = NoConn]
      /\ UNCHANGED <<run, streams, current, counter, sent, read, connects, abandoned>>
  BY DEF ReceiveEnd
<1>3. /\ read[c] \in Nat /\ Len(sent[c]) \in Nat /\ conn[c].next \in Nat
      /\ conn[c].stream \in Nat /\ conn[c].stream <= Len(streams) /\ Len(streams) \in Nat
  BY <1>1, ClientTypes, StreamTypes
<1>4. conn[c].stream = 1 /\ streams[1].ended /\ conn[c].next = Total
  BY <1>1, <1>2 DEF ConnOf
<1>5. NoConn \in Subscription /\ NoConn.stream = 0 /\ NoConn.ended = FALSE
  BY DEF NoConn, Subscription
<1>6. conn'[c] = NoConn /\ done'[c] = TRUE
  BY <1>1, <1>2 DEF TypeOK
<1>7. \A d \in Clients \ {c} : sent'[d] = sent[d] /\ read'[d] = read[d] /\ conn'[d] = conn[d] /\ done'[d] = done[d]
  BY <1>1, <1>2 DEF TypeOK
<1>8. TypeOK'
  <2>1. conn' \in [Clients -> Subscription] /\ done' \in [Clients -> BOOLEAN]
    BY <1>1, <1>2, <1>5 DEF TypeOK
  <2>2. \A d \in Clients : conn'[d].stream <= Len(streams)
    <3> TAKE d \in Clients
    <3>1. CASE d = c
      BY <1>3, <1>5, <1>6, <3>1
    <3>2. CASE d # c
      BY <1>1, <1>7, <3>2 DEF TypeOK
    <3>3. QED
      BY <3>1, <3>2
  <2>3. QED
    BY <1>1, <1>2, <2>1, <2>2 DEF TypeOK
<1>9. FeedOf(c)' /\ \A m \in Nat, n \in Nat : Has(c, m, n) => Has(c, m, n)'
  BY <1>2, FeedKept
<1>10. Total' = Total /\ Total \in Nat
  BY <1>1, <1>2, StreamTypes DEF Total
<1>11. ConnOf(c)'
  BY <1>2, <1>5, <1>6 DEF ConnOf
<1> PICK l \in Nat : l = Len(sent[c])
  BY <1>3
<1> PICK n \in Nat : n = Total
  BY <1>10
<1>12. Has(c, l, n)
  BY <1>1, <1>4 DEF ConnOf
<1>13. Has(c, l, n)'
  BY <1>9, <1>12
<1>14. read'[c] = l /\ Total' = n /\ streams' = streams
  BY <1>2, <1>10
<1>15. DoneOf(c)'
  BY <1>3, <1>4, <1>5, <1>6, <1>13, <1>14 DEF DoneOf
<1>16. QED
  BY <1>2, <1>7, <1>8, <1>9, <1>11, <1>15, ClientStep

LEMMA DisconnectInv == ASSUME IInv, NEW c \in Clients, Disconnect(c) PROVE IInv'
<1>1. TypeOK /\ StreamsInv /\ ClientsInv /\ FeedOf(c) /\ ConnOf(c) /\ DoneOf(c)
  BY DEF IInv, StreamsInv, ClientsInv
<1>2. /\ conn[c].stream # 0
      /\ conn' = [conn EXCEPT ![c] = NoConn]
      /\ sent' = [sent EXCEPT ![c] = SubSeq(sent[c], 1, read[c])]
      /\ abandoned' = IF conn[c].ended THEN abandoned ELSE abandoned + 1
      /\ UNCHANGED <<run, streams, current, counter, read, done, connects>>
  BY DEF Disconnect
<1>3. /\ sent[c] \in Seq(Id) /\ Len(sent[c]) \in Nat
      /\ \A i \in 1..Len(sent[c]) : sent[c][i] \in Id
      /\ \A i \in 1..Len(sent[c]) : sent[c][i].seq \in Nat
      /\ read[c] \in Nat /\ read[c] <= Len(sent[c])
  BY <1>1, ClientTypes
<1> PICK r \in Nat : r = read[c]
  BY <1>3
<1>4. sent'[c] = SubSeq(sent[c], 1, r)
  BY <1>1, <1>2 DEF TypeOK
<1>5. /\ sent'[c] \in Seq(Id)
      /\ Len(sent'[c]) = r
      /\ \A i \in 1..r : sent'[c][i] = sent[c][i]
  <2>1. \A i \in 1..r : sent[c][i] \in Id
    BY <1>3
  <2>2. /\ SubSeq(sent[c], 1, r) \in Seq(Id)
        /\ Len(SubSeq(sent[c], 1, r)) = IF 1 <= r THEN r - 1 + 1 ELSE 0
        /\ \A i \in 1..(r - 1 + 1) : SubSeq(sent[c], 1, r)[i] = sent[c][1 + i - 1]
    BY <2>1, SubSeqProperties
  <2>3. r - 1 + 1 = r /\ (~(1 <= r) => r = 0) /\ \A i \in 1..r : 1 + i - 1 = i
    OBVIOUS
  <2>4. QED
    BY <1>4, <2>2, <2>3
<1>6. NoConn \in Subscription /\ NoConn.stream = 0 /\ NoConn.ended = FALSE
  BY DEF NoConn, Subscription
<1>7. conn'[c] = NoConn /\ read'[c] = r /\ done'[c] = done[c]
  BY <1>1, <1>2 DEF TypeOK
<1>8. \A d \in Clients \ {c} : sent'[d] = sent[d] /\ read'[d] = read[d] /\ conn'[d] = conn[d] /\ done'[d] = done[d]
  BY <1>1, <1>2 DEF TypeOK
<1>9. TypeOK'
  <2>1. conn' \in [Clients -> Subscription] /\ sent' \in [Clients -> Seq(Id)]
    BY <1>1, <1>2, <1>4, <1>5, <1>6 DEF TypeOK
  <2>2. \A d \in Clients : conn'[d].stream <= Len(streams) /\ read[d] <= Len(sent'[d])
    <3> TAKE d \in Clients
    <3>1. Len(streams) \in Nat
      BY <1>1, StreamTypes
    <3>2. CASE d = c
      BY <1>5, <1>6, <1>7, <3>1, <3>2
    <3>3. CASE d # c
      BY <1>1, <1>8, <3>3 DEF TypeOK
    <3>4. QED
      BY <3>2, <3>3
  <2>3. abandoned' \in Nat
    BY <1>1, <1>2 DEF TypeOK
  <2>4. QED
    BY <1>1, <1>2, <2>1, <2>2, <2>3 DEF TypeOK
<1>10. Total' = Total /\ Start' = Start
  BY <1>2 DEF Total, Start
<1>11. \A m \in Nat, n \in Nat : (m <= r /\ Has(c, m, n)) => Has(c, m, n)'
  <2> SUFFICES ASSUME NEW m \in Nat, NEW n \in Nat, m <= r, Has(c, m, n),
                      NEW x \in 0..(n - 1)
               PROVE  x < Start' \/ \E j \in 1..m : sent'[c][j].seq = x
    BY DEF Has
  <2>1. \A j \in 1..m : sent'[c][j] = sent[c][j]
    BY <1>5
  <2>2. QED
    BY <1>10, <2>1 DEF Has
<1>12. FeedOf(c)'
  <2>1. ASSUME NEW i \in 1..r
        PROVE  sent'[c][i].stream = 1 /\ sent'[c][i].seq < Total' /\ Has(c, i - 1, sent[c][i].seq)'
    <3>1. i \in 1..Len(sent[c]) /\ sent'[c][i] = sent[c][i]
      BY <1>3, <1>5
    <3>2. sent[c][i].stream = 1 /\ sent[c][i].seq < Total /\ Has(c, i - 1, sent[c][i].seq)
      BY <1>1, <3>1 DEF FeedOf
    <3> PICK q \in Nat : q = sent[c][i].seq
      BY <1>3, <3>1
    <3>3. i - 1 \in Nat /\ i - 1 <= r
      OBVIOUS
    <3>4. Has(c, i - 1, q)'
      BY <1>11, <3>2, <3>3
    <3>5. sent'[c][i].seq = q
      BY <3>1
    <3>6. QED
      BY <1>10, <3>1, <3>2, <3>4, <3>5
  <2>2. ASSUME NEW i \in 1..r, NEW j \in 1..r, i < j
        PROVE  sent'[c][i].seq < sent'[c][j].seq
    <3>1. i \in 1..Len(sent[c]) /\ j \in 1..Len(sent[c])
      BY <1>3
    <3>2. sent[c][i].seq < sent[c][j].seq
      BY <1>1, <2>2, <3>1 DEF FeedOf
    <3>3. QED
      BY <1>5, <3>2
  <2>3. QED
    BY <1>5, <2>1, <2>2 DEF FeedOf
<1>13. ConnOf(c)'
  BY <1>5, <1>6, <1>7 DEF ConnOf
<1>14. DoneOf(c)'
  BY <1>1, <1>2 DEF DoneOf
<1>15. QED
  BY <1>2, <1>8, <1>9, <1>12, <1>13, <1>14, ClientStep

-----------------------------------------------------------------------------
(* Subscribing, afresh or where the client was. *)

\* Everything but the subscriber's own connection, which is stated apart.
LEMMA SubscribeStep ==
  ASSUME IInv, NEW c \in Clients, NEW id \in Id, Subscribe(c, id),
         \A d \in Clients \ {c} : sent'[d] = sent[d] /\ read'[d] = read[d] /\ done'[d] = done[d],
         sent' \in [Clients -> Seq(Id)], read' \in [Clients -> Nat],
         done' \in [Clients -> BOOLEAN], read'[c] <= Len(sent'[c]),
         FeedOf(c)', ConnOf(c)', DoneOf(c)'
  PROVE  IInv'
<1> DEFINE o == Opened
<1>1. TypeOK /\ StreamsInv /\ ClientsInv
  BY DEF IInv, StreamsInv, ClientsInv
<1>2. /\ connects[c] < MaxConnects
      /\ streams' = o.streams /\ current' = o.current /\ counter' = o.counter
      /\ conn' = [conn EXCEPT ![c] = [stream |-> o.current, ended |-> FALSE,
                                      next |-> Resolve(o.streams[o.current], id)]]
      /\ connects' = [connects EXCEPT ![c] = connects[c] + 1]
      /\ UNCHANGED <<run, abandoned>>
  BY DEF Subscribe
<1>3. /\ streams' \in Seq(Stream)
      /\ current' \in 1..Len(streams')
      /\ counter' \in Nat
      /\ OffsetsAreIds'
      /\ FirstStream'
      /\ Start' = Start /\ Total' = Total
      /\ Len(streams)' \in Nat /\ Len(streams) <= Len(streams)'
      /\ (Len(streams) >= 1 /\ streams[1].ended) => streams'[1].ended
  BY <1>1, <1>2, OpenedKeeps
<1>4. Start \in Nat /\ Total \in Nat /\ Len(streams) \in Nat
  BY <1>1, StreamTypes
<1>5. \A d \in Clients \ {c} : conn'[d] = conn[d]
  BY <1>1, <1>2 DEF TypeOK
<1>6. /\ o.streams[o.current] \in Stream /\ Numbered(o.streams[o.current], o.current)
      /\ o.current \in Nat /\ o.current \in 1..Len(o.streams)
  BY <1>1, OpenedFacts
<1>7. Resolve(o.streams[o.current], id) \in Nat
  BY <1>6, ResolveFacts
<1> HIDE DEF o
<1>8. conn'[c] \in Subscription /\ conn'[c].stream = o.current
  BY <1>1, <1>2, <1>6, <1>7 DEF TypeOK, Subscription
<1>9. TypeOK'
  <2>1. conn' \in [Clients -> Subscription]
    BY <1>1, <1>2, <1>5, <1>8 DEF TypeOK
  <2>2. connects' \in [Clients -> 0..MaxConnects]
    <3>1. connects[c] + 1 \in 0..MaxConnects
      BY <1>1, <1>2, RunStreamAssumption DEF TypeOK
    <3>2. QED
      BY <1>1, <1>2, <3>1 DEF TypeOK
  <2>3. \A d \in Clients : conn'[d].stream <= Len(streams') /\ read'[d] <= Len(sent'[d])
    <3> TAKE d \in Clients
    <3>1. CASE d = c
      BY <1>2, <1>6, <1>8, <3>1
    <3>2. CASE d # c
      <4>1. conn[d].stream \in Nat /\ conn[d].stream <= Len(streams) /\ read[d] <= Len(sent[d])
        BY <1>1, ClientTypes
      <4>2. conn'[d] = conn[d] /\ read'[d] = read[d] /\ sent'[d] = sent[d]
        BY <1>5, <3>2
      <4>3. QED
        BY <1>3, <1>4, <4>1, <4>2
    <3>3. QED
      BY <3>1, <3>2
  <2>4. current' \in 0..Len(streams')
    BY <1>3
  <2>5. QED
    BY <1>1, <1>2, <1>3, <2>1, <2>2, <2>3, <2>4 DEF TypeOK
<1>10. \A d \in Clients : FeedOf(d)' /\ ConnOf(d)' /\ DoneOf(d)'
  <2> TAKE d \in Clients
  <2>1. CASE d = c
    BY <2>1
  <2>2. CASE d # c
    <3>1. FeedOf(d) /\ ConnOf(d) /\ DoneOf(d)
      BY <1>1 DEF ClientsInv
    <3>2. Start <= Start' /\ Total <= Total' /\ Start' \in Nat /\ Total' \in Nat
      BY <1>3, <1>4
    <3>3. QED
      BY <1>1, <1>3, <1>5, <2>2, <3>1, <3>2, Untouched
  <2>3. QED
    BY <2>1, <2>2
<1>11. QED
  BY <1>3, <1>9, <1>10 DEF IInv

\* Where the subscriber ends up: at an event of the first stream, or at the
\* start of a stream that was made after the cleanup.
LEMMA SubscribeFacts ==
  ASSUME IInv, NEW c \in Clients, NEW id \in Id, Subscribe(c, id)
  PROVE  /\ conn[c].stream = 0
         /\ Start' = Start /\ Total' = Total
         /\ Start \in Nat /\ Total \in Nat /\ Start <= Total
         /\ conn'[c].stream \in Nat \ {0} /\ conn'[c].next \in Nat /\ conn'[c].ended = FALSE
         /\ conn'[c].stream = 1 =>
              \/ id.stream = 1 /\ Start <= id.seq /\ id.seq < Total /\ conn'[c].next = id.seq + 1
              \/ ~(id.stream = 1 /\ Start <= id.seq /\ id.seq < Total) /\ conn'[c].next = Start
         /\ conn'[c].stream > 1 => conn'[c].next = 0
<1> DEFINE o == Opened
           k == o.current
           s == o.streams[k]
<1>1. TypeOK /\ StreamsInv
  BY DEF IInv, StreamsInv
<1>2. /\ conn[c].stream = 0
      /\ streams' = o.streams /\ current' = o.current /\ counter' = o.counter
      /\ conn' = [conn EXCEPT ![c] = [stream |-> k, ended |-> FALSE, next |-> Resolve(s, id)]]
      /\ UNCHANGED <<run, abandoned>>
  BY DEF Subscribe
<1>3. Start' = Start /\ Total' = Total
  BY <1>1, <1>2, OpenedKeeps
<1>4. Start \in Nat /\ Total \in Nat /\ Start <= Total
  BY <1>1, StreamTypes
<1>5. /\ s \in Stream /\ Numbered(s, k) /\ k \in Nat /\ k \in 1..Len(o.streams)
      /\ k > 1 => s = NewStream
      /\ k = 1 => Start = s.start /\ Total = s.start + Len(s.events)
  BY <1>1, OpenedFacts
<1> HIDE DEF o, k, s
<1>6. conn'[c] = [stream |-> k, ended |-> FALSE, next |-> Resolve(s, id)]
  BY <1>1, <1>2 DEF TypeOK
<1>7. /\ conn'[c].stream = k /\ conn'[c].ended = FALSE /\ conn'[c].next = Resolve(s, id)
      /\ k \in Nat \ {0}
  BY <1>5, <1>6
<1>8. /\ Resolve(s, id) \in Nat
      /\ s.start <= Resolve(s, id)
      /\ Resolve(s, id) <= s.start + Len(s.events)
      /\ \/ /\ id.stream = k /\ s.start <= id.seq /\ id.seq < s.start + Len(s.events)
            /\ Resolve(s, id) = id.seq + 1
         \/ /\ ~ (id.stream = k /\ s.start <= id.seq /\ id.seq < s.start + Len(s.events))
            /\ Resolve(s, id) = s.start
  BY <1>5, ResolveFacts
<1>9. k > 1 => Resolve(s, id) = 0
  <2> SUFFICES ASSUME k > 1 PROVE Resolve(s, id) = 0
    OBVIOUS
  <2>1. s.start = 0 /\ Len(s.events) = 0
    BY <1>5, NewStreamFacts
  <2>2. QED
    BY <1>8, <2>1
<1>10. k = 1 => \/ id.stream = 1 /\ Start <= id.seq /\ id.seq < Total /\ Resolve(s, id) = id.seq + 1
                \/ ~(id.stream = 1 /\ Start <= id.seq /\ id.seq < Total) /\ Resolve(s, id) = Start
  BY <1>5, <1>8
<1>11. QED
  BY <1>2, <1>3, <1>4, <1>7, <1>8, <1>9, <1>10

LEMMA JoinInv == ASSUME IInv, NEW c \in Clients, Join(c) PROVE IInv'
<1> PICK n \in 0..MaxEvents : Subscribe(c, [stream |-> 0, seq |-> n])
  BY DEF Join
<1> DEFINE id == [stream |-> 0, seq |-> n]
<1>1. /\ sent' = [sent EXCEPT ![c] = <<>>]
      /\ read' = [read EXCEPT ![c] = 0]
      /\ done' = [done EXCEPT ![c] = FALSE]
  BY DEF Join
<1>2. id \in Id /\ id.stream = 0
  BY RunStreamAssumption DEF Id
<1>3. Subscribe(c, id)
  OBVIOUS
<1> HIDE DEF id
<1>4. TypeOK
  BY DEF IInv
<1>5. sent'[c] = <<>> /\ read'[c] = 0 /\ done'[c] = FALSE /\ Len(sent'[c]) = 0
  BY <1>1, <1>4 DEF TypeOK
<1>6. /\ sent' \in [Clients -> Seq(Id)] /\ read' \in [Clients -> Nat]
      /\ done' \in [Clients -> BOOLEAN]
  BY <1>1, <1>4 DEF TypeOK
<1>7. \A d \in Clients \ {c} : sent'[d] = sent[d] /\ read'[d] = read[d] /\ done'[d] = done[d]
  BY <1>1, <1>4 DEF TypeOK
<1>8. FeedOf(c)'
  BY <1>5 DEF FeedOf
<1>9. DoneOf(c)'
  BY <1>5 DEF DoneOf
<1>10. /\ Start' = Start /\ Total' = Total
       /\ Start \in Nat /\ Total \in Nat /\ Start <= Total
       /\ conn'[c].stream \in Nat \ {0} /\ conn'[c].ended = FALSE
       /\ conn'[c].stream = 1 => conn'[c].next = Start
       /\ conn'[c].stream > 1 => conn'[c].next = 0
  BY <1>2, <1>3, SubscribeFacts
<1>11. ConnOf(c)'
  <2> PICK p \in Nat : p = Start
    BY <1>10
  <2>1. Has(c, 0, p)'
    BY <1>10 DEF Has
  <2>2. conn'[c].stream = 1 => Has(c, 0, p)' /\ conn'[c].next = p /\ p <= Total'
    BY <1>10, <2>1
  <2>3. QED
    BY <1>5, <1>10, <2>2 DEF ConnOf
<1>12. read'[c] <= Len(sent'[c])
  BY <1>5
<1>13. QED
  BY <1>2, <1>3, <1>6, <1>7, <1>8, <1>9, <1>11, <1>12, SubscribeStep

LEMMA ReconnectInv == ASSUME IInv, NEW c \in Clients, Reconnect(c) PROVE IInv'
<1>1. TypeOK /\ StreamsInv /\ FeedOf(c) /\ ConnOf(c)
  BY DEF IInv, StreamsInv
<1>2. /\ ~done[c] /\ read[c] > 0
      /\ Subscribe(c, sent[c][read[c]])
      /\ UNCHANGED <<sent, read, done>>
  BY DEF Reconnect
<1>3. /\ Len(sent[c]) \in Nat /\ read[c] \in Nat /\ read[c] <= Len(sent[c])
      /\ \A i \in 1..Len(sent[c]) : sent[c][i] \in Id
      /\ \A i \in 1..Len(sent[c]) : sent[c][i].seq \in Nat
  BY <1>1, ClientTypes
<1>4. read[c] \in 1..Len(sent[c])
  BY <1>2, <1>3
<1> PICK id \in Id : id = sent[c][read[c]]
  BY <1>3, <1>4
<1>5. /\ conn[c].stream = 0
      /\ Start' = Start /\ Total' = Total
      /\ Start \in Nat /\ Total \in Nat /\ Start <= Total
      /\ conn'[c].stream \in Nat \ {0} /\ conn'[c].next \in Nat /\ conn'[c].ended = FALSE
      /\ conn'[c].stream = 1 =>
           \/ id.stream = 1 /\ Start <= id.seq /\ id.seq < Total /\ conn'[c].next = id.seq + 1
           \/ ~(id.stream = 1 /\ Start <= id.seq /\ id.seq < Total) /\ conn'[c].next = Start
      /\ conn'[c].stream > 1 => conn'[c].next = 0
  BY <1>2, SubscribeFacts
<1> PICK l \in Nat : l = Len(sent[c])
  BY <1>3
<1>6. l = read[c] /\ l >= 1 /\ id = sent[c][l]
  BY <1>1, <1>2, <1>3, <1>5 DEF ConnOf
<1>7. id.stream = 1 /\ id.seq < Total /\ id.seq \in Nat /\ Has(c, l - 1, id.seq)
  BY <1>1, <1>3, <1>6 DEF FeedOf
<1>8. \A i \in 1..l : sent[c][i].seq <= id.seq
  <2> TAKE i \in 1..l
  <2>1. CASE i = l
    BY <1>6, <1>7, <2>1
  <2>2. CASE i # l
    <3>1. sent[c][i].seq < sent[c][l].seq
      BY <1>1, <1>6, <2>2 DEF FeedOf
    <3>2. QED
      BY <1>3, <1>6, <1>7, <3>1
  <2>3. QED
    BY <2>1, <2>2
<1>9. \A m \in Nat, n \in Nat : Has(c, m, n) => Has(c, m, n)'
  BY <1>2, <1>5 DEF Has
<1>10. FeedOf(c)'
  <2>1. ASSUME NEW i \in 1..l
        PROVE  sent'[c][i].stream = 1 /\ sent'[c][i].seq < Total' /\ Has(c, i - 1, sent[c][i].seq)'
    <3>1. sent[c][i].stream = 1 /\ sent[c][i].seq < Total /\ Has(c, i - 1, sent[c][i].seq)
      BY <1>1 DEF FeedOf
    <3> PICK q \in Nat : q = sent[c][i].seq
      BY <1>3
    <3>2. i - 1 \in Nat
      OBVIOUS
    <3>3. Has(c, i - 1, q)'
      BY <1>9, <3>1, <3>2
    <3>4. sent'[c][i].seq = q /\ sent'[c] = sent[c]
      BY <1>2
    <3>5. QED
      BY <1>5, <3>1, <3>3, <3>4
  <2>2. QED
    BY <1>1, <1>2, <2>1 DEF FeedOf
<1>11. DoneOf(c)'
  BY <1>2 DEF DoneOf
<1>12. ConnOf(c)'
  <2> PICK p \in Nat : p = conn'[c].next
    BY <1>5
  <2>1. ASSUME conn'[c].stream = 1
        PROVE  /\ p <= Total
               /\ \A i \in 1..l : sent[c][i].seq < p
               /\ Has(c, l, p)
    <3>1. CASE Start <= id.seq
      <4>1. p = id.seq + 1
        BY <1>5, <1>7, <2>1, <3>1
      <4>2. Has(c, l, p)
        <5> SUFFICES ASSUME NEW x \in 0..(p - 1)
                     PROVE  x < Start \/ \E j \in 1..l : sent[c][j].seq = x
          BY DEF Has
        <5>1. CASE x = id.seq
          <6>1. l \in 1..l /\ sent[c][l].seq = x
            BY <1>6, <5>1
          <6>2. QED
            BY <6>1
        <5>2. CASE x # id.seq
          <6>1. x \in 0..(id.seq - 1)
            <7>1. id.seq \in Nat /\ x \in 0..((id.seq + 1) - 1)
              BY <1>7, <4>1
            <7>2. QED
              BY <5>2, <7>1
          <6>2. x < Start \/ \E j \in 1..(l - 1) : sent[c][j].seq = x
            BY <1>7, <6>1 DEF Has
          <6>3. QED
            BY <6>2
        <5>3. QED
          BY <5>1, <5>2
      <4>3. p <= Total
        BY <1>5, <1>7, <4>1
      <4>4. \A i \in 1..l : sent[c][i].seq < p
        BY <1>3, <1>7, <1>8, <4>1
      <4>5. QED
        BY <4>2, <4>3, <4>4
    <3>2. CASE ~(Start <= id.seq)
      <4>1. p = Start
        BY <1>5, <2>1, <3>2
      <4>2. Has(c, l, p)
        BY <4>1 DEF Has
      <4>3. \A i \in 1..l : sent[c][i].seq < p
        <5> TAKE i \in 1..l
        <5>1. sent[c][i].seq \in Nat /\ sent[c][i].seq <= id.seq
          BY <1>3, <1>8
        <5>2. id.seq < p /\ id.seq \in Nat
          BY <1>5, <1>7, <3>2, <4>1
        <5>3. QED
          BY <5>1, <5>2
      <4>4. QED
        BY <1>5, <4>1, <4>2, <4>3
    <3>3. QED
      BY <3>1, <3>2
  <2>2. conn'[c].stream = 1 => Has(c, l, p)'
    BY <1>9, <2>1
  <2>3. /\ sent'[c] = sent[c] /\ Len(sent'[c]) = l /\ read'[c] = l /\ conn'[c].next = p
        /\ Total' = Total
    BY <1>2, <1>5, <1>6
  <2>4. QED
    BY <1>5, <2>1, <2>2, <2>3 DEF ConnOf
<1>13. QED
  BY <1>1, <1>2, <1>3, <1>10, <1>11, <1>12, SubscribeStep DEF TypeOK

-----------------------------------------------------------------------------
(* The theorems. *)

LEMMA NextInv == IInv /\ [Next]_vars => IInv'
<1> SUFFICES ASSUME IInv, [Next]_vars PROVE IInv'
  OBVIOUS
<1>1. CASE Publish
  BY <1>1, PublishInv
<1>2. CASE PublishEnd
  BY <1>2, PublishEndInv
<1>3. CASE Cleanup
  BY <1>3, CleanupInv
<1>4. CASE NoticeDisconnect
  BY <1>4, NoticeInv
<1>5. CASE \E c \in Clients : \/ Join(c) \/ Reconnect(c) \/ SendEvent(c) \/ SendEnd(c)
                              \/ ReceiveEvent(c) \/ ReceiveEnd(c) \/ Disconnect(c)
  <2> PICK c \in Clients : \/ Join(c) \/ Reconnect(c) \/ SendEvent(c) \/ SendEnd(c)
                          \/ ReceiveEvent(c) \/ ReceiveEnd(c) \/ Disconnect(c)
    BY <1>5
  <2>1. CASE Join(c)
    BY <2>1, JoinInv
  <2>2. CASE Reconnect(c)
    BY <2>2, ReconnectInv
  <2>3. CASE SendEvent(c)
    BY <2>3, SendEventInv
  <2>4. CASE SendEnd(c)
    BY <2>4, SendEndInv
  <2>5. CASE ReceiveEvent(c)
    BY <2>5, ReceiveEventInv
  <2>6. CASE ReceiveEnd(c)
    BY <2>6, ReceiveEndInv
  <2>7. CASE Disconnect(c)
    BY <2>7, DisconnectInv
  <2>8. QED
    BY <2>1, <2>2, <2>3, <2>4, <2>5, <2>6, <2>7
<1>6. CASE UNCHANGED vars
  <2>1. StreamsInv /\ ClientsInv /\ TypeOK
    BY DEF IInv, StreamsInv, ClientsInv
  <2>2. /\ UNCHANGED <<run, streams, current, counter, conn, sent, read, done, connects, abandoned>>
    BY <1>6 DEF vars
  <2>3. TypeOK'
    BY <2>1, <2>2 DEF TypeOK
  <2>4. OffsetsAreIds' /\ FirstStream'
    BY <2>1, <2>2 DEF StreamsInv, OffsetsAreIds, Numbered, FirstStream
  <2>5. \A c \in Clients : FeedOf(c)' /\ ConnOf(c)' /\ DoneOf(c)'
    BY <2>1, <2>2, StreamsSame
  <2>6. QED
    BY <2>3, <2>4, <2>5 DEF IInv
<1>7. QED
  BY <1>1, <1>2, <1>3, <1>4, <1>5, <1>6 DEF Next

\* The inductive invariant holds for any number of clients and connections.
THEOREM StreamInvariance == Spec => []IInv
<1>1. Init => IInv
  BY InitInv
<1>2. IInv /\ [Next]_vars => IInv'
  BY NextInv
<1>3. QED
  BY <1>1, <1>2, PTL DEF Spec

\* Types, and a client never receives more than it was sent (TypeOK of the
\* bridge, its consumers and its clients).
THEOREM StreamTypeCorrect == Spec => []TypeOK
<1>1. IInv => TypeOK
  BY DEF IInv
<1>2. QED
  BY <1>1, StreamInvariance, PTL

\* _resolve_start_offset finds by arithmetic what a scan of the retained
\* events finds, for every id and in every stream a run ever has.
THEOREM ResolveCorrect == Spec => [](OffsetsAreIds /\ ResolveIsScan)
<1>1. ASSUME IInv PROVE ResolveIsScan
  <2> SUFFICES ASSUME NEW k \in DOMAIN streams,
                      NEW id \in [stream : 0..Len(streams), seq : 0..MaxEvents]
               PROVE  Resolve(streams[k], id) = LinearResolve(streams[k], id)
    BY DEF ResolveIsScan
  <2>1. StreamsInv /\ streams \in Seq(Stream) /\ Len(streams) \in Nat
    BY <1>1, StreamTypes DEF IInv, StreamsInv, TypeOK
  <2>2. k \in 1..Len(streams) /\ k \in Nat
    BY <2>1
  <2>3. streams[k] \in Stream /\ Numbered(streams[k], k)
    BY <2>1, <2>2 DEF StreamsInv, OffsetsAreIds
  <2>4. id \in Id
    BY <2>1, RunStreamAssumption DEF Id
  <2>5. QED
    BY <2>2, <2>3, <2>4, ResolveIsLinear
<1>2. IInv => OffsetsAreIds /\ ResolveIsScan
  BY <1>1 DEF IInv
<1>3. QED
  BY <1>2, StreamInvariance, PTL

\* What a client receives over all its connections is in publication order and
\* without repetition.
THEOREM DeliveredInOrder == Spec => []InOrder
<1>1. ASSUME IInv PROVE InOrder
  <2> SUFFICES ASSUME NEW c \in Clients, NEW i \in DOMAIN sent[c], NEW j \in DOMAIN sent[c], i < j
               PROVE  sent[c][i].seq < sent[c][j].seq
    BY DEF InOrder
  <2>1. FeedOf(c) /\ sent[c] \in Seq(Id)
    BY <1>1, ClientTypes DEF IInv
  <2>2. i \in 1..Len(sent[c]) /\ j \in 1..Len(sent[c])
    BY <2>1
  <2>3. QED
    BY <2>1, <2>2 DEF FeedOf
<1>2. QED
  BY <1>1, StreamInvariance, PTL

\* A client lacks an event older than one it was sent only if the bounded
\* history had evicted it.
THEOREM OnlyEvictedMissing == Spec => []GapsAreEvictions
<1>1. ASSUME IInv PROVE GapsAreEvictions
  <2> SUFFICES ASSUME NEW c \in Clients, NEW i \in DOMAIN sent[c], NEW n \in 0..(sent[c][i].seq - 1)
               PROVE  n < streams[1].start \/ \E j \in DOMAIN sent[c] : sent[c][j].seq = n
    BY DEF GapsAreEvictions
  <2>1. StreamsInv /\ FeedOf(c) /\ sent[c] \in Seq(Id) /\ Len(sent[c]) \in Nat
    BY <1>1, ClientTypes DEF IInv, StreamsInv
  <2>2. i \in 1..Len(sent[c]) /\ DOMAIN sent[c] = 1..Len(sent[c])
    BY <2>1
  <2>3. sent[c][i].seq < Total /\ Has(c, i - 1, sent[c][i].seq) /\ sent[c][i].seq \in Nat
    BY <1>1, <2>1, <2>2, ClientTypes DEF FeedOf, IInv
  <2>4. streams # <<>>
    BY <2>3 DEF Total
  <2>5. n < Start \/ \E j \in 1..(i - 1) : sent[c][j].seq = n
    BY <2>3 DEF Has
  <2>6. \A j \in 1..(i - 1) : j \in DOMAIN sent[c]
    BY <2>1, <2>2
  <2>7. QED
    BY <2>4, <2>5, <2>6 DEF Start
<1>2. QED
  BY <1>1, StreamInvariance, PTL

\* A client that received END has every event the run left in its history.
THEOREM EndIsComplete == Spec => []EndMeansComplete
<1>1. ASSUME IInv PROVE EndMeansComplete
  <2> SUFFICES ASSUME NEW c \in Clients, done[c],
                      NEW k \in DOMAIN streams, NEW i \in DOMAIN streams[k].events
               PROVE  \E j \in 1..read[c] : sent[c][j] = streams[k].events[i]
    BY DEF EndMeansComplete
  <2>1. StreamsInv /\ TypeOK /\ FeedOf(c) /\ DoneOf(c)
    BY <1>1 DEF IInv, StreamsInv
  <2>2. /\ streams \in Seq(Stream) /\ Len(streams) \in Nat
        /\ read[c] \in Nat /\ Len(sent[c]) \in Nat /\ read[c] <= Len(sent[c])
        /\ \A j \in 1..Len(sent[c]) : sent[c][j] \in Id
    BY <2>1, StreamTypes, ClientTypes DEF TypeOK
  <2>3. k \in 1..Len(streams)
    BY <2>2
  <2>4. streams[k] \in Stream /\ Numbered(streams[k], k)
    BY <2>1, <2>2, <2>3 DEF StreamsInv, OffsetsAreIds
  <2>5. /\ streams[k].start \in Nat /\ Len(streams[k].events) \in Nat
        /\ i \in 1..Len(streams[k].events)
    BY <2>4 DEF Stream
  <2>6. k = 1
    <3>1. k > 1 => streams[k] = NewStream
      BY <2>1, <2>3 DEF StreamsInv, FirstStream
    <3>2. ~(k > 1)
      BY <2>5, <3>1, NewStreamFacts
    <3>3. QED
      BY <2>2, <2>3, <3>2
  <2>7. streams # <<>>
    BY <2>2, <2>3
  <2>8. Start = streams[1].start /\ Total = streams[1].start + Len(streams[1].events)
    BY <2>7 DEF Start, Total
  <2> DEFINE n == streams[1].start + i - 1
  <2>9. streams[k].events[i] = [stream |-> 1, seq |-> n]
    BY <2>4, <2>5, <2>6 DEF Numbered
  <2>10. n \in 0..(Total - 1) /\ ~(n < Start)
    BY <2>5, <2>6, <2>8
  <2>11. Has(c, read[c], Total)
    BY <2>1 DEF DoneOf
  <2> HIDE DEF n
  <2>12. PICK j \in 1..read[c] : sent[c][j].seq = n
    BY <2>10, <2>11 DEF Has
  <2>13. j \in 1..Len(sent[c]) /\ sent[c][j] \in Id /\ sent[c][j].stream = 1
    BY <2>1, <2>2, <2>12 DEF FeedOf
  <2>14. sent[c][j] = [stream |-> 1, seq |-> n]
    BY <2>12, <2>13 DEF Id
  <2>15. QED
    BY <2>9, <2>12, <2>14
<1>2. QED
  BY <1>1, StreamInvariance, PTL

-----------------------------------------------------------------------------
(* The refinement of OrderedFeed. *)

\* A client's events up to the last it received stay: so does what it has.
LEMMA ReceivedKept ==
  ASSUME read' = read,
         \A c \in Clients : \A i \in 1..read[c] : sent'[c][i] = sent[c][i]
  PROVE  Received' = Received
<1>1. \A c \in Clients : [i \in 1..read[c] |-> sent'[c][i].seq] = [i \in 1..read[c] |-> sent[c][i].seq]
  OBVIOUS
<1>2. QED
  BY <1>1 DEF Received

\* A stream that is made is not the run's first once the run is over.
LEMMA OpenedOver ==
  ASSUME StreamsInv, streams' = Opened.streams
  PROVE  Over' = Over
<1> DEFINE o == Opened
<1>1. /\ o.streams \in Seq(Stream) /\ o.current \in 1..Len(o.streams)
      /\ Len(streams) <= Len(o.streams)
      /\ \A k \in 1..Len(streams) : o.streams[k] = streams[k]
      /\ run \in {"running", "aborted"} => ~o.streams[1].ended
  BY OpenedFacts
<1>2. /\ Len(streams) \in Nat
      /\ streams = <<>> <=> Len(streams) = 0
  BY StreamTypes
<1>3. run \in {"running", "aborted"} \/ Len(streams) >= 1
  BY DEF StreamsInv, FirstStream, TypeOK
<1>4. streams' = o.streams
  OBVIOUS
<1> HIDE DEF o
<1>5. streams' # <<>>
  BY <1>1, <1>4
<1>6. CASE Len(streams) = 0
  BY <1>1, <1>2, <1>3, <1>4, <1>6 DEF Over
<1>7. CASE Len(streams) # 0
  BY <1>1, <1>2, <1>4, <1>5, <1>7 DEF Over
<1>8. QED
  BY <1>6, <1>7

\* An event that is published counts, and may drop the oldest.
LEMMA PublishFeed == ASSUME IInv, Publish PROVE Feed!PublishNext
<1> DEFINE o == Opened
           id == [stream |-> o.current, seq |-> o.counter]
           s == o.streams[1]
           p == Published(s, id)
<1>1. StreamsInv
  BY DEF IInv, StreamsInv
<1>2. /\ run = "running"
      /\ streams' = [o.streams EXCEPT ![o.current] = Published(o.streams[o.current], id)]
      /\ UNCHANGED <<sent, read, done>>
  BY DEF Publish
<1> HIDE DEF o
<1>3. /\ o.streams \in Seq(Stream)
      /\ o.current \in 1..Len(o.streams)
      /\ \A k \in 1..Len(o.streams) : Numbered(o.streams[k], k)
      /\ o.counter = o.streams[o.current].start + Len(o.streams[o.current].events)
      /\ \A k \in 1..Len(streams) : o.streams[k] = streams[k]
      /\ Start = o.streams[1].start
      /\ Total = o.streams[1].start + Len(o.streams[1].events)
      /\ Len(o.streams) = 1 /\ ~o.streams[1].ended
  BY <1>1, <1>2, OpenedFacts DEF o
<1>4. o.current = 1 /\ s \in Stream /\ Numbered(s, 1)
      /\ id = [stream |-> 1, seq |-> s.start + Len(s.events)]
  BY <1>3
<1> HIDE DEF id, s
<1>5. /\ p \in Stream
      /\ p.start >= s.start
      /\ p.start + Len(p.events) = s.start + Len(s.events) + 1
      /\ p.ended = s.ended
  BY <1>4, PublishedFacts
<1>6. s.start \in Nat /\ Len(s.events) \in Nat /\ p.start \in Nat /\ Len(p.events) \in Nat
  BY <1>4, <1>5 DEF Stream
<1> HIDE DEF p
<1>7. Len(streams') = 1 /\ streams'[1] = p /\ streams' # <<>>
  BY <1>2, <1>3, <1>4, <1>5 DEF p, s
<1>8. Start' = p.start /\ Total' = p.start + Len(p.events)
  BY <1>7 DEF Start, Total
<1>9. Start = s.start /\ Total = s.start + Len(s.events)
  BY <1>3 DEF s
<1>10. ~Over /\ Over' = Over
  <2>1. ~Over'
    BY <1>3, <1>5, <1>7 DEF Over, s
  <2>2. streams # <<>> => streams[1] = s
    BY <1>1, <1>3, StreamTypes DEF s
  <2>3. ~Over
    BY <1>3, <2>2 DEF Over, s
  <2>4. QED
    BY <2>1, <2>3 DEF Over
<1>11. Total' = Total + 1 /\ Start' \in Start .. Total'
  BY <1>5, <1>6, <1>8, <1>9
<1>12. Received' = Received
  BY <1>2, ReceivedKept
<1>13. QED
  BY <1>2, <1>10, <1>11, <1>12 DEF Feed!PublishNext

\* publish_end closes the run's stream, even one that it has to make.
LEMMA PublishEndFeed == ASSUME IInv, PublishEnd PROVE Feed!Close
<1> DEFINE o == Opened
<1>1. StreamsInv
  BY DEF IInv, StreamsInv
<1>2. /\ run \in {"running", "aborted"}
      /\ streams' = [o.streams EXCEPT ![o.current].ended = TRUE]
      /\ UNCHANGED <<sent, read, done>>
  BY DEF PublishEnd
<1> HIDE DEF o
<1>3. /\ o.streams \in Seq(Stream)
      /\ o.current \in 1..Len(o.streams)
      /\ \A k \in 1..Len(streams) : o.streams[k] = streams[k]
      /\ Start = o.streams[1].start
      /\ Total = o.streams[1].start + Len(o.streams[1].events)
      /\ Len(o.streams) = 1 /\ ~o.streams[1].ended
  BY <1>1, <1>2, OpenedFacts DEF o
<1>4. o.current = 1 /\ o.streams[1] \in Stream
  BY <1>3
<1>5. /\ streams' # <<>>
      /\ streams'[1].start = o.streams[1].start
      /\ streams'[1].events = o.streams[1].events
      /\ streams'[1].ended = TRUE
  BY <1>2, <1>3, <1>4 DEF Stream
<1>6. Over' = TRUE
  BY <1>5 DEF Over
<1>7. ~Over
  <2>1. streams # <<>> => streams[1] = o.streams[1]
    BY <1>1, <1>3, StreamTypes
  <2>2. QED
    BY <1>3, <2>1 DEF Over
<1>8. Total' = Total /\ Start' = Start
  BY <1>3, <1>5 DEF Total, Start
<1>9. Received' = Received
  BY <1>2, ReceivedKept
<1>10. QED
  BY <1>2, <1>6, <1>7, <1>8, <1>9 DEF Feed!Close

\* A client that starts afresh.
LEMMA JoinFeed == ASSUME IInv, NEW c \in Clients, Join(c) PROVE Feed!Restart(c)
<1>1. StreamsInv /\ TypeOK
  BY DEF IInv, StreamsInv
<1>2. /\ streams' = Opened.streams /\ current' = Opened.current /\ counter' = Opened.counter
      /\ run' = run
      /\ sent' = [sent EXCEPT ![c] = <<>>]
      /\ read' = [read EXCEPT ![c] = 0]
      /\ done' = [done EXCEPT ![c] = FALSE]
  BY DEF Join, Subscribe
<1>3. Total' = Total /\ Start' = Start
  BY <1>1, <1>2, OpenedKeeps
<1>4. Over' = Over
  BY <1>1, <1>2, OpenedOver
<1>5. Received' = [Received EXCEPT ![c] = <<>>]
  <2>1. read'[c] = 0 /\ 1..read'[c] = {}
    BY <1>1, <1>2 DEF TypeOK
  <2>2. [i \in 1..read'[c] |-> sent'[c][i].seq] = <<>>
    BY <2>1
  <2>3. \A d \in Clients \ {c} : sent'[d] = sent[d] /\ read'[d] = read[d]
    BY <1>1, <1>2 DEF TypeOK
  <2>4. QED
    BY <2>2, <2>3 DEF Received
<1>6. QED
  BY <1>2, <1>3, <1>4, <1>5 DEF Feed!Restart

\* One that comes back goes on with what it has.
LEMMA ReconnectFeed ==
  ASSUME IInv, NEW c \in Clients, Reconnect(c)
  PROVE  UNCHANGED <<Total, Start, Over, Received, done>>
<1>1. StreamsInv
  BY DEF IInv, StreamsInv
<1>2. /\ streams' = Opened.streams /\ current' = Opened.current /\ counter' = Opened.counter
      /\ run' = run
      /\ UNCHANGED <<sent, read, done>>
  BY DEF Reconnect, Subscribe
<1>3. Total' = Total /\ Start' = Start
  BY <1>1, <1>2, OpenedKeeps
<1>4. Over' = Over
  BY <1>1, <1>2, OpenedOver
<1>5. QED
  BY <1>2, <1>3, <1>4, ReceivedKept

\* The next frame on the wire is newer than what the client has, and what it
\* lacks before that was evicted.
LEMMA ReceiveFeed == ASSUME IInv, NEW c \in Clients, ReceiveEvent(c) PROVE Feed!Receive(c)
<1>1. TypeOK /\ StreamsInv /\ FeedOf(c) /\ DoneOf(c)
  BY DEF IInv, StreamsInv
<1>2. /\ conn[c].stream # 0
      /\ read[c] < Len(sent[c])
      /\ read' = [read EXCEPT ![c] = read[c] + 1]
      /\ UNCHANGED <<streams, sent, done>>
  BY DEF ReceiveEvent
<1>3. /\ read[c] \in Nat /\ Len(sent[c]) \in Nat
      /\ \A i \in 1..Len(sent[c]) : sent[c][i].seq \in Nat
      /\ Total \in Nat
  BY <1>1, ClientTypes, StreamTypes
<1> DEFINE k == read[c] + 1
           n == sent[c][k].seq
<1>4. k \in 1..Len(sent[c]) /\ k - 1 = read[c]
  BY <1>2, <1>3
<1>5. n \in Nat /\ n < Total /\ Has(c, k - 1, n)
  BY <1>1, <1>3, <1>4 DEF FeedOf
<1>6. /\ Received[c] = [i \in 1..read[c] |-> sent[c][i].seq]
      /\ Received[c] \in Seq(Nat) /\ Len(Received[c]) = read[c]
      /\ \A i \in 1..read[c] : Received[c][i] = sent[c][i].seq
  <2>1. Received[c] = [i \in 1..read[c] |-> sent[c][i].seq]
    BY DEF Received
  <2>2. \A i \in 1..read[c] : sent[c][i].seq \in Nat
    BY <1>2, <1>3
  <2>3. QED
    BY <1>3, <2>1, <2>2
<1>7. \A i \in 1..Len(Received[c]) : Received[c][i] < n
  <2> TAKE i \in 1..Len(Received[c])
  <2>1. i \in 1..Len(sent[c]) /\ i < k /\ Received[c][i] = sent[c][i].seq
    BY <1>3, <1>4, <1>6
  <2>2. QED
    BY <1>1, <1>4, <2>1 DEF FeedOf
<1>8. Feed!HasBelow(c, n)
  <2>1. \A m \in 0..n - 1 : m < Start \/ \E j \in 1..read[c] : sent[c][j].seq = m
    BY <1>4, <1>5 DEF Has
  <2>2. QED
    BY <1>6, <2>1 DEF Feed!HasBelow
<1>9. Received' = [Received EXCEPT ![c] = Append(@, n)]
  <2>1. read'[c] = k /\ \A d \in Clients \ {c} : read'[d] = read[d]
    BY <1>1, <1>2 DEF TypeOK
  <2>2. Append(Received[c], n) = [i \in 1..k |-> sent[c][i].seq]
    <3> DEFINE a == Append(Received[c], n)
               b == [i \in 1..k |-> sent[c][i].seq]
    <3>1. a \in Seq(Nat) /\ Len(a) = k /\ \A i \in 1..k : a[i] = sent[c][i].seq
      BY <1>3, <1>5, <1>6
    <3>t. k \in Nat /\ \A i \in 1..k : sent[c][i].seq \in Nat
      BY <1>3, <1>4
    <3> HIDE DEF k, n
    <3>2. b \in Seq(Nat) /\ Len(b) = k /\ \A i \in 1..k : b[i] = sent[c][i].seq
      BY <3>t
    <3> HIDE DEF a, b
    <3>3. a = b
      BY <3>1, <3>2, SeqEqual
    <3>4. QED
      BY <3>3 DEF a, b
  <2>3. Received' = [d \in Clients |-> [i \in 1..read'[d] |-> sent[d][i].seq]]
    BY <1>2 DEF Received
  <2> HIDE DEF k, n
  <2>4. \A d \in Clients \ {c} : Received'[d] = Received[d]
    BY <2>1, <2>3 DEF Received
  <2>5. Received'[c] = Append(Received[c], n)
    BY <2>1, <2>2, <2>3
  <2>6. Received = [d \in Clients |-> Received[d]] /\ Received' = [d \in Clients |-> Received'[d]]
    BY <2>3 DEF Received
  <2>7. QED
    BY <2>4, <2>5, <2>6
<1>10. Total' = Total /\ Start' = Start /\ Over' = Over
  BY <1>2 DEF Total, Start, Over
<1>11. ~done[c]
  BY <1>1, <1>2 DEF DoneOf
<1>12. n \in 0..Total - 1
  BY <1>3, <1>5
<1> HIDE DEF k, n
<1>13. QED
  BY <1>2, <1>7, <1>8, <1>9, <1>10, <1>11, <1>12 DEF Feed!Receive

\* END reaches a client only after all that is retained.
LEMMA ReceiveEndFeed == ASSUME IInv, NEW c \in Clients, ReceiveEnd(c) PROVE Feed!Tell(c)
<1>1. TypeOK /\ StreamsInv /\ ConnOf(c) /\ DoneOf(c)
  BY DEF IInv, StreamsInv
<1>2. /\ conn[c].ended
      /\ read[c] = Len(sent[c])
      /\ done' = [done EXCEPT ![c] = TRUE]
      /\ UNCHANGED <<streams, sent, read>>
  BY DEF ReceiveEnd
<1>3. conn[c].stream = 1 /\ streams[1].ended /\ conn[c].next = Total
  BY <1>1, <1>2 DEF ConnOf
<1>4. conn[c].stream <= Len(streams) /\ Len(streams) \in Nat
  BY <1>1, ClientTypes, StreamTypes
<1>5. Over
  BY <1>3, <1>4 DEF Over
<1>6. ~done[c]
  BY <1>1, <1>3 DEF DoneOf
<1>7. Has(c, read[c], Total)
  BY <1>1, <1>2, <1>3 DEF ConnOf
<1>8. Feed!HasBelow(c, Total)
  <2>1. Received[c] = [i \in 1..read[c] |-> sent[c][i].seq] /\ read[c] \in Nat
    BY <1>1 DEF Received, TypeOK
  <2>2. Len(Received[c]) = read[c] /\ \A i \in 1..read[c] : Received[c][i] = sent[c][i].seq
    BY <2>1
  <2>3. QED
    BY <1>7, <2>2 DEF Feed!HasBelow, Has
<1>9. Total' = Total /\ Start' = Start /\ Over' = Over /\ Received' = Received
  BY <1>2, ReceivedKept DEF Total, Start, Over
<1>10. QED
  BY <1>2, <1>5, <1>6, <1>8, <1>9 DEF Feed!Tell

\* What is sent or lost on the way is not yet received.
LEMMA WireFeed ==
  ASSUME IInv, NEW c \in Clients, SendEvent(c) \/ SendEnd(c) \/ Disconnect(c)
  PROVE  UNCHANGED <<Total, Start, Over, Received, done>>
<1>1. TypeOK
  BY DEF IInv
<1>2. UNCHANGED <<streams, read, done>>
  BY DEF SendEvent, SendEnd, Disconnect
<1>3. /\ sent[c] \in Seq(Id) /\ Len(sent[c]) \in Nat
      /\ read[c] \in Nat /\ read[c] <= Len(sent[c])
  BY <1>1, ClientTypes
<1>4. \A i \in 1..read[c] : sent'[c][i] = sent[c][i]
  <2>1. CASE SendEvent(c)
    <3>1. \E e : sent' = [sent EXCEPT ![c] = Append(@, e)]
      BY <2>1 DEF SendEvent
    <3>2. PICK e : sent'[c] = Append(sent[c], e)
      BY <1>1, <3>1 DEF TypeOK
    <3>3. QED
      BY <1>3, <3>2
  <2>2. CASE SendEnd(c)
    BY <2>2 DEF SendEnd
  <2>3. CASE Disconnect(c)
    <3>1. sent'[c] = SubSeq(sent[c], 1, read[c])
      BY <1>1, <2>3 DEF Disconnect, TypeOK
    <3>2. QED
      BY <1>3, <3>1
  <2>4. QED
    BY <2>1, <2>2, <2>3
<1>5. \A d \in Clients \ {c} : sent'[d] = sent[d]
  BY <1>1 DEF SendEvent, SendEnd, Disconnect, TypeOK
<1>6. Received' = Received
  BY <1>2, <1>4, <1>5, ReceivedKept
<1>7. QED
  BY <1>2, <1>6 DEF Total, Start, Over

LEMMA FeedStep == IInv /\ [Next]_vars => [Feed!FeedNext]_(Feed!feedVars)
<1> SUFFICES ASSUME IInv, [Next]_vars
             PROVE  Feed!FeedNext \/ UNCHANGED <<Total, Start, Over, Received, done>>
  BY DEF Feed!feedVars
<1>1. CASE Publish
  BY <1>1, PublishFeed DEF Feed!FeedNext
<1>2. CASE PublishEnd
  BY <1>2, PublishEndFeed DEF Feed!FeedNext
<1>3. CASE Cleanup \/ NoticeDisconnect \/ UNCHANGED vars
  <2>1. UNCHANGED <<streams, sent, read, done>>
    BY <1>3 DEF Cleanup, NoticeDisconnect, vars
  <2>2. QED
    BY <2>1, ReceivedKept DEF Total, Start, Over
<1>4. ASSUME NEW c \in Clients,
             \/ Join(c) \/ Reconnect(c) \/ SendEvent(c) \/ SendEnd(c)
             \/ ReceiveEvent(c) \/ ReceiveEnd(c) \/ Disconnect(c)
      PROVE  Feed!FeedNext \/ UNCHANGED <<Total, Start, Over, Received, done>>
  <2>1. CASE Join(c)
    BY <2>1, JoinFeed DEF Feed!FeedNext
  <2>2. CASE Reconnect(c)
    BY <2>2, ReconnectFeed
  <2>3. CASE SendEvent(c) \/ SendEnd(c) \/ Disconnect(c)
    BY <2>3, WireFeed
  <2>4. CASE ReceiveEvent(c)
    BY <2>4, ReceiveFeed DEF Feed!FeedNext
  <2>5. CASE ReceiveEnd(c)
    BY <2>5, ReceiveEndFeed DEF Feed!FeedNext
  <2>6. QED
    BY <1>4, <2>1, <2>2, <2>3, <2>4, <2>5
<1>5. QED
  BY <1>1, <1>2, <1>3, <1>4 DEF Next

\* The bridge, its producer, its consumers and their clients implement
\* OrderedFeed: every step is one of its steps or changes nothing it sees.
THEOREM ImplementsFeed == Spec => FeedIsOrdered
<1>1. Init => Feed!FeedInit
  <2> SUFFICES ASSUME Init PROVE Feed!FeedInit
    OBVIOUS
  <2>1. Total = 0 /\ Start = 0 /\ Over = FALSE
    BY DEF Init, Total, Start, Over
  <2>2. ASSUME NEW c \in Clients PROVE [i \in 1..read[c] |-> sent[c][i].seq] = <<>>
    <3>1. read[c] = 0
      BY DEF Init
    <3>2. 1..read[c] = {}
      BY <3>1
    <3>3. QED
      BY <3>2
  <2>3. Received = [c \in Clients |-> <<>>]
    BY <2>2 DEF Received
  <2>4. QED
    BY <2>1, <2>3 DEF Init, Feed!FeedInit
<1>2. IInv /\ [Next]_vars => [Feed!FeedNext]_(Feed!feedVars)
  BY FeedStep
<1>3. QED
  BY <1>1, <1>2, StreamInvariance, PTL DEF Spec, FeedIsOrdered, Feed!FeedSpec

=============================================================================
