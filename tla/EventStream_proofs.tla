------------------------- MODULE EventStream_proofs -------------------------
(***************************************************************************)
(* Proof that the debugger's page shows a prefix of its history, for any   *)
(* number of workflows, events, overlapping polls, mounts and faults.      *)
(***************************************************************************)
EXTENDS EventStream, FiniteSetTheorems, SequenceTheorems, TLAPS

-----------------------------------------------------------------------------
(***************************************************************************)
(* The inductive invariant.                                                *)
(***************************************************************************)
Ev == [wf : Workflows, seq : Nat]
Polling == [pc : {"idle", "asked", "read"}, since : Nat, upto : Nat]
Ends(K) ==
  [ticking : BOOLEAN, wf : Workflows, last : Nat, polls : [K -> Polling], wire : Seq(Ev)]

\* The types, as far as the proof needs them.
Typed ==
  /\ log \in [Workflows -> Nat]
  /\ page \in [wf : Workflows \cup {NoWorkflow}, mount : Nat, events : Seq(Ev),
               state : {"fine", "unfetched", "broken", "refused"}]
  /\ fetches \subseteq [wf : Workflows, mount : Nat, read : Nat,
                        pc : {"asked", "read", "error", "lost"}]
  /\ source \subseteq [wf : Workflows, mount : Nat, since : Nat, conn : Nat]
  /\ streams \in Seq(Ends(1..limits.polls))

\* A page that shows n events has event x, or will have it when the wire is empty.
Known(wire, n, x) ==
  x <= n \/ \E k \in DOMAIN wire : wire[k].seq = x

\* On a wire to a page that shows n of the h events of w, an event's predecessor is before
\* it, or on the page.
NoGap(wire, w, n, h) ==
  \A k \in DOMAIN wire :
    /\ wire[k].wf = w /\ wire[k].seq \in 1..h
    /\ wire[k].seq <= n + 1 \/ \E j \in 1..(k - 1) : wire[j].seq = wire[k].seq - 1

\* The polls of that connection start from events that are on their way at least.
Follows(stream, w, n, h) ==
  /\ stream.wf = w
  /\ NoGap(stream.wire, w, n, h)
  /\ Known(stream.wire, n, stream.last)
  /\ \A k \in DOMAIN stream.polls :
       /\ stream.polls[k].pc # "idle" => Known(stream.wire, n, stream.polls[k].since)
       /\ stream.polls[k].pc = "read" => stream.polls[k].upto <= h

Following(s) ==
  /\ s.conn \in DOMAIN streams
  /\ Follows(streams[s.conn], s.wf, Len(page.events), log[s.wf])

\* The page has one source, which is its own.
SourceFollows ==
  /\ \A s, t \in source : s = t
  /\ \A s \in source :
       /\ s.wf = page.wf /\ s.since <= Len(page.events)
       /\ s.conn # 0 => Following(s)

\* A request that is not cancelled is for the workflow that is shown.
FetchesAreOwn ==
  \A f \in fetches :
    /\ f.mount <= page.mount
    /\ f.mount = page.mount /\ page.wf # NoWorkflow => f.wf = page.wf
    /\ f.read <= log[f.wf]

IInv == Typed /\ SourceFollows /\ FetchesAreOwn /\ ShownIsPrefix

-----------------------------------------------------------------------------
(***************************************************************************)
(* Events and how the page adds one.                                       *)
(***************************************************************************)

LEMMA EventsInOrder ==
  ASSUME NEW w \in Workflows, NEW from \in Nat, NEW to \in Nat, from <= to
  PROVE  /\ EventsOf(w, from, to) \in Seq(Ev)
         /\ Len(EventsOf(w, from, to)) = to - from
         /\ \A n \in 1..(to - from) :
              EventsOf(w, from, to)[n].wf = w /\ EventsOf(w, from, to)[n].seq = from + n
<1>1. to - from \in Nat
  OBVIOUS
<1>2. \A n \in 1..(to - from) : from + n \in Nat
  OBVIOUS
<1>3. EventsOf(w, from, to) \in Seq(Ev)
  BY <1>1, <1>2 DEF EventsOf, Ev
<1> QED
  BY <1>1, <1>3 DEF EventsOf

LEMMA PrefixInOrder ==
  ASSUME NEW w \in Workflows, NEW n \in Nat
  PROVE  /\ EventsOf(w, 0, n) \in Seq(Ev)
         /\ Len(EventsOf(w, 0, n)) = n /\ DOMAIN EventsOf(w, 0, n) = 1..n
         /\ \A m \in 1..n : EventsOf(w, 0, n)[m] = [wf |-> w, seq |-> m]
<1>1. n - 0 = n /\ \A m \in 1..n : 0 + m = m
  OBVIOUS
<1>2. EventsOf(w, 0, n) = [m \in 1..n |-> [wf |-> w, seq |-> m]]
  BY <1>1 DEF EventsOf
<1>3. \A m \in 1..n : [wf |-> w, seq |-> m] \in Ev
  BY DEF Ev
<1> QED
  BY <1>2, <1>3

\* The event after the last one is put at the end, and one that is there is left out.
LEMMA AddsNext ==
  ASSUME NEW w \in Workflows, NEW n \in Nat, NEW e \in Ev, e.wf = w, e.seq \in 1..(n + 1)
  PROVE  AddEvent(EventsOf(w, 0, n), e) = EventsOf(w, 0, IF e.seq <= n THEN n ELSE e.seq)
<1> DEFINE events == EventsOf(w, 0, n)
<1>1. /\ events \in Seq(Ev) /\ Len(events) = n /\ DOMAIN events = 1..n
      /\ \A m \in 1..n : events[m] = [wf |-> w, seq |-> m]
  BY PrefixInOrder
<1> HIDE DEF events
<1>2. CASE e.seq <= n
  <2>1. events[e.seq].seq = e.seq /\ e.seq \in DOMAIN events
    BY <1>1, <1>2
  <2> QED
    BY <1>2, <2>1 DEF AddEvent, events
<1>3. CASE e.seq = n + 1
  <2>1. ~\E m \in DOMAIN events : events[m].seq = e.seq
    BY <1>1, <1>3
  <2>2. {m \in DOMAIN events : events[m].seq <= e.seq} = 1..n
    BY <1>1, <1>3
  <2>3. Cardinality(1..n) = n
    BY FS_Interval
  <2>4. AddEvent(events, e) = InsertAt(events, 1 + n, e)
    BY <2>1, <2>2, <2>3 DEF AddEvent
  <2>5. InsertAt(events, 1 + n, e) = Append(events, e)
    <3>1. SubSeq(events, 1, n) = events
      BY <1>1
    <3>2. SubSeq(events, 1 + n, n) = <<>>
      BY <1>1
    <3>3. InsertAt(events, 1 + n, e) = SubSeq(events, 1, n) \o <<e>> \o SubSeq(events, 1 + n, n)
      BY <1>1 DEF InsertAt
    <3> QED
      BY <1>1, <3>1, <3>2, <3>3
  <2>6. e = [wf |-> w, seq |-> n + 1]
    BY <1>3 DEF Ev
  <2>7. Append(events, e) = EventsOf(w, 0, n + 1)
    <3>1. EventsOf(w, 0, n + 1) \in Seq(Ev) /\ Len(EventsOf(w, 0, n + 1)) = n + 1
          /\ \A m \in 1..(n + 1) : EventsOf(w, 0, n + 1)[m] = [wf |-> w, seq |-> m]
      BY PrefixInOrder
    <3>2. Append(events, e) \in Seq(Ev) /\ Len(Append(events, e)) = n + 1
          /\ \A m \in 1..(n + 1) : Append(events, e)[m] = [wf |-> w, seq |-> m]
      BY <1>1, <2>6
    <3> DEFINE a == Append(events, e)
               b == EventsOf(w, 0, n + 1)
    <3> HIDE DEF a, b
    <3>3. a \in Seq(Ev) /\ b \in Seq(Ev) /\ Len(a) = Len(b) /\ \A m \in 1..Len(a) : a[m] = b[m]
      BY <3>1, <3>2 DEF a, b
    <3>4. a = b
      BY <3>3
    <3> QED
      BY <3>4 DEF a, b
  <2> QED
    BY <1>3, <2>4, <2>5, <2>7 DEF events
<1> QED
  BY <1>2, <1>3

-----------------------------------------------------------------------------
(***************************************************************************)
(* What happens on a connection leaves no gap.                             *)
(***************************************************************************)

LEMMA LongerHistory ==
  ASSUME NEW K, NEW stream \in Ends(K), NEW w, NEW n \in Nat, NEW h \in Nat, NEW g \in Nat,
         h <= g, Follows(stream, w, n, h)
  PROVE  Follows(stream, w, n, g)
BY DEF Follows, NoGap, Ends, Polling, Ev

Asking(stream, k) ==
  [stream EXCEPT !.polls[k] = [pc |-> "asked", since |-> stream.last, upto |-> 0]]

LEMMA PollStarts ==
  ASSUME NEW K, NEW stream \in Ends(K), NEW k \in K
  PROVE  /\ Asking(stream, k) \in Ends(K)
         /\ \A w : \A n, h \in Nat :
              Follows(stream, w, n, h) => Follows(Asking(stream, k), w, n, h)
<1>1. PICK q : q = Asking(stream, k)
  OBVIOUS
<1>2. q \in Ends(K)
  BY <1>1 DEF Asking, Ends, Polling
<1>3. ASSUME NEW w, NEW n \in Nat, NEW h \in Nat, Follows(stream, w, n, h)
      PROVE  Follows(q, w, n, h)
  BY <1>1, <1>3 DEF Asking, Follows, Ends, Polling
<1> QED
  BY <1>1, <1>2, <1>3

HasRead(stream, k, h) == [stream EXCEPT !.polls[k].pc = "read", !.polls[k].upto = h]

LEMMA PollHasRead ==
  ASSUME NEW K, NEW stream \in Ends(K), NEW k \in K, NEW h \in Nat
  PROVE  /\ HasRead(stream, k, h) \in Ends(K)
         /\ \A w : \A n \in Nat :
              Follows(stream, w, n, h) /\ stream.polls[k].pc = "asked"
              => Follows(HasRead(stream, k, h), w, n, h)
<1>1. PICK q : q = HasRead(stream, k, h)
  OBVIOUS
<1>2. /\ stream.polls \in [K -> Polling] /\ q.polls \in [K -> Polling]
      /\ q.polls[k] = [pc |-> "read", since |-> stream.polls[k].since, upto |-> h]
      /\ \A l \in K : l # k => q.polls[l] = stream.polls[l]
  BY <1>1 DEF HasRead, Ends, Polling
<1>3. /\ q.wf = stream.wf /\ q.last = stream.last /\ q.wire = stream.wire
      /\ q = [ticking |-> stream.ticking, wf |-> stream.wf, last |-> stream.last,
              polls |-> q.polls, wire |-> stream.wire]
  BY <1>1 DEF HasRead, Ends
<1>4. q \in Ends(K)
  BY <1>2, <1>3 DEF Ends
<1>5. DOMAIN q.polls = K
  BY <1>2
<1>6. ASSUME NEW w, NEW n \in Nat, Follows(stream, w, n, h), stream.polls[k].pc = "asked"
      PROVE  Follows(q, w, n, h)
  <2>1. ASSUME NEW l \in K
        PROVE  /\ q.polls[l].pc # "idle" => Known(q.wire, n, q.polls[l].since)
               /\ q.polls[l].pc = "read" => q.polls[l].upto <= h
    BY <1>2, <1>3, <1>6 DEF Follows
  <2> QED
    BY <1>3, <1>5, <1>6, <2>1 DEF Follows
<1> QED
  BY <1>1, <1>4, <1>6

\* The first event on the wire is on the page already, or the next.
LEMMA FirstIsNext ==
  ASSUME NEW K, NEW stream \in Ends(K), NEW w, NEW n \in Nat, NEW h \in Nat,
         Follows(stream, w, n, h), stream.wire # <<>>
  PROVE  /\ Head(stream.wire) \in Ev /\ Head(stream.wire).wf = w
         /\ Head(stream.wire).seq \in 1..(n + 1) /\ Head(stream.wire).seq <= h
<1>1. stream.wire \in Seq(Ev) /\ 1 \in DOMAIN stream.wire /\ Head(stream.wire) = stream.wire[1]
  BY DEF Ends
<1>2. stream.wire[1] \in Ev
  BY <1>1
<1>3. ~\E j \in 1..(1 - 1) : TRUE
  OBVIOUS
<1> QED
  BY <1>1, <1>2, <1>3 DEF Follows, NoGap, Ev

Taking(stream) == [stream EXCEPT !.wire = Tail(@)]

LEMMA FirstIsTaken ==
  ASSUME NEW K, NEW stream \in Ends(K), NEW w, NEW n \in Nat, NEW h \in Nat,
         Follows(stream, w, n, h), stream.wire # <<>>,
         NEW m \in Nat, n <= m, Head(stream.wire).seq <= m
  PROVE  Taking(stream) \in Ends(K) /\ Follows(Taking(stream), w, m, h)
<1> DEFINE wire == stream.wire
           rest == Tail(stream.wire)
<1>0. PICK q : q = Taking(stream)
  OBVIOUS
<1>1. /\ wire \in Seq(Ev) /\ wire # <<>> /\ rest \in Seq(Ev)
      /\ Len(rest) = Len(wire) - 1 /\ 1 \in 1..Len(wire)
      /\ DOMAIN wire = 1..Len(wire) /\ DOMAIN rest = 1..(Len(wire) - 1)
      /\ Head(wire) = wire[1] /\ \A k \in 1..Len(rest) : rest[k] = wire[k + 1]
  BY DEF Ends
<1>2. \A k \in 1..Len(wire) : wire[k] \in Ev /\ wire[k].seq \in Nat
  <2>1. \A k \in 1..Len(wire) : wire[k] \in Ev
    BY <1>1
  <2> QED
    BY <2>1 DEF Ev
<1>3. n <= m /\ wire[1].seq <= m
  BY <1>1
<1>4. q \in Ends(K) /\ q.wire = rest /\ q.wf = stream.wf /\ q.last = stream.last
      /\ q.polls = stream.polls
  BY <1>0, <1>1 DEF Taking, Ends
<1> HIDE DEF wire, rest
<1>5. ASSUME NEW x \in Nat, Known(stream.wire, n, x) PROVE Known(q.wire, m, x)
  <2>1. CASE x <= n
    BY <2>1, <1>3 DEF Known
  <2>2. CASE \E k \in DOMAIN wire : wire[k].seq = x
    <3>1. PICK k \in 1..Len(wire) : wire[k].seq = x
      BY <2>2, <1>1
    <3>2. CASE k = 1
      BY <3>1, <3>2, <1>3 DEF Known
    <3>3. CASE k # 1
      <4>1. k - 1 \in DOMAIN rest /\ rest[k - 1] = wire[(k - 1) + 1] /\ (k - 1) + 1 = k
        BY <3>1, <3>3, <1>1
      <4> QED
        BY <3>1, <4>1, <1>4 DEF Known
    <3> QED
      BY <3>2, <3>3
  <2> QED
    BY <2>1, <2>2, <1>5 DEF Known, wire
<1>6. ASSUME NEW k \in DOMAIN rest
      PROVE  /\ rest[k].wf = w /\ rest[k].seq \in 1..h
             /\ \/ rest[k].seq <= m + 1
                \/ \E j \in 1..(k - 1) : rest[j].seq = rest[k].seq - 1
  <2>1. k + 1 \in DOMAIN wire /\ rest[k] = wire[k + 1] /\ rest[k].seq \in Nat /\ k \in Nat
    BY <1>1, <1>2
  <2>2. /\ rest[k].wf = w /\ rest[k].seq \in 1..h
        /\ \/ rest[k].seq <= n + 1
           \/ \E j \in 1..((k + 1) - 1) : wire[j].seq = rest[k].seq - 1
    BY <2>1 DEF Follows, NoGap, wire
  <2>3. CASE rest[k].seq <= n + 1
    BY <2>1, <2>2, <2>3, <1>3
  <2>4. CASE \E j \in 1..((k + 1) - 1) : wire[j].seq = rest[k].seq - 1
    <3>1. PICK j \in 1..k : wire[j].seq = rest[k].seq - 1
      BY <2>1, <2>4
    <3>2. CASE j = 1
      BY <2>1, <2>2, <3>1, <3>2, <1>3
    <3>3. CASE j # 1
      <4>1. j - 1 \in 1..(k - 1) /\ rest[j - 1] = wire[(j - 1) + 1] /\ (j - 1) + 1 = j
        BY <3>1, <3>3, <1>1
      <4> QED
        BY <3>1, <4>1, <2>2
    <3> QED
      BY <3>2, <3>3
  <2> QED
    BY <2>2, <2>3, <2>4
<1>7. \A k \in K : stream.polls[k] \in Polling /\ stream.polls[k].since \in Nat
  BY DEF Ends, Polling
<1>8. stream.last \in Nat /\ DOMAIN stream.polls = K
  BY DEF Ends
<1>9. Known(q.wire, m, q.last)
  BY <1>4, <1>5, <1>8 DEF Follows
<1>10. \A k \in DOMAIN q.polls :
         /\ q.polls[k].pc # "idle" => Known(q.wire, m, q.polls[k].since)
         /\ q.polls[k].pc = "read" => q.polls[k].upto <= h
  BY <1>4, <1>5, <1>7, <1>8 DEF Follows
<1>11. q.wf = w
  BY <1>4 DEF Follows
<1>12. NoGap(q.wire, w, m, h)
  BY <1>4, <1>6, Zenon DEF NoGap
<1>13. Follows(q, w, m, h)
  BY <1>9, <1>10, <1>11, <1>12, Zenon DEF Follows
<1> QED
  BY <1>0, <1>4, <1>13

\* Events that follow one which is shown or on the wire leave no gap after it.
LEMMA WireGrows ==
  ASSUME NEW w \in Workflows, NEW n \in Nat, NEW h \in Nat,
         NEW since \in Nat, NEW upto \in Nat, since < upto, upto <= h,
         NEW wire \in Seq(Ev), NoGap(wire, w, n, h), Known(wire, n, since)
  PROVE  LET longer == wire \o EventsOf(w, since, upto)
         IN  /\ NoGap(longer, w, n, h)
             /\ \A x : Known(wire, n, x) => Known(longer, n, x)
             /\ Known(longer, n, upto)
<1> DEFINE d == upto - since
           new == EventsOf(w, since, upto)
           longer == wire \o new
<1>1. new \in Seq(Ev) /\ d \in Nat /\ 1 <= d /\ Len(new) = d /\ since + d = upto
  <2>1. since <= upto /\ d \in Nat /\ 1 <= d /\ since + d = upto
    OBVIOUS
  <2>2. Len(new) = d
    BY <2>1, EventsInOrder
  <2>3. new \in Seq(Ev)
    BY <2>1, EventsInOrder
  <2> QED
    BY <2>1, <2>2, <2>3
<1>2. \A i \in 1..d : new[i].wf = w /\ new[i].seq = since + i /\ since + i \in 1..h
  <2>1. since <= upto
    OBVIOUS
  <2>2. \A i \in 1..d : new[i].wf = w /\ new[i].seq = since + i
    BY <2>1, EventsInOrder
  <2> QED
    BY <2>2
<1> HIDE DEF d, new, longer
<1>3. PICK l \in Nat : l = Len(wire) /\ DOMAIN wire = 1..l
  OBVIOUS
<1>4. /\ DOMAIN longer = 1..(l + d)
      /\ \A i \in 1..l : longer[i] = wire[i]
      /\ \A i \in 1..d : longer[l + i] = new[i]
  <2>1. /\ Len(longer) = l + d /\ longer \in Seq(Ev)
        /\ \A i \in 1..(l + d) : longer[i] = IF i <= l THEN wire[i] ELSE new[i - l]
    <3>1. /\ longer \in Seq(Ev) /\ Len(longer) = Len(wire) + Len(new)
          /\ \A i \in 1..(Len(wire) + Len(new)) :
               longer[i] = IF i <= Len(wire) THEN wire[i] ELSE new[i - Len(wire)]
      BY <1>1, ConcatProperties DEF longer
    <3>2. Len(wire) = l /\ Len(new) = d
      BY <1>1, <1>3
    <3> QED
      BY <3>1, <3>2, Zenon
  <2>2. DOMAIN longer = 1..(l + d)
    BY <1>1, <1>3, <2>1
  <2>3. \A i \in 1..l : i \in 1..(l + d) /\ i <= l
    BY <1>1, <1>3
  <2>4. \A i \in 1..d : l + i \in 1..(l + d) /\ ~(l + i <= l) /\ (l + i) - l = i
    BY <1>1, <1>3
  <2> QED
    BY <2>1, <2>2, <2>3, <2>4, Zenon
<1>5. ASSUME NEW i \in 1..l
      PROVE  /\ longer[i].wf = w /\ longer[i].seq \in 1..h
             /\ longer[i].seq <= n + 1 \/ \E j \in 1..(i - 1) : longer[j].seq = longer[i].seq - 1
  <2>1. /\ wire[i].wf = w /\ wire[i].seq \in 1..h
        /\ wire[i].seq <= n + 1 \/ \E j \in 1..(i - 1) : wire[j].seq = wire[i].seq - 1
    BY <1>3, Zenon DEF NoGap
  <2>2. longer[i] = wire[i] /\ \A j \in 1..(i - 1) : longer[j] = wire[j]
    BY <1>3, <1>4
  <2> QED
    BY <2>1, <2>2, Zenon
<1>6. ASSUME NEW i \in 1..d
      PROVE  /\ longer[l + i].wf = w /\ longer[l + i].seq \in 1..h
             /\ \/ longer[l + i].seq <= n + 1
                \/ \E j \in 1..((l + i) - 1) : longer[j].seq = longer[l + i].seq - 1
  <2>1. longer[l + i].wf = w /\ longer[l + i].seq = since + i /\ since + i \in 1..h
    BY <1>2, <1>4
  <2>2. CASE i = 1
    <3>1. (since + i) - 1 = since /\ (l + i) - 1 = l
      BY <1>3, <2>2
    <3>2. since <= n \/ \E j \in 1..l : longer[j].seq = since
      BY <1>3, <1>4, Zenon DEF Known
    <3>3. since <= n => since + i <= n + 1
      BY <2>2
    <3> QED
      BY <2>1, <3>1, <3>2, <3>3, Zenon
  <2>3. CASE i # 1
    <3>1. /\ i - 1 \in 1..d /\ l + (i - 1) \in 1..((l + i) - 1)
          /\ since + (i - 1) = (since + i) - 1
      BY <1>1, <1>3, <2>3
    <3>2. longer[l + (i - 1)] = new[i - 1] /\ new[i - 1].seq = since + (i - 1)
      BY <1>2, <1>4, <3>1
    <3> QED
      BY <2>1, <3>1, <3>2, Zenon
  <2> QED
    BY <2>2, <2>3
<1>7. ASSUME NEW i \in DOMAIN longer PROVE i \in 1..l \/ \E m \in 1..d : i = l + m
  <2>1. i \in 1..(l + d)
    BY <1>4
  <2>2. i \notin 1..l => (i - l) \in 1..d /\ i = l + (i - l)
    BY <1>1, <1>3, <2>1
  <2> QED
    BY <2>2
<1>8. NoGap(longer, w, n, h)
  <2> SUFFICES ASSUME NEW k \in DOMAIN longer
               PROVE  /\ longer[k].wf = w /\ longer[k].seq \in 1..h
                      /\ \/ longer[k].seq <= n + 1
                         \/ \E j \in 1..(k - 1) : longer[j].seq = longer[k].seq - 1
    BY Zenon DEF NoGap
  <2>1. CASE k \in 1..l
    BY <1>5, <2>1, Zenon
  <2>2. CASE \E m \in 1..d : k = l + m
    BY <1>6, <2>2, Zenon
  <2> QED
    BY <1>7, <2>1, <2>2, Zenon
<1>9. \A k \in DOMAIN wire : k \in DOMAIN longer /\ longer[k] = wire[k]
  BY <1>1, <1>3, <1>4
<1>10. l + d \in DOMAIN longer /\ longer[l + d].seq = upto
  <2>1. d \in 1..d /\ l + d \in 1..(l + d)
    BY <1>1, <1>3
  <2> QED
    BY <1>1, <1>2, <1>4, <2>1, Zenon
<1>11. Known(longer, n, upto)
  BY <1>10, Zenon DEF Known
<1>12. \A x : Known(wire, n, x) => Known(longer, n, x)
  BY <1>9, Zenon DEF Known
<1> QED
  BY <1>8, <1>11, <1>12 DEF longer, new

\* A poll that returned goes on the wire where its events continue what is there.
LEMMA PollIsWritten ==
  ASSUME NEW K, NEW stream \in Ends(K), NEW w \in Workflows, NEW n \in Nat, NEW h \in Nat,
         NEW k \in K, Follows(stream, w, n, h),
         NEW since \in Nat, NEW upto \in Nat, Known(stream.wire, n, since), upto <= h,
         NEW q, q \in Ends(K), q.wf = stream.wf,
         q.polls = [stream.polls EXCEPT ![k] = NoPoll],
         q.last = IF stream.ticking /\ upto > since THEN upto ELSE stream.last,
         q.wire = IF upto > since
                  THEN stream.wire \o EventsOf(w, since, upto) ELSE stream.wire
  PROVE  Follows(q, w, n, h)
<1>1. stream.polls \in [K -> Polling] /\ stream.wire \in Seq(Ev)
  BY DEF Ends
<1>2. /\ stream.wf = w /\ NoGap(stream.wire, w, n, h)
      /\ Known(stream.wire, n, stream.last)
  BY DEF Follows
<1>3. ASSUME since < upto
      PROVE  /\ NoGap(stream.wire \o EventsOf(w, since, upto), w, n, h)
             /\ \A x : Known(stream.wire, n, x)
                        => Known(stream.wire \o EventsOf(w, since, upto), n, x)
             /\ Known(stream.wire \o EventsOf(w, since, upto), n, upto)
  BY <1>1, <1>2, <1>3, WireGrows
<1>4. since < upto <=> upto > since
  OBVIOUS
<1>5. NoGap(q.wire, w, n, h)
  BY <1>2, <1>3, <1>4
<1>6. upto > since => Known(q.wire, n, upto)
  BY <1>3, <1>4
<1>7. \A x : Known(stream.wire, n, x) => Known(q.wire, n, x)
  BY <1>3, <1>4
<1>8. Known(q.wire, n, q.last)
  <2>1. CASE stream.ticking /\ upto > since
    BY <1>6, <2>1
  <2>2. CASE ~(stream.ticking /\ upto > since)
    BY <1>2, <1>7, <2>2
  <2> QED
    BY <2>1, <2>2
<1>9. ASSUME NEW j \in DOMAIN q.polls
      PROVE  /\ q.polls[j].pc # "idle" => Known(q.wire, n, q.polls[j].since)
             /\ q.polls[j].pc = "read" => q.polls[j].upto <= h
  <2>1. CASE j = k
    <3>1. q.polls[j].pc = "idle"
      BY <1>1, <2>1 DEF NoPoll
    <3> QED
      BY <3>1
  <2>2. CASE j # k
    <3>1. j \in DOMAIN stream.polls /\ q.polls[j] = stream.polls[j]
      BY <1>1, <2>2
    <3> QED
      BY <1>7, <3>1, Zenon DEF Follows
  <2> QED
    BY <2>1, <2>2
<1> QED
  BY <1>2, <1>5, <1>8, <1>9, Zenon DEF Follows

-----------------------------------------------------------------------------
(***************************************************************************)
(* The steps.                                                              *)
(***************************************************************************)

LEMMA InitSound == Init => IInv
<1> SUFFICES ASSUME Init PROVE IInv
  OBVIOUS
<1>1. Typed
  BY DEF Init, Typed, Ends, Ev
<1>2. ShownIsPrefix
  <2>1. EventsOf(NoWorkflow, 0, 0) = <<>>
    BY DEF EventsOf
  <2>2. page.events = <<>> /\ Len(page.events) = 0 /\ page.wf = NoWorkflow
    BY DEF Init
  <2> QED
    BY <2>1, <2>2 DEF ShownIsPrefix
<1>3. SourceFollows /\ FetchesAreOwn
  BY DEF Init, SourceFollows, FetchesAreOwn
<1> QED
  BY <1>1, <1>2, <1>3 DEF IInv

\* One server end changes, and the page follows it still if it is the page's.
LEMMA OneEndChanges ==
  ASSUME IInv, UNCHANGED <<log, page, fetches, source, limits>>,
         NEW c \in DOMAIN streams, NEW q \in Ends(1..limits.polls),
         streams' = [streams EXCEPT ![c] = q],
         \A s \in source : s.conn = c => Follows(q, s.wf, Len(page.events), log[s.wf])
  PROVE  IInv'
<1>1. streams' \in Seq(Ends(1..limits.polls)) /\ DOMAIN streams' = DOMAIN streams
      /\ streams'[c] = q /\ \A d \in DOMAIN streams : d # c => streams'[d] = streams[d]
  BY DEF IInv, Typed
<1>2. Typed'
  BY <1>1 DEF IInv, Typed
<1>3. ASSUME NEW s \in source, s.conn # 0 PROVE Following(s)'
  <2>1. Following(s)
    BY <1>3 DEF IInv, SourceFollows
  <2>2. CASE s.conn = c
    BY <1>1, <2>1, <2>2, Zenon DEF Following
  <2>3. CASE s.conn # c
    BY <1>1, <2>1, <2>3, Zenon DEF Following
  <2> QED
    BY <2>2, <2>3
<1>4. SourceFollows'
  BY <1>3 DEF IInv, SourceFollows
<1>5. FetchesAreOwn' /\ ShownIsPrefix'
  BY DEF IInv, FetchesAreOwn, ShownIsPrefix
<1> QED
  BY <1>2, <1>4, <1>5 DEF IInv

\* The page's end is for the page's workflow.
LEMMA OwnEnd ==
  ASSUME IInv, NEW s \in source, s.conn # 0
  PROVE  /\ s.conn \in DOMAIN streams /\ streams[s.conn] \in Ends(1..limits.polls)
         /\ streams[s.conn].wf = s.wf /\ s.wf \in Workflows /\ log[s.wf] \in Nat
         /\ page.wf = s.wf /\ Len(page.events) \in Nat
         /\ Follows(streams[s.conn], s.wf, Len(page.events), log[s.wf])
<1>1. Following(s) /\ s.wf = page.wf
  BY DEF IInv, SourceFollows
<1>2. s.wf \in Workflows /\ log[s.wf] \in Nat /\ Len(page.events) \in Nat
  BY DEF IInv, Typed
<1>3. streams[s.conn] \in Ends(1..limits.polls)
  BY <1>1 DEF IInv, Typed, Following
<1> QED
  BY <1>1, <1>2, <1>3 DEF Following, Follows

\* What keeps the page following keeps the invariant.
LEMMA OneEndMovesOn ==
  ASSUME IInv, UNCHANGED <<log, page, fetches, source, limits>>,
         NEW c \in DOMAIN streams, NEW q \in Ends(1..limits.polls),
         streams' = [streams EXCEPT ![c] = q],
         \A n \in Nat : LET w == streams[c].wf
                        IN  Follows(streams[c], w, n, log[w]) => Follows(q, w, n, log[w])
  PROVE  IInv'
<1>1. ASSUME NEW s \in source, s.conn = c
      PROVE  Follows(q, s.wf, Len(page.events), log[s.wf])
  <2>1. s.conn # 0
    BY <1>1 DEF IInv, Typed
  <2>2. /\ Len(page.events) \in Nat /\ s.wf = streams[c].wf
        /\ Follows(streams[c], s.wf, Len(page.events), log[s.wf])
    BY <1>1, <2>1, OwnEnd
  <2> QED
    BY <2>2, Zenon
<1> QED
  BY <1>1, OneEndChanges

LEMMA EndIsTyped ==
  ASSUME IInv, NEW c \in DOMAIN streams
  PROVE  streams[c] \in Ends(1..limits.polls) /\ log[streams[c].wf] \in Nat
<1>1. streams[c] \in Ends(1..limits.polls)
  BY DEF IInv, Typed
<1>2. streams[c].wf \in Workflows
  BY <1>1 DEF Ends
<1> QED
  BY <1>1, <1>2 DEF IInv, Typed

LEMMA TickSound ==
  ASSUME IInv, NEW c \in DOMAIN streams, NEW k \in 1..limits.polls, Tick(c, k)
  PROVE  IInv'
<1>1. streams' = [streams EXCEPT ![c] = Asking(streams[c], k)]
  BY Zenon DEF Tick, Asking
<1>2. UNCHANGED <<log, page, fetches, source, limits>>
  BY DEF Tick
<1>3. Asking(streams[c], k) \in Ends(1..limits.polls)
  BY EndIsTyped, PollStarts
<1>4. \A w : \A n, h \in Nat :
        Follows(streams[c], w, n, h) => Follows(Asking(streams[c], k), w, n, h)
  BY EndIsTyped, PollStarts
<1> QED
  BY <1>1, <1>2, <1>3, <1>4, EndIsTyped, OneEndMovesOn

LEMMA PollReadsSound ==
  ASSUME IInv, NEW c \in DOMAIN streams, NEW k \in 1..limits.polls, PollReads(c, k)
  PROVE  IInv'
<1> DEFINE h == log[streams[c].wf]
           q == HasRead(streams[c], k, h)
<1>1. streams' = [streams EXCEPT ![c] = q]
  <2>1. \A a : [streams EXCEPT ![c] = a][c] = a
    OBVIOUS
  <2>2. \A a, b : [[streams EXCEPT ![c] = a] EXCEPT ![c] = b] = [streams EXCEPT ![c] = b]
    OBVIOUS
  <2>3. PICK a : a = [streams[c] EXCEPT !.polls[k].pc = "read"]
    OBVIOUS
  <2>4. streams' = [[streams EXCEPT ![c] = a] EXCEPT ![c].polls[k].upto = h]
    BY <2>3, Zenon DEF PollReads
  <2>5. q = [a EXCEPT !.polls[k].upto = h]
    BY <2>3, Zenon DEF HasRead
  <2>6. streams' = [[streams EXCEPT ![c] = a] EXCEPT ![c] = q]
    BY <2>1, <2>4, <2>5, Zenon
  <2> QED
    BY <2>2, <2>6, Zenon
<1>2. UNCHANGED <<log, page, fetches, source, limits>> /\ streams[c].polls[k].pc = "asked"
  BY DEF PollReads
<1>3. q \in Ends(1..limits.polls)
  BY EndIsTyped, PollHasRead
<1>4. \A w : \A n \in Nat : Follows(streams[c], w, n, h) => Follows(q, w, n, h)
  BY <1>2, EndIsTyped, PollHasRead
<1> HIDE DEF q
<1> QED
  BY <1>1, <1>2, <1>3, <1>4, OneEndMovesOn

Returned(stream, k, attached) ==
  LET poll == stream.polls[k]
  IN  [stream EXCEPT
         !.polls[k] = NoPoll,
         !.last = IF stream.ticking /\ poll.upto > poll.since THEN poll.upto ELSE @,
         !.wire = IF attached /\ poll.upto > poll.since
                  THEN @ \o EventsOf(stream.wf, poll.since, poll.upto) ELSE @]

LEMMA PollHasReturned ==
  ASSUME NEW K, NEW stream \in Ends(K), NEW k \in K, NEW attached \in BOOLEAN,
         stream.polls[k].pc = "read"
  PROVE  /\ Returned(stream, k, attached) \in Ends(K)
         /\ attached => \A n, h \in Nat :
              Follows(stream, stream.wf, n, h)
              => Follows(Returned(stream, k, attached), stream.wf, n, h)
<1> DEFINE since == stream.polls[k].since
           upto == stream.polls[k].upto
<1>1. PICK q : q = Returned(stream, k, attached)
  OBVIOUS
<1>2. /\ since \in Nat /\ upto \in Nat /\ stream.wf \in Workflows
      /\ stream.last \in Nat /\ stream.wire \in Seq(Ev) /\ stream.polls \in [K -> Polling]
  BY DEF Ends, Polling
<1>3. /\ q.ticking = stream.ticking /\ q.wf = stream.wf
      /\ q.polls = [stream.polls EXCEPT ![k] = NoPoll]
      /\ q.last = IF stream.ticking /\ upto > since THEN upto ELSE stream.last
      /\ q.wire = IF attached /\ upto > since
                  THEN stream.wire \o EventsOf(stream.wf, since, upto) ELSE stream.wire
      /\ q = [ticking |-> q.ticking, wf |-> q.wf, last |-> q.last, polls |-> q.polls,
              wire |-> q.wire]
  BY <1>1 DEF Returned, Ends
<1> HIDE DEF since, upto
<1>4. q \in Ends(K)
  <2>1. q.wire \in Seq(Ev)
    <3>1. CASE attached /\ upto > since
      <4>1. since <= upto
        BY <1>2, <3>1
      <4>2. EventsOf(stream.wf, since, upto) \in Seq(Ev)
        BY <1>2, <4>1, EventsInOrder
      <4>3. q.wire = stream.wire \o EventsOf(stream.wf, since, upto)
        BY <1>3, <3>1
      <4> QED
        BY <1>2, <4>2, <4>3
    <3>2. CASE ~(attached /\ upto > since)
      BY <1>2, <1>3, <3>2
    <3> QED
      BY <3>1, <3>2
  <2>2. q.polls \in [K -> Polling]
    BY <1>2, <1>3 DEF NoPoll, Polling
  <2>3. q.last \in Nat /\ q.ticking \in BOOLEAN /\ q.wf \in Workflows
    <3>1. stream.ticking \in BOOLEAN
      BY DEF Ends
    <3> QED
      BY <1>2, <1>3, <3>1
  <2> QED
    BY <1>3, <2>1, <2>2, <2>3 DEF Ends
<1>5. ASSUME attached, NEW n \in Nat, NEW h \in Nat, Follows(stream, stream.wf, n, h)
      PROVE  Follows(q, stream.wf, n, h)
  <2>1. Known(stream.wire, n, since) /\ upto <= h
    BY <1>2, <1>5 DEF Follows, since, upto
  <2>2. q.wire = IF upto > since
                 THEN stream.wire \o EventsOf(stream.wf, since, upto) ELSE stream.wire
    BY <1>3, <1>5
  <2> QED
    BY <1>2, <1>3, <1>4, <1>5, <2>1, <2>2, PollIsWritten
<1> QED
  BY <1>1, <1>4, <1>5

LEMMA PollReturnsSound ==
  ASSUME IInv, NEW c \in DOMAIN streams, NEW k \in 1..limits.polls, PollReturns(c, k)
  PROVE  IInv'
<1> DEFINE q == Returned(streams[c], k, Attached(c))
           poll == streams[c].polls[k]
<1>1. streams' = [streams EXCEPT ![c] = q]
  <2>1. \A a : [streams EXCEPT ![c] = a][c] = a
    OBVIOUS
  <2>2. \A a, b : [[streams EXCEPT ![c] = a] EXCEPT ![c] = b] = [streams EXCEPT ![c] = b]
    OBVIOUS
  <2>3. PICK a : a = [streams[c] EXCEPT !.polls[k] = NoPoll]
    OBVIOUS
  <2>4. PICK b : b = [a EXCEPT !.last = IF streams[c].ticking /\ poll.upto > poll.since
                                        THEN poll.upto ELSE @]
    OBVIOUS
  <2>5. streams' = [[[streams EXCEPT ![c] = a]
                     EXCEPT ![c].last = IF streams[c].ticking /\ poll.upto > poll.since
                                        THEN poll.upto ELSE @]
                     EXCEPT ![c].wire = IF Attached(c) /\ poll.upto > poll.since
                                        THEN @ \o EventsOf(streams[c].wf, poll.since, poll.upto)
                                        ELSE @]
    BY <2>3, Zenon DEF PollReturns
  <2>6. streams' = [[streams EXCEPT ![c] = b]
                     EXCEPT ![c].wire = IF Attached(c) /\ poll.upto > poll.since
                                        THEN @ \o EventsOf(streams[c].wf, poll.since, poll.upto)
                                        ELSE @]
    <3>1. PICK f : f = [streams EXCEPT ![c] = a]
      OBVIOUS
    <3>2. f[c] = a
      BY <2>1, <3>1, Zenon
    <3>3. PICK g : g = [f EXCEPT ![c].last = IF streams[c].ticking /\ poll.upto > poll.since
                                             THEN poll.upto ELSE @]
      OBVIOUS
    <3>4. g = [f EXCEPT ![c] = b]
      BY <2>4, <3>2, <3>3, Zenon
    <3>5. g = [streams EXCEPT ![c] = b]
      BY <2>2, <3>1, <3>4, Zenon
    <3>6. streams' = [g EXCEPT ![c].wire = IF Attached(c) /\ poll.upto > poll.since
                                           THEN @ \o EventsOf(streams[c].wf, poll.since, poll.upto)
                                           ELSE @]
      BY <2>5, <3>1, <3>3, Zenon
    <3> QED
      BY <3>5, <3>6, Zenon
  <2>7. q = [b EXCEPT !.wire = IF Attached(c) /\ poll.upto > poll.since
                               THEN @ \o EventsOf(streams[c].wf, poll.since, poll.upto)
                               ELSE @]
    BY <2>3, <2>4, Zenon DEF Returned
  <2> QED
    BY <2>1, <2>2, <2>6, <2>7, Zenon
<1>2. UNCHANGED <<log, page, fetches, source, limits>> /\ streams[c].polls[k].pc = "read"
  BY DEF PollReturns
<1>3. Attached(c) \in BOOLEAN
  BY DEF Attached
<1>4. /\ q \in Ends(1..limits.polls)
      /\ Attached(c) => \A n, h \in Nat : Follows(streams[c], streams[c].wf, n, h)
                                        => Follows(q, streams[c].wf, n, h)
  BY <1>2, <1>3, EndIsTyped, PollHasReturned
<1> HIDE DEF q
<1>5. CASE Attached(c)
  BY <1>1, <1>2, <1>4, <1>5, EndIsTyped, OneEndMovesOn
<1>6. CASE ~Attached(c)
  BY <1>1, <1>2, <1>4, <1>6, OneEndChanges DEF Attached
<1> QED
  BY <1>5, <1>6

LEMMA ClearedIsTyped ==
  ASSUME NEW K, NEW stream \in Ends(K), NEW polls \in [K -> Polling]
  PROVE  /\ Cleared(stream) \in Ends(K)
         /\ [Cleared(stream) EXCEPT !.polls = polls] \in Ends(K)
<1>1. PICK q : q = Cleared(stream)
  OBVIOUS
<1>2. /\ q.ticking = FALSE /\ q.wf = stream.wf /\ q.last = 0 /\ q.polls = stream.polls
      /\ q.wire = <<>>
  BY <1>1 DEF Cleared, Ends
<1>3. /\ stream.wf \in Workflows /\ stream.polls \in [K -> Polling] /\ <<>> \in Seq(Ev)
      /\ 0 \in Nat /\ FALSE \in BOOLEAN
  BY DEF Ends
<1>4. q \in Ends(K)
  <2>1. /\ q.ticking \in BOOLEAN /\ q.wf \in Workflows /\ q.last \in Nat
        /\ q.polls \in [K -> Polling] /\ q.wire \in Seq(Ev)
    BY <1>2, <1>3, Zenon
  <2>2. q = [ticking |-> q.ticking, wf |-> q.wf, last |-> q.last, polls |-> q.polls,
             wire |-> q.wire]
    BY <1>1 DEF Cleared, Ends
  <2> QED
    BY <2>1, <2>2, Zenon DEF Ends
<1>5. [q EXCEPT !.polls = polls] \in Ends(K)
  BY <1>4 DEF Ends
<1> QED
  BY <1>1, <1>4, <1>5

LEMMA HandleCloseSound ==
  ASSUME IInv, NEW c \in DOMAIN streams, HandleClose(c)
  PROVE  IInv'
<1>1. /\ streams' = [streams EXCEPT ![c] = Cleared(streams[c])] /\ ~Attached(c)
      /\ UNCHANGED <<log, page, fetches, source, limits>>
  BY Zenon DEF HandleClose
<1>2. streams[c] \in Ends(1..limits.polls) /\ streams[c].polls \in [1..limits.polls -> Polling]
  BY EndIsTyped DEF Ends
<1>3. Cleared(streams[c]) \in Ends(1..limits.polls)
  BY <1>2, ClearedIsTyped
<1> QED
  BY <1>1, <1>3, OneEndChanges DEF Attached

LEMMA AppendEventSound ==
  ASSUME IInv, NEW v \in Workflows, AppendEvent(v)
  PROVE  IInv'
<1>1. /\ log' \in [Workflows -> Nat] /\ \A w \in Workflows : log[w] <= log'[w]
      /\ UNCHANGED <<page, fetches, source, streams, limits>>
  BY DEF AppendEvent, IInv, Typed
<1>2. \A w \in Workflows : log[w] \in Nat /\ log'[w] \in Nat
  BY <1>1 DEF IInv, Typed
<1>3. Typed'
  BY <1>1 DEF IInv, Typed
<1>4. ASSUME NEW s \in source, s.conn # 0 PROVE Following(s)'
  <2>1. Follows(streams[s.conn], s.wf, Len(page.events), log'[s.wf])
    BY <1>1, <1>2, <1>4, OwnEnd, LongerHistory
  <2> QED
    BY <1>1, <1>4, <2>1, OwnEnd DEF Following
<1>5. SourceFollows'
  BY <1>1, <1>4 DEF IInv, SourceFollows
<1>6. FetchesAreOwn'
  <2>1. ASSUME NEW f \in fetches PROVE f.read <= log'[f.wf]
    <3>1. f.wf \in Workflows /\ f.read \in Nat /\ f.read <= log[f.wf]
      BY DEF IInv, Typed, FetchesAreOwn
    <3> QED
      BY <1>1, <1>2, <3>1
  <2> QED
    BY <1>1, <2>1 DEF IInv, FetchesAreOwn
<1>7. ShownIsPrefix'
  <2>1. ASSUME page.wf # NoWorkflow PROVE Len(page.events) <= log'[page.wf]
    <3>1. page.wf \in Workflows /\ Len(page.events) \in Nat /\ Len(page.events) <= log[page.wf]
      BY <2>1 DEF IInv, Typed, ShownIsPrefix
    <3> QED
      BY <1>1, <1>2, <3>1
  <2> QED
    BY <1>1, <2>1 DEF IInv, ShownIsPrefix
<1> QED
  BY <1>3, <1>5, <1>6, <1>7 DEF IInv

\* No connection: what the page shows is all there is to keep.
LEMMA WithoutConnection ==
  ASSUME IInv, UNCHANGED <<log, page, limits>>,
         fetches' \subseteq [wf : Workflows, mount : Nat, read : Nat,
                             pc : {"asked", "read", "error", "lost"}],
         streams' \in Seq(Ends(1..limits.polls)),
         FetchesAreOwn',
         \A s \in source' : s.conn = 0 /\ \E t \in source : s = [t EXCEPT !.conn = 0]
  PROVE  IInv'
<1>1. \A s \in source' : \E t \in source :
        /\ s = [wf |-> t.wf, mount |-> t.mount, since |-> t.since, conn |-> 0]
        /\ t.wf \in Workflows /\ t.mount \in Nat /\ t.since \in Nat
        /\ t.wf = page.wf /\ t.since <= Len(page.events)
  BY DEF IInv, Typed, SourceFollows
<1>2. Typed'
  BY <1>1 DEF IInv, Typed
<1>3. SourceFollows'
  BY <1>1 DEF IInv, SourceFollows
<1>4. ShownIsPrefix'
  BY DEF IInv, ShownIsPrefix
<1> QED
  BY <1>2, <1>3, <1>4 DEF IInv

LEMMA ProcessEndsSound ==
  ASSUME IInv, ProcessEnds
  PROVE  IInv'
<1>1. UNCHANGED <<log, page, limits>>
  BY DEF ProcessEnds
<1>2. \A f \in fetches' : \E g \in fetches :
        /\ f.wf = g.wf /\ f.mount = g.mount /\ f.read = g.read
        /\ f \in [wf : Workflows, mount : Nat, read : Nat,
                  pc : {"asked", "read", "error", "lost"}]
  <2>1. fetches \subseteq [wf : Workflows, mount : Nat, read : Nat,
                           pc : {"asked", "read", "error", "lost"}]
    BY DEF IInv, Typed
  <2>2. fetches' = {IF f.pc = "asked" THEN [f EXCEPT !.pc = "lost"] ELSE f : f \in fetches}
    BY DEF ProcessEnds
  <2> QED
    BY <2>1, <2>2
<1>3. FetchesAreOwn'
  BY <1>1, <1>2 DEF IInv, FetchesAreOwn
<1>4. streams' \in Seq(Ends(1..limits.polls))
  <2> DEFINE K == 1..limits.polls
             gone(c) == [Cleared(streams[c]) EXCEPT !.polls = [k \in DOMAIN @ |-> NoPoll]]
  <2>1. ASSUME NEW c \in DOMAIN streams PROVE gone(c) \in Ends(K)
    <3>1. streams[c] \in Ends(K)
      BY EndIsTyped
    <3>2. PICK q : q = Cleared(streams[c])
      OBVIOUS
    <3>3. [k \in K |-> NoPoll] \in [K -> Polling]
      BY DEF NoPoll, Polling
    <3>4. q \in Ends(K) /\ [q EXCEPT !.polls = [k \in K |-> NoPoll]] \in Ends(K)
      BY <3>1, <3>2, <3>3, ClearedIsTyped
    <3>5. DOMAIN q.polls = K
      BY <3>4 DEF Ends
    <3>6. gone(c) = [q EXCEPT !.polls = [k \in K |-> NoPoll]]
      BY <3>2, <3>5, Zenon
    <3> QED
      BY <3>4, <3>6
  <2>2. streams' = [c \in DOMAIN streams |-> gone(c)]
    BY DEF ProcessEnds
  <2>3. PICK n \in Nat : DOMAIN streams = 1..n
    BY DEF IInv, Typed
  <2> HIDE DEF gone, K
  <2>4. streams' \in Seq(Ends(K))
    BY <2>1, <2>2, <2>3
  <2> QED
    BY <2>4 DEF K
<1>5. \A s \in source' : s.conn = 0 /\ \E t \in source : s = [t EXCEPT !.conn = 0]
  BY DEF ProcessEnds, IInv, Typed
<1> QED
  BY <1>1, <1>2, <1>3, <1>4, <1>5, WithoutConnection

LEMMA MountSound ==
  ASSUME IInv, NEW v \in Workflows, Mount(v)
  PROVE  IInv'
<1>1. /\ page.wf = NoWorkflow
      /\ page' = [wf |-> v, mount |-> page.mount + 1, events |-> <<>>, state |-> "fine"]
      /\ UNCHANGED <<log, source, streams, limits>>
  BY DEF Mount
<1>2. source = {}
  BY <1>1, StreamAssumption DEF IInv, Typed, SourceFollows
<1>3. /\ page' \in [wf : Workflows \cup {NoWorkflow}, mount : Nat, events : Seq(Ev),
                   state : {"fine", "unfetched", "broken", "refused"}]
      /\ page.mount \in Nat /\ page'.mount = page.mount + 1 /\ page'.wf = v
      /\ page'.events = <<>> /\ Len(page'.events) = 0
  BY <1>1 DEF IInv, Typed
<1>4. \A f \in fetches' : \/ f \in fetches
                        \/ /\ f.wf = v /\ f.mount = page.mount + 1 /\ f.read = 0
                           /\ f \in [wf : Workflows, mount : Nat, read : Nat,
                                     pc : {"asked", "read", "error", "lost"}]
  BY <1>3 DEF Mount
<1>5. Typed'
  BY <1>1, <1>3, <1>4 DEF IInv, Typed
<1>6. SourceFollows'
  BY <1>1, <1>2 DEF SourceFollows
<1>7. FetchesAreOwn'
  <2>1. ASSUME NEW f \in fetches'
        PROVE  /\ f.mount <= page'.mount /\ f.read <= log'[f.wf]
               /\ f.mount = page'.mount /\ page'.wf # NoWorkflow => f.wf = page'.wf
    <3>1. CASE f \in fetches
      <4>1. f.mount \in Nat /\ f.mount <= page.mount /\ f.read <= log[f.wf]
        BY <3>1 DEF IInv, Typed, FetchesAreOwn
      <4> QED
        BY <1>1, <1>3, <4>1
    <3>2. CASE f.wf = v /\ f.mount = page.mount + 1 /\ f.read = 0
      <4>1. log[v] \in Nat
        BY DEF IInv, Typed
      <4> QED
        BY <1>1, <1>3, <3>2, <4>1
    <3> QED
      BY <1>4, <3>1, <3>2
  <2> QED
    BY <2>1 DEF FetchesAreOwn
<1>8. ShownIsPrefix'
  <2>1. EventsOf(v, 0, 0) = <<>>
    BY DEF EventsOf
  <2>2. log'[v] \in Nat
    BY <1>1 DEF IInv, Typed
  <2> QED
    BY <1>3, <2>1, <2>2 DEF ShownIsPrefix
<1> QED
  BY <1>5, <1>6, <1>7, <1>8 DEF IInv

LEMMA UnmountSound ==
  ASSUME IInv, Unmount
  PROVE  IInv'
<1>1. /\ page' = [page EXCEPT !.wf = NoWorkflow, !.events = <<>>, !.state = "fine"]
      /\ source' = {} /\ UNCHANGED <<log, fetches, streams, limits>>
  BY DEF Unmount
<1>2. /\ page' \in [wf : Workflows \cup {NoWorkflow}, mount : Nat, events : Seq(Ev),
                   state : {"fine", "unfetched", "broken", "refused"}]
      /\ page'.mount = page.mount /\ page'.wf = NoWorkflow
      /\ page'.events = <<>> /\ Len(page'.events) = 0
  <2>1. PICK p \in [wf : Workflows \cup {NoWorkflow}, mount : Nat, events : Seq(Ev),
                    state : {"fine", "unfetched", "broken", "refused"}] : p = page
    BY DEF IInv, Typed
  <2>2. page' = [wf |-> NoWorkflow, mount |-> p.mount, events |-> <<>>, state |-> "fine"]
    BY <1>1, <2>1
  <2> QED
    BY <2>1, <2>2
<1>3. Typed'
  BY <1>1, <1>2 DEF IInv, Typed
<1>4. SourceFollows'
  BY <1>1 DEF SourceFollows
<1>5. FetchesAreOwn'
  BY <1>1, <1>2 DEF IInv, FetchesAreOwn
<1>6. ShownIsPrefix'
  <2>1. EventsOf(NoWorkflow, 0, 0) = <<>>
    BY DEF EventsOf
  <2> QED
    BY <1>2, <2>1 DEF ShownIsPrefix
<1> QED
  BY <1>3, <1>4, <1>5, <1>6 DEF IInv

\* Requests come and go, or are answered; the page may note that one failed.
LEMMA OnlyRequests ==
  ASSUME IInv, UNCHANGED <<log, source, streams, limits>>,
         \/ UNCHANGED page
         \/ \E x \in {"unfetched", "broken"} : page' = [page EXCEPT !.state = x],
         \A f \in fetches' :
           \/ f \in fetches
           \/ \E g \in fetches : /\ f.wf = g.wf /\ f.mount = g.mount /\ f.read <= log[f.wf]
                               /\ f \in [wf : Workflows, mount : Nat, read : Nat,
                                         pc : {"asked", "read", "error", "lost"}]
  PROVE  IInv'
<1>1. /\ page' \in [wf : Workflows \cup {NoWorkflow}, mount : Nat, events : Seq(Ev),
                   state : {"fine", "unfetched", "broken", "refused"}]
      /\ page'.wf = page.wf /\ page'.mount = page.mount /\ page'.events = page.events
  BY DEF IInv, Typed
<1>2. Typed'
  BY <1>1 DEF IInv, Typed
<1>3. FetchesAreOwn'
  BY <1>1 DEF IInv, FetchesAreOwn
<1>4. SourceFollows'
  BY <1>1 DEF IInv, SourceFollows, Following
<1>5. ShownIsPrefix'
  BY <1>1 DEF IInv, ShownIsPrefix
<1> QED
  BY <1>2, <1>3, <1>4, <1>5 DEF IInv

LEMMA AnswerFetchSound ==
  ASSUME IInv, NEW f \in fetches, AnswerFetch(f)
  PROVE  IInv'
<1>1. f \in [wf : Workflows, mount : Nat, read : Nat, pc : {"asked", "read", "error", "lost"}]
      /\ log[f.wf] \in Nat /\ f.read <= log[f.wf]
  BY DEF IInv, Typed, FetchesAreOwn
<1>2. UNCHANGED <<log, page, source, streams, limits>>
  BY DEF AnswerFetch
<1>3. ASSUME NEW g \in fetches', g \notin fetches
      PROVE  /\ g.wf = f.wf /\ g.mount = f.mount /\ g.read <= log[g.wf]
             /\ g \in [wf : Workflows, mount : Nat, read : Nat,
                       pc : {"asked", "read", "error", "lost"}]
  <2>1. \/ g = [f EXCEPT !.pc = "read", !.read = log[f.wf]]
        \/ g = [f EXCEPT !.pc = "error"]
    BY <1>3 DEF AnswerFetch
  <2>2. CASE g = [f EXCEPT !.pc = "read", !.read = log[f.wf]]
    <3>1. g = [wf |-> f.wf, mount |-> f.mount, read |-> log[f.wf], pc |-> "read"]
      BY <1>1, <2>2
    <3> QED
      BY <1>1, <3>1
  <2>3. CASE g = [f EXCEPT !.pc = "error"]
    BY <1>1, <2>3
  <2> QED
    BY <2>1, <2>2, <2>3
<1> QED
  BY <1>2, <1>3, OnlyRequests

LEMMA FetchFailsSound ==
  ASSUME IInv, NEW f \in fetches, FetchFails(f)
  PROVE  IInv'
<1>1. /\ fetches' \subseteq fetches /\ UNCHANGED <<log, source, streams, limits>>
      /\ UNCHANGED page \/ \E x \in {"unfetched", "broken"} : page' = [page EXCEPT !.state = x]
  BY DEF FetchFails
<1> QED
  BY <1>1, OnlyRequests

LEMMA FetchReturnsSound ==
  ASSUME IInv, NEW f \in fetches, FetchReturns(f)
  PROVE  IInv'
<1>1. CASE Cancelled(f)
  <2>1. fetches' \subseteq fetches /\ UNCHANGED <<log, page, source, streams, limits>>
    BY <1>1 DEF FetchReturns
  <2> QED
    BY <2>1, OnlyRequests
<1>2. CASE ~Cancelled(f)
  <2>1. /\ fetches' \subseteq fetches /\ UNCHANGED <<log, streams, limits>>
        /\ page' = [page EXCEPT !.events = EventsOf(f.wf, 0, f.read)]
        /\ source' = {[wf |-> f.wf, mount |-> f.mount, since |-> f.read, conn |-> 0]}
    BY <1>2 DEF FetchReturns
  <2>2. /\ f.wf \in Workflows /\ f.read \in Nat /\ f.mount \in Nat /\ f.read <= log[f.wf]
        /\ f.wf = page.wf /\ page.wf # NoWorkflow
    BY <1>2 DEF IInv, Typed, FetchesAreOwn, Cancelled
  <2>3. /\ EventsOf(f.wf, 0, f.read) \in Seq(Ev) /\ Len(EventsOf(f.wf, 0, f.read)) = f.read
    BY <2>2, PrefixInOrder
  <2>4. /\ page' \in [wf : Workflows \cup {NoWorkflow}, mount : Nat, events : Seq(Ev),
                     state : {"fine", "unfetched", "broken", "refused"}]
        /\ page'.wf = page.wf /\ page'.mount = page.mount
        /\ page'.events = EventsOf(f.wf, 0, f.read)
    <3>1. PICK e \in Seq(Ev) : e = EventsOf(f.wf, 0, f.read)
      BY <2>3
    <3>2. page' = [page EXCEPT !.events = e]
      BY <2>1, <3>1
    <3> QED
      BY <3>1, <3>2 DEF IInv, Typed
  <2>5. Typed'
    BY <2>1, <2>2, <2>4 DEF IInv, Typed
  <2>6. SourceFollows'
    BY <2>1, <2>2, <2>3, <2>4 DEF SourceFollows
  <2>7. FetchesAreOwn'
    BY <2>1, <2>4 DEF IInv, FetchesAreOwn
  <2>8. ShownIsPrefix'
    BY <2>1, <2>2, <2>3, <2>4 DEF ShownIsPrefix
  <2> QED
    BY <2>5, <2>6, <2>7, <2>8 DEF IInv
<1> QED
  BY <1>1, <1>2

\* A page whose stream was refused shows what it has.
LEMMA RefusedSound ==
  ASSUME IInv, Refused, UNCHANGED <<log, fetches, limits>>,
         streams' \in Seq(Ends(1..limits.polls))
  PROVE  IInv'
<1>1. source' = {} /\ page' = [page EXCEPT !.state = "refused"]
  BY DEF Refused
<1>2. /\ page' \in [wf : Workflows \cup {NoWorkflow}, mount : Nat, events : Seq(Ev),
                   state : {"fine", "unfetched", "broken", "refused"}]
      /\ page'.wf = page.wf /\ page'.mount = page.mount /\ page'.events = page.events
  BY <1>1 DEF IInv, Typed
<1>3. Typed'
  BY <1>1, <1>2 DEF IInv, Typed
<1>4. SourceFollows'
  BY <1>1 DEF SourceFollows
<1>5. FetchesAreOwn' /\ ShownIsPrefix'
  BY <1>2 DEF IInv, FetchesAreOwn, ShownIsPrefix
<1> QED
  BY <1>3, <1>4, <1>5 DEF IInv

LEMMA RefuseSound ==
  ASSUME IInv, NEW s \in source, Refuse(s)
  PROVE  IInv'
<1>1. Refused /\ UNCHANGED <<log, fetches, streams, limits>>
  BY DEF Refuse
<1>2. streams' \in Seq(Ends(1..limits.polls))
  BY <1>1 DEF IInv, Typed
<1> QED
  BY <1>1, <1>2, RefusedSound

LEMMA ConnectSound ==
  ASSUME IInv, NEW s \in source, Connect(s)
  PROVE  IInv'
<1> DEFINE K == 1..limits.polls
           end == [ticking |-> TRUE, wf |-> s.wf, last |-> s.since,
                   polls |-> [k \in K |-> NoPoll], wire |-> <<>>]
<1>1. /\ streams' = Append(streams, end)
      /\ \/ source' = {[s EXCEPT !.conn = Len(streams')]} /\ UNCHANGED page
         \/ Refused
      /\ UNCHANGED <<log, fetches, limits>>
  BY DEF Connect, OpenedStream
<1>2. /\ s.wf \in Workflows /\ s.since \in Nat /\ s.mount \in Nat
      /\ s.wf = page.wf /\ s.since <= Len(page.events) /\ Len(page.events) \in Nat
  BY DEF IInv, Typed, SourceFollows
<1>3. end \in Ends(K)
  BY <1>2 DEF Ends, NoPoll, Polling
<1>4. Follows(end, s.wf, Len(page.events), log[s.wf])
  BY <1>2 DEF Follows, NoGap, Known, NoPoll
<1> HIDE DEF end
<1>5. /\ streams' \in Seq(Ends(K)) /\ Len(streams') = Len(streams) + 1
      /\ Len(streams') \in DOMAIN streams' /\ streams'[Len(streams')] = end
      /\ Len(streams') \in Nat
  BY <1>1, <1>3 DEF IInv, Typed
<1>6. CASE Refused
  BY <1>1, <1>5, <1>6, RefusedSound
<1>7. CASE source' = {[s EXCEPT !.conn = Len(streams')]} /\ UNCHANGED page
  <2>1. PICK c \in Nat : c = Len(streams')
    BY <1>5
  <2>2. source' = {[wf |-> s.wf, mount |-> s.mount, since |-> s.since, conn |-> c]}
    <3>1. s \in [wf : Workflows, mount : Nat, since : Nat, conn : Nat]
      BY DEF IInv, Typed
    <3>2. [s EXCEPT !.conn = c] =
            [wf |-> s.wf, mount |-> s.mount, since |-> s.since, conn |-> c]
      BY <3>1
    <3> QED
      BY <1>7, <2>1, <3>2, Zenon
  <2>3. Typed'
    BY <1>1, <1>2, <1>5, <1>7, <2>2 DEF IInv, Typed
  <2>4. SourceFollows'
    <3>1. ASSUME NEW t \in source'
          PROVE  /\ t.wf = page.wf /\ t.since <= Len(page.events) /\ t.conn = c /\ t.wf = s.wf
      BY <1>2, <2>2
    <3>2. c \in DOMAIN streams' /\ streams'[c] = end
      BY <1>5, <2>1
    <3>3. ASSUME NEW t \in source' PROVE Following(t)'
      BY <1>1, <1>4, <1>7, <3>1, <3>2 DEF Following
    <3> QED
      BY <1>7, <2>2, <3>1, <3>3 DEF SourceFollows
  <2>5. FetchesAreOwn' /\ ShownIsPrefix'
    BY <1>1, <1>7 DEF IInv, FetchesAreOwn, ShownIsPrefix
  <2> QED
    BY <2>3, <2>4, <2>5 DEF IInv
<1> QED
  BY <1>1, <1>6, <1>7

LEMMA DropSound ==
  ASSUME IInv, NEW s \in source, Drop(s)
  PROVE  IInv'
<1>1. /\ s.conn # 0 /\ source' = {[s EXCEPT !.conn = 0]}
      /\ streams' = [streams EXCEPT ![s.conn].wire = <<>>]
      /\ UNCHANGED <<log, page, fetches, limits>>
  BY DEF Drop
<1>2. s.conn \in DOMAIN streams /\ streams[s.conn] \in Ends(1..limits.polls)
  BY <1>1, OwnEnd
<1>3. PICK q : q = [streams[s.conn] EXCEPT !.wire = <<>>]
  OBVIOUS
<1>4. q \in Ends(1..limits.polls)
  <2>1. ASSUME NEW stream \in Ends(1..limits.polls), NEW wire \in Seq(Ev)
        PROVE  [stream EXCEPT !.wire = wire] \in Ends(1..limits.polls)
    BY DEF Ends
  <2>2. <<>> \in Seq(Ev)
    OBVIOUS
  <2> QED
    BY <1>2, <1>3, <2>1, <2>2
<1>5. streams' = [streams EXCEPT ![s.conn] = q]
  BY <1>1, <1>3, Zenon
<1>6. streams' \in Seq(Ends(1..limits.polls))
  BY <1>2, <1>4, <1>5 DEF IInv, Typed
<1>7. \A t \in source' : t.conn = 0 /\ \E r \in source : t = [r EXCEPT !.conn = 0]
  BY <1>1 DEF IInv, Typed
<1>8. FetchesAreOwn'
  BY <1>1 DEF IInv, FetchesAreOwn
<1>9. fetches' \subseteq [wf : Workflows, mount : Nat, read : Nat,
                         pc : {"asked", "read", "error", "lost"}]
  BY <1>1 DEF IInv, Typed
<1> QED
  BY <1>1, <1>6, <1>7, <1>8, <1>9, WithoutConnection

LEMMA ReceiveSound ==
  ASSUME IInv, NEW s \in source, Receive(s)
  PROVE  IInv'
<1> DEFINE K == 1..limits.polls
           n == Len(page.events)
           h == log[s.wf]
           stream == streams[s.conn]
           e == Head(stream.wire)
           m == IF e.seq <= n THEN n ELSE e.seq
           q == Taking(stream)
<1>1. /\ s.conn # 0 /\ stream.wire # <<>>
      /\ page' = [page EXCEPT !.events = AddEvent(page.events, e)]
      /\ streams' = [streams EXCEPT ![s.conn] = q]
      /\ UNCHANGED <<log, fetches, source, limits>>
  BY Zenon DEF Receive, Taking
<1>2. /\ s.conn \in DOMAIN streams /\ stream \in Ends(K) /\ stream.wf = s.wf
      /\ s.wf \in Workflows /\ h \in Nat /\ page.wf = s.wf /\ n \in Nat
      /\ Follows(stream, s.wf, n, h)
  BY <1>1, OwnEnd
<1>3. e \in Ev /\ e.wf = s.wf /\ e.seq \in 1..(n + 1) /\ e.seq <= h
  BY <1>1, <1>2, FirstIsNext
<1>4. /\ q \in Ends(K) /\ m \in Nat /\ n <= m /\ (n <= h => m <= h)
      /\ Follows(q, s.wf, m, h)
  <2>1. e.seq \in Nat
    BY <1>2, <1>3
  <2>2. m \in Nat /\ n <= m /\ (n <= h => m <= h) /\ e.seq <= m
    BY <1>2, <1>3, <2>1
  <2> HIDE DEF m
  <2> QED
    BY <1>1, <1>2, <2>2, FirstIsTaken
<1>5. page.events = EventsOf(s.wf, 0, n) /\ n <= h
  BY <1>2, StreamAssumption DEF IInv, ShownIsPrefix
<1>6. AddEvent(page.events, e) = EventsOf(s.wf, 0, m)
  BY <1>2, <1>3, <1>5, AddsNext
<1> HIDE DEF m, q, n, h
<1>7. /\ EventsOf(s.wf, 0, m) \in Seq(Ev) /\ Len(EventsOf(s.wf, 0, m)) = m
  BY <1>2, <1>4, PrefixInOrder
<1>8. /\ page' \in [wf : Workflows \cup {NoWorkflow}, mount : Nat, events : Seq(Ev),
                   state : {"fine", "unfetched", "broken", "refused"}]
      /\ page'.wf = s.wf /\ page'.mount = page.mount
      /\ page'.events = EventsOf(s.wf, 0, m) /\ Len(page'.events) = m
  <2>1. PICK es \in Seq(Ev) : es = EventsOf(s.wf, 0, m)
    BY <1>7
  <2>2. page' = [page EXCEPT !.events = es]
    BY <1>1, <1>6, <2>1
  <2> QED
    BY <1>2, <1>7, <2>1, <2>2 DEF IInv, Typed
<1>9. streams' \in Seq(Ends(K)) /\ DOMAIN streams' = DOMAIN streams /\ streams'[s.conn] = q
  BY <1>1, <1>2, <1>4 DEF IInv, Typed
<1>10. Typed'
  BY <1>1, <1>8, <1>9 DEF IInv, Typed
<1>11. SourceFollows'
  <2>1. Following(s)'
    BY <1>1, <1>2, <1>4, <1>8, <1>9 DEF Following, h
  <2>2. s.since <= m
    <3>1. s.since \in Nat /\ s.since <= n
      BY DEF IInv, Typed, SourceFollows, n
    <3> QED
      BY <1>2, <1>4, <3>1
  <2>3. \A t \in source : t = s
    BY DEF IInv, SourceFollows
  <2> QED
    BY <1>1, <1>8, <2>1, <2>2, <2>3, Zenon DEF SourceFollows
<1>12. FetchesAreOwn'
  BY <1>1, <1>2, <1>8 DEF IInv, FetchesAreOwn
<1>13. ShownIsPrefix'
  BY <1>1, <1>4, <1>5, <1>8 DEF ShownIsPrefix, h
<1> QED
  BY <1>10, <1>11, <1>12, <1>13 DEF IInv

LEMMA StutterSound ==
  ASSUME IInv, UNCHANGED <<log, page, fetches, source, streams, limits>>
  PROVE  IInv'
BY DEF IInv, Typed, SourceFollows, Following, FetchesAreOwn, ShownIsPrefix

LEMMA StepSound == IInv /\ [Next]_vars => IInv'
<1> SUFFICES ASSUME IInv, [Next]_vars PROVE IInv'
  OBVIOUS
<1>1. ASSUME NEW w \in Workflows, AppendEvent(w) PROVE IInv'
  BY <1>1, AppendEventSound
<1>2. ASSUME NEW w \in Workflows, Mount(w) PROVE IInv'
  BY <1>2, MountSound
<1>3. CASE Unmount
  BY <1>3, UnmountSound
<1>4. ASSUME NEW f \in fetches, AnswerFetch(f) \/ FetchReturns(f) \/ FetchFails(f) PROVE IInv'
  BY <1>4, AnswerFetchSound, FetchReturnsSound, FetchFailsSound
<1>5. ASSUME NEW s \in source, Connect(s) \/ Refuse(s) \/ Receive(s) \/ Drop(s) PROVE IInv'
  BY <1>5, ConnectSound, RefuseSound, ReceiveSound, DropSound
<1>6. ASSUME NEW c \in DOMAIN streams, HandleClose(c) PROVE IInv'
  BY <1>6, HandleCloseSound
<1>7. ASSUME NEW c \in DOMAIN streams, NEW k \in 1..limits.polls,
             Tick(c, k) \/ PollReads(c, k) \/ PollReturns(c, k)
      PROVE  IInv'
  BY <1>7, TickSound, PollReadsSound, PollReturnsSound
<1>8. ASSUME NEW c \in DOMAIN streams, NEW k \in 1..limits.polls, PollRejects(c, k) PROVE IInv'
  BY <1>8, ProcessEndsSound DEF PollRejects
<1>9. CASE Exit
  BY <1>9, ProcessEndsSound DEF Exit
<1>10. CASE Terminate \/ Restart \/ UNCHANGED vars
  BY <1>10, StutterSound DEF Terminate, Restart, vars
<1> QED
  BY <1>1, <1>2, <1>3, <1>4, <1>5, <1>6, <1>7, <1>8, <1>9, <1>10 DEF Next

-----------------------------------------------------------------------------
(***************************************************************************)
(* The theorem.                                                            *)
(***************************************************************************)

\* The page never shows an event twice, out of order or of another workflow, and never
\* leaves one out, however polls overlap and connections break.
THEOREM PageShowsPrefix == Spec => []ShownIsPrefix
<1>1. IInv => ShownIsPrefix
  BY DEF IInv
<1> QED
  BY <1>1, InitSound, StepSound, PTL DEF Spec
=============================================================================
