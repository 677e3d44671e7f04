---------------------------- MODULE EventStream ----------------------------
(***************************************************************************)
(* The debugger's live view of a workflow: the page (useWorkflowEvents.ts) *)
(* fetches the history once and then follows a stream of events            *)
(* (EventSource, api/server.ts), whose server side polls the event store   *)
(* by an interval timer.  Polls overlap, since the timer does not wait for *)
(* them; connections break; a query that fails ends the API process, since *)
(* nothing handles the rejection; the user goes from page to page.  The    *)
(* stream's head lacks what a browser asks of a server on another origin.  *)
(*                                                                         *)
(* What appends to the histories is Engine's business: here they grow, and *)
(* event n has seq n.                                                      *)
(*                                                                         *)
(* A definition marked "Mutant" is a plausible bug in the one after it,    *)
(* used by no behaviour.                                                   *)
(***************************************************************************)
EXTENDS Naturals, Sequences, FiniteSets, SequencesExt

CONSTANTS
  Workflows,
  NoWorkflow,  \* the list of workflows is shown
  Limits       \* bounds of a run: events of all histories, how often a workflow is opened
               \* (mounts), polls of one stream that overlap, and failed queries, broken
               \* connections and shutdowns (faults); and whether the page comes from the
               \* API's origin

ASSUME StreamAssumption ==
  /\ NoWorkflow \notin Workflows
  /\ Limits \subseteq [origin : {"same", "cross"},
                       events : Nat, mounts : Nat, polls : Nat, faults : Nat]

VARIABLES
  log,      \* how many events each workflow's history has
  page,     \* what the browser shows
  fetches,  \* requests for a whole history
  source,   \* the page's EventSource
  streams,  \* the server's ends of the connections that there were
  server,   \* the API process: up, closing (told to stop), down
  limits,   \* one of Limits
  faults    \* how many there were

vars == <<log, page, fetches, source, streams, server, limits, faults>>

\* Every mount opens one connection, and so does the browser after a fault.
Connection == 1..(limits.mounts + limits.faults)

Event == [wf : Workflows, seq : 1..limits.events]
EventsOf(w, from, to) == [n \in 1..(to - from) |-> [wf |-> w, seq |-> from + n]]

\* `mount` counts the mounts.  A failed fetch is not repeated; an error response breaks
\* the page, which renders `undefined`; a stream that is refused is not asked for again.
Page ==
  [wf : Workflows \cup {NoWorkflow}, mount : 0..limits.mounts, events : Seq(Event),
   state : {"fine", "unfetched", "broken", "refused"}]

\* `read` is how many events were read, once that was done.
Fetch ==
  [wf : Workflows, mount : 1..limits.mounts, read : 0..limits.events,
   pc : {"asked", "read", "error", "lost"}]

\* `conn` is 0 while the browser connects, or waits to.
Source ==
  [wf : Workflows, mount : 1..limits.mounts, since : 0..limits.events,
   conn : Connection \cup {0}]

Poll == [pc : {"idle", "asked", "read"}, since : 0..limits.events, upto : 0..limits.events]
NoPoll == [pc |-> "idle", since |-> 0, upto |-> 0]

Stream ==
  [ticking : BOOLEAN, wf : Workflows, last : 0..limits.events,
   polls : [1..limits.polls -> Poll], wire : Seq(Event)]

TypeOK ==
  /\ log \in [Workflows -> 0..limits.events]
  /\ page \in Page
  /\ fetches \subseteq Fetch
  /\ source \subseteq Source /\ Cardinality(source) <= 1
  /\ streams \in Seq(Stream) /\ Len(streams) \in Connection \cup {0}
  /\ server \in {"up", "closing", "down"}
  /\ limits \in Limits /\ faults \in 0..limits.faults

Init ==
  /\ log = [w \in Workflows |-> 0]
  /\ page = [wf |-> NoWorkflow, mount |-> 0, events |-> <<>>, state |-> "fine"]
  /\ fetches = {}
  /\ source = {}
  /\ streams = <<>>
  /\ server = "up"
  /\ limits \in Limits /\ faults = 0

Fault == faults < limits.faults /\ faults' = faults + 1

\* appendEvents: a history's events become visible in the order of their seqs, because
\* appends to a workflow are serial.
AppendEvent(w) ==
  /\ MapThenSumSet(LAMBDA v : log[v], Workflows) < limits.events
  /\ log' = [log EXCEPT ![w] = @ + 1]
  /\ UNCHANGED <<page, fetches, source, streams, server, limits, faults>>

-----------------------------------------------------------------------------
(***************************************************************************)
(* The page.                                                               *)
(***************************************************************************)

\* A workflow is selected in the list: the effect runs.  A server that is not up refuses
\* the request, or answers 503.
Mount(w) ==
  /\ page.wf = NoWorkflow
  /\ page.mount < limits.mounts
  /\ page' = [wf |-> w, mount |-> page.mount + 1, events |-> <<>>, state |-> "fine"]
  /\ \E pc \in IF server = "up" THEN {"asked"} ELSE {"error", "lost"} :
       fetches' = fetches \cup {[wf |-> w, mount |-> page.mount + 1, read |-> 0, pc |-> pc]}
  /\ UNCHANGED <<log, source, streams, server, limits, faults>>

\* "Back to workflows", or a reload: the effect is cleaned up.
Unmount ==
  /\ page.wf # NoWorkflow
  /\ page' = [page EXCEPT !.wf = NoWorkflow, !.events = <<>>, !.state = "fine"]
  /\ source' = {}
  /\ UNCHANGED <<log, fetches, streams, server, limits, faults>>

Cancelled(f) == page.wf = NoWorkflow \/ page.mount # f.mount

\* The history arrives, and the stream is opened after its last event.
FetchReturns(f) ==
  /\ f.pc = "read"
  /\ fetches' = fetches \ {f}
  /\ IF Cancelled(f) THEN UNCHANGED <<page, source>>
     ELSE /\ page' = [page EXCEPT !.events = EventsOf(f.wf, 0, f.read)]
          /\ source' = {[wf |-> f.wf, mount |-> f.mount, since |-> f.read, conn |-> 0]}
  /\ UNCHANGED <<log, streams, server, limits, faults>>

\* The promise is rejected, or the response has no `events`.
FetchFails(f) ==
  /\ f.pc \in {"error", "lost"}
  /\ fetches' = fetches \ {f}
  /\ IF Cancelled(f) THEN UNCHANGED page
     ELSE page' = [page EXCEPT !.state = IF f.pc = "lost" THEN "unfetched" ELSE "broken"]
  /\ UNCHANGED <<log, source, streams, server, limits, faults>>

\* Mutant: what is there already is added again.
AddAnyway(events, e) ==
  InsertAt(events, 1 + Cardinality({n \in DOMAIN events : events[n].seq <= e.seq}), e)

\* setEvents in onEvent: unless its seq is there, the event is added and the array sorted.
AddEvent(events, e) ==
  IF \E n \in DOMAIN events : events[n].seq = e.seq THEN events
  ELSE InsertAt(events, 1 + Cardinality({n \in DOMAIN events : events[n].seq <= e.seq}), e)

Receive(s) ==
  /\ s.conn # 0 /\ streams[s.conn].wire # <<>>
  /\ page' = [page EXCEPT !.events = AddEvent(@, Head(streams[s.conn].wire))]
  /\ streams' = [streams EXCEPT ![s.conn].wire = Tail(@)]
  /\ UNCHANGED <<log, fetches, source, server, limits, faults>>

-----------------------------------------------------------------------------
(***************************************************************************)
(* The server.                                                             *)
(***************************************************************************)

\* GET /workflows/:id/events
AnswerFetch(f) ==
  /\ server # "down" /\ f.pc = "asked"
  /\ \/ fetches' = (fetches \ {f}) \cup {[f EXCEPT !.pc = "read", !.read = log[f.wf]]}
        /\ UNCHANGED faults
     \/ fetches' = (fetches \ {f}) \cup {[f EXCEPT !.pc = "error"]} /\ Fault
  /\ UNCHANGED <<log, page, source, streams, server, limits>>

\* An EventSource that gets another answer than a stream it may read is closed for good.
Refused == source' = {} /\ page' = [page EXCEPT !.state = "refused"]

OpenedStream(s) ==
  [ticking |-> TRUE, wf |-> s.wf, last |-> s.since,
   polls |-> [k \in 1..limits.polls |-> NoPoll], wire |-> <<>>]

\* Mutant: the first connection is the last.
ConnectOnce(s) ==
  /\ server = "up" /\ s.conn = 0
  /\ streams = <<>>
  /\ streams' = Append(streams, OpenedStream(s))
  /\ \/ limits.origin = "same" /\ source' = {[s EXCEPT !.conn = Len(streams')]} /\ UNCHANGED page
     \/ limits.origin = "cross" /\ Refused
  /\ UNCHANGED <<log, fetches, server, limits, faults>>

\* GET /workflows/:id/stream, asked with the same `since` at every reconnection.  The head is
\* written to the raw response, so that it lacks the headers which @fastify/cors has put on
\* the reply: the server polls, but a browser on another origin refuses what it gets.
Connect(s) ==
  /\ server = "up" /\ s.conn = 0
  /\ streams' = Append(streams, OpenedStream(s))
  /\ \/ limits.origin = "same" /\ source' = {[s EXCEPT !.conn = Len(streams')]} /\ UNCHANGED page
     \/ limits.origin = "cross" /\ Refused
  /\ UNCHANGED <<log, fetches, server, limits, faults>>

\* A server that closes answers 503 on the connections it has, and refuses others, which the
\* browser tries again.
Refuse(s) ==
  /\ server = "closing" /\ s.conn = 0
  /\ Refused
  /\ UNCHANGED <<log, fetches, streams, server, limits, faults>>

Attached(c) == \E s \in source : s.conn = c

\* The interval's callback, which starts a query.
Tick(c, k) ==
  /\ streams[c].ticking /\ streams[c].polls[k] = NoPoll
  /\ streams' = [streams EXCEPT 
       ![c].polls[k] = [pc |-> "asked", since |-> streams[c].last, upto |-> 0]]
  /\ UNCHANGED <<log, page, fetches, source, server, limits, faults>>

\* getEventsSince
PollReads(c, k) ==
  /\ streams[c].polls[k].pc = "asked"
  /\ streams' = [streams EXCEPT
       ![c].polls[k].pc = "read", ![c].polls[k].upto = log[streams[c].wf]]
  /\ UNCHANGED <<log, page, fetches, source, server, limits, faults>>

\* The rest of the callback: without an await, so that nothing comes in between.
PollReturns(c, k) ==
  LET poll == streams[c].polls[k]
  IN  /\ poll.pc = "read"
      /\ streams' = [streams EXCEPT
           ![c].polls[k] = NoPoll,
           ![c].last = IF streams[c].ticking /\ poll.upto > poll.since THEN poll.upto ELSE @,
           ![c].wire = IF Attached(c) /\ poll.upto > poll.since
                       THEN @ \o EventsOf(streams[c].wf, poll.since, poll.upto) ELSE @]
      /\ UNCHANGED <<log, page, fetches, source, server, limits, faults>>

\* What is left of a stream whose interval is cleared: nothing reads its lastSeq.
Cleared(stream) == [stream EXCEPT !.ticking = FALSE, !.last = 0, !.wire = <<>>]

\* The process is gone, and with it requests and connections.
ProcessEnds ==
  /\ server' = "down"
  /\ fetches' = {IF f.pc = "asked" THEN [f EXCEPT !.pc = "lost"] ELSE f : f \in fetches}
  /\ source' = {[s EXCEPT !.conn = 0] : s \in source}
  /\ streams' = [c \in DOMAIN streams |->
                    [Cleared(streams[c]) EXCEPT !.polls = [k \in DOMAIN @ |-> NoPoll]]]
  /\ UNCHANGED <<log, page, limits>>

\* getEventsSince rejects: nobody handles it, and Node ends the process.
PollRejects(c, k) ==
  /\ streams[c].polls[k].pc = "asked"
  /\ Fault
  /\ ProcessEnds

\* SIGTERM: app.close() refuses connections and waits for those there are.
Terminate ==
  /\ server = "up"
  /\ Fault
  /\ server' = "closing"
  /\ UNCHANGED <<log, page, fetches, source, streams, limits>>

Exit ==
  /\ server = "closing"
  /\ \A c \in DOMAIN streams : ~streams[c].ticking
  /\ \A f \in fetches : f.pc # "asked"
  /\ ProcessEnds
  /\ UNCHANGED faults

Restart ==
  /\ server = "down"
  /\ server' = "up"
  /\ UNCHANGED <<log, page, fetches, source, streams, limits, faults>>

\* A connection breaks, and the browser notices; the server does in HandleClose.
Drop(s) ==
  /\ s.conn # 0
  /\ Fault
  /\ source' = {[s EXCEPT !.conn = 0]}
  /\ streams' = [streams EXCEPT ![s.conn].wire = <<>>]
  /\ UNCHANGED <<log, page, fetches, server, limits>>

\* Mutant: the interval is not cleared while a poll is under way.
HandleCloseIdle(c) ==
  /\ streams[c].ticking /\ ~Attached(c)
  /\ streams' = [streams EXCEPT
       ![c].ticking = \E k \in 1..limits.polls : streams[c].polls[k] # NoPoll, ![c].wire = <<>>]
  /\ UNCHANGED <<log, page, fetches, source, server, limits, faults>>

\* The request's close event.  Polls under way go on, and write to nobody.
HandleClose(c) ==
  /\ streams[c].ticking /\ ~Attached(c)
  /\ streams' = [streams EXCEPT ![c] = Cleared(@)]
  /\ UNCHANGED <<log, page, fetches, source, server, limits, faults>>

-----------------------------------------------------------------------------
Next ==
  \/ \E w \in Workflows : AppendEvent(w) \/ Mount(w)
  \/ Unmount
  \/ \E f \in fetches : AnswerFetch(f) \/ FetchReturns(f) \/ FetchFails(f)
  \/ \E s \in source : Connect(s) \/ Refuse(s) \/ Receive(s) \/ Drop(s)
  \/ \E c \in DOMAIN streams :
       \/ HandleClose(c)
       \/ \E k \in 1..limits.polls :
            Tick(c, k) \/ PollReads(c, k) \/ PollReturns(c, k) \/ PollRejects(c, k)
  \/ Terminate \/ Exit \/ Restart

\* Requests are answered, the browser reconnects, intervals tick, queries return, closed
\* connections are noticed and a dead server is restarted.  Users promise nothing.
MaxConnections == Max({l.mounts + l.faults : l \in Limits})
MaxPolls == Max({l.polls : l \in Limits})
Fairness ==
  /\ WF_vars(\E f \in fetches : AnswerFetch(f) \/ FetchReturns(f) \/ FetchFails(f))
  /\ WF_vars(\E s \in source : Connect(s))
  /\ WF_vars(\E s \in source : Receive(s))
  /\ WF_vars(\E c \in DOMAIN streams : HandleClose(c))
  /\ \A c \in 1..MaxConnections, k \in 1..MaxPolls :
       WF_vars(/\ c \in DOMAIN streams /\ k \in 1..limits.polls
               /\ Tick(c, k) \/ PollReads(c, k) \/ PollReturns(c, k))
  /\ WF_vars(Exit \/ Restart)

Spec == Init /\ [][Next]_vars

FairSpec == Spec /\ Fairness

-----------------------------------------------------------------------------
(***************************************************************************)
(* Properties                                                              *)
(***************************************************************************)

\* The page shows the first events of its own workflow, in order, none missing and none
\* twice: WorkflowDetail takes an event's position for its seq (WorkflowDetail.tsx:15, 62).
\* So whatever order polls return in, and although lastSeq may go back.
ShownIsPrefix ==
  /\ page.events = EventsOf(page.wf, 0, Len(page.events))
  /\ page.wf # NoWorkflow => Len(page.events) <= log[page.wf]

\* A page that stays open shows every event sooner or later, through crashes of the
\* server and broken connections, unless its first request failed or its stream was
\* refused: time and again it is complete.
CatchesUp ==
  []<>(page.wf # NoWorkflow /\ page.state = "fine" => Len(page.events) = log[page.wf])

\* useWorkflowEvents.ts:8: "Fetches full history once, then appends live events via SSE".
AppendsLive ==
  []<>(page.wf # NoWorkflow /\ page.state \in {"fine", "refused"}
         => Len(page.events) = log[page.wf])

\* No interval goes on polling for a page that is gone or has another connection; and a
\* server that was told to stop does stop, unless a page stays open.
StreamsEnd ==
  []<>( /\ \A c \in DOMAIN streams : streams[c].ticking => Attached(c)
        /\ server = "closing" => source # {} )
=============================================================================
