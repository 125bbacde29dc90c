------------------------------ MODULE EventHub ------------------------------
(***************************************************************************)
(* Change signals, from a write to the page that shows it: Hub and sse in  *)
(* internal/transport/http, publishing (middleware.go), publishingTasks    *)
(* (cmd/boreas/main.go), and the page that listens, Directory in           *)
(* frontend/src/entities/task/model/directory.svelte.ts.                   *)
(*                                                                         *)
(* A signal says nothing about what has changed: the page fetches all it   *)
(* shows.  So no signal need arrive for each change, as long as one is     *)
(* still to come whenever a page shows less than there is.  That depends   *)
(* on both ends: on a channel with room for one signal, on the first one   *)
(* being put there before the page can have missed any, and on the page    *)
(* remembering a signal that came while it was fetching.                   *)
(*                                                                         *)
(* The data is a number that every change raises, a fetch reads it at one  *)
(* moment.  A request that fails is not a change here.  Timers of the page *)
(* (two seconds between fetches, ten before it opens again) fire at any    *)
(* time.  A stream is a request for the public stream, its connection and  *)
(* its channel; the number that can be in use is a bound, MaxChanges the   *)
(* other one.                                                              *)
(***************************************************************************)
EXTENDS Naturals, FiniteSets

CONSTANTS
  Writers,             \* requests and goroutines that change something
  Pages,               \* browser tabs
  Streams, NoStream,   \* requests for the stream, and none
  MaxPublicStreams,
  MaxChanges           \* bound: changes in a behaviour

ASSUME EventAssumption ==
  /\ NoStream \notin Streams
  /\ IsFiniteSet(Streams)
  /\ MaxPublicStreams \in Nat /\ MaxChanges \in Nat

VARIABLES
  data,      \* what the pages show, on the server
  written,   \* writers that have changed something and not yet published it
  closed,    \* Hub.Close has run: subs is nil
  subs,      \* Hub.subs
  slots,     \* used places of publicStreams
  stream,    \* the streams
  page       \* the pages

vars == <<data, written, closed, subs, slots, stream, page>>

\* at: the handler has a place; waits for a signal; writes one; is about to
\* return.  wake, shut: the channel holds a signal, is closed.  up, mail: the
\* client is connected, and has something to read.
Stream == [at : {"none", "entered", "waiting", "sending", "ending"},
           wake : BOOLEAN, shut : BOOLEAN, up : BOOLEAN, mail : BOOLEAN]

\* es: EventSource, absent, connecting, open, or given up after a refusal until
\* the page tries again.  fetch: no request, one the server has yet to answer,
\* or the data in its answer.  failed: the last fetch failed.
Fetches == [kind : {"none", "asked"}] \cup [kind : {"answer"}, data : 0..MaxChanges]
Page == [es : {"off", "connecting", "open", "refused"}, on : Streams \cup {NoStream},
         timer : BOOLEAN, fetch : Fetches, again : BOOLEAN,
         shown : 0..MaxChanges, failed : BOOLEAN]

NoFetch == [kind |-> "none"]
Asked == [kind |-> "asked"]
Fetching(p) == page[p].fetch # NoFetch

(***************************************************************************)
(* The server.                                                             *)
(***************************************************************************)
Write(w) ==
  /\ w \notin written /\ data < MaxChanges
  /\ data' = data + 1
  /\ written' = written \cup {w}
  /\ UNCHANGED <<closed, subs, slots, stream, page>>

Publish(w) ==
  /\ w \in written
  /\ written' = written \ {w}
  /\ stream' = [s \in Streams |->
       IF s \in subs THEN [stream[s] EXCEPT !.wake = TRUE] ELSE stream[s]]
  /\ UNCHANGED <<data, closed, subs, slots, page>>

\* Hub.Close, when the server shuts down.
Close ==
  /\ ~closed
  /\ closed' = TRUE
  /\ subs' = {}
  /\ stream' = [s \in Streams |->
       IF s \in subs THEN [stream[s] EXCEPT !.shut = TRUE] ELSE stream[s]]
  /\ UNCHANGED <<data, written, slots, page>>

Opened(s) ==
  page' = [p \in Pages |->
    IF page[p].on = s THEN [page[p] EXCEPT !.es = "open"] ELSE page[p]]

\* As if a new subscriber waited for the first change.
SubscribeSilently(s) ==
  /\ stream[s].at = "entered"
  /\ stream' = [stream EXCEPT ![s].at = "waiting", ![s].shut = closed]
  /\ subs' = IF closed THEN subs ELSE subs \cup {s}
  /\ Opened(s)
  /\ UNCHANGED <<data, written, closed, slots>>

\* As if a stream that comes after Close were served like any other.
SubscribeLate(s) ==
  /\ stream[s].at = "entered"
  /\ stream' = [stream EXCEPT ![s].at = "waiting", ![s].wake = TRUE]
  /\ subs' = subs \cup {s}
  /\ Opened(s)
  /\ UNCHANGED <<data, written, closed, slots>>

\* The answer begins once the channel is with the hub; EventSource opens then.
Subscribe(s) ==
  /\ stream[s].at = "entered"
  /\ stream' = [stream EXCEPT ![s].at = "waiting", ![s].wake = TRUE, ![s].shut = closed]
  /\ subs' = IF closed THEN subs ELSE subs \cup {s}
  /\ Opened(s)
  /\ UNCHANGED <<data, written, closed, slots>>

Take(s) ==
  /\ stream[s].at = "waiting" /\ stream[s].wake
  /\ stream' = [stream EXCEPT ![s].at = "sending", ![s].wake = FALSE]
  /\ UNCHANGED <<data, written, closed, subs, slots, page>>

\* The connection takes one message before the client has read it.
Send(s) ==
  /\ stream[s].at = "sending" /\ ~stream[s].mail
  /\ stream' = [stream EXCEPT ![s].mail = stream[s].up,
                              ![s].at = IF stream[s].up THEN "waiting" ELSE "ending"]
  /\ UNCHANGED <<data, written, closed, subs, slots, page>>

\* The channel is closed and empty, or the client has gone.
EndStream(s) ==
  /\ stream[s].at = "waiting"
  /\ (stream[s].shut /\ ~stream[s].wake) \/ ~stream[s].up
  /\ stream' = [stream EXCEPT ![s].at = "ending"]
  /\ UNCHANGED <<data, written, closed, subs, slots, page>>

\* As if the handler returned without unsubscribing.
LeaveSubscribed(s) ==
  /\ stream[s].at = "ending"
  /\ slots' = slots - 1
  /\ stream' = [stream EXCEPT ![s] = [stream[s] EXCEPT !.at = "none", !.wake = FALSE]]
  /\ UNCHANGED <<data, written, closed, subs, page>>

\* As if only a stream the server ended gave its place back.
LeaveWithSlot(s) ==
  /\ stream[s].at = "ending"
  /\ subs' = subs \ {s}
  /\ slots' = IF stream[s].up THEN slots - 1 ELSE slots
  /\ stream' = [stream EXCEPT ![s] = [stream[s] EXCEPT !.at = "none", !.wake = FALSE]]
  /\ UNCHANGED <<data, written, closed, page>>

\* The deferred calls: unsubscribe, and the place in publicStreams.
Leave(s) ==
  /\ stream[s].at = "ending"
  /\ subs' = subs \ {s}
  /\ slots' = slots - 1
  /\ stream' = [stream EXCEPT ![s] = [stream[s] EXCEPT !.at = "none", !.wake = FALSE]]
  /\ UNCHANGED <<data, written, closed, page>>

(***************************************************************************)
(* The page.                                                               *)
(***************************************************************************)
\* As if refresh, called while a fetch runs, relied on that fetch.
RefreshedUnlessFetching(p) ==
  [page[p] EXCEPT !.timer = page[p].timer \/ ~Fetching(p)]

Refreshed(p) ==
  [page[p] EXCEPT !.again = page[p].again \/ Fetching(p),
                  !.timer = page[p].timer \/ ~Fetching(p)]

Show(p) ==
  /\ page[p].es = "off"
  /\ page' = [page EXCEPT ![p] = [Refreshed(p) EXCEPT !.es = "connecting"]]
  /\ UNCHANGED <<data, written, closed, subs, slots, stream>>

HungUp(s) ==
  IF s = NoStream THEN stream
  ELSE [stream EXCEPT ![s] = [stream[s] EXCEPT !.up = FALSE, !.mail = FALSE]]

\* A fetch goes on, and its answer is shown when the page is shown again.
Hide(p) ==
  /\ page[p].es # "off"
  /\ stream' = HungUp(page[p].on)
  /\ page' = [page EXCEPT ![p] = [page[p] EXCEPT !.es = "off", !.on = NoStream,
                                                 !.timer = FALSE, !.again = FALSE]]
  /\ UNCHANGED <<data, written, closed, subs, slots>>

Connect(p, s) ==
  /\ page[p].es = "connecting" /\ page[p].on = NoStream /\ ~closed
  /\ slots < MaxPublicStreams
  /\ stream[s].at = "none" /\ \A q \in Pages : page[q].on # s
  /\ slots' = slots + 1
  /\ stream' = [stream EXCEPT ![s] =
       [at |-> "entered", wake |-> FALSE, shut |-> FALSE, up |-> TRUE, mail |-> FALSE]]
  /\ page' = [page EXCEPT ![p].on = s]
  /\ UNCHANGED <<data, written, closed, subs>>

\* As if a refused request gave back a place it did not get.
RefuseReleasing(p) ==
  /\ page[p].es = "connecting" /\ page[p].on = NoStream /\ ~closed
  /\ slots >= MaxPublicStreams
  /\ slots' = slots - 1
  /\ page' = [page EXCEPT ![p].es = "refused"]
  /\ UNCHANGED <<data, written, closed, subs, stream>>

\* 503: EventSource gives up, and the page opens another one after a while.
Refuse(p) ==
  /\ page[p].es = "connecting" /\ page[p].on = NoStream /\ ~closed
  /\ slots >= MaxPublicStreams
  /\ page' = [page EXCEPT ![p].es = "refused"]
  /\ UNCHANGED <<data, written, closed, subs, slots, stream>>

Reopen(p) ==
  /\ page[p].es = "refused"
  /\ page' = [page EXCEPT ![p].es = "connecting"]
  /\ UNCHANGED <<data, written, closed, subs, slots, stream>>

\* The connection breaks, or the server has ended the stream: EventSource
\* connects again by itself.
Disconnect(p) ==
  /\ page[p].on # NoStream
  /\ stream' = HungUp(page[p].on)
  /\ page' = [page EXCEPT ![p] = [page[p] EXCEPT !.es = "connecting", !.on = NoStream]]
  /\ UNCHANGED <<data, written, closed, subs, slots>>

Message(p) ==
  LET s == page[p].on
  IN /\ s # NoStream /\ stream[s].mail
     /\ stream' = [stream EXCEPT ![s].mail = FALSE]
     /\ page' = [page EXCEPT ![p] = Refreshed(p)]
     /\ UNCHANGED <<data, written, closed, subs, slots>>

Load(p) ==
  /\ page[p].timer
  /\ page' = [page EXCEPT ![p] = [page[p] EXCEPT !.timer = FALSE, !.fetch = Asked]]
  /\ UNCHANGED <<data, written, closed, subs, slots, stream>>

Answer(p) ==
  /\ page[p].fetch = Asked
  /\ page' = [page EXCEPT ![p].fetch = [kind |-> "answer", data |-> data]]
  /\ UNCHANGED <<data, written, closed, subs, slots, stream>>

\* finally: a signal that came meanwhile asks for another fetch.
Ended(p, failed, shown) ==
  page' = [page EXCEPT ![p] =
    [page[p] EXCEPT !.fetch = NoFetch, !.timer = page[p].timer \/ page[p].again,
                    !.again = FALSE, !.failed = failed, !.shown = shown]]

Loaded(p) ==
  /\ page[p].fetch.kind = "answer"
  /\ Ended(p, FALSE, page[p].fetch.data)
  /\ UNCHANGED <<data, written, closed, subs, slots, stream>>

LoadFailed(p) ==
  /\ Fetching(p)
  /\ Ended(p, TRUE, page[p].shown)
  /\ UNCHANGED <<data, written, closed, subs, slots, stream>>

(***************************************************************************)
(* The specification.                                                      *)
(***************************************************************************)
Init ==
  /\ data = 0 /\ written = {} /\ closed = FALSE /\ subs = {} /\ slots = 0
  /\ stream = [s \in Streams |->
       [at |-> "none", wake |-> FALSE, shut |-> FALSE, up |-> FALSE, mail |-> FALSE]]
  /\ page = [p \in Pages |->
       [es |-> "off", on |-> NoStream, timer |-> FALSE, fetch |-> NoFetch,
        again |-> FALSE, shown |-> 0, failed |-> FALSE]]

Handler(s) == Subscribe(s) \/ Take(s) \/ Send(s) \/ EndStream(s) \/ Leave(s)
Fetch(p) == Load(p) \/ Answer(p) \/ Loaded(p) \/ LoadFailed(p)

Next ==
  \/ \E w \in Writers : Write(w) \/ Publish(w)
  \/ Close
  \/ \E s \in Streams : Handler(s)
  \/ \E p \in Pages : Show(p) \/ Hide(p) \/ Refuse(p) \/ Reopen(p) \/ Disconnect(p) \/ Message(p)
  \/ \E p \in Pages, s \in Streams : Connect(p, s)
  \/ \E p \in Pages : Fetch(p)

Spec == Init /\ [][Next]_vars

\* Goroutines and the page's event loop run, timers fire, and a fetch ends one
\* way or the other.  Nothing makes a user show a page or a connection last.
FairSpec ==
  /\ Spec
  /\ \A w \in Writers : WF_vars(Publish(w))
  /\ \A s \in Streams : WF_vars(Handler(s))
  /\ \A p \in Pages : WF_vars(Message(p)) /\ WF_vars(Fetch(p))

-----------------------------------------------------------------------------
\* Every variable has a value the code could give it.
TypeOK ==
  /\ data \in 0..MaxChanges
  /\ written \subseteq Writers
  /\ closed \in BOOLEAN
  /\ subs \subseteq Streams
  /\ slots \in 0..MaxPublicStreams
  /\ stream \in [Streams -> Stream]
  /\ page \in [Pages -> Page]

\* The hub knows exactly the channels of handlers that are between subscribe and
\* unsubscribe, and none of them is closed: Publish never sends on a closed
\* channel, Close closes none twice, and no ended stream is kept.
HubKnowsOpenStreams ==
  \A s \in Streams :
    s \in subs <=> stream[s].at \in {"waiting", "sending", "ending"} /\ ~stream[s].shut

\* However a stream ends, its place among the public ones is given back.
Served == {s \in Streams : stream[s].at # "none"}
SlotsAreStreams == slots = Cardinality(Served)

\* What the page will show when the fetch in progress has ended.
WillShow(p) ==
  IF page[p].fetch.kind = "answer" THEN page[p].fetch.data
  ELSE IF page[p].fetch = Asked THEN data ELSE page[p].shown

SignalComing(p) ==
  \/ written # {}
  \/ page[p].timer \/ page[p].again
  \/ LET s == page[p].on
     IN stream[s].wake \/ stream[s].at = "sending" \/ stream[s].mail

Follows(p) == page[p].es = "open" /\ ~closed /\ (page[p].failed => Fetching(p))

\* A page with an open stream that shows less than there is has a signal on its
\* way, wherever between the write, the channel, the connection and the page's
\* own timer it is: none is lost to a full channel, a reconnection or a fetch
\* that had already read the data.  Only after a failed fetch the page waits for
\* the next signal.
NoLostSignal ==
  \A p \in Pages : Follows(p) /\ WillShow(p) # data => SignalComing(p)

\* The rest is what the above rest on: a page's stream is its own and connected,
\* a page with an open one is served unless the hub is closed, and only Close
\* closes a channel.
PagesHaveTheirStreams ==
  /\ \A p \in Pages :
       /\ page[p].on # NoStream => stream[page[p].on].up
       /\ page[p].es = "open" =>
            /\ page[p].on # NoStream
            /\ closed \/ stream[page[p].on].at \in {"waiting", "sending"}
  /\ \A p, q \in Pages : page[p].on # NoStream /\ page[p].on = page[q].on => p = q
OnlyCloseShuts == \A s \in Streams : stream[s].shut => closed

\* The inductive invariant: hub, handlers, connections and pages agree.
SignalInv ==
  /\ TypeOK /\ HubKnowsOpenStreams /\ SlotsAreStreams
  /\ PagesHaveTheirStreams /\ OnlyCloseShuts /\ NoLostSignal

\* A page that stays connected comes to show every change, or says that it
\* could not fetch it.
PagesCatchUp ==
  \A p \in Pages : \A n \in 1..MaxChanges :
    (data >= n /\ page[p].es = "open")
      ~> (page[p].shown >= n \/ page[p].failed \/ page[p].es # "open" \/ closed)

\* "Close ends every stream, so open tabs do not hold a graceful shutdown to its
\* timeout" (events.go:29), those included that subscribe after it.
ShutdownEndsStreams == closed ~> \A s \in Streams : stream[s].at = "none"
=============================================================================
