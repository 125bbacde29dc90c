----------------------------- MODULE MetricsHub -----------------------------
(***************************************************************************)
(* Live metrics: TaskService.Metrics and metricsHub in                     *)
(* internal/service/task_service.go.                                       *)
(*                                                                         *)
(* The hub keeps one feed per container, with one stream from Docker, the  *)
(* channels of its viewers, and a timer that ends the feed some time after *)
(* its last viewer has left.  Four kinds of goroutines meet at its mutex:  *)
(* requests that join a feed (watch), the feed's pump, the function that   *)
(* runs when a viewer's context ends (leave), and the timer's function.    *)
(* What each does under the mutex is one step; between two of its steps    *)
(* any of the others may run.  In particular a timer that has fired waits  *)
(* for the mutex and can no longer be stopped.                             *)
(*                                                                         *)
(* Feeds are the objects that may exist at a time and are used again once  *)
(* nothing refers to them, a viewer is one call of Metrics that may be     *)
(* followed by another.  Of the samples only their number matters, and of  *)
(* a feed's timers which one the feed still points to.                     *)
(***************************************************************************)
EXTENDS Naturals

CONSTANTS
  Sources,          \* container ids
  Feeds, NoFeed,    \* metricsFeed objects, and the nil one
  Viewers,          \* calls of Metrics in progress
  NoSub,            \* a viewer that has no channel for a container
  History,          \* metricsHistory: the samples a feed keeps
  Room              \* the samples a channel holds: in the code, twice as many

ASSUME HubAssumption ==
  /\ NoFeed \notin Feeds
  /\ History \in Nat /\ Room \in Nat /\ History <= Room

VARIABLES
  feeds,   \* the hub's map: the feed of a container
  feed,    \* the feed objects
  view,    \* of each viewer: how far Metrics, and whoever reads from it, is
  gone,    \* the viewer's context has ended
  todo,    \* containers Metrics has not yet watched
  sub      \* the viewer's channels, each with the goroutine that forwards it

vars == <<feeds, feed, view, gone, todo, sub>>
hub == <<feeds, feed>>
viewers == <<view, gone, todo, sub>>

\* pump: waiting for a sample, holding one until it has the mutex, out of
\* samples and waiting for the mutex, or returned.  stopped: the context of the
\* Docker stream is cancelled.  idle: the timer the feed points to, if any, is
\* running or has fired and its function waits for the mutex.  late: so does the
\* function of a timer that watch has come too late to stop.
Feed == [source : Sources, subs : SUBSET Viewers, recent : 0..History,
         idle : {"nil", "armed", "fired"}, late : BOOLEAN, stopped : BOOLEAN,
         pump : {"receiving", "holding", "closing", "done"}]

\* fwd: the goroutine that forwards the channel's samples into the one Metrics
\* returned.  left: leave has run for this channel.
Sub == [feed : Feeds, queued : 0..Room, closed : BOOLEAN, left : BOOLEAN,
        fwd : {"reading", "handing", "done"}]

ASSUME NoSubAssumption == NoSub \notin Sub

HasSub(v, s) == sub[v][s] # NoSub

\* The objects that nothing refers to any more.
Unused(f) ==
  /\ feed[f].pump = "done" /\ feed[f].idle = "nil" /\ ~feed[f].late
  /\ \A v \in Viewers, s \in Sources : HasSub(v, s) => sub[v][s].feed # f

(***************************************************************************)
(* Metrics: watch the containers one after the other, forward their        *)
(* samples, close the common channel once every forwarder has returned.    *)
(***************************************************************************)
Ask(v) ==
  /\ view[v] = "idle"
  /\ \E wanted \in SUBSET Sources : todo' = [todo EXCEPT ![v] = wanted]
  /\ view' = [view EXCEPT ![v] = "opening"]
  /\ UNCHANGED <<hub, gone, sub>>

\* The viewer's new channel, filled with the feed's recent samples.
Joined(v, s, f, n) ==
  sub' = [sub EXCEPT ![v][s] =
    [feed |-> f, queued |-> n, closed |-> FALSE, left |-> FALSE, fwd |-> "reading"]]

WatchNew(v, s, f) ==
  /\ feeds[s] = NoFeed /\ Unused(f)
  /\ feeds' = [feeds EXCEPT ![s] = f]
  /\ feed' = [feed EXCEPT ![f] =
       [source |-> s, subs |-> {v}, recent |-> 0, idle |-> "nil", late |-> FALSE,
        stopped |-> FALSE, pump |-> "receiving"]]
  /\ Joined(v, s, f, 0)

\* Stop on a timer that has fired does nothing.
WatchShared(v, s, f) ==
  /\ feeds[s] = f
  /\ feed' = [feed EXCEPT ![f] = [feed[f] EXCEPT
       !.subs = @ \cup {v}, !.idle = "nil", !.late = @ \/ feed[f].idle = "fired"]]
  /\ Joined(v, s, f, feed[f].recent)
  /\ UNCHANGED feeds

\* A stream Docker refuses is left out; alone, it ends the request.
Watch(v, s) ==
  /\ view[v] = "opening" /\ s \in todo[v]
  /\ \/ \E f \in Feeds : WatchNew(v, s, f) \/ WatchShared(v, s, f)
     \/ feeds[s] = NoFeed /\ UNCHANGED <<hub, sub>>
  /\ todo' = [todo EXCEPT ![v] = @ \ {s}]
  /\ UNCHANGED <<view, gone>>

Opened(v) ==
  /\ view[v] = "opening" /\ todo[v] = {}
  /\ view' = [view EXCEPT ![v] = "open"]
  /\ UNCHANGED <<hub, gone, todo, sub>>

Forwards(v, s, label) ==
  /\ HasSub(v, s) /\ sub[v][s].fwd = label
  /\ UNCHANGED <<hub, view, gone, todo>>

Take(v, s) ==
  /\ Forwards(v, s, "reading")
  /\ sub[v][s].queued > 0
  /\ sub' = [sub EXCEPT ![v][s] = [sub[v][s] EXCEPT !.queued = @ - 1, !.fwd = "handing"]]

\* Someone reads from Metrics' channel only once Metrics has returned it.
Hand(v, s) ==
  /\ Forwards(v, s, "handing")
  /\ view[v] = "open"
  /\ sub' = [sub EXCEPT ![v][s] = [sub[v][s] EXCEPT !.fwd = "reading"]]

\* As if the forwarder only waited for its reader.
GiveUpNever(v, s) == FALSE /\ UNCHANGED vars

GiveUp(v, s) ==
  /\ Forwards(v, s, "handing")
  /\ gone[v]
  /\ sub' = [sub EXCEPT ![v][s] = [sub[v][s] EXCEPT !.fwd = "done"]]

RangeEnds(v, s) ==
  /\ Forwards(v, s, "reading")
  /\ sub[v][s].closed /\ sub[v][s].queued = 0
  /\ sub' = [sub EXCEPT ![v][s] = [sub[v][s] EXCEPT !.fwd = "done"]]

CloseOut(v) ==
  /\ view[v] = "open"
  /\ \A s \in Sources : HasSub(v, s) => sub[v][s].fwd = "done"
  /\ view' = [view EXCEPT ![v] = "closed"]
  /\ UNCHANGED <<hub, gone, todo, sub>>

\* The client hangs up or, after the last sample, the handler returns.
Cancel(v) ==
  /\ view[v] # "idle" /\ ~gone[v]
  /\ gone' = [gone EXCEPT ![v] = TRUE]
  /\ UNCHANGED <<hub, view, todo, sub>>

Forget(v) ==
  /\ view[v] = "closed" /\ gone[v]
  /\ \A s \in Sources : HasSub(v, s) => sub[v][s].left
  /\ view' = [view EXCEPT ![v] = "idle"]
  /\ gone' = [gone EXCEPT ![v] = FALSE]
  /\ sub' = [sub EXCEPT ![v] = [s \in Sources |-> NoSub]]
  /\ UNCHANGED <<hub, todo>>

(***************************************************************************)
(* The pump.                                                               *)
(***************************************************************************)
Receive(f) ==
  /\ feed[f].pump = "receiving"
  /\ feed' = [feed EXCEPT ![f].pump = "holding"]
  /\ UNCHANGED <<feeds, viewers>>

\* As if a full channel were written to all the same.
DeliverToAll(f) ==
  /\ feed[f].pump = "holding"
  /\ feed' = [feed EXCEPT ![f].pump = "receiving",
                          ![f].recent = IF @ < History THEN @ + 1 ELSE @]
  /\ sub' = [v \in Viewers |-> [s \in Sources |->
       IF v \in feed[f].subs /\ s = feed[f].source
         THEN [sub[v][s] EXCEPT !.queued = @ + 1] ELSE sub[v][s]]]
  /\ UNCHANGED <<feeds, view, gone, todo>>

Deliver(f) ==
  /\ feed[f].pump = "holding"
  /\ feed' = [feed EXCEPT ![f].pump = "receiving",
                          ![f].recent = IF @ < History THEN @ + 1 ELSE @]
  /\ sub' = [v \in Viewers |-> [s \in Sources |->
       IF v \in feed[f].subs /\ s = feed[f].source /\ sub[v][s].queued < Room
         THEN [sub[v][s] EXCEPT !.queued = @ + 1] ELSE sub[v][s]]]
  /\ UNCHANGED <<feeds, view, gone, todo>>

\* The container stops, or the stream notices that its context is cancelled.
StreamEnds(f) ==
  /\ feed[f].pump = "receiving"
  /\ feed' = [feed EXCEPT ![f].pump = "closing"]
  /\ UNCHANGED <<feeds, viewers>>

Closing(f) ==
  sub' = [v \in Viewers |-> [s \in Sources |->
    IF v \in feed[f].subs /\ s = feed[f].source
      THEN [sub[v][s] EXCEPT !.closed = TRUE] ELSE sub[v][s]]]

Unmapped(f) ==
  feeds' = [s \in Sources |-> IF feeds[s] = f THEN NoFeed ELSE feeds[s]]

\* As if the pump took its container off the map whatever feed was there.
FinishAny(f) ==
  /\ feed[f].pump = "closing"
  /\ feeds' = [feeds EXCEPT ![feed[f].source] = NoFeed]
  /\ Closing(f)
  /\ feed' = [feed EXCEPT ![f] =
       [feed[f] EXCEPT !.pump = "done", !.subs = {}, !.stopped = TRUE]]
  /\ UNCHANGED <<view, gone, todo>>

\* As if the pump did not set subs to nil.
FinishKeeping(f) ==
  /\ feed[f].pump = "closing"
  /\ Unmapped(f)
  /\ Closing(f)
  /\ feed' = [feed EXCEPT ![f] = [feed[f] EXCEPT !.pump = "done", !.stopped = TRUE]]
  /\ UNCHANGED <<view, gone, todo>>

\* As if the pump left its container on the map.
FinishMapped(f) ==
  /\ feed[f].pump = "closing"
  /\ Closing(f)
  /\ feed' = [feed EXCEPT ![f] =
       [feed[f] EXCEPT !.pump = "done", !.subs = {}, !.stopped = TRUE]]
  /\ UNCHANGED <<feeds, view, gone, todo>>

Finish(f) ==
  /\ feed[f].pump = "closing"
  /\ Unmapped(f)
  /\ Closing(f)
  /\ feed' = [feed EXCEPT ![f] =
       [feed[f] EXCEPT !.pump = "done", !.subs = {}, !.stopped = TRUE]]
  /\ UNCHANGED <<view, gone, todo>>

(***************************************************************************)
(* leave, and the idle timer it starts.                                    *)
(***************************************************************************)
Leaves(v, s) == gone[v] /\ HasSub(v, s) /\ ~sub[v][s].left

\* As if the last viewer's leaving did not start the timer.
LeaveUntimed(v, s) ==
  LET f == sub[v][s].feed
  IN /\ Leaves(v, s)
     /\ feed' = [feed EXCEPT ![f].subs = @ \ {v}]
     /\ sub' = [sub EXCEPT ![v][s] = [sub[v][s] EXCEPT !.left = TRUE, !.closed = TRUE]]
     /\ UNCHANGED <<feeds, view, gone, todo>>

Leave(v, s) ==
  LET f == sub[v][s].feed
  IN /\ Leaves(v, s)
     /\ sub' = [sub EXCEPT ![v][s] = [sub[v][s] EXCEPT !.left = TRUE, !.closed = TRUE]]
     /\ feed' = [feed EXCEPT ![f] = [feed[f] EXCEPT !.subs = @ \ {v},
                   !.idle = IF feed[f].subs = {v} THEN "armed" ELSE @]]
     /\ UNCHANGED <<feeds, view, gone, todo>>

Fire(f) ==
  /\ feed[f].idle = "armed"
  /\ feed' = [feed EXCEPT ![f].idle = "fired"]
  /\ UNCHANGED <<feeds, viewers>>

\* The feed keeps pointing to a timer that has done its work; no other code
\* looks at one that is not on the map.
Expire(f) ==
  /\ feed[f].idle = "fired"
  /\ Unmapped(f)
  /\ feed' = [feed EXCEPT ![f] = [feed[f] EXCEPT !.idle = "nil",
                !.stopped = @ \/ feeds[feed[f].source] = f]]
  /\ UNCHANGED viewers

\* As if the timer's function did not ask whether it is still the feed's timer.
ExpireAny(f) ==
  /\ feed[f].late
  /\ Unmapped(f)
  /\ feed' = [feed EXCEPT ![f] = [feed[f] EXCEPT !.late = FALSE,
                !.stopped = @ \/ feeds[feed[f].source] = f]]
  /\ UNCHANGED viewers

ExpireLate(f) ==
  /\ feed[f].late
  /\ feed' = [feed EXCEPT ![f].late = FALSE]
  /\ UNCHANGED <<feeds, viewers>>

(***************************************************************************)
(* The specification.  Before its first use a feed object is like one      *)
(* whose pump has returned.                                                *)
(***************************************************************************)
Init ==
  /\ feeds = [s \in Sources |-> NoFeed]
  /\ feed \in [Feeds -> [source : Sources, subs : {{}}, recent : {0}, idle : {"nil"},
                         late : {FALSE}, stopped : {TRUE}, pump : {"done"}]]
  /\ view = [v \in Viewers |-> "idle"]
  /\ gone = [v \in Viewers |-> FALSE]
  /\ todo = [v \in Viewers |-> {}]
  /\ sub = [v \in Viewers |-> [s \in Sources |-> NoSub]]

Forwarding(v, s) == Take(v, s) \/ GiveUp(v, s) \/ RangeEnds(v, s)

Next ==
  \/ \E v \in Viewers : Ask(v) \/ Opened(v) \/ CloseOut(v) \/ Cancel(v) \/ Forget(v)
  \/ \E v \in Viewers, s \in Sources :
       Watch(v, s) \/ Forwarding(v, s) \/ Hand(v, s) \/ Leave(v, s)
  \/ \E f \in Feeds : Receive(f) \/ Deliver(f) \/ StreamEnds(f) \/ Finish(f)
  \/ \E f \in Feeds : Fire(f) \/ Expire(f) \/ ExpireLate(f)

Spec == Init /\ [][Next]_vars

\* Goroutines run, Go's mutex lets none of them wait for ever, and a timer that
\* is not stopped fires.  Docker's stream ends once its context is cancelled;
\* until then neither a sample nor its end is owed.  A client may stay, and read
\* or not, as long as it likes; after the last sample its handler returns.
FairSpec ==
  /\ Spec
  /\ \A v \in Viewers :
       WF_vars(Opened(v)) /\ WF_vars(CloseOut(v)) /\ WF_vars(view[v] = "closed" /\ Cancel(v))
  /\ \A v \in Viewers, s \in Sources :
       WF_vars(Watch(v, s)) /\ WF_vars(Forwarding(v, s)) /\ WF_vars(Leave(v, s))
  /\ \A f \in Feeds :
       WF_vars(Deliver(f)) /\ WF_vars(feed[f].stopped /\ StreamEnds(f)) /\ WF_vars(Finish(f))
  /\ \A f \in Feeds : WF_vars(Fire(f)) /\ WF_vars(Expire(f))

-----------------------------------------------------------------------------
\* Every variable has a value the code could give it: a channel never holds more
\* than its capacity, so neither the replay nor the pump blocks with the mutex.
TypeOK ==
  /\ feeds \in [Sources -> Feeds \cup {NoFeed}]
  /\ feed \in [Feeds -> Feed]
  /\ view \in [Viewers -> {"idle", "opening", "open", "closed"}]
  /\ gone \in [Viewers -> BOOLEAN]
  /\ todo \in [Viewers -> SUBSET Sources]
  /\ sub \in [Viewers -> [Sources -> Sub \cup {NoSub}]]

\* Whatever a feed still sends to or will close is open: no send on a closed
\* channel and no second close, either of which would end the process.
SubscribedChannelsOpen ==
  \A f \in Feeds : \A v \in feed[f].subs :
    LET s == feed[f].source
    IN HasSub(v, s) /\ sub[v][s].feed = f /\ ~sub[v][s].closed

\* Whoever waits on an open channel is still in a feed whose pump has yet to
\* return, so the channel will carry on or be closed.
OpenChannelsServed ==
  \A v \in Viewers, s \in Sources :
    HasSub(v, s) /\ ~sub[v][s].closed =>
      LET f == sub[v][s].feed
      IN v \in feed[f].subs /\ feed[f].source = s /\ feed[f].pump # "done"

Streams(f) == feed[f].pump # "done" /\ ~feed[f].stopped

\* All viewers of a container share one Docker stream: a second one is opened
\* only when the first is cancelled or over.
OneStreamPerSource ==
  \A f, g \in Feeds :
    Streams(f) /\ Streams(g) /\ feed[f].source = feed[g].source => f = g

\* The idle timer never cuts off a viewer, not even one that came back after the
\* timer had fired and before its function got the mutex.
WatchedFeedRuns == \A f \in Feeds : feed[f].subs # {} => ~feed[f].stopped

\* A feed on the map runs for its container, and while nobody watches it the
\* timer that will end it is running: a feed can always be joined, never leaked.
MappedFeedsRun ==
  \A s \in Sources : feeds[s] # NoFeed =>
    LET f == feeds[s]
    IN /\ Streams(f) /\ feed[f].source = s
       /\ feed[f].subs = {} => feed[f].idle # "nil"

\* A Docker stream that is neither cancelled nor over is on the map.
StreamsMapped == \A f \in Feeds : Streams(f) => feeds[feed[f].source] = f

\* The rest is what the above rest on.  A container Metrics has not watched yet
\* has no channel, a channel belongs to a feed of its container and is closed by
\* leave if not before, and the timer is running only while nobody watches.
UnwatchedHaveNoChannel ==
  \A v \in Viewers, s \in Sources : view[v] = "idle" \/ s \in todo[v] => ~HasSub(v, s)
ChannelsKnowTheirFeed ==
  \A v \in Viewers, s \in Sources : HasSub(v, s) =>
    feed[sub[v][s].feed].source = s /\ (sub[v][s].left => sub[v][s].closed)
TimedFeedsUnwatched == \A f \in Feeds : feed[f].idle # "nil" => feed[f].subs = {}

\* The inductive invariant: the feeds, their channels, their timers and the map
\* agree whichever of the four kinds of goroutines gets the mutex next.
HubInv ==
  /\ TypeOK
  /\ SubscribedChannelsOpen /\ OpenChannelsServed
  /\ WatchedFeedRuns /\ MappedFeedsRun /\ StreamsMapped
  /\ UnwatchedHaveNoChannel /\ ChannelsKnowTheirFeed /\ TimedFeedsUnwatched

\* What a viewer that has gone held is given back: its channels are closed and
\* its goroutines have returned.
AbandonedViewsEnd == \A v \in Viewers : gone[v] ~> view[v] \in {"idle", "closed"}

\* A Docker stream without viewers ends, unless somebody comes back.
UnwatchedStreamsEnd ==
  \A f \in Feeds : (Streams(f) /\ feed[f].subs = {}) ~> (~Streams(f) \/ feed[f].subs # {})
=============================================================================
